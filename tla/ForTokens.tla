----------------------------- MODULE ForTokens -----------------------------
(* The options of FOR /F: what "tokens=", "delims=", "eol=", "skip=" and        *)
(* "usebackq" make of the FORINFO of a loop, and the tokens that a line gives.  *)
(* A text is a sequence of characters; delims and eol are sets of them.         *)
EXTENDS Integers, SequencesExt
CONSTANTS All,          \* ALL_TOKEN: 0xFFFF
          MaxTokens,    \* TOKENINFO_NB_MAX
          Space, Semicolon

ASSUME TokensAssumption == All \in Nat /\ MaxTokens \in Nat \ {0}

None == -1
\* |, bit by bit: there are no more than a + b of them.
BitOr(a, b) ==
    LET or[w \in 0..(a + b)] ==
            [p \in Nat \X Nat |-> IF w = 0 THEN 0
                                  ELSE (IF p[1] % 2 = 1 \/ p[2] % 2 = 1 THEN 1 ELSE 0)
                                       + 2 * or[w - 1][<<p[1] \div 2, p[2] \div 2>>]]
    IN  or[a + b][<<a, b>>]
Entry(b, e) == <<b % (All + 1), e % (All + 1)>>

(* A token list is read as a sequence of steps of the loop of ForMakeTokens: the number in front
   of a separator, or NoNumber, and the separator; the last separator is the end of the text. *)
NoNumber == -99
Put(st, b, e) ==
    IF st.n >= MaxTokens THEN [st EXCEPT !.status = "overflow"]
    ELSE [st EXCEPT !.n = @ + 1,
                    !.tok[st.n + 1] = <<BitOr(@[1], Entry(b, e)[1]), BitOr(@[2], Entry(b, e)[2])>>]
\* The entries of n-p, one for each token.
PutEach(st, b, e) ==
    LET nth(before, t) == IF before.status = "ok" THEN Put(before, t, t) ELSE before
        put[k \in 0..(e - b + 1)] == IF k = 0 THEN st ELSE nth(put[k - 1], b + k - 1)
    IN  IF e < b THEN st ELSE put[e - b + 1]

Number(st, num, sym) ==
    CASE num = NoNumber /\ st.prev = "*" /\ sym \notin {"*", ",", "end"} -> [st EXCEPT !.status = "bad"]
      [] num = NoNumber /\ ~(st.prev = "*" /\ sym \notin {"*", ",", "end"}) -> st
      [] num # NoNumber /\ st.prev = "*"                     -> [st EXCEPT !.status = "bad"]
      [] num # NoNumber /\ st.prev # "*" /\ st.op # "none"   -> [st EXCEPT !.end = num]
      [] num # NoNumber /\ st.prev # "*" /\ st.op = "none"   -> [st EXCEPT !.start = num]

Write(st) ==
    LET written == CASE st.op = "none" -> Put(st, st.start, st.start)
                     [] st.op # "none" /\ st.end = None -> [st EXCEPT !.status = "bad"]
                     [] st.op = "cat" /\ st.end # None  -> Put(st, st.start, st.end)
                     [] st.op = "list" /\ st.end # None -> PutEach(st, st.start, st.end)
    IN  [written EXCEPT !.last = IF st.op = "none" THEN st.start ELSE st.end,
                        !.start = None, !.end = None, !.op = "none"]

Operator(st, op) == IF st.end # None THEN [st EXCEPT !.status = "bad"] ELSE [st EXCEPT !.op = op]

StarAgain(st) ==   \* the last token again
    IF st.start = None THEN [st EXCEPT !.start = st.last, !.end = All, !.op = "cat"] ELSE [st EXCEPT !.end = All]
Star(st) ==
    CASE st.start = None -> [st EXCEPT !.start = st.last + 1, !.end = All, !.op = "cat"]
      [] st.start # None /\ st.op = "none" ->
            [Put(st, st.start, st.start) EXCEPT !.start = @ + 1, !.op = "cat", !.end = All]
      [] st.start # None /\ st.op = "list" -> [st EXCEPT !.status = "bad"]
      [] st.start # None /\ st.op = "cat"  -> [st EXCEPT !.end = All]

TokenStep(old, item) ==
    LET sym == item[2]
        st  == Number(old, item[1], sym)
        to  == [st EXCEPT !.prev = sym]
    IN  CASE old.status # "ok" -> old
          [] old.status = "ok" /\ st.status # "ok" -> st
          [] old.status = "ok" /\ st.status = "ok" ->
                 CASE st.start = None /\ sym # "*" -> [st EXCEPT !.status = "bad"]
                   [] st.start # None /\ sym \in {",", "end"} -> Write(to)
                   [] st.start # None /\ sym = "-" -> Operator(to, "list")
                   [] st.start # None /\ sym = "." -> Operator(to, "cat")
                   [] sym = "*" -> Star(to)
                   [] st.start # None /\ sym = "other" -> [st EXCEPT !.status = "bad"]

ForMakeTokens(list, info) ==
    LET none == [start |-> None, end |-> None, op |-> "none", prev |-> "", last |-> 0,
                 tok |-> info.tok, n |-> 0, status |-> "ok"]
        steps[k \in 0..Len(list)] == IF k = 0 THEN none ELSE TokenStep(steps[k - 1], list[k])
        st == steps[Len(list)]
    IN  [info EXCEPT !.tok = st.tok, !.status = st.status, !.iTokenNb = IF st.status = "ok" THEN st.n ELSE @]

\* The FORINFO of CmdFor, and of the loops that are rewritten as one over DIR.
Default == [delims |-> {Space}, eol |-> {Semicolon}, skip |-> 0, usebackq |-> FALSE, iTokenNb |-> 1,
            tok |-> [i \in 1..MaxTokens |-> IF i = 1 THEN <<1, 1>> ELSE <<0, 0>>], status |-> "ok"]
Deprecated == [Default EXCEPT !.eol = {}, !.tok[1] = <<1, All>>]

\* One option: delims takes the semicolon away from an eol that nobody gave.
Option(info, o) ==
    CASE info.status # "ok" -> info
      [] info.status = "ok" /\ o.type = "usebackq" -> [info EXCEPT !.usebackq = TRUE]
      [] info.status = "ok" /\ o.type = "delims" ->
             [info EXCEPT !.delims = o.chars, !.eol = IF Semicolon \in o.chars /\ @ = {Semicolon} THEN {} ELSE @]
      [] info.status = "ok" /\ o.type = "skip"   -> [info EXCEPT !.skip = o.n]
      [] info.status = "ok" /\ o.type = "eol"    -> [info EXCEPT !.eol = o.chars]
      [] info.status = "ok" /\ o.type = "tokens" -> ForMakeTokens(o.list, info)
      [] info.status = "ok" /\ o.type = "invalid" -> [info EXCEPT !.status = "unexpected"]
ForMakeInfo(options) ==
    LET read[k \in 0..Len(options)] == IF k = 0 THEN Default ELSE Option(read[k - 1], options[k])
    IN  read[Len(options)]

(* Where the tokens of a line start, a last empty one after trailing delimiters included, and the
   text from the token b to the end of the token e. *)
WordStarts(text, delims) ==
    {i \in DOMAIN text : text[i] \notin delims /\ (i = 1 \/ text[i - 1] \in delims)}
        \union (IF text = <<>> \/ Last(text) \in delims THEN {Len(text) + 1} ELSE {})
IsNth(i, n, S) == i \in S /\ Cardinality({j \in S : j < i}) = n - 1
EndOfPast(text, delims, i) ==   \* the delimiter, too
    LET after == {j \in i..Len(text) : text[j] \in delims} IN IF after = {} THEN Len(text) ELSE Min(after)
EndOf(text, delims, i) ==
    LET after == {j \in i..Len(text) : text[j] \in delims}
    IN  IF after = {} THEN Len(text) ELSE Min(after) - 1
ForGetToken(text, delims, entry) ==
    LET S == WordStarts(text, delims)
        b == {i \in S : IsNth(i, entry[1], S)}
        e == {i \in S : IsNth(i, entry[2], S)}
    IN  IF b = {} \/ entry[2] \in 1..(entry[1] - 1) THEN <<>>
        ELSE SubSeq(text, CHOOSE i \in b : TRUE, IF e = {} THEN Len(text) ELSE EndOf(text, delims, CHOOSE i \in e : TRUE))

-----------------------------------------------------------------------------
(* What the manual says of a list: its elements n, n-p, n.p, n.*, n* and *, and the ranges of
   tokens that they select. *)
ElementOK(e) == /\ e.form \in {"one", "list", "cat", "rest", "oneRest", "star"}
                /\ e.form # "star" => e.n \in Nat
                /\ e.form \in {"list", "cat"} => e.p \in Nat
Spelled(e, sep) ==
    CASE e.form = "one"     -> << <<e.n, sep>> >>
      [] e.form = "list"    -> << <<e.n, "-">>, <<e.p, sep>> >>
      [] e.form = "cat"     -> << <<e.n, ".">>, <<e.p, sep>> >>
      [] e.form = "rest"    -> << <<e.n, ".">>, <<NoNumber, "*">>, <<NoNumber, sep>> >>
      [] e.form = "oneRest" -> << <<e.n, "*">>, <<NoNumber, sep>> >>
      [] e.form = "star"    -> << <<NoNumber, "*">>, <<NoNumber, sep>> >>
Spell(elements) == FlattenSeq([i \in DOMAIN elements |-> Spelled(elements[i], IF i = Len(elements) THEN "end" ELSE ",")])

LastOf(e) == CASE e.form = "one" -> e.n [] e.form \in {"list", "cat"} -> e.p [] OTHER -> All
Selects(elements, i) ==
    LET e == elements[i]
    IN  CASE e.form = "one"     -> << Entry(e.n, e.n) >>
          [] e.form = "list"    -> [k \in 1..(e.p - e.n + 1) |-> Entry(e.n + k - 1, e.n + k - 1)]
          [] e.form = "cat"     -> << Entry(e.n, e.p) >>
          [] e.form = "rest"    -> << Entry(e.n, All) >>
          [] e.form = "oneRest" -> << Entry(e.n, e.n), Entry(e.n + 1, All) >>
          [] e.form = "star"    -> << Entry((IF i = 1 THEN 0 ELSE LastOf(elements[i - 1])) + 1, All) >>
Selected(elements) == FlattenSeq([i \in DOMAIN elements |-> Selects(elements, i)])
=============================================================================
