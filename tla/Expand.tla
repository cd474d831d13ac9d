------------------------------- MODULE Expand -------------------------------
(* How a line is rewritten: variables, arguments and loop variables, and what   *)
(* the text of a macro becomes. An item is a piece of a line with its meaning. *)
EXTENDS Texts
CONSTANTS Env,          \* the variables that exist: name -> text
          Arguments,    \* lpvArguments: character -> text
          LoopVars,     \* lpvLocalVars
          ScriptName,   \* ifIn.lpFileName
          Directory,    \* lpCurrentDir, ends with a slash
          MaxOptions,   \* PBAT_VAR_MAX_OPTION
          Lines, Macros \* the lines and calls of macros that are tried

VARIABLES items, line, phase, delayed
vars == <<items, line, phase, delayed>>

Digits == <<"0", "1", "2", "3", "4", "5", "6", "7", "8", "9">>
IsDigit(c) == \E n \in DOMAIN Digits : Digits[n] = c
Atol(t) == \* the digits it starts with, behind a sign
    LET minus == t # <<>> /\ t[1] = "-"
        d == IF minus THEN Tail(t) ELSE t
        value[n \in 0..Len(d)] ==
            IF n = 0 THEN 0
            ELSE LET before == value[n - 1]
                 IN  IF \A k \in 1..n : IsDigit(d[k]) THEN before * 10 + (CHOOSE v \in 0..9 : Digits[v + 1] = d[n]) ELSE before
    IN  IF minus THEN -value[Len(d)] ELSE value[Len(d)]

Matches(s, k, pat) == k + Len(pat) - 1 <= Len(s) /\ SubSeq(s, k, k + Len(pat) - 1) = pat
RECURSIVE EsReplace(_, _, _)
\* An empty pattern is found for ever.
EsReplace(s, pat, by) ==
    LET k == First({i \in DOMAIN s : Matches(s, i, pat)})
    IN  IF k = Null THEN s ELSE Before(s, k) \o by \o EsReplace(From(s, k + Len(pat)), pat, by)

-----------------------------------------------------------------------------
(* pBat_GetVar: %name%, %name:a=b%, %name:~begin,len% and %name:text%. *)
Index(s, from, c) == First({i \in from..Len(s) : s[i] = c})
Cut(text, begin, len) ==
    LET total == Len(text)
        b == IF begin < 0 /\ (IF len > 0 THEN total + begin >= len ELSE begin <= len) THEN total + begin ELSE begin
    IN  CASE b < 0 \/ b > total -> <<>>
          [] b \in 0..total /\ len > 0 -> IF b + len <= total THEN SubSeq(text, b + 1, b + len) ELSE <<>>
          [] b \in 0..total /\ len <= 0 -> IF -len <= total - b THEN SubSeq(text, b + 1, total + len) ELSE <<>>
GetVar(asked) ==
    LET colon == Index(asked, 1, ":")
        option == From(asked, colon + 1)
        equal == Index(option, 1, "=")
        cut == equal = Null /\ option # <<>> /\ option[1] = "~"
        comma == Index(option, 1, ",")
        name == IF colon = Null THEN asked ELSE Before(asked, colon)
        text == IF name = <<"C", "D">> THEN Directory ELSE Env[name]
    IN  IF name \notin DOMAIN Env \cup {<<"C", "D">>}
        THEN IF colon # Null /\ equal = Null /\ ~cut THEN option ELSE <<>>
        ELSE CASE colon = Null -> text
               [] colon # Null /\ equal # Null -> EsReplace(text, Before(option, equal), From(option, equal + 1))
               [] colon # Null /\ equal = Null /\ cut ->
                      Cut(text, Atol(From(option, 2)), IF comma = Null THEN 0 ELSE Atol(From(option, comma + 1)))
               [] colon # Null /\ equal = Null /\ ~cut -> text

-----------------------------------------------------------------------------
(* The parts of a path, and pBat_GetLocalVar: %c and %~flags c. *)
Slash == {"/", "\\"}
SplitPath(p) ==
    LET disk == Len(p) >= 3 /\ p[2] = ":" /\ p[3] \in Slash
        rest == IF disk THEN From(p, 4) ELSE p
        cut == SearchLastToken(rest, 1, Slash)
        name == From(rest, cut + 1)
        dot == SearchLastChar(name, 1, ".")
    IN  [d |-> IF disk THEN SubSeq(p, 1, 2) ELSE <<>>, p |-> SubSeq(rest, 1, cut),
         n |-> IF dot = Null THEN name ELSE Before(name, dot), x |-> IF dot = Null THEN <<>> ELSE From(name, dot)]
FullPath(t) == IF t # <<>> /\ t[1] = "/" THEN t ELSE Directory \o t

Unquote(t) ==
    IF t = <<>> THEN t
    ELSE IF t[1] \notin {Quote, "'"} THEN t
    ELSE LET last == Final({i \in DOMAIN t : t[i] = t[1]})
         IN  IF last = 1 THEN Tail(t) ELSE SubSeq(t, 2, last - 1)

Flags == {"f", "d", "n", "p", "x", "z", "t", "a"}
\* What stands between a part and the next.
Glue(flag, next) == IF next = <<>> \/ <<flag, next[1]>> \in {<<"d", "p">>, <<"p", "n">>, <<"n", "x">>} THEN <<>> ELSE <<"T">>
RECURSIVE PutFlags(_, _)
PutFlags(flags, path) ==
    IF flags = <<>> THEN <<>>
    ELSE LET f == flags[1]
             part == CASE f = "f" -> path
                       [] f \in {"d", "p", "n", "x"} -> SplitPath(path)[f]
                       [] f \in {"z", "t", "a"} -> << <<f, path>> >>    \* what stat() says of the file
         IN  part \o Glue(f, Tail(flags)) \o PutFlags(Tail(flags), path)

Nothing == [next |-> Null, text |-> <<>>]
\* The flags that could stand there, then the name; or the last of them that is a name.
LongestFlags(s, from) == LET stops == {k \in from..Len(s) : s[k] \notin Flags \/ k = from + MaxOptions}
                         IN  IF stops = {} THEN Len(s) + 1 ELSE First(stops)
NameAt(block, s, from) ==
    LET stop == LongestFlags(s, from)
    IN  Final({k \in from..stop : k <= Len(s) /\ (IF k <= Len(s) THEN s[k] \in DOMAIN block ELSE FALSE)})
GetLocalVar(block, s) ==
    IF s = <<>> THEN Nothing
    ELSE IF s[1] # "~" THEN IF s[1] \in DOMAIN block THEN [next |-> 2, text |-> block[s[1]]] ELSE Nothing
    ELSE LET k == NameAt(block, s, 2)
             flags == SubSeq(s, 2, k - 1)
             plain == Unquote(block[s[k]])
         IN  IF k = Null THEN Nothing
             ELSE [next |-> k + 1,
                   text |-> IF flags = <<>> THEN plain
                            ELSE PutFlags(flags, IF s[k] = "0" THEN ScriptName ELSE FullPath(plain))]

-----------------------------------------------------------------------------
RECURSIVE ExpandSpecialVar(_), ExpandVar(_, _)
ExpandSpecialVar(s) ==
    LET k == SearchChar(s, 1, "%")
        var == GetLocalVar(LoopVars, From(s, k + 1))
    IN  IF k = Null THEN s
        ELSE IF var.next = Null THEN SubSeq(s, 1, k) \o ExpandSpecialVar(From(s, k + 1))
        ELSE Before(s, k) \o var.text \o ExpandSpecialVar(From(s, k + var.next))

\* A delimiter: twice it stands for itself, then an argument, then a variable; alone it disappears.
ExpandVar(s, d) ==
    LET k == SearchChar(s, 1, d)
        rest == From(s, k + 1)
        plain == IF k = Null THEN s ELSE Before(s, k)
        text == IF d = "!" THEN UnEscape(plain) ELSE plain
        mayBeArgument == d = "%" /\ (IsDigit(rest[1]) \/ rest[1] \in {"*", "+", "~"})
        argument == IF mayBeArgument THEN GetLocalVar(Arguments, rest) ELSE Nothing
        e == SearchChar(rest, 1, d)
    IN  IF k = Null \/ rest = <<>> THEN text
        ELSE text \o (IF rest[1] = d THEN <<d>> \o ExpandVar(Tail(rest), d)
                      ELSE IF argument.next # Null THEN argument.text \o ExpandVar(From(rest, argument.next), d)
                      ELSE IF e # Null THEN GetVar(Before(rest, e)) \o ExpandVar(From(rest, e + 1), d)
                      ELSE ExpandVar(rest, d))

ReplaceVars == /\ phase = "read"
               /\ line' = ExpandVar(line, "%")
               /\ phase' = "parsed"
               /\ UNCHANGED <<items, delayed>>
DelayedExpand == /\ phase = "parsed"
                 /\ LET s == ExpandSpecialVar(line)
                    IN  line' = IF delayed THEN ExpandVar(s, "!") ELSE UnEscape(s)
                 /\ phase' = "done"
                 /\ UNCHANGED <<items, delayed>>

\* The parameters are replaced one after the other, "$*" first; the tenth is named $:.
ParameterBefore(n) == Digits[n]       \* from $0 on
Parameter(n) == IF n = 10 THEN ":" ELSE Digits[n + 1]
MacroLine(text, all, params) ==
    LET after[n \in 0..10] ==
            IF n = 0 THEN EsReplace(text, <<"$", "*">>, all)
            ELSE LET before == after[n - 1]
                 IN  EsReplace(before, <<"$", Parameter(n)>>, IF n <= Len(params) THEN params[n] ELSE <<>>)
    IN  after[10]

-----------------------------------------------------------------------------
(* An item of a line: how it is written and what it stands for. *)
Text(it) == CASE it.kind = "literal" -> it.text
              [] it.kind = "escape"  -> <<"^", it.char>>
              [] it.kind = "var"     -> <<"%">> \o it.name \o <<"%">>
              [] it.kind = "cut"     -> <<"%">> \o it.name \o <<":", "~">> \o it.b \o (IF it.l = <<>> THEN <<>> ELSE <<",">> \o it.l) \o <<"%">>
              [] it.kind = "replace" -> <<"%">> \o it.name \o <<":">> \o it.a \o <<"=">> \o it.b \o <<"%">>
              [] it.kind = "default" -> <<"%">> \o it.name \o <<":">> \o it.text \o <<"%">>
              [] it.kind = "argument" -> <<"%">> \o it.flags \o <<it.char>>
              [] it.kind = "loop"    -> <<"%", "%">> \o it.flags \o <<it.char>>
              [] it.kind = "bang"    -> <<"!">> \o it.name \o <<"!">>
RECURSIVE Written(_)
Written(its) == IF its = <<>> THEN <<>> ELSE Text(its[1]) \o Written(Tail(its))

Value(name) == IF name \in DOMAIN Env THEN Env[name] ELSE <<>>
ItemOf(t, flags, name) == IF flags = <<>> THEN t ELSE IF flags = <<"~">> THEN Unquote(t)
                          ELSE PutFlags(Tail(flags), IF name = "0" THEN ScriptName ELSE FullPath(Unquote(t)))
\* The manual (exp.tea:83-96): a position below zero counts from the end, and so does a length; without one the
\* rest is taken.
FromEnd(n, total) == IF n < 0 THEN total + n ELSE n
Stop(it, start, total) == IF it.l = <<>> THEN total
                          ELSE IF Atol(it.l) >= 0 THEN start + Atol(it.l) ELSE total + Atol(it.l)
Part(text, it) == LET start == FromEnd(Atol(it.b), Len(text)) IN SubSeq(text, start + 1, Stop(it, start, Len(text)))
Proper(text, it) == LET start == FromEnd(Atol(it.b), Len(text)) IN start \in 0..Len(text) /\ Stop(it, start, Len(text)) \in start..Len(text)
Meaning(it) ==
    CASE it.kind = "literal" -> it.text
      [] it.kind = "escape"  -> <<it.char>>
      [] it.kind = "var"     -> Value(it.name)
      [] it.kind = "cut"     -> IF Proper(Value(it.name), it) THEN Part(Value(it.name), it) ELSE <<>>
      [] it.kind = "replace" -> LET v == Value(it.name) IN \* characters, in the lines that are tried
                                [i \in DOMAIN v |-> IF <<v[i]>> = it.a THEN it.b[1] ELSE v[i]]
      [] it.kind = "default" -> IF it.name \in DOMAIN Env THEN Env[it.name] ELSE it.text
      [] it.kind = "argument" -> ItemOf(Arguments[it.char], it.flags, it.char)
      [] it.kind = "loop"    -> IF it.char \in DOMAIN LoopVars THEN ItemOf(LoopVars[it.char], it.flags, it.char)
                                ELSE <<"%">> \o it.flags \o <<it.char>>
      [] it.kind = "bang"    -> IF delayed THEN Value(it.name) ELSE <<"!">> \o it.name \o <<"!">>
RECURSIVE Meanings(_)
Meanings(its) == IF its = <<>> THEN <<>> ELSE Meaning(its[1]) \o Meanings(Tail(its))

(* A macro: its definition, and what it is called with. *)
MacroText(it) == CASE it.kind = "all" -> <<"$", "*">> [] it.kind = "nth" -> <<"$", Digits[it.n + 1]>> [] it.kind = "literal" -> it.text
RECURSIVE MacroWritten(_), MacroMeanings(_, _)
MacroWritten(its) == IF its = <<>> THEN <<>> ELSE MacroText(its[1]) \o MacroWritten(Tail(its))
RECURSIVE Joined(_)
Joined(params) == IF params = <<>> THEN <<>>
                  ELSE IF Len(params) = 1 THEN params[1] ELSE params[1] \o <<" ">> \o Joined(Tail(params))
MacroMeanings(its, params) ==
    IF its = <<>> THEN <<>>
    ELSE (CASE its[1].kind = "all" -> Joined(params)
            [] its[1].kind = "nth" -> IF its[1].n <= Len(params) THEN params[its[1].n] ELSE <<>>
            [] its[1].kind = "literal" -> its[1].text) \o MacroMeanings(Tail(its), params)

ExpandDef == /\ phase = "macro"
             /\ line' = MacroLine(line, Joined(items.params), items.params)
             /\ phase' = "macro done"
             /\ UNCHANGED <<items, delayed>>

Init == /\ delayed \in BOOLEAN
        /\ \/ phase = "read" /\ items \in Lines /\ line = Written(items)
           \/ phase = "macro" /\ items \in Macros /\ line = MacroWritten(items.body)
Next == ReplaceVars \/ DelayedExpand \/ ExpandDef
Spec == Init /\ [][Next]_vars

-----------------------------------------------------------------------------
\* The two cuts that are not what the manual says.
NoLength(it) == it.l # <<>> /\ Atol(it.l) = 0
FewBefore(text, it) == Atol(it.b) < 0 /\ Atol(it.l) > Len(text) + Atol(it.b)

(* A line becomes what its items stand for, one after the other: no item takes a part of the next one,
   and the two passes do not expand what is escaped or was expanded. A cut is the part of the value that the manual
   says, and nothing when it does not lie in the value, of which the manual does not speak. Two cuts are excepted:
   a length of 0 is taken as none, so %v:~1,0% is the rest of the value and not nothing (pBat_Var.c:277); and a
   position from the end stays below zero, so that nothing is cut, when the length is more than the number of
   characters in front of it (pBat_Var.c:237). *)
MeansItsItems ==
    phase = "done" /\ (\A i \in DOMAIN items : items[i].kind = "cut" =>
                           ~NoLength(items[i]) /\ ~FewBefore(Value(items[i].name), items[i]))
        => line = Meanings(items)

(* The drive, path, name and extension of an argument, together, are the argument as a full path. *)
PartsMakeThePath ==
    phase = "done" /\ Len(items) = 1 =>
        (items[1].kind = "argument" => (items[1].flags = <<"~", "d", "p", "n", "x">> =>
            line = FullPath(Unquote(Arguments[items[1].char]))))

(* Each $n of a macro becomes the n-th parameter and $* all of them, as long as no parameter holds a dollar. *)
MacroMeansItsItems == phase = "macro done" => line = MacroMeanings(items.body, items.params)
=============================================================================
