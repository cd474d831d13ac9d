------------------------------ MODULE ForLoop ------------------------------
(* FOR: its five forms, the loop variables, and loops in the body of loops. A  *)
(* frame is a CmdForSimple, CmdForL or CmdForF on the C stack.                 *)
EXTENDS ForTokens
CONSTANTS NVars,              \* the loop variables are 1..NVars: the characters 0x21 to 0x7F
          Commands,           \* the FOR lines a script may hold, a sequence
          FilesOf,            \* the files each pattern stands for
          IntMin, IntMax,     \* the range of an int
          NoValue,
          Wild,               \* the character of a pattern
          Missing,            \* a file that is not there, a text that is no number
          MaxFiles,           \* the files an input may name, 128
          MaxStarts           \* bound: the FOR lines that are run

VARIABLES lvars,     \* lpvLocalVars
          frames,    \* the loops that run, the inner one first
          abort,     \* bAbortCommand
          status,    \* what the last FOR returned
          correct,   \* bCmdlyCorrect
          opened,    \* the input files that are open
          crashed,   \* fclose() was given a null pointer
          starts

vars == <<lvars, frames, abort, status, correct, opened, crashed, starts>>

Vars == 1..NVars
Kind(c) == IF c.switches = <<>> THEN "simple" ELSE Last(c.switches)    \* the last of /F /L /R /D

Least(i, j) == IF i < j THEN i ELSE j
Pattern(t) == Wild \in {t[i] : i \in DOMAIN t}
Printed(i) == <<100 + i>>          \* the digits of a number: a text of its own for each
SetLocalVar(v, text) == [lvars EXCEPT ![v] = text]

(* FORINFO's variables: the first, and the next ones in the order of the characters. *)
Wrapped(v) == IF v > NVars THEN v - NVars ELSE v
ForSplitTokens(line, info, first) ==
    [v \in Vars |-> IF \E i \in 1..info.iTokenNb : Wrapped(first + i - 1) = v
                    THEN ForGetToken(line, info.delims, info.tok[CHOOSE i \in 1..info.iTokenNb :
                              Wrapped(first + i - 1) = v /\ \A k \in (i + 1)..info.iTokenNb : Wrapped(first + k - 1) # v])
                    ELSE lvars[v]]
ForVarUnassignAllButOne(info, first) == [v \in Vars |-> IF v \in first..(first + info.iTokenNb - 2) THEN NoValue ELSE lvars[v]]  \* one too few
\* The variables behind the last character are not unset.
ForVarUnassign(info, first) == [v \in Vars |-> IF v \in first..(first + info.iTokenNb - 1) THEN NoValue ELSE lvars[v]]
\* Every round tests the first variable.
ForVarCheckAssignment(info, first) == info.iTokenNb = 0 \/ lvars[first] = NoValue

-----------------------------------------------------------------------------
Init == /\ lvars = [v \in Vars |-> NoValue]
        /\ frames = <<>> /\ abort = FALSE /\ status = "ok"
        /\ correct \in BOOLEAN
        /\ opened = 0 /\ crashed = FALSE /\ starts = 0

Top == Head(frames)
Push(f) == frames' = <<f>> \o frames
Replace(f) == frames' = <<f>> \o Tail(frames)
\* The loop is over: its caller is the body of the loop around it.
Pop(s) == frames' = Tail(frames) /\ status' = s

(* What is between the switches and the variable is an error in a simple loop and in /L, a directory
   in /R and /D, options in /F. *)
ParseStatus(c, info) ==
    CASE c.form = "incomplete" -> "expected more"
      [] c.form # "incomplete" /\ Kind(c) \in {"simple", "L"} /\ c.options # <<>> -> "unexpected"
      [] c.form # "incomplete" /\ Kind(c) \in {"R", "D"} /\ Len(c.options) > 1 -> "unexpected"
      [] c.form # "incomplete" /\ Kind(c) = "F" /\ info.status # "ok" -> info.status
      [] OTHER -> IF c.form = "ok" THEN "ok" ELSE c.form

Refuse(s) == /\ status' = s
             /\ UNCHANGED <<lvars, frames, abort, correct, opened, crashed>>

StartSimple(c) ==
    /\ Push([kind |-> "simple", var |-> c.var, items |-> c.input, files |-> <<>>, body |-> FALSE])
    /\ UNCHANGED <<lvars, abort, status, correct, opened, crashed>>

\* Less than three numbers: the others are zero.
StartL(c) ==
    IF Len(c.input) > 3 \/ \E i \in DOMAIN c.input : c.input[i] = Missing
    THEN Refuse("bad input")
    ELSE LET n(k) == IF k <= Len(c.input) THEN c.input[k] ELSE 0
         IN  /\ Push([kind |-> "L", var |-> c.var, begin |-> n(1), inc |-> n(2), end |-> n(3),
                      i |-> n(1), rounds |-> 0, body |-> FALSE])
             /\ UNCHANGED <<lvars, abort, status, correct, opened, crashed>>

(* The input of /F: the output of a command or a string, as one list of lines, or the files that are
   named, the first of which is opened. *)
InputType(quote, usebackq) ==
    CASE quote = "single" -> IF usebackq THEN "string" ELSE "command"
      [] quote = "back" -> IF usebackq THEN "command" ELSE "bad"
      [] quote = "double" -> IF usebackq THEN "files" ELSE "string"
      [] quote = "none" -> "files"
\* What follows the other quote goes.
ForAdjustInput(c) == c.closed
ForInputParseFileList(input) == SubSeq(input, 1, Least(Len(input), MaxFiles))
StartF(c, info, back) ==
    LET type == InputType(c.quote, info.usebackq)
        files == ForInputParseFileList(c.input)
    IN  IF \/ ~ForVarCheckAssignment(info, c.var)
           \/ type = "bad"
           \/ type \in {"string", "command"} /\ ~ForAdjustInput(c)
           \/ type = "files" /\ (IF files = <<>> THEN TRUE ELSE Head(files) = Missing)
        THEN Refuse(back)
        ELSE /\ Push([kind |-> "F", var |-> c.var, info |-> info, skip |-> info.skip, type |-> type,
                      lines |-> Head(c.input), files |-> IF type = "files" THEN Tail(files) ELSE <<>>,
                      options |-> c.options, body |-> FALSE])
             /\ opened' = IF type = "string" THEN opened ELSE opened + 1
             /\ UNCHANGED <<lvars, abort, status, correct, crashed>>

(* A FOR line has a variable of ASCII, or is refused, and /F options that ForGetSpecifier tells apart.
   strtol gives an int or no number; what is read is a list of lines, and a string or the output of a
   command is always there. *)
IsText(s) == s \in Seq(Range(s))
IsLines(s) == IsText(s) /\ \A line \in Range(s) : IsText(line)
OptionOK(o) == \/ o.type \in {"usebackq", "delims", "skip", "eol", "invalid"}
               \/ /\ o.type = "tokens" /\ o.list \in Seq(Int \X {",", "end", "-", ".", "*", "other"})
                  /\ IsText(o.elements) /\ \A e \in Range(o.elements) : ElementOK(e)      \* what the list was written from
InputOK(c) ==
    /\ \A t \in Range(c.input) : t = Missing \/ IsLines(t)
    /\ \/ c.input # <<>> /\ Head(c.input) # Missing
       \/ Kind(c) = "F" /\ InputType(c.quote, ForMakeInfo(c.options).usebackq) \in {"files", "bad"}
CommandOK(c) ==
    /\ DOMAIN c = {"switches", "options", "var", "form", "quote", "closed", "input"}
    /\ c.var \in Vars /\ c.switches \in Seq({"F", "L", "R", "D"}) /\ c.quote \in {"none", "single", "double", "back"}
    /\ IsText(c.options) /\ (Kind(c) = "F" => \A o \in Range(c.options) : OptionOK(o))
    /\ IsText(c.input) /\ (Kind(c) = "L" => Range(c.input) \subseteq (IntMin..IntMax) \cup {Missing})
    /\ Kind(c) \in {"F", "R", "D"} => InputOK(c)
ASSUME CommandsAssumption ==
    /\ NVars \in Nat /\ MaxTokens <= NVars + 1 /\ MaxFiles \in Nat
    /\ IntMin \in Int /\ IntMax \in Nat /\ IntMin <= 0
    /\ \A i \in DOMAIN Commands : CommandOK(Commands[i])

CmdFor(c) ==
    /\ ~crashed /\ ~abort /\ starts < MaxStarts /\ starts' = starts + 1
    /\ IF frames = <<>> THEN TRUE ELSE Top.body
    /\ LET info == IF Kind(c) = "F" THEN ForMakeInfo(c.options) ELSE Default
           parsed == ParseStatus(c, info)
       IN  CASE parsed # "ok" -> Refuse(parsed)
              [] parsed = "ok" /\ Kind(c) = "simple" -> StartSimple(c)
              [] parsed = "ok" /\ Kind(c) = "L" -> StartL(c)
              [] parsed = "ok" /\ Kind(c) = "F" -> StartF(c, info, "bad input")
              [] parsed = "ok" /\ Kind(c) \in {"R", "D"} -> StartF([c EXCEPT !.quote = "single", !.options = <<>>], Deprecated, "wrapper")

(* The body of the inner loop ends, by itself or with a GOTO or an EXIT /B. *)
RunParsedLine(goto) ==
    /\ ~crashed /\ frames # <<>> /\ Top.body
    /\ abort' = (abort \/ goto)
    /\ Replace([Top EXCEPT !.body = FALSE])
    /\ UNCHANGED <<lvars, status, correct, opened, crashed, starts>>
Clear == /\ abort /\ frames = <<>> /\ abort' = FALSE
         /\ UNCHANGED <<lvars, frames, status, correct, opened, crashed, starts>>

Between(kind) == ~crashed /\ frames # <<>> /\ ~Top.body /\ Top.kind = kind
Run(f) == /\ Replace([f EXCEPT !.body = TRUE])
          /\ UNCHANGED <<abort, status, correct, opened, crashed, starts>>
Leave == /\ lvars' = SetLocalVar(Top.var, NoValue)
         /\ Pop("ok")
         /\ UNCHANGED <<abort, correct, opened, crashed, starts>>

\* A file that matches, then the next item; a pattern is replaced by its files.
SimpleFile == /\ Between("simple") /\ ~abort /\ Top.files # <<>>
              /\ lvars' = SetLocalVar(Top.var, Head(Top.files))
              /\ Run([Top EXCEPT !.files = Tail(@)])
SimpleItem == /\ Between("simple") /\ ~abort /\ Top.files = <<>> /\ Top.items # <<>>
              /\ ~Pattern(Head(Top.items))
              /\ lvars' = SetLocalVar(Top.var, Head(Top.items))
              /\ Run([Top EXCEPT !.items = Tail(@)])
SimplePattern == /\ Between("simple") /\ ~abort /\ Top.files = <<>> /\ Top.items # <<>>
                 /\ Pattern(Head(Top.items))
                 /\ Replace([Top EXCEPT !.items = Tail(@), !.files = FilesOf[Head(Top.items)]])
                 /\ UNCHANGED <<lvars, abort, status, correct, opened, crashed, starts>>
SimpleEnd == /\ Between("simple")
             /\ abort \/ (Top.files = <<>> /\ Top.items = <<>>)
             /\ Leave

(* /L tests i <= end whatever the step is. Past IntMax the sum is undefined: it wraps, as the machine
   does, or the compiler took the test to be true for ever. *)
CmdForL == /\ Between("L") /\ ~abort /\ Top.i <= Top.end
           /\ lvars' = SetLocalVar(Top.var, Printed(Top.i))
           /\ LET sum == Top.i + Top.inc
                  next == IF sum > IntMax THEN sum - (IntMax - IntMin + 1)
                          ELSE IF sum < IntMin THEN sum + (IntMax - IntMin + 1) ELSE sum
              IN  Run([Top EXCEPT !.i = next, !.rounds = IF @ > IntMax - IntMin THEN @ ELSE @ + 1])
LEnd == /\ Between("L") /\ (abort \/ Top.i > Top.end)
        /\ Leave

(* /F: one line of the input after the other. *)
Blank(line) == \A i \in DOMAIN line : line[i] = Space
ReadsLine == Between("F") /\ ~abort /\ Top.lines # <<>>
Drops(line) == \/ correct /\ Blank(line)                                 \* ForGetInputLine reads another
               \/ Top.skip > 0
               \/ Top.info.eol # {} /\ (IF line = <<>> THEN TRUE ELSE Head(line) \in Top.info.eol)  \* strchr finds the end of the text
FLine == /\ ReadsLine /\ ~Drops(Head(Top.lines))
         /\ lvars' = ForSplitTokens(Head(Top.lines), Top.info, Top.var)
         /\ Run([Top EXCEPT !.lines = Tail(@)])
\* Looks at the same line again.
FDropStays == /\ ReadsLine /\ Drops(Head(Top.lines))
              /\ Replace([Top EXCEPT !.skip = IF @ > 0 THEN @ - 1 ELSE @])
              /\ UNCHANGED <<lvars, abort, status, correct, opened, crashed, starts>>
FDrop == /\ ReadsLine /\ Drops(Head(Top.lines))
         /\ Replace([Top EXCEPT !.lines = Tail(@),
                                !.skip = IF @ > 0 /\ ~(correct /\ Blank(Head(Top.lines))) THEN @ - 1 ELSE @])
         /\ UNCHANGED <<lvars, abort, status, correct, opened, crashed, starts>>
\* The file that was read stays open.
FNextFile == /\ Between("F") /\ ~abort /\ Top.lines = <<>> /\ Top.files # <<>> /\ Head(Top.files) # Missing
             /\ Replace([Top EXCEPT !.lines = Head(Top.files), !.files = Tail(@)])
             /\ opened' = opened + 1
             /\ UNCHANGED <<lvars, abort, status, correct, crashed, starts>>
\* No other file, or one that cannot be opened: the loop ends, and closes the file it has, or none.
FEnd == /\ Between("F")
        /\ LET ends == Top.lines = <<>> /\ Top.files = <<>>
               fails == ~abort /\ Top.lines = <<>> /\ Top.files # <<>> /\ Head(Top.files) = Missing
           IN  /\ abort \/ ends \/ fails
               /\ crashed' = fails
               /\ opened' = IF fails \/ Top.type = "string" THEN opened ELSE opened - 1
        /\ lvars' = ForVarUnassign(Top.info, Top.var)
        /\ Pop("ok")
        /\ UNCHANGED <<abort, correct, starts>>

Next == \/ \E i \in DOMAIN Commands : CmdFor(Commands[i])
        \/ \E goto \in BOOLEAN : RunParsedLine(goto)
        \/ Clear
        \/ SimpleFile \/ SimpleItem \/ SimplePattern \/ SimpleEnd
        \/ CmdForL \/ LEnd
        \/ FLine \/ FDrop \/ FNextFile \/ FEnd

\* A thread runs on: a body ends, and a loop takes its next step.
Fairness == /\ WF_vars(RunParsedLine(FALSE))
            /\ WF_vars(SimpleFile \/ SimpleItem \/ SimplePattern \/ SimpleEnd)
            /\ WF_vars(CmdForL \/ LEnd)
            /\ WF_vars(FLine \/ FDrop \/ FNextFile \/ FEnd)
Spec == Init /\ [][Next]_vars /\ Fairness

-----------------------------------------------------------------------------
Frame == [kind : {"simple", "L", "F"}, var : Vars, body : BOOLEAN]
TypeOK == /\ DOMAIN lvars = Vars
          /\ \A i \in DOMAIN frames : [kind |-> frames[i].kind, var |-> frames[i].var, body |-> frames[i].body] \in Frame
          /\ \A i \in 2..Len(frames) : frames[i].body         \* the loops around wait for the inner one
          /\ \A i \in DOMAIN frames : frames[i].kind = "F" => frames[i].info.iTokenNb \in 0..MaxTokens
        /\ {abort, correct, crashed} \subseteq BOOLEAN /\ opened \in Nat

\* The variables that the token list of a line wraps around to: behind the last character comes the first.
WrapsTo == {v \in Vars : \E i \in DOMAIN Commands :
               LET info == ForMakeInfo(Commands[i].options)
               IN  Kind(Commands[i]) = "F" /\ info.status = "ok" /\ v < Commands[i].var + info.iTokenNb - NVars}
(* When no loop runs no loop variable has a value, whatever the loops did with each other's variables
   and however they ended, but for those a token list wrapped around to, which nobody unsets. The loops
   around the inner one wait for it, and a token list fits in its FORINFO. *)
NothingLeft == TypeOK /\ (frames = <<>> => \A v \in Vars : lvars[v] = NoValue \/ v \in WrapsTo)

(* FOR /L with a step above zero whose end is not at the edge of the integers goes through its numbers
   and no other; loops in its body do not disturb it. *)
Regular(f) == f.kind = "L" /\ f.inc > 0 /\ f.end + f.inc <= IntMax
Numbers(f) == {n \in IntMin..IntMax : n <= f.end /\ n >= f.begin /\ (n - f.begin) % f.inc = 0}
\* Round after round, as many numbers are below the one that is given as rounds are over; at the end they all are.
GivesNumber == CmdForL /\ Regular(Top) =>
                   \E n \in Numbers(Top) : /\ lvars'[Top.var] = Printed(n)
                                            /\ Top.rounds = Cardinality({m \in Numbers(Top) : m < n})
HasCounted == LEnd /\ ~abort /\ Regular(Top) => Top.rounds = Cardinality(Numbers(Top))
Counts == [][GivesNumber /\ HasCounted]_vars

(* A loop ends, unless it counts for ever or waits for a loop that does. *)
Endless(f) == f.kind = "L" /\ ~Regular(f) /\ f.begin <= f.end
LoopsEnd == frames # <<>> ~> (frames = <<>> \/ crashed \/ \E i \in DOMAIN frames : Endless(frames[i]))

(* A token list that is written as the manual says, and given once, selects what the manual says of its
   elements, but for its first entry, which is combined with the one of the default list. *)
TokenLists(f) == {j \in DOMAIN f.options : f.options[j].type = "tokens"}
MeansIts(info, list) == /\ info.iTokenNb = Len(list)
                        /\ \A k \in 2..Len(list) : info.tok[k] = list[k]
                        /\ list # <<>> => \A side \in 1..2 : info.tok[1][side] = BitOr(1, list[1][side])
MeansItsElements(f) ==
    \A j \in TokenLists(f) : TokenLists(f) = {j} /\ f.options[j].list = Spell(f.options[j].elements) =>
        MeansIts(f.info, Selected(f.options[j].elements))
MeansItsList == \A i \in DOMAIN frames : frames[i].kind = "F" => MeansItsElements(frames[i])

(* The variable of an entry n-p of the FORINFO holds the line from its n-th word to the end of its p-th: one word when
   n is p, the rest of the line when it has fewer than p, and nothing when it has fewer than n. The words of a line
   are what delimiters part. *)
Words(line, delims) == {i \in DOMAIN line : line[i] \notin delims /\ (IF i = 1 THEN TRUE ELSE line[i - 1] \in delims)}
NthWord(line, delims, n) == {i \in Words(line, delims) : Cardinality({j \in Words(line, delims) : j < i}) = n - 1}
EndsBefore(line, delims, i, k) == \* the word that starts at i
    /\ i < k /\ \A j \in i..(k - 1) : line[j] \notin delims
    /\ k <= Len(line) => line[k] \in delims
IsListed(text, line, delims, entry) ==
    IF NthWord(line, delims, entry[1]) = {} THEN text = <<>>
    ELSE \E i \in NthWord(line, delims, entry[1]), k \in 1..(Len(line) + 1) :
             /\ text = SubSeq(line, i, k - 1)
             /\ IF NthWord(line, delims, entry[2]) = {} THEN k = Len(line) + 1
                ELSE \E last \in NthWord(line, delims, entry[2]) : EndsBefore(line, delims, last, k)
HasSplit ==
    FLine => \A k \in 1..Top.info.iTokenNb :
                 k + NVars > Top.info.iTokenNb /\ Top.info.tok[k][1] \in 0..Top.info.tok[k][2] =>
                     IsListed(lvars'[Wrapped(Top.var + k - 1)], Head(Top.lines), Top.info.delims, Top.info.tok[k])
WordsOnly == [][HasSplit]_vars
(* A loop gives its variables the items that its line stands for, also when loops of its body ran in between. /L gives
   its variable each number from the first to the last, in order, and no other, and ends behind the last one, unless
   the body aborts it; a step of zero or below and an end at the edge of the integers are excepted (Regular): such a
   loop does not count as the manual says (pBat_For.c:537). /F gives the variable of an entry of its FORINFO the words
   of the line that the entry names; that the entries are those of the token list is MeansItsList, with its exception
   of the first one. Excepted are an entry that ends before it begins and, where a list has more tokens than there
   are variables, all tokens of a variable but the last one. *)
VisitsItsItems == Counts /\ WordsOnly
=============================================================================
