----------------------------- MODULE Arguments -----------------------------
(* The arguments of a batch file: the digits %0 to %9, %+ which holds what does *)
(* not fit in them, and %*; the three ways to give a batch file its arguments,  *)
(* CALL's save and restore of them, and SHIFT.                                  *)
EXTENDS Integers, Sequences, Functions
CONSTANTS Last,          \* the last digit: 9
          Words,         \* what an argument may be
          Switch, Labels, CallLines,   \* CALL: /E, the words that begin with a colon, and what may be behind it
          NoArgument,    \* the empty string that fills a digit without argument
          MaxArguments, MaxCalls   \* bounds

ASSUME ArgumentsAssumption ==
    /\ Last \in Nat /\ MaxArguments \in Nat
    /\ NoArgument \notin Labels
    /\ \A line \in CallLines : line \in Seq(Range(line))

Digits == 0..Last
Lists == UNION {[1..n -> Words] : n \in 0..MaxArguments}

VARIABLES args,     \* lpvArguments of the file that runs
          callers,  \* lpvOldArgs of the CALLs in progress
          given     \* history: for each of them, the whole list, %0 first

argVars == <<args, callers, given>>

Least(i, j) == IF i < j THEN i ELSE j
From(s, k) == SubSeq(s, k, Len(s))
Upto(s, k) == SubSeq(s, 1, Least(k, Len(s)))
Digit(list, d) == IF d < Len(list) THEN list[d + 1] ELSE NoArgument

(* %0 is the file, or the label; the words go to the digits, the others to %+ *)
SetArguments(file, words) ==
    LET list == <<file>> \o words
    IN  [digit |-> [d \in Digits |-> Digit(list, d)],
         plus |-> From(list, Last + 2), star |-> words]

(* main() with what is behind the name of the script on its command line *)
GetParameters(file, words) == SetArguments(file, words)
ArgInit == /\ \E words \in Lists : /\ args = GetParameters("main", words)
                                   /\ given = <<(<<"main">> \o words)>>
           /\ callers = <<>>

Enter(file, words, list) ==
    /\ Len(callers) < MaxCalls
    /\ args' = SetArguments(file, words)
    /\ callers' = <<args>> \o callers
    /\ given' = <<list>> \o given

(* The words of CALL: /E in front, then one word, or two with /E: the label and the batch file to look for it in.
   The second of two labels, or of two files, is dropped. The others are the arguments. *)
ReadWord(c, word) ==
    LET next == [c EXCEPT !.args = Tail(@)]
    IN  IF c.stopped THEN c
        ELSE IF word = Switch /\ c.words = 0 THEN [next EXCEPT !.extended = TRUE]
        ELSE IF c.words = (IF c.extended THEN 2 ELSE 1) THEN [c EXCEPT !.stopped = TRUE]
        ELSE IF word \in Labels THEN [next EXCEPT !.words = @ + 1, !.label = IF @ = NoArgument THEN word ELSE @]
        ELSE [next EXCEPT !.words = @ + 1, !.file = IF @ = NoArgument THEN word ELSE @]
Unread(line) == [label |-> NoArgument, file |-> NoArgument, words |-> 0, extended |-> FALSE, args |-> line, stopped |-> FALSE]
CallTarget(line) ==
    LET upto[i \in 0..Len(line)] == IF i = 0 THEN Unread(line) ELSE ReadWord(upto[i - 1], line[i])
    IN  upto[Len(line)]
CmdCallFile(file, label, words, list) == Enter(IF label # NoArgument THEN label ELSE file, words, list)
\* What a CALL goes to, with its arguments, told without reading it word by word.
InFront(line, k) == (\A i \in 1..k : line[i] = Switch) /\ (k < Len(line) => line[k + 1] # Switch)
Switches(line) == CHOOSE k \in 0..Len(line) : InFront(line, k)
Named(line) == Least(Switches(line) + (IF Switches(line) = 0 THEN 1 ELSE 2), Len(line))
CallNames(line) == SubSeq(line, Switches(line) + 1, Named(line))
FirstOf(names, S) == names[CHOOSE i \in DOMAIN names : names[i] \in S /\ \A j \in 1..(i - 1) : names[j] \notin S]
Target(line) == LET names == CallNames(line)
                IN  IF Range(names) \cap Labels # {} THEN FirstOf(names, Labels) ELSE FirstOf(names, Range(names) \ {NoArgument})
Behind(line) == From(line, Named(line) + 1)
\* Of a batch file; with CMDLYCORRECT /E is refused.
CmdCall(line) ==
    LET c == CallTarget(line)
    IN  /\ {c.label, c.file} # {NoArgument}
        /\ CmdCallFile(c.file, c.label, c.args, <<Target(line)>> \o Behind(line))
\* A batch file that is run by its name gets a thread and blocks of its own,
\* and the one that runs it waits.
LaunchExternalBatch(words) == Enter("batch", words, <<"batch">> \o words)

Return == /\ callers # <<>>
          /\ args' = Head(callers)
          /\ callers' = Tail(callers)
          /\ given' = Tail(given)

(* The three loops of CmdShift, one after the other: digits from iBegin get the ones iDisplacement
   further, then what %+ starts with, then nothing. *)
Shifted(a, begin, by) ==
    LET moved == IF begin + by <= Last THEN Last + 1 - by ELSE begin
        fromPlus(d) == d - moved + 1
    IN  [a EXCEPT !.digit = [d \in Digits |->
              CASE d < begin -> a.digit[d]
                [] d >= begin /\ d < moved -> a.digit[d + by]
                [] d >= moved /\ fromPlus(d) <= Len(a.plus) -> a.plus[fromPlus(d)]
                [] OTHER -> NoArgument],
          !.plus = IF moved > Last THEN @
                   ELSE From(@, Last + 2 - moved)]

Remaining(begin, by) ==
    given' = [given EXCEPT ![1] = Upto(@, begin) \o From(@, Least(begin + by, Last + 1) + 1)]
\* Takes arguments from %+ and leaves them there.
CmdShiftKeepsPlus(begin, by) ==
    /\ args' = [Shifted(args, begin, by) EXCEPT !.plus = args.plus]
    /\ Remaining(begin, by)
    /\ UNCHANGED callers

(* SHIFT /begin /D:by ; a switch it does not know (/7 is one) changes nothing *)
CmdShift(begin, by) ==
    /\ args' = Shifted(args, begin, by)
    /\ Remaining(begin, by)
    /\ UNCHANGED callers

ArgNext == \/ \E line \in CallLines : CmdCall(line)
           \/ \E words \in Lists : LaunchExternalBatch(words)
           \/ Return
           \/ \E begin \in Digits, by \in Digits : CmdShift(begin, by)

ArgSpec == ArgInit /\ [][ArgNext]_argVars

-----------------------------------------------------------------------------
(* A CALL without /E gives its target every word behind the first one, with /E every word behind the second.
   Whatever was called and shifted, the digits show the first arguments that
   are left of the list the file was given, in order, and %+ the ones after
   them; SHIFT never changes what a caller will find when its CALL returns. *)
View(list) == [digit |-> [d \in Digits |-> Digit(list, d)], plus |-> From(list, Last + 2)]
ShowsTheList ==
    /\ [digit |-> args.digit, plus |-> args.plus] = View(given[1])
    /\ \A i \in DOMAIN callers :
          [digit |-> callers[i].digit, plus |-> callers[i].plus] = View(given[i + 1])
=============================================================================
