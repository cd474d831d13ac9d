------------------------------- MODULE Reader -------------------------------
(***************************************************************************)
(* What reading a batch script promises, whatever is cached and however    *)
(* the positions are kept: the commands of a file are read one after the   *)
(* other from the first, GOTO continues after a label, CALL starts another *)
(* level, and the level below is where it was when that level ends.        *)
(*                                                                         *)
(* A level whose file has been modified, or that was being read when the   *)
(* reading mode was switched, has lost its place: nothing is promised      *)
(* about the lines it reads, until a jump. The other levels are not        *)
(* affected.                                                               *)
(***************************************************************************)
EXTENDS Scripts

CONSTANTS
    Files, Main,    \* the batch files, and the one that main() runs
    Texts           \* what a file may contain

VARIABLES
    text,           \* what each file contains, NULL if it does not exist
    levels          \* the files being read, innermost first

vars == <<text, levels>>

\* A level is at the line it reads next, or at 0 if it has lost its place.
Level == [file: Files, at: Nat]
Start(f) == [file |-> f, at |-> Following(text[f], 1)]
Lose(level) == [level EXCEPT !.at = 0]

Top == Head(levels)
Move(level) == levels' = <<level>> \o Tail(levels)
Enter(level) == levels' = <<level>> \o levels

Init == text \in [Files -> Texts] /\ levels = <<Start(Main)>>

ReadLine ==
    /\ Top.at > 0
    /\ Move([Top EXCEPT !.at = After(text[Top.file], @)])
    /\ UNCHANGED text

\* After a label of the file that is read, or of another one.
Labelling(l) == {[file |-> f, at |-> Target(text[f], l)] :
                    f \in {g \in Files : text[g] # NULL /\ HasLabel(text[g], l)}}
Goto == \E l \in Labels : (\E level \in Labelling(l) : Move(level)) /\ UNCHANGED text

\* A file that calls itself may continue from anywhere.
Call ==
    /\ \E f \in Files :
        \/ text[f] # NULL /\ Enter(Start(f))
        \/ (f = Top.file \/ Top.at = 0) /\ Enter([file |-> f, at |-> 0])
    /\ UNCHANGED text

CallLabel ==
    /\ \/ \E l \in Labels : \E level \in Labelling(l) : Enter(level)
       \/ Top.at = 0 /\ Enter(Top)
    /\ UNCHANGED text

Return == Len(levels) > 1 /\ levels' = Tail(levels) /\ UNCHANGED text

Modify ==
    \E f \in Files, new \in Texts \cup {NULL} :
        /\ text' = [text EXCEPT ![f] = new]
        /\ levels' = [i \in DOMAIN levels |->
                        IF levels[i].file = f THEN Lose(levels[i]) ELSE levels[i]]

SwitchMode ==
    /\ levels' = [i \in DOMAIN levels |-> Lose(levels[i])]
    /\ UNCHANGED text

Next == ReadLine \/ Goto \/ Call \/ CallLabel \/ Return \/ Modify \/ SwitchMode

Spec == Init /\ [][Next]_vars
=============================================================================
