------------------------------- MODULE Scripts -------------------------------
(***************************************************************************)
(* The text of a batch file, as far as reading it is concerned: labels and *)
(* command lines, some of which open a block that a later one closes.      *)
(* Blank lines and comments are not part of it, and blocks are not nested. *)
(***************************************************************************)
EXTENDS Naturals, Sequences, FiniteSetsExt

CONSTANTS
    Labels,     \* the names of labels
    NULL        \* no label, no file

ASSUME LabelsAssumption == NULL \notin Labels

Entry == [label: Labels \cup {NULL}, kind: {"plain", "open", "close"}]

IsCommand(text, i) == text[i].label = NULL

\* The first command line at or after a position; one past the end if none.
Following(text, i) ==
    Min({j \in i .. Len(text) : IsCommand(text, j)} \cup {Len(text) + 1})

\* The line that ends the command starting at line i, which is closed if there
\* is one.
Closes(text, i) ==
    {j \in i .. Len(text) : IsCommand(text, j) /\
        (text[i].kind = "open" => text[j].kind = "close")}
IsClosed(text, i) == Closes(text, i) # {}

\* The position after the command that starts at line i.
After(text, i) ==
    IF IsClosed(text, i) THEN Following(text, Min(Closes(text, i)) + 1) ELSE Len(text) + 1

Labelled(text, l) == {i \in 1 .. Len(text) : text[i].label = l}
HasLabel(text, l) == Labelled(text, l) # {}

\* The position that a jump to a label leads to: the first one of that name.
Target(text, l) == Following(text, Min(Labelled(text, l)) + 1)
=============================================================================
