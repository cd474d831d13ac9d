------------------------------- MODULE Scopes -------------------------------
(* What SETLOCAL and ENDLOCAL promise of the ordinary variables, the ones      *)
(* whose names do not start with `_`: a scope is a copy that ENDLOCAL throws   *)
(* away, and DEF macros do not take part.                                      *)
EXTENDS Sequences
CONSTANTS Names, Contents, NoValue
VARIABLES value, scopes

vars == <<value, scopes>>

Init == /\ value \in [Names -> Contents \cup {NoValue}]
        /\ scopes = <<>>

Assign(n, c) == /\ value' = [value EXCEPT ![n] = c]
                /\ UNCHANGED scopes
OpenScope == scopes' = <<value>> \o scopes /\ UNCHANGED value
CloseScope == /\ scopes # <<>>
              /\ value' = Head(scopes)
              /\ scopes' = Tail(scopes)

Next == \/ \E n \in Names, c \in Contents \cup {NoValue}: Assign(n, c)
        \/ OpenScope
        \/ CloseScope
Spec == Init /\ [][Next]_vars
=============================================================================
