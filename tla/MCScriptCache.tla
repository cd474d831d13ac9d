---------------------------- MODULE MCScriptCache ----------------------------
(* Instances of ScriptCache: what the batch files may contain. *)
EXTENDS ScriptCache

Line(kind) == [label |-> NULL, kind |-> kind]
Label(l) == [label |-> l, kind |-> "plain"]

\* A label inside a block; no label, and a block that is never closed.
Jumpy == <<Line("open"), Label("x"), Line("close")>>
Unclosed == <<Line("plain"), Line("open")>>

MCTexts == {Jumpy, Unclosed}
MCSizes == [text \in MCTexts |-> Len(text)]
=============================================================================
