------------------------------ MODULE MCInterp ------------------------------
(* Instances of Interp: what the lines of the checked scripts are. *)
EXTENDS Interp

N(link, cmd, redir, subst) ==
    [link |-> link, cmd |-> cmd, orig |-> cmd, redir |-> redir, subst |-> subst]
Plain(link, cmd) == N(link, cmd, {}, "none")

\* Redirected commands of every kind, nested in each other.
RedirLines == {
    <<N("none", "block", {"out"}, "2>&1"), N("and", "exitb1", {"err"}, "none")>>,
    <<Plain("none", "ok"), N("pipe", "call", {"in"}, "none"), Plain("or", "goto")>>,
    <<N("none", "for", {"out", "err"}, "1>&2"), N("none", "if", {"in"}, "none")>>,
    <<N("none", "ifelse", {"err"}, "none"), Plain("pipe", "goto")>> }

\* Every way of raising bAbortCommand under every construct that sees it.
ControlLines == {
    <<Plain("none", "for"), Plain("and", "goto"), Plain("none", "ok")>>,
    <<Plain("none", "block"), Plain("or", "call"), Plain("and", "exitb1")>>,
    <<Plain("none", "call"), Plain("none", "if"), Plain("none", "fail")>>,
    <<Plain("none", "ifelse"), Plain("or", "exit")>>,
    <<Plain("none", "block"), Plain("none", "ok"), Plain("pipe", "goto")>>,
    <<Plain("none", "goto"), Plain("none", "ok"), Plain("pipe", "ok")>>,
    <<Plain("none", "eof")>> }

\* Short scripts, one for each sentence of the documentation.
ForThenIf == { <<Plain("none", "for"), Plain("none", "if")>>, <<Plain("none", "ok")>> }
BlockRedirs == { <<N("none", "block", {"out"}, "none")>>, <<N("none", "ok", {"err"}, "1>&2")>> }
=============================================================================
