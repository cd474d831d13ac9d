------------------------------- MODULE Interp -------------------------------
(***************************************************************************)
(* The command interpreter of one picobat thread: RunBatch, RunLine,       *)
(* RunParsedLine, RunCommand, RunBlock and the commands that call back     *)
(* into them (IF, FOR, CALL, blocks), with the three mechanisms they share *)
(* through globals: bAbortCommand, by which GOTO and EXIT /B unwind the C  *)
(* stack; the stack of redirections with its lock bit; and iErrorLevel.    *)
(*                                                                         *)
(* The C call stack is the sequence frames, innermost call first.  What a  *)
(* script contains is left open: every line read is any member of Lines,   *)
(* so a behaviour of this module is the run of some script.                *)
(***************************************************************************)
EXTENDS Naturals, Sequences, FiniteSets

CONSTANTS
    Lines,      \* the parsed lines a script is made of
    Handles,    \* the FILE* the process can have open
    Stdin, Stdout, Stderr,
    NoFile,     \* STREAMSTACK.subst of an item that has none
    MaxDepth,   \* bound: at this depth of the C stack only simple lines are read
    MayFail     \* whether fopen and pipe can fail while handles are left

Links == {"none", "and", "or", "pipe"}
Lookahead == {"if", "ifelse", "for"}
Simple == {"ok", "fail", "goto", "eof", "exitb", "exitb0", "exitb1", "exit"}
Commands == Simple \cup Lookahead \cup {"block", "call"}
Channels == {"in", "out", "err"}

\* One element of a parsed line.  "orig" is the command the line was parsed
\* with: LookAHeadMakeParsedLine overwrites "cmd", never "orig".
Node == [link: Links, cmd: Commands, orig: Commands,
         redir: SUBSET Channels, subst: {"none", "2>&1", "1>&2"}]

ASSUME LinesAssumption == Lines \subseteq Seq(Node) \ {<<>>}
ASSUME HandlesAssumption ==
    /\ {Stdin, Stdout, Stderr} \subseteq Handles
    /\ Stdin # Stdout /\ Stdin # Stderr /\ Stdout # Stderr
    /\ NoFile \notin Handles
ASSUME BoundsAssumption == MaxDepth \in Nat /\ MayFail \in BOOLEAN

VARIABLES
    frames,     \* the C call stack
    lines,      \* the PARSED_LINE lists of the RunLine calls in progress, last made last
    stack,      \* lppsStreamStack, top first
    cur,        \* fInput, fOutput, fError
    open,       \* the FILE* that fclose has not been called on
    abort,      \* bAbortCommand: "no", "line_end" (2) or "level" (-1)
    err,        \* iErrorLevel: 0 or not
    phase,      \* where main() is
    raised,     \* history: the depth of RunBatch at which abort was last set
    lost        \* history: OpenOutput failed and dropped a non-empty stack

vars == <<frames, lines, stack, cur, open, abort, err, phase, raised, lost>>
streamVars == <<stack, cur, open, lost>>
abortVars == <<abort, raised>>

-----------------------------------------------------------------------------
(* The stream stack. *)

Item == [chan: Channels, old: Handles, sub: Handles \cup {NoFile}, locked: BOOLEAN]

\* A missing stack reads as locked and is not changed by setting its lock.
Locked(s) == IF s = <<>> THEN TRUE ELSE Head(s).locked
SetLockNever(s, b) == s
SetLock(s, b) == IF s = <<>> THEN s ELSE [s EXCEPT ![1].locked = b]

\* Both 1>&2 and 2>&1 are parsed into PBAT_STREAM_SUBST_FERROR.
CopiesToErr(ch, subst) == ch = "out" /\ subst # "none"

PushItem(s, ch, subst) ==
    <<[chan |-> ch, old |-> cur[ch], locked |-> FALSE,
       sub |-> IF CopiesToErr(ch, subst) THEN cur["err"] ELSE NoFile]>> \o s

Redirected(ch, subst, h) ==
    [c \in Channels |->
        IF c = ch \/ (c = "err" /\ CopiesToErr(ch, subst)) THEN h ELSE cur[c]]

NewHandle == CHOOSE h \in Handles \ open : TRUE
NoHandle == Handles \subseteq open

OpenOutputF(s, ch, subst) ==
    /\ ~NoHandle
    /\ stack' = PushItem(s, ch, subst)
    /\ cur' = Redirected(ch, subst, NewHandle)
    /\ open' = open \cup {NewHandle}
    /\ UNCHANGED lost

\* OpenOutput returns NULL for the new stack when fopen fails.
OpenOutputFails ==
    /\ MayFail \/ NoHandle
    /\ stack' = <<>>
    /\ lost' = (lost \/ stack # <<>>)
    /\ UNCHANGED <<cur, open>>

ClosedNothing(top) == open
Closed(top) == open \ {cur[top.chan]}

UndoneWithoutCopy(top) == [cur EXCEPT ![top.chan] = top.old]
UndoneAnyCopy(top) ==
    [c \in Channels |-> IF c = top.chan THEN top.old
                        ELSE IF c = "err" THEN top.sub ELSE cur[c]]
Undone(top) ==
    [c \in Channels |->
        IF c = top.chan THEN top.old
        ELSE IF c = "err" /\ top.sub # NoFile THEN top.sub
        ELSE cur[c]]

PopStreamStack ==
    /\ stack' = Tail(stack)
    /\ open' = Closed(Head(stack))
    /\ cur' = Undone(Head(stack))
    /\ UNCHANGED lost

-----------------------------------------------------------------------------
(* The call stack. *)

Functions == {"RunBatch", "RunParsedLine", "RunBlock", "CmdIf", "CmdFor", "CmdCallFile"}
Points == {"loop", "ran", "ops", "redir", "cmd", "pop", "drop"}

\* The local "line" of RunParsedLine, CmdIf and CmdFor is element pos of the
\* list lines[list], pos being 0 for NULL; "own" says that nothing refers to
\* this list once the call has returned (RunLine then frees it, CmdIf drops
\* it).  "was" is history: the streams at the call.
Frame == [fn: Functions, pc: Points, list: Nat, pos: Nat, own: BOOLEAN, lock: BOOLEAN,
          look: BOOLEAN, todo: SUBSET Channels, was: [Channels -> Handles]]

Call(fn, pc, list, pos) ==
    [fn |-> fn, pc |-> pc, list |-> list, pos |-> pos, own |-> FALSE,
     lock |-> Locked(stack), look |-> FALSE, todo |-> {}, was |-> cur]

PlainCall(fn, pc) == Call(fn, pc, 0, 0)
LineCall == [Call("RunParsedLine", "ops", Len(lines) + 1, 1) EXCEPT !.own = TRUE]

Running(fn, pc) == frames # <<>> /\ Head(frames).fn = fn /\ Head(frames).pc = pc
At(pc) == [frames EXCEPT ![1].pc = pc]
BatchLevel == Cardinality({i \in DOMAIN frames : frames[i].fn = "RunBatch"})

Top == Head(frames)
Nodes == lines[Top.list]
Current == Nodes[Top.pos]

\* IF and FOR are given the current node, and give it to RunParsedLine again.
LookaheadCall(fn, pc) == Call(fn, pc, Top.list, Top.pos)
BodyCall == LookaheadCall("RunParsedLine", "ops")

Allowed ==
    IF Len(frames) < MaxDepth THEN Lines
    ELSE {l \in Lines : \A i \in DOMAIN l : l[i].cmd \in Simple}

\* RunLine: parse a line and run it, the caller resuming at "ran".
RunLine ==
    \E l \in Allowed :
        /\ frames' = <<LineCall>> \o At("ran")
        /\ lines' = Append(lines, l)
        /\ UNCHANGED <<streamVars, abortVars, err, phase>>

-----------------------------------------------------------------------------
(* RunBatch. *)

GetLine == Running("RunBatch", "loop") /\ RunLine

EndOfBatch ==
    /\ Running("RunBatch", "loop")
    /\ frames' = Tail(frames)
    /\ UNCHANGED <<lines, streamVars, abortVars, err, phase>>

EndsBatchOnAny == abort # "no"
EndsBatch == abort = "level"

BatchLineRan ==
    /\ Running("RunBatch", "ran")
    /\ IF EndsBatch
       THEN frames' = Tail(frames) /\ UNCHANGED abort
       ELSE frames' = At("loop") /\ abort' = "no"
    /\ UNCHANGED <<lines, streamVars, raised, err, phase>>

-----------------------------------------------------------------------------
(* RunParsedLine: operators, redirections, command, restoration. *)

Skipped ==
    \/ Current.link = "pipe"
    \/ Current.link = "or" /\ err = 0
    \/ Current.link = "and" /\ err # 0

DroppedIfSkipped == Skipped
Dropped == Skipped \/ abort # "no"

StartsPipe ==
    /\ Current.cmd \notin Lookahead
    /\ ~Skipped
    /\ Top.pos < Len(Nodes)
    /\ Nodes[Top.pos + 1].link = "pipe"

\* The last command of the pipe that starts at the current node.
PipeEnd ==
    CHOOSE k \in Top.pos .. Len(Nodes) :
        /\ \A i \in (Top.pos + 1) .. k : Nodes[i].link = "pipe"
        /\ k = Len(Nodes) \/ Nodes[k + 1].link # "pipe"

\* What RunParsedLine does once ExecOperators has moved to node k.  The test
\* for IF and FOR is made on the node the loop started with, before the move.
AfterOperators(k) ==
    LET look == Current.cmd \in Lookahead IN
    [frames EXCEPT ![1].pos = k,
                   ![1].lock = Locked(stack),
                   ![1].look = look,
                   ![1].todo = IF look THEN {} ELSE Nodes[k].redir,
                   ![1].pc = IF Dropped THEN "drop" ELSE "redir"]

ExecOperators ==
    /\ Running("RunParsedLine", "ops")
    /\ ~StartsPipe
    /\ frames' = AfterOperators(Top.pos)
    /\ stack' = SetLock(stack, TRUE)
    /\ UNCHANGED <<lines, cur, open, lost, abortVars, err, phase>>

\* Every command of a pipe but the last is started in a cloned thread, and
\* this before bAbortCommand is tested; the last one reads from the pipe.
LaunchPipe ==
    /\ Running("RunParsedLine", "ops")
    /\ StartsPipe
    /\ frames' = AfterOperators(PipeEnd)
    /\ OpenOutputF(SetLock(stack, TRUE), "in", "none")
    /\ UNCHANGED <<lines, abortVars, err, phase>>

\* The error handler of a failed pipe() ends the process.
PipeFails ==
    /\ Running("RunParsedLine", "ops")
    /\ StartsPipe
    /\ MayFail \/ NoHandle
    /\ frames' = <<>> /\ lines' = <<>> /\ phase' = "exit"
    /\ UNCHANGED <<streamVars, abortVars, err>>

NextChannel ==
    CHOOSE c \in Top.todo :
        \/ c = "in"
        \/ c = "out" /\ "in" \notin Top.todo
        \/ Top.todo = {c}

ExecOutput ==
    /\ Running("RunParsedLine", "redir")
    /\ Top.todo # {}
    /\ frames' = [frames EXCEPT ![1].todo = @ \ {NextChannel}]
    /\ \/ OpenOutputF(stack, NextChannel, Current.subst)
       \/ OpenOutputFails
    /\ UNCHANGED <<lines, abortVars, err, phase>>

StartCommand ==
    /\ Running("RunParsedLine", "redir")
    /\ Top.todo = {}
    /\ frames' = At("cmd")
    /\ UNCHANGED <<lines, streamVars, abortVars, err, phase>>

\* PopStreamStackUntilLock.
PopUntilLock ==
    /\ Running("RunParsedLine", "pop") \/ Running("RunParsedLine", "drop")
    /\ ~Locked(stack)
    /\ PopStreamStack
    /\ UNCHANGED <<frames, lines, abortVars, err, phase>>

NextPos == IF Top.pos \in 1 .. (Len(Nodes) - 1) THEN Top.pos + 1 ELSE 0

FinishNode ==
    /\ Running("RunParsedLine", "pop") \/ Running("RunParsedLine", "drop")
    /\ Locked(stack)
    /\ stack' = SetLock(stack, Top.lock)
    /\ IF NextPos = 0 \/ Top.look \/ (Top.pc = "drop" /\ abort # "no")
       THEN /\ frames' = Tail(frames)
            /\ lines' = IF Top.own THEN SubSeq(lines, 1, Top.list - 1) ELSE lines
       ELSE /\ frames' = [frames EXCEPT ![1].pos = NextPos, ![1].pc = "ops"]
            /\ UNCHANGED lines
    /\ UNCHANGED <<cur, open, lost, abortVars, err, phase>>

-----------------------------------------------------------------------------
(* RunCommand. *)

Command(cmds) == Running("RunParsedLine", "cmd") /\ Current.cmd \in cmds

RunProc ==
    /\ Command({"ok", "fail"})
    /\ err' = IF Current.cmd = "ok" THEN 0 ELSE 1
    /\ frames' = At("pop")
    /\ UNCHANGED <<lines, streamVars, abortVars, phase>>

Raise(kind) ==
    /\ abort' = kind
    /\ raised' = BatchLevel
    /\ frames' = At("pop")
    /\ UNCHANGED <<lines, streamVars, phase>>

CmdGoto ==
    /\ Command({"goto"})
    /\ Raise("line_end")
    /\ UNCHANGED err

CmdGotoNoLabel ==
    /\ Command({"goto"})
    /\ err' = 1
    /\ frames' = At("pop")
    /\ UNCHANGED <<lines, streamVars, abortVars, phase>>

CmdGotoEof ==
    /\ Command({"eof"})
    /\ Raise("level")
    /\ UNCHANGED err

CmdExitB ==
    /\ Command({"exitb", "exitb0", "exitb1"})
    /\ Raise("level")
    /\ err' = IF Current.cmd = "exitb" THEN err
              ELSE IF Current.cmd = "exitb0" THEN 0 ELSE 1

\* EXIT: pBat_Exit, then exit().
CmdExit ==
    /\ Command({"exit"})
    /\ frames' = <<>> /\ lines' = <<>> /\ phase' = "exit"
    /\ UNCHANGED <<streamVars, abortVars, err>>

\* CmdBlock and RunBlock.
CmdBlock ==
    /\ Command({"block"})
    /\ frames' = <<PlainCall("RunBlock", "loop")>> \o At("pop")
    /\ stack' = SetLock(stack, TRUE)
    /\ UNCHANGED <<lines, cur, open, lost, abortVars, err, phase>>

RunBlockLine == Running("RunBlock", "loop") /\ RunLine

BlockLineRan ==
    /\ Running("RunBlock", "ran")
    /\ abort \notin {"level", "line_end"}
    /\ frames' = At("loop")
    /\ abort' = "no"
    /\ UNCHANGED <<lines, streamVars, raised, err, phase>>

EndOfBlock ==
    /\ \/ Running("RunBlock", "loop")
       \/ Running("RunBlock", "ran") /\ abort \in {"level", "line_end"}
    /\ frames' = Tail(frames)
    /\ stack' = SetLock(stack, Top.lock)
    /\ UNCHANGED <<lines, cur, open, lost, abortVars, err, phase>>

-----------------------------------------------------------------------------
(* IF and FOR, which take the rest of the line and run it themselves. *)

\* LookAHeadMakeParsedLine on the current node: its command becomes the block
\* "( ... )" for good; the operator that links it to its left stays.
MakeLookahead == [lines EXCEPT ![Top.list][Top.pos].cmd = "block"]

\* A list of one node, linked to nothing, for a THEN part followed by ELSE.
FreshBlock == [link |-> "none", cmd |-> "block", orig |-> Current.orig,
               redir |-> {}, subst |-> "none"]

CmdIfTrue ==
    /\ Command({"if", "ifelse"})
    /\ IF Current.cmd = "ifelse"
       THEN /\ frames' = <<LineCall>> \o (<<LookaheadCall("CmdIf", "ran")>> \o At("pop"))
            /\ lines' = Append(lines, <<FreshBlock>>)
       ELSE /\ frames' = <<BodyCall>> \o (<<LookaheadCall("CmdIf", "ran")>> \o At("pop"))
            /\ lines' = MakeLookahead
    /\ UNCHANGED <<streamVars, abortVars, err, phase>>

CmdIfElse ==
    /\ Command({"ifelse"})
    /\ frames' = <<BodyCall>> \o (<<LookaheadCall("CmdIf", "ran")>> \o At("pop"))
    /\ lines' = MakeLookahead
    /\ UNCHANGED <<streamVars, abortVars, err, phase>>

\* A false condition without ELSE, or a syntax error: the line is swallowed.
CmdIfNothing ==
    /\ Command({"if", "ifelse"})
    /\ \/ err' = 0 /\ Current.cmd = "if"
       \/ err' = 1
    /\ frames' = [frames EXCEPT ![1].pc = "pop", ![1].pos = 0]
    /\ UNCHANGED <<lines, streamVars, abortVars, phase>>

\* IF /? returns 0, and an unknown comparison operator -1, with the rest of
\* the line kept.
CmdIfBadOperator ==
    /\ Command({"if", "ifelse"})
    /\ err' \in {0, 1}
    /\ frames' = At("pop")
    /\ UNCHANGED <<lines, streamVars, abortVars, phase>>

\* Both commands return 0 and leave *lpplLine NULL.
ReturnLookahead == frames' = [Tail(frames) EXCEPT ![1].pos = 0]

CmdIfRan ==
    /\ Running("CmdIf", "ran")
    /\ ReturnLookahead
    /\ err' = 0
    /\ UNCHANGED <<lines, streamVars, abortVars, phase>>

CmdFor ==
    /\ Command({"for"})
    /\ frames' = <<LookaheadCall("CmdFor", "loop")>> \o At("pop")
    /\ lines' = MakeLookahead
    /\ UNCHANGED <<streamVars, abortVars, err, phase>>

\* FOR /?, or a syntax error: the line is swallowed.
CmdForError ==
    /\ Command({"for"})
    /\ err' \in {0, 1}
    /\ frames' = [frames EXCEPT ![1].pc = "pop", ![1].pos = 0]
    /\ UNCHANGED <<lines, streamVars, abortVars, phase>>

\* A range or an input of FOR /L or /F that cannot be read: the line has
\* already become the block of the loop.
CmdForBadInput ==
    /\ Command({"for"})
    /\ err' = 1
    /\ frames' = [frames EXCEPT ![1].pc = "pop", ![1].pos = 0]
    /\ lines' = MakeLookahead
    /\ UNCHANGED <<streamVars, abortVars, phase>>

ForIterate ==
    /\ Running("CmdFor", "loop")
    /\ frames' = <<BodyCall>> \o At("ran")
    /\ UNCHANGED <<lines, streamVars, abortVars, err, phase>>

ForStopsAtLevel == abort = "level"
ForStops == abort # "no"

ForIterated ==
    /\ Running("CmdFor", "ran")
    /\ ~ForStops
    /\ frames' = At("loop")
    /\ UNCHANGED <<lines, streamVars, abortVars, err, phase>>

EndOfFor ==
    /\ Running("CmdFor", "loop") \/ (Running("CmdFor", "ran") /\ ForStops)
    /\ ReturnLookahead
    /\ err' = 0
    /\ UNCHANGED <<lines, streamVars, abortVars, phase>>

-----------------------------------------------------------------------------
(* CALL of a label or of a batch file. *)

CmdCallFile ==
    /\ Command({"call"})
    /\ frames' = <<PlainCall("RunBatch", "loop")>> \o
                 (<<PlainCall("CmdCallFile", "ran")>> \o At("pop"))
    /\ stack' = SetLock(stack, TRUE)
    /\ UNCHANGED <<lines, cur, open, lost, abortVars, err, phase>>

\* The file or the label to call does not exist; the block does not parse.
CmdFails ==
    /\ Command({"call", "block"})
    /\ err' = 1
    /\ frames' = At("pop")
    /\ UNCHANGED <<lines, streamVars, abortVars, phase>>

CallReturns ==
    /\ Running("CmdCallFile", "ran")
    /\ abort' = "no"
    /\ stack' = SetLock(stack, Top.lock)
    /\ frames' = Tail(frames)
    /\ UNCHANGED <<lines, cur, open, lost, raised, err, phase>>

-----------------------------------------------------------------------------
(* main(): pBat_Auto.bat, the command of /C or /K, the script, pBat_Exit. *)

Init ==
    /\ stack = <<>>
    /\ cur = [c \in Channels |->
                CASE c = "in" -> Stdin [] c = "out" -> Stdout [] OTHER -> Stderr]
    /\ open = {Stdin, Stdout, Stderr}
    /\ frames = <<PlainCall("RunBatch", "loop")>>
    /\ lines = <<>>
    /\ abort = "no"
    /\ err = 0
    /\ phase = "auto"
    /\ raised = 0
    /\ lost = FALSE

RunSwitchLine ==
    /\ phase = "auto" /\ frames = <<>>
    /\ phase' = "switch"
    /\ \E l \in Lines :
        /\ frames' = <<LineCall>>
        /\ lines' = Append(lines, l)
    /\ UNCHANGED <<streamVars, abortVars, err>>

RunScript ==
    /\ phase \in {"auto", "switch"} /\ frames = <<>>
    /\ phase' = "main"
    /\ frames' = <<PlainCall("RunBatch", "loop")>>
    /\ UNCHANGED <<lines, streamVars, abortVars, err>>

MainEnds ==
    /\ phase \in {"switch", "main"} /\ frames = <<>>
    /\ phase' = "exit"
    /\ UNCHANGED <<frames, lines, streamVars, abortVars, err>>

\* FreeStreamStack clears the lock of every item before popping it.
FreeStreamStack ==
    /\ phase = "exit"
    /\ stack # <<>>
    /\ PopStreamStack
    /\ UNCHANGED <<frames, lines, abortVars, err, phase>>

Exited ==
    /\ phase = "exit"
    /\ stack = <<>>
    /\ UNCHANGED vars

Next ==
    \/ GetLine \/ EndOfBatch \/ BatchLineRan
    \/ ExecOperators \/ LaunchPipe \/ PipeFails
    \/ ExecOutput \/ StartCommand \/ PopUntilLock \/ FinishNode
    \/ RunProc \/ CmdGoto \/ CmdGotoNoLabel \/ CmdGotoEof \/ CmdExitB \/ CmdExit
    \/ CmdBlock \/ RunBlockLine \/ BlockLineRan \/ EndOfBlock
    \/ CmdIfTrue \/ CmdIfElse \/ CmdIfNothing \/ CmdIfBadOperator \/ CmdIfRan
    \/ CmdFor \/ CmdForError \/ CmdForBadInput \/ ForIterate \/ ForIterated \/ EndOfFor
    \/ CmdCallFile \/ CmdFails \/ CallReturns
    \/ RunSwitchLine \/ RunScript \/ MainEnds \/ FreeStreamStack \/ Exited

Spec == Init /\ [][Next]_vars

\* The interpreter is one thread that never waits for another one here.
FairSpec == Spec /\ WF_vars(Next)

-----------------------------------------------------------------------------
(* Properties. *)

TypeOK ==
    /\ frames \in Seq(Frame)
    /\ lines \in Seq(Seq(Node))
    /\ stack \in Seq(Item)
    /\ cur \in [Channels -> Handles]
    /\ open \subseteq Handles
    /\ abort \in {"no", "line_end", "level"}
    /\ err \in {0, 1}
    /\ phase \in {"auto", "switch", "main", "exit"}
    /\ raised \in Nat
    /\ lost \in BOOLEAN

\* No FILE* that the interpreter can still read, write or restore has been
\* closed: neither a current stream nor one saved in the stream stack, even
\* after a redirection that failed.
NoDangling ==
    /\ \A c \in Channels : cur[c] \in open
    /\ \A i \in DOMAIN stack :
        /\ stack[i].old \in open
        /\ stack[i].sub \in open \cup {NoFile}

\* Whatever a line redirected, and however it ended (normally, by GOTO out of
\* nested blocks and loops, by EXIT /B through a CALL), the loop that ran it
\* finds its three streams as they were when the loop was entered.
Restored ==
    frames # <<>> /\ Top.pc \in {"loop", "ran"} => cur = Top.was

StreamsRestored == ~lost => Restored

\* While bAbortCommand is set no command runs, no redirection is made and no
\* function is called: the C stack only unwinds.  Two things happen all the
\* same.  The pipe behind the next operator is set up, and all its commands but
\* the last start in clones: goto x & a | b starts a (pBat_Run.c:157 comes
\* before the test at :317); one such pipe in each RunParsedLine, which is left
\* then.  And when the abort outlives pBat_Auto.bat or the line of /C, main()
\* starts the script, which may read a line before it ends: that line is
\* dropped as well.
Quiet ==
    /\ frames' # <<>> => Head(frames').pc \notin {"redir", "cmd"}
    /\ Len(frames) > 1 => Len(frames') <= Len(frames)
    /\ Running("RunParsedLine", "drop") /\ frames' # <<>> => Head(frames').pc # "ops"
    /\ open' \subseteq open \/ (LaunchPipe /\ Head(frames').pc = "drop")
QuietAbort == [][abort # "no" => Quiet]_vars

\* GOTO is consumed by the RunBatch that was running it; EXIT /B and GOTO :EOF
\* end that RunBatch and are consumed by the CALL that started it, whatever
\* blocks, loops and conditions lie in between.
AbortLevel ==
    /\ abort = "line_end" /\ phase # "exit" /\ raised > 0 =>
         BatchLevel = raised
    /\ abort = "level" /\ phase # "exit" /\ raised > 1 =>
         \/ BatchLevel = raised
         \/ BatchLevel = raised - 1 /\ Running("CmdCallFile", "ran")

\* Nothing is left open when the process has unwound all redirections.
NoLeak ==
    ~lost /\ phase = "exit" /\ stack = <<>> => open = {Stdin, Stdout, Stderr}

\* The unwinding GOTO and EXIT /B start always comes to its end.
AbortClears == (abort # "no") ~> (abort = "no" \/ phase = "exit")

-----------------------------------------------------------------------------
(* What the documentation and the comments of the code say.  Each of these *)
(* is refuted by a run: see the findings in the README.                    *)

\* pBat_Stream.c: popping an item reverses the changes made when it was
\* pushed.  Here also after a redirection that could not be opened.
RestoredAfterFailure == Restored

\* if.tea: the commands of an IF are run if its condition holds, so each time
\* the block of an IF starts it is CmdIf that started it.
FirstOf(fn) == Len(frames) > 1 /\ frames[2].fn = fn /\ Top.pos = frames[2].pos
IfTestsCondition ==
    Running("RunParsedLine", "cmd") /\ Current.cmd = "block" /\ Current.orig \in {"if", "ifelse"}
        => FirstOf("CmdIf") \/ Top.own

=============================================================================
