------------------------------- MODULE Clones -------------------------------
(***************************************************************************)
(* The threads of one picobat process.  A pipe, FOR /F over a command,     *)
(* START /B and the name of a batch file each clone the interpreter into a *)
(* thread with duplicates of its streams; they differ in who gets which    *)
(* end of a pipe, in who waits for the clone, and in what is closed when   *)
(* it ends.  This module is about these streams: who can still write to a  *)
(* pipe decides whether its reader ever sees the end of it.                *)
(*                                                                         *)
(* What a clone interprets is a program: a sequence of the commands that   *)
(* matter here.  FILE* and descriptor are one thing, a number; output is   *)
(* not buffered; fError, which is treated as fOutput is, is left out.      *)
(***************************************************************************)
EXTENDS Naturals, Sequences, FiniteSets

CONSTANTS
    Threads, Root,  \* the threads there can be; the one of main()
    Pipes,          \* the pipes there can be
    Handles,        \* the descriptors there can be, numbers
    NULL,           \* the NULL of FILE*; also no thread, and no pipe
    Programs,       \* what is interpreted, Code giving the commands of each
    Code,
    Scripts,        \* the programs that main() may be given
    Capacity        \* writes a pipe holds before it is full

Ops == {"write", "echo", "read", "line", "exit", "batch", "start", "wait", "for", "pipe"}
Commands == [op: Ops, progs: Seq(Programs)]

Stdin == 0
Stdout == 1

ASSUME ThreadsAssumption == Root \in Threads /\ NULL \notin Threads \cup Pipes
ASSUME HandlesAssumption ==
    Handles \subseteq Nat /\ NULL \notin Handles /\ {Stdin, Stdout} \subseteq Handles
ASSUME ProgramsAssumption ==
    /\ Code \in [Programs -> Seq(Commands)]
    /\ Scripts \subseteq Programs
    /\ \A p \in Programs : \A i \in DOMAIN Code[p] :
        LET c == Code[p][i] IN
        /\ c.op \in {"batch", "start", "wait"} => Len(c.progs) = 1
        /\ c.op = "for" => Len(c.progs) = 2
        /\ c.op = "pipe" => Len(c.progs) > 1
ASSUME CapacityAssumption == Capacity \in Nat \ {0}

VARIABLES
    status,     \* of a thread: running, in pBat_Exit, ended, ...
    detached,   \* whether pBat_CloseThread was called on a thread that runs
    calls,      \* the C stack of a thread, innermost call first
    in, out,    \* its fInput and fOutput
    saved,      \* its lppsStreamStack, top first
    fd,         \* what a handle is open on
    buf,        \* number of writes a pipe holds
    echoLock,   \* mEchoLock: the thread that holds it
    phase       \* of the process: running, exited or crashed

vars == <<status, detached, calls, in, out, saved, fd, buf, echoLock, phase>>
threadVars == <<status, detached, echoLock>>
streamVars == <<in, out, saved>>

-----------------------------------------------------------------------------
(* Descriptors and pipes. *)

\* What a handle is open on: an end of a pipe, or the terminal (NULL).
File == [pipe: Pipes \cup {NULL}, end: {"r", "w", "closed"}]
End(p, e) == [pipe |-> p, end |-> e]
IsPipe(h) == fd[h].pipe # NULL
Writers(p) == {h \in Handles : fd[h] = End(p, "w")}
Readers(p) == {h \in Handles : fd[h] = End(p, "r")}
NoFile == End(NULL, "closed")

Closed == {h \in Handles : fd[h] = NoFile}
Lowest(S) == CHOOSE h \in S : \A g \in S : h <= g
NewPipe == CHOOSE p \in Pipes : Writers(p) \cup Readers(p) = {}
Free == {t \in Threads : status[t] = "free"}
NewThread == CHOOSE t \in Free : TRUE

\* The descriptors of a new clone and, for a pipe, first those of its ends.
PipeR == Lowest(Closed)
PipeW == Lowest(Closed \ {PipeR})
DupIn(S) == Lowest(Closed \ S)
DupOut(S) == Lowest(Closed \ (S \cup {DupIn(S)}))

CanClone == Free # {} /\ Cardinality(Closed) >= 2
CanCloneWithPipe ==
    /\ Free # {} /\ Cardinality(Closed) >= 4
    /\ \E p \in Pipes : Writers(p) \cup Readers(p) = {}

-----------------------------------------------------------------------------
(* The C stack of a thread. *)

Functions == {"RunBlock", "CmdForF", "ExecOperators", "WaitForThread"}
Frame == [fn: Functions, pc: {"next", "ran"}, code: Seq(Commands), progs: Seq(Programs),
          file: Handles \cup {NULL}, child: Threads \cup {NULL}]
Item == [chan: {"in", "out"}, old: Handles \cup {NULL}]

Block(prog) == [fn |-> "RunBlock", pc |-> "next", code |-> Code[prog], progs |-> <<>>,
                file |-> NULL, child |-> NULL]
Waiting(c) == [fn |-> "WaitForThread", pc |-> "next", code |-> <<>>, progs |-> <<>>,
               file |-> NULL, child |-> c]
Reading(body, h, c) == [fn |-> "CmdForF", pc |-> "next", code |-> <<>>, progs |-> <<body>>,
                        file |-> h, child |-> c]
Piping(stages) == [fn |-> "ExecOperators", pc |-> "next", code |-> <<>>, progs |-> stages,
                   file |-> NULL, child |-> NULL]

Active(t) == phase = "running" /\ status[t] = "running"
Top(t) == Head(calls[t])
Running(t, fn, pc) == Active(t) /\ calls[t] # <<>> /\ Top(t).fn = fn /\ Top(t).pc = pc
AtCommand(t, ops) ==
    Running(t, "RunBlock", "next") /\ Top(t).code # <<>> /\ Head(Top(t).code).op \in ops
Arg(t, i) == Head(Top(t).code).progs[i]
Rest(t) == [calls[t] EXCEPT ![1].code = Tail(@)]
Go(t, stack) == calls' = [calls EXCEPT ![t] = stack]

\* A call on a NULL FILE* is undefined: it ends the process (glibc), or is
\* refused and changes nothing (msvcrt).
Crash == phase' = "crashed" /\ UNCHANGED <<threadVars, calls, streamVars, fd, buf>>

-----------------------------------------------------------------------------
(* Commands that read and write. *)

\* ECHO writes with mEchoLock held, the other commands without a lock.
LockEcho(t) ==
    /\ AtCommand(t, {"echo"}) /\ echoLock = NULL
    /\ echoLock' = t
    /\ UNCHANGED <<status, detached, calls, streamVars, fd, buf, phase>>
ReleaseEcho(t) == echoLock' = IF echoLock = t THEN NULL ELSE echoLock
MayWrite(t) ==
    AtCommand(t, {"write"}) \/ (AtCommand(t, {"echo"}) /\ echoLock = t)

WriteOverfull(t) ==
    /\ MayWrite(t)
    /\ IF IsPipe(out[t]) THEN buf' = [buf EXCEPT ![fd[out[t]].pipe] = @ + 1] ELSE UNCHANGED buf
    /\ Go(t, Rest(t)) /\ ReleaseEcho(t)
    /\ UNCHANGED <<status, detached, streamVars, fd, phase>>

\* Any command that prints something; SIGPIPE is ignored.
Write(t) ==
    /\ MayWrite(t)
    /\ IF IsPipe(out[t]) /\ Readers(fd[out[t]].pipe) # {}
       THEN LET p == fd[out[t]].pipe IN
            buf[p] < Capacity /\ buf' = [buf EXCEPT ![p] = @ + 1]
       ELSE UNCHANGED buf
    /\ Go(t, Rest(t)) /\ ReleaseEcho(t)
    /\ UNCHANGED <<status, detached, streamVars, fd, phase>>

\* FIND or MORE read all of their input, SET /P one line.
Read(t) ==
    /\ AtCommand(t, {"read", "line"}) /\ in[t] # NULL /\ IsPipe(in[t])
    /\ LET p == fd[in[t]].pipe IN
        /\ buf[p] > 0
        /\ buf' = [buf EXCEPT ![p] = @ - 1]
    /\ Go(t, IF AtCommand(t, {"line"}) THEN Rest(t) ELSE calls[t])
    /\ UNCHANGED <<threadVars, streamVars, fd, phase>>

AtEof(h) == IsPipe(h) => buf[fd[h].pipe] = 0 /\ Writers(fd[h].pipe) = {}

ReadEof(t) ==
    /\ AtCommand(t, {"read", "line"})
    /\ in[t] # NULL => AtEof(in[t])
    /\ Go(t, Rest(t))
    /\ UNCHANGED <<threadVars, streamVars, fd, buf, phase>>

ReadNull(t) == AtCommand(t, {"read", "line"}) /\ in[t] = NULL /\ Crash

-----------------------------------------------------------------------------
(* Clones. *)

\* CloneTrampoline in thread c: its streams are i and o, on which the function
\* that it runs has opened others.
Start(c, i, o, items, detach) ==
    /\ status' = [status EXCEPT ![c] = "running"]
    /\ detached' = [detached EXCEPT ![c] = detach]
    /\ in' = [in EXCEPT ![c] = i]
    /\ out' = [out EXCEPT ![c] = o]
    /\ saved' = [saved EXCEPT ![c] = items]
    /\ UNCHANGED echoLock

\* START /B detaches the clone and waits for it.
CloneAndWait(t) ==
    /\ AtCommand(t, {"batch", "start", "wait"})
    /\ in[t] # NULL /\ CanClone
    /\ LET c == NewThread
           i == DupIn({})
           o == DupOut({})
       IN
       /\ fd' = [fd EXCEPT ![i] = fd[in[t]], ![o] = fd[out[t]]]
       /\ Start(c, i, o, <<>>, AtCommand(t, {"start"}))
       /\ calls' = [calls EXCEPT
            ![c] = <<Block(Arg(t, 1))>>, ![t] = <<Waiting(c)>> \o Rest(t)]
    /\ UNCHANGED <<buf, phase>>

\* The clone works on the streams of its parent.
CloneWithoutDup(t) ==
    /\ AtCommand(t, {"batch", "start", "wait"})
    /\ in[t] # NULL /\ CanClone
    /\ LET c == NewThread IN
       /\ Start(c, in[t], out[t], <<>>, AtCommand(t, {"start"}))
       /\ calls' = [calls EXCEPT
            ![c] = <<Block(Arg(t, 1))>>,
            ![t] = IF AtCommand(t, {"start"}) THEN Rest(t) ELSE <<Waiting(c)>> \o Rest(t)]
    /\ UNCHANGED <<fd, buf, phase>>

\* The name of a batch file, START /B, START /B /WAIT.
CloneInstance(t) ==
    /\ AtCommand(t, {"batch", "start", "wait"})
    /\ in[t] # NULL /\ CanClone
    /\ LET c == NewThread
           i == DupIn({})
           o == DupOut({})
       IN
       /\ fd' = [fd EXCEPT ![i] = fd[in[t]], ![o] = fd[out[t]]]
       /\ Start(c, i, o, <<>>, AtCommand(t, {"start"}))
       /\ calls' = [calls EXCEPT
            ![c] = <<Block(Arg(t, 1))>>,
            ![t] = IF AtCommand(t, {"start"}) THEN Rest(t) ELSE <<Waiting(c)>> \o Rest(t)]
    /\ UNCHANGED <<buf, phase>>

\* Both kinds of clone that write to a pipe their parent reads: the parent
\* keeps only the read end.
WithPipe(t) ==
    LET p == NewPipe
        ends == {PipeR, PipeW}
    IN
    /\ CanCloneWithPipe
    /\ fd' = [fd EXCEPT ![PipeR] = End(p, "r"), ![PipeW] = End(p, "w"),
                        ![DupIn(ends)] = fd[in[t]], ![DupOut(ends)] = fd[out[t]]]
    /\ buf' = [buf EXCEPT ![p] = 0]
SavedIn == [chan |-> "in", old |-> DupIn({PipeR, PipeW})]
SavedOut == [chan |-> "out", old |-> DupOut({PipeR, PipeW})]

CmdForF(t) ==
    /\ AtCommand(t, {"for"})
    /\ in[t] # NULL
    /\ WithPipe(t)
    /\ Start(NewThread, SavedIn.old, PipeW, <<SavedOut>>, FALSE)
    /\ calls' = [calls EXCEPT
         ![NewThread] = <<Block(Arg(t, 1))>>,
         ![t] = <<Reading(Arg(t, 2), PipeR, NewThread)>> \o Rest(t)]
    /\ UNCHANGED phase

ExecOperators(t) ==
    /\ AtCommand(t, {"pipe"})
    /\ Go(t, <<Piping(Head(Top(t).code).progs)>> \o Rest(t))
    /\ UNCHANGED <<threadVars, streamVars, fd, buf, phase>>

\* A command of the pipe that is not the last one.  The frame's file is
\* lastin, which LaunchPipe opens as the input of the clone if it is NULL.
LaunchPipe(t) ==
    /\ Running(t, "ExecOperators", "next") /\ Len(Top(t).progs) > 1
    /\ in[t] # NULL
    /\ WithPipe(t)
    /\ IF Top(t).file = NULL
       THEN Start(NewThread, NULL, PipeW, <<SavedIn, SavedOut>>, TRUE)
       ELSE Start(NewThread, SavedIn.old, PipeW, <<SavedOut>>, TRUE)
    /\ calls' = [calls EXCEPT
         ![NewThread] = <<Block(Head(Top(t).progs))>>,
         ![t][1].progs = Tail(@), ![t][1].file = PipeR]
    /\ UNCHANGED phase

\* Too many threads, pipes or descriptors: the error handler exits.
CloneFails(t) ==
    /\ \/ AtCommand(t, {"batch", "start", "wait"}) /\ ~CanClone
       \/ AtCommand(t, {"for"}) /\ ~CanCloneWithPipe
       \/ Running(t, "ExecOperators", "next") /\ Len(Top(t).progs) > 1 /\ ~CanCloneWithPipe
    /\ phase' = "exited"
    /\ UNCHANGED <<threadVars, calls, streamVars, fd, buf>>

\* DuplicateData on a NULL fInput: fileno fails, or dup does and it exits.
CloneNull(t) ==
    /\ \/ AtCommand(t, {"batch", "start", "wait", "for"})
       \/ Running(t, "ExecOperators", "next") /\ Len(Top(t).progs) > 1
    /\ in[t] = NULL
    /\ phase' \in {"crashed", "exited"}
    /\ UNCHANGED <<threadVars, calls, streamVars, fd, buf>>

-----------------------------------------------------------------------------
(* The parent's side of a pipe. *)

\* PopStreamStack on the top item of a thread: closes the current stream.
Popped(t) == Head(saved[t])
Current(t, chan) == IF chan = "in" THEN in[t] ELSE out[t]
PopStreamStack(t) ==
    /\ Current(t, Popped(t).chan) # NULL
    /\ fd' = [fd EXCEPT ![Current(t, Popped(t).chan)] = NoFile]
PopNull(t) ==
    /\ Current(t, Popped(t).chan) = NULL
    /\ UNCHANGED fd
RestoreStream(t) ==
    /\ saved' = [saved EXCEPT ![t] = Tail(@)]
    /\ in' = IF Popped(t).chan = "in" THEN [in EXCEPT ![t] = Popped(t).old] ELSE in
    /\ out' = IF Popped(t).chan = "out" THEN [out EXCEPT ![t] = Popped(t).old] ELSE out

LastCommand(t) ==
    /\ Running(t, "ExecOperators", "next") /\ Len(Top(t).progs) = 1
    /\ saved' = [saved EXCEPT ![t] = <<[chan |-> "in", old |-> in[t]]>> \o @]
    /\ in' = [in EXCEPT ![t] = Top(t).file]
    /\ Go(t, <<Block(Top(t).progs[1])>> \o
             [calls[t] EXCEPT ![1].pc = "ran", ![1].progs = <<>>, ![1].file = NULL])
    /\ UNCHANGED <<threadVars, out, fd, buf, phase>>

PipeEnds(t) ==
    /\ Running(t, "ExecOperators", "ran")
    /\ PopStreamStack(t) /\ RestoreStream(t)
    /\ Go(t, Tail(calls[t]))
    /\ UNCHANGED <<threadVars, buf, phase>>

\* One line of the command's output; then the body of the loop.
ForGetInputLine(t) ==
    /\ Running(t, "CmdForF", "next")
    /\ LET p == fd[Top(t).file].pipe IN
        /\ buf[p] > 0
        /\ buf' = [buf EXCEPT ![p] = @ - 1]
    /\ Go(t, <<Block(Top(t).progs[1])>> \o [calls[t] EXCEPT ![1].pc = "ran"])
    /\ UNCHANGED <<threadVars, streamVars, fd, phase>>

ForNext(t) ==
    /\ Running(t, "CmdForF", "ran")
    /\ Go(t, [calls[t] EXCEPT ![1].pc = "next"])
    /\ UNCHANGED <<threadVars, streamVars, fd, buf, phase>>

\* The end of the input, or a GOTO or an EXIT /B in the body.
ForStops(t) ==
    \/ Running(t, "CmdForF", "next") /\ AtEof(Top(t).file)
    \/ Running(t, "CmdForF", "ran")

\* The thread is waited for with the pipe still open.
ForWaitsFirst(t) ==
    /\ ForStops(t)
    /\ Go(t, <<Waiting(Top(t).child)>> \o Tail(calls[t]))
    /\ UNCHANGED <<threadVars, streamVars, fd, buf, phase>>

ForCloseInputInfo(t) ==
    /\ ForStops(t)
    /\ fd' = [fd EXCEPT ![Top(t).file] = NoFile]
    /\ Go(t, <<Waiting(Top(t).child)>> \o Tail(calls[t]))
    /\ UNCHANGED <<threadVars, streamVars, buf, phase>>

WaitForThread(t) ==
    /\ Running(t, "WaitForThread", "next")
    /\ status[Top(t).child] = "ended"
    /\ status' = [status EXCEPT ![Top(t).child] = "free"]
    /\ Go(t, Tail(calls[t]))
    /\ UNCHANGED <<detached, echoLock, streamVars, fd, buf, phase>>

BlockEnds(t) ==
    /\ Running(t, "RunBlock", "next") /\ Top(t).code = <<>>
    /\ Go(t, Tail(calls[t]))
    /\ UNCHANGED <<threadVars, streamVars, fd, buf, phase>>

-----------------------------------------------------------------------------
(* How a thread ends. *)

\* EXIT: bIgnoreExit is set in every clone.
CmdExit(t) ==
    /\ AtCommand(t, {"exit"})
    /\ IF t = Root THEN phase' = "exited" /\ UNCHANGED <<status, calls>>
       ELSE /\ status' = [status EXCEPT ![t] = "exit"]
            /\ Go(t, <<>>)
            /\ UNCHANGED phase
    /\ UNCHANGED <<detached, echoLock, streamVars, fd, buf>>

\* The function of a clone has returned to CloneTrampoline.
CloneReturns(t) ==
    /\ Active(t) /\ calls[t] = <<>> /\ t # Root
    /\ status' = [status EXCEPT ![t] = "return"]
    /\ UNCHANGED <<detached, echoLock, calls, streamVars, fd, buf, phase>>

\* pBat_Exit: FreeStreamStack.
FreeStreamStack(t) ==
    /\ phase = "running" /\ status[t] \in {"exit", "return"} /\ saved[t] # <<>>
    /\ \/ (PopStreamStack(t) \/ PopNull(t)) /\ RestoreStream(t)
          /\ UNCHANGED <<threadVars, calls, buf, phase>>
       \/ Current(t, Popped(t).chan) = NULL /\ Crash

EndThread(t) ==
    /\ status' = [status EXCEPT ![t] = IF detached[t] THEN "free" ELSE "ended"]
    /\ in' = [in EXCEPT ![t] = NULL]
    /\ out' = [out EXCEPT ![t] = NULL]
    /\ UNCHANGED <<detached, echoLock, calls, saved, buf, phase>>

\* CloneTrampoline closes its streams, EXIT does not.
CloseInput(t) == fd' = [fd EXCEPT ![in[t]] = NoFile]
CloseAll(t) == fd' = [fd EXCEPT ![in[t]] = NoFile, ![out[t]] = NoFile]

CloneEnds(t) ==
    /\ phase = "running" /\ status[t] = "return" /\ saved[t] = <<>>
    /\ CloseAll(t)
    /\ EndThread(t)

ExitEnds(t) ==
    /\ phase = "running" /\ status[t] = "exit" /\ saved[t] = <<>>
    /\ EndThread(t)
    /\ UNCHANGED fd

\* main() returns: the process ends with all of its threads.
MainEnds ==
    /\ Active(Root) /\ calls[Root] = <<>>
    /\ phase' = "exited"
    /\ UNCHANGED <<threadVars, calls, streamVars, fd, buf>>

-----------------------------------------------------------------------------
Init ==
    /\ status = [t \in Threads |-> IF t = Root THEN "running" ELSE "free"]
    /\ detached = [t \in Threads |-> FALSE]
    /\ \E s \in Scripts : calls = [t \in Threads |-> IF t = Root THEN <<Block(s)>> ELSE <<>>]
    /\ in = [t \in Threads |-> IF t = Root THEN Stdin ELSE NULL]
    /\ out = [t \in Threads |-> IF t = Root THEN Stdout ELSE NULL]
    /\ saved = [t \in Threads |-> <<>>]
    /\ fd = [h \in Handles |-> CASE h = Stdin -> End(NULL, "r") [] h = Stdout -> End(NULL, "w")
                              [] OTHER -> NoFile]
    /\ buf = [p \in Pipes |-> 0]
    /\ echoLock = NULL
    /\ phase = "running"

Step(t) ==
    \/ LockEcho(t) \/ Write(t) \/ Read(t) \/ ReadEof(t) \/ ReadNull(t)
    \/ CloneInstance(t) \/ CmdForF(t) \/ ExecOperators(t) \/ LaunchPipe(t)
    \/ CloneFails(t) \/ CloneNull(t)
    \/ LastCommand(t) \/ PipeEnds(t)
    \/ ForGetInputLine(t) \/ ForNext(t) \/ ForCloseInputInfo(t) \/ WaitForThread(t)
    \/ BlockEnds(t) \/ CmdExit(t) \/ CloneReturns(t) \/ FreeStreamStack(t)
    \/ CloneEnds(t) \/ ExitEnds(t)

ProcessEnded == phase # "running" /\ UNCHANGED vars

Next == (\E t \in Threads : Step(t)) \/ MainEnds \/ ProcessEnded

Spec == Init /\ [][Next]_vars

\* The threads are scheduled by the system, each of them for ever.
FairSpec == Spec /\ WF_vars(MainEnds) /\ \A t \in Threads : WF_vars(Step(t))

-----------------------------------------------------------------------------
(* Properties. *)

TypeOK ==
    /\ status \in [Threads -> {"free", "running", "exit", "return", "ended"}]
    /\ detached \in [Threads -> BOOLEAN]
    /\ calls \in [Threads -> Seq(Frame)]
    /\ in \in [Threads -> Handles \cup {NULL}]
    /\ out \in [Threads -> Handles \cup {NULL}]
    /\ saved \in [Threads -> Seq(Item)]
    /\ fd \in [Handles -> File]
    /\ buf \in [Pipes -> 0 .. Capacity]
    /\ echoLock \in Threads \cup {NULL}
    /\ phase \in {"running", "exited", "crashed"}

\* Every place that holds a FILE*: the streams of a thread, the items of its
\* stack, and the calls that read from a pipe.
Places ==
    (Threads \X {"in", "out"} \X {0})
        \cup (UNION {{<<t, "saved", i>> : i \in DOMAIN saved[t]} : t \in Threads})
        \cup (UNION {{<<t, "call", i>> : i \in DOMAIN calls[t]} : t \in Threads})
Held(pl) ==
    CASE pl[2] = "in" -> in[pl[1]]
      [] pl[2] = "out" -> out[pl[1]]
      [] pl[2] = "saved" -> saved[pl[1]][pl[3]].old
      [] OTHER -> calls[pl[1]][pl[3]].file

\* A FILE* belongs to one place of one thread and is open: no thread closes,
\* or reads from, a stream that another one uses.
OwnStreams ==
    \A a \in Places : Held(a) # NULL =>
        /\ fd[Held(a)] # NoFile
        /\ \A b \in Places \ {a} : Held(b) # Held(a)

\* No thread forgets a descriptor: as long as it is open it has an owner, who is going
\* to close it.  An end of a pipe without one keeps a reader or a writer waiting.  The
\* exceptions are EXIT in a clone, and a pipe of three commands, in which nobody reads
\* what the first one writes: LaunchPipe opens lastin as the input only if it is NULL.
Owned(h) == \E a \in Places : Held(a) = h
LosesInput(t) == LaunchPipe(t) /\ Top(t).file # NULL
NoOrphan ==
    [][\A h \in Handles :
        Owned(h) /\ fd'[h] # NoFile =>
            Owned(h)' \/ \E t \in Threads : CmdExit(t) \/ ExitEnds(t) \/ LosesInput(t)]_vars

\* A clone that somebody waits for is waited for by one call only, was not
\* detached, and is still there: pthread_join is called once on each.
JoinedOnce ==
    \A t \in Threads : \A i \in DOMAIN calls[t] :
        LET c == calls[t][i].child IN
        c # NULL =>
            /\ status[c] # "free" /\ ~detached[c] /\ c \notin {t, Root}
            /\ \A u \in Threads : \A j \in DOMAIN calls[u] :
                calls[u][j].child = c => u = t /\ j = i

\* The process ends: no thread that main() depends on waits for ever on a
\* pipe that is empty or full, or for a thread that does.
Finishes == <>(phase # "running")

-----------------------------------------------------------------------------
(* What the manual says.  It is refuted by a run: see the findings in the README. *)

\* for.tea: the output of a command is the input of FOR and both are run at
\* the same time, so FOR ends when the command has; also when the command
\* ECHOes more than the pipe holds while the body of the loop does.
ForEnds == Finishes
=============================================================================
