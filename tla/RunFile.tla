------------------------------- MODULE RunFile -------------------------------
(* Programs that are run by several threads at once: the search of a program,  *)
(* START, and pBat_ExecuteFile with the pipe over which a child tells that it  *)
(* could not execute its program. Every child inherits the descriptors that    *)
(* the interpreter has open, those of the other threads too.                   *)
EXTENDS Integers, Sequences, FiniteSets, Functions

CONSTANTS Threads,
          Assigned,      \* which thread runs what, [kind, place, name, args]: "plain", or "start" with the arguments of START
          OnDisk,        \* the files there are: [exec, ends], the status of the program, Killed or Never
          CurrentDir, Path, PathExt,
          Batches,       \* the extensions of scripts
          Internal,      \* the names of the commands of the interpreter
          StartScripts   \* [ok, set]: whether it can be executed, and whether PBAT_START_SCRIPT is there

VARIABLES pc, command, script, info,
          holders,       \* of each thread's pipe: who has its write end, the interpreter or a child
          child, by,     \* the last child of each thread, and what forked it
          told, result, started
vars == <<pc, command, script, info, holders, child, by, told, result, started>>

Self == 0                \* the interpreter, as a holder of the write end of a pipe
Pbat == <<"bin", "pbat", "">>
NoInfo == [file |-> Pbat, wait |-> FALSE, separate |-> FALSE]
Error == -1
Never == -2
Killed == -3

ASSUME ProgramsAssumption ==
    /\ Self \notin Threads
    /\ \A f \in DOMAIN OnDisk : /\ f = <<f[1], f[2], f[3]>>
                                /\ OnDisk[f].ends \in Nat \cup {Killed, Never}
    /\ Path \in Seq(Range(Path)) /\ PathExt \in Seq(Range(PathExt))

-----------------------------------------------------------------------------
(* pBat_GetFilePath: each extension of PATHEXT, then the name alone, in each directory. *)
Directories(place) == IF place # "" THEN <<place>> ELSE <<CurrentDir>> \o Path
Extensions == PathExt \o <<"">>
NotFound == <<"", "", "">>
Places(place) == (DOMAIN Directories(place)) \X (DOMAIN Extensions)
Candidate(place, name, p) == <<Directories(place)[p[1]], name, Extensions[p[2]]>>
Before(p, q) == p[1] < q[1] \/ (p[1] = q[1] /\ p[2] < q[2])
GetFilePath(place, name) ==
    LET hits == {p \in Places(place) : Candidate(place, name, p) \in DOMAIN OnDisk}
    IN  IF hits = {} THEN NotFound ELSE Candidate(place, name, CHOOSE p \in hits : \A q \in hits : ~Before(q, p))

\* The arguments of START: options, a title in quotes, and the program. More than one /D is refused.
Asks(args, option) == \E i \in DOMAIN args : args[i] = option
Count(args, option) == Cardinality({i \in DOMAIN args : args[i] = option})
Refused(c) == Count(c.args, "/D") > 1 \/ (c.name = "" /\ ~Asks(c.args, "title"))
StartInfo(c, file) == [file |-> file, wait |-> Asks(c.args, "/WAIT"), separate |-> ~Asks(c.args, "/B")]
StartFileOf(c) == LET found == GetFilePath(c.place, c.name) IN
                  IF c.name = "" \/ c.name \in Internal \/ found[3] \in Batches THEN Pbat           \* the interpreter itself
                  ELSE IF found = NotFound THEN <<CurrentDir, c.name, "">> ELSE found
Inside == "inside"       \* what a clone of the interpreter runs

-----------------------------------------------------------------------------
Init == /\ command \in Assigned /\ script \in StartScripts
        /\ pc = [t \in Threads |-> "start"] /\ info = [t \in Threads |-> NoInfo]
        /\ holders = [t \in Threads |-> {}] /\ child = [t \in Threads |-> "none"] /\ by = [t \in Threads |-> ""]
        /\ told = [t \in Threads |-> FALSE] /\ result = [t \in Threads |-> 0] /\ started = [t \in Threads |-> FALSE]

At(t, where) == pc[t] = where
Goto(t, where) == pc' = [pc EXCEPT ![t] = where]
Returns(t, status) == Goto(t, "done") /\ result' = [result EXCEPT ![t] = status]
family == <<holders, child, by, told, started>>

Begins(t, kind) == At(t, "start") /\ command[t].kind = kind /\ UNCHANGED <<command, script, family>>
GoesInside(t) == Goto(t, Inside) /\ UNCHANGED <<info, result>>
Executes(t, what) == info' = [info EXCEPT ![t] = what] /\ Goto(t, "run") /\ UNCHANGED result
\* A batch file is run by a clone of the interpreter.
RunExternalCommand(t) ==
    /\ Begins(t, "plain")
    /\ LET found == GetFilePath(command[t].place, command[t].name)
       IN  IF found = NotFound THEN Returns(t, Error) /\ UNCHANGED info
           ELSE IF found[3] \in Batches THEN GoesInside(t)
           ELSE Executes(t, [file |-> found, wait |-> TRUE, separate |-> FALSE])
\* A command of the interpreter is run by a clone of it with /B only.
CmdStart(t) ==
    /\ Begins(t, "start")
    /\ LET c == command[t]
       IN  IF Refused(c) THEN Returns(t, Error) /\ UNCHANGED info
           ELSE IF c.name \in Internal /\ Asks(c.args, "/B") THEN GoesInside(t)
           ELSE Executes(t, StartInfo(c, StartFileOf(c)))

(* pBat_ExecuteFile: what is done when pBat_RunFile fails. *)
Fails(t) == IF script.set THEN Goto(t, "script") /\ UNCHANGED <<info, result>>
            ELSE IF info[t].separate THEN info' = [info EXCEPT ![t].separate = FALSE] /\ Goto(t, "run") /\ UNCHANGED result
            ELSE Returns(t, Error) /\ UNCHANGED info

(* pBat_RunFile, in the interpreter *)
Pipe(t) == /\ At(t, "run")
           /\ IF info[t].separate THEN Fails(t) /\ UNCHANGED holders
              ELSE holders' = [holders EXCEPT ![t] = {Self}] /\ Goto(t, "fork") /\ UNCHANGED <<info, result>>
           /\ UNCHANGED <<command, script, child, by, told, started>>
Inherited(t) == [u \in Threads |-> IF Self \in holders[u] THEN holders[u] \cup {t} ELSE holders[u]]
Dropped(t, of) == [u \in Threads |-> IF u \in of THEN holders[u] \ {t} ELSE holders[u]]
Forked(t, how) == /\ holders' = Inherited(t)
                  /\ child' = [child EXCEPT ![t] = "forked"] /\ by' = [by EXCEPT ![t] = how]
Fork(t) == /\ At(t, "fork") /\ Forked(t, "run") /\ Goto(t, "close")
           /\ UNCHANGED <<command, script, info, told, result, started>>
ForkFails(t) == /\ At(t, "fork") /\ holders' = [holders EXCEPT ![t] = {}] /\ Fails(t)
                /\ UNCHANGED <<command, script, child, by, told, started>>
CloseWriteEnd(t) == /\ At(t, "close") /\ holders' = [holders EXCEPT ![t] = @ \ {Self}] /\ Goto(t, "read")
                    /\ UNCHANGED <<command, script, info, child, by, told, result, started>>
Read(t) == /\ At(t, "read") /\ (told[t] \/ holders[t] = {})
           /\ IF told[t] THEN Fails(t)
              ELSE IF info[t].wait THEN Goto(t, "wait") /\ UNCHANGED <<info, result>> ELSE Returns(t, 0) /\ UNCHANGED info
           /\ UNCHANGED <<command, script, family>>
Code(t) == OnDisk[info[t].file].ends
\* WEXITSTATUS, which is 0 for a program that was killed; pBat_StartFile gives what waitpid gave.
Status(t) == IF by[t] = "run" THEN IF Code(t) = Killed THEN 0 ELSE Code(t)
             ELSE IF child[t] = "failed" THEN 255 * 256
             ELSE IF Code(t) = Killed THEN 9 ELSE Code(t) * 256
Wait(t) == /\ At(t, "wait") /\ child[t] \in {"ended", "failed"} /\ Returns(t, Status(t))
           /\ UNCHANGED <<command, script, info, family>>
\* pBat_StartFile: this child closes nothing.
StartFile(t) == /\ At(t, "script") /\ Forked(t, "script")
                /\ IF info[t].wait THEN Goto(t, "wait") /\ UNCHANGED result ELSE Returns(t, 0)
                /\ UNCHANGED <<command, script, info, told, started>>
StartFails(t) == /\ At(t, "script") /\ Returns(t, Error)
                 /\ UNCHANGED <<command, script, info, family>>

(* The children *)
ClosesAll(t) == Dropped(t, Threads)                           \* its own write end too
Closes(t) == Dropped(t, Threads \ {t})
Prepare(t) == /\ child[t] = "forked" /\ by[t] = "run"
              /\ holders' = Closes(t) /\ child' = [child EXCEPT ![t] = "ready"]
              /\ UNCHANGED <<pc, command, script, info, by, told, result, started>>
Runs(t) == child' = [child EXCEPT ![t] = "running"] /\ started' = [started EXCEPT ![t] = TRUE]
KeepsOnExec(t) == holders                                    \* forgets FD_CLOEXEC
OnExec(t) == Dropped(t, Threads)
Exec(t) == /\ child[t] = "ready"
           /\ holders' = OnExec(t)                            \* or closed by exit
           /\ IF info[t].file \in DOMAIN OnDisk /\ (IF info[t].file \in DOMAIN OnDisk THEN OnDisk[info[t].file].exec ELSE FALSE)
              THEN Runs(t) /\ UNCHANGED told
              ELSE /\ child' = [child EXCEPT ![t] = "failed"] /\ told' = [told EXCEPT ![t] = t \in holders[t]]
                   /\ UNCHANGED started
           /\ UNCHANGED <<pc, command, script, info, by, result>>
ExecScript(t) == /\ child[t] = "forked" /\ by[t] = "script"
                 /\ IF script.ok /\ info[t].file \in DOMAIN OnDisk THEN Runs(t) /\ UNCHANGED holders
                    ELSE child' = [child EXCEPT ![t] = "failed"] /\ holders' = Dropped(t, Threads) /\ UNCHANGED started
                 /\ UNCHANGED <<pc, command, script, info, by, told, result>>
End(t) == /\ child[t] = "running" /\ Code(t) # Never
          /\ child' = [child EXCEPT ![t] = "ended"] /\ holders' = Dropped(t, Threads)
          /\ UNCHANGED <<pc, command, script, info, by, told, result, started>>

Goes(t) == RunExternalCommand(t) \/ CmdStart(t) \/ Pipe(t) \/ Fork(t) \/ CloseWriteEnd(t) \/ Read(t) \/ Wait(t) \/ StartFile(t)
Child(t) == Prepare(t) \/ Exec(t) \/ ExecScript(t) \/ End(t)
Next == \E t \in Threads : Goes(t) \/ Child(t) \/ ForkFails(t) \/ StartFails(t)
Fairness == \A t \in Threads : WF_vars(Goes(t)) /\ WF_vars(Child(t))
Spec == Init /\ [][Next]_vars /\ Fairness

-----------------------------------------------------------------------------
(* The program that is run is the one that comes first in the search order, and an error is only reported when nothing
   was executed. What pBat_RunFile reports without an error has been executed, and the status of a program that it
   waited for is the program's own. Of pBat_StartFile nothing of the kind is true: START of what the start script cannot
   execute returns 0, or 255 * 256 with /WAIT (pBat_Exec.c:598-618). A program that was killed has the status of one
   that ended well. *)
First(seq, x) == CHOOSE i \in DOMAIN seq : seq[i] = x /\ \A j \in 1..(i - 1) : seq[j] # x
InOrder(t) == LET f == info[t].file
                  dirs == Directories(command[t].place)
              IN  \A g \in DOMAIN OnDisk : g[2] = f[2] /\ g[1] \in Range(dirs) /\ g[3] \in Range(Extensions) =>
                      \/ First(dirs, f[1]) < First(dirs, g[1])
                      \/ f[1] = g[1] /\ First(Extensions, f[3]) <= First(Extensions, g[3])
Own(t) == IF Code(t) = Killed THEN 0 ELSE Code(t)
ErrorReported ==
    \A t \in Threads : At(t, "done") =>
        /\ result[t] = Error => ~started[t]
        /\ result[t] # Error /\ by[t] = "run" => started[t]
        /\ result[t] # Error /\ by[t] = "run" /\ info[t].wait => child[t] = "ended" /\ result[t] = Own(t)
        /\ command[t].kind = "plain" /\ started[t] => InOrder(t)

(* A thread gets on when it does not wait for a program that never ends. It may be held by such a program that another
   thread has given to the start script, which has the write end of its pipe. *)
ForEver(t) == child[t] = "running" /\ Code(t) = Never
Held(t) == \/ At(t, "wait") /\ ForEver(t)
           \/ At(t, "read") /\ \E u \in holders[t] \ {Self} : by[u] = "script" /\ ForEver(u)
Ends(t) == pc[t] \in {"done", Inside} \/ Held(t)
RunsEnd == \A t \in Threads : <>Ends(t)
=============================================================================
