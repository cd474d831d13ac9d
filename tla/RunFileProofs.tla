--------------------------- MODULE RunFileProofs ---------------------------
(***************************************************************************)
(* Theorems about RunFile, for any threads, orders, files and search path: *)
(* what pBat_ExecuteFile reports of a program is what became of it.        *)
(***************************************************************************)
EXTENDS RunFile, TLAPS, WellFoundedInduction, SequenceTheorems

-----------------------------------------------------------------------------
(* The inductive invariant.  ErrorReported looks at a thread that is done;  *)
(* what it says depends on how far the child got while the thread waited,   *)
(* and on the error pipe.  A child that may still fail holds the write end  *)
(* of its own pipe (ChildOK), so that the end of the pipe means that the     *)
(* program runs.  No other thread changes that, whatever it closes.          *)

IsInfo(i) == i = [file |-> i.file, wait |-> i.wait, separate |-> i.separate]
\* Each thread has its entry in every variable.
Functions ==
    /\ pc = [t \in Threads |-> pc[t]] /\ info = [t \in Threads |-> info[t]]
    /\ holders = [t \in Threads |-> holders[t]]
    /\ child = [t \in Threads |-> child[t]] /\ by = [t \in Threads |-> by[t]]
    /\ told = [t \in Threads |-> told[t]] /\ result = [t \in Threads |-> result[t]]
    /\ started = [t \in Threads |-> started[t]]
    /\ \A t \in Threads : IsInfo(info[t])

\* The file is what the search of the command found.
Found(t) == /\ info[t].file = GetFilePath(command[t].place, command[t].name)
            /\ info[t].file # NotFound

\* How far the child is, what it holds, and what it told.
ChildOK(t) ==
    /\ child[t] \in {"none", "forked", "ready", "running", "ended", "failed"}
    /\ child[t] # "none" => by[t] \in {"run", "script"}
    /\ child[t] = "none" => by[t] = "" /\ ~told[t]
    /\ started[t] <=> child[t] \in {"running", "ended"}
    /\ child[t] = "ready" => by[t] = "run"
    /\ started[t] => info[t].file \in DOMAIN OnDisk
    /\ child[t] = "ended" => Code(t) # Never
    /\ by[t] = "run" /\ child[t] \in {"forked", "ready"} => t \in holders[t]
    /\ by[t] = "run" => (told[t] <=> child[t] = "failed")

\* What a thread knows at each place of its code.
PlaceOK(t) ==
    /\ pc[t] \in {"start", "run", "fork", Inside} => child[t] = "none"
    /\ pc[t] = "fork" => Self \in holders[t]
    /\ pc[t] \in {"close", "read"} => by[t] = "run"
    /\ pc[t] \in {"fork", "close", "read"} => ~info[t].separate
    /\ pc[t] = "script" => child[t] \in {"none", "failed"}
    /\ pc[t] = "wait" => /\ child[t] # "none"
                         /\ by[t] = "run" => info[t].wait /\ started[t]

\* What is reported. A child of a thread that reported an error never starts anything.
EndOK(t) ==
    pc[t] = "done" =>
        /\ result[t] = Error => child[t] \in {"none", "failed"}
        /\ result[t] # Error /\ by[t] = "run" =>
              /\ started[t]
              /\ info[t].wait => child[t] = "ended" /\ result[t] = Own(t)

PlainOK(t) == command[t].kind = "plain" =>
                  (pc[t] \in {"start", "done", Inside} /\ child[t] = "none") \/ Found(t)

ThreadOK(t) == ChildOK(t) /\ PlaceOK(t) /\ EndOK(t) /\ PlainOK(t)
Inv == Functions /\ \A t \in Threads : ThreadOK(t)

-----------------------------------------------------------------------------
(* A step of the thread or the child u leaves the entries of the others alone, but for the write ends *)
(* they hold: of those of the thread t only the children other than its own are added or removed.     *)
Untouched(t) == /\ pc'[t] = pc[t] /\ info'[t] = info[t] /\ child'[t] = child[t] /\ by'[t] = by[t]
                /\ told'[t] = told[t] /\ result'[t] = result[t] /\ started'[t] = started[t]
                /\ command'[t] = command[t]
                /\ \A h \in {t, Self} : (h \in holders[t])' <=> h \in holders[t]
Others(u) == \A t \in Threads \ {u} : Untouched(t)

LEMMA UntouchedOK ==
    ASSUME NEW t \in Threads, ThreadOK(t), Untouched(t)
    PROVE  ThreadOK(t)'
  <1>1. ChildOK(t)'
    BY DEF ThreadOK, ChildOK, Untouched, Code
  <1>2. PlaceOK(t)'
    BY DEF ThreadOK, PlaceOK, Untouched
  <1>3. EndOK(t)'
    BY DEF ThreadOK, EndOK, Untouched, Own, Code
  <1>4. PlainOK(t)'
    BY DEF ThreadOK, PlainOK, Untouched, Found
  <1> QED BY <1>1, <1>2, <1>3, <1>4 DEF ThreadOK

LEMMA InitOK == ASSUME Init PROVE Inv
  <1>1. Functions
    BY DEF Init, Functions, IsInfo, NoInfo
  <1>2. ASSUME NEW t \in Threads PROVE ThreadOK(t)
    BY DEF Init, ThreadOK, ChildOK, PlaceOK, EndOK, PlainOK, NoInfo, Inside
  <1> QED BY <1>1, <1>2 DEF Inv

-----------------------------------------------------------------------------
(* The steps of a thread *)

LEMMA RunExternalCommandOK ==
    ASSUME Inv, NEW u \in Threads, RunExternalCommand(u)
    PROVE  Functions' /\ Others(u) /\ ThreadOK(u)'
  <1> USE DEF RunExternalCommand, Begins, family, Returns, GoesInside, Executes, Goto, At, Inside
  <1>1. Functions' /\ Others(u)
    BY DEF Inv, Functions, IsInfo, Others, Untouched
  <1>2. ChildOK(u)' /\ PlaceOK(u)' /\ EndOK(u)'
    BY DEF Inv, ThreadOK, ChildOK, PlaceOK, EndOK, Functions
  <1>3. PlainOK(u)'
    <2> DEFINE found == GetFilePath(command[u].place, command[u].name)
    <2>1. child'[u] = "none"
      BY DEF Inv, ThreadOK, PlaceOK
    <2>2. CASE found = NotFound \/ found[3] \in Batches
      BY <2>1, <2>2 DEF Inv, PlainOK, Functions
    <2>3. CASE ~(found = NotFound \/ found[3] \in Batches)
      BY <2>3 DEF Inv, PlainOK, Found, Functions
    <2> QED BY <2>2, <2>3
  <1> QED BY <1>1, <1>2, <1>3 DEF ThreadOK

LEMMA CmdStartOK ==
    ASSUME Inv, NEW u \in Threads, CmdStart(u)
    PROVE  Functions' /\ Others(u) /\ ThreadOK(u)'
  <1> USE DEF CmdStart, Begins, family, Returns, GoesInside, Executes, Goto, At, Inside
  <1>1. Functions' /\ Others(u)
    BY DEF Inv, Functions, IsInfo, Others, Untouched, StartInfo
  <1>2. ChildOK(u)' /\ PlaceOK(u)' /\ EndOK(u)'
    BY DEF Inv, ThreadOK, ChildOK, PlaceOK, EndOK, Functions
  <1>3. PlainOK(u)'
    BY DEF Inv, PlainOK, Functions
  <1> QED BY <1>1, <1>2, <1>3 DEF ThreadOK


\* A descriptor of the others is not touched by what u does with its own.
OthersHold(u) == /\ holders' = [t \in Threads |-> holders'[t]]
                 /\ \A t \in Threads \ {u} : \A h \in {t, Self} : (h \in holders[t])' <=> h \in holders[t]

\* What is tried after a failure, from three places.
LEMMA FailsOK ==
    ASSUME Inv, NEW u \in Threads, Fails(u), OthersHold(u),
           pc[u] \in {"run", "fork", "read"}, child[u] \in {"none", "failed"},
           UNCHANGED <<command, script, child, by, told, started>>
    PROVE  Functions' /\ Others(u) /\ ThreadOK(u)'
  <1> USE DEF Fails, Returns, Goto, Inside
  <1>1. Functions' /\ Others(u)
    <2>1. CASE script.set
      BY <2>1 DEF Inv, Functions, IsInfo, Others, Untouched, OthersHold
    <2>2. CASE ~script.set /\ info[u].separate
      BY <2>2 DEF Inv, Functions, IsInfo, Others, Untouched, OthersHold
    <2>3. CASE ~script.set /\ ~info[u].separate
      BY <2>3 DEF Inv, Functions, IsInfo, Others, Untouched, OthersHold
    <2> QED BY <2>1, <2>2, <2>3
  <1>2. ChildOK(u)' /\ PlaceOK(u)'
    BY DEF Inv, ThreadOK, ChildOK, PlaceOK, Functions, IsInfo, Code
  <1>3. EndOK(u)'
    BY DEF Inv, ThreadOK, ChildOK, EndOK, Functions
  <1>4. PlainOK(u)'
    BY DEF Inv, ThreadOK, PlainOK, Functions, Found, IsInfo
  <1> QED BY <1>1, <1>2, <1>3, <1>4 DEF ThreadOK

LEMMA PipeOK ==
    ASSUME Inv, NEW u \in Threads, Pipe(u)
    PROVE  Functions' /\ Others(u) /\ ThreadOK(u)'
  <1> USE DEF Pipe, At
  <1>1. child[u] = "none"
    BY DEF Inv, ThreadOK, PlaceOK
  <1>2. OthersHold(u)
    BY DEF Inv, Functions, OthersHold
  <1>3. CASE info[u].separate
    BY <1>1, <1>2, <1>3, FailsOK
  <1>4. CASE ~info[u].separate
    <2> USE DEF Goto, Inside
    <2>1. Functions' /\ Others(u)
      BY <1>2, <1>4 DEF Inv, Functions, Others, Untouched, OthersHold
    <2>2. holders'[u] = {Self}
      BY <1>4 DEF Inv, Functions
    <2>3. ChildOK(u)'
      BY <1>1, <1>4 DEF Inv, ThreadOK, ChildOK, Functions
    <2>4. PlaceOK(u)'
      BY <1>1, <1>4, <2>2 DEF Inv, ThreadOK, PlaceOK, Functions
    <2>5. EndOK(u)'
      BY <1>4 DEF Inv, EndOK, Functions
    <2>6. PlainOK(u)'
      BY <1>1, <1>4 DEF Inv, ThreadOK, PlainOK, Functions, Found
    <2> QED BY <2>1, <2>3, <2>4, <2>5, <2>6 DEF ThreadOK
  <1> QED BY <1>3, <1>4

LEMMA ForkFailsOK ==
    ASSUME Inv, NEW u \in Threads, ForkFails(u)
    PROVE  Functions' /\ Others(u) /\ ThreadOK(u)'
  <1>1. child[u] = "none"
    BY DEF Inv, ThreadOK, PlaceOK, ForkFails, At
  <1>2. OthersHold(u)
    BY DEF Inv, Functions, OthersHold, ForkFails
  <1> QED BY <1>1, <1>2, FailsOK DEF ForkFails, At

LEMMA ForkOK ==
    ASSUME Inv, NEW u \in Threads, Fork(u)
    PROVE  Functions' /\ Others(u) /\ ThreadOK(u)'
  <1> USE DEF Fork, Forked, Inherited, At, Goto, Inside
  <1>1. Functions' /\ Others(u)
    BY ProgramsAssumption DEF Inv, Functions, Others, Untouched
  <1>2. child[u] = "none" /\ u \in holders'[u]
    BY DEF Inv, ThreadOK, PlaceOK, Functions
  <1>3. ChildOK(u)' /\ PlaceOK(u)' /\ EndOK(u)'
    BY <1>2 DEF Inv, ThreadOK, ChildOK, PlaceOK, EndOK, Functions
  <1>4. PlainOK(u)'
    BY DEF Inv, ThreadOK, PlainOK, Functions, Found
  <1> QED BY <1>1, <1>3, <1>4 DEF ThreadOK

LEMMA CloseWriteEndOK ==
    ASSUME Inv, NEW u \in Threads, CloseWriteEnd(u)
    PROVE  Functions' /\ Others(u) /\ ThreadOK(u)'
  <1> USE DEF CloseWriteEnd, At, Goto, Inside
  <1>1. Functions' /\ Others(u)
    BY DEF Inv, Functions, Others, Untouched
  <1>2. u \in holders'[u] <=> u \in holders[u]
    BY ProgramsAssumption DEF Inv, Functions
  <1>3. ChildOK(u)' /\ PlaceOK(u)' /\ EndOK(u)'
    BY <1>2 DEF Inv, ThreadOK, ChildOK, PlaceOK, EndOK, Functions, Code
  <1>4. PlainOK(u)'
    BY DEF Inv, ThreadOK, PlainOK, Functions, Found
  <1> QED BY <1>1, <1>3, <1>4 DEF ThreadOK

LEMMA ReadOK ==
    ASSUME Inv, NEW u \in Threads, Read(u)
    PROVE  Functions' /\ Others(u) /\ ThreadOK(u)'
  <1> USE DEF Read, At, family
  <1>1. by[u] = "run" /\ (told[u] <=> child[u] = "failed") /\ child[u] # "none"
    BY DEF Inv, ThreadOK, PlaceOK, ChildOK
  <1>2. OthersHold(u)
    BY DEF Inv, Functions, OthersHold
  <1>3. CASE told[u]
    BY <1>1, <1>2, <1>3, FailsOK
  <1>4. CASE ~told[u]
    <2> USE DEF Goto, Returns, Inside
    <2>1. Functions' /\ Others(u)
      BY <1>4 DEF Inv, Functions, Others, Untouched
    <2>2. started[u]
      BY <1>1, <1>4 DEF Inv, ThreadOK, ChildOK
    <2>3. ChildOK(u)' /\ PlaceOK(u)'
      BY <1>1, <1>4, <2>2 DEF Inv, ThreadOK, ChildOK, PlaceOK, Functions, Code
    <2>5. EndOK(u)'
      BY <1>1, <1>4, <2>2 DEF Inv, EndOK, Functions, Error
    <2>4. PlainOK(u)'
      BY <1>4 DEF Inv, ThreadOK, PlainOK, Functions, Found
    <2> QED BY <2>1, <2>3, <2>4, <2>5 DEF ThreadOK
  <1> QED BY <1>3, <1>4

LEMMA WaitOK ==
    ASSUME Inv, NEW u \in Threads, Wait(u)
    PROVE  Functions' /\ Others(u) /\ ThreadOK(u)'
  <1> USE DEF Wait, At, Goto, Returns, family, Inside
  <1>1. Functions' /\ Others(u)
    BY DEF Inv, Functions, Others, Untouched
  <1>2. ChildOK(u)' /\ PlaceOK(u)'
    BY DEF Inv, ThreadOK, ChildOK, PlaceOK, Functions, Code
  <1>3. PlainOK(u)'
    BY DEF Inv, ThreadOK, PlainOK, Functions, Found
  <1>4. ChildOK(u) /\ PlaceOK(u)
    BY DEF Inv, ThreadOK
  <1>5. child[u] = "ended" => Code(u) \in Nat \cup {Killed}
    BY <1>4, ProgramsAssumption DEF ChildOK, Code
  <1>6. Status(u) \in Nat
    <2>1. by[u] = "run" => child[u] = "ended"
      BY <1>4 DEF ChildOK, PlaceOK
    <2>2. \A n \in Nat : n * 256 \in Nat
      OBVIOUS
    <2> QED BY <1>5, <2>1, <2>2 DEF Status
  <1>7. by[u] = "run" => started[u] /\ child[u] = "ended" /\ Status(u) = Own(u)
    BY <1>4 DEF ChildOK, PlaceOK, Status, Own
  <1>8. EndOK(u)'
    BY <1>6, <1>7 DEF Inv, EndOK, Functions, Error, Own, Code
  <1> QED BY <1>1, <1>2, <1>3, <1>8 DEF ThreadOK

LEMMA StartFileOK ==
    ASSUME Inv, NEW u \in Threads, StartFile(u)
    PROVE  Functions' /\ Others(u) /\ ThreadOK(u)'
  <1> USE DEF StartFile, Forked, Inherited, At, Goto, Returns, Inside
  <1>1. Functions' /\ Others(u)
    BY ProgramsAssumption DEF Inv, Functions, Others, Untouched
  <1>2. child[u] \in {"none", "failed"}
    BY DEF Inv, ThreadOK, PlaceOK
  <1>3. ChildOK(u)' /\ PlaceOK(u)'
    BY <1>2 DEF Inv, ThreadOK, ChildOK, PlaceOK, Functions
  <1>4. EndOK(u)'
    BY <1>2 DEF Inv, EndOK, Functions, Error
  <1>5. PlainOK(u)'
    BY DEF Inv, ThreadOK, PlainOK, Functions, Found
  <1> QED BY <1>1, <1>3, <1>4, <1>5 DEF ThreadOK

LEMMA StartFailsOK ==
    ASSUME Inv, NEW u \in Threads, StartFails(u)
    PROVE  Functions' /\ Others(u) /\ ThreadOK(u)'
  <1> USE DEF StartFails, At, Goto, Returns, family, Inside
  <1>1. Functions' /\ Others(u)
    BY DEF Inv, Functions, Others, Untouched
  <1>2. ChildOK(u)' /\ PlaceOK(u)' /\ EndOK(u)'
    BY DEF Inv, ThreadOK, ChildOK, PlaceOK, EndOK, Functions, Code
  <1>3. PlainOK(u)'
    BY DEF Inv, ThreadOK, PlainOK, Functions, Found
  <1> QED BY <1>1, <1>2, <1>3 DEF ThreadOK

-----------------------------------------------------------------------------
\* The children

LEMMA DroppedHolds ==
    ASSUME Inv, NEW u \in Threads, NEW of \in SUBSET Threads, holders' = Dropped(u, of)
    PROVE  OthersHold(u) /\ (u \notin of => (u \in holders'[u] <=> u \in holders[u]))
                         /\ (Self \in holders'[u] <=> Self \in holders[u])
  BY ProgramsAssumption DEF OthersHold, Dropped, Inv, Functions

LEMMA PrepareOK ==
    ASSUME Inv, NEW u \in Threads, Prepare(u)
    PROVE  Functions' /\ Others(u) /\ ThreadOK(u)'
  <1> USE DEF Prepare, Inside
  <1>1. OthersHold(u) /\ (u \in holders'[u] <=> u \in holders[u]) /\ (Self \in holders'[u] <=> Self \in holders[u])
    BY DroppedHolds, Threads \ {u} \in SUBSET Threads DEF Closes
  <1>2. Functions' /\ Others(u)
    BY <1>1 DEF Inv, Functions, Others, Untouched, OthersHold
  <1>3. ChildOK(u)'
    BY <1>1 DEF Inv, ThreadOK, ChildOK, Functions
  <1>4. PlaceOK(u)'
    BY <1>1 DEF Inv, ThreadOK, ChildOK, PlaceOK, Functions
  <1>5. EndOK(u)'
    BY DEF Inv, ThreadOK, ChildOK, EndOK, Functions
  <1>6. PlainOK(u)'
    BY DEF Inv, ThreadOK, PlainOK, Functions, Found
  <1> QED BY <1>2, <1>3, <1>4, <1>5, <1>6 DEF ThreadOK

LEMMA ExecOK ==
    ASSUME Inv, NEW u \in Threads, Exec(u)
    PROVE  Functions' /\ Others(u) /\ ThreadOK(u)'
  <1> USE DEF Exec, Runs, Inside
  <1>1. OthersHold(u) /\ (Self \in holders'[u] <=> Self \in holders[u])
    BY DroppedHolds DEF OnExec
  <1>2. Functions' /\ Others(u)
    BY <1>1 DEF Inv, Functions, Others, Untouched, OthersHold
  <1>3. ChildOK(u) /\ by[u] = "run" /\ u \in holders[u] /\ ~told[u] /\ ~started[u]
    BY DEF Inv, ThreadOK, ChildOK
  <1>4. ChildOK(u)'
    BY <1>3 DEF Inv, ChildOK, Functions, Code
  <1>5. PlaceOK(u)'
    BY <1>1, <1>3 DEF Inv, ThreadOK, PlaceOK, Functions
  <1>6. EndOK(u)'
    BY <1>3 DEF Inv, ThreadOK, EndOK, Functions
  <1>7. PlainOK(u)'
    BY DEF Inv, ThreadOK, PlainOK, Functions, Found
  <1> QED BY <1>2, <1>4, <1>5, <1>6, <1>7 DEF ThreadOK

LEMMA ExecScriptOK ==
    ASSUME Inv, NEW u \in Threads, ExecScript(u)
    PROVE  Functions' /\ Others(u) /\ ThreadOK(u)'
  <1> USE DEF ExecScript, Runs, Inside
  <1>1. OthersHold(u) /\ (Self \in holders'[u] <=> Self \in holders[u])
    BY DroppedHolds DEF OthersHold, Inv, Functions
  <1>2. Functions' /\ Others(u)
    BY <1>1 DEF Inv, Functions, Others, Untouched, OthersHold
  <1>3. ChildOK(u)'
    BY DEF Inv, ThreadOK, ChildOK, Functions, Code
  <1>4. PlaceOK(u)'
    BY <1>1 DEF Inv, ThreadOK, PlaceOK, Functions
  <1>5. EndOK(u)'
    BY DEF Inv, ThreadOK, EndOK, Functions
  <1>6. PlainOK(u)'
    BY DEF Inv, ThreadOK, PlainOK, Functions, Found
  <1> QED BY <1>2, <1>3, <1>4, <1>5, <1>6 DEF ThreadOK

LEMMA EndsOK ==
    ASSUME Inv, NEW u \in Threads, End(u)
    PROVE  Functions' /\ Others(u) /\ ThreadOK(u)'
  <1> USE DEF End, Inside
  <1>1. OthersHold(u) /\ (Self \in holders'[u] <=> Self \in holders[u])
    BY DroppedHolds
  <1>2. Functions' /\ Others(u)
    BY <1>1 DEF Inv, Functions, Others, Untouched, OthersHold
  <1>3. ChildOK(u)'
    BY DEF Inv, ThreadOK, ChildOK, Functions, Code
  <1>4. PlaceOK(u)'
    BY <1>1 DEF Inv, ThreadOK, PlaceOK, ChildOK, Functions
  <1>5. EndOK(u)'
    BY DEF Inv, ThreadOK, EndOK, ChildOK, Functions
  <1>6. PlainOK(u)'
    BY DEF Inv, ThreadOK, PlainOK, Functions, Found
  <1> QED BY <1>2, <1>3, <1>4, <1>5, <1>6 DEF ThreadOK

-----------------------------------------------------------------------------
(* The search: the first place with a file is before the places of all other *)
(* files of that name, also when a directory is in PATH twice.               *)

Less == {p \in Nat \X Nat : p[1] < p[2]}

LEMMA LessIsWellFounded == IsWellFoundedOn(Less, Nat)
  BY NatLessThanWellFounded, Zenon DEF OpToRel, Less

LEMMA LeastOf ==
    ASSUME NEW S \in SUBSET Nat, S # {}
    PROVE  \E n \in S : \A m \in S : n <= m
  <1>1. PICK n \in S : \A m \in S : <<m, n>> \notin Less
    BY LessIsWellFounded, WFMin, Zenon
  <1>2. ASSUME NEW m \in S, m < n PROVE FALSE
    <2>1. <<m, n>> \in Less
      BY <1>2 DEF Less
    <2> QED BY <2>1, <1>1
  <1>3. \A m \in S : m \in Nat /\ n \in Nat /\ ~(m < n)
    BY <1>2
  <1> QED BY <1>3

LEMMA FirstIs ==
    ASSUME NEW s, NEW n \in Nat, DOMAIN s = 1..n, NEW i \in 1..n
    PROVE  LET k == First(s, s[i]) IN k \in 1..n /\ k <= i /\ s[k] = s[i]
  <1> DEFINE S == {j \in 1..n : s[j] = s[i]}
  <1>0. S \in SUBSET Nat /\ i \in S
    OBVIOUS
  <1>1. PICK k \in S : \A m \in S : k <= m
    BY <1>0, LeastOf
  <1>2. k \in DOMAIN s /\ s[k] = s[i] /\ \A j \in 1..(k - 1) : s[j] # s[i]
    BY <1>1
  <1>3. LET q == First(s, s[i]) IN q \in DOMAIN s /\ s[q] = s[i] /\ \A j \in 1..(q - 1) : s[j] # s[i]
    BY <1>2 DEF First
  <1> QED BY <1>3

\* A set of places has a first one.
LEMMA FirstPlace ==
    ASSUME NEW hits \in SUBSET (Nat \X Nat), hits # {}
    PROVE  \E p \in hits : \A q \in hits : ~Before(q, p)
  <1>1. PICK i \in {p[1] : p \in hits} : \A m \in {p[1] : p \in hits} : i <= m
    <2>1. {p[1] : p \in hits} \in SUBSET Nat /\ {p[1] : p \in hits} # {}
      OBVIOUS
    <2> QED BY <2>1, LeastOf
  <1> DEFINE row == {p \in hits : p[1] = i}
  <1>2. PICK j \in {p[2] : p \in row} : \A m \in {p[2] : p \in row} : j <= m
    <2>1. {p[2] : p \in row} \in SUBSET Nat /\ {p[2] : p \in row} # {}
      OBVIOUS
    <2> QED BY <2>1, LeastOf
  <1>3. PICK p \in row : p[2] = j
    BY <1>2
  <1>4. ASSUME NEW q \in hits, Before(q, p) PROVE FALSE
    <2>1. q[1] \in Nat /\ q[2] \in Nat /\ i \in Nat /\ j \in Nat /\ i <= q[1] /\ p[1] = i
      BY <1>1, <1>2
    <2>2. q[1] = i /\ q[2] < j
      BY <2>1, <1>3, <1>4 DEF Before
    <2>3. q[2] \in {r[2] : r \in row}
      BY <2>2
    <2> QED BY <2>1, <2>2, <2>3, <1>2
  <1> QED BY <1>3, <1>4

\* The directories and the extensions that are tried are sequences.
LEMMA TriedShape ==
    ASSUME NEW place
    PROVE  /\ \E n \in Nat : DOMAIN Directories(place) = 1..n
           /\ \E n \in Nat : DOMAIN Extensions = 1..n
  <1> DEFINE S == Range(Path) \cup Range(PathExt) \cup {CurrentDir, "", place}
  <1>1. Path \in Seq(S) /\ PathExt \in Seq(S)
    <2>1. Range(Path) \subseteq S /\ Range(PathExt) \subseteq S
      OBVIOUS
    <2> QED BY <2>1, SeqMonotonic, ProgramsAssumption
  <1>2. <<CurrentDir>> \in Seq(S) /\ <<place>> \in Seq(S) /\ <<"">> \in Seq(S)
    <2>1. CurrentDir \in S /\ "" \in S /\ place \in S
      OBVIOUS
    <2> HIDE DEF S
    <2>2. \A x \in S : <<x>> \in Seq(S)
      OBVIOUS
    <2> QED BY <2>1, <2>2
  <1> HIDE DEF S
  <1>3. <<CurrentDir>> \o Path \in Seq(S) /\ PathExt \o <<"">> \in Seq(S)
    BY <1>1, <1>2, ConcatProperties
  <1>4. Directories(place) \in Seq(S)
    BY <1>2, <1>3, Zenon DEF Directories
  <1>5. Extensions \in Seq(S)
    BY <1>3, Zenon DEF Extensions
  <1> QED BY <1>4, <1>5, LenProperties

LEMMA SearchInOrder ==
    ASSUME NEW t, Found(t)
    PROVE  InOrder(t)
  <1> DEFINE place == command[t].place
             name == command[t].name
             dirs == Directories(place)
             hits == {p \in Places(place) : Candidate(place, name, p) \in DOMAIN OnDisk}
             f == info[t].file
  <1>1. PICK nd \in Nat, ne \in Nat : DOMAIN dirs = 1..nd /\ DOMAIN Extensions = 1..ne
    BY TriedShape
  <1>2. hits # {} /\ f = Candidate(place, name, CHOOSE p \in hits : \A q \in hits : ~Before(q, p))
    BY DEF Found, GetFilePath
  <1>3. hits \in SUBSET (Nat \X Nat)
    BY <1>1 DEF Places
  <1>4. PICK p \in hits : f = Candidate(place, name, p) /\ \A q \in hits : ~Before(q, p)
    BY <1>2, <1>3, FirstPlace
  <1>5. p \in (1..nd) \X (1..ne) /\ f[1] = dirs[p[1]] /\ f[2] = name /\ f[3] = Extensions[p[2]]
    BY <1>1, <1>4 DEF Places, Candidate
  \* A file of the name that is there is at a place that does not come before.
  <1>6. ASSUME NEW i \in 1..nd, NEW j \in 1..ne, <<dirs[i], name, Extensions[j]>> \in DOMAIN OnDisk
        PROVE  p[1] < i \/ (p[1] = i /\ p[2] <= j)
    <2>1. <<i, j>> \in hits
      BY <1>1, <1>6 DEF Places, Candidate
    <2>2. ~Before(<<i, j>>, p)
      BY <2>1, <1>4
    <2> QED BY <2>2, <1>5 DEF Before
  <1>7. f \in DOMAIN OnDisk /\ f = <<dirs[p[1]], name, Extensions[p[2]]>>
    BY <1>4 DEF Candidate
  <1> HIDE DEF dirs
  <1>8. First(dirs, f[1]) = p[1] /\ First(Extensions, f[3]) = p[2]
    <2>0. p[1] \in 1..nd /\ p[2] \in 1..ne
      BY <1>5
    <2>1. PICK i : i = First(dirs, dirs[p[1]]) /\ i \in 1..nd /\ i <= p[1] /\ dirs[i] = dirs[p[1]]
      <3>1. \A m \in 1..nd : LET k == First(dirs, dirs[m]) IN k \in 1..nd /\ k <= m /\ dirs[k] = dirs[m]
        BY <1>1, FirstIs
      <3> QED BY <3>1, <2>0
    <2>2. PICK j : /\ j = First(Extensions, Extensions[p[2]])
                   /\ j \in 1..ne /\ j <= p[2] /\ Extensions[j] = Extensions[p[2]]
      <3>1. \A m \in 1..ne : LET k == First(Extensions, Extensions[m])
                             IN  k \in 1..ne /\ k <= m /\ Extensions[k] = Extensions[m]
        BY <1>1, FirstIs
      <3> QED BY <3>1, <2>0
    <2>3. p[1] < i \/ (p[1] = i /\ p[2] <= j)
      BY <2>1, <2>2, <1>6, <1>7
    <2>4. p[1] = i /\ p[2] = j
      BY <2>1, <2>2, <2>3, <1>5
    <2> QED BY <2>1, <2>2, <2>4, <1>5
  <1>9. ASSUME NEW g \in DOMAIN OnDisk, g[2] = f[2], g[1] \in Range(dirs), g[3] \in Range(Extensions)
        PROVE  \/ First(dirs, f[1]) < First(dirs, g[1])
               \/ f[1] = g[1] /\ First(Extensions, f[3]) <= First(Extensions, g[3])
    <2> DEFINE i == First(dirs, g[1])
               j == First(Extensions, g[3])
    <2>1. i \in 1..nd /\ dirs[i] = g[1]
      <3>1. PICK k \in 1..nd : g[1] = dirs[k]
        BY <1>1, <1>9 DEF Range
      <3> QED BY <3>1, <1>1, FirstIs
    <2>2. j \in 1..ne /\ Extensions[j] = g[3]
      <3>1. PICK k \in 1..ne : g[3] = Extensions[k]
        BY <1>1, <1>9 DEF Range
      <3> QED BY <3>1, <1>1, FirstIs
    <2>3. g = <<dirs[i], name, Extensions[j]>>
      BY <2>1, <2>2, <1>5, <1>9, ProgramsAssumption
    <2>4. p[1] < i \/ (p[1] = i /\ p[2] <= j)
      BY <2>1, <2>2, <2>3, <1>6
    <2>5. p[1] = i => f[1] = g[1]
      BY <1>5, <2>1
    <2> HIDE DEF i, j
    <2>6. p[1] < i \/ (f[1] = g[1] /\ p[2] <= j)
      BY <2>4, <2>5
    <2> QED BY <2>6, <1>8 DEF i, j
  <1> QED BY <1>9 DEF InOrder, dirs

-----------------------------------------------------------------------------
LEMMA StepOK ==
    ASSUME Inv, [Next]_vars
    PROVE  Inv'
  <1>1. ASSUME NEW u \in Threads, Goes(u) \/ Child(u) \/ ForkFails(u) \/ StartFails(u)
        PROVE  Functions' /\ Others(u) /\ ThreadOK(u)'
    BY <1>1, RunExternalCommandOK, CmdStartOK, PipeOK, ForkOK, ForkFailsOK, CloseWriteEndOK, ReadOK, WaitOK,
       StartFileOK, StartFailsOK, PrepareOK, ExecOK, ExecScriptOK, EndsOK DEF Goes, Child
  <1>2. CASE Next
    <2>1. PICK u \in Threads : Goes(u) \/ Child(u) \/ ForkFails(u) \/ StartFails(u)
      BY <1>2 DEF Next
    <2>2. Functions' /\ Others(u) /\ ThreadOK(u)'
      BY <1>1, <2>1
    <2>3. ASSUME NEW t \in Threads PROVE ThreadOK(t)'
      BY <2>2, UntouchedOK DEF Others, Inv
    <2> QED BY <2>2, <2>3 DEF Inv
  <1>3. CASE UNCHANGED vars
    <2>1. ASSUME NEW t \in Threads PROVE ThreadOK(t)'
      BY <1>3, UntouchedOK DEF Inv, Untouched, vars
    <2> QED BY <1>3, <2>1 DEF Inv, Functions, vars
  <1> QED BY <1>2, <1>3

LEMMA InvImpliesReported ==
    ASSUME Inv
    PROVE  ErrorReported
  <1>1. ASSUME NEW t \in Threads, pc[t] = "done"
        PROVE  /\ result[t] = Error => ~started[t]
               /\ result[t] # Error /\ by[t] = "run" => started[t]
               /\ result[t] # Error /\ by[t] = "run" /\ info[t].wait => child[t] = "ended" /\ result[t] = Own(t)
               /\ command[t].kind = "plain" /\ started[t] => InOrder(t)
    <2>1. ChildOK(t) /\ EndOK(t) /\ PlainOK(t)
      BY DEF Inv, ThreadOK
    <2>2. command[t].kind = "plain" /\ started[t] => Found(t)
      BY <2>1, <1>1 DEF ChildOK, PlainOK
    <2> QED BY <1>1, <2>1, <2>2, SearchInOrder DEF ChildOK, EndOK
  <1> QED BY <1>1 DEF ErrorReported, At

(* When pBat_ExecuteFile is done, an error has been reported only if nothing was executed, what pBat_RunFile was to
   execute without error was executed, the status of a program that was waited for is its own, and the program is the
   first one in the search order, however the steps of the other threads and of their children come in between. *)
THEOREM ErrorReportedHolds ==
    Spec => []ErrorReported
  <1>1. Init => Inv
    BY InitOK
  <1>2. Inv /\ [Next]_vars => Inv'
    BY StepOK
  <1>3. Inv => ErrorReported
    BY InvImpliesReported
  <1> QED BY <1>1, <1>2, <1>3, PTL DEF Spec
=============================================================================
