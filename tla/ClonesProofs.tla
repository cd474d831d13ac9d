---------------------------- MODULE ClonesProofs ----------------------------
(***************************************************************************)
(* Theorems about Clones, for every value of its constants: any programs,  *)
(* any number of threads, pipes and descriptors.                           *)
(***************************************************************************)
EXTENDS Clones, TLAPS, FiniteSetTheorems, WellFoundedInduction

-----------------------------------------------------------------------------
(* The inductive invariant.  Calls are pushed and popped at the head of a  *)
(* stack, which renumbers all the others; to say that the places which     *)
(* hold a FILE* stay where they are, the invariant counts from the bottom. *)

\* The commands that ProgramsAssumption allows, the calls and the saved streams that occur.
GoodCommand(c) ==
    /\ c.op \in {"batch", "start", "wait"} => Len(c.progs) = 1
    /\ c.op = "for" => Len(c.progs) = 2
    /\ c.op = "pipe" => Len(c.progs) > 1
GoodCommands == {c \in Commands : GoodCommand(c)}

HasRun(f) == f.fn = "ExecOperators" /\ f.pc = "ran"
GoodFrame(f) ==
    /\ f.code \in Seq(GoodCommands)
    /\ f.fn \in {"RunBlock", "WaitForThread"} \/ HasRun(f) => f.file = NULL
    /\ f.fn = "RunBlock" => f.child = NULL
    /\ f.fn = "CmdForF" => Len(f.progs) = 1
Calls == {f \in Frame : GoodFrame(f)}

GoodItem(i) == i.chan = "out" => i.old # NULL
Items == {i \in Item : GoodItem(i)}

Types ==
    /\ status \in [Threads -> {"free", "running", "exit", "return", "ended"}]
    /\ detached \in [Threads -> BOOLEAN]
    /\ calls \in [Threads -> Seq(Calls)]
    /\ in \in [Threads -> Handles \cup {NULL}]
    /\ out \in [Threads -> Handles \cup {NULL}]
    /\ saved \in [Threads -> Seq(Items)]
    /\ fd \in [Handles -> File]
    /\ buf \in [Pipes -> 0 .. Capacity]
    /\ echoLock \in Threads \cup {NULL}
    /\ phase \in {"running", "exited", "crashed"}

\* The element of a stack at height d: its last call or item is at height 1.
At(s, d) == s[Len(s) + 1 - d]
FileAt(s, d) == IF d \in 1 .. Len(s) THEN At(s, d).file ELSE NULL
ChildAt(s, d) == IF d \in 1 .. Len(s) THEN At(s, d).child ELSE NULL
OldAt(s, d) == IF d \in 1 .. Len(s) THEN At(s, d).old ELSE NULL

\* The pipes whose last command runs: each has saved an input.
RanSet(s) == {d \in 1 .. Len(s) : HasRun(At(s, d))}

\* What a thread has in each state of its life.
Alive(t) ==
    /\ status[t] = "running" => out[t] # NULL
    /\ status[t] # "running" => calls[t] = <<>>
    /\ status[t] \in {"free", "ended"} => in[t] = NULL /\ out[t] = NULL /\ saved[t] = <<>>
    /\ Cardinality(RanSet(calls[t])) <= Len(saved[t])
AllAlive == status[Root] = "running" /\ \A t \in Threads : Alive(t)

\* Who holds which FILE*, and who waits for which thread.
Spots == Threads \X {"in", "out", "saved", "call"} \X Nat
Holds == [a \in Spots |->
    CASE a[2] = "in" -> IF a[3] = 0 THEN in[a[1]] ELSE NULL
      [] a[2] = "out" -> IF a[3] = 0 THEN out[a[1]] ELSE NULL
      [] a[2] = "saved" -> OldAt(saved[a[1]], a[3])
      [] OTHER -> FileAt(calls[a[1]], a[3])]
Waits == [a \in Threads \X Nat |-> ChildAt(calls[a[1]], a[2])]

Exclusive(H, g) ==
    \A a \in Spots : H[a] # NULL =>
        g[H[a]] # NoFile /\ \A b \in Spots \ {a} : H[b] # H[a]
Joinable(K, st, det) ==
    \A a \in Threads \X Nat : K[a] # NULL =>
        /\ st[K[a]] # "free" /\ ~det[K[a]] /\ K[a] \notin {a[1], Root}
        /\ \A b \in Threads \X Nat : K[b] = K[a] => b = a

IInv == Types /\ AllAlive /\ Exclusive(Holds, fd) /\ Joinable(Waits, status, detached)

-----------------------------------------------------------------------------
(* Lemmas on stacks. *)

LEMMA PushAt ==
    ASSUME NEW S, NEW s \in Seq(S), NEW f \in S
    PROVE  /\ <<f>> \o s \in Seq(S) /\ Len(<<f>> \o s) = Len(s) + 1
           /\ <<f>> \o s # <<>> /\ Head(<<f>> \o s) = f
           /\ At(<<f>> \o s, Len(s) + 1) = f
           /\ \A d \in 1 .. Len(s) : At(<<f>> \o s, d) = At(s, d)
  BY DEF At

LEMMA PopAt ==
    ASSUME NEW S, NEW s \in Seq(S), s # <<>>
    PROVE  /\ Tail(s) \in Seq(S) /\ Len(Tail(s)) = Len(s) - 1 /\ Len(s) \in Nat \ {0}
           /\ Head(s) \in S /\ At(s, Len(s)) = Head(s)
           /\ \A d \in 1 .. Len(s) - 1 : At(Tail(s), d) = At(s, d)
  BY DEF At

LEMMA ChangeAt ==
    ASSUME NEW S, NEW s \in Seq(S), s # <<>>, NEW g \in S
    PROVE  /\ [s EXCEPT ![1] = g] \in Seq(S) /\ Len([s EXCEPT ![1] = g]) = Len(s)
           /\ [s EXCEPT ![1] = g] # <<>> /\ Head([s EXCEPT ![1] = g]) = g
           /\ At([s EXCEPT ![1] = g], Len(s)) = g
           /\ \A d \in 1 .. Len(s) - 1 : At([s EXCEPT ![1] = g], d) = At(s, d)
  BY DEF At

LEMMA PushCall ==
    ASSUME NEW s \in Seq(Calls), NEW f \in Calls
    PROVE  LET u == <<f>> \o s
               n == Len(s) + 1
           IN  /\ u \in Seq(Calls) /\ u # <<>> /\ Len(u) = n /\ n \in Nat
               /\ \A d \in Nat :
                    /\ FileAt(u, d) = IF d = n THEN f.file ELSE FileAt(s, d)
                    /\ ChildAt(u, d) = IF d = n THEN f.child ELSE ChildAt(s, d)
               /\ RanSet(u) = IF HasRun(f) THEN RanSet(s) \cup {n} ELSE RanSet(s)
               /\ FileAt(s, n) = NULL /\ ChildAt(s, n) = NULL
  <1> DEFINE u == <<f>> \o s
             n == Len(s) + 1
  <1>1. /\ u \in Seq(Calls) /\ u # <<>> /\ Len(u) = n /\ n \in Nat /\ At(u, n) = f
        /\ \A d \in 1 .. Len(s) : At(u, d) = At(s, d)
    BY PushAt
  <1> HIDE DEF u
  <1>2. \A d \in Nat :
            /\ FileAt(u, d) = IF d = n THEN f.file ELSE FileAt(s, d)
            /\ ChildAt(u, d) = IF d = n THEN f.child ELSE ChildAt(s, d)
    BY <1>1 DEF FileAt, ChildAt
  <1>3. RanSet(u) = IF HasRun(f) THEN RanSet(s) \cup {n} ELSE RanSet(s)
    <2>1. 1 .. n = (1 .. Len(s)) \cup {n} /\ Len(s) \in Nat
      OBVIOUS
    <2> QED BY <1>1, <2>1 DEF RanSet
  <1>4. FileAt(s, n) = NULL /\ ChildAt(s, n) = NULL
    BY DEF FileAt, ChildAt
  <1> QED BY <1>1, <1>2, <1>3, <1>4 DEF u

LEMMA PopCall ==
    ASSUME NEW s \in Seq(Calls), s # <<>>
    PROVE  LET u == Tail(s)
               n == Len(s)
           IN  /\ u \in Seq(Calls) /\ n \in Nat \ {0} /\ Head(s) \in Calls
               /\ \A d \in Nat :
                    /\ FileAt(u, d) = IF d = n THEN NULL ELSE FileAt(s, d)
                    /\ ChildAt(u, d) = IF d = n THEN NULL ELSE ChildAt(s, d)
               /\ RanSet(u) = RanSet(s) \ {n}
               /\ n \in RanSet(s) <=> HasRun(Head(s))
               /\ FileAt(s, n) = Head(s).file /\ ChildAt(s, n) = Head(s).child
               /\ Len(u) = n - 1
  <1> DEFINE u == Tail(s)
             n == Len(s)
  <1>1. /\ u \in Seq(Calls) /\ Len(u) = n - 1 /\ n \in Nat \ {0} /\ Head(s) \in Calls
        /\ At(s, n) = Head(s) /\ \A d \in 1 .. n - 1 : At(u, d) = At(s, d)
    BY PopAt
  <1> HIDE DEF u
  <1>2. \A d \in Nat :
            /\ FileAt(u, d) = IF d = n THEN NULL ELSE FileAt(s, d)
            /\ ChildAt(u, d) = IF d = n THEN NULL ELSE ChildAt(s, d)
    BY <1>1 DEF FileAt, ChildAt
  <1>3. RanSet(u) = RanSet(s) \ {n}
    <2>1. 1 .. n - 1 = (1 .. n) \ {n}
      BY <1>1
    <2> QED BY <1>1, <2>1 DEF RanSet
  <1>4. /\ n \in RanSet(s) <=> HasRun(Head(s))
        /\ FileAt(s, n) = Head(s).file /\ ChildAt(s, n) = Head(s).child
    BY <1>1 DEF FileAt, ChildAt, RanSet
  <1> QED BY <1>1, <1>2, <1>3, <1>4 DEF u

LEMMA ChangeCall ==
    ASSUME NEW s \in Seq(Calls), s # <<>>, NEW g \in Calls
    PROVE  LET u == [s EXCEPT ![1] = g]
               n == Len(s)
           IN  /\ u \in Seq(Calls) /\ u # <<>> /\ Head(u) = g /\ n \in Nat \ {0} /\ Len(u) = n
               /\ \A d \in Nat :
                    /\ FileAt(u, d) = IF d = n THEN g.file ELSE FileAt(s, d)
                    /\ ChildAt(u, d) = IF d = n THEN g.child ELSE ChildAt(s, d)
               /\ RanSet(u) = IF HasRun(g) THEN RanSet(s) \cup {n} ELSE RanSet(s) \ {n}
  <1> DEFINE u == [s EXCEPT ![1] = g]
             n == Len(s)
  <1>1. /\ u \in Seq(Calls) /\ u # <<>> /\ Head(u) = g /\ Len(u) = n /\ At(u, n) = g
        /\ \A d \in 1 .. n - 1 : At(u, d) = At(s, d)
    <2>1. u \in Seq(Calls) /\ Len(u) = n
      BY ChangeAt
    <2>2. u # <<>> /\ Head(u) = g
      BY ChangeAt
    <2>3. At(u, n) = g
      BY ChangeAt
    <2>4. \A d \in 1 .. n - 1 : At(u, d) = At(s, d)
      BY ChangeAt
    <2> QED BY <2>1, <2>2, <2>3, <2>4
  <1>2. n \in Nat \ {0}
    BY PopAt
  <1> HIDE DEF u
  <1>3. \A d \in Nat :
            /\ FileAt(u, d) = IF d = n THEN g.file ELSE FileAt(s, d)
            /\ ChildAt(u, d) = IF d = n THEN g.child ELSE ChildAt(s, d)
    BY <1>1, <1>2 DEF FileAt, ChildAt
  <1>4. RanSet(u) = IF HasRun(g) THEN RanSet(s) \cup {n} ELSE RanSet(s) \ {n}
    BY <1>1, <1>2 DEF RanSet
  <1> QED BY <1>1, <1>2, <1>3, <1>4 DEF u

LEMMA RanFinite ==
    ASSUME NEW s \in Seq(Calls)
    PROVE  IsFiniteSet(RanSet(s)) /\ Cardinality(RanSet(s)) \in Nat
  <1>1. IsFiniteSet(1 .. Len(s))
    BY FS_Interval
  <1>2. RanSet(s) \in SUBSET (1 .. Len(s))
    BY DEF RanSet
  <1> QED BY <1>1, <1>2, FS_Subset, FS_CardinalityType

LEMMA EmptyStack ==
    /\ RanSet(<<>>) = {} /\ Cardinality(RanSet(<<>>)) = 0 /\ <<>> \in Seq(Calls)
    /\ \A d \in Nat : FileAt(<<>>, d) = NULL /\ ChildAt(<<>>, d) = NULL /\ OldAt(<<>>, d) = NULL
  BY FS_EmptySet DEF RanSet, FileAt, ChildAt, OldAt

LEMMA PushItem ==
    ASSUME NEW s \in Seq(Items), NEW i \in Items
    PROVE  LET u == <<i>> \o s
               n == Len(s) + 1
           IN  /\ u \in Seq(Items) /\ Len(u) = n /\ n \in Nat
               /\ \A d \in Nat : OldAt(u, d) = IF d = n THEN i.old ELSE OldAt(s, d)
               /\ OldAt(s, n) = NULL
  <1> DEFINE u == <<i>> \o s
             n == Len(s) + 1
  <1>1. /\ u \in Seq(Items) /\ Len(u) = n /\ n \in Nat /\ At(u, n) = i
        /\ \A d \in 1 .. Len(s) : At(u, d) = At(s, d)
    BY PushAt
  <1> HIDE DEF u
  <1>2. \A d \in Nat : OldAt(u, d) = IF d = n THEN i.old ELSE OldAt(s, d)
    BY <1>1 DEF OldAt
  <1> QED BY <1>1, <1>2 DEF u, OldAt

LEMMA PopItem ==
    ASSUME NEW s \in Seq(Items), s # <<>>
    PROVE  LET u == Tail(s)
               n == Len(s)
           IN  /\ u \in Seq(Items) /\ Len(u) = n - 1 /\ n \in Nat \ {0} /\ Head(s) \in Items
               /\ \A d \in Nat : OldAt(u, d) = IF d = n THEN NULL ELSE OldAt(s, d)
               /\ OldAt(s, n) = Head(s).old
  <1> DEFINE u == Tail(s)
             n == Len(s)
  <1>1. /\ u \in Seq(Items) /\ Len(u) = n - 1 /\ n \in Nat \ {0} /\ Head(s) \in Items
        /\ At(s, n) = Head(s) /\ \A d \in 1 .. n - 1 : At(u, d) = At(s, d)
    BY PopAt
  <1> HIDE DEF u
  <1>2. \A d \in Nat : OldAt(u, d) = IF d = n THEN NULL ELSE OldAt(s, d)
    BY <1>1 DEF OldAt
  <1>3. OldAt(s, n) = Head(s).old
    BY <1>1 DEF OldAt
  <1> QED BY <1>1, <1>2, <1>3 DEF u

-----------------------------------------------------------------------------
(* Lemmas on descriptors and on what holds them. *)

LEMMA LowestFacts ==
    ASSUME NEW S \in SUBSET Nat, S # {}
    PROVE  Lowest(S) \in S
  <1>1. PICK x \in S : \A y \in S : <<y, x>> \notin OpToRel(<, Nat)
    BY NatLessThanWellFounded, WFMin
  <1>2. \A y \in S : ~(y < x)
    <2> TAKE y \in S
    <2>1. y \in Nat /\ x \in Nat
      OBVIOUS
    <2> QED BY <1>1, <2>1 DEF OpToRel
  <1>3. \A y \in S : x <= y
    BY <1>2
  <1> QED BY <1>1, <1>3 DEF Lowest

\* A set of that many elements still has one when all but one were taken from it.
LEMMA Remain ==
    ASSUME NEW S, NEW a, NEW b, NEW c
    PROVE  /\ Cardinality(S) >= 2 => S # {} /\ S \ {a} # {}
           /\ Cardinality(S) >= 4 => S \ {a, b} # {} /\ S \ {a, b, c} # {}
  <1>1. IsFiniteSet({}) /\ Cardinality({}) = 0
    BY FS_EmptySet
  <1>2. IsFiniteSet({a}) /\ Cardinality({a}) = 1
    BY FS_Singleton
  <1>3. IsFiniteSet({a, b}) /\ Cardinality({a, b}) \in 0 .. 2
    <2>1. {a, b} = {a} \cup {b}
      OBVIOUS
    <2> QED BY <1>2, <2>1, FS_AddElement
  <1>4. IsFiniteSet({a, b, c}) /\ Cardinality({a, b, c}) \in 0 .. 3
    <2>1. {a, b, c} = {a, b} \cup {c}
      OBVIOUS
    <2> QED BY <1>3, <2>1, FS_AddElement
  <1>5. ASSUME NEW T, IsFiniteSet(T), S \ T = {}
        PROVE  IsFiniteSet(S) /\ Cardinality(S) <= Cardinality(T)
    <2>1. S \in SUBSET T
      BY <1>5
    <2> QED BY <1>5, <2>1, FS_Subset
  <1>6. ASSUME NEW T, IsFiniteSet(T), Cardinality(T) \in 0 .. 3, S \ T = {}
        PROVE  Cardinality(S) \in Nat /\ Cardinality(S) <= Cardinality(T)
    BY <1>5, <1>6, FS_CardinalityType
  <1>7. S = {} => Cardinality(S) = 0
    BY <1>1
  <1>8. S \ {a} = {} => Cardinality(S) \in Nat /\ Cardinality(S) <= 1
    BY <1>2, <1>6
  <1>9. S \ {a, b} = {} => Cardinality(S) \in Nat /\ Cardinality(S) <= 2
    BY <1>3, <1>6
  <1>10. S \ {a, b, c} = {} => Cardinality(S) \in Nat /\ Cardinality(S) <= 3
    BY <1>4, <1>6
  <1> QED BY <1>7, <1>8, <1>9, <1>10

LEMMA TwoClosed ==
    ASSUME Cardinality(Closed) >= 2
    PROVE  /\ DupIn({}) \in Closed /\ DupOut({}) \in Closed
           /\ DupIn({}) # DupOut({})
  <1>1. Closed \in SUBSET Nat
    BY HandlesAssumption DEF Closed
  <1>2. DupIn({}) \in Closed
    BY <1>1, Remain, LowestFacts DEF DupIn
  <1>3. Closed \ {DupIn({})} # {}
    BY Remain
  <1>4. DupOut({}) \in Closed \ {DupIn({})}
    <2>1. {} \cup {DupIn({})} = {DupIn({})}
      OBVIOUS
    <2>2. Closed \ {DupIn({})} \in SUBSET Nat
      BY <1>1
    <2> QED BY <1>3, <2>1, <2>2, LowestFacts DEF DupOut
  <1> QED BY <1>2, <1>4

LEMMA FourClosed ==
    ASSUME Cardinality(Closed) >= 4
    PROVE  LET ends == {PipeR, PipeW}
           IN  /\ PipeR \in Closed /\ PipeW \in Closed \ {PipeR}
               /\ DupIn(ends) \in Closed \ ends
               /\ DupOut(ends) \in Closed \ (ends \cup {DupIn(ends)})
  <1> DEFINE ends == {PipeR, PipeW}
  <1>1. Closed \in SUBSET Nat
    BY HandlesAssumption DEF Closed
  <1>2. \A a, b, c : Closed \ {a, b} # {} /\ Closed \ {a, b, c} # {}
    BY Remain
  <1>3. PipeR \in Closed
    <2>1. Closed # {}
      BY <1>2
    <2> QED BY <1>1, <2>1, LowestFacts DEF PipeR
  <1>4. PipeW \in Closed \ {PipeR}
    <2>1. Closed \ {PipeR} # {} /\ Closed \ {PipeR} \in SUBSET Nat
      <3>1. {PipeR, PipeR} = {PipeR}
        OBVIOUS
      <3> QED BY <1>1, <1>2, <3>1
    <2> QED BY <2>1, LowestFacts DEF PipeW
  <1>5. DupIn(ends) \in Closed \ ends
    <2>1. Closed \ ends # {} /\ Closed \ ends \in SUBSET Nat
      BY <1>1, <1>2
    <2> QED BY <2>1, LowestFacts DEF DupIn
  <1>6. DupOut(ends) \in Closed \ (ends \cup {DupIn(ends)})
    <2>1. ends \cup {DupIn(ends)} = {PipeR, PipeW, DupIn(ends)}
      OBVIOUS
    <2>2. Closed \ (ends \cup {DupIn(ends)}) # {} /\ Closed \ (ends \cup {DupIn(ends)}) \in SUBSET Nat
      BY <1>1, <1>2, <2>1
    <2> HIDE DEF ends
    <2> QED BY <2>2, LowestFacts DEF DupOut
  <1> QED BY <1>3, <1>4, <1>5, <1>6

-----------------------------------------------------------------------------
(* Lemmas on the places that hold a FILE*, before and after a step. *)

Holding == [Spots -> Handles \cup {NULL}]
Table == [Handles -> File]
Kept(H, G, g) ==
    \A h \in Handles : g[h] # NoFile /\ (\E a \in Spots : H[a] = h) => \E a \in Spots : G[a] = h

LEMMA ExclusiveDrop ==
    ASSUME NEW H \in Holding, NEW g \in Table, Exclusive(H, g),
           NEW G \in Holding, \A a \in Spots : G[a] \in {H[a], NULL}
    PROVE  Exclusive(G, g)
  BY ThreadsAssumption, HandlesAssumption DEF Exclusive, Holding

LEMMA ExclusiveMove ==
    ASSUME NEW H \in Holding, NEW g \in Table, Exclusive(H, g),
           NEW a \in Spots, NEW b \in Spots, a # b
    PROVE  LET G == [H EXCEPT ![a] = H[b], ![b] = NULL]
           IN  G \in Holding /\ Exclusive(G, g)
  BY HandlesAssumption DEF Exclusive, Holding

LEMMA ExclusiveClose ==
    ASSUME NEW H \in Holding, NEW g \in Table, Exclusive(H, g), NEW a \in Spots
    PROVE  LET G == [H EXCEPT ![a] = NULL]
               f == [g EXCEPT ![H[a]] = NoFile]
           IN  G \in Holding /\ f \in Table /\ Exclusive(G, f) /\ Kept(H, G, f)
  <1> DEFINE G == [H EXCEPT ![a] = NULL]
             f == [g EXCEPT ![H[a]] = NoFile]
  <1>1. G \in Holding /\ f \in Table
    BY DEF Holding, Table, File, NoFile, End
  <1>2. \A b \in Spots : G[b] = IF b = a THEN NULL ELSE H[b]
    BY DEF Holding
  <1>3. \A h \in Handles : f[h] = IF h = H[a] THEN NoFile ELSE g[h]
    BY DEF Table
  <1> HIDE DEF G, f
  <1>4. Exclusive(G, f)
    BY <1>2, <1>3 DEF Exclusive, Holding
  <1>5. Kept(H, G, f)
    BY <1>2, <1>3 DEF Kept
  <1> QED BY <1>1, <1>4, <1>5 DEF G, f

LEMMA KeptMove ==
    ASSUME NEW H \in Holding, NEW G \in Holding, NEW f, Kept(H, G, f),
           NEW a \in Spots, NEW b \in Spots, a # b, G[a] = NULL
    PROVE  Kept(H, [G EXCEPT ![a] = G[b], ![b] = NULL], f)
  <1> DEFINE F == [G EXCEPT ![a] = G[b], ![b] = NULL]
  <1>1. \A c \in Spots : F[c] = IF c = b THEN NULL ELSE IF c = a THEN G[b] ELSE G[c]
    BY DEF Holding
  <1> HIDE DEF F
  <1>2. Kept(H, F, f)
    BY <1>1, HandlesAssumption DEF Kept
  <1> QED BY <1>2 DEF F

LEMMA KeptGrow ==
    ASSUME NEW H, NEW G, NEW f, \A a \in Spots : H[a] # NULL => G[a] = H[a]
    PROVE  Kept(H, G, f)
  BY HandlesAssumption DEF Kept

\* The values of Holds and Waits, place by place.
LEMMA HoldsAt ==
    /\ DOMAIN Holds = Spots
    /\ \A u \in Threads, k \in Nat :
        /\ <<u, "in", k>> \in Spots /\ <<u, "out", k>> \in Spots
        /\ <<u, "saved", k>> \in Spots /\ <<u, "call", k>> \in Spots
        /\ Holds[<<u, "in", k>>] = IF k = 0 THEN in[u] ELSE NULL
        /\ Holds[<<u, "out", k>>] = IF k = 0 THEN out[u] ELSE NULL
        /\ Holds[<<u, "saved", k>>] = OldAt(saved[u], k)
        /\ Holds[<<u, "call", k>>] = FileAt(calls[u], k)
  <1>1. DOMAIN Holds = Spots
    BY DEF Holds
  <1>2. ASSUME NEW u \in Threads, NEW k \in Nat
        PROVE  /\ <<u, "in", k>> \in Spots /\ <<u, "out", k>> \in Spots
               /\ <<u, "saved", k>> \in Spots /\ <<u, "call", k>> \in Spots
    BY DEF Spots
  <1>3. ASSUME NEW u \in Threads, NEW k \in Nat
        PROVE  /\ Holds[<<u, "in", k>>] = IF k = 0 THEN in[u] ELSE NULL
               /\ Holds[<<u, "out", k>>] = IF k = 0 THEN out[u] ELSE NULL
               /\ Holds[<<u, "saved", k>>] = OldAt(saved[u], k)
               /\ Holds[<<u, "call", k>>] = FileAt(calls[u], k)
    BY <1>2 DEF Holds
  <1> QED BY <1>1, <1>2, <1>3

LEMMA WaitsAt ==
    /\ DOMAIN Waits = Threads \X Nat
    /\ \A u \in Threads, k \in Nat :
        <<u, k>> \in Threads \X Nat /\ Waits[<<u, k>>] = ChildAt(calls[u], k)
  BY DEF Waits

\* Each place belongs to a thread.
LEMMA SpotCases ==
    ASSUME NEW a \in Spots
    PROVE  \E u \in Threads, k \in Nat :
            a \in {<<u, "in", k>>, <<u, "out", k>>, <<u, "saved", k>>, <<u, "call", k>>}
  <1>1. PICK u \in Threads, x \in {"in", "out", "saved", "call"}, k \in Nat : a = <<u, x, k>>
    BY DEF Spots
  <1> QED BY <1>1

LEMMA HoldsType ==
    Types => Holds \in Holding /\ Waits \in [Threads \X Nat -> Threads \cup {NULL}]
  <1> SUFFICES ASSUME Types
               PROVE  Holds \in Holding /\ Waits \in [Threads \X Nat -> Threads \cup {NULL}]
    OBVIOUS
  <1>1. ASSUME NEW u \in Threads, NEW k \in Nat
        PROVE  OldAt(saved[u], k) \in Handles \cup {NULL}
    <2>1. saved[u] \in Seq(Items)
      BY DEF Types
    <2>2. CASE k \in 1 .. Len(saved[u])
      <3>1. At(saved[u], k) \in Items
        BY <2>1, <2>2 DEF At
      <3> QED BY <2>2, <3>1 DEF OldAt, Items, Item
    <2> QED BY <2>2 DEF OldAt
  <1>2. ASSUME NEW u \in Threads, NEW k \in Nat
        PROVE  FileAt(calls[u], k) \in Handles \cup {NULL} /\ ChildAt(calls[u], k) \in Threads \cup {NULL}
    <2>1. calls[u] \in Seq(Calls)
      BY DEF Types
    <2>2. CASE k \in 1 .. Len(calls[u])
      <3>1. At(calls[u], k) \in Calls
        BY <2>1, <2>2 DEF At
      <3> QED BY <2>2, <3>1 DEF FileAt, ChildAt, Calls, Frame
    <2> QED BY <2>2 DEF FileAt, ChildAt
  <1>3. \A a \in Spots : Holds[a] \in Handles \cup {NULL}
    <2> TAKE a \in Spots
    <2>1. PICK u \in Threads, k \in Nat :
            a \in {<<u, "in", k>>, <<u, "out", k>>, <<u, "saved", k>>, <<u, "call", k>>}
      BY SpotCases
    <2>2. in[u] \in Handles \cup {NULL} /\ out[u] \in Handles \cup {NULL}
      BY DEF Types
    <2>3. /\ Holds[<<u, "in", k>>] \in {in[u], NULL} /\ Holds[<<u, "out", k>>] \in {out[u], NULL}
          /\ Holds[<<u, "saved", k>>] = OldAt(saved[u], k)
          /\ Holds[<<u, "call", k>>] = FileAt(calls[u], k)
      BY HoldsAt
    <2> QED BY <1>1, <1>2, <2>1, <2>2, <2>3
  <1>4. Holds \in Holding
    BY <1>3 DEF Holding, Holds
  <1>5. Waits \in [Threads \X Nat -> Threads \cup {NULL}]
    BY <1>2 DEF Waits
  <1> QED BY <1>4, <1>5

\* Two functions on the places are the same if they are in every place.
LEMMA SameHolding ==
    ASSUME NEW H, NEW G, DOMAIN H = Spots, DOMAIN G = Spots,
           H = [a \in Spots |-> H[a]], G = [a \in Spots |-> G[a]],
           \A u \in Threads, k \in Nat :
            /\ H[<<u, "in", k>>] = G[<<u, "in", k>>]
            /\ H[<<u, "out", k>>] = G[<<u, "out", k>>]
            /\ H[<<u, "saved", k>>] = G[<<u, "saved", k>>]
            /\ H[<<u, "call", k>>] = G[<<u, "call", k>>]
    PROVE  H = G
  <1>1. \A a \in Spots : H[a] = G[a]
    <2> TAKE a \in Spots
    <2>1. PICK u \in Threads, k \in Nat :
            a \in {<<u, "in", k>>, <<u, "out", k>>, <<u, "saved", k>>, <<u, "call", k>>}
      BY SpotCases
    <2>2. /\ H[<<u, "in", k>>] = G[<<u, "in", k>>] /\ H[<<u, "out", k>>] = G[<<u, "out", k>>]
          /\ H[<<u, "saved", k>>] = G[<<u, "saved", k>>]
          /\ H[<<u, "call", k>>] = G[<<u, "call", k>>]
      OBVIOUS
    <2> QED BY <2>1, <2>2
  <1> QED BY <1>1

-----------------------------------------------------------------------------
(* What the invariant says of the properties. *)

LEMMA InvTypeOK == IInv => TypeOK
  <1> SUFFICES ASSUME IInv
               PROVE  TypeOK
    OBVIOUS
  <1>1. Calls \subseteq Frame /\ Items \subseteq Item
    BY DEF Calls, Items
  <1>2. Seq(Calls) \subseteq Seq(Frame) /\ Seq(Items) \subseteq Seq(Item)
    BY <1>1
  <1> QED BY <1>2 DEF IInv, Types, TypeOK

\* The place of the invariant that is a place of OwnStreams.
Spot(a) ==
    CASE a[2] = "saved" -> <<a[1], "saved", Len(saved[a[1]]) + 1 - a[3]>>
      [] a[2] = "call" -> <<a[1], "call", Len(calls[a[1]]) + 1 - a[3]>>
      [] OTHER -> a

LEMMA PlaceCases ==
    ASSUME NEW a \in Places
    PROVE  \E u \in Threads :
            \/ a \in {<<u, "in", 0>>, <<u, "out", 0>>}
            \/ \E i \in DOMAIN saved[u] : a = <<u, "saved", i>>
            \/ \E i \in DOMAIN calls[u] : a = <<u, "call", i>>
  <1> DEFINE streams == Threads \X {"in", "out"} \X {0}
             items == UNION {{<<t, "saved", i>> : i \in DOMAIN saved[t]} : t \in Threads}
             frames == UNION {{<<t, "call", i>> : i \in DOMAIN calls[t]} : t \in Threads}
  <1>1. ASSUME a \in streams
        PROVE  \E u \in Threads : a \in {<<u, "in", 0>>, <<u, "out", 0>>}
    <2>1. PICK u \in Threads, x \in {"in", "out"} : a = <<u, x, 0>>
      BY <1>1
    <2> QED BY <2>1
  <1>2. ASSUME a \in items
        PROVE  \E u \in Threads : \E i \in DOMAIN saved[u] : a = <<u, "saved", i>>
    BY <1>2
  <1>3. ASSUME a \in frames
        PROVE  \E u \in Threads : \E i \in DOMAIN calls[u] : a = <<u, "call", i>>
    BY <1>3
  <1>4. Places = streams \cup items \cup frames
    BY DEF Places
  <1> HIDE DEF streams, items, frames
  <1> QED BY <1>1, <1>2, <1>3, <1>4

LEMMA SpotFacts ==
    ASSUME Types, NEW a \in Places
    PROVE  /\ Spot(a) \in Spots /\ Holds[Spot(a)] = Held(a)
           /\ \A b \in Places : Spot(b) = Spot(a) => b = a
  <1> USE DEF Types
  <1>0. ASSUME NEW u \in Threads
        PROVE  /\ saved[u] \in Seq(Items) /\ calls[u] \in Seq(Calls)
               /\ DOMAIN saved[u] = 1 .. Len(saved[u]) /\ Len(saved[u]) \in Nat
               /\ DOMAIN calls[u] = 1 .. Len(calls[u]) /\ Len(calls[u]) \in Nat
    OBVIOUS
  <1> HIDE DEF Types
  <1>1. ASSUME NEW b \in Places
        PROVE  \E u \in Threads, k \in Nat :
                \/ b = <<u, "in", 0>> /\ Spot(b) = b
                \/ b = <<u, "out", 0>> /\ Spot(b) = b
                \/ /\ b = <<u, "saved", k>> /\ k \in 1 .. Len(saved[u])
                   /\ Spot(b) = <<u, "saved", Len(saved[u]) + 1 - k>>
                \/ /\ b = <<u, "call", k>> /\ k \in 1 .. Len(calls[u])
                   /\ Spot(b) = <<u, "call", Len(calls[u]) + 1 - k>>
    <2>1. PICK u \in Threads :
            \/ b \in {<<u, "in", 0>>, <<u, "out", 0>>}
            \/ \E i \in DOMAIN saved[u] : b = <<u, "saved", i>>
            \/ \E i \in DOMAIN calls[u] : b = <<u, "call", i>>
      BY PlaceCases
    <2>2. CASE b = <<u, "in", 0>>
      <3>1. Spot(b) = b
        BY <2>2 DEF Spot
      <3> QED BY <2>2, <3>1
    <2>3. CASE b = <<u, "out", 0>>
      <3>1. Spot(b) = b
        BY <2>3 DEF Spot
      <3> QED BY <2>3, <3>1
    <2>4. ASSUME NEW i \in DOMAIN saved[u], b = <<u, "saved", i>>
          PROVE  /\ i \in Nat /\ i \in 1 .. Len(saved[u])
                 /\ Spot(b) = <<u, "saved", Len(saved[u]) + 1 - i>>
      BY <1>0, <2>4 DEF Spot
    <2>5. ASSUME NEW i \in DOMAIN calls[u], b = <<u, "call", i>>
          PROVE  /\ i \in Nat /\ i \in 1 .. Len(calls[u])
                 /\ Spot(b) = <<u, "call", Len(calls[u]) + 1 - i>>
      BY <1>0, <2>5 DEF Spot
    <2> QED BY <2>1, <2>2, <2>3, <2>4, <2>5
  <1>2. Spot(a) \in Spots /\ Holds[Spot(a)] = Held(a)
    <2>1. PICK u \in Threads, k \in Nat :
                \/ a = <<u, "in", 0>> /\ Spot(a) = a
                \/ a = <<u, "out", 0>> /\ Spot(a) = a
                \/ /\ a = <<u, "saved", k>> /\ k \in 1 .. Len(saved[u])
                   /\ Spot(a) = <<u, "saved", Len(saved[u]) + 1 - k>>
                \/ /\ a = <<u, "call", k>> /\ k \in 1 .. Len(calls[u])
                   /\ Spot(a) = <<u, "call", Len(calls[u]) + 1 - k>>
      BY <1>1
    <2>2. CASE a = <<u, "in", 0>> /\ Spot(a) = a
      BY <2>2, HoldsAt DEF Held
    <2>3. CASE a = <<u, "out", 0>> /\ Spot(a) = a
      BY <2>3, HoldsAt DEF Held
    <2>4. CASE /\ a = <<u, "saved", k>> /\ k \in 1 .. Len(saved[u])
               /\ Spot(a) = <<u, "saved", Len(saved[u]) + 1 - k>>
      <3> DEFINE d == Len(saved[u]) + 1 - k
      <3>1. d \in Nat /\ d \in 1 .. Len(saved[u]) /\ Len(saved[u]) + 1 - d = k
        BY <1>0, <2>4
      <3>2. OldAt(saved[u], d) = saved[u][k].old
        BY <3>1 DEF OldAt, At
      <3>3. Held(a) = saved[u][k].old
        BY <2>4 DEF Held
      <3> QED BY <2>4, <3>1, <3>2, <3>3, HoldsAt
    <2>5. CASE /\ a = <<u, "call", k>> /\ k \in 1 .. Len(calls[u])
               /\ Spot(a) = <<u, "call", Len(calls[u]) + 1 - k>>
      <3> DEFINE d == Len(calls[u]) + 1 - k
      <3>0. Len(calls[u]) \in Nat /\ k \in 1 .. Len(calls[u])
        BY <1>0, <2>5
      <3>1. d \in Nat /\ d \in 1 .. Len(calls[u]) /\ Len(calls[u]) + 1 - d = k
        BY <3>0
      <3>2. FileAt(calls[u], d) = calls[u][k].file
        BY <3>1 DEF FileAt, At
      <3>3. Held(a) = calls[u][k].file
        BY <2>5 DEF Held
      <3> QED BY <2>5, <3>1, <3>2, <3>3, HoldsAt
    <2> QED BY <2>1, <2>2, <2>3, <2>4, <2>5
  <1>3. ASSUME NEW b \in Places, Spot(b) = Spot(a)
        PROVE  b = a
    BY <1>0, <1>1, <1>3
  <1> QED BY <1>2, <1>3

LEMMA InvOwnStreams == IInv => OwnStreams
  <1> SUFFICES ASSUME IInv, NEW a \in Places, Held(a) # NULL
               PROVE  fd[Held(a)] # NoFile /\ \A b \in Places \ {a} : Held(b) # Held(a)
    BY DEF OwnStreams
  <1>1. Types
    BY DEF IInv
  <1>2. Spot(a) \in Spots /\ Holds[Spot(a)] = Held(a)
    BY <1>1, SpotFacts
  <1>3. fd[Held(a)] # NoFile /\ \A b \in Spots \ {Spot(a)} : Holds[b] # Held(a)
    BY <1>2 DEF IInv, Exclusive
  <1>4. ASSUME NEW b \in Places \ {a}
        PROVE  Spot(b) \in Spots \ {Spot(a)} /\ Holds[Spot(b)] = Held(b)
    BY <1>1, SpotFacts
  <1> QED BY <1>3, <1>4

LEMMA InvJoinedOnce == IInv => JoinedOnce
  <1> SUFFICES ASSUME IInv, NEW t \in Threads, NEW i \in DOMAIN calls[t], calls[t][i].child # NULL
               PROVE  /\ status[calls[t][i].child] # "free" /\ ~detached[calls[t][i].child]
                      /\ calls[t][i].child \notin {t, Root}
                      /\ \A u \in Threads : \A j \in DOMAIN calls[u] :
                          calls[u][j].child = calls[t][i].child => u = t /\ j = i
    BY DEF JoinedOnce
  <1> DEFINE c == calls[t][i].child
             n(u) == Len(calls[u]) + 1
  <1>1. ASSUME NEW u \in Threads, NEW j \in DOMAIN calls[u]
        PROVE  /\ <<u, n(u) - j>> \in Threads \X Nat /\ Waits[<<u, n(u) - j>>] = calls[u][j].child
               /\ j \in Nat /\ n(u) \in Nat
    <2>1. calls[u] \in Seq(Calls) /\ j \in 1 .. Len(calls[u])
      BY DEF IInv, Types
    <2>2. n(u) - j \in Nat /\ n(u) - j \in 1 .. Len(calls[u]) /\ n(u) - (n(u) - j) = j
      BY <2>1
    <2>3. ChildAt(calls[u], n(u) - j) = calls[u][j].child
      BY <2>2 DEF ChildAt, At
    <2> QED BY <2>1, <2>2, <2>3, WaitsAt
  <1>2. /\ status[c] # "free" /\ ~detached[c] /\ c \notin {t, Root}
        /\ \A b \in Threads \X Nat : Waits[b] = c => b = <<t, n(t) - i>>
    <2>1. <<t, n(t) - i>> \in Threads \X Nat /\ Waits[<<t, n(t) - i>>] = c /\ c # NULL
      BY <1>1
    <2>2. <<t, n(t) - i>>[1] = t
      OBVIOUS
    <2> HIDE DEF c, n
    <2> QED BY <2>1, <2>2 DEF IInv, Joinable
  <1>3. ASSUME NEW u \in Threads, NEW j \in DOMAIN calls[u], calls[u][j].child = c
        PROVE  u = t /\ j = i
    <2>1. Waits[<<u, n(u) - j>>] = c /\ <<u, n(u) - j>> \in Threads \X Nat
      BY <1>1, <1>3
    <2> HIDE DEF c
    <2>2. <<u, n(u) - j>> = <<t, n(t) - i>>
      BY <1>2, <2>1
    <2>3. u = t
      BY <2>2
    <2>4. n(t) - j = n(t) - i /\ n(t) \in Nat /\ j \in Nat /\ i \in Nat
      BY <1>1, <2>2, <2>3
    <2> QED BY <2>3, <2>4
  <1> QED BY <1>2, <1>3

\* A FILE* has an owner if the invariant has a place for it.
LEMMA OwnedSpots ==
    Types => \A h \in Handles : Owned(h) <=> \E a \in Spots : Holds[a] = h
  <1> SUFFICES ASSUME Types, NEW h \in Handles
               PROVE  Owned(h) <=> \E a \in Spots : Holds[a] = h
    OBVIOUS
  <1>1. ASSUME NEW a \in Places, Held(a) = h
        PROVE  \E b \in Spots : Holds[b] = h
    BY <1>1, SpotFacts
  <1>2. ASSUME NEW a \in Spots, Holds[a] = h
        PROVE  \E b \in Places : Held(b) = h
    <2>1. PICK u \in Threads, k \in Nat :
            a \in {<<u, "in", k>>, <<u, "out", k>>, <<u, "saved", k>>, <<u, "call", k>>}
      BY SpotCases
    <2>2. h # NULL
      BY HandlesAssumption
    <2>3. /\ Holds[<<u, "in", k>>] = IF k = 0 THEN in[u] ELSE NULL
          /\ Holds[<<u, "out", k>>] = IF k = 0 THEN out[u] ELSE NULL
          /\ Holds[<<u, "saved", k>>] = OldAt(saved[u], k)
          /\ Holds[<<u, "call", k>>] = FileAt(calls[u], k)
      BY HoldsAt
    <2> DEFINE streams == Threads \X {"in", "out"} \X {0}
               items == UNION {{<<t, "saved", i>> : i \in DOMAIN saved[t]} : t \in Threads}
               frames == UNION {{<<t, "call", i>> : i \in DOMAIN calls[t]} : t \in Threads}
    <2>4. streams \subseteq Places /\ items \subseteq Places /\ frames \subseteq Places
      BY DEF Places
    <2>5. /\ \A i \in DOMAIN saved[u] : <<u, "saved", i>> \in items
          /\ \A i \in DOMAIN calls[u] : <<u, "call", i>> \in frames
          /\ <<u, "in", 0>> \in streams /\ <<u, "out", 0>> \in streams
      OBVIOUS
    <2> HIDE DEF streams, items, frames
    <2>6. CASE a = <<u, "in", k>>
      <3>1. k = 0 /\ in[u] = h
        BY <1>2, <2>2, <2>3, <2>6
      <3>2. <<u, "in", 0>> \in Places /\ Held(<<u, "in", 0>>) = h
        BY <2>4, <2>5, <3>1 DEF Held
      <3> QED BY <3>2
    <2>7. CASE a = <<u, "out", k>>
      <3>1. k = 0 /\ out[u] = h
        BY <1>2, <2>2, <2>3, <2>7
      <3>2. <<u, "out", 0>> \in Places /\ Held(<<u, "out", 0>>) = h
        BY <2>4, <2>5, <3>1 DEF Held
      <3> QED BY <3>2
    <2>8. CASE a = <<u, "saved", k>>
      <3>1. OldAt(saved[u], k) = h /\ saved[u] \in Seq(Items)
        BY <1>2, <2>3, <2>8 DEF Types
      <3>2. k \in 1 .. Len(saved[u]) /\ saved[u][Len(saved[u]) + 1 - k].old = h
        BY <2>2, <3>1 DEF OldAt, At
      <3>3. Len(saved[u]) + 1 - k \in DOMAIN saved[u]
        BY <3>1, <3>2
      <3> DEFINE i == Len(saved[u]) + 1 - k
      <3> HIDE DEF i
      <3>4. <<u, "saved", i>> \in Places
        BY <2>4, <2>5, <3>3 DEF i
      <3>5. Held(<<u, "saved", i>>) = h
        BY <3>2 DEF Held, i
      <3> QED BY <3>4, <3>5
    <2>9. CASE a = <<u, "call", k>>
      <3>1. FileAt(calls[u], k) = h /\ calls[u] \in Seq(Calls)
        BY <1>2, <2>3, <2>9 DEF Types
      <3>2. k \in 1 .. Len(calls[u]) /\ calls[u][Len(calls[u]) + 1 - k].file = h
        BY <2>2, <3>1 DEF FileAt, At
      <3>3. Len(calls[u]) + 1 - k \in DOMAIN calls[u]
        BY <3>1, <3>2
      <3> DEFINE i == Len(calls[u]) + 1 - k
      <3> HIDE DEF i
      <3>4. <<u, "call", i>> \in Places
        BY <2>4, <2>5, <3>3 DEF i
      <3>5. Held(<<u, "call", i>>) = h
        BY <3>2 DEF Held, i
      <3> QED BY <3>4, <3>5
    <2> QED BY <2>1, <2>6, <2>7, <2>8, <2>9
  <1> QED BY <1>1, <1>2 DEF Owned

-----------------------------------------------------------------------------
(* Lemmas on who waits for which thread. *)

LEMMA JoinableSub ==
    ASSUME NEW K \in [Threads \X Nat -> Threads \cup {NULL}], NEW st, NEW det,
           Joinable(K, st, det), NEW L, NEW st2, NEW det2,
           \A a \in Threads \X Nat : L[a] \in {K[a], NULL},
           \A a \in Threads \X Nat : L[a] # NULL => st2[L[a]] # "free" /\ ~det2[L[a]]
    PROVE  Joinable(L, st2, det2)
  BY DEF Joinable

\* A new wait, for a thread that nobody could wait for.
JoinStep(K, st, det, a, c, st2, det2) ==
    /\ K \in [Threads \X Nat -> Threads \cup {NULL}] /\ Joinable(K, st, det)
    /\ a \in Threads \X Nat /\ c \in Threads /\ st[c] = "free" /\ c \notin {a[1], Root}
    /\ st2[c] # "free" /\ ~det2[c]
    /\ \A u \in Threads \ {c} : st2[u] = st[u] /\ det2[u] = det[u]

LEMMA JoinableNew ==
    ASSUME NEW K, NEW st, NEW det, NEW a, NEW c, NEW st2, NEW det2,
           JoinStep(K, st, det, a, c, st2, det2)
    PROVE  Joinable([K EXCEPT ![a] = c], st2, det2)
  BY ThreadsAssumption DEF Joinable, JoinStep

-----------------------------------------------------------------------------
(* Lemmas on the calls of a thread that runs. *)

\* The same streams are held, and the same threads waited for, at the same heights.
Alike(s, u) ==
    /\ u \in Seq(Calls) /\ RanSet(u) = RanSet(s)
    /\ \A d \in Nat : FileAt(u, d) = FileAt(s, d) /\ ChildAt(u, d) = ChildAt(s, d)

LEMMA TopType ==
    ASSUME NEW f \in Calls
    PROVE  /\ f.fn \in Functions /\ f.pc \in {"next", "ran"} /\ f.code \in Seq(GoodCommands)
           /\ f.progs \in Seq(Programs) /\ f.file \in Handles \cup {NULL}
           /\ f.child \in Threads \cup {NULL} /\ GoodFrame(f)
  BY DEF Calls, Frame, GoodFrame

LEMMA FrameType ==
    ASSUME NEW fn \in Functions, NEW pc \in {"next", "ran"}, NEW code \in Seq(GoodCommands),
           NEW progs \in Seq(Programs), NEW file \in Handles \cup {NULL},
           NEW child \in Threads \cup {NULL},
           fn \in {"RunBlock", "WaitForThread"} \/ (fn = "ExecOperators" /\ pc = "ran")
                => file = NULL,
           fn = "RunBlock" => child = NULL,
           fn = "CmdForF" => Len(progs) = 1
    PROVE  [fn |-> fn, pc |-> pc, code |-> code, progs |-> progs, file |-> file,
            child |-> child] \in Calls
  <1>1. GoodCommands \subseteq Commands
    BY DEF GoodCommands
  <1>2. code \in Seq(Commands)
    BY <1>1
  <1> QED BY <1>2 DEF Calls, Frame, GoodFrame, HasRun

LEMMA FrameIs ==
    ASSUME NEW f \in Calls
    PROVE  f = [fn |-> f.fn, pc |-> f.pc, code |-> f.code, progs |-> f.progs,
                file |-> f.file, child |-> f.child]
  BY DEF Calls, Frame

LEMMA FrameSet ==
    ASSUME NEW f \in Calls, NEW x
    PROVE  /\ [f EXCEPT !.code = x] =
                [fn |-> f.fn, pc |-> f.pc, code |-> x, progs |-> f.progs,
                 file |-> f.file, child |-> f.child]
           /\ [f EXCEPT !.pc = x] =
                [fn |-> f.fn, pc |-> x, code |-> f.code, progs |-> f.progs,
                 file |-> f.file, child |-> f.child]
  BY DEF Calls, Frame

SetPipe(f, pc, progs, file) == [f EXCEPT !.pc = pc, !.progs = progs, !.file = file]
SetStages(f, progs, file) == [f EXCEPT !.progs = progs, !.file = file]

LEMMA PipeFrameSet ==
    ASSUME NEW f \in Calls, NEW pc, NEW progs, NEW file
    PROVE  /\ SetPipe(f, pc, progs, file) =
                [fn |-> f.fn, pc |-> pc, code |-> f.code, progs |-> progs,
                 file |-> file, child |-> f.child]
           /\ SetStages(f, progs, file) =
                [fn |-> f.fn, pc |-> f.pc, code |-> f.code, progs |-> progs,
                 file |-> file, child |-> f.child]
  <1> DEFINE r(p, q, h) == [fn |-> f.fn, pc |-> p, code |-> f.code, progs |-> q,
                            file |-> h, child |-> f.child]
  <1>1. f = r(f.pc, f.progs, f.file)
    BY FrameIs
  <1>2. ASSUME NEW p, NEW q, NEW h
        PROVE  /\ [r(p, q, h) EXCEPT !.pc = pc] = r(pc, q, h)
               /\ [r(p, q, h) EXCEPT !.progs = progs] = r(p, progs, h)
               /\ [r(p, q, h) EXCEPT !.file = file] = r(p, q, file)
    OBVIOUS
  <1>3. [f EXCEPT !.pc = pc] = r(pc, f.progs, f.file)
    BY FrameSet
  <1>4. [[[f EXCEPT !.pc = pc] EXCEPT !.progs = progs] EXCEPT !.file = file] = r(pc, progs, file)
    <2> HIDE DEF r
    <2>1. /\ [r(pc, f.progs, f.file) EXCEPT !.progs = progs] = r(pc, progs, f.file)
          /\ [r(pc, progs, f.file) EXCEPT !.file = file] = r(pc, progs, file)
      BY <1>2
    <2>2. [[f EXCEPT !.pc = pc] EXCEPT !.progs = progs] = r(pc, progs, f.file)
      BY <1>3, <2>1, Zenon
    <2> QED BY <2>1, <2>2, Zenon
  <1>5. [f EXCEPT !.progs = progs] = r(f.pc, progs, f.file)
    <2> HIDE DEF r
    <2>1. [r(f.pc, f.progs, f.file) EXCEPT !.progs = progs] = r(f.pc, progs, f.file)
      BY <1>2
    <2> QED BY <1>1, <2>1, Zenon
  <1>6. [[f EXCEPT !.progs = progs] EXCEPT !.file = file] = r(f.pc, progs, file)
    <2> HIDE DEF r
    <2>1. [r(f.pc, progs, f.file) EXCEPT !.file = file] = r(f.pc, progs, file)
      BY <1>2
    <2> QED BY <1>5, <2>1, Zenon
  <1>7. /\ SetPipe(f, pc, progs, file)
            = [[[f EXCEPT !.pc = pc] EXCEPT !.progs = progs] EXCEPT !.file = file]
        /\ SetStages(f, progs, file)
            = [[f EXCEPT !.progs = progs] EXCEPT !.file = file]
    BY DEF SetPipe, SetStages
  <1> HIDE DEF r
  <1>8. /\ SetPipe(f, pc, progs, file) = r(pc, progs, file)
        /\ SetStages(f, progs, file) = r(f.pc, progs, file)
    BY <1>4, <1>6, <1>7, Zenon
  <1> QED BY <1>8 DEF r

LEMMA CommandType ==
    ASSUME NEW f \in Calls, f.code # <<>>
    PROVE  LET c == Head(f.code)
           IN  /\ c \in GoodCommands /\ c.op \in Ops /\ c.progs \in Seq(Programs) /\ GoodCommand(c)
               /\ Tail(f.code) \in Seq(GoodCommands)
  <1>1. f.code \in Seq(GoodCommands)
    BY TopType
  <1>2. Head(f.code) \in GoodCommands /\ Tail(f.code) \in Seq(GoodCommands)
    BY <1>1
  <1> QED BY <1>2 DEF GoodCommands, Commands

LEMMA BlockType ==
    ASSUME NEW p \in Programs
    PROVE  /\ Block(p) \in Calls /\ Block(p).file = NULL /\ Block(p).child = NULL
           /\ ~HasRun(Block(p))
  <1>1. Code[p] \in Seq(Commands)
    BY ProgramsAssumption
  <1>2. \A i \in 1 .. Len(Code[p]) : Code[p][i] \in GoodCommands
    BY <1>1, ProgramsAssumption DEF GoodCommands, GoodCommand
  <1>3. Code[p] \in Seq(GoodCommands)
    BY <1>1, <1>2
  <1>4. <<>> \in Seq(Programs)
    OBVIOUS
  <1> QED BY <1>3, <1>4, FrameType DEF Block, Functions, HasRun

LEMMA WaitingType ==
    ASSUME NEW c \in Threads \cup {NULL}
    PROVE  /\ Waiting(c) \in Calls /\ Waiting(c).file = NULL /\ Waiting(c).child = c
           /\ ~HasRun(Waiting(c))
  <1>1. <<>> \in Seq(Programs) /\ <<>> \in Seq(GoodCommands)
    OBVIOUS
  <1> QED BY <1>1, FrameType DEF Waiting, Functions, HasRun

LEMMA ReadingType ==
    ASSUME NEW p \in Programs, NEW h \in Handles, NEW c \in Threads
    PROVE  /\ Reading(p, h, c) \in Calls /\ Reading(p, h, c).file = h
           /\ Reading(p, h, c).child = c /\ ~HasRun(Reading(p, h, c))
  <1>1. <<p>> \in Seq(Programs) /\ <<>> \in Seq(GoodCommands) /\ Len(<<p>>) = 1
    OBVIOUS
  <1> QED BY <1>1, FrameType DEF Reading, Functions, HasRun

LEMMA PipingType ==
    ASSUME NEW stages \in Seq(Programs)
    PROVE  /\ Piping(stages) \in Calls /\ Piping(stages).file = NULL
           /\ Piping(stages).child = NULL /\ ~HasRun(Piping(stages))
  <1>1. <<>> \in Seq(GoodCommands)
    OBVIOUS
  <1> QED BY <1>1, FrameType DEF Piping, Functions, HasRun

LEMMA AlikePush ==
    ASSUME NEW s, NEW u, u \in Seq(Calls), Alike(s, u),
           NEW f \in Calls, f.file = NULL, f.child = NULL, ~HasRun(f)
    PROVE  Alike(s, <<f>> \o u)
  <1>1. /\ <<f>> \o u \in Seq(Calls) /\ RanSet(<<f>> \o u) = RanSet(u)
        /\ \A d \in Nat : /\ FileAt(<<f>> \o u, d) = FileAt(u, d)
                          /\ ChildAt(<<f>> \o u, d) = ChildAt(u, d)
    BY PushCall
  <1> QED BY <1>1 DEF Alike

LEMMA AlikeChange ==
    ASSUME NEW s \in Seq(Calls), s # <<>>, NEW g \in Calls,
           g.file = Head(s).file, g.child = Head(s).child, HasRun(g) <=> HasRun(Head(s))
    PROVE  Alike(s, [s EXCEPT ![1] = g])
  <1> DEFINE u == [s EXCEPT ![1] = g]
  <1>1. /\ u \in Seq(Calls)
        /\ \A d \in Nat :
            /\ FileAt(u, d) = IF d = Len(s) THEN g.file ELSE FileAt(s, d)
            /\ ChildAt(u, d) = IF d = Len(s) THEN g.child ELSE ChildAt(s, d)
        /\ RanSet(u) = IF HasRun(g) THEN RanSet(s) \cup {Len(s)} ELSE RanSet(s) \ {Len(s)}
    BY ChangeCall
  <1>2. /\ Len(s) \in RanSet(s) <=> HasRun(Head(s))
        /\ FileAt(s, Len(s)) = Head(s).file /\ ChildAt(s, Len(s)) = Head(s).child
    BY PopCall
  <1> HIDE DEF u
  <1>3. RanSet(u) = RanSet(s)
    BY <1>1, <1>2
  <1> QED BY <1>1, <1>2, <1>3 DEF Alike, u

LEMMA AlikePop ==
    ASSUME NEW s \in Seq(Calls), s # <<>>,
           Head(s).file = NULL, Head(s).child = NULL, ~HasRun(Head(s))
    PROVE  Alike(s, Tail(s))
  <1> QED BY PopCall DEF Alike

\* The command that is run is no more one of the commands to run.
LEMMA AlikeRest ==
    ASSUME NEW s \in Seq(Calls), s # <<>>, Head(s).code # <<>>
    PROVE  Alike(s, [s EXCEPT ![1].code = Tail(@)])
  <1> DEFINE f == Head(s)
             g == [fn |-> f.fn, pc |-> f.pc, code |-> Tail(f.code), progs |-> f.progs,
                   file |-> f.file, child |-> f.child]
  <1>1. f \in Calls /\ f = s[1]
    BY PopCall
  <1>2. g \in Calls
    <2> HIDE DEF f
    <2>1. Tail(f.code) \in Seq(GoodCommands)
      BY <1>1, CommandType DEF f
    <2> QED BY <1>1, <2>1, TopType, FrameType DEF GoodFrame, HasRun
  <1>3. [s EXCEPT ![1].code = Tail(@)] = [s EXCEPT ![1] = g]
    <2>1. [s[1] EXCEPT !.code = Tail(s[1].code)] = g
      BY <1>1, FrameSet
    <2> HIDE DEF g
    <2> QED BY <2>1
  <1>4. g.file = f.file /\ g.child = f.child /\ (HasRun(g) <=> HasRun(f))
    BY DEF HasRun
  <1> HIDE DEF g
  <1> QED BY <1>2, <1>3, <1>4, AlikeChange

-----------------------------------------------------------------------------
(* How a step changes the places. *)

\* The places of a step are those of G, if they are so one by one.
LEMMA HoldsBecomes ==
    ASSUME NEW G \in Holding,
           \A u \in Threads, k \in Nat :
            /\ G[<<u, "in", k>>] = IF k = 0 THEN in'[u] ELSE NULL
            /\ G[<<u, "out", k>>] = IF k = 0 THEN out'[u] ELSE NULL
            /\ G[<<u, "saved", k>>] = OldAt(saved'[u], k)
            /\ G[<<u, "call", k>>] = FileAt(calls'[u], k)
    PROVE  Holds' = G
  <1>1. G = [a \in Spots |-> G[a]] /\ DOMAIN G = Spots
    BY DEF Holding
  <1>2. Holds' = [a \in Spots |-> Holds'[a]] /\ DOMAIN Holds' = Spots
    BY DEF Holds
  <1>3. ASSUME NEW u \in Threads, NEW k \in Nat
        PROVE  /\ Holds'[<<u, "in", k>>] = G[<<u, "in", k>>]
               /\ Holds'[<<u, "out", k>>] = G[<<u, "out", k>>]
               /\ Holds'[<<u, "saved", k>>] = G[<<u, "saved", k>>]
               /\ Holds'[<<u, "call", k>>] = G[<<u, "call", k>>]
    <2>1. /\ <<u, "in", k>> \in Spots /\ <<u, "out", k>> \in Spots
          /\ <<u, "saved", k>> \in Spots /\ <<u, "call", k>> \in Spots
      BY HoldsAt
    <2>2. /\ Holds'[<<u, "in", k>>] = IF k = 0 THEN in'[u] ELSE NULL
          /\ Holds'[<<u, "out", k>>] = IF k = 0 THEN out'[u] ELSE NULL
          /\ Holds'[<<u, "saved", k>>] = OldAt(saved'[u], k)
          /\ Holds'[<<u, "call", k>>] = FileAt(calls'[u], k)
      BY <2>1 DEF Holds
    <2> QED BY <2>2
  <1> QED BY <1>1, <1>2, <1>3, SameHolding

LEMMA WaitsBecomes ==
    ASSUME NEW L \in [Threads \X Nat -> Threads \cup {NULL}],
           \A u \in Threads, k \in Nat : L[<<u, k>>] = ChildAt(calls'[u], k)
    PROVE  Waits' = L
  <1>1. \A a \in Threads \X Nat : L[a] = ChildAt(calls'[a[1]], a[2])
    OBVIOUS
  <1> QED BY <1>1 DEF Waits

-----------------------------------------------------------------------------
(* Steps that change neither who holds what nor who waits for whom. *)

Safe == IInv' /\ Kept(Holds, Holds', fd')

LEMMA SamePlaces ==
    ASSUME Types,
           \A u \in Threads, k \in Nat :
            /\ FileAt(calls'[u], k) = FileAt(calls[u], k)
            /\ ChildAt(calls'[u], k) = ChildAt(calls[u], k),
           UNCHANGED <<in, out, saved>>
    PROVE  Holds' = Holds /\ Waits' = Waits
  <1>1. Holds \in Holding /\ Waits \in [Threads \X Nat -> Threads \cup {NULL}]
    BY HoldsType
  <1>2. \A u \in Threads, k \in Nat :
            /\ Holds[<<u, "in", k>>] = IF k = 0 THEN in'[u] ELSE NULL
            /\ Holds[<<u, "out", k>>] = IF k = 0 THEN out'[u] ELSE NULL
            /\ Holds[<<u, "saved", k>>] = OldAt(saved'[u], k)
            /\ Holds[<<u, "call", k>>] = FileAt(calls'[u], k)
    BY HoldsAt
  <1>3. \A u \in Threads, k \in Nat : Waits[<<u, k>>] = ChildAt(calls'[u], k)
    BY WaitsAt
  <1> QED BY <1>1, <1>2, <1>3, HoldsBecomes, WaitsBecomes

LEMMA KeptSame ==
    ASSUME NEW H, NEW g
    PROVE  Kept(H, H, g)
  BY DEF Kept

LEMMA StillStep ==
    ASSUME IInv, UNCHANGED <<status, detached, calls, in, out, saved, fd>>,
           buf' \in [Pipes -> 0 .. Capacity], echoLock' \in Threads \cup {NULL},
           phase' \in {"running", "exited", "crashed"}
    PROVE  Safe
  <1>1. Types'
    BY DEF IInv, Types
  <1>2. AllAlive'
    BY DEF IInv, AllAlive, Alive
  <1>3. Holds' = Holds /\ Waits' = Waits
    BY SamePlaces DEF IInv
  <1>4. Exclusive(Holds', fd') /\ Joinable(Waits', status', detached')
    BY <1>3 DEF IInv
  <1>5. Kept(Holds, Holds', fd')
    BY <1>3, KeptSame
  <1> QED BY <1>1, <1>2, <1>4, <1>5 DEF IInv, Safe

LEMMA QuietStep ==
    ASSUME IInv, NEW t \in Threads, status[t] = "running",
           NEW s, Alike(calls[t], s), calls' = [calls EXCEPT ![t] = s],
           UNCHANGED <<status, detached, in, out, saved, fd>>,
           buf' \in [Pipes -> 0 .. Capacity], echoLock' \in Threads \cup {NULL},
           phase' \in {"running", "exited", "crashed"}
    PROVE  Safe
  <1>1. /\ s \in Seq(Calls) /\ RanSet(s) = RanSet(calls[t])
        /\ \A d \in Nat : FileAt(s, d) = FileAt(calls[t], d) /\ ChildAt(s, d) = ChildAt(calls[t], d)
    BY DEF Alike
  <1>2. Types /\ calls \in [Threads -> Seq(Calls)]
    BY DEF IInv, Types
  <1>3. \A u \in Threads : calls'[u] = IF u = t THEN s ELSE calls[u]
    BY <1>2
  <1>4. Types'
    BY <1>1, <1>2 DEF Types
  <1>5. AllAlive'
    <2>1. \A u \in Threads : Alive(u)'
      <3> TAKE u \in Threads
      <3>1. Alive(u)
        BY DEF IInv, AllAlive
      <3> QED BY <1>1, <1>3, <3>1 DEF Alive
    <2> QED BY <2>1 DEF IInv, AllAlive
  <1>6. Holds' = Holds /\ Waits' = Waits
    BY <1>1, <1>2, <1>3, SamePlaces
  <1>7. Exclusive(Holds', fd') /\ Joinable(Waits', status', detached')
    BY <1>6 DEF IInv
  <1>8. Kept(Holds, Holds', fd')
    BY <1>6, KeptSame
  <1> QED BY <1>4, <1>5, <1>7, <1>8 DEF IInv, Safe

\* What is known of a thread that runs a function.
LEMMA RunsFacts ==
    ASSUME IInv, NEW t \in Threads, NEW fn, NEW pc, Running(t, fn, pc)
    PROVE  /\ status[t] = "running" /\ phase = "running"
           /\ calls[t] \in Seq(Calls) /\ calls[t] # <<>>
           /\ Top(t) \in Calls /\ Top(t) = Head(calls[t]) /\ Top(t).fn = fn /\ Top(t).pc = pc
           /\ out[t] \in Handles /\ fd[out[t]] # NoFile
  <1>1. status[t] = "running" /\ phase = "running" /\ calls[t] # <<>> /\ Top(t) = Head(calls[t])
        /\ Top(t).fn = fn /\ Top(t).pc = pc
    BY DEF Running, Active, Top
  <1>2. calls[t] \in Seq(Calls)
    BY DEF IInv, Types
  <1>3. Top(t) \in Calls
    BY <1>1, <1>2, PopCall
  <1>4. out[t] \in Handles
    <2>1. Alive(t) /\ out[t] \in Handles \cup {NULL}
      BY DEF IInv, AllAlive, Types
    <2> QED BY <1>1, <2>1 DEF Alive
  <1>5. fd[out[t]] # NoFile
    <2>1. Holds[<<t, "out", 0>>] = out[t] /\ <<t, "out", 0>> \in Spots /\ out[t] # NULL
      BY <1>4, HoldsAt, HandlesAssumption
    <2> QED BY <2>1 DEF IInv, Exclusive
  <1> QED BY <1>1, <1>2, <1>3, <1>4, <1>5

LEMMA CommandFacts ==
    ASSUME IInv, NEW t \in Threads, NEW ops, AtCommand(t, ops)
    PROVE  /\ status[t] = "running" /\ phase = "running"
           /\ calls[t] \in Seq(Calls) /\ calls[t] # <<>> /\ Top(t) \in Calls
           /\ out[t] \in Handles /\ fd[out[t]] # NoFile
           /\ Head(Top(t).code) \in GoodCommands /\ Head(Top(t).code).op \in ops
           /\ Head(Top(t).code).progs \in Seq(Programs) /\ GoodCommand(Head(Top(t).code))
           /\ Alike(calls[t], Rest(t)) /\ Rest(t) \in Seq(Calls)
  <1>1. Running(t, "RunBlock", "next") /\ Top(t).code # <<>> /\ Head(Top(t).code).op \in ops
    BY DEF AtCommand
  <1>2. /\ status[t] = "running" /\ phase = "running" /\ out[t] \in Handles /\ fd[out[t]] # NoFile
        /\ calls[t] \in Seq(Calls) /\ calls[t] # <<>> /\ Top(t) \in Calls /\ Top(t) = Head(calls[t])
    BY <1>1, RunsFacts
  <1>3. Alike(calls[t], Rest(t))
    BY <1>1, <1>2, AlikeRest DEF Rest
  <1>4. /\ Head(Top(t).code) \in GoodCommands /\ GoodCommand(Head(Top(t).code))
        /\ Head(Top(t).code).progs \in Seq(Programs)
    BY <1>1, <1>2, CommandType
  <1> QED BY <1>1, <1>2, <1>3, <1>4 DEF Alike

LEMMA BufferTypes ==
    ASSUME IInv
    PROVE  /\ \A p : buf[p] < Capacity => [buf EXCEPT ![p] = @ + 1] \in [Pipes -> 0 .. Capacity]
           /\ \A p : buf[p] > 0 => [buf EXCEPT ![p] = @ - 1] \in [Pipes -> 0 .. Capacity]
           /\ buf \in [Pipes -> 0 .. Capacity] /\ echoLock \in Threads \cup {NULL}
           /\ phase \in {"running", "exited", "crashed"}
  <1>1. /\ buf \in [Pipes -> 0 .. Capacity] /\ echoLock \in Threads \cup {NULL}
        /\ phase \in {"running", "exited", "crashed"}
    BY DEF IInv, Types
  <1>2. \A p : buf[p] < Capacity => [buf EXCEPT ![p] = @ + 1] \in [Pipes -> 0 .. Capacity]
    <2> SUFFICES ASSUME NEW p, buf[p] < Capacity
                 PROVE  [buf EXCEPT ![p] = @ + 1] \in [Pipes -> 0 .. Capacity]
      OBVIOUS
    <2>1. CASE p \in Pipes
      <3>1. buf[p] + 1 \in 0 .. Capacity
        BY <1>1, <2>1, CapacityAssumption
      <3> QED BY <1>1, <3>1
    <2>2. CASE p \notin Pipes
      <3>1. [buf EXCEPT ![p] = @ + 1] = buf
        BY <1>1, <2>2
      <3> QED BY <1>1, <3>1
    <2> QED BY <2>1, <2>2
  <1>3. \A p : buf[p] > 0 => [buf EXCEPT ![p] = @ - 1] \in [Pipes -> 0 .. Capacity]
    <2> SUFFICES ASSUME NEW p, buf[p] > 0
                 PROVE  [buf EXCEPT ![p] = @ - 1] \in [Pipes -> 0 .. Capacity]
      OBVIOUS
    <2>1. CASE p \in Pipes
      <3>1. buf[p] - 1 \in 0 .. Capacity
        BY <1>1, <2>1, CapacityAssumption
      <3> QED BY <1>1, <3>1
    <2>2. CASE p \notin Pipes
      <3>1. [buf EXCEPT ![p] = @ - 1] = buf
        BY <1>1, <2>2
      <3> QED BY <1>1, <3>1
    <2> QED BY <2>1, <2>2
  <1> QED BY <1>1, <1>2, <1>3

LEMMA LockEchoSafe ==
    ASSUME IInv, NEW t \in Threads, LockEcho(t)
    PROVE  Safe
  BY BufferTypes, StillStep DEF LockEcho, streamVars

LEMMA WriteSafe ==
    ASSUME IInv, NEW t \in Threads, Write(t)
    PROVE  Safe
  <1>1. PICK ops : AtCommand(t, ops)
    BY DEF Write, MayWrite
  <1>2. status[t] = "running" /\ Alike(calls[t], Rest(t))
    BY <1>1, CommandFacts
  <1>3. buf' \in [Pipes -> 0 .. Capacity]
    <2>1. CASE IsPipe(out[t]) /\ Readers(fd[out[t]].pipe) # {}
      BY <2>1, BufferTypes DEF Write
    <2>2. CASE ~(IsPipe(out[t]) /\ Readers(fd[out[t]].pipe) # {})
      BY <2>2, BufferTypes DEF Write
    <2> QED BY <2>1, <2>2
  <1>4. echoLock' \in Threads \cup {NULL} /\ phase' \in {"running", "exited", "crashed"}
    BY BufferTypes DEF Write, ReleaseEcho
  <1> QED BY <1>2, <1>3, <1>4, QuietStep DEF Write, Go, streamVars

LEMMA ReadSafe ==
    ASSUME IInv, NEW t \in Threads, Read(t)
    PROVE  Safe
  <1>1. AtCommand(t, {"read", "line"})
    BY DEF Read
  <1>2. status[t] = "running" /\ Alike(calls[t], Rest(t)) /\ calls[t] \in Seq(Calls)
    BY <1>1, CommandFacts
  <1>3. buf' \in [Pipes -> 0 .. Capacity]
    BY BufferTypes DEF Read
  <1>4. echoLock' \in Threads \cup {NULL} /\ phase' \in {"running", "exited", "crashed"}
    BY BufferTypes DEF Read, threadVars
  <1>5. PICK s \in {Rest(t), calls[t]} : calls' = [calls EXCEPT ![t] = s]
    BY DEF Read, Go
  <1>6. Alike(calls[t], s)
    BY <1>2, <1>5 DEF Alike
  <1> QED BY <1>2, <1>3, <1>4, <1>5, <1>6, QuietStep DEF Read, threadVars, streamVars

LEMMA ReadEofSafe ==
    ASSUME IInv, NEW t \in Threads, ReadEof(t)
    PROVE  Safe
  <1>1. AtCommand(t, {"read", "line"})
    BY DEF ReadEof
  <1>2. status[t] = "running" /\ Alike(calls[t], Rest(t))
    BY <1>1, CommandFacts
  <1> QED BY <1>2, BufferTypes, QuietStep DEF ReadEof, Go, threadVars, streamVars

LEMMA ExecOperatorsSafe ==
    ASSUME IInv, NEW t \in Threads, ExecOperators(t)
    PROVE  Safe
  <1>1. AtCommand(t, {"pipe"})
    BY DEF ExecOperators
  <1>2. /\ status[t] = "running" /\ Alike(calls[t], Rest(t)) /\ Rest(t) \in Seq(Calls)
        /\ Head(Top(t).code).progs \in Seq(Programs)
    BY <1>1, CommandFacts
  <1> DEFINE f == Piping(Head(Top(t).code).progs)
  <1>3. f \in Calls /\ f.file = NULL /\ f.child = NULL /\ ~HasRun(f)
    BY <1>2, PipingType
  <1> HIDE DEF f
  <1>4. Alike(calls[t], <<f>> \o Rest(t))
    BY <1>2, <1>3, AlikePush
  <1> QED BY <1>2, <1>4, BufferTypes, QuietStep DEF ExecOperators, Go, threadVars, streamVars, f

LEMMA BlockEndsSafe ==
    ASSUME IInv, NEW t \in Threads, BlockEnds(t)
    PROVE  Safe
  <1>1. Running(t, "RunBlock", "next")
    BY DEF BlockEnds
  <1>2. /\ status[t] = "running" /\ calls[t] \in Seq(Calls) /\ calls[t] # <<>>
        /\ Top(t) \in Calls /\ Top(t) = Head(calls[t]) /\ Top(t).fn = "RunBlock"
    BY <1>1, RunsFacts
  <1>3. Top(t).file = NULL /\ Top(t).child = NULL /\ ~HasRun(Top(t))
    BY <1>2, TopType DEF GoodFrame, HasRun
  <1>4. Alike(calls[t], Tail(calls[t]))
    BY <1>2, <1>3, AlikePop
  <1> QED BY <1>2, <1>4, BufferTypes, QuietStep DEF BlockEnds, Go, threadVars, streamVars

\* FOR /F goes from one line of its input to the body of the loop, and back.
LEMMA AlikePc ==
    ASSUME NEW s \in Seq(Calls), s # <<>>, Head(s).fn = "CmdForF", NEW pc \in {"next", "ran"}
    PROVE  Alike(s, [s EXCEPT ![1].pc = pc])
  <1> DEFINE f == Head(s)
             g == [fn |-> f.fn, pc |-> pc, code |-> f.code, progs |-> f.progs,
                   file |-> f.file, child |-> f.child]
  <1>1. f \in Calls /\ f = s[1]
    BY PopCall
  <1>2. g \in Calls
    <2>1. f.fn = "CmdForF"
      OBVIOUS
    <2> HIDE DEF f
    <2> QED BY <1>1, <2>1, TopType, FrameType DEF GoodFrame, HasRun
  <1>3. [s EXCEPT ![1].pc = pc] = [s EXCEPT ![1] = g]
    <2>1. [s[1] EXCEPT !.pc = pc] = g
      BY <1>1, FrameSet
    <2> HIDE DEF g
    <2> QED BY <2>1
  <1>4. g.file = f.file /\ g.child = f.child /\ (HasRun(g) <=> HasRun(f))
    BY DEF HasRun
  <1> HIDE DEF g
  <1> QED BY <1>2, <1>3, <1>4, AlikeChange

LEMMA ForGetInputLineSafe ==
    ASSUME IInv, NEW t \in Threads, ForGetInputLine(t)
    PROVE  Safe
  <1>1. Running(t, "CmdForF", "next")
    BY DEF ForGetInputLine
  <1>2. /\ status[t] = "running" /\ calls[t] \in Seq(Calls) /\ calls[t] # <<>>
        /\ Top(t) \in Calls /\ Top(t) = Head(calls[t]) /\ Top(t).fn = "CmdForF"
    BY <1>1, RunsFacts
  <1> DEFINE s == [calls[t] EXCEPT ![1].pc = "ran"]
             f == Block(Top(t).progs[1])
  <1>3. Alike(calls[t], s)
    BY <1>2, AlikePc
  <1>4. f \in Calls /\ f.file = NULL /\ f.child = NULL /\ ~HasRun(f)
    <2>1. Top(t).progs \in Seq(Programs) /\ Len(Top(t).progs) = 1
      BY <1>2, TopType DEF GoodFrame
    <2>2. Top(t).progs[1] \in Programs
      BY <2>1
    <2> QED BY <2>2, BlockType
  <1>5. calls' = [calls EXCEPT ![t] = <<f>> \o s]
    BY DEF ForGetInputLine, Go
  <1>6. buf' \in [Pipes -> 0 .. Capacity]
    BY BufferTypes DEF ForGetInputLine
  <1> HIDE DEF s, f
  <1>7. Alike(calls[t], <<f>> \o s)
    BY <1>3, <1>4, AlikePush DEF Alike
  <1> QED BY <1>2, <1>5, <1>6, <1>7, BufferTypes, QuietStep DEF ForGetInputLine, threadVars, streamVars

LEMMA ForNextSafe ==
    ASSUME IInv, NEW t \in Threads, ForNext(t)
    PROVE  Safe
  <1>1. Running(t, "CmdForF", "ran")
    BY DEF ForNext
  <1>2. /\ status[t] = "running" /\ calls[t] \in Seq(Calls) /\ calls[t] # <<>>
        /\ Top(t) = Head(calls[t]) /\ Top(t).fn = "CmdForF"
    BY <1>1, RunsFacts
  <1>3. Alike(calls[t], [calls[t] EXCEPT ![1].pc = "next"])
    BY <1>2, AlikePc
  <1> QED BY <1>2, <1>3, BufferTypes, QuietStep DEF ForNext, Go, threadVars, streamVars

\* The process ends, or does nothing.
LEMMA ProcessEndsSafe ==
    ASSUME IInv, UNCHANGED <<threadVars, calls, streamVars, fd, buf>>,
           phase' \in {phase, "exited", "crashed"}
    PROVE  Safe
  BY BufferTypes, StillStep DEF threadVars, streamVars

LEMMA CrashSafe ==
    ASSUME IInv, Crash
    PROVE  Safe
  BY ProcessEndsSafe DEF Crash

-----------------------------------------------------------------------------
(* Steps at which a thread ends, and the wait for it. *)

LEMMA AliveSame ==
    ASSUME NEW u, Alive(u), status'[u] = status[u], calls'[u] = calls[u], in'[u] = in[u],
           out'[u] = out[u], saved'[u] = saved[u]
    PROVE  Alive(u)'
  BY DEF Alive

LEMMA WaitForThreadSafe ==
    ASSUME IInv, NEW t \in Threads, WaitForThread(t)
    PROVE  Safe
  <1> DEFINE s == calls[t]
             n == Len(s)
             c == Top(t).child
  <1>1. /\ status[t] = "running" /\ s \in Seq(Calls) /\ s # <<>>
        /\ Top(t) \in Calls /\ Top(t) = Head(s) /\ Top(t).fn = "WaitForThread"
    <2>1. Running(t, "WaitForThread", "next")
      BY DEF WaitForThread
    <2> QED BY <2>1, RunsFacts
  <1>2. Top(t).file = NULL /\ ~HasRun(Top(t)) /\ c \in Threads \cup {NULL}
    BY <1>1, TopType DEF GoodFrame, HasRun
  <1>3. /\ Tail(s) \in Seq(Calls) /\ n \in Nat \ {0} /\ RanSet(Tail(s)) = RanSet(s)
        /\ \A d \in Nat : /\ FileAt(Tail(s), d) = FileAt(s, d)
                          /\ ChildAt(Tail(s), d) = IF d = n THEN NULL ELSE ChildAt(s, d)
        /\ ChildAt(s, n) = c
    <2>1. /\ Tail(s) \in Seq(Calls) /\ n \in Nat \ {0} /\ RanSet(Tail(s)) = RanSet(s) \ {n}
          /\ n \in RanSet(s) <=> HasRun(Head(s))
      BY <1>1, PopCall
    <2>2. \A d \in Nat : FileAt(Tail(s), d) = IF d = n THEN NULL ELSE FileAt(s, d)
      BY <1>1, PopCall
    <2>3. \A d \in Nat : ChildAt(Tail(s), d) = IF d = n THEN NULL ELSE ChildAt(s, d)
      BY <1>1, PopCall
    <2>4. FileAt(s, n) = Head(s).file /\ ChildAt(s, n) = Head(s).child
      BY <1>1, PopCall
    <2> HIDE DEF s, n
    <2> QED BY <1>1, <1>2, <2>1, <2>2, <2>3, <2>4
  <1>4. /\ status[c] = "ended" /\ status' = [status EXCEPT ![c] = "free"]
        /\ calls' = [calls EXCEPT ![t] = Tail(s)]
        /\ UNCHANGED <<detached, echoLock, in, out, saved, fd, buf, phase>>
    BY DEF WaitForThread, Go, streamVars
  <1>5. /\ Types /\ calls \in [Threads -> Seq(Calls)] /\ DOMAIN status = Threads
        /\ Waits \in [Threads \X Nat -> Threads \cup {NULL}]
    BY HoldsType DEF IInv, Types
  <1> DEFINE L == [Waits EXCEPT ![<<t, n>>] = NULL]
  <1> HIDE DEF s, n, c
  <1>6. \A u \in Threads : calls'[u] = IF u = t THEN Tail(s) ELSE calls[u]
    BY <1>4, <1>5
  <1>7. \A u \in Threads : status'[u] = IF u = c THEN "free" ELSE status[u]
    BY <1>4, <1>5
  <1>8. Types'
    BY <1>3, <1>4, <1>5 DEF Types
  <1>9. Holds' = Holds
    <2>0. \A u \in Threads, k \in Nat : FileAt(calls'[u], k) = FileAt(calls[u], k)
      BY <1>3, <1>6 DEF s
    <2>1. ASSUME NEW u \in Threads, NEW k \in Nat
          PROVE  /\ Holds[<<u, "in", k>>] = IF k = 0 THEN in'[u] ELSE NULL
                 /\ Holds[<<u, "out", k>>] = IF k = 0 THEN out'[u] ELSE NULL
                 /\ Holds[<<u, "saved", k>>] = OldAt(saved'[u], k)
                 /\ Holds[<<u, "call", k>>] = FileAt(calls'[u], k)
      <3>1. in' = in /\ out' = out /\ saved' = saved
        BY <1>4
      <3> QED BY <2>0, <3>1, HoldsAt
    <2> QED BY <1>5, <2>1, HoldsType, HoldsBecomes
  <1>10. /\ L \in [Threads \X Nat -> Threads \cup {NULL}]
         /\ \A b \in Threads \X Nat : L[b] = IF b = <<t, n>> THEN NULL ELSE Waits[b]
         /\ Waits[<<t, n>>] = c /\ <<t, n>> \in Threads \X Nat
    BY <1>3, <1>5, WaitsAt DEF s
  <1>11. Waits' = L
    <2>1. ASSUME NEW u \in Threads, NEW k \in Nat
          PROVE  L[<<u, k>>] = ChildAt(calls'[u], k)
      <3>1. /\ <<u, k>> \in Threads \X Nat /\ Waits[<<u, k>>] = ChildAt(calls[u], k)
            /\ <<u, k>> = <<t, n>> <=> u = t /\ k = n
        BY WaitsAt
      <3>2. L[<<u, k>>] = IF u = t /\ k = n THEN NULL ELSE ChildAt(calls[u], k)
        BY <1>10, <3>1
      <3>3. calls'[u] = IF u = t THEN Tail(s) ELSE calls[u]
        BY <1>6
      <3> QED BY <1>3, <3>2, <3>3 DEF s
    <2> HIDE DEF L
    <2> QED BY <1>10, <2>1, WaitsBecomes
  <1> HIDE DEF L
  <1>12. c # NULL => /\ c # Root
                     /\ \A b \in Threads \X Nat : Waits[b] = c => b = <<t, n>>
    BY <1>10 DEF IInv, Joinable
  <1>13. Joinable(L, status', detached')
    <2>1. Joinable(Waits, status, detached)
      BY DEF IInv
    <2>2. ASSUME NEW a \in Threads \X Nat, L[a] # NULL
          PROVE  status'[L[a]] # "free" /\ ~detached'[L[a]]
      <3>1. L[a] = Waits[a] /\ a # <<t, n>> /\ Waits[a] \in Threads
        BY <1>5, <1>10, <2>2
      <3>2. Waits[a] # c
        BY <1>12, <3>1, ThreadsAssumption
      <3>3. status[Waits[a]] # "free" /\ ~detached[Waits[a]]
        BY <2>1, <2>2, <3>1 DEF Joinable
      <3>4. status'[Waits[a]] = status[Waits[a]] /\ detached' = detached
        BY <1>4, <1>7, <3>1, <3>2
      <3>5. status'[L[a]] # "free"
        BY <3>1, <3>3, <3>4
      <3>6. ~detached'[L[a]]
        BY <3>1, <3>3, <3>4, Zenon
      <3> QED BY <3>5, <3>6
    <2>3. \A a \in Threads \X Nat : L[a] \in {Waits[a], NULL}
      BY <1>10
    <2> QED BY <1>5, <2>1, <2>2, <2>3, JoinableSub
  <1>14. AllAlive'
    <2>1. ASSUME NEW u \in Threads
          PROVE  Alive(u)'
      <3>1. Alive(u)
        BY DEF IInv, AllAlive
      <3> QED BY <1>1, <1>3, <1>4, <1>6, <1>7, <3>1 DEF Alive, s
    <2>2. status'[Root] = "running"
      BY <1>2, <1>4, <1>7, <1>12, ThreadsAssumption DEF IInv, AllAlive
    <2> QED BY <2>1, <2>2 DEF AllAlive
  <1>15. Exclusive(Holds', fd') /\ Kept(Holds, Holds', fd')
    BY <1>4, <1>9, KeptSame DEF IInv
  <1> QED BY <1>8, <1>11, <1>13, <1>14, <1>15 DEF IInv, Safe

LEMMA CmdExitInv ==
    ASSUME IInv, NEW t \in Threads, CmdExit(t)
    PROVE  IInv'
  <1>1. CASE t = Root
    BY <1>1, ProcessEndsSafe DEF CmdExit, threadVars, Safe
  <1>2. CASE t # Root
    <2>1. /\ status' = [status EXCEPT ![t] = "exit"] /\ calls' = [calls EXCEPT ![t] = <<>>]
          /\ UNCHANGED <<detached, echoLock, in, out, saved, fd, buf, phase>>
      BY <1>2 DEF CmdExit, Go, streamVars
    <2>2. /\ Types /\ calls \in [Threads -> Seq(Calls)] /\ DOMAIN status = Threads
          /\ Waits \in [Threads \X Nat -> Threads \cup {NULL}] /\ Holds \in Holding
          /\ fd \in Table
      BY HoldsType DEF IInv, Types, Table
    <2>3. \A u \in Threads : /\ calls'[u] = IF u = t THEN <<>> ELSE calls[u]
                             /\ status'[u] = IF u = t THEN "exit" ELSE status[u]
      BY <2>1, <2>2
    <2>4. Types'
      BY <2>1, <2>2, EmptyStack DEF Types
    <2>5. AllAlive'
      <3>1. ASSUME NEW u \in Threads
            PROVE  Alive(u)'
        <4>1. Alive(u) /\ Len(saved[u]) \in Nat
          BY DEF IInv, AllAlive, Types
        <4>2. CASE u = t
          BY <2>1, <2>3, <4>1, <4>2, EmptyStack DEF Alive
        <4>3. CASE u # t
          BY <2>1, <2>3, <4>1, <4>3, AliveSame
        <4> QED BY <4>2, <4>3
      <3> QED BY <1>2, <2>3, <3>1, ThreadsAssumption DEF IInv, AllAlive
    <2> DEFINE G == [a \in Spots |-> IF a[2] = "call" /\ a[1] = t THEN NULL ELSE Holds[a]]
               L == [a \in Threads \X Nat |-> IF a[1] = t THEN NULL ELSE Waits[a]]
    <2>6. /\ G \in Holding /\ L \in [Threads \X Nat -> Threads \cup {NULL}]
          /\ \A a \in Spots : G[a] \in {Holds[a], NULL}
          /\ \A a \in Threads \X Nat : L[a] \in {Waits[a], NULL}
      BY <2>2 DEF Holding
    <2>7. Holds' = G
      <3>1. ASSUME NEW u \in Threads, NEW k \in Nat
            PROVE  /\ G[<<u, "in", k>>] = IF k = 0 THEN in'[u] ELSE NULL
                   /\ G[<<u, "out", k>>] = IF k = 0 THEN out'[u] ELSE NULL
                   /\ G[<<u, "saved", k>>] = OldAt(saved'[u], k)
                   /\ G[<<u, "call", k>>] = FileAt(calls'[u], k)
        BY <2>1, <2>3, HoldsAt, EmptyStack
      <3> HIDE DEF G
      <3> QED BY <2>6, <3>1, HoldsBecomes
    <2>8. Waits' = L
      <3>1. ASSUME NEW u \in Threads, NEW k \in Nat
            PROVE  L[<<u, k>>] = ChildAt(calls'[u], k)
        <4>1. <<u, k>> \in Threads \X Nat /\ Waits[<<u, k>>] = ChildAt(calls[u], k)
          BY WaitsAt
        <4>2. L[<<u, k>>] = IF u = t THEN NULL ELSE ChildAt(calls[u], k)
          BY <4>1
        <4> QED BY <2>3, <4>2, EmptyStack
      <3> HIDE DEF L
      <3> QED BY <2>6, <3>1, WaitsBecomes
    <2> HIDE DEF G, L
    <2>9. Exclusive(G, fd)
      BY <2>2, <2>6, ExclusiveDrop DEF IInv
    <2>10. Joinable(L, status', detached')
      <3>1. Joinable(Waits, status, detached)
        BY DEF IInv
      <3>2. ASSUME NEW a \in Threads \X Nat, L[a] # NULL
            PROVE  status'[L[a]] # "free" /\ ~detached'[L[a]]
        <4>1. L[a] = Waits[a] /\ Waits[a] \in Threads
          BY <2>2, <2>6, <3>2
        <4> QED BY <2>1, <2>3, <3>1, <3>2, <4>1 DEF Joinable
      <3> QED BY <2>2, <2>6, <3>1, <3>2, JoinableSub
    <2> QED BY <2>1, <2>4, <2>5, <2>7, <2>8, <2>9, <2>10 DEF IInv
  <1> QED BY <1>1, <1>2

LEMMA CloneReturnsSafe ==
    ASSUME IInv, NEW t \in Threads, CloneReturns(t)
    PROVE  Safe
  <1>1. /\ t # Root /\ status[t] = "running" /\ calls[t] = <<>>
        /\ status' = [status EXCEPT ![t] = "return"]
        /\ UNCHANGED <<detached, echoLock, calls, in, out, saved, fd, buf, phase>>
    BY DEF CloneReturns, Active, streamVars
  <1>2. /\ Types /\ DOMAIN status = Threads
        /\ Waits \in [Threads \X Nat -> Threads \cup {NULL}]
    BY HoldsType DEF IInv, Types
  <1>3. Types'
    BY <1>1, <1>2 DEF Types
  <1>4. \A u \in Threads : status'[u] = IF u = t THEN "return" ELSE status[u]
    BY <1>1, <1>2
  <1>5. AllAlive'
    <2>1. ASSUME NEW u \in Threads
          PROVE  Alive(u)'
      <3>1. Alive(u)
        BY DEF IInv, AllAlive
      <3> QED BY <1>1, <1>4, <3>1 DEF Alive
    <2> QED BY <1>1, <1>4, <2>1, ThreadsAssumption DEF IInv, AllAlive
  <1>6. Holds' = Holds /\ Waits' = Waits
    BY <1>1, <1>2, SamePlaces
  <1>7. Joinable(Waits, status', detached')
    <2>1. Joinable(Waits, status, detached)
      BY DEF IInv
    <2>2. ASSUME NEW a \in Threads \X Nat, Waits[a] # NULL
          PROVE  status'[Waits[a]] # "free" /\ ~detached'[Waits[a]]
      <3>1. Waits[a] \in Threads
        BY <1>2, <2>2
      <3> QED BY <1>1, <1>4, <2>1, <2>2, <3>1 DEF Joinable
    <2> QED BY <1>2, <2>1, <2>2, JoinableSub
  <1>8. Exclusive(Holds', fd') /\ Kept(Holds, Holds', fd')
    BY <1>1, <1>6, KeptSame DEF IInv
  <1> QED BY <1>3, <1>5, <1>6, <1>7, <1>8 DEF IInv, Safe

\* What the two ways to end a clone have in common.
LEMMA EndThreadInv ==
    ASSUME IInv, NEW t \in Threads, status[t] \in {"exit", "return"}, saved[t] = <<>>,
           EndThread(t), fd' \in Table,
           Exclusive([[Holds EXCEPT ![<<t, "in", 0>>] = NULL] EXCEPT ![<<t, "out", 0>>] = NULL], fd')
    PROVE  /\ IInv'
           /\ Holds' = [[Holds EXCEPT ![<<t, "in", 0>>] = NULL] EXCEPT ![<<t, "out", 0>>] = NULL]
  <1> DEFINE e == IF detached[t] THEN "free" ELSE "ended"
             H1 == [Holds EXCEPT ![<<t, "in", 0>>] = NULL]
             G == [H1 EXCEPT ![<<t, "out", 0>>] = NULL]
  <1>1. /\ status' = [status EXCEPT ![t] = e]
        /\ in' = [in EXCEPT ![t] = NULL] /\ out' = [out EXCEPT ![t] = NULL]
        /\ detached' = detached /\ echoLock' = echoLock /\ calls' = calls
        /\ saved' = saved /\ buf' = buf /\ phase' = phase
    BY DEF EndThread
  <1>2. /\ Types /\ DOMAIN status = Threads /\ DOMAIN in = Threads /\ DOMAIN out = Threads
        /\ Waits \in [Threads \X Nat -> Threads \cup {NULL}] /\ Holds \in Holding
    BY HoldsType DEF IInv, Types
  <1>3. \A u \in Threads : /\ status'[u] = IF u = t THEN e ELSE status[u]
                           /\ in'[u] = IF u = t THEN NULL ELSE in[u]
                           /\ out'[u] = IF u = t THEN NULL ELSE out[u]
    BY <1>1, <1>2
  <1>4. e \in {"free", "ended"}
    OBVIOUS
  <1>5. Types'
    <2> HIDE DEF e
    <2> QED BY <1>1, <1>2, <1>4 DEF Types, Table
  <1>6. AllAlive'
    <2>1. ASSUME NEW u \in Threads
          PROVE  Alive(u)'
      <3>1. Alive(u)
        BY DEF IInv, AllAlive
      <3> HIDE DEF e
      <3>2. CASE u = t
        BY <1>1, <1>3, <1>4, <3>1, <3>2 DEF Alive
      <3>3. CASE u # t
        BY <1>1, <1>3, <3>1, <3>3, AliveSame
      <3> QED BY <3>2, <3>3
    <2>2. t # Root
      BY DEF IInv, AllAlive
    <2> QED BY <1>3, <2>1, <2>2, ThreadsAssumption DEF IInv, AllAlive
  <1>7. Holds' = G
    <2>1. <<t, "in", 0>> \in Spots /\ <<t, "out", 0>> \in Spots
      BY HoldsAt
    <2>2. /\ G \in Holding
          /\ \A a \in Spots : G[a] = IF a = <<t, "in", 0>> \/ a = <<t, "out", 0>>
                                     THEN NULL ELSE Holds[a]
      BY <1>2, <2>1 DEF Holding
    <2> HIDE DEF G
    <2>3. ASSUME NEW u \in Threads, NEW k \in Nat
          PROVE  /\ G[<<u, "in", k>>] = IF k = 0 THEN in'[u] ELSE NULL
                 /\ G[<<u, "out", k>>] = IF k = 0 THEN out'[u] ELSE NULL
                 /\ G[<<u, "saved", k>>] = OldAt(saved'[u], k)
                 /\ G[<<u, "call", k>>] = FileAt(calls'[u], k)
      <3>1. /\ <<u, "in", k>> \in Spots /\ <<u, "out", k>> \in Spots
            /\ <<u, "saved", k>> \in Spots /\ <<u, "call", k>> \in Spots
        BY HoldsAt
      <3>2. G[<<u, "in", k>>] = IF k = 0 THEN in'[u] ELSE NULL
        BY <1>3, <2>2, <3>1, HoldsAt
      <3>3. G[<<u, "out", k>>] = IF k = 0 THEN out'[u] ELSE NULL
        BY <1>3, <2>2, <3>1, HoldsAt
      <3>4. G[<<u, "saved", k>>] = OldAt(saved'[u], k)
        BY <1>1, <2>2, <3>1, HoldsAt
      <3>5. G[<<u, "call", k>>] = FileAt(calls'[u], k)
        BY <1>1, <2>2, <3>1, HoldsAt
      <3> QED BY <3>2, <3>3, <3>4, <3>5
    <2> QED BY <2>2, <2>3, HoldsBecomes
  <1>8. Waits' = Waits
    BY <1>1 DEF Waits
  <1>9. Joinable(Waits, status', detached')
    <2>1. Joinable(Waits, status, detached)
      BY DEF IInv
    <2>2. ASSUME NEW a \in Threads \X Nat, Waits[a] # NULL
          PROVE  status'[Waits[a]] # "free" /\ ~detached'[Waits[a]]
      <3>1. Waits[a] \in Threads
        BY <1>2, <2>2
      <3>2. status[Waits[a]] # "free" /\ ~detached[Waits[a]]
        BY <2>1, <2>2 DEF Joinable
      <3>3. ~detached'[Waits[a]]
        BY <1>1, <3>2
      <3>4. CASE Waits[a] = t
        <4>1. e = "ended"
          BY <3>2, <3>4
        <4> HIDE DEF e
        <4> QED BY <1>3, <3>1, <3>3, <3>4, <4>1
      <3>5. CASE Waits[a] # t
        BY <1>3, <3>1, <3>2, <3>3, <3>5
      <3> QED BY <3>4, <3>5
    <2> QED BY <1>2, <2>1, <2>2, JoinableSub
  <1>10. Exclusive(Holds', fd')
    BY <1>7
  <1> QED BY <1>5, <1>6, <1>7, <1>8, <1>9, <1>10 DEF IInv

LEMMA CloneEndsSafe ==
    ASSUME IInv, NEW t \in Threads, CloneEnds(t)
    PROVE  Safe
  <1> DEFINE a == <<t, "in", 0>>
             b == <<t, "out", 0>>
             H1 == [Holds EXCEPT ![a] = NULL]
             g1 == [fd EXCEPT ![in[t]] = NoFile]
             G == [H1 EXCEPT ![b] = NULL]
             g == [g1 EXCEPT ![out[t]] = NoFile]
  <1>1. /\ status[t] \in {"exit", "return"} /\ saved[t] = <<>> /\ EndThread(t)
        /\ fd' = g
    BY DEF CloneEnds, CloseAll
  <1>2. /\ Holds \in Holding /\ fd \in Table /\ Exclusive(Holds, fd)
        /\ a \in Spots /\ b \in Spots /\ a # b /\ Holds[a] = in[t] /\ Holds[b] = out[t]
    BY HoldsType, HoldsAt DEF IInv, Types, Table
  <1> HIDE DEF a, b
  <1>3. H1 \in Holding /\ g1 \in Table /\ Exclusive(H1, g1) /\ Kept(Holds, H1, g1)
    <2>1. LET F == [Holds EXCEPT ![a] = NULL]
              f == [fd EXCEPT ![Holds[a]] = NoFile]
          IN  F \in Holding /\ f \in Table /\ Exclusive(F, f) /\ Kept(Holds, F, f)
      BY <1>2, ExclusiveClose
    <2> QED BY <1>2, <2>1
  <1>4. H1[b] = out[t]
    BY <1>2 DEF Holding
  <1>5. G \in Holding /\ g \in Table /\ Exclusive(G, g) /\ Kept(H1, G, g)
    <2> HIDE DEF H1, g1
    <2>1. LET F == [H1 EXCEPT ![b] = NULL]
              f == [g1 EXCEPT ![H1[b]] = NoFile]
          IN  F \in Holding /\ f \in Table /\ Exclusive(F, f) /\ Kept(H1, F, f)
      BY <1>2, <1>3, ExclusiveClose
    <2> QED BY <1>4, <2>1
  <1>6. Kept(Holds, G, g)
    <2>1. \A h \in Handles : g[h] # NoFile => g1[h] # NoFile
      BY <1>3 DEF Table
    <2> HIDE DEF H1, g1, G, g
    <2> QED BY <1>3, <1>5, <2>1 DEF Kept
  <1>7. IInv' /\ Holds' = G
    <2>1. fd' \in Table /\ Exclusive(G, fd')
      BY <1>1, <1>5
    <2> QED BY <1>1, <2>1, EndThreadInv DEF a, b
  <1> QED BY <1>1, <1>6, <1>7 DEF Safe

LEMMA ExitEndsInv ==
    ASSUME IInv, NEW t \in Threads, ExitEnds(t)
    PROVE  IInv'
  <1> DEFINE a == <<t, "in", 0>>
             b == <<t, "out", 0>>
             G == [[Holds EXCEPT ![a] = NULL] EXCEPT ![b] = NULL]
  <1>1. status[t] \in {"exit", "return"} /\ saved[t] = <<>> /\ EndThread(t) /\ fd' = fd
    BY DEF ExitEnds
  <1>2. Holds \in Holding /\ fd \in Table /\ Exclusive(Holds, fd)
    BY HoldsType DEF IInv, Types, Table
  <1>3. G \in Holding /\ \A c \in Spots : G[c] \in {Holds[c], NULL}
    <2> HIDE DEF a, b
    <2> QED BY <1>2 DEF Holding
  <1>4. fd' \in Table /\ Exclusive(G, fd')
    <2> HIDE DEF G
    <2> QED BY <1>1, <1>2, <1>3, ExclusiveDrop
  <1> QED BY <1>1, <1>4, EndThreadInv

-----------------------------------------------------------------------------
(* Steps of the parent of a pipe. *)

LEMMA ForCloseInputInfoSafe ==
    ASSUME IInv, NEW t \in Threads, ForCloseInputInfo(t)
    PROVE  Safe
  <1> DEFINE s == calls[t]
             n == Len(s)
             c == Top(t).child
             v == <<Waiting(c)>> \o Tail(s)
             a == <<t, "call", n>>
             G == [Holds EXCEPT ![a] = NULL]
             g == [fd EXCEPT ![Top(t).file] = NoFile]
  <1>1. /\ status[t] = "running" /\ s \in Seq(Calls) /\ s # <<>>
        /\ Top(t) \in Calls /\ Top(t) = Head(s) /\ Top(t).fn = "CmdForF"
    <2>1. PICK pc : Running(t, "CmdForF", pc)
      BY DEF ForCloseInputInfo, ForStops
    <2> QED BY <2>1, RunsFacts
  <1>2. /\ fd' = g /\ calls' = [calls EXCEPT ![t] = v]
        /\ UNCHANGED <<status, detached, echoLock, in, out, saved, buf, phase>>
    BY DEF ForCloseInputInfo, Go, threadVars, streamVars
  <1>3. /\ Types /\ calls \in [Threads -> Seq(Calls)] /\ Holds \in Holding /\ fd \in Table
        /\ Exclusive(Holds, fd)
    BY HoldsType DEF IInv, Types, Table
  <1>4. /\ v \in Seq(Calls) /\ RanSet(v) = RanSet(s) /\ n \in Nat
        /\ \A d \in Nat : FileAt(v, d) = IF d = n THEN NULL ELSE FileAt(s, d)
        /\ \A d \in Nat : ChildAt(v, d) = ChildAt(s, d)
        /\ FileAt(s, n) = Top(t).file
    <2>1. /\ Waiting(c) \in Calls /\ Waiting(c).file = NULL /\ Waiting(c).child = c
          /\ ~HasRun(Waiting(c))
      BY <1>1, TopType, WaitingType
    <2>2. ~HasRun(Head(s)) /\ Head(s).child = c /\ Head(s).file = Top(t).file
      BY <1>1 DEF HasRun
    <2> DEFINE u == Tail(s)
    <2>3. /\ u \in Seq(Calls) /\ n \in Nat \ {0} /\ RanSet(u) = RanSet(s) \ {n}
          /\ n \in RanSet(s) <=> HasRun(Head(s))
      BY <1>1, PopCall
    <2>4. \A d \in Nat : FileAt(u, d) = IF d = n THEN NULL ELSE FileAt(s, d)
      BY <1>1, PopCall
    <2>5. \A d \in Nat : ChildAt(u, d) = IF d = n THEN NULL ELSE ChildAt(s, d)
      BY <1>1, PopCall
    <2>6. FileAt(s, n) = Head(s).file /\ ChildAt(s, n) = Head(s).child /\ Len(u) = n - 1
      BY <1>1, PopCall
    <2> HIDE DEF s, n, c, u
    <2>7. /\ v \in Seq(Calls) /\ RanSet(v) = RanSet(u)
          /\ \A d \in Nat : FileAt(v, d) = IF d = Len(u) + 1 THEN NULL ELSE FileAt(u, d)
      BY <2>1, <2>3, PushCall DEF u
    <2>8. \A d \in Nat : ChildAt(v, d) = IF d = Len(u) + 1 THEN c ELSE ChildAt(u, d)
      BY <2>1, <2>3, PushCall DEF u
    <2>9. Len(u) + 1 = n
      BY <2>3, <2>6
    <2> HIDE DEF v
    <2> QED BY <2>2, <2>3, <2>4, <2>5, <2>6, <2>7, <2>8, <2>9
  <1> HIDE DEF v
  <1>5. \A u \in Threads : calls'[u] = IF u = t THEN v ELSE calls[u]
    BY <1>2, <1>3
  <1>6. a \in Spots /\ Holds[a] = Top(t).file
    BY <1>4, HoldsAt
  <1> HIDE DEF a
  <1>7. G \in Holding /\ g \in Table /\ Exclusive(G, g) /\ Kept(Holds, G, g)
    <2>1. LET F == [Holds EXCEPT ![a] = NULL]
              f == [fd EXCEPT ![Holds[a]] = NoFile]
          IN  F \in Holding /\ f \in Table /\ Exclusive(F, f) /\ Kept(Holds, F, f)
      BY <1>3, <1>6, ExclusiveClose
    <2> QED BY <1>6, <2>1
  <1>8. Holds' = G
    <2>1. \A b \in Spots : G[b] = IF b = a THEN NULL ELSE Holds[b]
      BY <1>3 DEF Holding
    <2> HIDE DEF G, n, s
    <2>2. ASSUME NEW u \in Threads, NEW k \in Nat
          PROVE  /\ G[<<u, "in", k>>] = IF k = 0 THEN in'[u] ELSE NULL
                 /\ G[<<u, "out", k>>] = IF k = 0 THEN out'[u] ELSE NULL
                 /\ G[<<u, "saved", k>>] = OldAt(saved'[u], k)
                 /\ G[<<u, "call", k>>] = FileAt(calls'[u], k)
      <3>1. /\ <<u, "in", k>> \in Spots /\ <<u, "out", k>> \in Spots
            /\ <<u, "saved", k>> \in Spots /\ <<u, "call", k>> \in Spots
        BY HoldsAt
      <3>2. in' = in /\ out' = out /\ saved' = saved
        BY <1>2
      <3>3. /\ <<u, "in", k>> # a /\ <<u, "out", k>> # a /\ <<u, "saved", k>> # a
            /\ <<u, "call", k>> = a <=> u = t /\ k = n
        BY DEF a
      <3>4. FileAt(calls'[u], k) = IF u = t /\ k = n THEN NULL ELSE FileAt(calls[u], k)
        BY <1>4, <1>5 DEF s
      <3> QED BY <2>1, <3>1, <3>2, <3>3, <3>4, HoldsAt
    <2> QED BY <1>7, <2>2, HoldsBecomes
  <1>9. Waits' = Waits
    <2>1. ASSUME NEW u \in Threads, NEW k \in Nat
          PROVE  Waits[<<u, k>>] = ChildAt(calls'[u], k)
      <3>1. Waits[<<u, k>>] = ChildAt(calls[u], k) /\ calls'[u] = IF u = t THEN v ELSE calls[u]
        BY <1>5, WaitsAt
      <3> QED BY <1>4, <3>1
    <2> QED BY <1>3, <2>1, HoldsType, WaitsBecomes
  <1>10. Types'
    <2> HIDE DEF g
    <2> QED BY <1>2, <1>3, <1>4, <1>7 DEF Types, Table
  <1>11. AllAlive'
    <2>1. ASSUME NEW u \in Threads
          PROVE  Alive(u)'
      <3>1. Alive(u)
        BY DEF IInv, AllAlive
      <3> QED BY <1>1, <1>2, <1>4, <1>5, <3>1 DEF Alive
    <2> QED BY <1>2, <2>1 DEF IInv, AllAlive
  <1>12. Joinable(Waits', status', detached')
    BY <1>2, <1>9 DEF IInv
  <1> HIDE DEF G, g
  <1> QED BY <1>2, <1>7, <1>8, <1>10, <1>11, <1>12 DEF IInv, Safe

LEMMA LastCommandSafe ==
    ASSUME IInv, NEW t \in Threads, LastCommand(t)
    PROVE  Safe
  <1> DEFINE s == calls[t]
             n == Len(s)
             m == Len(saved[t]) + 1
             f == [fn |-> Top(t).fn, pc |-> "ran", code |-> Top(t).code, progs |-> <<>>,
                   file |-> NULL, child |-> Top(t).child]
             e == Block(Top(t).progs[1])
             v == <<e>> \o [s EXCEPT ![1] = f]
             item == [chan |-> "in", old |-> in[t]]
             w == <<item>> \o saved[t]
  <1>1. /\ status[t] = "running" /\ s \in Seq(Calls) /\ s # <<>>
        /\ Top(t) \in Calls /\ Top(t) = Head(s) /\ Top(t) = s[1]
        /\ Top(t).fn = "ExecOperators" /\ Top(t).pc = "next" /\ Len(Top(t).progs) = 1
    <2>1. Running(t, "ExecOperators", "next") /\ Len(Top(t).progs) = 1
      BY DEF LastCommand
    <2> QED BY <2>1, RunsFacts
  <1>2. /\ Types /\ calls \in [Threads -> Seq(Calls)] /\ Holds \in Holding /\ fd \in Table
        /\ Exclusive(Holds, fd) /\ in \in [Threads -> Handles \cup {NULL}]
        /\ saved \in [Threads -> Seq(Items)]
    BY HoldsType DEF IInv, Types, Table
  <1>3. [s EXCEPT ![1].pc = "ran", ![1].progs = <<>>, ![1].file = NULL] = [s EXCEPT ![1] = f]
    <2>0. Top(t) \in Calls
      BY <1>1
    <2>1. SetPipe(Top(t), "ran", <<>>, NULL) = f
      BY <2>0, PipeFrameSet
    <2> HIDE DEF f, s
    <2>2. [s EXCEPT ![1].pc = "ran", ![1].progs = <<>>, ![1].file = NULL]
            = [s EXCEPT ![1] = SetPipe(s[1], "ran", <<>>, NULL)]
      BY <1>1 DEF SetPipe
    <2> QED BY <1>1, <2>1, <2>2
  <1>4. /\ calls' = [calls EXCEPT ![t] = v] /\ saved' = [saved EXCEPT ![t] = w]
        /\ in' = [in EXCEPT ![t] = Top(t).file]
        /\ UNCHANGED <<status, detached, echoLock, out, fd, buf, phase>>
    BY <1>3 DEF LastCommand, Go, threadVars
  <1>5. f \in Calls /\ f.file = NULL /\ HasRun(f)
    <2>1. <<>> \in Seq(Programs)
      OBVIOUS
    <2> QED BY <1>1, <2>1, TopType, FrameType DEF HasRun
  <1>6. e \in Calls /\ e.file = NULL /\ e.child = NULL /\ ~HasRun(e)
    <2>1. Top(t).progs[1] \in Programs
      BY <1>1, TopType
    <2> QED BY <2>1, BlockType
  <1>7. /\ v \in Seq(Calls) /\ RanSet(v) = RanSet(s) \cup {n} /\ n \notin RanSet(s) /\ n \in Nat
        /\ \A d \in Nat : FileAt(v, d) = IF d = n THEN NULL ELSE FileAt(s, d)
        /\ \A d \in Nat : ChildAt(v, d) = ChildAt(s, d)
        /\ FileAt(s, n) = Top(t).file
    <2>0. f.child = Head(s).child
      BY <1>1
    <2> HIDE DEF f, e, s, n
    <2> DEFINE u == [s EXCEPT ![1] = f]
    <2>1. /\ u \in Seq(Calls) /\ n \in Nat \ {0} /\ RanSet(u) = RanSet(s) \cup {n}
      BY <1>1, <1>5, ChangeCall DEF n
    <2>2. \A d \in Nat : FileAt(u, d) = IF d = n THEN NULL ELSE FileAt(s, d)
      BY <1>1, <1>5, ChangeCall DEF n
    <2>3. \A d \in Nat : ChildAt(u, d) = IF d = n THEN f.child ELSE ChildAt(s, d)
      BY <1>1, <1>5, ChangeCall DEF n
    <2>4. /\ n \in RanSet(s) <=> HasRun(Head(s))
          /\ FileAt(s, n) = Head(s).file /\ ChildAt(s, n) = Head(s).child
      BY <1>1, PopCall DEF n
    <2>5. ~HasRun(Head(s))
      BY <1>1 DEF HasRun
    <2> HIDE DEF u
    <2>6. Alike(u, v)
      <3>1. Alike(u, u)
        BY <2>1 DEF Alike
      <3> QED BY <1>6, <2>1, <3>1, AlikePush DEF u
    <2> HIDE DEF v
    <2> QED BY <1>1, <2>0, <2>1, <2>2, <2>3, <2>4, <2>5, <2>6 DEF Alike
  <1>8. /\ w \in Seq(Items) /\ Len(w) = m /\ m \in Nat
        /\ \A d \in Nat : OldAt(w, d) = IF d = m THEN in[t] ELSE OldAt(saved[t], d)
        /\ OldAt(saved[t], m) = NULL
    <2>1. item \in Items
      BY <1>2 DEF Items, Item, GoodItem
    <2>2. saved[t] \in Seq(Items)
      BY <1>2
    <2>3. item.old = in[t]
      OBVIOUS
    <2> HIDE DEF item
    <2> QED BY <2>1, <2>2, <2>3, PushItem
  <1> HIDE DEF f, e, v, item, w
  <1>9. \A u \in Threads : /\ calls'[u] = IF u = t THEN v ELSE calls[u]
                           /\ saved'[u] = IF u = t THEN w ELSE saved[u]
                           /\ in'[u] = IF u = t THEN Top(t).file ELSE in[u]
    BY <1>2, <1>4
  <1> DEFINE a == <<t, "saved", m>>
             i == <<t, "in", 0>>
             b == <<t, "call", n>>
             H1 == [Holds EXCEPT ![a] = Holds[i], ![i] = NULL]
             G == [H1 EXCEPT ![i] = H1[b], ![b] = NULL]
  <1>10. /\ a \in Spots /\ i \in Spots /\ b \in Spots /\ a # i /\ a # b /\ i # b
         /\ Holds[a] = NULL /\ Holds[i] = in[t] /\ Holds[b] = Top(t).file
    BY <1>7, <1>8, HoldsAt
  <1> HIDE DEF a, i, b, n, m, s
  <1>11. H1 \in Holding /\ Exclusive(H1, fd) /\ Kept(Holds, H1, fd)
    <2>1. Kept(Holds, Holds, fd)
      BY KeptSame
    <2> QED BY <1>2, <1>10, <2>1, ExclusiveMove, KeptMove
  <1>12. \A c \in Spots : H1[c] = IF c = i THEN NULL ELSE IF c = a THEN in[t] ELSE Holds[c]
    BY <1>2, <1>10 DEF Holding
  <1> HIDE DEF H1
  <1>13. G \in Holding /\ Exclusive(G, fd) /\ Kept(Holds, G, fd)
    BY <1>2, <1>10, <1>11, <1>12, ExclusiveMove, KeptMove
  <1>14. \A c \in Spots : G[c] = IF c = b THEN NULL ELSE IF c = i THEN Top(t).file
                                 ELSE IF c = a THEN in[t] ELSE Holds[c]
    BY <1>10, <1>11, <1>12 DEF Holding
  <1> HIDE DEF G
  <1>15. Holds' = G
    <2>1. ASSUME NEW u \in Threads, NEW k \in Nat
          PROVE  /\ G[<<u, "in", k>>] = IF k = 0 THEN in'[u] ELSE NULL
                 /\ G[<<u, "out", k>>] = IF k = 0 THEN out'[u] ELSE NULL
                 /\ G[<<u, "saved", k>>] = OldAt(saved'[u], k)
                 /\ G[<<u, "call", k>>] = FileAt(calls'[u], k)
      <3>1. /\ <<u, "in", k>> \in Spots /\ <<u, "out", k>> \in Spots
            /\ <<u, "saved", k>> \in Spots /\ <<u, "call", k>> \in Spots
        BY HoldsAt
      <3>2. /\ <<u, "in", k>> # a /\ <<u, "in", k>> # b /\ (<<u, "in", k>> = i <=> u = t /\ k = 0)
            /\ <<u, "out", k>> # a /\ <<u, "out", k>> # b /\ <<u, "out", k>> # i
        BY DEF a, b, i
      <3>3. /\ <<u, "saved", k>> # i /\ <<u, "saved", k>> # b
            /\ <<u, "saved", k>> = a <=> u = t /\ k = m
        BY DEF a, b, i
      <3>4. /\ <<u, "call", k>> # i /\ <<u, "call", k>> # a
            /\ <<u, "call", k>> = b <=> u = t /\ k = n
        BY DEF a, b, i
      <3>5. G[<<u, "in", k>>] = IF k = 0 THEN in'[u] ELSE NULL
        BY <1>9, <1>14, <3>1, <3>2, HoldsAt
      <3>6. G[<<u, "out", k>>] = IF k = 0 THEN out'[u] ELSE NULL
        BY <1>4, <1>14, <3>1, <3>2, HoldsAt
      <3>7. G[<<u, "saved", k>>] = OldAt(saved'[u], k)
        <4>1. OldAt(saved'[u], k) = IF u = t /\ k = m THEN in[t] ELSE OldAt(saved[u], k)
          BY <1>8, <1>9
        <4> QED BY <1>14, <3>1, <3>3, <4>1, HoldsAt
      <3>8. G[<<u, "call", k>>] = FileAt(calls'[u], k)
        BY <1>7, <1>9, <1>14, <3>1, <3>4, HoldsAt DEF s
      <3> QED BY <3>5, <3>6, <3>7, <3>8
    <2> QED BY <1>13, <2>1, HoldsBecomes
  <1>16. Waits' = Waits
    <2>1. ASSUME NEW u \in Threads, NEW k \in Nat
          PROVE  Waits[<<u, k>>] = ChildAt(calls'[u], k)
      <3>1. Waits[<<u, k>>] = ChildAt(calls[u], k) /\ calls'[u] = IF u = t THEN v ELSE calls[u]
        BY <1>9, WaitsAt
      <3> QED BY <1>7, <3>1 DEF s
    <2> QED BY <1>2, <2>1, HoldsType, WaitsBecomes
  <1>17. Types'
    <2>1. Top(t).file \in Handles \cup {NULL}
      BY <1>1, TopType
    <2> QED BY <1>2, <1>4, <1>7, <1>8, <2>1 DEF Types
  <1>18. AllAlive'
    <2>1. Cardinality(RanSet(v)) <= Len(w)
      <3>1. Cardinality(RanSet(s)) <= Len(saved[t]) /\ Len(saved[t]) \in Nat
        BY <1>2 DEF IInv, AllAlive, Alive, s
      <3>2. IsFiniteSet(RanSet(s)) /\ Cardinality(RanSet(s)) \in Nat
        BY <1>1, RanFinite
      <3>3. Cardinality(RanSet(v)) = Cardinality(RanSet(s)) + 1
        BY <1>7, <3>2, FS_AddElement
      <3> QED BY <1>8, <3>1, <3>2, <3>3 DEF m
    <2>2. ASSUME NEW u \in Threads
          PROVE  Alive(u)'
      <3>1. Alive(u) /\ status' = status /\ out' = out
        BY <1>4 DEF IInv, AllAlive
      <3>2. CASE u = t
        BY <1>1, <1>9, <2>1, <3>1, <3>2 DEF Alive
      <3>3. CASE u # t
        BY <1>9, <3>1, <3>3, AliveSame
      <3> QED BY <3>2, <3>3
    <2> QED BY <1>4, <2>2 DEF IInv, AllAlive
  <1>19. Joinable(Waits', status', detached')
    BY <1>4, <1>16 DEF IInv
  <1> QED BY <1>4, <1>13, <1>15, <1>17, <1>18, <1>19 DEF IInv, Safe

\* PopStreamStack: what the streams and the stack of the thread are after it.
PopResult(t) ==
    /\ in' \in [Threads -> Handles \cup {NULL}] /\ out' \in [Threads -> Handles \cup {NULL}]
    /\ saved' \in [Threads -> Seq(Items)] /\ fd' \in Table
    /\ \A u \in Threads \ {t} : in'[u] = in[u] /\ out'[u] = out[u] /\ saved'[u] = saved[u]
    /\ saved'[t] = Tail(saved[t]) /\ Len(saved'[t]) = Len(saved[t]) - 1
    /\ out[t] # NULL => out'[t] # NULL

LEMMA PopStream ==
    ASSUME IInv, NEW t \in Threads, saved[t] # <<>>,
           PopStreamStack(t) \/ PopNull(t), RestoreStream(t),
           \A u \in Threads, k \in Nat : FileAt(calls'[u], k) = FileAt(calls[u], k)
    PROVE  PopResult(t) /\ Exclusive(Holds', fd') /\ Kept(Holds, Holds', fd')
  <1> DEFINE m == Len(saved[t])
             i == Popped(t)
             x == <<t, i.chan, 0>>
             y == <<t, "saved", m>>
             h == Current(t, i.chan)
             H1 == [Holds EXCEPT ![x] = NULL]
             G == [H1 EXCEPT ![x] = H1[y], ![y] = NULL]
             g == [fd EXCEPT ![h] = NoFile]
  <1>1. /\ Types /\ Holds \in Holding /\ fd \in Table /\ Exclusive(Holds, fd)
        /\ in \in [Threads -> Handles \cup {NULL}] /\ out \in [Threads -> Handles \cup {NULL}]
        /\ saved \in [Threads -> Seq(Items)] /\ saved[t] \in Seq(Items)
    BY HoldsType DEF IInv, Types, Table
  <1>2. /\ i \in Items /\ i = Head(saved[t]) /\ m \in Nat \ {0}
        /\ Tail(saved[t]) \in Seq(Items) /\ Len(Tail(saved[t])) = m - 1
        /\ \A d \in Nat : OldAt(Tail(saved[t]), d) = IF d = m THEN NULL ELSE OldAt(saved[t], d)
        /\ OldAt(saved[t], m) = i.old
    BY <1>1, PopItem DEF Popped
  <1>3. /\ i.chan \in {"in", "out"} /\ i.old \in Handles \cup {NULL}
        /\ i.chan = "out" => i.old # NULL
    BY <1>2 DEF Items, Item, GoodItem
  <1>4. /\ saved' = [saved EXCEPT ![t] = Tail(saved[t])]
        /\ in' = IF i.chan = "in" THEN [in EXCEPT ![t] = i.old] ELSE in
        /\ out' = IF i.chan = "out" THEN [out EXCEPT ![t] = i.old] ELSE out
    BY DEF RestoreStream
  <1>5. fd' = g
    <2>1. CASE PopStreamStack(t)
      BY <2>1 DEF PopStreamStack
    <2>2. CASE PopNull(t)
      <3>1. h = NULL /\ fd' = fd
        BY <2>2 DEF PopNull
      <3> QED BY <1>1, <3>1, HandlesAssumption DEF Table
    <2> QED BY <2>1, <2>2
  <1> HIDE DEF i, m
  <1>6. /\ x \in Spots /\ y \in Spots /\ x # y /\ Holds[x] = h /\ Holds[y] = i.old
        /\ i.chan = "in" => x = <<t, "in", 0>>
        /\ i.chan = "out" => x = <<t, "out", 0>>
    <2>1. y \in Spots /\ Holds[y] = i.old
      BY <1>2, HoldsAt
    <2>2. CASE i.chan = "in"
      BY <2>1, <2>2, HoldsAt DEF Current
    <2>3. CASE i.chan = "out"
      BY <2>1, <2>3, HoldsAt DEF Current
    <2> QED BY <1>3, <2>2, <2>3
  <1>7. PopResult(t)
    <2>1. g \in Table
      BY <1>1 DEF Table, File, NoFile, End
    <2>2. /\ in' \in [Threads -> Handles \cup {NULL}] /\ out' \in [Threads -> Handles \cup {NULL}]
          /\ \A u \in Threads \ {t} : in'[u] = in[u] /\ out'[u] = out[u]
          /\ out[t] # NULL => out'[t] # NULL
      BY <1>1, <1>3, <1>4
    <2>3. /\ saved' \in [Threads -> Seq(Items)] /\ saved'[t] = Tail(saved[t])
          /\ \A u \in Threads \ {t} : saved'[u] = saved[u]
      BY <1>1, <1>2, <1>4
    <2> HIDE DEF g
    <2> QED BY <1>2, <1>5, <2>1, <2>2, <2>3 DEF PopResult, m
  <1> DEFINE xx == x
             yy == y
  <1>8. H1 \in Holding /\ g \in Table /\ Exclusive(H1, g) /\ Kept(Holds, H1, g)
    <2>1. LET F == [Holds EXCEPT ![x] = NULL]
              f == [fd EXCEPT ![Holds[x]] = NoFile]
          IN  F \in Holding /\ f \in Table /\ Exclusive(F, f) /\ Kept(Holds, F, f)
      <3> HIDE DEF x, y
      <3> QED BY <1>1, <1>6, ExclusiveClose
    <2> HIDE DEF x, y, h
    <2> QED BY <1>6, <2>1
  <1>9. \A a \in Spots : H1[a] = IF a = x THEN NULL ELSE Holds[a]
    <2> HIDE DEF x, y
    <2> QED BY <1>1 DEF Holding
  <1> HIDE DEF x, y, h, g, H1
  <1>10. G \in Holding /\ Exclusive(G, g) /\ Kept(Holds, G, g)
    BY <1>1, <1>6, <1>8, <1>9, ExclusiveMove, KeptMove
  <1>11. \A a \in Spots : G[a] = IF a = y THEN NULL ELSE IF a = x THEN i.old ELSE Holds[a]
    BY <1>6, <1>8, <1>9 DEF Holding
  <1> HIDE DEF G
  <1>12. Holds' = G
    <2>1. ASSUME NEW u \in Threads, NEW k \in Nat
          PROVE  /\ G[<<u, "in", k>>] = IF k = 0 THEN in'[u] ELSE NULL
                 /\ G[<<u, "out", k>>] = IF k = 0 THEN out'[u] ELSE NULL
                 /\ G[<<u, "saved", k>>] = OldAt(saved'[u], k)
                 /\ G[<<u, "call", k>>] = FileAt(calls'[u], k)
      <3>1. /\ <<u, "in", k>> \in Spots /\ <<u, "out", k>> \in Spots
            /\ <<u, "saved", k>> \in Spots /\ <<u, "call", k>> \in Spots
        BY HoldsAt
      <3>2. /\ <<u, "in", k>> # y /\ <<u, "out", k>> # y /\ <<u, "call", k>> # y
            /\ <<u, "saved", k>> = y <=> u = t /\ k = m
        BY DEF y
      <3>3. /\ <<u, "in", k>> = x <=> u = t /\ k = 0 /\ i.chan = "in"
            /\ <<u, "out", k>> = x <=> u = t /\ k = 0 /\ i.chan = "out"
            /\ <<u, "saved", k>> # x /\ <<u, "call", k>> # x
        BY <1>3 DEF x
      <3>4. /\ in'[u] = IF u = t /\ i.chan = "in" THEN i.old ELSE in[u]
            /\ out'[u] = IF u = t /\ i.chan = "out" THEN i.old ELSE out[u]
        BY <1>1, <1>4
      <3>5. OldAt(saved'[u], k) = IF u = t /\ k = m THEN NULL ELSE OldAt(saved[u], k)
        BY <1>1, <1>2, <1>4
      <3>6. G[<<u, "in", k>>] = IF k = 0 THEN in'[u] ELSE NULL
        BY <1>11, <3>1, <3>2, <3>3, <3>4, HoldsAt
      <3>7. G[<<u, "out", k>>] = IF k = 0 THEN out'[u] ELSE NULL
        BY <1>11, <3>1, <3>2, <3>3, <3>4, HoldsAt
      <3>8. G[<<u, "saved", k>>] = OldAt(saved'[u], k)
        BY <1>11, <3>1, <3>2, <3>3, <3>5, HoldsAt
      <3>9. G[<<u, "call", k>>] = FileAt(calls'[u], k)
        BY <1>11, <3>1, <3>2, <3>3, HoldsAt
      <3> QED BY <3>6, <3>7, <3>8, <3>9
    <2> QED BY <1>10, <2>1, HoldsBecomes
  <1> QED BY <1>5, <1>7, <1>10, <1>12

LEMMA PipeEndsSafe ==
    ASSUME IInv, NEW t \in Threads, PipeEnds(t)
    PROVE  Safe
  <1> DEFINE s == calls[t]
             n == Len(s)
             v == Tail(s)
             L == [Waits EXCEPT ![<<t, n>>] = NULL]
  <1>1. /\ status[t] = "running" /\ s \in Seq(Calls) /\ s # <<>>
        /\ Top(t) \in Calls /\ Top(t) = Head(s) /\ HasRun(Top(t)) /\ Top(t).file = NULL
    <2>1. Running(t, "ExecOperators", "ran")
      BY DEF PipeEnds
    <2>2. HasRun(Top(t)) /\ Top(t) \in Calls
      BY <2>1, RunsFacts DEF HasRun
    <2> QED BY <2>1, <2>2, RunsFacts, TopType DEF GoodFrame
  <1>2. /\ Types /\ calls \in [Threads -> Seq(Calls)]
        /\ Waits \in [Threads \X Nat -> Threads \cup {NULL}]
        /\ calls' = [calls EXCEPT ![t] = v]
        /\ status' = status /\ detached' = detached /\ echoLock' = echoLock
        /\ buf' = buf /\ phase' = phase
        /\ PopStreamStack(t) /\ RestoreStream(t)
    BY HoldsType DEF IInv, Types, PipeEnds, Go, threadVars
  <1>3. /\ v \in Seq(Calls) /\ n \in Nat \ {0} /\ RanSet(v) = RanSet(s) \ {n} /\ n \in RanSet(s)
        /\ \A d \in Nat : FileAt(v, d) = FileAt(s, d)
        /\ \A d \in Nat : ChildAt(v, d) = IF d = n THEN NULL ELSE ChildAt(s, d)
    <2>1. /\ v \in Seq(Calls) /\ n \in Nat \ {0} /\ RanSet(v) = RanSet(s) \ {n}
          /\ n \in RanSet(s) <=> HasRun(Head(s))
          /\ FileAt(s, n) = Head(s).file
      BY <1>1, PopCall
    <2>2. \A d \in Nat : FileAt(v, d) = IF d = n THEN NULL ELSE FileAt(s, d)
      BY <1>1, PopCall
    <2>3. \A d \in Nat : ChildAt(v, d) = IF d = n THEN NULL ELSE ChildAt(s, d)
      BY <1>1, PopCall
    <2> HIDE DEF s, n, v
    <2> QED BY <1>1, <2>1, <2>2, <2>3
  <1> HIDE DEF v
  <1>4. \A u \in Threads : calls'[u] = IF u = t THEN v ELSE calls[u]
    BY <1>2
  <1>5. /\ IsFiniteSet(RanSet(s)) /\ Cardinality(RanSet(s)) \in Nat
        /\ Cardinality(RanSet(s)) <= Len(saved[t]) /\ Len(saved[t]) \in Nat
        /\ saved[t] \in Seq(Items)
    BY <1>1, <1>2, RanFinite DEF IInv, AllAlive, Alive, Types
  <1>6. Cardinality(RanSet(v)) = Cardinality(RanSet(s)) - 1 /\ Cardinality(RanSet(s)) # 0
    <2> DEFINE R == RanSet(s)
    <2>1. n \in R /\ RanSet(v) = R \ {n} /\ IsFiniteSet(R)
      BY <1>3, <1>5
    <2> HIDE DEF R, n
    <2>2. Cardinality(R \ {n}) = Cardinality(R) - 1
      BY <2>1, FS_RemoveElement
    <2>3. R # {}
      BY <2>1
    <2>4. Cardinality(R) # 0
      BY <2>1, <2>3, FS_EmptySet
    <2> QED BY <2>1, <2>2, <2>4 DEF R
  <1>7. saved[t] # <<>>
    BY <1>5, <1>6
  <1>8. PopResult(t) /\ Exclusive(Holds', fd') /\ Kept(Holds, Holds', fd')
    <2>1. \A u \in Threads, k \in Nat : FileAt(calls'[u], k) = FileAt(calls[u], k)
      BY <1>3, <1>4
    <2> QED BY <1>2, <1>7, <2>1, PopStream
  <1>9. Types'
    BY <1>2, <1>3, <1>8 DEF Types, PopResult, Table
  <1>10. AllAlive'
    <2>1. ASSUME NEW u \in Threads
          PROVE  Alive(u)'
      <3>1. Alive(u)
        BY DEF IInv, AllAlive
      <3>2. CASE u = t
        <4>1. out'[t] # NULL
          BY <1>1, <1>8, <3>1, <3>2 DEF Alive, PopResult
        <4>2. Cardinality(RanSet(v)) <= Len(saved'[t])
          BY <1>5, <1>6, <1>8 DEF PopResult
        <4> QED BY <1>1, <1>2, <1>4, <3>2, <4>1, <4>2 DEF Alive
      <3>3. CASE u # t
        BY <1>2, <1>4, <1>8, <3>1, <3>3, AliveSame DEF PopResult
      <3> QED BY <3>2, <3>3
    <2> QED BY <1>2, <2>1 DEF IInv, AllAlive
  <1>11. /\ L \in [Threads \X Nat -> Threads \cup {NULL}]
         /\ \A b \in Threads \X Nat : L[b] = IF b = <<t, n>> THEN NULL ELSE Waits[b]
    BY <1>2
  <1> HIDE DEF L, n, s
  <1>12. Waits' = L
    <2>1. ASSUME NEW u \in Threads, NEW k \in Nat
          PROVE  L[<<u, k>>] = ChildAt(calls'[u], k)
      <3>1. /\ <<u, k>> \in Threads \X Nat /\ Waits[<<u, k>>] = ChildAt(calls[u], k)
            /\ <<u, k>> = <<t, n>> <=> u = t /\ k = n
        BY WaitsAt
      <3>2. L[<<u, k>>] = IF u = t /\ k = n THEN NULL ELSE ChildAt(calls[u], k)
        BY <1>11, <3>1
      <3>3. calls'[u] = IF u = t THEN v ELSE calls[u]
        BY <1>4
      <3> QED BY <1>3, <3>2, <3>3 DEF s
    <2> QED BY <1>11, <2>1, WaitsBecomes
  <1>13. Joinable(L, status', detached')
    <2>1. Joinable(Waits, status, detached)
      BY DEF IInv
    <2>2. \A a \in Threads \X Nat : L[a] \in {Waits[a], NULL}
      BY <1>11
    <2>3. ASSUME NEW a \in Threads \X Nat, L[a] # NULL
          PROVE  status[L[a]] # "free" /\ ~detached[L[a]]
      <3>1. L[a] = Waits[a]
        BY <2>2, <2>3
      <3> QED BY <2>1, <2>3, <3>1 DEF Joinable
    <2> QED BY <1>2, <2>1, <2>2, <2>3, JoinableSub
  <1> QED BY <1>8, <1>9, <1>10, <1>12, <1>13 DEF IInv, Safe

LEMMA FreeStreamStackSafe ==
    ASSUME IInv, NEW t \in Threads, FreeStreamStack(t)
    PROVE  Safe
  <1>1. CASE Crash
    BY <1>1, CrashSafe
  <1>2. CASE ~Crash
    <2>1. /\ status[t] \in {"exit", "return"} /\ saved[t] # <<>>
          /\ PopStreamStack(t) \/ PopNull(t)
          /\ RestoreStream(t)
          /\ status' = status /\ detached' = detached /\ echoLock' = echoLock
          /\ calls' = calls /\ buf' = buf /\ phase' = phase
      BY <1>2 DEF FreeStreamStack, threadVars
    <2>2. PopResult(t) /\ Exclusive(Holds', fd') /\ Kept(Holds, Holds', fd')
      <3>1. \A u \in Threads, k \in Nat : FileAt(calls'[u], k) = FileAt(calls[u], k)
        BY <2>1
      <3> QED BY <2>1, <3>1, PopStream
    <2>3. Types'
      BY <2>1, <2>2 DEF IInv, Types, PopResult, Table
    <2>4. AllAlive'
      <3>1. ASSUME NEW u \in Threads
            PROVE  Alive(u)'
        <4>1. Alive(u)
          BY DEF IInv, AllAlive
        <4>2. CASE u = t
          <5>1. calls'[t] = <<>> /\ Len(saved'[t]) \in Nat
            BY <2>1, <2>2, <4>1, <4>2 DEF Alive, PopResult
          <5> QED BY <2>1, <4>2, <5>1, EmptyStack DEF Alive
        <4>3. CASE u # t
          BY <2>1, <2>2, <4>1, <4>3, AliveSame DEF PopResult
        <4> QED BY <4>2, <4>3
      <3> QED BY <2>1, <3>1 DEF IInv, AllAlive
    <2>5. Waits' = Waits
      BY <2>1 DEF Waits
    <2>6. Joinable(Waits', status', detached')
      BY <2>1, <2>5 DEF IInv
    <2> QED BY <2>2, <2>3, <2>4, <2>6 DEF IInv, Safe
  <1> QED BY <1>1, <1>2

-----------------------------------------------------------------------------
(* Steps that start a clone. *)

\* The places of N get streams that are new, or none; the others keep theirs.
Grows(H, g, G, f, N) ==
    /\ G \in Holding /\ \A a \in Spots \ N : G[a] = H[a]
    /\ \A a \in N : G[a] # NULL => g[G[a]] = NoFile /\ f[G[a]] # NoFile
    /\ \A a, b \in N : a # b /\ G[a] # NULL => G[b] # G[a]
    /\ \A h \in Handles : g[h] # NoFile => f[h] = g[h]

LEMMA ExclusiveGrow ==
    ASSUME NEW H, NEW g, Exclusive(H, g), NEW G, NEW f, NEW N, Grows(H, g, G, f, N)
    PROVE  Exclusive(G, f)
  <1> USE DEF Grows
  <1> SUFFICES ASSUME NEW a \in Spots, G[a] # NULL
               PROVE  f[G[a]] # NoFile /\ \A b \in Spots \ {a} : G[b] # G[a]
    BY DEF Exclusive
  <1>1. G[a] \in Handles
    BY DEF Holding
  <1>2. CASE a \in N
    <2>1. f[G[a]] # NoFile /\ g[G[a]] = NoFile
      BY <1>2
    <2>2. ASSUME NEW b \in Spots \ {a}
          PROVE  G[b] # G[a]
      <3>1. CASE b \in N
        BY <1>2, <3>1
      <3>2. CASE b \notin N
        <4>1. G[b] = H[b]
          BY <3>2
        <4>2. H[b] # NULL => g[H[b]] # NoFile
          BY DEF Exclusive
        <4> QED BY <2>1, <4>1, <4>2
      <3> QED BY <3>1, <3>2
    <2> QED BY <2>1, <2>2
  <1>3. CASE a \notin N
    <2>1. G[a] = H[a] /\ g[H[a]] # NoFile /\ \A b \in Spots \ {a} : H[b] # H[a]
      BY <1>3 DEF Exclusive
    <2>2. f[G[a]] # NoFile
      BY <1>1, <2>1
    <2>3. ASSUME NEW b \in Spots \ {a}
          PROVE  G[b] # G[a]
      <3>1. CASE b \in N
        BY <2>1, <3>1
      <3>2. CASE b \notin N
        BY <2>1, <3>2
      <3> QED BY <3>1, <3>2
    <2> QED BY <2>2, <2>3
  <1> QED BY <1>2, <1>3

\* Streams are new if they were closed and are open, and no two of them are the same.
Fresh(F) ==
    /\ \A j \in 1 .. 5 : F[j] # NULL =>
        F[j] \in Handles /\ fd[F[j]] = NoFile /\ fd'[F[j]] # NoFile
    /\ \A j, k \in 1 .. 5 : j # k /\ F[j] # NULL => F[k] # F[j]

LEMMA FreeFacts ==
    ASSUME IInv, NEW c \in Threads, status[c] = "free"
    PROVE  /\ in[c] = NULL /\ out[c] = NULL /\ saved[c] = <<>> /\ calls[c] = <<>> /\ c # Root
           /\ \A k \in Nat : OldAt(saved[c], k) = NULL /\ FileAt(calls[c], k) = NULL
                             /\ ChildAt(calls[c], k) = NULL
  <1>1. /\ in[c] = NULL /\ out[c] = NULL /\ saved[c] = <<>> /\ calls[c] = <<>> /\ c # Root
    BY DEF IInv, AllAlive, Alive
  <1> QED BY <1>1, EmptyStack

LEMMA OneBlock ==
    ASSUME NEW p \in Programs
    PROVE  /\ <<Block(p)>> \in Seq(Calls) /\ RanSet(<<Block(p)>>) = {}
           /\ \A d \in Nat : FileAt(<<Block(p)>>, d) = NULL /\ ChildAt(<<Block(p)>>, d) = NULL
  <1> DEFINE f == Block(p)
  <1>1. f \in Calls /\ f.file = NULL /\ f.child = NULL /\ ~HasRun(f)
    BY BlockType
  <1> HIDE DEF f
  <1>2. <<f>> \in Seq(Calls) /\ Len(<<f>>) = 1
    BY <1>1
  <1>3. \A d \in 1 .. 1 : At(<<f>>, d) = f
    BY DEF At
  <1>4. RanSet(<<f>>) = {}
    BY <1>1, <1>2, <1>3 DEF RanSet
  <1>5. \A d \in Nat : FileAt(<<f>>, d) = NULL /\ ChildAt(<<f>>, d) = NULL
    BY <1>1, <1>2, <1>3 DEF FileAt, ChildAt
  <1> QED BY <1>2, <1>4, <1>5 DEF f

\* The thread t starts c, which interprets p, with the streams i and o and the items w;
\* v is the new stack of t, and h the file of its call at the height n.
GrowStep(t, c, i, o, w, p, v, n, h) ==
    /\ t \in Threads /\ c \in Threads /\ t # c /\ status[c] = "free"
    /\ i \in Handles \cup {NULL} /\ o \in Handles /\ w \in Seq(Items) /\ Len(w) <= 2
    /\ p \in Programs /\ v \in Seq(Calls) /\ n \in Nat /\ h \in Handles \cup {NULL}
    /\ in' = [in EXCEPT ![c] = i] /\ out' = [out EXCEPT ![c] = o]
    /\ saved' = [saved EXCEPT ![c] = w]
    /\ calls' = [calls EXCEPT ![c] = <<Block(p)>>, ![t] = v]
    /\ \A d \in Nat : FileAt(v, d) = IF d = n THEN h ELSE FileAt(calls[t], d)
    /\ fd' \in Table /\ \A k \in Handles : fd[k] # NoFile => fd'[k] = fd[k]
    /\ Fresh(<<i, o, OldAt(w, 1), OldAt(w, 2), h>>)

LEMMA GrowPlaces ==
    ASSUME IInv, NEW t, NEW c, NEW i, NEW o, NEW w, NEW p, NEW v, NEW n, NEW h,
           GrowStep(t, c, i, o, w, p, v, n, h)
    PROVE  /\ Exclusive(Holds', fd')
           /\ FileAt(calls[t], n) = NULL => Kept(Holds, Holds', fd')
  <1> USE DEF GrowStep
  <1> DEFINE a1 == <<c, "in", 0>>
             a2 == <<c, "out", 0>>
             a3 == <<c, "saved", 1>>
             a4 == <<c, "saved", 2>>
             a5 == <<t, "call", n>>
             F == <<i, o, OldAt(w, 1), OldAt(w, 2), h>>
             G == [a \in Spots |-> IF a = a1 THEN i ELSE IF a = a2 THEN o
                                   ELSE IF a = a3 THEN OldAt(w, 1) ELSE IF a = a4 THEN OldAt(w, 2)
                                   ELSE IF a = a5 THEN h ELSE Holds[a]]
  <1>1. /\ Types /\ Holds \in Holding /\ fd \in Table /\ Exclusive(Holds, fd)
        /\ calls \in [Threads -> Seq(Calls)]
        /\ DOMAIN in = Threads /\ DOMAIN out = Threads /\ DOMAIN saved = Threads
    BY HoldsType DEF IInv, Types, Table
  <1>2. \A u \in Threads : /\ in'[u] = IF u = c THEN i ELSE in[u]
                           /\ out'[u] = IF u = c THEN o ELSE out[u]
                           /\ saved'[u] = IF u = c THEN w ELSE saved[u]
                           /\ calls'[u] = IF u = t THEN v ELSE IF u = c THEN <<Block(p)>> ELSE calls[u]
    BY <1>1
  <1>3. OldAt(w, 1) \in Handles \cup {NULL} /\ OldAt(w, 2) \in Handles \cup {NULL}
    <2>1. ASSUME NEW d \in Nat
          PROVE  OldAt(w, d) \in Handles \cup {NULL}
      <3>1. CASE d \in 1 .. Len(w)
        <4>1. At(w, d) \in Items
          BY <3>1 DEF At
        <4> QED BY <3>1, <4>1 DEF OldAt, Items, Item
      <3> QED BY <3>1 DEF OldAt
    <2> QED BY <2>1
  <1>4. \A d \in Nat \ {1, 2} : OldAt(w, d) = NULL
    BY DEF OldAt
  <1>5. /\ a1 \in Spots /\ a2 \in Spots /\ a3 \in Spots /\ a4 \in Spots /\ a5 \in Spots
        /\ a1 # a2 /\ a1 # a3 /\ a1 # a4 /\ a1 # a5 /\ a2 # a3 /\ a2 # a4 /\ a2 # a5
        /\ a3 # a4 /\ a3 # a5 /\ a4 # a5
    <2>1. a1 \in Spots /\ a2 \in Spots
      BY HoldsAt
    <2>2. a3 \in Spots /\ a4 \in Spots
      BY HoldsAt
    <2>3. a5 \in Spots
      BY HoldsAt
    <2>4. a1 # a2 /\ a1 # a3 /\ a1 # a4 /\ a1 # a5
      OBVIOUS
    <2>5. a2 # a3 /\ a2 # a4 /\ a2 # a5 /\ a3 # a4 /\ a3 # a5 /\ a4 # a5
      OBVIOUS
    <2> QED BY <2>1, <2>2, <2>3, <2>4, <2>5
  <1> HIDE DEF a1, a2, a3, a4, a5
  <1>6. G \in Holding
    BY <1>1, <1>3 DEF Holding
  <1>7. /\ G[a1] = i /\ G[a2] = o /\ G[a3] = OldAt(w, 1) /\ G[a4] = OldAt(w, 2) /\ G[a5] = h
        /\ \A a \in Spots \ {a1, a2, a3, a4, a5} : G[a] = Holds[a]
    BY <1>5
  <1> HIDE DEF G
  <1>8. Exclusive(G, fd')
    <2> DEFINE N == {a1, a2, a3, a4, a5}
    <2>1. Fresh(F)
      OBVIOUS
    <2>2. \A j \in 1 .. 5 : F[j] # NULL => fd[F[j]] = NoFile /\ fd'[F[j]] # NoFile
      BY <2>1 DEF Fresh
    <2>3. \A j, k \in 1 .. 5 : j # k /\ F[j] # NULL => F[k] # F[j]
      BY <2>1 DEF Fresh
    <2>4. \A a \in N : \E j \in 1 .. 5 : a = <<a1, a2, a3, a4, a5>>[j] /\ G[a] = F[j]
      <3>1. F[1] = i /\ F[2] = o /\ F[3] = OldAt(w, 1) /\ F[4] = OldAt(w, 2) /\ F[5] = h
        OBVIOUS
      <3> HIDE DEF F
      <3> QED BY <1>7, <3>1
    <2> HIDE DEF F
    <2>5. \A a \in N : G[a] # NULL => fd[G[a]] = NoFile /\ fd'[G[a]] # NoFile
      BY <2>2, <2>4
    <2>6. \A a, b \in N : a # b /\ G[a] # NULL => G[b] # G[a]
      <3> SUFFICES ASSUME NEW a \in N, NEW b \in N, a # b, G[a] # NULL
                   PROVE  G[b] # G[a]
        OBVIOUS
      <3>1. PICK j \in 1 .. 5 : a = <<a1, a2, a3, a4, a5>>[j] /\ G[a] = F[j]
        BY <2>4
      <3>2. PICK k \in 1 .. 5 : b = <<a1, a2, a3, a4, a5>>[k] /\ G[b] = F[k]
        BY <2>4
      <3>3. j # k
        BY <3>1, <3>2
      <3> QED BY <2>3, <3>1, <3>2, <3>3
    <2>7. \A a \in Spots \ N : G[a] = Holds[a]
      BY <1>7
    <2> HIDE DEF N
    <2>8. \A k \in Handles : fd[k] # NoFile => fd'[k] = fd[k]
      OBVIOUS
    <2>9. Grows(Holds, fd, G, fd', N)
      BY <1>6, <2>5, <2>6, <2>7, <2>8 DEF Grows
    <2> QED BY <1>1, <2>9, ExclusiveGrow
  <1>9. Holds' = G
    <2>1. ASSUME NEW u \in Threads, NEW k \in Nat
          PROVE  /\ G[<<u, "in", k>>] = IF k = 0 THEN in'[u] ELSE NULL
                 /\ G[<<u, "out", k>>] = IF k = 0 THEN out'[u] ELSE NULL
                 /\ G[<<u, "saved", k>>] = OldAt(saved'[u], k)
                 /\ G[<<u, "call", k>>] = FileAt(calls'[u], k)
      <3>1. /\ <<u, "in", k>> \in Spots /\ <<u, "out", k>> \in Spots
            /\ <<u, "saved", k>> \in Spots /\ <<u, "call", k>> \in Spots
        BY HoldsAt
      <3>2. /\ (<<u, "in", k>> = a1 <=> u = c /\ k = 0) /\ <<u, "in", k>> # a2
            /\ <<u, "in", k>> # a3 /\ <<u, "in", k>> # a4 /\ <<u, "in", k>> # a5
        BY DEF a1, a2, a3, a4, a5
      <3>3. /\ (<<u, "out", k>> = a2 <=> u = c /\ k = 0) /\ <<u, "out", k>> # a1
            /\ <<u, "out", k>> # a3 /\ <<u, "out", k>> # a4 /\ <<u, "out", k>> # a5
        BY DEF a1, a2, a3, a4, a5
      <3>4. /\ <<u, "saved", k>> # a1 /\ <<u, "saved", k>> # a2 /\ <<u, "saved", k>> # a5
            /\ <<u, "saved", k>> = a3 <=> u = c /\ k = 1
            /\ <<u, "saved", k>> = a4 <=> u = c /\ k = 2
        BY DEF a1, a2, a3, a4, a5
      <3>5. /\ <<u, "call", k>> # a1 /\ <<u, "call", k>> # a2 /\ <<u, "call", k>> # a3
            /\ <<u, "call", k>> # a4 /\ (<<u, "call", k>> = a5 <=> u = t /\ k = n)
        BY DEF a1, a2, a3, a4, a5
      <3>6. G[<<u, "in", k>>] = IF u = c /\ k = 0 THEN i ELSE Holds[<<u, "in", k>>]
        BY <1>7, <3>1, <3>2
      <3>7. G[<<u, "out", k>>] = IF u = c /\ k = 0 THEN o ELSE Holds[<<u, "out", k>>]
        BY <1>7, <3>1, <3>3
      <3>8. G[<<u, "saved", k>>] = IF u = c /\ k = 1 THEN OldAt(w, 1)
                                   ELSE IF u = c /\ k = 2 THEN OldAt(w, 2)
                                   ELSE Holds[<<u, "saved", k>>]
        BY <1>7, <3>1, <3>4
      <3>9. G[<<u, "call", k>>] = IF u = t /\ k = n THEN h ELSE Holds[<<u, "call", k>>]
        BY <1>7, <3>1, <3>5
      <3>10. \A d \in Nat : OldAt(saved[c], d) = NULL /\ FileAt(calls[c], d) = NULL
        BY FreeFacts
      <3>11. G[<<u, "in", k>>] = IF k = 0 THEN in'[u] ELSE NULL
        BY <1>2, <3>6, HoldsAt
      <3>12. G[<<u, "out", k>>] = IF k = 0 THEN out'[u] ELSE NULL
        BY <1>2, <3>7, HoldsAt
      <3>13. G[<<u, "saved", k>>] = OldAt(saved'[u], k)
        <4>1. Holds[<<u, "saved", k>>] = OldAt(saved[u], k)
          BY HoldsAt
        <4>2. CASE u = c
          BY <1>2, <1>4, <3>8, <3>10, <4>1, <4>2
        <4>3. CASE u # c
          BY <1>2, <3>8, <4>1, <4>3
        <4> QED BY <4>2, <4>3
      <3>14. G[<<u, "call", k>>] = FileAt(calls'[u], k)
        <4>1. Holds[<<u, "call", k>>] = FileAt(calls[u], k)
          BY HoldsAt
        <4>2. CASE u = t
          <5>1. calls'[u] = v /\ FileAt(v, k) = IF k = n THEN h ELSE FileAt(calls[t], k)
            BY <1>2, <4>2
          <5> QED BY <3>9, <4>1, <4>2, <5>1
        <4>3. CASE u = c
          <5>1. calls'[u] = <<Block(p)>> /\ FileAt(<<Block(p)>>, k) = NULL /\ u # t
            BY <1>2, <4>3, OneBlock
          <5>2. FileAt(calls[u], k) = NULL
            BY <3>10, <4>3
          <5> QED BY <3>9, <4>1, <5>1, <5>2
        <4>4. CASE u # t /\ u # c
          BY <1>2, <3>9, <4>1, <4>4
        <4> QED BY <4>2, <4>3, <4>4
      <3> QED BY <3>11, <3>12, <3>13, <3>14
    <2> QED BY <1>6, <2>1, HoldsBecomes
  <1>10. ASSUME FileAt(calls[t], n) = NULL
         PROVE  Kept(Holds, G, fd')
    <2>1. /\ Holds[a1] = NULL /\ Holds[a2] = NULL /\ Holds[a3] = NULL /\ Holds[a4] = NULL
          /\ Holds[a5] = NULL
      <3>1. /\ in[c] = NULL /\ out[c] = NULL
            /\ \A d \in Nat : OldAt(saved[c], d) = NULL
        BY FreeFacts
      <3>2. Holds[a1] = NULL /\ Holds[a2] = NULL
        BY <3>1, HoldsAt DEF a1, a2
      <3>3. Holds[a3] = NULL /\ Holds[a4] = NULL
        <4>1. OldAt(saved[c], 1) = NULL /\ OldAt(saved[c], 2) = NULL
          BY <3>1
        <4>2. \A k \in Nat : Holds[<<c, "saved", k>>] = OldAt(saved[c], k)
          BY HoldsAt
        <4> QED BY <4>1, <4>2 DEF a3, a4
      <3>4. Holds[a5] = NULL
        BY <1>10, HoldsAt DEF a5
      <3> QED BY <3>2, <3>3, <3>4
    <2>2. \A a \in Spots : Holds[a] # NULL => G[a] = Holds[a]
      BY <1>7, <2>1
    <2> QED BY <2>2, KeptGrow
  <1> QED BY <1>8, <1>9, <1>10


\* The new stack of the thread that starts c: it may have one call more that waits for c.
WaitsFor(s, v, c, det) ==
    \/ \A d \in Nat : ChildAt(v, d) = ChildAt(s, d)
    \/ ~det /\ \E m \in Nat : \A d \in Nat :
                    ChildAt(v, d) = IF d = m THEN c ELSE ChildAt(s, d)

LEMMA FreeThread ==
    ASSUME IInv, Free # {}, NEW t \in Threads, status[t] = "running"
    PROVE  NewThread \in Threads /\ status[NewThread] = "free" /\ NewThread # t /\ NewThread # Root
  <1>1. NewThread \in Free
    BY DEF NewThread
  <1>2. status[Root] = "running"
    BY DEF IInv, AllAlive
  <1> QED BY <1>1, <1>2 DEF Free

\* The new clone and what its parent makes of the stack, whatever starts it.
StartStep(t, i, o, w, det, p, v, n, h) ==
    /\ t \in Threads /\ status[t] = "running" /\ Free # {}
    /\ i \in Handles \cup {NULL} /\ o \in Handles /\ w \in Seq(Items) /\ Len(w) <= 2
    /\ det \in BOOLEAN /\ p \in Programs /\ v \in Seq(Calls)
    /\ n \in Nat /\ h \in Handles \cup {NULL}
    /\ Start(NewThread, i, o, w, det)
    /\ calls' = [calls EXCEPT ![NewThread] = <<Block(p)>>, ![t] = v]
    /\ RanSet(v) = RanSet(calls[t]) /\ WaitsFor(calls[t], v, NewThread, det)
    /\ \A d \in Nat : FileAt(v, d) = IF d = n THEN h ELSE FileAt(calls[t], d)
    /\ fd' \in Table /\ \A k \in Handles : fd[k] # NoFile => fd'[k] = fd[k]
    /\ Fresh(<<i, o, OldAt(w, 1), OldAt(w, 2), h>>)
    /\ buf' \in [Pipes -> 0 .. Capacity] /\ phase' = phase

LEMMA StartSafe ==
    ASSUME IInv, NEW t, NEW i, NEW o, NEW w, NEW det, NEW p, NEW v, NEW n, NEW h,
           StartStep(t, i, o, w, det, p, v, n, h)
    PROVE  /\ IInv'
           /\ FileAt(calls[t], n) = NULL => Safe
  <1> USE DEF StartStep
  <1> DEFINE c == NewThread
  <1>1. c \in Threads /\ status[c] = "free" /\ c # t /\ c # Root
    BY FreeThread
  <1>2. /\ status' = [status EXCEPT ![c] = "running"]
        /\ detached' = [detached EXCEPT ![c] = det]
        /\ in' = [in EXCEPT ![c] = i] /\ out' = [out EXCEPT ![c] = o]
        /\ saved' = [saved EXCEPT ![c] = w] /\ echoLock' = echoLock
    BY DEF Start
  <1>3. calls' = [calls EXCEPT ![c] = <<Block(p)>>, ![t] = v] /\ WaitsFor(calls[t], v, c, det)
    OBVIOUS
  <1> HIDE DEF c
  <1>4. /\ Exclusive(Holds', fd')
        /\ FileAt(calls[t], n) = NULL => Kept(Holds, Holds', fd')
    <2>1. GrowStep(t, c, i, o, w, p, v, n, h)
      BY <1>1, <1>2, <1>3 DEF GrowStep
    <2> QED BY <2>1, GrowPlaces
  <1>5. /\ Types /\ DOMAIN status = Threads /\ DOMAIN detached = Threads /\ DOMAIN in = Threads
        /\ DOMAIN out = Threads /\ DOMAIN saved = Threads /\ calls \in [Threads -> Seq(Calls)]
        /\ Waits \in [Threads \X Nat -> Threads \cup {NULL}]
    BY HoldsType DEF IInv, Types
  <1>6. \A u \in Threads : calls'[u] = IF u = t THEN v ELSE IF u = c THEN <<Block(p)>> ELSE calls[u]
    BY <1>3, <1>5
  <1>7. \A u \in Threads : /\ status'[u] = IF u = c THEN "running" ELSE status[u]
                           /\ in'[u] = IF u = c THEN i ELSE in[u]
                           /\ out'[u] = IF u = c THEN o ELSE out[u]
                           /\ saved'[u] = IF u = c THEN w ELSE saved[u]
    BY <1>2, <1>5
  <1>8. detached'[c] = det /\ \A u \in Threads \ {c} : detached'[u] = detached[u]
    BY <1>1, <1>2, <1>5, Zenon
  <1>9. Types'
    <2>1. status' \in [Threads -> {"free", "running", "exit", "return", "ended"}]
      BY <1>2, <1>5 DEF Types
    <2>2. detached' \in [Threads -> BOOLEAN]
      BY <1>2, <1>5, Zenon DEF Types
    <2>3. calls' \in [Threads -> Seq(Calls)]
      BY <1>3, <1>5, OneBlock
    <2>4. in' \in [Threads -> Handles \cup {NULL}] /\ out' \in [Threads -> Handles \cup {NULL}]
      BY <1>2, <1>5 DEF Types
    <2>5. saved' \in [Threads -> Seq(Items)]
      BY <1>2, <1>5 DEF Types
    <2>6. echoLock' \in Threads \cup {NULL} /\ phase' \in {"running", "exited", "crashed"}
      BY <1>2, <1>5 DEF Types
    <2> QED BY <2>1, <2>2, <2>3, <2>4, <2>5, <2>6 DEF Types, Table
  <1>10. AllAlive'
    <2>1. ASSUME NEW u \in Threads
          PROVE  Alive(u)'
      <3>1. Alive(u)
        BY DEF IInv, AllAlive
      <3>2. CASE u = t
        BY <1>1, <1>6, <1>7, <3>1, <3>2 DEF Alive
      <3>3. CASE u = c
        <4>1. calls'[u] = <<Block(p)>> /\ saved'[u] = w
          BY <1>1, <1>6, <1>7, <3>3
        <4>2. RanSet(<<Block(p)>>) = {}
          BY OneBlock
        <4>5. Cardinality(RanSet(<<Block(p)>>)) = 0
          BY <4>2, EmptyStack, Zenon
        <4>4. Cardinality(RanSet(<<Block(p)>>)) <= Len(w)
          BY <4>5
        <4>3. status'[u] = "running" /\ out'[u] # NULL
          BY <1>7, <3>3, HandlesAssumption
        <4> QED BY <4>1, <4>3, <4>4 DEF Alive
      <3>4. CASE u # t /\ u # c
        BY <1>6, <1>7, <3>1, <3>4, AliveSame
      <3> QED BY <3>2, <3>3, <3>4
    <2>2. status'[Root] = "running"
      BY <1>1, <1>7, ThreadsAssumption DEF IInv, AllAlive
    <2> QED BY <2>1, <2>2 DEF AllAlive
  <1>11. \A d \in Nat : ChildAt(calls[c], d) = NULL /\ ChildAt(<<Block(p)>>, d) = NULL
    BY <1>1, FreeFacts, OneBlock
  <1>12. Joinable(Waits, status, detached)
    BY DEF IInv
  <1>13. Joinable(Waits', status', detached')
    <2>1. CASE \A d \in Nat : ChildAt(v, d) = ChildAt(calls[t], d)
      <3>1. Waits' = Waits
        <4>1. ASSUME NEW u \in Threads, NEW k \in Nat
              PROVE  Waits[<<u, k>>] = ChildAt(calls'[u], k)
          <5>1. Waits[<<u, k>>] = ChildAt(calls[u], k)
            BY WaitsAt
          <5>2. CASE u = t
            BY <1>6, <2>1, <5>1, <5>2
          <5>3. CASE u = c
            BY <1>1, <1>6, <1>11, <5>1, <5>3
          <5>4. CASE u # t /\ u # c
            BY <1>6, <5>1, <5>4
          <5> QED BY <5>2, <5>3, <5>4
        <4> QED BY <1>5, <4>1, WaitsBecomes
      <3>2. ASSUME NEW a \in Threads \X Nat, Waits[a] # NULL
            PROVE  status'[Waits[a]] # "free" /\ ~detached'[Waits[a]]
        <4>1. status[Waits[a]] # "free" /\ ~detached[Waits[a]] /\ Waits[a] \in Threads
          BY <1>5, <1>12, <3>2 DEF Joinable
        <4>2. Waits[a] # c
          BY <1>1, <4>1
        <4>3. status'[Waits[a]] # "free"
          BY <1>7, <4>1, <4>2
        <4>4. ~detached'[Waits[a]]
          BY <1>8, <4>1, <4>2, Zenon
        <4> QED BY <4>3, <4>4
      <3> QED BY <1>5, <1>12, <3>1, <3>2, JoinableSub
    <2>2. ASSUME ~det, NEW m \in Nat,
                 \A d \in Nat : ChildAt(v, d) = IF d = m THEN c ELSE ChildAt(calls[t], d)
          PROVE  Joinable(Waits', status', detached')
      <3> DEFINE L == [Waits EXCEPT ![<<t, m>>] = c]
      <3>1. <<t, m>> \in Threads \X Nat /\ <<t, m>>[1] = t
        OBVIOUS
      <3>2. /\ L \in [Threads \X Nat -> Threads \cup {NULL}]
            /\ \A a \in Threads \X Nat : L[a] = IF a = <<t, m>> THEN c ELSE Waits[a]
        BY <1>1, <1>5
      <3>3. Joinable(L, status', detached')
        <4>1. status'[c] # "free" /\ \A u \in Threads \ {c} : status'[u] = status[u]
          BY <1>1, <1>7
        <4>2. ~detached'[c]
          BY <1>8, <2>2, Zenon
        <4>3. \A u \in Threads \ {c} : detached'[u] = detached[u]
          BY <1>8
        <4>4. \A u \in Threads \ {c} : status'[u] = status[u] /\ detached'[u] = detached[u]
          BY <4>1, <4>3, Zenon
        <4>5. c \notin {<<t, m>>[1], Root}
          BY <1>1, <3>1
        <4>6. JoinStep(Waits, status, detached, <<t, m>>, c, status', detached')
          BY <1>1, <1>5, <1>12, <3>1, <4>1, <4>2, <4>4, <4>5, Zenon DEF JoinStep
        <4> QED BY <4>6, JoinableNew
      <3> HIDE DEF L
      <3>4. ASSUME NEW u \in Threads, NEW k \in Nat
            PROVE  L[<<u, k>>] = ChildAt(calls'[u], k)
        <4>1. /\ <<u, k>> \in Threads \X Nat /\ Waits[<<u, k>>] = ChildAt(calls[u], k)
              /\ <<u, k>> = <<t, m>> <=> u = t /\ k = m
          BY WaitsAt
        <4>2. L[<<u, k>>] = IF u = t /\ k = m THEN c ELSE ChildAt(calls[u], k)
          BY <3>2, <4>1
        <4> QED BY <1>6, <1>11, <2>2, <4>2
      <3>5. Waits' = L
        BY <3>2, <3>4, WaitsBecomes
      <3> QED BY <3>3, <3>5
    <2> QED BY <1>3, <2>1, <2>2 DEF WaitsFor
  <1>14. IInv'
    BY <1>4, <1>9, <1>10, <1>13 DEF IInv
  <1> QED BY <1>4, <1>14 DEF Safe


LEMMA InFacts ==
    ASSUME IInv, NEW t \in Threads, in[t] # NULL
    PROVE  in[t] \in Handles /\ fd[in[t]] # NoFile /\ fd[in[t]] \in File
  <1>1. in[t] \in Handles /\ fd \in [Handles -> File]
    BY DEF IInv, Types
  <1>2. Holds[<<t, "in", 0>>] = in[t] /\ <<t, "in", 0>> \in Spots
    BY HoldsAt
  <1> QED BY <1>1, <1>2 DEF IInv, Exclusive

LEMMA PushWaiting ==
    ASSUME NEW s \in Seq(Calls), NEW u \in Seq(Calls), Alike(s, u), NEW c \in Threads
    PROVE  LET v == <<Waiting(c)>> \o u
               n == Len(u) + 1
           IN  /\ v \in Seq(Calls) /\ RanSet(v) = RanSet(s) /\ n \in Nat
               /\ \A d \in Nat : /\ FileAt(v, d) = FileAt(s, d)
                                 /\ ChildAt(v, d) = IF d = n THEN c ELSE ChildAt(s, d)
  <1> DEFINE f == Waiting(c)
             v == <<f>> \o u
             n == Len(u) + 1
  <1>1. f \in Calls /\ f.file = NULL /\ f.child = c /\ ~HasRun(f)
    BY WaitingType
  <1> HIDE DEF f
  <1>2. v \in Seq(Calls) /\ n \in Nat
    BY <1>1, PushCall
  <1>3. RanSet(v) = RanSet(u)
    BY <1>1, PushCall
  <1>4. \A d \in Nat : FileAt(v, d) = IF d = n THEN NULL ELSE FileAt(u, d)
    BY <1>1, PushCall
  <1>5. \A d \in Nat : ChildAt(v, d) = IF d = n THEN c ELSE ChildAt(u, d)
    BY <1>1, PushCall
  <1>6. FileAt(u, n) = NULL
    BY <1>1, PushCall
  <1> HIDE DEF v, n
  <1>7. ASSUME NEW d \in Nat
        PROVE  FileAt(v, d) = FileAt(s, d) /\ ChildAt(v, d) = IF d = n THEN c ELSE ChildAt(s, d)
    <2>1. FileAt(u, d) = FileAt(s, d) /\ ChildAt(u, d) = ChildAt(s, d)
      BY DEF Alike
    <2> QED BY <1>4, <1>5, <1>6, <2>1
  <1>8. RanSet(v) = RanSet(s)
    BY <1>3 DEF Alike
  <1> QED BY <1>2, <1>7, <1>8 DEF v, n, f

LEMMA CloneInstanceSafe ==
    ASSUME IInv, NEW t \in Threads, CloneInstance(t)
    PROVE  Safe
  <1> DEFINE c == NewThread
             i == DupIn({})
             o == DupOut({})
             s == calls[t]
             p == Arg(t, 1)
             det == AtCommand(t, {"start"})
             v == IF det THEN Rest(t) ELSE <<Waiting(c)>> \o Rest(t)
             n == Len(s) + 1
  <1>1. /\ status[t] = "running" /\ s \in Seq(Calls) /\ out[t] \in Handles /\ fd[out[t]] # NoFile
        /\ Alike(s, Rest(t)) /\ Rest(t) \in Seq(Calls)
    BY CommandFacts DEF CloneInstance
  <1>2. p \in Programs
    <2> DEFINE k == Head(Top(t).code)
    <2>1. k.progs \in Seq(Programs) /\ GoodCommand(k) /\ k.op \in {"batch", "start", "wait"}
      BY CommandFacts DEF CloneInstance
    <2>2. Len(k.progs) = 1
      BY <2>1 DEF GoodCommand
    <2> HIDE DEF k
    <2>3. k.progs[1] \in Programs
      BY <2>1, <2>2
    <2> QED BY <2>3 DEF Arg, k
  <1>3. in[t] \in Handles /\ fd[in[t]] # NoFile /\ fd[in[t]] \in File
    BY InFacts DEF CloneInstance
  <1>4. Free # {} /\ c \in Threads
    <2>1. Free # {}
      BY DEF CloneInstance, CanClone
    <2> QED BY <1>1, <2>1, FreeThread
  <1>5. i \in Closed /\ o \in Closed /\ i # o
    BY TwoClosed DEF CloneInstance, CanClone
  <1>6. /\ fd' = [fd EXCEPT ![i] = fd[in[t]], ![o] = fd[out[t]]]
        /\ Start(c, i, o, <<>>, det)
        /\ calls' = [calls EXCEPT ![c] = <<Block(p)>>, ![t] = v]
        /\ buf' = buf /\ phase' = phase
    BY DEF CloneInstance
  <1>7. fd \in Table /\ buf' \in [Pipes -> 0 .. Capacity]
    BY <1>6 DEF IInv, Types, Table
  <1>8. /\ v \in Seq(Calls) /\ RanSet(v) = RanSet(s) /\ WaitsFor(s, v, c, det)
        /\ \A d \in Nat : FileAt(v, d) = FileAt(s, d)
    <2>1. CASE det
      BY <1>1, <2>1 DEF Alike, WaitsFor
    <2>2. CASE ~det
      <3> DEFINE m == Len(Rest(t)) + 1
      <3>1. v = <<Waiting(c)>> \o Rest(t)
        BY <2>2
      <3> HIDE DEF v, s, det, c
      <3>2. v \in Seq(Calls) /\ RanSet(v) = RanSet(s) /\ m \in Nat
        BY <1>1, <1>4, <3>1, PushWaiting
      <3>3. \A d \in Nat : FileAt(v, d) = FileAt(s, d)
        BY <1>1, <1>4, <3>1, PushWaiting
      <3>4. \A d \in Nat : ChildAt(v, d) = IF d = m THEN c ELSE ChildAt(s, d)
        BY <1>1, <1>4, <3>1, PushWaiting
      <3> QED BY <2>2, <3>2, <3>3, <3>4 DEF WaitsFor
    <2> QED BY <2>1, <2>2
  <1>9. det \in BOOLEAN
    BY DEF AtCommand, Running
  <1>10. n \in Nat /\ FileAt(s, n) = NULL
    BY <1>1 DEF FileAt
  <1> HIDE DEF c, i, o, p, det, v, n
  <1>11. \A d \in Nat : FileAt(v, d) = IF d = n THEN NULL ELSE FileAt(s, d)
    BY <1>8, <1>10
  <1>12. /\ i \in Handles /\ o \in Handles /\ fd[i] = NoFile /\ fd[o] = NoFile
    BY <1>5 DEF Closed
  <1>13. /\ fd' \in Table /\ fd'[i] = fd[in[t]] /\ fd'[o] = fd[out[t]]
         /\ \A k \in Handles : fd[k] # NoFile => fd'[k] = fd[k]
    BY <1>1, <1>3, <1>5, <1>6, <1>7, <1>12 DEF Table
  <1>14. Fresh(<<i, o, OldAt(<<>>, 1), OldAt(<<>>, 2), NULL>>)
    <2>1. OldAt(<<>>, 1) = NULL /\ OldAt(<<>>, 2) = NULL
      BY EmptyStack
    <2> QED BY <1>1, <1>3, <1>5, <1>12, <1>13, <2>1 DEF Fresh
  <1>15. <<>> \in Seq(Items) /\ Len(<<>>) <= 2
    OBVIOUS
  <1>16. StartStep(t, i, o, <<>>, det, p, v, n, NULL)
    BY <1>1, <1>2, <1>4, <1>6, <1>7, <1>8, <1>9, <1>10, <1>11, <1>12, <1>13, <1>14, <1>15
       DEF StartStep, c
  <1> QED BY <1>10, <1>16, StartSafe


\* The descriptors of a clone with a pipe: four that were closed, and no others, are opened.
Opened(r, w, i, o) ==
    /\ \A h \in {r, w, i, o} : h \in Handles /\ fd[h] = NoFile /\ fd'[h] # NoFile
    /\ r # w /\ r # i /\ r # o /\ w # i /\ w # o /\ i # o
    /\ fd' \in Table /\ \A h \in Handles : fd[h] # NoFile => fd'[h] = fd[h]

LEMMA WithPipeFacts ==
    ASSUME IInv, NEW t \in Threads, in[t] # NULL, out[t] \in Handles, fd[out[t]] # NoFile,
           WithPipe(t)
    PROVE  /\ Opened(PipeR, PipeW, SavedIn.old, SavedOut.old)
           /\ Free # {} /\ buf' \in [Pipes -> 0 .. Capacity]
           /\ SavedIn \in Items /\ SavedOut \in Items
  <1> DEFINE r == PipeR
             w == PipeW
             i == DupIn({PipeR, PipeW})
             o == DupOut({PipeR, PipeW})
             p == NewPipe
  <1>1. in[t] \in Handles /\ fd[in[t]] # NoFile /\ fd[in[t]] \in File
    BY InFacts
  <1>2. /\ Cardinality(Closed) >= 4 /\ Free # {}
        /\ \E x \in Pipes : Writers(x) \cup Readers(x) = {}
        /\ fd' = [fd EXCEPT ![r] = End(p, "r"), ![w] = End(p, "w"), ![i] = fd[in[t]], ![o] = fd[out[t]]]
        /\ buf' = [buf EXCEPT ![p] = 0]
    BY DEF WithPipe, CanCloneWithPipe
  <1>3. p \in Pipes
    BY <1>2 DEF NewPipe
  <1>4. /\ r \in Closed /\ w \in Closed /\ i \in Closed /\ o \in Closed
        /\ r # w /\ r # i /\ r # o /\ w # i /\ w # o /\ i # o
    <2>1. /\ PipeR \in Closed /\ PipeW \in Closed \ {PipeR}
          /\ DupIn({PipeR, PipeW}) \in Closed \ {PipeR, PipeW}
          /\ DupOut({PipeR, PipeW}) \in Closed \ ({PipeR, PipeW} \cup {DupIn({PipeR, PipeW})})
      BY <1>2, FourClosed
    <2> QED BY <2>1
  <1>5. SavedIn = [chan |-> "in", old |-> i] /\ SavedOut = [chan |-> "out", old |-> o]
    BY DEF SavedIn, SavedOut
  <1> HIDE DEF r, w, i, o, p
  <1>6. \A h \in {r, w, i, o} : h \in Handles /\ fd[h] = NoFile
    BY <1>4 DEF Closed
  <1>7. /\ End(p, "r") \in File /\ End(p, "r") # NoFile
        /\ End(p, "w") \in File /\ End(p, "w") # NoFile
    BY <1>3 DEF End, NoFile, File
  <1>8. fd \in Table /\ fd[out[t]] \in File /\ buf \in [Pipes -> 0 .. Capacity]
    BY DEF IInv, Types, Table
  <1>9. fd' \in Table
    BY <1>1, <1>2, <1>7, <1>8 DEF Table
  <1>10. \A h \in Handles : fd'[h] = IF h = o THEN fd[out[t]] ELSE IF h = i THEN fd[in[t]]
                                     ELSE IF h = w THEN End(p, "w") ELSE IF h = r THEN End(p, "r")
                                     ELSE fd[h]
    BY <1>2, <1>8 DEF Table
  <1>11. Opened(r, w, i, o)
    BY <1>1, <1>4, <1>6, <1>7, <1>9, <1>10 DEF Opened
  <1>12. buf' \in [Pipes -> 0 .. Capacity]
    <2>1. 0 \in 0 .. Capacity
      BY CapacityAssumption
    <2> QED BY <1>2, <1>8, <2>1
  <1>13. SavedIn \in Items /\ SavedOut \in Items
    BY <1>5, <1>6, HandlesAssumption DEF Items, Item, GoodItem
  <1>14. SavedIn.old = i /\ SavedOut.old = o
    BY <1>5
  <1> QED BY <1>2, <1>11, <1>12, <1>13, <1>14 DEF r, w

LEMMA ItemsAt ==
    ASSUME NEW a, NEW b
    PROVE  /\ Len(<<a>>) = 1 /\ OldAt(<<a>>, 1) = a.old /\ OldAt(<<a>>, 2) = NULL
           /\ Len(<<a, b>>) = 2 /\ OldAt(<<a, b>>, 1) = b.old /\ OldAt(<<a, b>>, 2) = a.old
  BY DEF OldAt, At

LEMMA CmdForFSafe ==
    ASSUME IInv, NEW t \in Threads, CmdForF(t)
    PROVE  Safe
  <1> DEFINE c == NewThread
             s == calls[t]
             p == Arg(t, 1)
             q == Arg(t, 2)
             r == PipeR
             w == PipeW
             i == SavedIn.old
             o == SavedOut.old
             f == Reading(q, r, c)
             u == Rest(t)
             v == <<f>> \o u
             n == Len(u) + 1
  <1>1. /\ status[t] = "running" /\ s \in Seq(Calls) /\ out[t] \in Handles /\ fd[out[t]] # NoFile
        /\ Alike(s, u) /\ u \in Seq(Calls)
    BY CommandFacts DEF CmdForF
  <1>2. p \in Programs /\ q \in Programs
    <2> DEFINE k == Head(Top(t).code)
    <2>1. k.progs \in Seq(Programs) /\ GoodCommand(k) /\ k.op \in {"for"}
      BY CommandFacts DEF CmdForF
    <2>2. Len(k.progs) = 2
      BY <2>1 DEF GoodCommand
    <2> HIDE DEF k
    <2>3. k.progs[1] \in Programs /\ k.progs[2] \in Programs
      BY <2>1, <2>2
    <2> QED BY <2>3 DEF Arg, k
  <1>3. /\ Opened(r, w, i, o) /\ Free # {} /\ buf' \in [Pipes -> 0 .. Capacity]
        /\ SavedOut \in Items
    BY <1>1, WithPipeFacts DEF CmdForF
  <1>4. c \in Threads
    BY <1>1, <1>3, FreeThread
  <1>5. /\ Start(c, i, w, <<SavedOut>>, FALSE)
        /\ calls' = [calls EXCEPT ![c] = <<Block(p)>>, ![t] = v]
        /\ phase' = phase
    BY DEF CmdForF
  <1> HIDE DEF c, p, q, r, w, i, u
  <1>6. r \in Handles
    BY <1>3 DEF Opened
  <1>7. f \in Calls /\ f.file = r /\ f.child = c /\ ~HasRun(f)
    BY <1>2, <1>4, <1>6, ReadingType
  <1> HIDE DEF f
  <1>8. /\ v \in Seq(Calls) /\ n \in Nat /\ RanSet(v) = RanSet(u)
        /\ FileAt(u, n) = NULL
    BY <1>1, <1>7, PushCall
  <1>9. \A d \in Nat : FileAt(v, d) = IF d = n THEN f.file ELSE FileAt(u, d)
    BY <1>1, <1>7, PushCall
  <1>10. \A d \in Nat : ChildAt(v, d) = IF d = n THEN f.child ELSE ChildAt(u, d)
    BY <1>1, <1>7, PushCall
  <1> HIDE DEF v, n
  <1>11. /\ \A d \in Nat : FileAt(v, d) = IF d = n THEN r ELSE FileAt(s, d)
         /\ \A d \in Nat : ChildAt(v, d) = IF d = n THEN c ELSE ChildAt(s, d)
         /\ RanSet(v) = RanSet(s) /\ FileAt(s, n) = NULL
    BY <1>1, <1>7, <1>8, <1>9, <1>10 DEF Alike
  <1>12. WaitsFor(s, v, c, FALSE)
    BY <1>8, <1>11 DEF WaitsFor
  <1>13. Fresh(<<i, w, OldAt(<<SavedOut>>, 1), OldAt(<<SavedOut>>, 2), r>>)
    <2>1. OldAt(<<SavedOut>>, 1) = o /\ OldAt(<<SavedOut>>, 2) = NULL
      BY ItemsAt
    <2> HIDE DEF o
    <2> QED BY <1>3, <2>1, HandlesAssumption DEF Fresh, Opened
  <1>14. <<SavedOut>> \in Seq(Items) /\ Len(<<SavedOut>>) <= 2
    BY <1>3
  <1>15. /\ i \in Handles /\ w \in Handles /\ fd' \in Table
         /\ \A h \in Handles : fd[h] # NoFile => fd'[h] = fd[h]
    BY <1>3 DEF Opened
  <1>16. StartStep(t, i, w, <<SavedOut>>, FALSE, p, v, n, r)
    BY <1>1, <1>2, <1>3, <1>5, <1>6, <1>8, <1>11, <1>12, <1>13, <1>14, <1>15
       DEF StartStep, c
  <1> QED BY <1>11, <1>16, StartSafe


LEMMA LaunchStack ==
    ASSUME NEW s \in Seq(Calls), s # <<>>, NEW f, f = Head(s), f.fn = "ExecOperators",
           f.pc = "next", Len(f.progs) > 1, NEW r \in Handles
    PROVE  LET v == [s EXCEPT ![1] = SetStages(f, Tail(f.progs), r)]
               n == Len(s)
           IN  /\ v \in Seq(Calls) /\ n \in Nat /\ RanSet(v) = RanSet(s)
               /\ FileAt(s, n) = f.file /\ Head(f.progs) \in Programs
               /\ \A d \in Nat : /\ FileAt(v, d) = IF d = n THEN r ELSE FileAt(s, d)
                                 /\ ChildAt(v, d) = ChildAt(s, d)
  <1> DEFINE g == SetStages(f, Tail(f.progs), r)
             v == [s EXCEPT ![1] = g]
             n == Len(s)
  <1>1. f \in Calls
    BY PopCall
  <1>2. Tail(f.progs) \in Seq(Programs) /\ Head(f.progs) \in Programs
    BY <1>1, TopType
  <1>3. g = [fn |-> f.fn, pc |-> f.pc, code |-> f.code, progs |-> Tail(f.progs),
             file |-> r, child |-> f.child]
    BY <1>1, PipeFrameSet
  <1>4. g \in Calls
    <2>1. /\ f.code \in Seq(GoodCommands) /\ f.child \in Threads \cup {NULL}
          /\ f.fn \in Functions /\ f.pc \in {"next", "ran"}
      BY <1>1, TopType
    <2>2. r \in Handles \cup {NULL}
      OBVIOUS
    <2> HIDE DEF g
    <2> QED BY <1>2, <1>3, <2>1, <2>2, FrameType
  <1>5. g.file = r /\ g.child = f.child /\ ~HasRun(g)
    BY <1>3 DEF HasRun
  <1> HIDE DEF g
  <1>6. v \in Seq(Calls) /\ n \in Nat \ {0} /\ RanSet(v) = RanSet(s) \ {n}
    BY <1>4, <1>5, ChangeCall
  <1>7. \A d \in Nat : FileAt(v, d) = IF d = n THEN g.file ELSE FileAt(s, d)
    BY <1>4, ChangeCall
  <1>8. \A d \in Nat : ChildAt(v, d) = IF d = n THEN g.child ELSE ChildAt(s, d)
    BY <1>4, ChangeCall
  <1>9. /\ n \in RanSet(s) <=> HasRun(f)
        /\ FileAt(s, n) = f.file /\ ChildAt(s, n) = f.child
    BY PopCall
  <1> HIDE DEF v, n
  <1>10. n \notin RanSet(s)
    BY <1>9 DEF HasRun
  <1>11. RanSet(v) = RanSet(s)
    BY <1>6, <1>10
  <1>12. ASSUME NEW d \in Nat
         PROVE  FileAt(v, d) = IF d = n THEN r ELSE FileAt(s, d)
    BY <1>5, <1>7
  <1>13. ASSUME NEW d \in Nat
         PROVE  ChildAt(v, d) = ChildAt(s, d)
    BY <1>5, <1>8, <1>9
  <1> QED BY <1>2, <1>6, <1>9, <1>11, <1>12, <1>13 DEF v, n, g

\* The two updates of a stack at once.
Launched(t, c, b, r) == [calls EXCEPT ![c] = b, ![t][1].progs = Tail(@), ![t][1].file = r]
StartedCalls(t, c, b, v) == [calls EXCEPT ![c] = b, ![t] = v]

LEMMA LaunchCalls ==
    ASSUME NEW t \in Threads, calls \in [Threads -> Seq(Calls)], NEW c \in Threads, c # t, NEW b, NEW r,
           calls[t] # <<>>
    PROVE  Launched(t, c, b, r)
            = StartedCalls(t, c, b, [calls[t] EXCEPT ![1] = SetStages(Top(t), Tail(Top(t).progs), r)])
  <1> DEFINE s == calls[t]
             f == s[1]
             A == [calls EXCEPT ![c] = b]
             v1 == [s EXCEPT ![1].progs = Tail(@)]
             v2 == [v1 EXCEPT ![1].file = r]
  <1>1. DOMAIN calls = Threads /\ s \in Seq(Calls) /\ 1 \in DOMAIN s /\ f \in Calls
    BY PopCall
  <1>2. f = Top(t)
    BY <1>1 DEF Top
  <1>3. v1 = [s EXCEPT ![1] = [f EXCEPT !.progs = Tail(f.progs)]]
    BY Zenon
  <1>4. v1[1] = [f EXCEPT !.progs = Tail(f.progs)]
    BY <1>1, <1>3
  <1>5. v2 = [s EXCEPT ![1] = SetStages(f, Tail(f.progs), r)]
    <2> DEFINE f1 == [f EXCEPT !.progs = Tail(f.progs)]
               f2 == [f1 EXCEPT !.file = r]
    <2>1. f2 = SetStages(f, Tail(f.progs), r)
      BY DEF SetStages
    <2>2. v1 = [s EXCEPT ![1] = f1] /\ v1[1] = f1
      BY <1>3, <1>4
    <2>3. v2 = [v1 EXCEPT ![1] = [v1[1] EXCEPT !.file = r]]
      BY Zenon
    <2> HIDE DEF f1, f, v1
    <2>4. v2 = [v1 EXCEPT ![1] = f2]
      BY <2>2, <2>3
    <2> HIDE DEF f2, s
    <2>5. [[s EXCEPT ![1] = f1] EXCEPT ![1] = f2] = [s EXCEPT ![1] = f2]
      BY <1>1
    <2> QED BY <2>1, <2>2, <2>4, <2>5
  <1> HIDE DEF f
  <1>6. [calls EXCEPT ![c] = b, ![t][1].progs = Tail(@), ![t][1].file = r] = [A EXCEPT ![t] = v2]
    <2> DEFINE A1 == [A EXCEPT ![t][1].progs = Tail(@)]
    <2>1. A[t] = s /\ DOMAIN A = Threads
      BY <1>1
    <2>2. A1 = [A EXCEPT ![t] = v1]
      <3>1. A1 = [A EXCEPT ![t] = [A[t] EXCEPT ![1].progs = Tail(@)]]
        BY Zenon
      <3> HIDE DEF A
      <3> QED BY <2>1, <3>1, Zenon
    <2>3. [A1 EXCEPT ![t][1].file = r] = [A1 EXCEPT ![t] = [A1[t] EXCEPT ![1].file = r]]
      BY Zenon
    <2> DEFINE D == [A1 EXCEPT ![t][1].file = r]
    <2>4. D = [calls EXCEPT ![c] = b, ![t][1].progs = Tail(@), ![t][1].file = r]
      BY Zenon
    <2> HIDE DEF A1, A, v1
    <2>5. A1[t] = v1 /\ DOMAIN A1 = Threads
      BY <2>1, <2>2
    <2>6. D = [A1 EXCEPT ![t] = v2]
      BY <2>3, <2>5, Zenon
    <2> HIDE DEF v2, D
    <2>7. D = [A EXCEPT ![t] = v2]
      BY <2>1, <2>2, <2>6
    <2> QED BY <2>4, <2>7 DEF A
  <1> QED BY <1>2, <1>5, <1>6 DEF Launched, StartedCalls


LEMMA LaunchPipeInv ==
    ASSUME IInv, NEW t \in Threads, LaunchPipe(t)
    PROVE  /\ IInv'
           /\ Top(t).file = NULL => Safe
  <1> DEFINE c == NewThread
             s == calls[t]
             f == Top(t)
             p == Head(f.progs)
             r == PipeR
             w == PipeW
             i == SavedIn.old
             o == SavedOut.old
             v == [s EXCEPT ![1] = SetStages(f, Tail(f.progs), r)]
             n == Len(s)
  <1>1. /\ status[t] = "running" /\ s \in Seq(Calls) /\ s # <<>>
        /\ out[t] \in Handles /\ fd[out[t]] # NoFile
        /\ f = Head(s) /\ f.fn = "ExecOperators" /\ f.pc = "next" /\ Len(f.progs) > 1
    <2>1. Running(t, "ExecOperators", "next")
      BY DEF LaunchPipe
    <2>2. Len(f.progs) > 1
      BY DEF LaunchPipe
    <2> QED BY <2>1, <2>2, RunsFacts
  <1>2. /\ Opened(r, w, i, o) /\ Free # {} /\ buf' \in [Pipes -> 0 .. Capacity]
        /\ SavedIn \in Items /\ SavedOut \in Items
    BY <1>1, WithPipeFacts DEF LaunchPipe
  <1>3. c \in Threads /\ c # t
    BY <1>1, <1>2, FreeThread
  <1>4. phase' = phase
    BY DEF LaunchPipe
  <1>5. calls' = [calls EXCEPT ![c] = <<Block(p)>>, ![t] = v]
    <2>1. calls' = [calls EXCEPT ![c] = <<Block(p)>>, ![t][1].progs = Tail(@), ![t][1].file = r]
      BY DEF LaunchPipe
    <2>2. calls \in [Threads -> Seq(Calls)]
      BY DEF IInv, Types
    <2> DEFINE b == <<Block(p)>>
    <2> HIDE DEF c, b, r
    <2>3. Launched(t, c, b, r) = StartedCalls(t, c, b, v)
      BY <1>1, <1>3, <2>2, LaunchCalls
    <2> QED BY <2>1, <2>3, Zenon DEF b, Launched, StartedCalls
  <1>6. r \in Handles /\ w \in Handles /\ i \in Handles /\ fd' \in Table
        /\ \A h \in Handles : fd[h] # NoFile => fd'[h] = fd[h]
    BY <1>2 DEF Opened
  <1>7. IF f.file = NULL THEN Start(c, NULL, w, <<SavedIn, SavedOut>>, TRUE)
                         ELSE Start(c, i, w, <<SavedOut>>, TRUE)
    BY DEF LaunchPipe
  <1> HIDE DEF c, r, w, i
  <1>8. /\ v \in Seq(Calls) /\ n \in Nat /\ RanSet(v) = RanSet(s)
        /\ FileAt(s, n) = f.file /\ p \in Programs
    BY <1>1, <1>6, LaunchStack
  <1>9. \A d \in Nat : FileAt(v, d) = IF d = n THEN r ELSE FileAt(s, d)
    BY <1>1, <1>6, LaunchStack
  <1>10. \A d \in Nat : ChildAt(v, d) = ChildAt(s, d)
    BY <1>1, <1>6, LaunchStack
  <1> HIDE DEF v, n, p, f
  <1>11. WaitsFor(s, v, c, TRUE)
    BY <1>10 DEF WaitsFor
  <1>12. CASE f.file = NULL
    <2> DEFINE its == <<SavedIn, SavedOut>>
    <2>1. Start(c, NULL, w, its, TRUE)
      BY <1>7, <1>12
    <2>2. its \in Seq(Items) /\ Len(its) <= 2
      BY <1>2
    <2>3. OldAt(its, 1) = o /\ OldAt(its, 2) = SavedIn.old
      BY ItemsAt
    <2> HIDE DEF its, o
    <2>4. Fresh(<<NULL, w, OldAt(its, 1), OldAt(its, 2), r>>)
      BY <1>2, <2>3, HandlesAssumption DEF Fresh, Opened, i
    <2>5. StartStep(t, NULL, w, its, TRUE, p, v, n, r)
      BY <1>1, <1>2, <1>4, <1>5, <1>6, <1>8, <1>9, <1>11, <2>1, <2>2, <2>4 DEF StartStep, c
    <2>6. IInv' /\ (FileAt(s, n) = NULL => Safe)
      BY <2>5, StartSafe
    <2> QED BY <1>8, <2>6 DEF f
  <1>13. CASE f.file # NULL
    <2> DEFINE its == <<SavedOut>>
    <2>1. Start(c, i, w, its, TRUE)
      BY <1>7, <1>13
    <2>2. its \in Seq(Items) /\ Len(its) <= 2
      BY <1>2
    <2>3. OldAt(its, 1) = o /\ OldAt(its, 2) = NULL
      BY ItemsAt
    <2> HIDE DEF its, o
    <2>4. Fresh(<<i, w, OldAt(its, 1), OldAt(its, 2), r>>)
      BY <1>2, <2>3, HandlesAssumption DEF Fresh, Opened, i
    <2>5. StartStep(t, i, w, its, TRUE, p, v, n, r)
      BY <1>1, <1>2, <1>4, <1>5, <1>6, <1>8, <1>9, <1>11, <2>1, <2>2, <2>4 DEF StartStep, c
    <2>6. IInv'
      BY <2>5, StartSafe
    <2> QED BY <1>13, <2>6 DEF f
  <1> QED BY <1>12, <1>13

-----------------------------------------------------------------------------
(* The invariant holds at the beginning, and every step keeps it. *)

LEMMA InitInv == Init => IInv
  <1> SUFFICES ASSUME Init
               PROVE  IInv
    OBVIOUS
  <1>1. PICK s \in Scripts : calls = [t \in Threads |-> IF t = Root THEN <<Block(s)>> ELSE <<>>]
    BY DEF Init
  <1>2. s \in Programs /\ Root \in Threads
    BY ProgramsAssumption, ThreadsAssumption
  <1>3. /\ <<Block(s)>> \in Seq(Calls) /\ RanSet(<<Block(s)>>) = {}
        /\ \A d \in Nat : FileAt(<<Block(s)>>, d) = NULL /\ ChildAt(<<Block(s)>>, d) = NULL
    BY <1>2, OneBlock
  <1>4. /\ RanSet(<<>>) = {} /\ Cardinality({}) = 0 /\ <<>> \in Seq(Calls) /\ <<>> \in Seq(Items)
        /\ \A d \in Nat : FileAt(<<>>, d) = NULL /\ ChildAt(<<>>, d) = NULL /\ OldAt(<<>>, d) = NULL
    BY EmptyStack
  <1>5. /\ \A t \in Threads : /\ in[t] = IF t = Root THEN Stdin ELSE NULL
                              /\ out[t] = IF t = Root THEN Stdout ELSE NULL
                              /\ status[t] = IF t = Root THEN "running" ELSE "free"
                              /\ saved[t] = <<>>
        /\ \A t \in Threads : calls[t] = IF t = Root THEN <<Block(s)>> ELSE <<>>
    BY <1>1 DEF Init
  <1>6. /\ Stdin \in Handles /\ Stdout \in Handles /\ Stdin # Stdout
        /\ Stdin # NULL /\ Stdout # NULL
    BY HandlesAssumption DEF Stdin, Stdout
  <1>7. /\ fd \in Table /\ fd[Stdin] # NoFile /\ fd[Stdout] # NoFile
    <2>1. End(NULL, "r") \in File /\ End(NULL, "w") \in File /\ NoFile \in File
      BY DEF End, File, NoFile
    <2>2. End(NULL, "r") # NoFile /\ End(NULL, "w") # NoFile
      BY DEF End, NoFile
    <2>3. fd = [h \in Handles |-> CASE h = Stdin -> End(NULL, "r") [] h = Stdout -> End(NULL, "w")
                              [] OTHER -> NoFile]
      BY DEF Init
    <2> QED BY <1>6, <2>1, <2>2, <2>3 DEF Table
  <1>8. Types
    <2>1. status \in [Threads -> {"free", "running", "exit", "return", "ended"}]
      BY DEF Init
    <2>2. detached \in [Threads -> BOOLEAN]
      BY DEF Init
    <2>3. calls \in [Threads -> Seq(Calls)]
      BY <1>1, <1>3, <1>4
    <2>4. in \in [Threads -> Handles \cup {NULL}] /\ out \in [Threads -> Handles \cup {NULL}]
      BY <1>6 DEF Init
    <2>5. saved \in [Threads -> Seq(Items)]
      BY <1>4 DEF Init
    <2>6. buf \in [Pipes -> 0 .. Capacity]
      BY CapacityAssumption DEF Init
    <2>7. echoLock \in Threads \cup {NULL} /\ phase \in {"running", "exited", "crashed"}
      BY DEF Init
    <2> QED BY <1>7, <2>1, <2>2, <2>3, <2>4, <2>5, <2>6, <2>7 DEF Types, Table
  <1>9. AllAlive
    <2>1. ASSUME NEW t \in Threads
          PROVE  Alive(t)
      <3>1. RanSet(calls[t]) = {} /\ saved[t] = <<>>
        BY <1>3, <1>4, <1>5
      <3>2. Cardinality(RanSet(calls[t])) <= Len(saved[t])
        BY <1>4, <3>1
      <3> QED BY <1>5, <1>6, <3>2 DEF Alive
    <2> QED BY <1>2, <1>5, <2>1 DEF AllAlive
  <1>10. Exclusive(Holds, fd)
    <2>1. ASSUME NEW a \in Spots, Holds[a] # NULL
          PROVE  \/ a = <<Root, "in", 0>> /\ Holds[a] = Stdin
                 \/ a = <<Root, "out", 0>> /\ Holds[a] = Stdout
      <3>1. PICK u \in Threads, k \in Nat :
              a \in {<<u, "in", k>>, <<u, "out", k>>, <<u, "saved", k>>, <<u, "call", k>>}
        BY SpotCases
      <3>2. OldAt(saved[u], k) = NULL /\ FileAt(calls[u], k) = NULL
        BY <1>3, <1>4, <1>5
      <3>3. /\ Holds[<<u, "in", k>>] = IF k = 0 THEN in[u] ELSE NULL
            /\ Holds[<<u, "out", k>>] = IF k = 0 THEN out[u] ELSE NULL
            /\ Holds[<<u, "saved", k>>] = NULL
            /\ Holds[<<u, "call", k>>] = NULL
        BY <3>2, HoldsAt
      <3>4. CASE a = <<u, "in", k>>
        BY <1>5, <2>1, <3>3, <3>4
      <3>5. CASE a = <<u, "out", k>>
        BY <1>5, <2>1, <3>3, <3>5
      <3> QED BY <2>1, <3>1, <3>3, <3>4, <3>5
    <2> QED BY <1>6, <1>7, <2>1 DEF Exclusive
  <1>11. Joinable(Waits, status, detached)
    <2>1. ASSUME NEW a \in Threads \X Nat
          PROVE  Waits[a] = NULL
      <3>1. PICK u \in Threads, k \in Nat : a = <<u, k>>
        OBVIOUS
      <3> QED BY <1>3, <1>4, <1>5, <3>1, WaitsAt
    <2> QED BY <2>1 DEF Joinable
  <1> QED BY <1>8, <1>9, <1>10, <1>11 DEF IInv

\* The steps after which a stream that is open may have nobody who closes it.
Forgets == \E t \in Threads : CmdExit(t) \/ ExitEnds(t) \/ LosesInput(t)

LEMMA StepInv ==
    ASSUME IInv, NEW t \in Threads, Step(t)
    PROVE  IInv' /\ (Safe \/ Forgets)
  <1>1. CASE LockEcho(t) \/ Write(t) \/ Read(t) \/ ReadEof(t) \/ ExecOperators(t) \/ BlockEnds(t)
    BY <1>1, LockEchoSafe, WriteSafe, ReadSafe, ReadEofSafe, ExecOperatorsSafe, BlockEndsSafe
       DEF Safe
  <1>2. CASE ReadNull(t)
    BY <1>2, CrashSafe DEF ReadNull, Safe
  <1>3. CASE CloneInstance(t)
    BY <1>3, CloneInstanceSafe DEF Safe
  <1>4. CASE CmdForF(t)
    BY <1>4, CmdForFSafe DEF Safe
  <1>5. CASE LaunchPipe(t)
    BY <1>5, LaunchPipeInv DEF Forgets, LosesInput
  <1>6. CASE CloneFails(t) \/ CloneNull(t)
    BY <1>6, ProcessEndsSafe DEF CloneFails, CloneNull, Safe
  <1>7. CASE LastCommand(t) \/ PipeEnds(t)
    BY <1>7, LastCommandSafe, PipeEndsSafe DEF Safe
  <1>8. CASE ForGetInputLine(t) \/ ForNext(t) \/ ForCloseInputInfo(t) \/ WaitForThread(t)
    BY <1>8, ForGetInputLineSafe, ForNextSafe, ForCloseInputInfoSafe, WaitForThreadSafe DEF Safe
  <1>9. CASE CmdExit(t)
    BY <1>9, CmdExitInv DEF Forgets
  <1>10. CASE CloneReturns(t) \/ FreeStreamStack(t) \/ CloneEnds(t)
    BY <1>10, CloneReturnsSafe, FreeStreamStackSafe, CloneEndsSafe DEF Safe
  <1>11. CASE ExitEnds(t)
    BY <1>11, ExitEndsInv DEF Forgets
  <1> QED BY <1>1, <1>2, <1>3, <1>4, <1>5, <1>6, <1>7, <1>8, <1>9, <1>10, <1>11 DEF Step

LEMMA NextInv == IInv /\ [Next]_vars => IInv' /\ (Safe \/ Forgets)
  <1> SUFFICES ASSUME IInv, [Next]_vars
               PROVE  IInv' /\ (Safe \/ Forgets)
    OBVIOUS
  <1>1. CASE UNCHANGED vars
    <2>1. UNCHANGED <<threadVars, calls, streamVars, fd, buf>> /\ phase' = phase
      BY <1>1 DEF vars, threadVars, streamVars
    <2> QED BY <2>1, ProcessEndsSafe DEF Safe
  <1>2. ASSUME NEW t \in Threads, Step(t)
        PROVE  IInv' /\ (Safe \/ Forgets)
    BY <1>2, StepInv
  <1>3. CASE MainEnds
    BY <1>3, ProcessEndsSafe DEF MainEnds, Safe
  <1>4. CASE ProcessEnded
    BY <1>1, <1>4 DEF ProcessEnded
  <1> QED BY <1>1, <1>2, <1>3, <1>4 DEF Next

-----------------------------------------------------------------------------
(* The theorems. *)

\* Whatever the threads do, and however many there are: each FILE* has one owner and is
\* open, each clone is waited for at most once and is still there to be waited for, a
\* thread that has ended or was never started holds nothing, and a pipe whose last
\* command runs has saved the input that PopStreamStack gives back.
THEOREM SpecInv == Spec => []IInv
  <1>1. IInv /\ [Next]_vars => IInv'
    BY NextInv
  <1> QED BY InitInv, <1>1, PTL DEF Spec

\* Every variable keeps its type: a pipe is never filled beyond its capacity, and a
\* FILE* of a thread is one of the descriptors, or NULL.
THEOREM TypeCorrect == Spec => []TypeOK
  BY SpecInv, InvTypeOK, PTL

\* No thread closes, or reads from, a stream that another thread, or another level of
\* its own redirections and pipes, uses: the duplicates that pBat_CloneInstance makes
\* are enough, whichever of the pipe's ends PopStreamStack, ForCloseInputInfo and
\* CloneTrampoline close.
THEOREM OwnStreamsHolds == Spec => []OwnStreams
  BY SpecInv, InvOwnStreams, PTL

\* No call waits for a thread that has been freed or was detached, and no two calls
\* wait for the same one: WaitForThread finds the thread it was given.
THEOREM JoinedOnceHolds == Spec => []JoinedOnce
  BY SpecInv, InvJoinedOnce, PTL

\* A descriptor that is open and has an owner keeps one until it is closed, except
\* when a clone EXITs and when a pipe has a third command: all other ways to start
\* and to end a clone account for each end of its pipe and for both of its duplicates.
THEOREM NoOrphanHolds == Spec => NoOrphan
  <1> DEFINE Orphans == \A h \in Handles :
                Owned(h) /\ fd'[h] # NoFile =>
                    Owned(h)' \/ \E t \in Threads : CmdExit(t) \/ ExitEnds(t) \/ LosesInput(t)
  <1>1. IInv => Types
    BY DEF IInv
  <1> DEFINE Spotted == \A h \in Handles : Owned(h) <=> \E a \in Spots : Holds[a] = h
  <1>2. Types => Spotted
    BY OwnedSpots
  <1>3. Spotted /\ Spotted' /\ (Safe \/ Forgets) => Orphans
    <2> SUFFICES ASSUME Spotted, Spotted', Safe \/ Forgets, NEW h \in Handles,
                        Owned(h), fd'[h] # NoFile, ~Forgets
                 PROVE  Owned(h)'
      BY DEF Forgets
    <2>1. Kept(Holds, Holds', fd') /\ \E a \in Spots : Holds[a] = h
      BY DEF Safe
    <2>2. \E a \in Spots : Holds'[a] = h
      BY <2>1 DEF Kept
    <2> HIDE DEF Spotted
    <2>3. Owned(h)' <=> \E a \in Spots : Holds'[a] = h
      BY DEF Spotted
    <2> QED BY <2>2, <2>3
  <1>4. IInv /\ [Next]_vars => Safe \/ Forgets
    BY NextInv
  <1> HIDE DEF Spotted, Orphans
  <1>5. IInv /\ IInv' /\ [Next]_vars => [Orphans]_vars
    <2>1. IInv => Spotted
      BY <1>1, <1>2
    <2>2. IInv' => Spotted'
      BY <2>1, PTL
    <2>3. [Next]_vars /\ IInv /\ IInv' => Spotted /\ Spotted' /\ (Safe \/ Forgets)
      BY <1>4, <2>1, <2>2
    <2> QED BY <1>3, <2>3
  <1>6. [Orphans]_vars => [\A h \in Handles :
                Owned(h) /\ fd'[h] # NoFile =>
                    Owned(h)' \/ \E t \in Threads : CmdExit(t) \/ ExitEnds(t) \/ LosesInput(t)]_vars
    BY DEF Orphans
  <1>7. Spec => [][Orphans]_vars
    BY SpecInv, <1>5, PTL DEF Spec
  <1> QED BY <1>6, <1>7, PTL DEF NoOrphan

=============================================================================
