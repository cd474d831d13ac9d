-------------------------- MODULE ScriptCacheProofs --------------------------
(***************************************************************************)
(* Theorems about ScriptCache, for every value of its constants: any batch *)
(* files, any nesting of CALL, any number of modifications. The last part  *)
(* is the refinement: ScriptCache implements Reader.                       *)
(***************************************************************************)
EXTENDS ScriptCache, TLAPS, WellFoundedInduction

-----------------------------------------------------------------------------
(* The inductive invariant. That a level which is no copy may free its list *)
(* needs more than OneOwner: the owner must be the outermost of the levels *)
(* that share the list. The levels are taken apart in the one that runs    *)
(* and those that are saved, since most actions change the first only.     *)

Types ==
    /\ files \in [Files -> Texts \cup {NULL}]
    /\ lists \in [Lists -> Texts \cup {NULL}]
    /\ in \in Input /\ saved \in Seq(Input) /\ Len(saved) <= MaxDepth
    /\ cmdly \in BOOLEAN /\ line \in {"none", "runs", "exit"}
    /\ phase \in {"running", "done", "undefined"}
    /\ sure \in Seq(BOOLEAN) /\ Len(sure) = Len(saved) + 1
    /\ edits \in 0 .. MaxEdits /\ switches \in 0 .. MaxSwitches

\* A structure holds a list that was not freed, or has neither a name nor a list. Its
\* position is one in a text, or one past its end.
Live(b, h) ==
    /\ b.curr > 0
    /\ (b.name = NULL) <=> (b.list = NULL)
    /\ b.list # NULL => h[b.list] # NULL

AllLive == Live(in.batch, lists) /\ \A k \in DOMAIN saved : Live(saved[k].batch, lists)

Shares(b, c) == b.list # NULL /\ b.list = c.list
InnerIsCopy ==
    /\ \A k \in DOMAIN saved : Shares(in.batch, saved[k].batch) => in.batch.cpy
    /\ \A k, m \in DOMAIN saved :
        k < m /\ Shares(saved[k].batch, saved[m].batch) => saved[k].batch.cpy

IInv == Types /\ AllLive /\ InnerIsCopy

-----------------------------------------------------------------------------
(* Lemmas on the text of a file. *)

LEMMA MinFacts ==
    ASSUME NEW S \in SUBSET Nat, S # {}
    PROVE  Min(S) \in S /\ \A y \in S : Min(S) <= y
  <1>1. PICK x \in S : \A y \in S : <<y, x>> \notin OpToRel(<, Nat)
    BY NatLessThanWellFounded, WFMin
  <1>2. \A y \in S : ~(y < x)
    <2> TAKE y \in S
    <2>1. y \in Nat /\ x \in Nat
      OBVIOUS
    <2> QED BY <1>1, <2>1 DEF OpToRel
  <1>3. \A y \in S : x <= y
    BY <1>2
  <1> QED BY <1>1, <1>3 DEF Min

LEMMA FollowingFacts ==
    ASSUME NEW text \in Seq(Entry), NEW i \in Nat
    PROVE  LET S == {j \in i .. Len(text) : IsCommand(text, j)} \cup {Len(text) + 1}
           IN  /\ Following(text, i) \in S /\ Following(text, i) \in Nat
               /\ \A j \in S : Following(text, i) <= j
               /\ i > 0 => Following(text, i) > 0
  <1> DEFINE S == {j \in i .. Len(text) : IsCommand(text, j)} \cup {Len(text) + 1}
  <1>1. S \in SUBSET Nat /\ S # {} /\ Following(text, i) = Min(S)
    BY DEF Following
  <1>2. Min(S) \in S /\ \A y \in S : Min(S) <= y
    BY <1>1, MinFacts
  <1>3. i > 0 => \A j \in S : j > 0
    OBVIOUS
  <1> QED BY <1>1, <1>2, <1>3

LEMMA ClosesFacts ==
    ASSUME NEW text \in Seq(Entry), NEW i \in Nat, IsClosed(text, i)
    PROVE  Min(Closes(text, i)) \in i .. Len(text)
  <1>1. Closes(text, i) \in SUBSET Nat /\ Closes(text, i) \subseteq i .. Len(text)
    BY DEF Closes
  <1> QED BY <1>1, MinFacts DEF IsClosed

LEMMA AfterType ==
    ASSUME NEW text \in Seq(Entry), NEW i \in Nat
    PROVE  After(text, i) \in Nat /\ After(text, i) > 0
  <1>1. CASE IsClosed(text, i)
    <2>1. Min(Closes(text, i)) + 1 \in Nat /\ Min(Closes(text, i)) + 1 > 0
      BY <1>1, ClosesFacts
    <2>2. After(text, i) = Following(text, Min(Closes(text, i)) + 1)
      BY <1>1 DEF After
    <2> QED BY <2>1, <2>2, FollowingFacts
  <1>2. CASE ~IsClosed(text, i)
    BY <1>2 DEF After
  <1> QED BY <1>1, <1>2

LEMMA LabelFacts ==
    ASSUME NEW text \in Seq(Entry), NEW l, HasLabel(text, l)
    PROVE  /\ Min(Labelled(text, l)) \in 1 .. Len(text)
           /\ Target(text, l) \in Nat /\ Target(text, l) > 0
  <1>1. Labelled(text, l) \in SUBSET Nat /\ Labelled(text, l) \subseteq 1 .. Len(text)
    BY DEF Labelled
  <1>2. Min(Labelled(text, l)) \in 1 .. Len(text)
    BY <1>1, MinFacts DEF HasLabel
  <1>3. Min(Labelled(text, l)) + 1 \in Nat /\ Min(Labelled(text, l)) + 1 > 0
    BY <1>2
  <1> QED BY <1>2, <1>3, FollowingFacts DEF Target

LEMMA SameNumberType ==
    ASSUME NEW text \in Seq(Entry), NEW n
    PROVE  SameNumber(text, n) \in Nat /\ SameNumber(text, n) > 0
  <1> DEFINE same == {i \in 1 .. Len(text) : IsCommand(text, i) /\ CommandsBefore(text, i) = n}
  <1>1. CASE same = {}
    <2>1. SameNumber(text, n) = Following(text, 1)
      BY <1>1 DEF SameNumber
    <2> QED BY <2>1, FollowingFacts
  <1>2. CASE same # {}
    <2>1. SameNumber(text, n) = Min(same)
      BY <1>2 DEF SameNumber
    <2>2. same \in SUBSET Nat /\ \A i \in same : i > 0
      OBVIOUS
    <2> HIDE DEF same
    <2> QED BY <1>2, <2>1, <2>2, MinFacts
  <1> QED BY <1>1, <1>2

-----------------------------------------------------------------------------
(* What the functions that work on a structure may leave behind. *)

ListTable == [Lists -> Texts \cup {NULL}]

\* The structure c and the lists g after a function was given the structure b and the
\* lists h: the structure is the same but for its position, or it was freed, and holds
\* a list that was free then or none.
Same(b, h, c, g) == c.name = b.name /\ c.list = b.list /\ c.cpy = b.cpy /\ g = h
Fresh(b, h, c, g) ==
    LET f == FreeBatchScript(b, h)
    IN  /\ ~c.cpy
        /\ \A l \in Lists : l # c.list => g[l] = f[l]
        /\ c.list # NULL => f[c.list] = NULL
Swap(b, h, c, g) ==
    /\ c \in Batch /\ g \in ListTable /\ Live(c, g)
    /\ Same(b, h, c, g) \/ Fresh(b, h, c, g)

LEMMA FreeType ==
    ASSUME NEW b \in Batch, NEW h \in ListTable
    PROVE  /\ FreeBatchScript(b, h) \in ListTable
           /\ \A l \in Lists : FreeBatchScript(b, h)[l] =
                IF ~b.cpy /\ l = b.list THEN NULL ELSE h[l]
           /\ FreeLists(h) # {} => FreeLists(FreeBatchScript(b, h)) # {}
  <1>1. CASE b.cpy \/ b.list = NULL
    <2>1. FreeBatchScript(b, h) = h
      BY <1>1 DEF FreeBatchScript
    <2> QED BY <1>1, <2>1, ListsAssumption
  <1>2. CASE ~(b.cpy \/ b.list = NULL)
    <2>1. FreeBatchScript(b, h) = [h EXCEPT ![b.list] = NULL] /\ b.list \in Lists
      BY <1>2 DEF FreeBatchScript, Batch
    <2> QED BY <1>2, <2>1 DEF ListTable, FreeLists
  <1> QED BY <1>1, <1>2

LEMMA FreeListFacts ==
    ASSUME NEW h \in ListTable, FreeLists(h) # {}
    PROVE  Min(FreeLists(h)) \in Lists /\ h[Min(FreeLists(h))] = NULL
  <1>1. FreeLists(h) \in SUBSET Nat
    BY ListsAssumption DEF FreeLists, ListTable
  <1>2. Min(FreeLists(h)) \in FreeLists(h)
    BY <1>1, MinFacts
  <1>3. \A l \in FreeLists(h) : l \in Lists /\ h[l] = NULL
    BY DEF FreeLists, ListTable
  <1> QED BY <1>2, <1>3

LEMMA NotLoadedType == NotLoaded \in Batch /\ \A h : Live(NotLoaded, h)
  BY DEF NotLoaded, Batch, Live

\* Opening a file that was given lists where one is free.
LEMMA OpenFacts ==
    ASSUME NEW f \in Files, NEW h \in ListTable, FreeLists(h) # {},
           files \in [Files -> Texts \cup {NULL}],
           NEW r \in OpenBatchScript(f, h)
    PROVE  /\ r.batch \in Batch /\ r.lists \in ListTable /\ Live(r.batch, r.lists)
           /\ ~r.batch.cpy
           /\ \A l \in Lists : l # r.batch.list => r.lists[l] = h[l]
           /\ r.batch.list # NULL => h[r.batch.list] = NULL
           /\ r.ok => /\ r.batch.name = f /\ files[f] \in Texts
                      /\ r.lists[r.batch.list] = files[f]
                      /\ r.batch.curr = Following(files[f], 1)
           /\ ~r.ok => r.batch = NotLoaded /\ r.lists = h
  <1>1. CASE r = Loaded(NotLoaded, h, FALSE)
    <2>1. r.batch = NotLoaded /\ r.lists = h /\ r.ok = FALSE
      BY <1>1 DEF Loaded
    <2>2. Live(NotLoaded, h) /\ NotLoaded \in Batch /\ ~NotLoaded.cpy /\ NotLoaded.list = NULL
      BY NotLoadedType DEF NotLoaded
    <2> QED BY <2>1, <2>2
  <1>2. CASE r # Loaded(NotLoaded, h, FALSE)
    <2> DEFINE l == Min(FreeLists(h))
    <2>1. /\ files[f] # NULL
          /\ r = Loaded([name |-> f, cpy |-> FALSE, list |-> l, curr |-> Following(files[f], 1)],
                        [h EXCEPT ![l] = files[f]], TRUE)
      BY <1>2 DEF OpenBatchScript
    <2>2. l \in Lists /\ h[l] = NULL
      BY FreeListFacts
    <2> HIDE DEF l
    <2>3. files[f] \in Texts
      BY <2>1
    <2>4. Following(files[f], 1) \in Nat /\ Following(files[f], 1) > 0
      BY <2>3, TextsAssumption, FollowingFacts
    <2>5. /\ r.batch = [name |-> f, cpy |-> FALSE, list |-> l, curr |-> Following(files[f], 1)]
          /\ r.lists = [h EXCEPT ![l] = files[f]] /\ r.ok = TRUE
      BY <2>1 DEF Loaded
    <2>6. r.lists \in ListTable /\ r.lists[l] = files[f] /\ \A m \in Lists : m # l => r.lists[m] = h[m]
      BY <2>2, <2>3, <2>5 DEF ListTable
    <2>7. r.batch \in Batch /\ ~r.batch.cpy /\ r.batch.list = l /\ r.batch.name = f
          /\ r.batch.curr = Following(files[f], 1)
      BY <2>2, <2>4, <2>5 DEF Batch
    <2>8. Live(r.batch, r.lists)
      BY <2>1, <2>2, <2>4, <2>6, <2>7, FilesAssumption, ListsAssumption DEF Live
    <2> QED BY <2>2, <2>3, <2>5, <2>6, <2>7, <2>8
  <1> QED BY <1>1, <1>2

LEMMA OpenIsSwap ==
    ASSUME NEW f \in Files, NEW b \in Batch, NEW h \in ListTable, FreeLists(h) # {},
           files \in [Files -> Texts \cup {NULL}],
           NEW r \in OpenBatchScript(f, FreeBatchScript(b, h))
    PROVE  /\ Swap(b, h, r.batch, r.lists)
           /\ r.ok => /\ r.batch.name = f /\ files[f] \in Texts
                      /\ r.lists[r.batch.list] = files[f]
                      /\ r.batch.curr = Following(files[f], 1)
  <1>1. FreeBatchScript(b, h) \in ListTable /\ FreeLists(FreeBatchScript(b, h)) # {}
    BY FreeType
  <1>2. /\ r.batch \in Batch /\ r.lists \in ListTable /\ Live(r.batch, r.lists)
        /\ ~r.batch.cpy
        /\ \A l \in Lists : l # r.batch.list => r.lists[l] = FreeBatchScript(b, h)[l]
        /\ r.batch.list # NULL => FreeBatchScript(b, h)[r.batch.list] = NULL
        /\ r.ok => /\ r.batch.name = f /\ files[f] \in Texts
                   /\ r.lists[r.batch.list] = files[f]
                   /\ r.batch.curr = Following(files[f], 1)
    BY <1>1, OpenFacts
  <1> QED BY <1>2 DEF Swap, Fresh

LEMMA ReloadIsSwap ==
    ASSUME NEW b \in Batch, NEW h \in ListTable, FreeLists(h) # {}, b.name \in Files,
           files \in [Files -> Texts \cup {NULL}],
           NEW r \in ReloadBatchScript(b, h)
    PROVE  /\ Swap(b, h, r.batch, r.lists)
           /\ r.ok => /\ r.batch.name = b.name /\ files[b.name] \in Texts
                      /\ r.lists[r.batch.list] = files[b.name]
  <1> DEFINE N == SameNumber(files[b.name], CommandsBefore(h[b.list], b.curr))
  <1>1. PICK o \in OpenBatchScript(b.name, FreeBatchScript(b, h)) :
            r = [o EXCEPT !.batch.curr = IF o.ok THEN N ELSE @]
    BY DEF ReloadBatchScript
  <1>2. o \in [batch: Batch, lists: ListTable, ok: BOOLEAN]
    <2>1. o.batch \in Batch /\ o.lists \in ListTable
      BY OpenIsSwap DEF Swap
    <2>2. \E x, y, z : o = Loaded(x, y, z) /\ z \in BOOLEAN
      BY <1>1 DEF OpenBatchScript
    <2> QED BY <2>1, <2>2 DEF Loaded
  <1>3. o.ok => N \in Nat /\ N > 0
    <2>1. o.ok => files[b.name] \in Seq(Entry)
      BY OpenIsSwap, TextsAssumption
    <2> QED BY <2>1, SameNumberType
  <1>4. /\ r.lists = o.lists /\ r.ok = o.ok
        /\ r.batch = [o.batch EXCEPT !.curr = IF o.ok THEN N ELSE @]
    BY <1>1, <1>2
  <1> HIDE DEF N
  <1>5. /\ r.batch \in Batch /\ r.batch.name = o.batch.name /\ r.batch.list = o.batch.list
        /\ r.batch.cpy = o.batch.cpy /\ r.batch.curr = IF o.ok THEN N ELSE o.batch.curr
    BY <1>2, <1>3, <1>4 DEF Batch
  <1>6. /\ Swap(b, h, o.batch, o.lists)
        /\ o.ok => /\ o.batch.name = b.name /\ files[b.name] \in Texts
                   /\ o.lists[o.batch.list] = files[b.name]
    BY OpenIsSwap
  <1> QED BY <1>3, <1>4, <1>5, <1>6 DEF Swap, Same, Fresh, Live

\* A structure that is not changed.
LEMMA SwapSame ==
    ASSUME NEW b \in Batch, NEW h \in ListTable, Live(b, h)
    PROVE  Swap(b, h, b, h)
  BY DEF Swap, Same

LEMMA UpdateIsSwap ==
    ASSUME NEW i \in Input, lists \in ListTable, Live(i.batch, lists), FreeLists(lists) # {},
           files \in [Files -> Texts \cup {NULL}],
           NEW r \in UpdateScript(i)
    PROVE  /\ Swap(i.batch, lists, r.batch, r.lists)
           /\ r.ok => /\ r.batch.name = i.file /\ r.batch.list # NULL
                      /\ r.lists[r.batch.list] \in Seq(Entry)
  <1>0. i.batch \in Batch /\ i.file \in Files
    BY DEF Input
  <1>1. CASE i.batch.name = i.file
    <2>1. CASE r = Loaded(i.batch, lists, TRUE)
      <3>1. r.batch = i.batch /\ r.lists = lists
        BY <2>1 DEF Loaded
      <3>2. i.batch.list # NULL
        BY <1>0, <1>1, FilesAssumption DEF Live
      <3>3. lists[i.batch.list] \in Texts
        BY <1>0, <3>2 DEF Live, Batch, ListTable
      <3> QED BY <1>0, <1>1, <3>1, <3>2, <3>3, SwapSame, TextsAssumption
    <2>2. CASE r \in ReloadBatchScript(i.batch, lists)
      <3>1. /\ Swap(i.batch, lists, r.batch, r.lists)
            /\ r.ok => /\ r.batch.name = i.file /\ files[i.file] \in Texts
                       /\ r.lists[r.batch.list] = files[i.file]
        BY <1>0, <1>1, <2>2, ReloadIsSwap
      <3>2. r.ok => r.batch.list # NULL
        BY <1>0, <3>1, FilesAssumption DEF Swap, Live
      <3> QED BY <3>1, <3>2, TextsAssumption
    <2> QED BY <1>1, <2>1, <2>2 DEF UpdateScript
  <1>2. CASE i.batch.name # i.file
    <2>1. r \in OpenBatchScript(i.file, FreeBatchScript(i.batch, lists))
      BY <1>2 DEF UpdateScript
    <2>2. /\ Swap(i.batch, lists, r.batch, r.lists)
          /\ r.ok => /\ r.batch.name = i.file /\ files[i.file] \in Texts
                     /\ r.lists[r.batch.list] = files[i.file]
      BY <1>0, <2>1, OpenIsSwap
    <2>3. r.ok => r.batch.list # NULL
      BY <1>0, <2>2, FilesAssumption DEF Swap, Live
    <2> QED BY <2>2, <2>3, TextsAssumption
  <1> QED BY <1>1, <1>2

\* A position may be moved afterwards.
LEMMA SwapMoves ==
    ASSUME NEW b \in Batch, NEW h, NEW c, NEW g, Swap(b, h, c, g), NEW n \in Nat, n > 0
    PROVE  Swap(b, h, [c EXCEPT !.curr = n], g)
  <1> DEFINE d == [c EXCEPT !.curr = n]
  <1>1. d \in Batch /\ d.name = c.name /\ d.cpy = c.cpy /\ d.list = c.list /\ d.curr = n
    BY DEF Swap, Batch
  <1> HIDE DEF d
  <1>2. Swap(b, h, d, g)
    BY <1>1 DEF Swap, Same, Fresh, Live
  <1> QED BY <1>2 DEF d

\* The same, in two steps of a jump to another file: that file is opened first.
LEMMA OpenThenFree ==
    ASSUME NEW f \in Files, NEW b \in Batch, NEW h \in ListTable, Live(b, h), FreeLists(h) # {},
           files \in [Files -> Texts \cup {NULL}],
           NEW r \in OpenBatchScript(f, h), r.ok
    PROVE  Swap(b, h, r.batch, FreeBatchScript(b, r.lists))
  <1> DEFINE g == FreeBatchScript(b, r.lists)
  <1>1. /\ r.batch \in Batch /\ r.lists \in ListTable /\ Live(r.batch, r.lists)
        /\ ~r.batch.cpy /\ r.batch.name = f
        /\ \A l \in Lists : l # r.batch.list => r.lists[l] = h[l]
        /\ r.batch.list # NULL => h[r.batch.list] = NULL
    BY OpenFacts
  <1>2. r.batch.list # NULL /\ r.batch.list \in Lists
    BY <1>1, FilesAssumption DEF Live, Batch
  <1>3. r.batch.list # b.list
    BY <1>1, <1>2 DEF Live
  <1>4. /\ g \in ListTable
        /\ \A l \in Lists : g[l] = IF ~b.cpy /\ l = b.list THEN NULL ELSE r.lists[l]
    BY <1>1, FreeType
  <1>5. \A l \in Lists : FreeBatchScript(b, h)[l] = IF ~b.cpy /\ l = b.list THEN NULL ELSE h[l]
    BY FreeType
  <1> HIDE DEF g
  <1>6. Live(r.batch, g)
    BY <1>1, <1>2, <1>3, <1>4 DEF Live
  <1>7. \A l \in Lists : l # r.batch.list => g[l] = FreeBatchScript(b, h)[l]
    BY <1>1, <1>4, <1>5
  <1>8. FreeBatchScript(b, h)[r.batch.list] = NULL
    BY <1>1, <1>2, <1>3, <1>5
  <1>9. Swap(b, h, r.batch, g)
    BY <1>1, <1>4, <1>6, <1>7, <1>8 DEF Swap, Fresh
  <1> QED BY <1>9 DEF g

-----------------------------------------------------------------------------
(* Jumps. *)

IsJump(i, h, jump) ==
    /\ jump.in \in Input /\ Swap(i.batch, h, jump.in.batch, jump.lists)
    /\ jump.how \in {"jumped", "failed", "undefined"}

LEMMA InputWith ==
    ASSUME NEW i \in Input, NEW c \in Batch
    PROVE  [i EXCEPT !.batch = c] \in Input /\ [i EXCEPT !.batch = c].batch = c
  BY DEF Input

LEMMA JumpInFileFacts ==
    ASSUME NEW i \in Input, lists \in ListTable, Live(i.batch, lists), FreeLists(lists) # {},
           files \in [Files -> Texts \cup {NULL}],
           NEW l \in Labels, NEW jump \in JumpInFile(i, l)
    PROVE  IsJump(i, lists, jump)
  <1> DEFINE J(r) == [i EXCEPT !.batch = r.batch]
             T(r) == r.lists[r.batch.list]
  <1>1. PICK r \in UpdateScript(i) :
            \/ jump = Jump(J(r), r.lists, "failed")
            \/ jump = Jump(J(r), r.lists, "undefined")
            \/ /\ r.ok /\ HasLabel(T(r), l)
               /\ jump = Jump([J(r) EXCEPT !.batch.curr = Target(T(r), l)], r.lists, "jumped")
    BY DEF JumpInFile
  <1>2. /\ Swap(i.batch, lists, r.batch, r.lists)
        /\ r.ok => T(r) \in Seq(Entry)
    BY UpdateIsSwap
  <1>3. r.batch \in Batch /\ i.batch \in Batch
    BY <1>2 DEF Swap, Input
  <1>4. CASE \E how \in {"failed", "undefined"} : jump = Jump(J(r), r.lists, how)
    <2>1. jump.in = J(r) /\ jump.lists = r.lists /\ jump.how \in {"failed", "undefined"}
      BY <1>4 DEF Jump
    <2> QED BY <1>2, <1>3, <2>1, InputWith DEF IsJump
  <1>5. CASE /\ r.ok /\ HasLabel(T(r), l)
             /\ jump = Jump([J(r) EXCEPT !.batch.curr = Target(T(r), l)], r.lists, "jumped")
    <2> DEFINE n == Target(T(r), l)
    <2>1. n \in Nat /\ n > 0
      BY <1>2, <1>5, LabelFacts
    <2> HIDE DEF n
    <2>2. [J(r) EXCEPT !.batch.curr = n] = [i EXCEPT !.batch = [r.batch EXCEPT !.curr = n]]
      BY <1>3 DEF Input
    <2>3. Swap(i.batch, lists, [r.batch EXCEPT !.curr = n], r.lists)
      BY <1>2, <1>3, <2>1, SwapMoves
    <2>4. [r.batch EXCEPT !.curr = n] \in Batch
      BY <2>3 DEF Swap
    <2>5. /\ jump.in = [i EXCEPT !.batch = [r.batch EXCEPT !.curr = n]]
          /\ jump.lists = r.lists /\ jump.how = "jumped"
      BY <1>5, <2>2 DEF Jump, n
    <2> QED BY <2>3, <2>4, <2>5, InputWith DEF IsJump
  <1> QED BY <1>1, <1>4, <1>5

LEMMA JumpToFileFacts ==
    ASSUME NEW i \in Input, lists \in ListTable, Live(i.batch, lists), FreeLists(lists) # {},
           files \in [Files -> Texts \cup {NULL}],
           NEW l \in Labels, NEW f \in Files, NEW jump \in JumpToFile(i, l, f)
    PROVE  IsJump(i, lists, jump)
  <1> DEFINE n == Target(files[f], l)
  <1>0. i.batch \in Batch
    BY DEF Input
  <1>1. PICK r \in OpenBatchScript(f, lists) :
            \/ jump = Jump(i, lists, "failed")
            \/ /\ r.ok /\ HasLabel(files[f], l)
               /\ jump = Jump([i EXCEPT !.file = f, !.batch = [r.batch EXCEPT !.curr = n]],
                              FreeBatchScript(i.batch, r.lists), "jumped")
    BY DEF JumpToFile
  <1>2. CASE jump = Jump(i, lists, "failed")
    <2>1. jump.in = i /\ jump.lists = lists /\ jump.how = "failed"
      BY <1>2 DEF Jump
    <2> QED BY <1>0, <2>1, SwapSame DEF IsJump
  <1>3. CASE /\ r.ok /\ HasLabel(files[f], l)
             /\ jump = Jump([i EXCEPT !.file = f, !.batch = [r.batch EXCEPT !.curr = n]],
                            FreeBatchScript(i.batch, r.lists), "jumped")
    <2>1. Swap(i.batch, lists, r.batch, FreeBatchScript(i.batch, r.lists))
      BY <1>0, <1>3, OpenThenFree
    <2>2. files[f] \in Seq(Entry)
      BY <1>3, OpenFacts, TextsAssumption
    <2>3. n \in Nat /\ n > 0
      BY <1>3, <2>2, LabelFacts
    <2> HIDE DEF n
    <2>4. Swap(i.batch, lists, [r.batch EXCEPT !.curr = n], FreeBatchScript(i.batch, r.lists))
      BY <1>0, <2>1, <2>3, SwapMoves
    <2>5. [r.batch EXCEPT !.curr = n] \in Batch
      BY <2>4 DEF Swap
    <2>6. /\ jump.in = [i EXCEPT !.file = f, !.batch = [r.batch EXCEPT !.curr = n]]
          /\ jump.lists = FreeBatchScript(i.batch, r.lists) /\ jump.how = "jumped"
      BY <1>3 DEF Jump
    <2>7. jump.in \in Input /\ jump.in.batch = [r.batch EXCEPT !.curr = n]
      BY <2>5, <2>6 DEF Input
    <2> QED BY <2>4, <2>6, <2>7 DEF IsJump
  <1> QED BY <1>1, <1>2, <1>3

LEMMA OpenedText ==
    ASSUME files \in [Files -> Texts \cup {NULL}], NEW f \in Files, NEW text \in Opened(f)
    PROVE  text \in Seq(Entry) /\ (text # <<>> => text = files[f] /\ files[f] # NULL)
  <1>1. <<>> \in Seq(Entry)
    OBVIOUS
  <1>2. text = <<>> \/ (text = files[f] /\ files[f] # NULL)
    BY DEF Opened
  <1>3. files[f] # NULL => files[f] \in Seq(Entry)
    BY TextsAssumption
  <1> QED BY <1>1, <1>2, <1>3

LEMMA JumpCmdlyFacts ==
    ASSUME NEW i \in Input, lists \in ListTable, Live(i.batch, lists),
           files \in [Files -> Texts \cup {NULL}],
           NEW l \in Labels, NEW jump \in JumpToLabel_Cmdly(i, l)
    PROVE  IsJump(i, lists, jump)
  <1>0. i.batch \in Batch /\ i.file \in Files
    BY DEF Input
  <1>1. CASE jump = Jump(i, lists, "failed")
    <2>1. jump.in = i /\ jump.lists = lists /\ jump.how = "failed"
      BY <1>1 DEF Jump
    <2> QED BY <1>0, <2>1, SwapSame DEF IsJump
  <1>2. CASE jump # Jump(i, lists, "failed")
    <2>0. PICK text \in Opened(i.file) :
            /\ HasLabel(text, l)
            /\ \E eof \in {FALSE, Min(Labelled(text, l)) = Len(text)} :
                 jump = Jump([i EXCEPT !.pos = Min(Labelled(text, l)), !.eof = eof], lists, "jumped")
      BY <1>2, Zenon DEF JumpToLabel_Cmdly
    <2>1. PICK eof \in BOOLEAN :
            jump = Jump([i EXCEPT !.pos = Min(Labelled(text, l)), !.eof = eof], lists, "jumped")
      BY <2>0
    <2>2. Min(Labelled(text, l)) \in Nat
      BY <1>0, <2>0, OpenedText, LabelFacts
    <2>3. /\ jump.in = [i EXCEPT !.pos = Min(Labelled(text, l)), !.eof = eof]
          /\ jump.lists = lists /\ jump.how = "jumped"
      BY <2>1 DEF Jump
    <2>4. jump.in \in Input /\ jump.in.batch = i.batch
      BY <2>2, <2>3 DEF Input
    <2> QED BY <1>0, <2>3, <2>4, SwapSame DEF IsJump
  <1> QED BY <1>1, <1>2

LEMMA JumpFacts ==
    ASSUME NEW i \in Input, lists \in ListTable, Live(i.batch, lists), FreeLists(lists) # {},
           files \in [Files -> Texts \cup {NULL}],
           NEW l \in Labels, NEW f \in Files \cup {NULL}, NEW jump \in JumpToLabel(i, l, f)
    PROVE  IsJump(i, lists, jump)
  <1>1. CASE cmdly
    BY <1>1, JumpCmdlyFacts DEF JumpToLabel
  <1>2. CASE ~cmdly /\ f \in {NULL, i.batch.name}
    BY <1>2, JumpInFileFacts DEF JumpToLabel
  <1>3. CASE ~cmdly /\ f \notin {NULL, i.batch.name}
    BY <1>3, JumpToFileFacts DEF JumpToLabel
  <1> QED BY <1>1, <1>2, <1>3

-----------------------------------------------------------------------------
(* The invariant of the levels. *)

\* What a function does to a structure b disturbs no structure d that shares its list
\* only if b is a copy.
Keeps(d, h, g) == d.list # NULL => g[d.list] = h[d.list]

LEMMA SwapKeepsList ==
    ASSUME NEW b \in Batch, NEW c, NEW h \in ListTable, NEW g, Live(b, h), Swap(b, h, c, g),
           NEW d \in Batch, Live(d, h), Shares(b, d) => b.cpy
    PROVE  Keeps(d, h, g)
  <1>1. CASE Same(b, h, c, g)
    BY <1>1 DEF Same, Keeps
  <1>2. CASE Fresh(b, h, c, g)
    <2> SUFFICES ASSUME d.list # NULL PROVE g[d.list] = h[d.list]
      BY DEF Keeps
    <2>1. d.list \in Lists /\ h[d.list] # NULL
      BY DEF Live, Batch
    <2>2. FreeBatchScript(b, h)[d.list] = h[d.list]
      BY <2>1, FreeType DEF Shares
    <2> QED BY <1>2, <2>1, <2>2 DEF Fresh
  <1> QED BY <1>1, <1>2 DEF Swap

LEMMA SwapKeeps ==
    ASSUME NEW b \in Batch, NEW c, NEW h \in ListTable, NEW g, Live(b, h), Swap(b, h, c, g),
           NEW d \in Batch, Live(d, h), Shares(b, d) => b.cpy
    PROVE  Live(d, g) /\ (Shares(c, d) => c.cpy)
  <1>1. Keeps(d, h, g)
    BY SwapKeepsList
  <1>2. Live(d, g)
    BY <1>1 DEF Keeps, Live
  <1>3. CASE Same(b, h, c, g)
    BY <1>2, <1>3 DEF Same, Shares
  <1>4. CASE Fresh(b, h, c, g)
    <2> SUFFICES ASSUME d.list # NULL, c.list = d.list PROVE FALSE
      BY <1>2 DEF Shares
    <2>1. d.list \in Lists /\ h[d.list] # NULL
      BY DEF Live, Batch
    <2>2. FreeBatchScript(b, h)[d.list] = h[d.list]
      BY <1>4, <2>1, FreeType DEF Fresh, Shares
    <2> QED BY <1>4, <2>1, <2>2 DEF Fresh
  <1> QED BY <1>3, <1>4 DEF Swap

LEMMA CopyFacts ==
    ASSUME IInv
    PROVE  /\ Copy \in Input /\ Copy.batch \in Batch /\ Copy.batch.cpy = TRUE
           /\ Copy.batch.list = in.batch.list /\ Copy.batch.name = in.batch.name
           /\ Copy.batch.curr = in.batch.curr /\ Live(Copy.batch, lists)
           /\ Copy.file = in.file
  BY DEF IInv, Types, AllLive, Live, Copy, Input, Batch

\* A step that changes what the running level holds.
LEMMA LevelSwaps ==
    ASSUME IInv, saved' = saved, NEW b \in {in.batch, Copy.batch}, in' \in Input,
           Swap(b, lists, in'.batch, lists')
    PROVE  AllLive' /\ InnerIsCopy'
  <1>1. /\ b \in Batch /\ Live(b, lists) /\ lists \in ListTable
        /\ \A k \in DOMAIN saved : Shares(b, saved[k].batch) => b.cpy
        /\ \A k \in DOMAIN saved : saved[k].batch \in Batch /\ Live(saved[k].batch, lists)
    <2>1. b \in Batch /\ Live(b, lists) /\ b.list = in.batch.list /\ (in.batch.cpy => b.cpy)
      BY CopyFacts DEF IInv, Types, AllLive, Input
    <2>2. \A k \in DOMAIN saved : saved[k] \in Input
      BY DEF IInv, Types
    <2> QED BY <2>1, <2>2 DEF IInv, Types, AllLive, InnerIsCopy, Input, ListTable, Shares
  <1>2. \A k \in DOMAIN saved : /\ Live(saved[k].batch, lists')
                                /\ Shares(in'.batch, saved[k].batch) => in'.batch.cpy
    BY <1>1, SwapKeeps
  <1>3. AllLive'
    <2>1. Live(in'.batch, lists')
      BY DEF Swap
    <2>2. DOMAIN saved' = DOMAIN saved /\ \A k \in DOMAIN saved' : Live(saved'[k].batch, lists')
      BY <1>2
    <2> QED BY <2>1, <2>2 DEF AllLive
  <1>4. InnerIsCopy'
    <2>1. \A k \in DOMAIN saved' : Shares(in'.batch, saved'[k].batch) => in'.batch.cpy
      BY <1>2
    <2>2. \A k, m \in DOMAIN saved' :
            k < m /\ Shares(saved'[k].batch, saved'[m].batch) => saved'[k].batch.cpy
      BY DEF IInv, InnerIsCopy
    <2> QED BY <2>1, <2>2 DEF InnerIsCopy
  <1> QED BY <1>3, <1>4

LEMMA PushFacts ==
    ASSUME NEW S, NEW x \in S, NEW s \in Seq(S)
    PROVE  /\ <<x>> \o s \in Seq(S) /\ Len(<<x>> \o s) = Len(s) + 1
           /\ DOMAIN (<<x>> \o s) = 1 .. Len(s) + 1
           /\ (<<x>> \o s)[1] = x
           /\ \A k \in DOMAIN (<<x>> \o s) :
                k = 1 \/ (k > 1 /\ k - 1 \in DOMAIN s /\ (<<x>> \o s)[k] = s[k - 1])
  OBVIOUS

LEMMA PopFacts ==
    ASSUME NEW S, NEW s \in Seq(S), s # <<>>
    PROVE  /\ Head(s) \in S /\ Tail(s) \in Seq(S) /\ Len(Tail(s)) = Len(s) - 1
           /\ 1 \in DOMAIN s /\ Head(s) = s[1]
           /\ DOMAIN Tail(s) = 1 .. Len(s) - 1
           /\ \A k \in DOMAIN Tail(s) : k + 1 \in DOMAIN s /\ Tail(s)[k] = s[k + 1]
  OBVIOUS

\* A step that starts another level with a copy of the running one.
LEMMA LevelPushed ==
    ASSUME IInv, saved' = <<in>> \o saved, in' \in Input,
           Swap(Copy.batch, lists, in'.batch, lists')
    PROVE  AllLive' /\ InnerIsCopy'
  <1>1. /\ Copy.batch \in Batch /\ Live(Copy.batch, lists) /\ lists \in ListTable
        /\ Copy.batch.cpy
    BY CopyFacts DEF IInv, Types, ListTable
  <1>2. in \in Input /\ Live(in.batch, lists) /\ in.batch \in Batch /\ saved \in Seq(Input)
    BY DEF IInv, Types, AllLive, Input
  <1>3. \A k \in DOMAIN saved : saved[k].batch \in Batch /\ Live(saved[k].batch, lists)
    <2>1. \A k \in DOMAIN saved : saved[k] \in Input
      BY <1>2
    <2> QED BY <2>1 DEF IInv, AllLive, Input
  <1>4. Live(in.batch, lists') /\ (Shares(in'.batch, in.batch) => in'.batch.cpy)
    BY <1>1, <1>2, SwapKeeps
  <1>5. \A k \in DOMAIN saved : /\ Live(saved[k].batch, lists')
                                /\ Shares(in'.batch, saved[k].batch) => in'.batch.cpy
    BY <1>1, <1>3, SwapKeeps
  <1>6. /\ saved'[1] = in
        /\ \A k \in DOMAIN saved' :
              k = 1 \/ (k > 1 /\ k - 1 \in DOMAIN saved /\ saved'[k] = saved[k - 1])
    BY <1>2, PushFacts
  <1>7. AllLive'
    BY <1>4, <1>5, <1>6 DEF AllLive, Swap, Live
  <1>8. \A k \in DOMAIN saved' : Shares(in'.batch, saved'[k].batch) => in'.batch.cpy
    BY <1>4, <1>5, <1>6 DEF Shares
  <1>9. \A k, m \in DOMAIN saved' :
          k < m /\ Shares(saved'[k].batch, saved'[m].batch) => saved'[k].batch.cpy
    <2> SUFFICES ASSUME NEW k \in DOMAIN saved', NEW m \in DOMAIN saved',
                        k < m, Shares(saved'[k].batch, saved'[m].batch)
                 PROVE  saved'[k].batch.cpy
      OBVIOUS
    <2>0. k \in Nat /\ m \in Nat /\ k >= 1 /\ m >= 1
      BY <1>2, PushFacts
    <2>1. m > 1 /\ m - 1 \in DOMAIN saved /\ saved'[m] = saved[m - 1]
      BY <1>6, <2>0
    <2>2. CASE k = 1
      BY <1>6, <2>1, <2>2 DEF IInv, InnerIsCopy
    <2>3. CASE k # 1
      <3>1. k - 1 \in DOMAIN saved /\ saved'[k] = saved[k - 1] /\ k - 1 < m - 1
        BY <1>6, <2>0, <2>3
      <3> QED BY <2>1, <3>1 DEF IInv, InnerIsCopy
    <2> QED BY <2>2, <2>3
  <1> QED BY <1>7, <1>8, <1>9 DEF InnerIsCopy

\* A step that ends the running level.
LEMMA LevelPopped ==
    ASSUME IInv, saved # <<>>, in' = Head(saved), saved' = Tail(saved),
           lists' = FreeBatchScript(in.batch, lists)
    PROVE  AllLive' /\ InnerIsCopy'
  <1>1. in.batch \in Batch /\ lists \in ListTable /\ saved \in Seq(Input)
    BY DEF IInv, Types, Input, ListTable
  <1>2. \A l \in Lists : lists'[l] = IF ~in.batch.cpy /\ l = in.batch.list THEN NULL ELSE lists[l]
    BY <1>1, FreeType
  <1>3. \A k \in DOMAIN saved : Live(saved[k].batch, lists')
    <2> TAKE k \in DOMAIN saved
    <2>1. saved[k] \in Input /\ Live(saved[k].batch, lists)
      BY <1>1 DEF IInv, AllLive
    <2>2. Shares(in.batch, saved[k].batch) => in.batch.cpy
      BY DEF IInv, InnerIsCopy
    <2>3. saved[k].batch.list \in Lists \cup {NULL}
      BY <2>1 DEF Input, Batch
    <2> QED BY <1>2, <2>1, <2>2, <2>3 DEF Live, Shares
  <1>4. /\ 1 \in DOMAIN saved /\ in' = saved[1]
        /\ DOMAIN saved' = 1 .. Len(saved) - 1
        /\ \A k \in DOMAIN saved' : k + 1 \in DOMAIN saved /\ saved'[k] = saved[k + 1]
    BY <1>1, PopFacts
  <1>5. AllLive'
    BY <1>3, <1>4 DEF AllLive
  <1>6. \A k \in DOMAIN saved' : 1 < k + 1
    BY <1>1, <1>4
  <1>7. \A k, m \in DOMAIN saved' : k < m => k + 1 < m + 1
    BY <1>1, <1>4
  <1>8. InnerIsCopy'
    BY <1>4, <1>6, <1>7 DEF IInv, InnerIsCopy
  <1> QED BY <1>5, <1>8

-----------------------------------------------------------------------------
(* The steps. *)

LEMMA Initially == ASSUME Init PROVE IInv
  <1>1. in \in Input /\ in.batch = NotLoaded
    BY NotLoadedType, FilesAssumption DEF Init, Input
  <1>2. lists \in ListTable /\ files \in [Files -> Texts \cup {NULL}]
    BY DEF Init, ListTable
  <1>3. Types
    BY <1>1, <1>2, BoundsAssumption DEF Init, Types, ListTable
  <1>4. AllLive
    BY <1>1, NotLoadedType DEF Init, AllLive
  <1>5. InnerIsCopy
    BY DEF Init, InnerIsCopy
  <1> QED BY <1>3, <1>4, <1>5 DEF IInv

\* A step that changes no level.
LEMMA LevelsStay ==
    ASSUME IInv, UNCHANGED <<in, saved, lists>>
    PROVE  AllLive' /\ InnerIsCopy'
  BY DEF IInv, AllLive, InnerIsCopy

LEMMA GetLineFacts ==
    ASSUME IInv, GetLine
    PROVE  in' \in Input /\ Swap(in.batch, lists, in'.batch, lists')
  <1>1. PICK r \in UpdateScript(in) :
          LET text == r.lists[r.batch.list]
              found == r.ok /\ IsClosed(text, r.batch.curr)
          IN  /\ lists' = r.lists
              /\ in' = [in EXCEPT !.eof = ~found,
                         !.batch = IF r.ok THEN [r.batch EXCEPT !.curr = After(text, @)]
                                   ELSE r.batch]
    BY DEF GetLine
  <1> DEFINE text == r.lists[r.batch.list]
             n == After(text, r.batch.curr)
             c == IF r.ok THEN [r.batch EXCEPT !.curr = n] ELSE r.batch
  <1>2. /\ in \in Input /\ in.batch \in Batch /\ Live(in.batch, lists) /\ lists \in ListTable
        /\ files \in [Files -> Texts \cup {NULL}] /\ FreeLists(lists) # {}
    BY DEF IInv, Types, AllLive, Input, ListTable, GetLine
  <1>3. /\ Swap(in.batch, lists, r.batch, r.lists)
        /\ r.ok => text \in Seq(Entry)
    BY <1>2, UpdateIsSwap
  <1>4. r.ok => n \in Nat /\ n > 0
    <2>1. r.batch.curr \in Nat
      BY <1>3 DEF Swap, Batch
    <2> QED BY <1>3, <2>1, AfterType
  <1>5. Swap(in.batch, lists, c, r.lists)
    <2> HIDE DEF n
    <2>1. CASE r.ok
      BY <1>2, <1>3, <1>4, <2>1, SwapMoves
    <2>2. CASE ~r.ok
      BY <1>3, <2>2
    <2> QED BY <2>1, <2>2
  <1>6. c \in Batch
    BY <1>5 DEF Swap
  <1>7. \E e \in BOOLEAN : in' = [in EXCEPT !.eof = e, !.batch = c]
    BY <1>1, Zenon
  <1> HIDE DEF c
  <1>8. in' \in Input /\ in'.batch = c
    BY <1>2, <1>6, <1>7 DEF Input
  <1> QED BY <1>1, <1>5, <1>8

LEMMA GetLineStep == ASSUME IInv, GetLine PROVE IInv'
  <1>1. AllLive' /\ InnerIsCopy'
    BY GetLineFacts, LevelSwaps DEF GetLine
  <1>2. lists' \in ListTable
    BY GetLineFacts DEF Swap
  <1>3. line' \in {"none", "runs", "exit"}
    BY DEF GetLine
  <1>4. Types'
    BY <1>2, <1>3, GetLineFacts DEF IInv, Types, GetLine, ListTable
  <1> QED BY <1>1, <1>4 DEF IInv

LEMMA GetLineCmdlyFacts ==
    ASSUME IInv, GetLine_Cmdly
    PROVE  in' \in Input /\ in'.batch = in.batch /\ line' \in {"none", "runs", "exit"}
  <1>0. in \in Input /\ in.file \in Files /\ files \in [Files -> Texts \cup {NULL}]
        /\ line \in {"none", "runs", "exit"} /\ in.pos \in Nat
    BY DEF IInv, Types, Input
  <1>1. PICK text \in Opened(in.file) :
          LET i == in.pos + 1
          IN  \/ in' = [in EXCEPT !.pos = i] /\ line' = line
              \/ /\ IsClosed(text, i) /\ in' = [in EXCEPT !.pos = Min(Closes(text, i))]
                 /\ line' = "runs"
              \/ in' = [in EXCEPT !.eof = TRUE] /\ line' = line
    BY DEF GetLine_Cmdly
  <1> DEFINE i == in.pos + 1
             m == Min(Closes(text, i))
  <1>2. IsClosed(text, i) => m \in Nat
    BY <1>0, OpenedText, ClosesFacts
  <1>3. i \in Nat
    BY <1>0
  <1>4. \/ in' = [in EXCEPT !.pos = i] /\ line' = line
        \/ IsClosed(text, i) /\ in' = [in EXCEPT !.pos = m] /\ line' = "runs"
        \/ in' = [in EXCEPT !.eof = TRUE] /\ line' = line
    BY <1>1
  <1> HIDE DEF i, m
  <1>5. \A n \in Nat : [in EXCEPT !.pos = n] \in Input /\ [in EXCEPT !.pos = n].batch = in.batch
    BY <1>0 DEF Input
  <1>6. [in EXCEPT !.eof = TRUE] \in Input /\ [in EXCEPT !.eof = TRUE].batch = in.batch
    BY <1>0 DEF Input
  <1> QED BY <1>0, <1>2, <1>3, <1>4, <1>5, <1>6

LEMMA GetLineCmdlyStep == ASSUME IInv, GetLine_Cmdly PROVE IInv'
  <1>1. Swap(in.batch, lists, in'.batch, lists')
    <2>1. in.batch \in Batch /\ lists \in ListTable /\ Live(in.batch, lists)
      BY DEF IInv, Types, AllLive, Input, ListTable
    <2>2. lists' = lists /\ in'.batch = in.batch
      BY GetLineCmdlyFacts DEF GetLine_Cmdly
    <2> QED BY <2>1, <2>2, SwapSame
  <1>2. AllLive' /\ InnerIsCopy'
    BY <1>1, GetLineCmdlyFacts, LevelSwaps DEF GetLine_Cmdly
  <1>3. Types'
    BY GetLineCmdlyFacts DEF IInv, Types, GetLine_Cmdly
  <1> QED BY <1>2, <1>3 DEF IInv

LEMMA JumpStep ==
    ASSUME IInv, NEW i \in {in, Copy}, FreeLists(lists) # {},
           NEW l \in Labels, NEW f \in Files \cup {NULL}, NEW jump \in JumpToLabel(i, l, f)
    PROVE  jump.in \in Input /\ Swap(i.batch, lists, jump.in.batch, jump.lists)
           /\ jump.lists \in ListTable
  <1>1. i \in Input /\ Live(i.batch, lists) /\ lists \in ListTable
        /\ files \in [Files -> Texts \cup {NULL}]
    BY CopyFacts DEF IInv, Types, AllLive, ListTable
  <1>2. IsJump(i, lists, jump)
    BY <1>1, JumpFacts
  <1> QED BY <1>2 DEF IsJump, Swap

LEMMA CmdGotoStep == ASSUME IInv, CmdGoto PROVE IInv'
  <1>1. PICK l \in Labels, f \in Files \cup {NULL} :
          \E jump \in JumpToLabel(in, l, f) :
            /\ in' = jump.in /\ lists' = jump.lists
            /\ sure' = [sure EXCEPT ![1] = @ \/ (jump.how = "jumped" /\ Certain(f))]
    BY DEF CmdGoto
  <1>2. PICK jump \in JumpToLabel(in, l, f) :
            /\ in' = jump.in /\ lists' = jump.lists
            /\ sure' = [sure EXCEPT ![1] = @ \/ (jump.how = "jumped" /\ Certain(f))]
    BY <1>1
  <1>3. in' \in Input /\ Swap(in.batch, lists, in'.batch, lists') /\ lists' \in ListTable
    BY <1>2, JumpStep DEF CmdGoto
  <1>4. AllLive' /\ InnerIsCopy'
    BY <1>3, LevelSwaps DEF CmdGoto
  <1>5. sure' \in Seq(BOOLEAN) /\ Len(sure') = Len(saved) + 1
    <2>1. PICK e \in BOOLEAN : sure' = [sure EXCEPT ![1] = e]
      BY <1>2, Zenon
    <2>2. sure \in [1 .. Len(saved) + 1 -> BOOLEAN] /\ Len(saved) \in Nat
      BY DEF IInv, Types
    <2>3. sure' \in [1 .. Len(saved) + 1 -> BOOLEAN]
      BY <2>1, <2>2
    <2> QED BY <2>2, <2>3
  <1>6. line' \in {"none", "runs", "exit"} /\ phase' \in {"running", "done", "undefined"}
    BY DEF CmdGoto
  <1>7. Types'
    BY <1>3, <1>5, <1>6 DEF IInv, Types, CmdGoto, ListTable
  <1> QED BY <1>4, <1>7 DEF IInv

LEMMA PushTypes ==
    ASSUME IInv, Len(saved) < MaxDepth, saved' = <<in>> \o saved,
           NEW e \in BOOLEAN, sure' = <<e>> \o sure
    PROVE  /\ saved' \in Seq(Input) /\ Len(saved') <= MaxDepth
           /\ sure' \in Seq(BOOLEAN) /\ Len(sure') = Len(saved') + 1
  <1>1. in \in Input /\ saved \in Seq(Input) /\ sure \in Seq(BOOLEAN) /\ Len(sure) = Len(saved) + 1
    BY DEF IInv, Types
  <1>2. saved' \in Seq(Input) /\ Len(saved') = Len(saved) + 1
    BY <1>1, PushFacts
  <1>3. sure' \in Seq(BOOLEAN) /\ Len(sure') = Len(sure) + 1
    BY <1>1, PushFacts
  <1> QED BY <1>1, <1>2, <1>3, BoundsAssumption

LEMMA CmdCallFileStep == ASSUME IInv, CmdCallFile PROVE IInv'
  <1>1. PICK f \in Files : /\ in' = [Copy EXCEPT !.eof = FALSE, !.pos = 0, !.file = f]
                           /\ sure' = <<Certain(f)>> \o sure
    BY DEF CmdCallFile
  <1>2. in' \in Input /\ in'.batch = Copy.batch
    BY <1>1, CopyFacts DEF Input
  <1>3. Swap(Copy.batch, lists, in'.batch, lists')
    BY <1>2, CopyFacts, SwapSame DEF CmdCallFile, IInv, Types, ListTable
  <1>4. AllLive' /\ InnerIsCopy'
    BY <1>2, <1>3, LevelPushed DEF CmdCallFile
  <1>5. \E e \in BOOLEAN : sure' = <<e>> \o sure
    BY <1>1, Zenon DEF Certain
  <1>6. /\ saved' \in Seq(Input) /\ Len(saved') <= MaxDepth
        /\ sure' \in Seq(BOOLEAN) /\ Len(sure') = Len(saved') + 1
    BY <1>5, PushTypes DEF CmdCallFile
  <1>7. Types'
    BY <1>2, <1>6 DEF IInv, Types, CmdCallFile
  <1> QED BY <1>4, <1>7 DEF IInv

LEMMA CmdCallLabelStep == ASSUME IInv, CmdCallLabel PROVE IInv'
  <1>1. PICK l \in Labels, f \in Files \cup {NULL} :
          \E jump \in JumpToLabel(Copy, l, f) :
            /\ in' = jump.in /\ lists' = jump.lists
            /\ sure' = <<Certain(f) \/ Head(sure)>> \o sure
    BY DEF CmdCallLabel
  <1>2. in' \in Input /\ Swap(Copy.batch, lists, in'.batch, lists') /\ lists' \in ListTable
    BY <1>1, JumpStep DEF CmdCallLabel
  <1>3. AllLive' /\ InnerIsCopy'
    BY <1>2, LevelPushed DEF CmdCallLabel
  <1>4. \E e \in BOOLEAN : sure' = <<e>> \o sure
    BY <1>1, Zenon
  <1>5. /\ saved' \in Seq(Input) /\ Len(saved') <= MaxDepth
        /\ sure' \in Seq(BOOLEAN) /\ Len(sure') = Len(saved') + 1
    BY <1>4, PushTypes DEF CmdCallLabel
  <1>6. Types'
    BY <1>2, <1>5 DEF IInv, Types, CmdCallLabel, ListTable
  <1> QED BY <1>3, <1>6 DEF IInv

LEMMA CallFailsStep == ASSUME IInv, CallFails PROVE IInv'
  <1>1. PICK l \in Labels, f \in Files \cup {NULL} :
          \E jump \in JumpToLabel(Copy, l, f) : in' = jump.in /\ lists' = jump.lists
    BY DEF CallFails
  <1>2. in' \in Input /\ Swap(Copy.batch, lists, in'.batch, lists') /\ lists' \in ListTable
    BY <1>1, JumpStep DEF CallFails
  <1>3. AllLive' /\ InnerIsCopy'
    BY <1>2, LevelSwaps DEF CallFails
  <1>4. phase' \in {"running", "done", "undefined"}
    BY DEF CallFails
  <1>5. Types'
    BY <1>2, <1>4 DEF IInv, Types, CallFails, ListTable
  <1> QED BY <1>3, <1>5 DEF IInv

LEMMA CallReturnsStep == ASSUME IInv, CallReturns PROVE IInv'
  <1>1. AllLive' /\ InnerIsCopy'
    BY LevelPopped DEF CallReturns
  <1>2. in.batch \in Batch /\ lists \in ListTable /\ saved \in Seq(Input) /\ saved # <<>>
        /\ sure \in Seq(BOOLEAN) /\ Len(sure) = Len(saved) + 1 /\ sure # <<>>
    BY DEF IInv, Types, Input, ListTable, CallReturns
  <1>3. lists' \in ListTable
    BY <1>2, FreeType DEF CallReturns
  <1>4. in' \in Input /\ saved' \in Seq(Input) /\ Len(saved') = Len(saved) - 1
    BY <1>2, PopFacts DEF CallReturns
  <1>5. sure' \in Seq(BOOLEAN) /\ Len(sure') = Len(sure) - 1
    BY <1>2, PopFacts DEF CallReturns
  <1>6. Len(saved') <= MaxDepth /\ Len(sure') = Len(saved') + 1
    BY <1>2, <1>4, <1>5, BoundsAssumption DEF IInv, Types
  <1>7. Types'
    BY <1>3, <1>4, <1>5, <1>6 DEF IInv, Types, CallReturns, ListTable
  <1> QED BY <1>1, <1>7 DEF IInv

LEMMA CmdSetLocalStep == ASSUME IInv, CmdSetLocal PROVE IInv'
  <1>1. AllLive' /\ InnerIsCopy'
    BY LevelsStay DEF CmdSetLocal
  <1>2. sure' \in Seq(BOOLEAN) /\ Len(sure') = Len(saved) + 1
    BY DEF IInv, Types, CmdSetLocal
  <1>3. cmdly' \in BOOLEAN /\ switches' \in 0 .. MaxSwitches
    BY BoundsAssumption DEF IInv, Types, CmdSetLocal
  <1>4. Types'
    BY <1>2, <1>3 DEF IInv, Types, CmdSetLocal
  <1> QED BY <1>1, <1>4 DEF IInv

LEMMA EditStep == ASSUME IInv, Edit PROVE IInv'
  <1>1. AllLive' /\ InnerIsCopy'
    BY LevelsStay DEF Edit
  <1>2. PICK f \in Files, text \in Texts \cup {NULL} :
          /\ files' = [files EXCEPT ![f] = text]
          /\ sure' = [i \in DOMAIN sure |-> sure[i] /\ Levels[i].file # f]
    BY DEF Edit
  <1>3. sure' \in Seq(BOOLEAN) /\ Len(sure') = Len(saved) + 1
    <2>1. \A i \in DOMAIN sure : (sure[i] /\ Levels[i].file # f) \in BOOLEAN
      OBVIOUS
    <2>2. sure' \in [1 .. Len(saved) + 1 -> BOOLEAN]
      BY <1>2, <2>1 DEF IInv, Types
    <2> QED BY <2>2 DEF IInv, Types
  <1>4. edits' \in 0 .. MaxEdits /\ files' \in [Files -> Texts \cup {NULL}]
    BY <1>2, BoundsAssumption DEF IInv, Types, Edit
  <1>5. Types'
    BY <1>3, <1>4 DEF IInv, Types, Edit
  <1> QED BY <1>1, <1>5 DEF IInv

LEMMA OtherSteps ==
    ASSUME IInv, EndOfLine \/ CmdGotoEof \/ MainEnds \/ OutOfMemory \/ UNCHANGED vars
    PROVE  IInv'
  <1>1. UNCHANGED <<files, lists, in, saved, cmdly, sure, edits, switches>>
    BY DEF EndOfLine, CmdGotoEof, MainEnds, OutOfMemory, vars
  <1>2. line' \in {"none", "runs", "exit"} /\ phase' \in {"running", "done", "undefined"}
    BY DEF IInv, Types, EndOfLine, CmdGotoEof, MainEnds, OutOfMemory, vars
  <1>3. AllLive' /\ InnerIsCopy'
    BY <1>1, LevelsStay
  <1>4. Types'
    BY <1>1, <1>2 DEF IInv, Types
  <1> QED BY <1>3, <1>4 DEF IInv

LEMMA Step == ASSUME IInv, [Next]_vars PROVE IInv'
  BY GetLineStep, GetLineCmdlyStep, CmdGotoStep, CmdCallFileStep, CmdCallLabelStep,
     CallFailsStep, CallReturnsStep, CmdSetLocalStep, EditStep, OtherSteps DEF Next, Stopped

\* The inductive invariant holds: every level holds a list that is loaded or none, and of
\* the levels that share a list, only the outermost may free it.
THEOREM SpecInv == Spec => []IInv
  <1>1. Init => IInv
    BY Initially
  <1>2. IInv /\ [Next]_vars => IInv'
    BY Step
  <1> QED BY <1>1, <1>2, PTL DEF Spec

-----------------------------------------------------------------------------
(* What the invariant says of the properties. *)

\* The levels, one sequence, are the running one and those that are saved.
LEMMA LevelsAre ==
    ASSUME saved \in Seq(Input), in \in Input
    PROVE  /\ Len(Levels) = Len(saved) + 1
           /\ DOMAIN Levels = 1 .. Len(saved) + 1
           /\ Levels[1] = in
           /\ \A k \in DOMAIN Levels :
                k = 1 \/ (k > 1 /\ k - 1 \in DOMAIN saved /\ Levels[k] = saved[k - 1])
           /\ \A k \in DOMAIN saved : k + 1 \in DOMAIN Levels /\ Levels[k + 1] = saved[k]
  <1>1. Levels = <<in>> \o saved
    BY DEF Levels
  <1> QED BY <1>1, PushFacts

LEMMA LevelFacts ==
    ASSUME IInv, NEW k \in DOMAIN Levels
    PROVE  Levels[k] \in Input /\ Live(Levels[k].batch, lists)
  <1>1. in \in Input /\ saved \in Seq(Input)
    BY DEF IInv, Types
  <1>2. CASE k = 1
    BY <1>1, <1>2, LevelsAre DEF IInv, AllLive
  <1>3. CASE k # 1
    BY <1>1, <1>3, LevelsAre DEF IInv, AllLive
  <1> QED BY <1>2, <1>3

LEMMA InvTypeOK == ASSUME IInv PROVE TypeOK
  <1>1. Len(sure) = Len(Levels)
    BY LevelsAre DEF IInv, Types
  <1>2. \A k \in DOMAIN Levels : (Levels[k].batch.name = NULL) = (Levels[k].batch.list = NULL)
    BY LevelFacts DEF Live
  <1> QED BY <1>1, <1>2 DEF IInv, Types, TypeOK

LEMMA InvNoFreedList == ASSUME IInv PROVE NoFreedList
  BY LevelFacts DEF NoFreedList, Live

LEMMA InvOneOwner == ASSUME IInv PROVE OneOwner
  <1>0. in \in Input /\ saved \in Seq(Input)
    BY DEF IInv, Types
  <1>1. ASSUME NEW k \in DOMAIN Levels, NEW m \in DOMAIN Levels, k < m,
               Levels[k].batch.list = Levels[m].batch.list, Levels[k].batch.list # NULL
        PROVE  Levels[k].batch.cpy
    <2>0. k \in Nat /\ m \in Nat /\ k >= 1
      BY <1>0, LevelsAre
    <2>1. m - 1 \in DOMAIN saved /\ Levels[m] = saved[m - 1]
      BY <1>0, <1>1, <2>0, LevelsAre
    <2>2. CASE k = 1
      BY <1>0, <1>1, <2>1, <2>2, LevelsAre DEF IInv, InnerIsCopy, Shares
    <2>3. CASE k # 1
      <3>1. k - 1 \in DOMAIN saved /\ Levels[k] = saved[k - 1] /\ k - 1 < m - 1
        BY <1>0, <1>1, <2>0, <2>3, LevelsAre
      <3> QED BY <1>1, <2>1, <3>1 DEF IInv, InnerIsCopy, Shares
    <2> QED BY <2>2, <2>3
  <1>2. \A k, m \in DOMAIN Levels : k # m => k < m \/ m < k
    BY <1>0, LevelsAre
  <1> QED BY <1>1, <1>2 DEF OneOwner

\* Every variable keeps its type, and a structure that has a name has a list.
THEOREM TypeCorrect == Spec => []TypeOK
  BY SpecInv, InvTypeOK, PTL

\* No level is left with a list of commands that was freed, however deep CALL is nested,
\* whichever levels share a list and however often files change.
THEOREM NoFreedListHolds == Spec => []NoFreedList
  BY SpecInv, InvNoFreedList, PTL

\* Of two levels that share a list, one is marked as a copy: no list is freed twice.
THEOREM OneOwnerHolds == Spec => []OneOwner
  BY SpecInv, InvOneOwner, PTL

-----------------------------------------------------------------------------
(* The lists that are lost. *)

\* A list that no level owns, level by level.
Unowned(l) ==
    /\ in.batch.cpy \/ in.batch.list # l
    /\ \A k \in DOMAIN saved : saved[k].batch.cpy \/ saved[k].batch.list # l

LeakedAre == Leaked = {l \in Lists : lists[l] # NULL /\ Unowned(l)}

LEMMA LeakedIs == IInv => LeakedAre
  <1> SUFFICES ASSUME saved \in Seq(Input), in \in Input
               PROVE  Leaked = {l \in Lists : lists[l] # NULL /\ Unowned(l)}
    BY DEF LeakedAre, IInv, Types
  <1>1. ASSUME NEW l \in Lists PROVE l \notin Owned <=> Unowned(l)
    <2>1. l \notin Owned <=> \A k \in DOMAIN Levels : Levels[k].batch.cpy \/ Levels[k].batch.list # l
      BY DEF Owned
    <2>2. 1 \in DOMAIN Levels
      BY LevelsAre
    <2> QED BY <2>1, <2>2, LevelsAre DEF Unowned
  <1> QED BY <1>1 DEF Leaked

\* A function loses no list that its structure does not own.
LEMMA SwapLoses ==
    ASSUME NEW b \in Batch, NEW c, NEW h \in ListTable, NEW g, Swap(b, h, c, g),
           NEW l \in Lists, g[l] # NULL, c.cpy \/ c.list # l
    PROVE  h[l] # NULL /\ (b.cpy \/ b.list # l)
  <1>1. CASE Same(b, h, c, g)
    BY <1>1 DEF Same
  <1>2. CASE Fresh(b, h, c, g)
    <2>1. g[l] = FreeBatchScript(b, h)[l]
      BY <1>2 DEF Fresh
    <2> QED BY <2>1, FreeType
  <1> QED BY <1>1, <1>2 DEF Swap

LEMMA NoLeakStep ==
    ASSUME IInv, [Next]_vars PROVE [Leaked' \subseteq Leaked \/ CallFails]_vars
  <1>0. IInv'
    BY Step
  <1>1. /\ in \in Input /\ saved \in Seq(Input) /\ in.batch \in Batch /\ lists \in ListTable
        /\ in' \in Input /\ saved' \in Seq(Input)
    BY <1>0 DEF IInv, Types, Input, ListTable
  <1>2. Leaked = {l \in Lists : lists[l] # NULL /\ Unowned(l)}
    BY LeakedIs DEF LeakedAre
  <1>3. Leaked' = {l \in Lists : lists'[l] # NULL /\ Unowned(l)'}
    <2>1. LeakedAre'
      BY <1>0, LeakedIs, PTL
    <2> QED BY <2>1 DEF LeakedAre
  <1>4. SUFFICES ASSUME NEW l \in Lists, lists'[l] # NULL, Unowned(l)', ~CallFails
                 PROVE  lists[l] # NULL /\ Unowned(l)
    BY <1>2, <1>3
  <1>5. /\ in'.batch.cpy \/ in'.batch.list # l
        /\ \A k \in DOMAIN saved' : saved'[k].batch.cpy \/ saved'[k].batch.list # l
    BY <1>4 DEF Unowned
  <1>6. CASE Swap(in.batch, lists, in'.batch, lists') /\ saved' = saved
    BY <1>1, <1>4, <1>5, <1>6, SwapLoses DEF Unowned
  <1>7. CASE Swap(Copy.batch, lists, in'.batch, lists') /\ saved' = <<in>> \o saved
    <2>1. lists[l] # NULL
      BY <1>1, <1>4, <1>5, <1>7, SwapLoses, CopyFacts
    <2>2. 1 \in DOMAIN saved' /\ saved'[1] = in
      BY <1>1, <1>7, PushFacts
    <2>3. \A k \in DOMAIN saved : k + 1 \in DOMAIN saved' /\ saved'[k + 1] = saved[k]
      BY <1>1, <1>7
    <2> QED BY <1>5, <2>1, <2>2, <2>3 DEF Unowned
  <1>8. CASE CallReturns
    <2>1. lists[l] # NULL /\ (in.batch.cpy \/ in.batch.list # l)
      BY <1>1, <1>4, <1>8, FreeType DEF CallReturns
    <2>2. \A k \in DOMAIN saved : saved[k].batch.cpy \/ saved[k].batch.list # l
      <3> TAKE k \in DOMAIN saved
      <3>1. CASE k = 1
        BY <1>1, <1>5, <1>8, <3>1, PopFacts DEF CallReturns
      <3>2. CASE k # 1
        <4>1. k - 1 \in DOMAIN saved' /\ saved'[k - 1] = saved[k]
          BY <1>1, <1>8, <3>2, PopFacts DEF CallReturns
        <4> QED BY <1>5, <4>1
      <3> QED BY <3>1, <3>2
    <2> QED BY <2>1, <2>2 DEF Unowned
  <1>9. CASE UNCHANGED <<in, saved, lists>>
    BY <1>4, <1>5, <1>9 DEF Unowned
  <1>10. CASE GetLine
    BY <1>6, <1>10, GetLineFacts DEF GetLine
  <1>11. CASE GetLine_Cmdly
    BY <1>4, <1>5, <1>11, GetLineCmdlyFacts DEF Unowned, GetLine_Cmdly
  <1>12. CASE CmdGoto
    <2>1. Swap(in.batch, lists, in'.batch, lists')
      BY <1>12, JumpStep DEF CmdGoto
    <2> QED BY <1>6, <1>12, <2>1 DEF CmdGoto
  <1>13. CASE CmdCallLabel
    <2>1. Swap(Copy.batch, lists, in'.batch, lists')
      BY <1>13, JumpStep DEF CmdCallLabel
    <2> QED BY <1>7, <1>13, <2>1 DEF CmdCallLabel
  <1>14. CASE CmdCallFile
    <2>1. in'.batch = Copy.batch
      BY <1>14, CopyFacts DEF CmdCallFile, Input
    <2>2. Swap(Copy.batch, lists, in'.batch, lists')
      BY <1>1, <1>14, <2>1, CopyFacts, SwapSame DEF CmdCallFile
    <2> QED BY <1>7, <1>14, <2>2 DEF CmdCallFile
  <1>15. CASE \/ EndOfLine \/ CmdGotoEof \/ MainEnds \/ OutOfMemory \/ CmdSetLocal \/ Edit
              \/ Stopped \/ UNCHANGED vars
    BY <1>9, <1>15 DEF EndOfLine, CmdGotoEof, MainEnds, OutOfMemory, CmdSetLocal, Edit,
                       Stopped, vars
  <1> QED BY <1>4, <1>8, <1>10, <1>11, <1>12, <1>13, <1>14, <1>15 DEF Next

\* A list that is in use is lost by no step but a CALL of a label that fails, whatever
\* the number of levels, files and modifications.
THEOREM NoLeakHolds == Spec => NoLeak
  <1>1. IInv /\ [Next]_vars => [Leaked' \subseteq Leaked \/ CallFails]_vars
    BY NoLeakStep
  <1> QED BY <1>1, SpecInv, PTL DEF Spec, NoLeak

-----------------------------------------------------------------------------
(* The operators of Scripts, as Reader sees them. *)

LEMMA SameFollowing == ASSUME NEW t, NEW i PROVE R!Following(t, i) = Following(t, i)
  BY DEF R!Following, Following, R!IsCommand, IsCommand, R!Min, Min

LEMMA SameAfter == ASSUME NEW t, NEW i PROVE R!After(t, i) = After(t, i)
  BY SameFollowing DEF R!After, After, R!IsClosed, IsClosed, R!Closes, Closes,
                       R!IsCommand, IsCommand, R!Min, Min

LEMMA SameLabels ==
    ASSUME NEW t, NEW l
    PROVE  R!HasLabel(t, l) = HasLabel(t, l) /\ R!Target(t, l) = Target(t, l)
  BY SameFollowing DEF R!Target, Target, R!HasLabel, HasLabel, R!Labelled, Labelled, R!Min, Min

-----------------------------------------------------------------------------
(* The mapping, with the variables it reads as arguments. *)

At(i, t, m) ==
    IF m THEN Following(t[i.file], i.pos + 1)
    ELSE IF i.batch.name = i.file THEN i.batch.curr ELSE Following(t[i.file], 1)
Lvl(i, s, t, m) == [file |-> i.file, at |-> IF s THEN At(i, t, m) ELSE 0]
Rest(sv, u, t, m) == [k \in 1 .. Len(sv) |-> Lvl(sv[k], u[k + 1], t, m)]
AbsOf(i, sv, u, t, m) == <<Lvl(i, u[1], t, m)>> \o Rest(sv, u, t, m)

Abs == [k \in DOMAIN Levels |-> LevelAt(k)]
AbsIs == Abs = AbsOf(in, saved, sure, files, cmdly)

LEMMA RestType ==
    ASSUME NEW sv \in Seq(Input), NEW u, NEW t, NEW m
    PROVE  /\ \E S : Rest(sv, u, t, m) \in Seq(S)
           /\ Len(Rest(sv, u, t, m)) = Len(sv) /\ DOMAIN Rest(sv, u, t, m) = 1 .. Len(sv)
           /\ \A k \in 1 .. Len(sv) : Rest(sv, u, t, m)[k] = Lvl(sv[k], u[k + 1], t, m)
  <1> DEFINE S == {Lvl(sv[k], u[k + 1], t, m) : k \in 1 .. Len(sv)}
  <1>1. Rest(sv, u, t, m) \in [1 .. Len(sv) -> S]
    BY DEF Rest
  <1> HIDE DEF S
  <1>2. Rest(sv, u, t, m) \in Seq(S) /\ Len(Rest(sv, u, t, m)) = Len(sv)
    BY <1>1
  <1> QED BY <1>2 DEF Rest

LEMMA MappingIs == IInv => AbsIs
  <1> SUFFICES ASSUME IInv PROVE Abs = AbsOf(in, saved, sure, files, cmdly)
    BY DEF AbsIs
  <1>1. in \in Input /\ saved \in Seq(Input) /\ Len(saved) \in Nat
    BY DEF IInv, Types
  <1> DEFINE r == Rest(saved, sure, files, cmdly)
             x == Lvl(in, sure[1], files, cmdly)
  <1>2. /\ \E S : r \in Seq(S)
        /\ Len(r) = Len(saved)
        /\ \A k \in 1 .. Len(saved) : r[k] = Lvl(saved[k], sure[k + 1], files, cmdly)
    BY <1>1, RestType
  <1>3. \A k \in DOMAIN Levels : Abs[k] = Lvl(Levels[k], sure[k], files, cmdly)
    BY DEF Abs, LevelAt, Lvl, Position, At
  <1>4. DOMAIN Levels = 1 .. Len(saved) + 1 /\ DOMAIN Abs = 1 .. Len(saved) + 1
    BY <1>1, LevelsAre DEF Abs
  <1> HIDE DEF r, x
  <1>5. /\ DOMAIN (<<x>> \o r) = 1 .. Len(saved) + 1
        /\ (<<x>> \o r)[1] = x
        /\ \A k \in 1 .. Len(saved) + 1 : k # 1 => (<<x>> \o r)[k] = r[k - 1]
    BY <1>1, <1>2
  <1>6. \A k \in 1 .. Len(saved) + 1 : Abs[k] = (<<x>> \o r)[k]
    <2> TAKE k \in 1 .. Len(saved) + 1
    <2>1. CASE k = 1
      BY <1>1, <1>3, <1>4, <1>5, <2>1, LevelsAre DEF x
    <2>2. CASE k # 1
      <3>1. Levels[k] = saved[k - 1] /\ k - 1 \in 1 .. Len(saved)
        BY <1>1, <1>4, <2>2, LevelsAre
      <3>2. r[k - 1] = Lvl(saved[k - 1], sure[(k - 1) + 1], files, cmdly) /\ (k - 1) + 1 = k
        BY <1>2, <3>1
      <3> QED BY <1>3, <1>4, <1>5, <2>2, <3>1, <3>2
    <2> QED BY <2>1, <2>2
  <1>7. Abs = <<x>> \o r
    <2>1. Abs = [k \in 1 .. Len(saved) + 1 |-> Abs[k]]
      BY <1>4 DEF Abs
    <2>2. <<x>> \o r = [k \in 1 .. Len(saved) + 1 |-> (<<x>> \o r)[k]]
      BY <1>2, <1>5
    <2> QED BY <1>6, <2>1, <2>2
  <1> QED BY <1>7 DEF AbsOf, r, x

-----------------------------------------------------------------------------
(* The invariant: a level that knows where it is reads a file that exists, *)
(* and if its list is of that file, the list is what the file contains.    *)

Placed(i, s, h, t, m) ==
    s => /\ t[i.file] # NULL
         /\ ~m /\ i.batch.name = i.file => h[i.batch.list] = t[i.file]

\* While a command runs, its list is of the file it was read from.
Read(i, s, m) == s /\ ~m => i.batch.name \in {NULL, i.file}

AllPlaced ==
    /\ Placed(in, sure[1], lists, files, cmdly)
    /\ \A k \in 1 .. Len(saved) : Placed(saved[k], sure[k + 1], lists, files, cmdly)
AllRead ==
    /\ line = "runs" => Read(in, sure[1], cmdly)
    /\ \A k \in 1 .. Len(saved) : Read(saved[k], sure[k + 1], cmdly)

OInv == IInv /\ AllPlaced /\ AllRead

LEMMA StateFacts ==
    ASSUME IInv
    PROVE  /\ in \in Input /\ in.batch \in Batch /\ in.file \in Files /\ in.pos \in Nat
           /\ Live(in.batch, lists) /\ lists \in ListTable
           /\ files \in [Files -> Texts \cup {NULL}]
           /\ saved \in Seq(Input) /\ Len(saved) \in Nat
           /\ sure \in Seq(BOOLEAN) /\ Len(sure) = Len(saved) + 1 /\ DOMAIN sure = 1 .. Len(saved) + 1
  BY DEF IInv, Types, AllLive, Input, ListTable

LEMMA FileText ==
    ASSUME IInv, NEW f \in Files, files[f] # NULL
    PROVE  files[f] \in Texts /\ files[f] \in Seq(Entry)
           /\ Following(files[f], 1) \in Nat /\ Following(files[f], 1) > 0
  <1>1. files[f] \in Texts
    BY StateFacts
  <1> QED BY <1>1, TextsAssumption, FollowingFacts

\* A level that knows where it is is at a line or past the end.
LEMMA AtPositive ==
    ASSUME IInv, NEW i \in Input, Live(i.batch, lists), Placed(i, TRUE, lists, files, cmdly)
    PROVE  At(i, files, cmdly) \in Nat /\ At(i, files, cmdly) > 0
  <1>1. files[i.file] \in Seq(Entry) /\ i.file \in Files
    BY FileText DEF Placed, Input
  <1>2. \A j \in Nat : Following(files[i.file], j + 1) \in Nat /\ Following(files[i.file], j + 1) > 0
    BY <1>1, FollowingFacts
  <1>3. i.pos \in Nat /\ i.batch.curr \in Nat /\ i.batch.curr > 0
    BY DEF Input, Batch, Live
  <1>4. Following(files[i.file], 1) \in Nat /\ Following(files[i.file], 1) > 0
    BY <1>1, FollowingFacts
  <1> QED BY <1>2, <1>3, <1>4 DEF At

\* Bringing the structure of such a level up to date does not move it.
LEMMA UpdatePlaced ==
    ASSUME IInv, FreeLists(lists) # {}, NEW i \in {in, Copy},
           Placed(i, TRUE, lists, files, FALSE), NEW r \in UpdateScript(i)
    PROVE  /\ r.ok => /\ r.batch.name = i.file /\ r.lists[r.batch.list] = files[i.file]
                      /\ r.batch.curr = At(i, files, FALSE)
           /\ ~r.ok => r.batch = NotLoaded /\ i.batch.name # i.file
  <1>0. /\ i \in Input /\ i.batch \in Batch /\ i.file \in Files /\ Live(i.batch, lists)
        /\ lists \in ListTable /\ files \in [Files -> Texts \cup {NULL}]
    BY CopyFacts, StateFacts DEF Input
  <1>1. CASE i.batch.name = i.file
    <2>1. ~SizeChanged(i.batch)
      BY <1>1 DEF SizeChanged, Placed
    <2>2. r = Loaded(i.batch, lists, TRUE)
      BY <1>1, <2>1 DEF UpdateScript
    <2>3. r.ok = TRUE /\ r.batch = i.batch /\ r.lists = lists
      BY <2>2 DEF Loaded
    <2> QED BY <1>1, <2>3 DEF Placed, At
  <1>2. CASE i.batch.name # i.file
    <2>1. r \in OpenBatchScript(i.file, FreeBatchScript(i.batch, lists))
      BY <1>2 DEF UpdateScript
    <2>2. FreeBatchScript(i.batch, lists) \in ListTable
          /\ FreeLists(FreeBatchScript(i.batch, lists)) # {}
      BY <1>0, FreeType
    <2>3. /\ r.ok => /\ r.batch.name = i.file /\ r.lists[r.batch.list] = files[i.file]
                     /\ r.batch.curr = Following(files[i.file], 1)
          /\ ~r.ok => r.batch = NotLoaded
      BY <1>0, <2>1, <2>2, OpenFacts
    <2> QED BY <1>2, <2>3 DEF At
  <1> QED BY <1>1, <1>2

\* A jump leads to the label in the file as it is now if it looks at that file, or if the
\* level knew where it was. It stays in the file unless it names another.
JumpIsPlaced(i, s, l, f, jump) ==
    LET j == jump.in
        now == s \/ (jump.how = "jumped" /\ Certain(f))
    IN  /\ now => /\ Placed(j, TRUE, jump.lists, files, cmdly)
                  /\ Read(i, TRUE, cmdly) \/ jump.how = "jumped" => Read(j, TRUE, cmdly)
                  /\ IF jump.how = "jumped"
                     THEN /\ HasLabel(files[j.file], l)
                          /\ At(j, files, cmdly) = Target(files[j.file], l)
                     ELSE At(j, files, cmdly) = At(i, files, cmdly)
        /\ ~(jump.how = "jumped" /\ Certain(f)) => j.file = i.file

LEMMA JumpInFilePlaced ==
    ASSUME IInv, FreeLists(lists) # {}, ~cmdly, NEW i \in {in, Copy}, NEW s \in BOOLEAN,
           Placed(i, s, lists, files, FALSE),
           NEW l \in Labels, NEW f \in {NULL, in.batch.name}, NEW jump \in JumpInFile(i, l)
    PROVE  JumpIsPlaced(i, s, l, f, jump)
  <1> DEFINE J(r) == [i EXCEPT !.batch = r.batch]
             T(r) == r.lists[r.batch.list]
             n(r) == Target(T(r), l)
             K(r) == [i EXCEPT !.batch = [r.batch EXCEPT !.curr = n(r)]]
  <1>0. /\ i \in Input /\ i.batch \in Batch /\ i.file \in Files /\ Live(i.batch, lists)
        /\ lists \in ListTable /\ files \in [Files -> Texts \cup {NULL}]
    BY CopyFacts, StateFacts DEF Input
  <1>1. ~Certain(f) /\ cmdly = FALSE
    BY DEF Certain, IInv, Types
  <1>2. PICK r \in UpdateScript(i) :
            \/ ~r.ok /\ jump = Jump(J(r), r.lists, "failed")
            \/ /\ r.ok /\ HasLabel(T(r), l)
               /\ jump = Jump([J(r) EXCEPT !.batch.curr = n(r)], r.lists, "jumped")
            \/ /\ r.ok
               /\ \E how \in {"failed", "undefined"} : jump = Jump(J(r), r.lists, how)
    BY DEF JumpInFile
  <1>3. r.batch \in Batch
    BY <1>0, UpdateIsSwap DEF Swap
  <1>4. J(r) \in Input /\ J(r).batch = r.batch /\ J(r).file = i.file /\ J(r).pos = i.pos
    BY <1>0, <1>3 DEF Input
  <1>5. /\ [J(r) EXCEPT !.batch.curr = n(r)] = K(r) /\ K(r).file = i.file
        /\ K(r).batch.name = r.batch.name /\ K(r).batch.list = r.batch.list
        /\ K(r).batch.curr = n(r)
    BY <1>0, <1>3 DEF Input, Batch
  <1>6. jump.in \in {J(r), K(r)} /\ jump.lists = r.lists /\ jump.in.file = i.file
        /\ (jump.how = "jumped" => r.ok /\ HasLabel(T(r), l) /\ jump.in = K(r))
        /\ (jump.how # "jumped" => jump.in = J(r))
    <2> HIDE DEF J, K
    <2> QED BY <1>2, <1>4, <1>5 DEF Jump
  <1>7. CASE ~s
    BY <1>1, <1>6, <1>7 DEF JumpIsPlaced
  <1>8. CASE s
    <2>0. Placed(i, TRUE, lists, files, FALSE)
      BY <1>8 DEF Placed
    <2>1. /\ r.ok => /\ r.batch.name = i.file /\ r.lists[r.batch.list] = files[i.file]
                     /\ r.batch.curr = At(i, files, FALSE)
          /\ ~r.ok => r.batch = NotLoaded /\ i.batch.name # i.file
      BY <2>0, UpdatePlaced
    <2>2. files[i.file] # NULL
      BY <2>0 DEF Placed
    <2> DEFINE j == jump.in
    <2>3. j.file = i.file /\ j.batch.name = r.batch.name /\ j.batch.list = r.batch.list
      BY <1>4, <1>5, <1>6
    <2>4. NotLoaded.name = NULL /\ NULL # i.file
      BY <1>0, FilesAssumption DEF NotLoaded
    <2>5. Placed(j, TRUE, jump.lists, files, FALSE) /\ Read(j, TRUE, FALSE)
      <3> HIDE DEF j
      <3> QED BY <1>6, <2>1, <2>2, <2>3, <2>4 DEF Placed, Read
    <2>6. CASE jump.how = "jumped"
      <3>1. r.ok /\ HasLabel(files[i.file], l) /\ jump.in.batch.curr = Target(files[i.file], l)
        BY <1>5, <1>6, <2>1, <2>6
      <3>2. At(j, files, FALSE) = Target(files[i.file], l)
        BY <2>1, <2>3, <3>1 DEF At
      <3> QED BY <1>1, <2>3, <2>5, <2>6, <3>1, <3>2 DEF JumpIsPlaced
    <2>7. CASE jump.how # "jumped"
      <3>1. j = J(r)
        BY <1>6, <2>7
      <3>2. At(j, files, FALSE) = At(i, files, FALSE)
        <4> HIDE DEF J
        <4>1. CASE r.ok
          BY <1>4, <2>1, <3>1, <4>1 DEF At
        <4>2. CASE ~r.ok
          BY <1>4, <2>1, <2>4, <3>1, <4>2 DEF At
        <4> QED BY <4>1, <4>2
      <3> QED BY <1>1, <2>3, <2>5, <2>7, <3>2 DEF JumpIsPlaced
    <2> QED BY <2>6, <2>7
  <1> QED BY <1>7, <1>8

\* A jump that fails without having looked at the list.
LEMMA StaysPlaced ==
    ASSUME NEW i, NEW s \in BOOLEAN, Placed(i, s, lists, files, cmdly), NEW l, NEW f,
           NEW jump, jump = Jump(i, lists, "failed")
    PROVE  JumpIsPlaced(i, s, l, f, jump)
  <1>1. jump.in = i /\ jump.lists = lists /\ jump.how = "failed"
    BY DEF Jump
  <1>2. s => Placed(i, TRUE, lists, files, cmdly)
    BY DEF Placed
  <1> QED BY <1>1, <1>2 DEF JumpIsPlaced

LEMMA JumpToFilePlaced ==
    ASSUME IInv, FreeLists(lists) # {}, ~cmdly, NEW i \in {in, Copy}, NEW s \in BOOLEAN,
           Placed(i, s, lists, files, FALSE),
           NEW l \in Labels, NEW f \in Files, f # in.batch.name, NEW jump \in JumpToFile(i, l, f)
    PROVE  JumpIsPlaced(i, s, l, f, jump)
  <1> DEFINE n == Target(files[f], l)
             c(r) == [r.batch EXCEPT !.curr = n]
             j(r) == [i EXCEPT !.file = f, !.batch = c(r)]
  <1>0. /\ i \in Input /\ i.batch \in Batch /\ Live(i.batch, lists)
        /\ lists \in ListTable /\ files \in [Files -> Texts \cup {NULL}]
    BY CopyFacts, StateFacts DEF Input
  <1>1. Certain(f) /\ cmdly = FALSE
    BY FilesAssumption DEF Certain, IInv, Types
  <1>2. PICK r \in OpenBatchScript(f, lists) :
            \/ jump = Jump(i, lists, "failed")
            \/ /\ r.ok /\ HasLabel(files[f], l)
               /\ jump = Jump(j(r), FreeBatchScript(i.batch, r.lists), "jumped")
    BY DEF JumpToFile
  <1>3. CASE jump = Jump(i, lists, "failed")
    BY <1>1, <1>3, StaysPlaced
  <1>4. CASE /\ r.ok /\ HasLabel(files[f], l)
             /\ jump = Jump(j(r), FreeBatchScript(i.batch, r.lists), "jumped")
    <2>1. /\ r.batch \in Batch /\ r.lists \in ListTable /\ Live(r.batch, r.lists)
          /\ r.batch.list # NULL => lists[r.batch.list] = NULL
          /\ r.batch.name = f /\ files[f] \in Texts /\ r.lists[r.batch.list] = files[f]
      BY <1>0, <1>4, OpenFacts
    <2>2. r.batch.list # NULL /\ r.batch.list \in Lists
      BY <2>1, FilesAssumption DEF Live, Batch
    <2>3. r.batch.list # i.batch.list
      BY <1>0, <2>1, <2>2 DEF Live
    <2>4. FreeBatchScript(i.batch, r.lists)[r.batch.list] = files[f]
      BY <1>0, <2>1, <2>2, <2>3, FreeType
    <2>5. c(r) \in Batch => j(r).file = f /\ j(r).batch = c(r)
      BY <1>0 DEF Input
    <2>6. /\ c(r).name = f /\ c(r).list = r.batch.list /\ c(r).curr = n
          /\ j(r).file = f /\ j(r).batch = c(r)
      <3> HIDE DEF n
      <3> QED BY <1>0, <2>1 DEF Batch, Input
    <2>7. /\ jump.in = j(r) /\ jump.lists = FreeBatchScript(i.batch, r.lists)
          /\ jump.how = "jumped"
      <3> HIDE DEF j
      <3> QED BY <1>4 DEF Jump
    <2>8. files[f] # NULL
      BY <2>1, TextsAssumption
    <2> HIDE DEF j, c
    <2>9. /\ Placed(jump.in, TRUE, jump.lists, files, FALSE) /\ Read(jump.in, TRUE, FALSE)
          /\ jump.in.file = f /\ At(jump.in, files, FALSE) = n
      BY <2>4, <2>6, <2>7, <2>8 DEF Placed, Read, At
    <2> QED BY <1>1, <1>4, <2>7, <2>9 DEF JumpIsPlaced
  <1> QED BY <1>2, <1>3, <1>4

LEMMA JumpCmdlyPlaced ==
    ASSUME IInv, cmdly, NEW i \in {in, Copy}, NEW s \in BOOLEAN,
           Placed(i, s, lists, files, cmdly),
           NEW l \in Labels, NEW f, NEW jump \in JumpToLabel_Cmdly(i, l)
    PROVE  JumpIsPlaced(i, s, l, f, jump)
  <1>0. i \in Input /\ i.file \in Files /\ files \in [Files -> Texts \cup {NULL}]
    BY CopyFacts, StateFacts DEF Input
  <1>1. CASE jump = Jump(i, lists, "failed")
    BY <1>1, StaysPlaced
  <1>2. CASE jump # Jump(i, lists, "failed")
    <2>0. PICK text \in Opened(i.file) :
            /\ HasLabel(text, l)
            /\ \E eof \in {FALSE, Min(Labelled(text, l)) = Len(text)} :
                 jump = Jump([i EXCEPT !.pos = Min(Labelled(text, l)), !.eof = eof], lists, "jumped")
      BY <1>2, Zenon DEF JumpToLabel_Cmdly
    <2>1. text = files[i.file] /\ files[i.file] # NULL
      <3>1. text # <<>>
        BY <2>0 DEF HasLabel, Labelled
      <3> QED BY <1>0, <3>1, OpenedText
    <2> DEFINE at == Min(Labelled(text, l))
    <2>2. PICK eof : jump = Jump([i EXCEPT !.pos = at, !.eof = eof], lists, "jumped")
      BY <2>0, Zenon
    <2>3. /\ jump.in = [i EXCEPT !.pos = at, !.eof = eof]
          /\ jump.lists = lists /\ jump.how = "jumped"
      BY <2>2 DEF Jump
    <2>4. jump.in.file = i.file /\ jump.in.pos = at /\ jump.in.batch = i.batch
      <3> HIDE DEF at
      <3> QED BY <1>0, <2>3 DEF Input
    <2>5. At(jump.in, files, TRUE) = Target(files[i.file], l)
      BY <2>1, <2>4 DEF At, Target
    <2>6. cmdly = TRUE
      BY DEF IInv, Types
    <2>7. Placed(jump.in, TRUE, jump.lists, files, TRUE) /\ Read(jump.in, TRUE, TRUE)
      BY <2>1, <2>4 DEF Placed, Read
    <2> QED BY <2>0, <2>1, <2>3, <2>4, <2>5, <2>6, <2>7 DEF JumpIsPlaced
  <1> QED BY <1>1, <1>2

LEMMA JumpPlaced ==
    ASSUME OInv, FreeLists(lists) # {}, NEW i \in {in, Copy},
           NEW l \in Labels, NEW f \in Files \cup {NULL}, NEW jump \in JumpToLabel(i, l, f)
    PROVE  JumpIsPlaced(i, sure[1], l, f, jump)
  <1>1. IInv /\ sure[1] \in BOOLEAN
    BY StateFacts DEF OInv
  <1>2. i.file = in.file /\ i.batch.name = in.batch.name /\ i.batch.list = in.batch.list
    BY <1>1, CopyFacts
  <1>3. Placed(i, sure[1], lists, files, cmdly)
    BY <1>2 DEF OInv, AllPlaced, Placed
  <1>4. CASE cmdly
    BY <1>1, <1>3, <1>4, JumpCmdlyPlaced DEF JumpToLabel
  <1>5. CASE ~cmdly
    <2>0. cmdly = FALSE
      BY <1>1, <1>5 DEF IInv, Types
    <2>1. CASE f \in {NULL, in.batch.name}
      BY <1>1, <1>2, <1>3, <1>5, <2>0, <2>1, JumpInFilePlaced DEF JumpToLabel
    <2>2. CASE f \notin {NULL, in.batch.name}
      BY <1>1, <1>2, <1>3, <1>5, <2>0, <2>2, JumpToFilePlaced DEF JumpToLabel
    <2> QED BY <2>1, <2>2
  <1> QED BY <1>4, <1>5

-----------------------------------------------------------------------------
(* Steps that change the running level, start one, and end one: what they *)
(* do to the levels that are saved, and to the mapping.                    *)

Mapped == AbsOf(in, saved, sure, files, cmdly)
Below == Rest(saved, sure, files, cmdly)
Running1 == Lvl(in, sure[1], files, cmdly)

LEMMA MappedFacts ==
    ASSUME IInv
    PROVE  /\ Abs = Mapped /\ Mapped = <<Running1>> \o Below
           /\ Head(Abs) = Running1 /\ Tail(Abs) = Below /\ Len(Abs) = Len(saved) + 1
           /\ Len(Below) = Len(saved) /\ DOMAIN Abs = 1 .. Len(saved) + 1
           /\ \E S : Below \in Seq(S)
  <1>1. Abs = Mapped
    BY MappingIs DEF AbsIs, Mapped
  <1>2. Mapped = <<Running1>> \o Below
    BY DEF Mapped, AbsOf, Running1, Below
  <1>3. (\E S : Below \in Seq(S)) /\ Len(Below) = Len(saved)
    BY StateFacts, RestType DEF Below
  <1>4. /\ Head(<<Running1>> \o Below) = Running1 /\ Tail(<<Running1>> \o Below) = Below
        /\ Len(<<Running1>> \o Below) = Len(Below) + 1
        /\ DOMAIN (<<Running1>> \o Below) = 1 .. Len(Below) + 1
    BY <1>3
  <1> QED BY <1>1, <1>2, <1>3, <1>4

LEMMA KeepsPlaced ==
    ASSUME NEW d \in Input, Live(d.batch, lists), NEW s, Placed(d, s, lists, files, cmdly), NEW g,
           Keeps(d.batch, lists, g)
    PROVE  Placed(d, s, g, files, cmdly)
  <1>1. d.batch.name = d.file => d.batch.list # NULL
    BY FilesAssumption DEF Live, Input
  <1> QED BY <1>1 DEF Placed, Keeps

LEMMA SavedFacts ==
    ASSUME OInv, NEW k \in 1 .. Len(saved)
    PROVE  /\ saved[k] \in Input /\ saved[k].batch \in Batch /\ Live(saved[k].batch, lists)
           /\ Placed(saved[k], sure[k + 1], lists, files, cmdly)
           /\ Read(saved[k], sure[k + 1], cmdly)
           /\ Shares(in.batch, saved[k].batch) => in.batch.cpy
           /\ k + 1 \in DOMAIN sure
  <1>1. IInv /\ saved \in Seq(Input) /\ k \in DOMAIN saved
    BY StateFacts DEF OInv
  <1>0. saved[k] \in Input
    BY <1>1
  <1>2. saved[k] \in Input /\ saved[k].batch \in Batch
    BY <1>0 DEF Input
  <1>3. Live(saved[k].batch, lists) /\ (Shares(in.batch, saved[k].batch) => in.batch.cpy)
    BY <1>1 DEF IInv, AllLive, InnerIsCopy
  <1>4. k + 1 \in DOMAIN sure
    BY <1>1, StateFacts
  <1> QED BY <1>2, <1>3, <1>4 DEF OInv, AllPlaced, AllRead

LEMMA LevelMoves ==
    ASSUME OInv, saved' = saved, files' = files, cmdly' = cmdly, in' \in Input,
           NEW b \in {in.batch, Copy.batch}, Swap(b, lists, in'.batch, lists'),
           \A k \in 1 .. Len(saved) : sure'[k + 1] = sure[k + 1],
           Placed(in', sure'[1], lists', files, cmdly),
           line' = "runs" => Read(in', sure'[1], cmdly)
    PROVE  /\ AllPlaced' /\ AllRead'
           /\ Mapped' = <<Lvl(in', sure'[1], files, cmdly)>> \o Below
  <1>1. IInv /\ b \in Batch /\ Live(b, lists) /\ lists \in ListTable /\ b.list = in.batch.list
        /\ (in.batch.cpy => b.cpy)
    BY StateFacts, CopyFacts DEF OInv
  <1>2. \A k \in 1 .. Len(saved) : Placed(saved[k], sure[k + 1], lists', files, cmdly)
    <2> TAKE k \in 1 .. Len(saved)
    <2>1. Keeps(saved[k].batch, lists, lists')
      <3>1. /\ saved[k].batch \in Batch /\ Live(saved[k].batch, lists)
            /\ Shares(b, saved[k].batch) => b.cpy
        BY <1>1, SavedFacts DEF Shares
      <3> QED BY <1>1, <3>1, SwapKeepsList
    <2> QED BY <2>1, SavedFacts, KeepsPlaced
  <1>3. AllPlaced'
    BY <1>2 DEF AllPlaced
  <1>4. AllRead'
    BY SavedFacts DEF AllRead
  <1>5. Rest(saved', sure', files', cmdly') = Below
    BY DEF Rest, Below
  <1>6. Mapped' = <<Lvl(in', sure'[1], files, cmdly)>> \o Below
    BY <1>5 DEF Mapped, AbsOf
  <1> QED BY <1>3, <1>4, <1>6

LEMMA RestPush ==
    ASSUME NEW i, NEW sv \in Seq(Input), NEW u \in Seq(BOOLEAN), Len(u) = Len(sv) + 1,
           NEW e, NEW t, NEW m
    PROVE  Rest(<<i>> \o sv, <<e>> \o u, t, m) = AbsOf(i, sv, u, t, m)
  <1> DEFINE n == Len(sv) + 1
             r == Rest(sv, u, t, m)
             x == Lvl(i, u[1], t, m)
  <1>1. /\ Len(<<i>> \o sv) = n /\ n \in Nat
        /\ \A k \in 1 .. n : (<<i>> \o sv)[k] = IF k = 1 THEN i ELSE sv[k - 1]
    OBVIOUS
  <1>2. \A k \in 1 .. n : (<<e>> \o u)[k + 1] = u[k]
    OBVIOUS
  <1>3. (\E S : r \in Seq(S)) /\ Len(r) = Len(sv)
        /\ \A k \in 1 .. Len(sv) : r[k] = Lvl(sv[k], u[k + 1], t, m)
    BY RestType
  <1>4. Rest(<<i>> \o sv, <<e>> \o u, t, m) =
            [k \in 1 .. n |-> Lvl(IF k = 1 THEN i ELSE sv[k - 1], u[k], t, m)]
    <2>1. Rest(<<i>> \o sv, <<e>> \o u, t, m) =
            [k \in 1 .. n |-> Lvl((<<i>> \o sv)[k], (<<e>> \o u)[k + 1], t, m)]
      BY <1>1 DEF Rest
    <2> HIDE DEF n
    <2> QED BY <1>1, <1>2, <2>1
  <1> HIDE DEF r, x
  <1>5. /\ <<x>> \o r = [k \in 1 .. n |-> (<<x>> \o r)[k]]
        /\ \A k \in 1 .. n : (<<x>> \o r)[k] = IF k = 1 THEN x ELSE r[k - 1]
    BY <1>3
  <1>6. \A k \in 1 .. n : (<<x>> \o r)[k] = Lvl(IF k = 1 THEN i ELSE sv[k - 1], u[k], t, m)
    <2> TAKE k \in 1 .. n
    <2>1. CASE k = 1
      BY <1>5, <2>1 DEF x
    <2>2. CASE k # 1
      <3>1. k - 1 \in 1 .. Len(sv) /\ (k - 1) + 1 = k
        BY <2>2
      <3>2. r[k - 1] = Lvl(sv[k - 1], u[k], t, m)
        BY <1>3, <3>1
      <3> QED BY <1>5, <2>2, <3>2
    <2> QED BY <2>1, <2>2
  <1> HIDE DEF n
  <1>7. <<x>> \o r = [k \in 1 .. n |-> Lvl(IF k = 1 THEN i ELSE sv[k - 1], u[k], t, m)]
    BY <1>5, <1>6
  <1> QED BY <1>4, <1>7 DEF AbsOf, r, x

LEMMA LevelEnters ==
    ASSUME OInv, line = "runs", saved' = <<in>> \o saved, files' = files, cmdly' = cmdly,
           line' = "none", in' \in Input, Swap(Copy.batch, lists, in'.batch, lists'),
           NEW e \in BOOLEAN, sure' = <<e>> \o sure,
           Placed(in', e, lists', files, cmdly)
    PROVE  /\ AllPlaced' /\ AllRead'
           /\ Mapped' = <<Lvl(in', e, files, cmdly)>> \o Mapped
  <1>0. IInv /\ saved \in Seq(Input) /\ in \in Input /\ in.batch \in Batch /\ Live(in.batch, lists)
        /\ Len(saved) \in Nat /\ lists \in ListTable
    BY StateFacts DEF OInv
  <1>1. /\ Len(saved') = Len(saved) + 1 /\ saved' \in Seq(Input)
        /\ saved'[1] = in
        /\ \A k \in 1 .. Len(saved') : k # 1 => k - 1 \in 1 .. Len(saved) /\ saved'[k] = saved[k - 1]
    BY <1>0, PushFacts
  <1>2. /\ sure'[1] = e
        /\ \A k \in 1 .. Len(saved') : sure'[k + 1] = sure[k]
    <2>1. sure \in Seq(BOOLEAN) /\ Len(sure) = Len(saved) + 1
      BY <1>0, StateFacts
    <2> QED BY <1>0, <1>1, <2>1
  <1>3. Placed(in, sure[1], lists', files, cmdly)
    <2>1. Keeps(in.batch, lists, lists')
      <3>1. /\ Copy.batch \in Batch /\ Live(Copy.batch, lists)
            /\ Shares(Copy.batch, in.batch) => Copy.batch.cpy
        BY <1>0, CopyFacts
      <3> QED BY <1>0, <3>1, SwapKeepsList
    <2> QED BY <1>0, <2>1, KeepsPlaced DEF OInv, AllPlaced
  <1>4. \A k \in 1 .. Len(saved) : Placed(saved[k], sure[k + 1], lists', files, cmdly)
    <2> TAKE k \in 1 .. Len(saved)
    <2>1. Keeps(saved[k].batch, lists, lists')
      <3>1. /\ saved[k].batch \in Batch /\ Live(saved[k].batch, lists)
            /\ Copy.batch \in Batch /\ Live(Copy.batch, lists)
            /\ Shares(Copy.batch, saved[k].batch) => Copy.batch.cpy
        BY <1>0, SavedFacts, CopyFacts
      <3> QED BY <1>0, <3>1, SwapKeepsList
    <2> QED BY <2>1, SavedFacts, KeepsPlaced
  <1>5. \A k \in 1 .. Len(saved') : k # 1 => (k - 1) + 1 = k
    OBVIOUS
  <1>6. AllPlaced'
    <2>1. \A k \in 1 .. Len(saved') : Placed(saved'[k], sure'[k + 1], lists', files, cmdly)
      <3> TAKE k \in 1 .. Len(saved')
      <3>1. CASE k = 1
        BY <1>1, <1>2, <1>3, <3>1
      <3>2. CASE k # 1
        <4>1. Placed(saved[k - 1], sure[(k - 1) + 1], lists', files, cmdly)
          BY <1>1, <1>4, <3>2
        <4> QED BY <1>1, <1>2, <1>5, <3>2, <4>1
      <3> QED BY <3>1, <3>2
    <2> QED BY <1>2, <2>1 DEF AllPlaced
  <1>7. AllRead'
    <2>1. \A k \in 1 .. Len(saved') : Read(saved'[k], sure'[k + 1], cmdly)
      <3> TAKE k \in 1 .. Len(saved')
      <3>1. CASE k = 1
        BY <1>1, <1>2, <3>1 DEF OInv, AllRead
      <3>2. CASE k # 1
        <4>1. Read(saved[k - 1], sure[(k - 1) + 1], cmdly)
          BY <1>1, <3>2, SavedFacts
        <4> QED BY <1>1, <1>2, <1>5, <3>2, <4>1
      <3> QED BY <3>1, <3>2
    <2> QED BY <2>1 DEF AllRead
  <1>8. Rest(saved', sure', files', cmdly') = Mapped
    BY <1>0, StateFacts, RestPush DEF Mapped
  <1>9. Mapped' = <<Lvl(in', e, files, cmdly)>> \o Mapped
    BY <1>2, <1>8 DEF Mapped, AbsOf
  <1> QED BY <1>6, <1>7, <1>9

LEMMA LevelLeaves ==
    ASSUME OInv, CallReturns
    PROVE  AllPlaced' /\ AllRead' /\ Mapped' = Below
  <1>0. IInv /\ saved \in Seq(Input) /\ saved # <<>> /\ sure \in Seq(BOOLEAN)
        /\ in.batch \in Batch /\ lists \in ListTable
        /\ Len(sure) = Len(saved) + 1 /\ sure # <<>> /\ Len(saved) \in Nat
    BY StateFacts DEF OInv, CallReturns
  <1>1. /\ Len(saved') = Len(saved) - 1 /\ 1 \in 1 .. Len(saved) /\ in' = saved[1]
        /\ \A k \in 1 .. Len(saved') : k + 1 \in 1 .. Len(saved) /\ saved'[k] = saved[k + 1]
    BY <1>0, PopFacts DEF CallReturns
  <1>2. \A k \in 1 .. Len(saved) : sure'[k] = sure[k + 1]
    BY <1>0, PopFacts DEF CallReturns
  <1>3. \A k \in 1 .. Len(saved) : Placed(saved[k], sure[k + 1], lists', files, cmdly)
    <2> TAKE k \in 1 .. Len(saved)
    <2>1. Keeps(saved[k].batch, lists, lists')
      <3>1. \A l \in Lists : lists'[l] = IF ~in.batch.cpy /\ l = in.batch.list THEN NULL ELSE lists[l]
        BY <1>0, FreeType DEF CallReturns
      <3> QED BY <3>1, SavedFacts DEF Shares, Batch, Keeps
    <2> QED BY <2>1, SavedFacts, KeepsPlaced
  <1>4. files' = files /\ cmdly' = cmdly
    BY DEF CallReturns
  <1>5. AllPlaced'
    BY <1>1, <1>2, <1>3, <1>4 DEF AllPlaced
  <1>6. AllRead'
    BY <1>1, <1>2, <1>4, SavedFacts DEF AllRead
  <1>7. Mapped' = Below
    <2> DEFINE r == Rest(saved', sure', files', cmdly')
               x == Lvl(in', sure'[1], files', cmdly')
    <2>1. Mapped' = <<x>> \o r
      BY DEF Mapped, AbsOf
    <2>2. /\ \E S : r \in Seq(S)
          /\ Len(r) = Len(saved) - 1
          /\ \A k \in 1 .. Len(saved) - 1 : r[k] = Lvl(saved'[k], sure'[k + 1], files, cmdly)
      <3>1. saved' \in Seq(Input)
        BY <1>0, PopFacts DEF CallReturns
      <3>2. /\ \E S : r \in Seq(S)
            /\ Len(r) = Len(saved')
            /\ \A k \in 1 .. Len(saved') : r[k] = Lvl(saved'[k], sure'[k + 1], files', cmdly')
        BY <3>1, RestType
      <3> HIDE DEF r
      <3> QED BY <1>1, <1>4, <3>2
    <2>3. x = Lvl(saved[1], sure[1 + 1], files, cmdly)
      BY <1>1, <1>2, <1>4
    <2> HIDE DEF r, x
    <2>4. /\ <<x>> \o r = [k \in 1 .. Len(saved) |-> (<<x>> \o r)[k]]
          /\ (<<x>> \o r)[1] = x
          /\ \A k \in 1 .. Len(saved) : k # 1 => (<<x>> \o r)[k] = r[k - 1]
      BY <1>0, <1>1, <2>2
    <2>5. \A k \in 1 .. Len(saved) : (<<x>> \o r)[k] = Lvl(saved[k], sure[k + 1], files, cmdly)
      <3> TAKE k \in 1 .. Len(saved)
      <3>1. CASE k = 1
        BY <2>3, <2>4, <3>1
      <3>2. CASE k # 1
        <4>1. k - 1 \in 1 .. Len(saved) - 1 /\ (k - 1) + 1 = k
          BY <1>0, <3>2
        <4>2. r[k - 1] = Lvl(saved'[k - 1], sure'[k], files, cmdly)
          BY <2>2, <4>1
        <4>3. saved'[k - 1] = saved[k] /\ sure'[k] = sure[k + 1]
          BY <1>1, <1>2, <4>1
        <4> QED BY <2>4, <3>2, <4>2, <4>3
      <3> QED BY <3>1, <3>2
    <2>6. Below = [k \in 1 .. Len(saved) |-> Lvl(saved[k], sure[k + 1], files, cmdly)]
      BY DEF Below, Rest
    <2> QED BY <2>1, <2>4, <2>5, <2>6
  <1> QED BY <1>5, <1>6, <1>7

-----------------------------------------------------------------------------
(* The steps of Reader, with the mapped levels. *)

Stutters == files' = files /\ Abs' = Abs
RNext == [R!Next]_(R!vars)

LEMMA IfStutters == ASSUME Stutters PROVE RNext
  BY DEF RNext, Stutters, R!vars, Abs

LEMMA IfReads ==
    ASSUME files' = files, Head(Abs).at > 0,
           Abs' = <<[Head(Abs) EXCEPT !.at = After(files[Head(Abs).file], @)]>> \o Tail(Abs)
    PROVE  RNext
  <1>1. R!ReadLine
    BY SameAfter DEF R!ReadLine, R!Top, R!Move, Abs
  <1> QED BY <1>1 DEF RNext, R!Next

Labelling(l) == {[file |-> f, at |-> Target(files[f], l)] :
                    f \in {g \in Files : files[g] # NULL /\ HasLabel(files[g], l)}}

LEMMA SameLabelling == ASSUME NEW l PROVE R!Labelling(l) = Labelling(l)
  BY SameLabels DEF R!Labelling, Labelling

LEMMA IfGoes ==
    ASSUME files' = files, NEW l \in Labels, NEW x \in Labelling(l), Abs' = <<x>> \o Tail(Abs)
    PROVE  RNext
  <1>1. R!Goto
    BY SameLabelling DEF R!Goto, R!Move, Abs
  <1> QED BY <1>1 DEF RNext, R!Next

LEMMA IfCalls ==
    ASSUME files' = files, NEW f \in Files, NEW x, Abs' = <<x>> \o Abs,
           \/ files[f] # NULL /\ x = [file |-> f, at |-> Following(files[f], 1)]
           \/ (f = Head(Abs).file \/ Head(Abs).at = 0) /\ x = [file |-> f, at |-> 0]
    PROVE  RNext
  <1>1. R!Call
    BY SameFollowing DEF R!Call, R!Enter, R!Start, R!Top, Abs
  <1> QED BY <1>1 DEF RNext, R!Next

LEMMA IfCallsLabel ==
    ASSUME files' = files, NEW x, Abs' = <<x>> \o Abs,
           \/ \E l \in Labels : x \in Labelling(l)
           \/ Head(Abs).at = 0 /\ x = Head(Abs)
    PROVE  RNext
  <1>1. R!CallLabel
    BY SameLabelling DEF R!CallLabel, R!Enter, R!Top, Abs
  <1> QED BY <1>1 DEF RNext, R!Next

LEMMA IfReturns ==
    ASSUME files' = files, Len(Abs) > 1, Abs' = Tail(Abs)
    PROVE  RNext
  <1>1. R!Return
    BY DEF R!Return, Abs
  <1> QED BY <1>1 DEF RNext, R!Next

LEMMA IfModifies ==
    ASSUME NEW f \in Files, NEW new \in Texts \cup {NULL}, files' = [files EXCEPT ![f] = new],
           Abs' = [k \in DOMAIN Abs |->
                    IF Abs[k].file = f THEN [Abs[k] EXCEPT !.at = 0] ELSE Abs[k]]
    PROVE  RNext
  <1>1. R!Modify
    BY DEF R!Modify, R!Lose, Abs
  <1> QED BY <1>1 DEF RNext, R!Next

LEMMA IfSwitches ==
    ASSUME files' = files, Abs' = [k \in DOMAIN Abs |-> [Abs[k] EXCEPT !.at = 0]]
    PROVE  RNext
  <1>1. R!SwitchMode
    BY DEF R!SwitchMode, R!Lose, Abs
  <1> QED BY <1>1 DEF RNext, R!Next

LEMMA MappedNext == ASSUME IInv' PROVE Abs' = Mapped'
  <1>1. AbsIs'
    BY MappingIs, PTL
  <1> QED BY <1>1 DEF AbsIs, Mapped

LEMMA LvlFacts ==
    ASSUME NEW i, NEW s, NEW t, NEW m
    PROVE  /\ Lvl(i, s, t, m).file = i.file
           /\ Lvl(i, s, t, m).at = (IF s THEN At(i, t, m) ELSE 0)
           /\ \A n : [Lvl(i, s, t, m) EXCEPT !.at = n] = [file |-> i.file, at |-> n]
  BY DEF Lvl

-----------------------------------------------------------------------------
(* Each step of ScriptCache keeps the invariant, and is a step of Reader or *)
(* a stutter.                                                              *)

LEMMA GetLinePlaced ==
    ASSUME OInv, GetLine
    PROVE  /\ in'.file = in.file /\ cmdly = FALSE
           /\ Placed(in', sure[1], lists', files, FALSE)
           /\ Read(in', sure[1], FALSE)
           /\ sure[1] => \/ At(in', files, FALSE) = After(files[in.file], At(in, files, FALSE))
                         \/ At(in', files, FALSE) = At(in, files, FALSE)
  <1>a. IInv /\ FreeLists(lists) # {} /\ Placed(in, sure[1], lists, files, cmdly)
    BY DEF OInv, GetLine, AllPlaced
  <1>b. cmdly = FALSE
    BY DEF OInv, IInv, Types, GetLine
  <1>0. /\ IInv /\ in \in Input /\ in.batch \in Batch /\ in.file \in Files
        /\ FreeLists(lists) # {} /\ cmdly = FALSE /\ Live(in.batch, lists) /\ lists \in ListTable
        /\ files \in [Files -> Texts \cup {NULL}]
        /\ sure[1] \in BOOLEAN /\ Placed(in, sure[1], lists, files, FALSE)
    <2>1. sure[1] \in BOOLEAN
      BY <1>a, StateFacts
    <2>2. Placed(in, sure[1], lists, files, FALSE)
      BY <1>a, <1>b
    <2> QED BY <1>a, <1>b, <2>1, <2>2, StateFacts
  <1>1. PICK r \in UpdateScript(in) :
          LET text == r.lists[r.batch.list]
              found == r.ok /\ IsClosed(text, r.batch.curr)
          IN  /\ lists' = r.lists
              /\ in' = [in EXCEPT !.eof = ~found,
                         !.batch = IF r.ok THEN [r.batch EXCEPT !.curr = After(text, @)]
                                   ELSE r.batch]
    BY DEF GetLine
  <1> DEFINE n == After(r.lists[r.batch.list], r.batch.curr)
             c == IF r.ok THEN [r.batch EXCEPT !.curr = n] ELSE r.batch
  <1>2. PICK e \in BOOLEAN : in' = [in EXCEPT !.eof = e, !.batch = c]
    BY <1>1, Zenon
  <1>3. r.batch \in Batch
    BY <1>0, UpdateIsSwap DEF Swap
  <1>4. /\ c.name = r.batch.name /\ c.list = r.batch.list
        /\ r.ok => c.curr = n
        /\ ~r.ok => c = r.batch
    <2> HIDE DEF n
    <2> QED BY <1>3 DEF Batch
  <1> HIDE DEF n, c
  <1>5. in'.file = in.file /\ in'.batch = c /\ lists' = r.lists
    BY <1>0, <1>1, <1>2 DEF Input
  <1>6. CASE ~sure[1]
    BY <1>0, <1>5, <1>6 DEF Placed, Read
  <1>7. CASE sure[1]
    <2>1. Placed(in, TRUE, lists, files, FALSE) /\ files[in.file] # NULL
      BY <1>0, <1>7 DEF Placed
    <2>2. /\ r.ok => /\ r.batch.name = in.file /\ r.lists[r.batch.list] = files[in.file]
                     /\ r.batch.curr = At(in, files, FALSE)
          /\ ~r.ok => r.batch = NotLoaded /\ in.batch.name # in.file
      BY <1>0, <2>1, UpdatePlaced
    <2>3. NotLoaded.name = NULL /\ NULL # in.file
      BY <1>0, FilesAssumption DEF NotLoaded
    <2>4. Placed(in', TRUE, lists', files, FALSE) /\ Read(in', TRUE, FALSE)
      BY <1>4, <1>5, <2>1, <2>2, <2>3 DEF Placed, Read
    <2>5. CASE r.ok
      BY <1>0, <1>4, <1>5, <1>7, <2>2, <2>4, <2>5 DEF At, n
    <2>6. CASE ~r.ok
      BY <1>0, <1>4, <1>5, <1>7, <2>2, <2>3, <2>4, <2>6 DEF At
    <2> QED BY <2>5, <2>6
  <1> QED BY <1>6, <1>7

\* The running level moves, or stays where it is.
LEMMA Moving ==
    ASSUME OInv, IInv', files' = files, Mapped' = <<Lvl(in', sure'[1], files, cmdly)>> \o Below
    PROVE  /\ Abs' = <<Lvl(in', sure'[1], files, cmdly)>> \o Tail(Abs)
           /\ Lvl(in', sure'[1], files, cmdly) = Running1 => RNext
  <1>1. Abs = <<Running1>> \o Below /\ Tail(Abs) = Below
    BY MappedFacts DEF OInv
  <1>2. Abs' = <<Lvl(in', sure'[1], files, cmdly)>> \o Below
    BY MappedNext
  <1>3. Lvl(in', sure'[1], files, cmdly) = Running1 => Stutters
    BY <1>1, <1>2 DEF Stutters
  <1> QED BY <1>1, <1>2, <1>3, IfStutters

\* The running level reads a line: it moves behind the command that it was at.
LEMMA Reading1 ==
    ASSUME OInv, IInv', files' = files, Mapped' = <<Lvl(in', sure'[1], files, cmdly)>> \o Below,
           sure[1], sure'[1] = sure[1], in'.file = in.file,
           At(in', files, cmdly) = After(files[in.file], At(in, files, cmdly))
    PROVE  RNext
  <1>1. Head(Abs) = Running1
    BY MappedFacts DEF OInv
  <1>2. Running1.file = in.file /\ Running1.at = At(in, files, cmdly)
    BY DEF Running1, Lvl
  <1>3. Running1.at > 0
    <2>1. Placed(in, TRUE, lists, files, cmdly)
      BY DEF OInv, AllPlaced, Placed
    <2> QED BY <1>2, <2>1, AtPositive, StateFacts DEF OInv
  <1>4. Lvl(in', sure'[1], files, cmdly) = [Running1 EXCEPT !.at = After(files[in.file], @)]
    BY <1>2 DEF Lvl, Running1
  <1> QED BY <1>1, <1>2, <1>3, <1>4, Moving, IfReads

LEMMA GetLineSim == ASSUME OInv, GetLine PROVE OInv' /\ RNext
  <1>1. IInv /\ IInv'
    BY GetLineStep DEF OInv
  <1>2. /\ saved' = saved /\ files' = files /\ cmdly' = cmdly /\ sure' = sure
        /\ in' \in Input /\ Swap(in.batch, lists, in'.batch, lists')
    BY <1>1, GetLineFacts DEF GetLine
  <1>3. /\ in'.file = in.file /\ cmdly = FALSE
        /\ Placed(in', sure[1], lists', files, FALSE)
        /\ Read(in', sure[1], FALSE)
        /\ sure[1] => \/ At(in', files, FALSE) = After(files[in.file], At(in, files, FALSE))
                      \/ At(in', files, FALSE) = At(in, files, FALSE)
    BY GetLinePlaced
  <1>4. /\ AllPlaced' /\ AllRead'
        /\ Mapped' = <<Lvl(in', sure'[1], files, cmdly)>> \o Below
    BY <1>2, <1>3, LevelMoves
  <1>5. CASE sure[1] /\ At(in', files, FALSE) = After(files[in.file], At(in, files, FALSE))
    BY <1>1, <1>2, <1>3, <1>4, <1>5, Reading1 DEF OInv
  <1>6. CASE ~sure[1] \/ At(in', files, FALSE) = At(in, files, FALSE)
    <2>1. Lvl(in', sure'[1], files, cmdly) = Running1
      BY <1>2, <1>3, <1>6 DEF Lvl, Running1
    <2> QED BY <1>1, <1>2, <1>4, <2>1, Moving DEF OInv
  <1> QED BY <1>3, <1>5, <1>6

\* The line behind a label is the one behind it, and a command is at its own position.
LEMMA FollowingSteps ==
    ASSUME NEW text \in Seq(Entry), NEW i \in 1 .. Len(text)
    PROVE  /\ IsCommand(text, i) => Following(text, i) = i
           /\ ~IsCommand(text, i) => Following(text, i) = Following(text, i + 1)
  <1> DEFINE S(j) == {k \in j .. Len(text) : IsCommand(text, k)} \cup {Len(text) + 1}
  <1>1. CASE IsCommand(text, i)
    <2>1. Following(text, i) \in S(i) /\ \A k \in S(i) : Following(text, i) <= k
      BY FollowingFacts
    <2>2. i \in S(i) /\ \A k \in S(i) : k \in Nat /\ i <= k
      BY <1>1
    <2> QED BY <1>1, <2>1, <2>2
  <1>2. CASE ~IsCommand(text, i)
    <2>1. S(i) = S(i + 1)
      BY <1>2
    <2> QED BY <1>2, <2>1 DEF Following
  <1> QED BY <1>1, <1>2

LEMMA GetLineCmdlyAt ==
    ASSUME OInv, GetLine_Cmdly
    PROVE  /\ in'.file = in.file /\ cmdly = TRUE
           /\ sure[1] => \/ At(in', files, TRUE) = After(files[in.file], At(in, files, TRUE))
                         \/ At(in', files, TRUE) = At(in, files, TRUE)
  <1>0. in \in Input /\ in.file \in Files /\ in.pos \in Nat /\ cmdly = TRUE
        /\ files \in [Files -> Texts \cup {NULL}]
    BY StateFacts DEF OInv, IInv, Types, GetLine_Cmdly
  <1> DEFINE i == in.pos + 1
  <1>1. PICK text \in Opened(in.file) :
          \/ i <= Len(text) /\ ~IsCommand(text, i) /\ in' = [in EXCEPT !.pos = i]
          \/ /\ i <= Len(text) /\ IsCommand(text, i) /\ IsClosed(text, i)
             /\ in' = [in EXCEPT !.pos = Min(Closes(text, i))]
          \/ in' = [in EXCEPT !.eof = TRUE]
    BY DEF GetLine_Cmdly
  <1>2. text \in Seq(Entry) /\ (text # <<>> => text = files[in.file] /\ files[in.file] # NULL)
    BY <1>0, OpenedText
  <1>3. i <= Len(text) => i \in 1 .. Len(text) /\ text = files[in.file]
    BY <1>0, <1>2
  <1>4. CASE i <= Len(text) /\ ~IsCommand(text, i) /\ in' = [in EXCEPT !.pos = i]
    <2>1. in'.file = in.file /\ in'.pos = i
      BY <1>0, <1>4 DEF Input
    <2>2. Following(text, i) = Following(text, i + 1)
      BY <1>2, <1>3, <1>4, FollowingSteps
    <2> QED BY <1>0, <1>3, <1>4, <2>1, <2>2 DEF At
  <1>5. CASE /\ i <= Len(text) /\ IsCommand(text, i) /\ IsClosed(text, i)
             /\ in' = [in EXCEPT !.pos = Min(Closes(text, i))]
    <2> DEFINE m == Min(Closes(text, i))
    <2>1. in'.file = in.file /\ in'.pos = m
      <3> HIDE DEF m
      <3>1. in' = [in EXCEPT !.pos = m]
        BY <1>5 DEF m
      <3> QED BY <1>0, <3>1 DEF Input
    <2>2. Following(text, i) = i
      BY <1>2, <1>3, <1>5, FollowingSteps
    <2>3. After(text, i) = Following(text, m + 1)
      BY <1>5 DEF After
    <2> HIDE DEF m
    <2> QED BY <1>0, <1>3, <1>5, <2>1, <2>2, <2>3 DEF At
  <1>6. CASE in' = [in EXCEPT !.eof = TRUE]
    <2>1. in'.file = in.file /\ in'.pos = in.pos
      BY <1>0, <1>6 DEF Input
    <2> QED BY <1>0, <2>1 DEF At
  <1> QED BY <1>1, <1>4, <1>5, <1>6

LEMMA GetLineCmdlySim == ASSUME OInv, GetLine_Cmdly PROVE OInv' /\ RNext
  <1>1. IInv /\ IInv'
    BY GetLineCmdlyStep DEF OInv
  <1>2. /\ saved' = saved /\ files' = files /\ cmdly' = cmdly /\ sure' = sure /\ lists' = lists
        /\ in' \in Input /\ in'.batch = in.batch
    BY <1>1, GetLineCmdlyFacts DEF GetLine_Cmdly
  <1>3. /\ in'.file = in.file /\ cmdly = TRUE
        /\ sure[1] => \/ At(in', files, TRUE) = After(files[in.file], At(in, files, TRUE))
                      \/ At(in', files, TRUE) = At(in, files, TRUE)
    BY GetLineCmdlyAt
  <1>4. Swap(in.batch, lists, in'.batch, lists')
    BY <1>1, <1>2, StateFacts, SwapSame
  <1>5. Placed(in', sure[1], lists', files, TRUE) /\ Read(in', sure[1], TRUE)
    BY <1>2, <1>3 DEF OInv, AllPlaced, Placed, Read
  <1>6. /\ AllPlaced' /\ AllRead'
        /\ Mapped' = <<Lvl(in', sure'[1], files, cmdly)>> \o Below
    BY <1>2, <1>3, <1>4, <1>5, LevelMoves
  <1>7. CASE sure[1] /\ At(in', files, TRUE) = After(files[in.file], At(in, files, TRUE))
    BY <1>1, <1>2, <1>3, <1>6, <1>7, Reading1 DEF OInv
  <1>8. CASE ~sure[1] \/ At(in', files, TRUE) = At(in, files, TRUE)
    <2>1. Lvl(in', sure'[1], files, cmdly) = Running1
      BY <1>2, <1>3, <1>8 DEF Lvl, Running1
    <2> QED BY <1>1, <1>2, <1>6, <2>1, Moving DEF OInv
  <1> QED BY <1>3, <1>7, <1>8

LEMMA CopyAt ==
    ASSUME IInv, NEW s
    PROVE  /\ Copy.file = in.file
           /\ At(Copy, files, cmdly) = At(in, files, cmdly)
           /\ Read(in, s, cmdly) => Read(Copy, s, cmdly)
  <1>1. /\ Copy.file = in.file /\ Copy.pos = in.pos /\ Copy.batch.name = in.batch.name
        /\ Copy.batch.curr = in.batch.curr
    BY StateFacts DEF Copy, Input, Batch
  <1> QED BY <1>1 DEF At, Read

\* The level after a jump that leads to a label.
LEMMA JumpLabelling ==
    ASSUME NEW l \in Labels, NEW j \in Input, files[j.file] # NULL, HasLabel(files[j.file], l),
           At(j, files, cmdly) = Target(files[j.file], l)
    PROVE  Lvl(j, TRUE, files, cmdly) \in Labelling(l)
  <1>1. j.file \in Files
    BY DEF Input
  <1> QED BY <1>1 DEF Lvl, Labelling

LEMMA CmdGotoSim == ASSUME OInv, CmdGoto PROVE OInv' /\ RNext
  <1>1. IInv /\ IInv'
    BY CmdGotoStep DEF OInv
  <1>2. PICK l \in Labels, f \in Files \cup {NULL} :
          \E jump \in JumpToLabel(in, l, f) :
            /\ in' = jump.in /\ lists' = jump.lists
            /\ sure' = [sure EXCEPT ![1] = @ \/ (jump.how = "jumped" /\ Certain(f))]
    BY DEF CmdGoto
  <1>3. PICK jump \in JumpToLabel(in, l, f) :
            /\ in' = jump.in /\ lists' = jump.lists
            /\ sure' = [sure EXCEPT ![1] = @ \/ (jump.how = "jumped" /\ Certain(f))]
    BY <1>2
  <1>4. /\ saved' = saved /\ files' = files /\ cmdly' = cmdly
        /\ in' \in Input /\ Swap(in.batch, lists, in'.batch, lists')
        /\ line = "runs" /\ FreeLists(lists) # {}
    BY <1>1, <1>3, JumpStep DEF CmdGoto, Running
  <1> DEFINE now == sure[1] \/ (jump.how = "jumped" /\ Certain(f))
  <1>5. /\ sure'[1] = now
        /\ \A k \in 1 .. Len(saved) : sure'[k + 1] = sure[k + 1]
    BY <1>1, <1>3, StateFacts
  <1>6. JumpIsPlaced(in, sure[1], l, f, jump)
    BY <1>4, JumpPlaced
  <1>7. /\ now => /\ Placed(in', TRUE, lists', files, cmdly) /\ Read(in', TRUE, cmdly)
                  /\ IF jump.how = "jumped"
                     THEN /\ HasLabel(files[in'.file], l)
                          /\ At(in', files, cmdly) = Target(files[in'.file], l)
                     ELSE sure[1] /\ At(in', files, cmdly) = At(in, files, cmdly)
        /\ ~(jump.how = "jumped" /\ Certain(f)) => in'.file = in.file
    <2>1. sure[1] => Read(in, TRUE, cmdly)
      BY <1>4 DEF OInv, AllRead, Read
    <2> QED BY <1>3, <1>6, <2>1 DEF JumpIsPlaced
  <1>8. Placed(in', sure'[1], lists', files, cmdly) /\ Read(in', sure'[1], cmdly)
    BY <1>5, <1>7 DEF Placed, Read
  <1>9. /\ AllPlaced' /\ AllRead'
        /\ Mapped' = <<Lvl(in', sure'[1], files, cmdly)>> \o Below
    BY <1>4, <1>5, <1>8, LevelMoves
  <1>10. CASE now /\ jump.how = "jumped"
    <2>1. files[in'.file] # NULL
      BY <1>7, <1>10 DEF Placed
    <2>2. Lvl(in', TRUE, files, cmdly) \in Labelling(l)
      BY <1>4, <1>7, <1>10, <2>1, JumpLabelling
    <2>3. Lvl(in', sure'[1], files, cmdly) = Lvl(in', TRUE, files, cmdly)
      BY <1>5, <1>10 DEF Lvl
    <2>4. Abs' = <<Lvl(in', TRUE, files, cmdly)>> \o Tail(Abs)
      BY <1>1, <1>4, <1>9, <2>3, Moving
    <2> QED BY <1>1, <1>4, <1>9, <2>2, <2>4, IfGoes DEF OInv
  <1>11. CASE ~(now /\ jump.how = "jumped")
    <2>1. in'.file = in.file
      BY <1>7, <1>11
    <2>2. sure'[1] = sure[1] /\ (sure[1] => At(in', files, cmdly) = At(in, files, cmdly))
      <3>1. sure[1] \in BOOLEAN
        BY <1>1, StateFacts
      <3> QED BY <1>5, <1>7, <1>11, <3>1
    <2>3. Lvl(in', sure'[1], files, cmdly) = Running1
      BY <2>1, <2>2 DEF Lvl, Running1
    <2> QED BY <1>1, <1>4, <1>9, <2>3, Moving DEF OInv
  <1> QED BY <1>10, <1>11

LEMMA CallFailsSim == ASSUME OInv, CallFails PROVE OInv' /\ RNext
  <1>1. IInv /\ IInv'
    BY CallFailsStep DEF OInv
  <1>2. PICK l \in Labels, f \in Files \cup {NULL} :
          \E jump \in JumpToLabel(Copy, l, f) :
             jump.how # "jumped" /\ in' = jump.in /\ lists' = jump.lists
    BY DEF CallFails
  <1>3. PICK jump \in JumpToLabel(Copy, l, f) :
             jump.how # "jumped" /\ in' = jump.in /\ lists' = jump.lists
    BY <1>2
  <1>4. /\ saved' = saved /\ files' = files /\ cmdly' = cmdly /\ sure' = sure
        /\ in' \in Input /\ Swap(Copy.batch, lists, in'.batch, lists')
        /\ line = "runs" /\ FreeLists(lists) # {}
    BY <1>1, <1>3, JumpStep DEF CallFails, Running
  <1>5. JumpIsPlaced(Copy, sure[1], l, f, jump)
    BY <1>4, JumpPlaced
  <1>6. /\ in'.file = in.file
        /\ sure[1] => /\ Placed(in', TRUE, lists', files, cmdly) /\ Read(in', TRUE, cmdly)
                      /\ At(in', files, cmdly) = At(in, files, cmdly)
    <2>1. sure[1] => Read(in, TRUE, cmdly)
      BY <1>4 DEF OInv, AllRead, Read
    <2> QED BY <1>1, <1>3, <1>5, <2>1, CopyAt DEF JumpIsPlaced
  <1>7. Placed(in', sure'[1], lists', files, cmdly) /\ Read(in', sure'[1], cmdly)
    BY <1>4, <1>6 DEF Placed, Read
  <1>8. /\ AllPlaced' /\ AllRead'
        /\ Mapped' = <<Lvl(in', sure'[1], files, cmdly)>> \o Below
    BY <1>4, <1>7, LevelMoves
  <1>9. Lvl(in', sure'[1], files, cmdly) = Running1
    BY <1>4, <1>6 DEF Lvl, Running1
  <1> QED BY <1>1, <1>4, <1>8, <1>9, Moving DEF OInv

LEMMA CmdCallLabelSim == ASSUME OInv, CmdCallLabel PROVE OInv' /\ RNext
  <1>1. IInv /\ IInv'
    BY CmdCallLabelStep DEF OInv
  <1>2. PICK l \in Labels, f \in Files \cup {NULL} :
          \E jump \in JumpToLabel(Copy, l, f) :
            /\ jump.how = "jumped" /\ in' = jump.in /\ lists' = jump.lists
            /\ sure' = <<Certain(f) \/ Head(sure)>> \o sure
    BY DEF CmdCallLabel
  <1>3. PICK jump \in JumpToLabel(Copy, l, f) :
            /\ jump.how = "jumped" /\ in' = jump.in /\ lists' = jump.lists
            /\ sure' = <<Certain(f) \/ Head(sure)>> \o sure
    BY <1>2
  <1>4. /\ saved' = <<in>> \o saved /\ files' = files /\ cmdly' = cmdly
        /\ in' \in Input /\ Swap(Copy.batch, lists, in'.batch, lists')
        /\ line = "runs" /\ line' = "none" /\ FreeLists(lists) # {}
    BY <1>1, <1>3, JumpStep DEF CmdCallLabel, Running
  <1>5. Head(sure) = sure[1] /\ sure[1] \in BOOLEAN
    BY <1>1, StateFacts
  <1> DEFINE e == Certain(f) \/ Head(sure)
  <1>6. JumpIsPlaced(Copy, sure[1], l, f, jump)
    BY <1>4, JumpPlaced
  <1>7. /\ e => /\ Placed(in', TRUE, lists', files, cmdly)
                /\ HasLabel(files[in'.file], l)
                /\ At(in', files, cmdly) = Target(files[in'.file], l)
        /\ ~e => in'.file = in.file
    BY <1>1, <1>3, <1>5, <1>6, CopyAt DEF JumpIsPlaced
  <1>8. e \in BOOLEAN /\ sure' = <<e>> \o sure
    BY <1>3
  <1> HIDE DEF e
  <1>9. Placed(in', e, lists', files, cmdly)
    BY <1>7 DEF Placed
  <1>10. /\ AllPlaced' /\ AllRead'
         /\ Mapped' = <<Lvl(in', e, files, cmdly)>> \o Mapped
    BY <1>4, <1>8, <1>9, LevelEnters
  <1>11. Abs' = <<Lvl(in', e, files, cmdly)>> \o Abs /\ Head(Abs) = Running1
    BY <1>1, <1>10, MappedNext, MappedFacts
  <1>12. CASE e
    <2>1. files[in'.file] # NULL
      BY <1>7, <1>12 DEF Placed
    <2>2. Lvl(in', TRUE, files, cmdly) \in Labelling(l)
      BY <1>4, <1>7, <1>12, <2>1, JumpLabelling
    <2>3. e = TRUE
      BY <1>8, <1>12
    <2> QED BY <1>1, <1>4, <1>10, <1>11, <2>2, <2>3, IfCallsLabel DEF OInv
  <1>13. CASE ~e
    <2>1. ~sure[1]
      BY <1>5, <1>13 DEF e
    <2>2. Lvl(in', e, files, cmdly) = Running1 /\ Running1.at = 0
      BY <1>7, <1>13, <2>1 DEF Lvl, Running1
    <2> QED BY <1>1, <1>4, <1>10, <1>11, <2>2, IfCallsLabel DEF OInv
  <1> QED BY <1>12, <1>13

LEMMA CmdCallFileSim == ASSUME OInv, CmdCallFile PROVE OInv' /\ RNext
  <1>1. IInv /\ IInv'
    BY CmdCallFileStep DEF OInv
  <1>2. PICK f \in Files : /\ MayName(f)
                           /\ in' = [Copy EXCEPT !.eof = FALSE, !.pos = 0, !.file = f]
                           /\ sure' = <<Certain(f)>> \o sure
    BY DEF CmdCallFile
  <1>3. Copy \in Input /\ Copy.batch \in Batch /\ Copy.batch.name = in.batch.name
        /\ Live(Copy.batch, lists) /\ lists \in ListTable
    BY <1>1, CopyFacts, StateFacts
  <1>4. in' \in Input /\ in'.batch = Copy.batch /\ in'.file = f /\ in'.pos = 0
    BY <1>2, <1>3 DEF Input
  <1>5. /\ saved' = <<in>> \o saved /\ files' = files /\ cmdly' = cmdly /\ lists' = lists
        /\ Swap(Copy.batch, lists, in'.batch, lists') /\ line = "runs" /\ line' = "none"
    BY <1>3, <1>4, SwapSame DEF CmdCallFile, Running
  <1> DEFINE e == Certain(f)
  <1>6. e \in BOOLEAN
    BY DEF Certain
  <1>7. files[f] # NULL /\ f # NULL
    BY <1>2, FilesAssumption DEF MayName
  <1>8. e => cmdly \/ f # in.batch.name
    BY DEF Certain
  <1>9. ~e => cmdly = FALSE /\ f = in.batch.name
    BY <1>1, <1>7 DEF Certain, IInv, Types
  <1> HIDE DEF e
  <1>10. Placed(in', e, lists', files, cmdly)
    BY <1>3, <1>4, <1>7, <1>8 DEF Placed
  <1>11. /\ AllPlaced' /\ AllRead'
         /\ Mapped' = <<Lvl(in', e, files, cmdly)>> \o Mapped
    BY <1>2, <1>4, <1>5, <1>6, <1>10, LevelEnters DEF e
  <1>12. Abs' = <<Lvl(in', e, files, cmdly)>> \o Abs /\ Head(Abs) = Running1
    BY <1>1, <1>11, MappedNext, MappedFacts
  <1>13. CASE e
    <2>1. At(in', files, cmdly) = Following(files[f], 1)
      BY <1>3, <1>4, <1>8, <1>13 DEF At
    <2>2. Lvl(in', e, files, cmdly) = [file |-> f, at |-> Following(files[f], 1)]
      BY <1>4, <1>13, <2>1 DEF Lvl
    <2> QED BY <1>1, <1>5, <1>7, <1>11, <1>12, <2>2, IfCalls DEF OInv
  <1>14. CASE ~e
    <2>1. Lvl(in', e, files, cmdly) = [file |-> f, at |-> 0]
      BY <1>4, <1>14 DEF Lvl
    <2>2. f = Running1.file \/ Running1.at = 0
      <3>1. CASE sure[1]
        <4>1. Read(in, TRUE, FALSE)
          BY <1>5, <1>9, <1>14, <3>1 DEF OInv, AllRead, Read
        <4> QED BY <1>7, <1>9, <1>14, <4>1 DEF Read, Running1, Lvl
      <3>2. CASE ~sure[1]
        BY <3>2 DEF Running1, Lvl
      <3> QED BY <3>1, <3>2
    <2> QED BY <1>1, <1>5, <1>11, <1>12, <2>1, <2>2, IfCalls DEF OInv
  <1> QED BY <1>13, <1>14

LEMMA CallReturnsSim == ASSUME OInv, CallReturns PROVE OInv' /\ RNext
  <1>1. IInv /\ IInv'
    BY CallReturnsStep DEF OInv
  <1>2. AllPlaced' /\ AllRead' /\ Mapped' = Below
    BY LevelLeaves
  <1>3. Abs' = Tail(Abs)
    BY <1>1, <1>2, MappedNext, MappedFacts
  <1>4. files' = files /\ Len(Abs) > 1
    <2>1. Len(saved) > 0
      BY <1>1, StateFacts DEF CallReturns
    <2>2. Len(Abs) = Len(saved) + 1
      BY <1>1, MappedFacts
    <2> QED BY <1>1, <2>1, <2>2, StateFacts DEF CallReturns
  <1> QED BY <1>1, <1>2, <1>3, <1>4, IfReturns DEF OInv

LEMMA CmdSetLocalSim == ASSUME OInv, CmdSetLocal PROVE OInv' /\ RNext
  <1>1. IInv /\ IInv'
    BY CmdSetLocalStep DEF OInv
  <1>2. /\ files' = files /\ saved' = saved /\ in' = in /\ Levels' = Levels
        /\ sure' = [k \in DOMAIN sure |-> FALSE]
    BY DEF CmdSetLocal, Levels
  <1>3. DOMAIN sure = 1 .. Len(saved) + 1 /\ DOMAIN Levels = 1 .. Len(saved) + 1
        /\ Len(saved) \in Nat /\ \A k \in 1 .. Len(saved) : k + 1 \in DOMAIN sure
    BY <1>1, StateFacts, LevelsAre
  <1>4. /\ ~sure'[1]
        /\ \A k \in 1 .. Len(saved) : ~sure'[k + 1]
    BY <1>2, <1>3
  <1>5. AllPlaced' /\ AllRead'
    BY <1>2, <1>4 DEF AllPlaced, AllRead, Placed, Read
  <1>6. Abs' = [k \in DOMAIN Abs |-> [Abs[k] EXCEPT !.at = 0]]
    <2>1. DOMAIN Abs = DOMAIN Levels
      BY DEF Abs
    <2>2. \A k \in DOMAIN Levels : LevelAt(k)' = [Abs[k] EXCEPT !.at = 0]
      BY <1>2, <1>3 DEF LevelAt, Abs
    <2> QED BY <1>2, <2>1, <2>2 DEF Abs
  <1> QED BY <1>1, <1>2, <1>5, <1>6, IfSwitches DEF OInv

LEMMA EditSim == ASSUME OInv, Edit PROVE OInv' /\ RNext
  <1>1. IInv /\ IInv'
    BY EditStep DEF OInv
  <1>2. PICK f \in Files, text \in Texts \cup {NULL} :
          /\ files' = [files EXCEPT ![f] = text]
          /\ sure' = [k \in DOMAIN sure |-> sure[k] /\ Levels[k].file # f]
    BY DEF Edit
  <1>3. /\ lists' = lists /\ saved' = saved /\ in' = in /\ Levels' = Levels /\ line' = line
        /\ cmdly' = cmdly
    BY DEF Edit, Levels
  <1>4. /\ DOMAIN sure = 1 .. Len(saved) + 1 /\ DOMAIN Levels = 1 .. Len(saved) + 1
        /\ Len(saved) \in Nat /\ saved \in Seq(Input) /\ in \in Input
        /\ \A k \in 1 .. Len(saved) : k + 1 \in DOMAIN sure /\ Levels[k + 1] = saved[k]
        /\ Levels[1] = in /\ 1 \in DOMAIN sure
    BY <1>1, StateFacts, LevelsAre
  <1>5. \A g \in Files : g # f => files'[g] = files[g]
    BY <1>1, <1>2, StateFacts
  <1>6. /\ sure'[1] = (sure[1] /\ in.file # f)
        /\ \A k \in 1 .. Len(saved) : sure'[k + 1] = (sure[k + 1] /\ saved[k].file # f)
    BY <1>2, <1>4
  <1>7. ASSUME NEW i \in Input, NEW s, Placed(i, s, lists, files, cmdly)
        PROVE  Placed(i, s /\ i.file # f, lists, files', cmdly)
    <2>1. i.file \in Files
      BY DEF Input
    <2> QED BY <1>5, <1>7, <2>1 DEF Placed
  <1>8. AllPlaced'
    <2>1. Placed(in, sure'[1], lists, files', cmdly)
      BY <1>4, <1>6, <1>7 DEF OInv, AllPlaced
    <2>2. \A k \in 1 .. Len(saved) : Placed(saved[k], sure'[k + 1], lists, files', cmdly)
      BY <1>6, <1>7, SavedFacts
    <2> QED BY <1>3, <2>1, <2>2 DEF AllPlaced
  <1>9. AllRead'
    <2>1. line = "runs" => Read(in, sure'[1], cmdly)
      BY <1>6 DEF OInv, AllRead, Read
    <2>2. \A k \in 1 .. Len(saved) : Read(saved[k], sure'[k + 1], cmdly)
      BY <1>6, SavedFacts DEF Read
    <2> QED BY <1>3, <2>1, <2>2 DEF AllRead
  <1>10. Abs' = [k \in DOMAIN Abs |-> IF Abs[k].file = f THEN [Abs[k] EXCEPT !.at = 0] ELSE Abs[k]]
    <2>1. DOMAIN Abs = DOMAIN Levels
      BY DEF Abs
    <2>2. ASSUME NEW k \in DOMAIN Levels
          PROVE  LevelAt(k)' = IF Abs[k].file = f THEN [Abs[k] EXCEPT !.at = 0] ELSE Abs[k]
      <3>1. Levels[k].file \in Files
        BY <1>1, LevelFacts DEF Input
      <3>2. Abs[k] = LevelAt(k) /\ Abs[k].file = Levels[k].file
        BY DEF Abs, LevelAt
      <3>3. sure'[k] = (sure[k] /\ Levels[k].file # f)
        BY <1>2, <1>4
      <3>4. CASE Levels[k].file = f
        BY <1>3, <3>2, <3>3, <3>4 DEF LevelAt
      <3>5. CASE Levels[k].file # f
        <4>1. files'[Levels[k].file] = files[Levels[k].file]
          BY <1>5, <3>1, <3>5
        <4>2. Position(Levels[k])' = Position(Levels[k])
          BY <1>3, <4>1 DEF Position
        <4> QED BY <1>3, <3>2, <3>3, <3>5, <4>2 DEF LevelAt
      <3> QED BY <3>4, <3>5
    <2> QED BY <1>3, <2>1, <2>2 DEF Abs
  <1> QED BY <1>1, <1>2, <1>8, <1>9, <1>10, IfModifies DEF OInv

LEMMA OtherSims ==
    ASSUME OInv, EndOfLine \/ CmdGotoEof \/ MainEnds \/ OutOfMemory \/ UNCHANGED vars
    PROVE  OInv' /\ RNext
  <1>1. IInv /\ IInv'
    BY OtherSteps DEF OInv
  <1>2. /\ UNCHANGED <<files, lists, in, saved, cmdly, sure>>
        /\ line' = "runs" => line = "runs"
    BY DEF EndOfLine, CmdGotoEof, MainEnds, OutOfMemory, vars
  <1>3. AllPlaced' /\ AllRead'
    BY <1>2 DEF OInv, AllPlaced, AllRead
  <1>4. Stutters
    BY <1>2 DEF Stutters, Abs, LevelAt, Position, Levels
  <1> QED BY <1>1, <1>3, <1>4, IfStutters DEF OInv

LEMMA Simulates == ASSUME OInv, [Next]_vars PROVE OInv' /\ RNext
  BY GetLineSim, GetLineCmdlySim, CmdGotoSim, CmdCallFileSim, CmdCallLabelSim, CallFailsSim,
     CallReturnsSim, CmdSetLocalSim, EditSim, OtherSims DEF Next, Stopped

LEMMA InitSim == ASSUME Init PROVE OInv /\ R!Init
  <1>1. IInv
    BY Initially
  <1>2. /\ in.file = Main /\ in.pos = 0 /\ in.batch = NotLoaded /\ NotLoaded.name = NULL
        /\ saved = <<>> /\ sure = <<TRUE>> /\ sure[1] = TRUE /\ line = "none"
        /\ Main \in Files /\ Main # NULL /\ files[Main] # NULL
    BY FilesAssumption, TextsAssumption DEF Init, NotLoaded
  <1>3. AllPlaced /\ AllRead
    BY <1>2 DEF AllPlaced, AllRead, Placed
  <1>4. Running1 = [file |-> Main, at |-> Following(files[Main], 1)]
    BY <1>2 DEF Running1, Lvl, At
  <1>5. Below = <<>>
    BY <1>2 DEF Below, Rest
  <1>6. Abs = <<[file |-> Main, at |-> Following(files[Main], 1)]>>
    BY <1>1, <1>4, <1>5, MappedFacts
  <1>7. R!Init
    BY <1>6, SameFollowing DEF R!Init, R!Start, Init, Abs
  <1> QED BY <1>1, <1>3, <1>7 DEF OInv

\* Scripts are read as Reader says, whatever is cached, shared or reloaded: each step of
\* the readers is a step of Reader or changes nothing that Reader speaks of.
THEOREM ReadsInOrderHolds == Spec => ReadsInOrder
  <1>1. Init => OInv /\ R!Init
    BY InitSim
  <1>2. OInv /\ [Next]_vars => OInv' /\ [R!Next]_(R!vars)
    BY Simulates DEF RNext
  <1> QED BY <1>1, <1>2, PTL DEF Spec, ReadsInOrder, R!Spec
=============================================================================
