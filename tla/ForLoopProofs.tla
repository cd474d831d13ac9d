---------------------------- MODULE ForLoopProofs ----------------------------
(***************************************************************************)
(* Theorems about ForLoop, for any lines, token lists and inputs, and      *)
(* loops in the body of loops to any depth.                                *)
(***************************************************************************)
EXTENDS ForLoop, TLAPS, WellFoundedInduction, SequenceTheorems, FiniteSetTheorems, FunctionTheorems

-----------------------------------------------------------------------------
(* Numbers: a set of them has a least element, which is what induction needs. *)

Less == {p \in Nat \X Nat : p[1] < p[2]}

LEMMA NoneIsWrong ==
    ASSUME NEW W \in SUBSET Nat, 0 \notin W, \A k \in Nat : k \notin W => k + 1 \notin W
    PROVE  W = {}
  <1>0. IsWellFoundedOn(Less, Nat)
    BY NatLessThanWellFounded, Zenon DEF OpToRel, Less
  <1>1. SUFFICES ASSUME W # {} PROVE FALSE
    OBVIOUS
  <1>2. PICK n \in W : \A m \in W : <<m, n>> \notin Less
    BY <1>0, <1>1, WFMin, Zenon
  <1>3. n \in Nat /\ n # 0 /\ n - 1 \in Nat /\ (n - 1) + 1 = n
    BY <1>2
  <1>4. n - 1 \in W
    BY <1>2, <1>3
  <1>5. <<n - 1, n>> \in Less
    BY <1>3 DEF Less
  <1> QED BY <1>2, <1>4, <1>5

-----------------------------------------------------------------------------
(* Token lists: a FORINFO never gets more entries than it has room for. *)

PutNext(before, t) == IF before.status = "ok" THEN Put(before, t, t) ELSE before

\* f[k] is what PutEach has after k entries.
Puts(st, b, n, f) ==
    f = [k \in 0..n |-> IF k = 0 THEN st ELSE PutNext(f[k - 1], b + (k) - 1)]

LEMMA PutsExists ==
    ASSUME NEW st, NEW b, NEW n \in Nat
    PROVE  \E f : Puts(st, b, n, f)
  <1> DEFINE Without == {l \in Nat : ~ \E f : Puts(st, b, l, f)}
  <1>1. 0 \notin Without
    <2> DEFINE f == [k \in 0..0 |-> st]
    <2>1. f = [k \in 0..0 |-> IF k = 0 THEN st ELSE PutNext(f[k - 1], b + (k) - 1)]
      OBVIOUS
    <2>2. Puts(st, b, 0, f)
      BY <2>1 DEF Puts
    <2> QED BY <2>2
  <1>2. ASSUME NEW m \in Nat, m \notin Without PROVE m + 1 \notin Without
    <2>1. PICK g : Puts(st, b, m, g)
      BY <1>2
    <2> DEFINE f == [k \in 0..(m + 1) |-> IF k <= m THEN g[k] ELSE PutNext(g[m], b + (m + 1) - 1)]
               e == [k \in 0..(m + 1) |-> IF k = 0 THEN st ELSE PutNext(f[k - 1], b + (k) - 1)]
    <2>2. \A k \in 0..m : g[k] = IF k = 0 THEN st ELSE PutNext(g[k - 1], b + (k) - 1)
      BY <2>1 DEF Puts
    <2>3. ASSUME NEW k \in 0..(m + 1) PROVE f[k] = e[k]
      <3>1. CASE k = 0
        BY <3>1, <2>2
      <3>2. CASE k # 0
        <4>1. k - 1 \in 0..(m + 1) /\ k - 1 <= m
          BY <3>2
        <4>2. f[k - 1] = g[k - 1] /\ e[k] = PutNext(f[k - 1], b + (k) - 1)
          BY <4>1, <3>2
        <4>3. CASE k <= m
          BY <4>1, <4>2, <4>3, <3>2, <2>2
        <4>4. CASE k = m + 1
          <5>1. ~(k <= m) /\ k - 1 = m
            BY <4>4
          <5>2. f[k] = PutNext(g[m], b + (m + 1) - 1)
            BY <5>1
          <5> QED BY <5>1, <5>2, <4>2, <4>4
        <4> QED BY <4>1, <4>3, <4>4
      <3> QED BY <3>1, <3>2
    <2>4. f = e
      BY <2>3
    <2>5. Puts(st, b, m + 1, f)
      BY <2>4 DEF Puts
    <2> QED BY <2>5
  <1>3. Without = {}
    <2>1. Without \in SUBSET Nat
      OBVIOUS
    <2> HIDE DEF Without
    <2> QED BY <1>1, <1>2, <2>1, NoneIsWrong
  <1> QED BY <1>3

\* f[k] is what ForMakeTokens has after k steps of its loop.
Steps(none, list, n, f) ==
    f = [k \in 0..n |-> IF k = 0 THEN none ELSE TokenStep(f[k - 1], list[k])]

LEMMA StepsExists ==
    ASSUME NEW none, NEW list, NEW n \in Nat
    PROVE  \E f : Steps(none, list, n, f)
  <1> DEFINE Without == {l \in Nat : ~ \E f : Steps(none, list, l, f)}
  <1>1. 0 \notin Without
    <2> DEFINE f == [k \in 0..0 |-> none]
    <2>1. f = [k \in 0..0 |-> IF k = 0 THEN none ELSE TokenStep(f[k - 1], list[k])]
      OBVIOUS
    <2>2. Steps(none, list, 0, f)
      BY <2>1 DEF Steps
    <2> QED BY <2>2
  <1>2. ASSUME NEW m \in Nat, m \notin Without PROVE m + 1 \notin Without
    <2>1. PICK g : Steps(none, list, m, g)
      BY <1>2
    <2> DEFINE f == [k \in 0..(m + 1) |-> IF k <= m THEN g[k] ELSE TokenStep(g[m], list[m + 1])]
               e == [k \in 0..(m + 1) |-> IF k = 0 THEN none ELSE TokenStep(f[k - 1], list[k])]
    <2>2. \A k \in 0..m : g[k] = IF k = 0 THEN none ELSE TokenStep(g[k - 1], list[k])
      BY <2>1 DEF Steps
    <2>3. ASSUME NEW k \in 0..(m + 1) PROVE f[k] = e[k]
      <3>1. CASE k = 0
        BY <3>1, <2>2
      <3>2. CASE k # 0
        <4>1. k - 1 \in 0..(m + 1) /\ k - 1 <= m
          BY <3>2
        <4>2. f[k - 1] = g[k - 1] /\ e[k] = TokenStep(f[k - 1], list[k])
          BY <4>1, <3>2
        <4>3. CASE k <= m
          BY <4>1, <4>2, <4>3, <3>2, <2>2
        <4>4. CASE k = m + 1
          <5>1. ~(k <= m) /\ k - 1 = m
            BY <4>4
          <5>2. f[k] = TokenStep(g[m], list[m + 1])
            BY <5>1
          <5> QED BY <5>1, <5>2, <4>2, <4>4
        <4> QED BY <4>1, <4>3, <4>4
      <3> QED BY <3>1, <3>2
    <2>4. f = e
      BY <2>3
    <2>5. Steps(none, list, m + 1, f)
      BY <2>4 DEF Steps
    <2> QED BY <2>5
  <1>3. Without = {}
    <2>1. Without \in SUBSET Nat
      OBVIOUS
    <2> HIDE DEF Without
    <2> QED BY <1>1, <1>2, <2>1, NoneIsWrong
  <1> QED BY <1>3

\* f[k] is the FORINFO after k options.
Options(options, n, f) ==
    f = [k \in 0..n |-> IF k = 0 THEN Default ELSE Option(f[k - 1], options[k])]

LEMMA OptionsExists ==
    ASSUME NEW options, NEW n \in Nat
    PROVE  \E f : Options(options, n, f)
  <1> DEFINE Without == {l \in Nat : ~ \E f : Options(options, l, f)}
  <1>1. 0 \notin Without
    <2> DEFINE f == [k \in 0..0 |-> Default]
    <2>1. f = [k \in 0..0 |-> IF k = 0 THEN Default ELSE Option(f[k - 1], options[k])]
      OBVIOUS
    <2>2. Options(options, 0, f)
      BY <2>1 DEF Options
    <2> QED BY <2>2
  <1>2. ASSUME NEW m \in Nat, m \notin Without PROVE m + 1 \notin Without
    <2>1. PICK g : Options(options, m, g)
      BY <1>2
    <2> DEFINE f == [k \in 0..(m + 1) |-> IF k <= m THEN g[k] ELSE Option(g[m], options[m + 1])]
               e == [k \in 0..(m + 1) |-> IF k = 0 THEN Default ELSE Option(f[k - 1], options[k])]
    <2>2. \A k \in 0..m : g[k] = IF k = 0 THEN Default ELSE Option(g[k - 1], options[k])
      BY <2>1 DEF Options
    <2>3. ASSUME NEW k \in 0..(m + 1) PROVE f[k] = e[k]
      <3>1. CASE k = 0
        BY <3>1, <2>2
      <3>2. CASE k # 0
        <4>1. k - 1 \in 0..(m + 1) /\ k - 1 <= m
          BY <3>2
        <4>2. f[k - 1] = g[k - 1] /\ e[k] = Option(f[k - 1], options[k])
          BY <4>1, <3>2
        <4>3. CASE k <= m
          BY <4>1, <4>2, <4>3, <3>2, <2>2
        <4>4. CASE k = m + 1
          <5>1. ~(k <= m) /\ k - 1 = m
            BY <4>4
          <5>2. f[k] = Option(g[m], options[m + 1])
            BY <5>1
          <5> QED BY <5>1, <5>2, <4>2, <4>4
        <4> QED BY <4>1, <4>3, <4>4
      <3> QED BY <3>1, <3>2
    <2>4. f = e
      BY <2>3
    <2>5. Options(options, m + 1, f)
      BY <2>4 DEF Options
    <2> QED BY <2>5
  <1>3. Without = {}
    <2>1. Without \in SUBSET Nat
      OBVIOUS
    <2> HIDE DEF Without
    <2> QED BY <1>1, <1>2, <2>1, NoneIsWrong
  <1> QED BY <1>3

Symbols == {",", "end", "-", ".", "*", "other"}

\* What the loop of ForMakeTokens has between two steps.
StateOK(st) ==
    /\ DOMAIN st = {"start", "end", "op", "prev", "last", "tok", "n", "status"}
    /\ st.start \in Int /\ st.end \in Int /\ st.last \in Int
    /\ st.op \in {"none", "cat", "list"} /\ st.n \in 0..MaxTokens

LEMMA PutOK ==
    ASSUME NEW st, StateOK(st), NEW b, NEW e
    PROVE  StateOK(Put(st, b, e))
  <1>1. CASE st.n >= MaxTokens
    BY <1>1 DEF Put, StateOK
  <1>2. CASE ~(st.n >= MaxTokens)
    <2> DEFINE tok == [st.tok EXCEPT ![st.n + 1] = <<BitOr(@[1], Entry(b, e)[1]), BitOr(@[2], Entry(b, e)[2])>>]
    <2>1. Put(st, b, e) = [st EXCEPT !.n = @ + 1, !.tok = tok]
      BY <1>2 DEF Put
    <2> HIDE DEF tok
    <2>2. st.n + 1 \in 0..MaxTokens
      BY <1>2, TokensAssumption DEF StateOK
    <2> QED BY <2>1, <2>2 DEF StateOK
  <1> QED BY <1>1, <1>2

LEMMA PutEachOK ==
    ASSUME NEW st, StateOK(st), NEW b \in Int, NEW e \in Int
    PROVE  StateOK(PutEach(st, b, e))
  <1>1. CASE e < b
    BY <1>1 DEF PutEach
  <1>2. CASE ~(e < b)
    <2> DEFINE n == e - b + 1
               put == CHOOSE f : Puts(st, b, n, f)
               Wrong == {k \in Nat : k \in 0..n /\ ~StateOK(put[k])}
    <2>1. n \in Nat
      BY <1>2
    <2>2. Puts(st, b, n, put)
      BY <2>1, PutsExists
    <2>3. PutEach(st, b, e) = put[n]
      BY <1>2, Zenon DEF PutEach, Puts, PutNext
    <2> HIDE DEF put, n
    <2>4. \A k \in 0..n : put[k] = IF k = 0 THEN st ELSE PutNext(put[k - 1], b + k - 1)
      BY <2>2 DEF Puts
    <2>5. 0 \notin Wrong
      BY <2>1, <2>4
    <2>6. ASSUME NEW k \in Nat, k \notin Wrong PROVE k + 1 \notin Wrong
      <3>1. CASE k + 1 \in 0..n
        <4>1. k \in 0..n /\ (k + 1) - 1 = k /\ k + 1 # 0
          BY <3>1, <2>1
        <4>2. StateOK(put[k])
          BY <2>6, <4>1
        <4>3. put[k + 1] = PutNext(put[k], b + (k + 1) - 1)
          BY <2>4, <3>1, <4>1
        <4>4. StateOK(put[k + 1])
          BY <4>2, <4>3, PutOK DEF PutNext
        <4> QED BY <4>4
      <3>2. CASE k + 1 \notin 0..n
        BY <3>2
      <3> QED BY <3>1, <3>2
    <2>7. Wrong = {}
      <3>1. Wrong \in SUBSET Nat
        OBVIOUS
      <3> HIDE DEF Wrong
      <3> QED BY <2>5, <2>6, <3>1, NoneIsWrong
    <2> QED BY <2>1, <2>3, <2>7
  <1> QED BY <1>1, <1>2

LEMMA TokenStepOK ==
    ASSUME NEW old, StateOK(old), NEW item \in Int \X Symbols
    PROVE  StateOK(TokenStep(old, item))
  <1> DEFINE sym == item[2]
             st == Number(old, item[1], sym)
             to == [st EXCEPT !.prev = sym]
  <1>0. item[1] \in Int /\ sym \in Symbols /\ All \in Int
    BY TokensAssumption
  <1>1. StateOK(st)
    BY <1>0 DEF Number, StateOK
  <1>2. StateOK(to)
    BY <1>1 DEF StateOK
  <1> HIDE DEF st, to, sym
  <1>3. StateOK(Write(to))
    <2> DEFINE written == CASE to.op = "none" -> Put(to, to.start, to.start)
                     [] to.op # "none" /\ to.end = None -> [to EXCEPT !.status = "bad"]
                     [] to.op = "cat" /\ to.end # None  -> Put(to, to.start, to.end)
                     [] to.op = "list" /\ to.end # None -> PutEach(to, to.start, to.end)
    <2>1. StateOK(written)
      <3>1. StateOK(Put(to, to.start, to.start)) /\ StateOK(Put(to, to.start, to.end))
        BY <1>2, PutOK
      <3>2. StateOK(PutEach(to, to.start, to.end))
        BY <1>2, PutEachOK DEF StateOK
      <3>3. StateOK([to EXCEPT !.status = "bad"])
        BY <1>2 DEF StateOK
      <3>4. to.op \in {"none", "cat", "list"}
        BY <1>2 DEF StateOK
      <3>5. CASE to.op = "none"
        BY <3>1, <3>5
      <3>6. CASE to.op # "none" /\ to.end = None
        BY <3>3, <3>6
      <3>7. CASE to.op = "cat" /\ to.end # None
        BY <3>1, <3>7
      <3>8. CASE to.op = "list" /\ to.end # None
        BY <3>2, <3>8
      <3> QED BY <3>4, <3>5, <3>6, <3>7, <3>8
    <2>2. Write(to) = [written EXCEPT !.last = IF to.op = "none" THEN to.start ELSE to.end,
                        !.start = None, !.end = None, !.op = "none"]
      BY DEF Write
    <2> HIDE DEF written
    <2> QED BY <1>2, <2>1, <2>2 DEF StateOK, None
  <1>4. StateOK(Operator(to, "list")) /\ StateOK(Operator(to, "cat"))
    BY <1>2 DEF Operator, StateOK
  <1>5. StateOK(Star(to))
    <2>1. StateOK(Put(to, to.start, to.start))
      BY <1>2, PutOK
    <2>2. StateOK([Put(to, to.start, to.start) EXCEPT !.start = @ + 1, !.op = "cat", !.end = All])
      BY <2>1, <1>0 DEF StateOK
    <2>3. StateOK([to EXCEPT !.start = to.last + 1, !.end = All, !.op = "cat"])
      BY <1>2, <1>0 DEF StateOK
    <2>4. StateOK([to EXCEPT !.status = "bad"]) /\ StateOK([to EXCEPT !.end = All])
      BY <1>2, <1>0 DEF StateOK
    <2>5. to.op \in {"none", "cat", "list"}
      BY <1>2 DEF StateOK
    <2>6. CASE to.start = None
      BY <2>3, <2>6 DEF Star
    <2>7. CASE to.start # None /\ to.op = "none"
      BY <2>2, <2>7 DEF Star
    <2>8. CASE to.start # None /\ to.op = "list"
      BY <2>4, <2>8 DEF Star
    <2>9. CASE to.start # None /\ to.op = "cat"
      BY <2>4, <2>9 DEF Star
    <2> QED BY <2>5, <2>6, <2>7, <2>8, <2>9
  <1>6. StateOK([st EXCEPT !.status = "bad"])
    BY <1>1 DEF StateOK
  <1> DEFINE next == CASE st.start = None /\ sym # "*" -> [st EXCEPT !.status = "bad"]
                   [] st.start # None /\ sym \in {",", "end"} -> Write(to)
                   [] st.start # None /\ sym = "-" -> Operator(to, "list")
                   [] st.start # None /\ sym = "." -> Operator(to, "cat")
                   [] sym = "*" -> Star(to)
                   [] st.start # None /\ sym = "other" -> [st EXCEPT !.status = "bad"]
  <1>7. StateOK(next)
    <2>1. CASE st.start = None /\ sym # "*"
      BY <1>6, <2>1
    <2>2. CASE st.start # None /\ sym \in {",", "end"}
      BY <1>3, <2>2
    <2>3. CASE st.start # None /\ sym = "-"
      BY <1>4, <2>3
    <2>4. CASE st.start # None /\ sym = "."
      BY <1>4, <2>4
    <2>5. CASE sym = "*"
      BY <1>5, <2>5
    <2>6. CASE st.start # None /\ sym = "other"
      BY <1>6, <2>6
    <2> QED BY <1>0, <2>1, <2>2, <2>3, <2>4, <2>5, <2>6 DEF Symbols
  <1>8. TokenStep(old, item) = CASE old.status # "ok" -> old
                                 [] old.status = "ok" /\ st.status # "ok" -> st
                                 [] old.status = "ok" /\ st.status = "ok" -> next
    BY Zenon DEF TokenStep, st, to, sym
  <1> HIDE DEF next
  <1> QED BY <1>1, <1>7, <1>8

\* A FORINFO
InfoOK(info) ==
    /\ DOMAIN info = {"delims", "eol", "skip", "usebackq", "iTokenNb", "tok", "status"}
    /\ info.iTokenNb \in 0..MaxTokens

LEMMA DefaultOK == InfoOK(Default) /\ InfoOK(Deprecated) /\ Default.iTokenNb = 1 /\ Deprecated.iTokenNb = 1
  <1>1. 1 \in 0..MaxTokens
    BY TokensAssumption
  <1> QED BY <1>1 DEF InfoOK, Default, Deprecated

LEMMA ForMakeTokensOK ==
    ASSUME NEW list \in Seq(Int \X Symbols), NEW info, InfoOK(info)
    PROVE  InfoOK(ForMakeTokens(list, info))
  <1> DEFINE none == [start |-> None, end |-> None, op |-> "none", prev |-> "", last |-> 0,
                      tok |-> info.tok, n |-> 0, status |-> "ok"]
             n == Len(list)
             steps == CHOOSE f : Steps(none, list, n, f)
             Wrong == {k \in Nat : k \in 0..n /\ ~StateOK(steps[k])}
  <1>1. n \in Nat
    OBVIOUS
  <1>2. StateOK(none)
    BY TokensAssumption DEF StateOK, None
  <1> HIDE DEF none
  <1>3. Steps(none, list, n, steps)
    BY <1>1, StepsExists
  <1>4. ForMakeTokens(list, info) =
            [info EXCEPT !.tok = steps[n].tok, !.status = steps[n].status,
                         !.iTokenNb = IF steps[n].status = "ok" THEN steps[n].n ELSE @]
    BY Zenon DEF ForMakeTokens, Steps, none
  <1> HIDE DEF steps
  <1>5. \A k \in 0..n : steps[k] = IF k = 0 THEN none ELSE TokenStep(steps[k - 1], list[k])
    BY <1>3 DEF Steps
  <1>6. 0 \notin Wrong
    BY <1>1, <1>2, <1>5
  <1>7. ASSUME NEW k \in Nat, k \notin Wrong PROVE k + 1 \notin Wrong
    <2>1. CASE k + 1 \in 0..n
      <3>1. k \in 0..n /\ (k + 1) - 1 = k /\ k + 1 # 0 /\ k + 1 \in 1..Len(list)
        BY <2>1, <1>1
      <3>2. StateOK(steps[k])
        BY <1>7, <3>1
      <3>3. steps[k + 1] = TokenStep(steps[k], list[k + 1])
        BY <1>5, <2>1, <3>1
      <3>4. list[k + 1] \in Int \X Symbols
        BY <3>1, ElementOfSeq
      <3>5. StateOK(steps[k + 1])
        BY <3>2, <3>3, <3>4, TokenStepOK
      <3> QED BY <3>5
    <2>2. CASE k + 1 \notin 0..n
      BY <2>2
    <2> QED BY <2>1, <2>2
  <1>8. Wrong = {}
    <2>1. Wrong \in SUBSET Nat
      OBVIOUS
    <2> HIDE DEF Wrong
    <2> QED BY <1>6, <1>7, <2>1, NoneIsWrong
  <1>9. StateOK(steps[n])
    BY <1>1, <1>8
  <1> QED BY <1>4, <1>9 DEF InfoOK, StateOK

LEMMA OptionKeepsInfo ==
    ASSUME NEW info, InfoOK(info), NEW o, OptionOK(o)
    PROVE  InfoOK(Option(info, o))
  <1>1. CASE info.status # "ok"
    BY <1>1 DEF Option
  <1>2. CASE info.status = "ok" /\ o.type = "tokens"
    <2>1. o.list \in Seq(Int \X Symbols)
      BY <1>2 DEF OptionOK, Symbols
    <2>2. Option(info, o) = ForMakeTokens(o.list, info)
      BY <1>2 DEF Option
    <2> QED BY <2>1, <2>2, ForMakeTokensOK
  <1>3. CASE info.status = "ok" /\ o.type \in {"usebackq", "delims", "skip", "eol", "invalid"}
    BY <1>3 DEF Option, InfoOK
  <1> QED BY <1>1, <1>2, <1>3 DEF OptionOK

LEMMA ForMakeInfoOK ==
    ASSUME NEW options, IsText(options), \A o \in Range(options) : OptionOK(o)
    PROVE  InfoOK(ForMakeInfo(options))
  <1> DEFINE n == Len(options)
             read == CHOOSE f : Options(options, n, f)
             Wrong == {k \in Nat : k \in 0..n /\ ~InfoOK(read[k])}
  <1>0. options \in Seq(Range(options))
    BY DEF IsText
  <1>1. n \in Nat
    BY <1>0
  <1>2. Options(options, n, read)
    BY <1>1, OptionsExists
  <1>3. ForMakeInfo(options) = read[n]
    BY Zenon DEF ForMakeInfo, Options
  <1> HIDE DEF read
  <1>4. \A k \in 0..n : read[k] = IF k = 0 THEN Default ELSE Option(read[k - 1], options[k])
    BY <1>2 DEF Options
  <1>5. 0 \notin Wrong
    BY <1>1, <1>4, DefaultOK
  <1>6. ASSUME NEW k \in Nat, k \notin Wrong PROVE k + 1 \notin Wrong
    <2>1. CASE k + 1 \in 0..n
      <3>1. k \in 0..n /\ (k + 1) - 1 = k /\ k + 1 # 0 /\ k + 1 \in 1..Len(options)
        BY <2>1, <1>1
      <3>2. InfoOK(read[k])
        BY <1>6, <3>1
      <3>3. read[k + 1] = Option(read[k], options[k + 1])
        BY <1>4, <2>1, <3>1
      <3>4. OptionOK(options[k + 1])
        BY <1>0, <3>1, ElementOfSeq
      <3>5. InfoOK(read[k + 1])
        BY <3>2, <3>3, <3>4, OptionKeepsInfo
      <3> QED BY <3>5
    <2>2. CASE k + 1 \notin 0..n
      BY <2>2
    <2> QED BY <2>1, <2>2
  <1>7. Wrong = {}
    <2>1. Wrong \in SUBSET Nat
      OBVIOUS
    <2> HIDE DEF Wrong
    <2> QED BY <1>5, <1>6, <2>1, NoneIsWrong
  <1> QED BY <1>1, <1>3, <1>7


-----------------------------------------------------------------------------
(* | of C: 0 | x = x. *)

Bit(p) == IF p[1] % 2 = 1 \/ p[2] % 2 = 1 THEN 1 ELSE 0
Half(p) == <<p[1] \div 2, p[2] \div 2>>
\* f[w] is | for numbers of w bits.
Ors(n, f) ==
    f = [w \in 0..n |-> [p \in Nat \X Nat |-> IF w = 0 THEN 0 ELSE Bit(p) + 2 * f[w - 1][Half(p)]]]
Longer(g) == [p \in Nat \X Nat |-> Bit(p) + 2 * g[Half(p)]]
Nought == [p \in Nat \X Nat |-> 0]

LEMMA OrsStep ==
    ASSUME NEW n \in Nat, NEW f
    PROVE  Ors(n, f) <=> f = [w \in 0..n |-> IF w = 0 THEN Nought ELSE Longer(f[w - 1])]
  <1>1. ASSUME NEW w \in 0..n
        PROVE  [p \in Nat \X Nat |-> IF w = 0 THEN 0 ELSE Bit(p) + 2 * f[w - 1][Half(p)]]
                   = IF w = 0 THEN Nought ELSE Longer(f[w - 1])
    <2>1. CASE w = 0
      BY <2>1, Zenon DEF Nought
    <2>2. CASE w # 0
      BY <2>2, Zenon DEF Longer
    <2> QED BY <2>1, <2>2
  <1> DEFINE A == [w \in 0..n |-> [p \in Nat \X Nat |-> IF w = 0 THEN 0 ELSE Bit(p) + 2 * f[w - 1][Half(p)]]]
             B == [w \in 0..n |-> IF w = 0 THEN Nought ELSE Longer(f[w - 1])]
  <1>2. A = B
    BY <1>1, Zenon
  <1> QED BY <1>2, Zenon DEF Ors

LEMMA OrsExists ==
    ASSUME NEW n \in Nat
    PROVE  \E f : Ors(n, f)
  <1> DEFINE With(l, f) == f = [k \in 0..l |-> IF k = 0 THEN Nought ELSE Longer(f[k - 1])]
             Without == {l \in Nat : ~ \E f : With(l, f)}
  <1>1. 0 \notin Without
    <2> DEFINE f == [k \in 0..0 |-> Nought]
    <2>1. With(0, f)
      OBVIOUS
    <2> QED BY <2>1
  <1>2. ASSUME NEW m \in Nat, m \notin Without PROVE m + 1 \notin Without
    <2>1. PICK g : With(m, g)
      BY <1>2
    <2> DEFINE f == [k \in 0..(m + 1) |-> IF k <= m THEN g[k] ELSE Longer(g[m])]
               e == [k \in 0..(m + 1) |-> IF k = 0 THEN Nought ELSE Longer(f[k - 1])]
    <2>2. \A k \in 0..m : g[k] = IF k = 0 THEN Nought ELSE Longer(g[k - 1])
      BY <2>1
    <2>3. ASSUME NEW k \in 0..(m + 1) PROVE f[k] = e[k]
      <3>1. CASE k = 0
        BY <3>1, <2>2
      <3>2. CASE k # 0
        <4>1. k - 1 \in 0..(m + 1) /\ k - 1 <= m
          BY <3>2
        <4>2. f[k - 1] = g[k - 1] /\ e[k] = Longer(f[k - 1])
          BY <4>1, <3>2
        <4>3. CASE k <= m
          BY <4>1, <4>2, <4>3, <3>2, <2>2
        <4>4. CASE k = m + 1
          <5>1. ~(k <= m) /\ k - 1 = m
            BY <4>4
          <5>2. f[k] = Longer(g[m])
            BY <5>1
          <5> QED BY <5>1, <5>2, <4>2, <4>4
        <4> QED BY <4>1, <4>3, <4>4
      <3> QED BY <3>1, <3>2
    <2>4. f = e
      BY <2>3
    <2>5. With(m + 1, f)
      BY <2>4
    <2> HIDE DEF With
    <2> QED BY <2>5
  <1>3. Without = {}
    <2>1. Without \in SUBSET Nat
      OBVIOUS
    <2> HIDE DEF Without
    <2> QED BY <1>1, <1>2, <2>1, NoneIsWrong
  <1>4. PICK f : With(n, f)
    BY <1>3
  <1> QED BY <1>4, OrsStep

LEMMA Halves ==
    ASSUME NEW m \in Nat, NEW j \in 0..(m + 1)
    PROVE  j \div 2 \in 0..m /\ j % 2 \in {0, 1} /\ j = 2 * (j \div 2) + (j % 2)
  OBVIOUS

LEMMA OrNothing ==
    ASSUME NEW b \in Nat
    PROVE  BitOr(0, b) = b
  <1> DEFINE or == CHOOSE f : Ors(0 + b, f)
             Wrong == {m \in Nat : m <= b /\ \E j \in 0..m : or[m][<<0, j>>] # j}
  <1>1. BitOr(0, b) = or[0 + b][<<0, b>>]
    BY Zenon DEF BitOr, Ors, Bit, Half
  <1>2. Ors(b, or) /\ 0 + b = b
    BY OrsExists
  <1> HIDE DEF or
  <1>3. \A w \in 0..b : or[w] = IF w = 0 THEN Nought ELSE Longer(or[w - 1])
    BY <1>2, OrsStep
  <1>4. 0 \notin Wrong
    <2>1. or[0] = Nought /\ <<0, 0>> \in Nat \X Nat
      BY <1>3
    <2>2. or[0][<<0, 0>>] = 0
      BY <2>1 DEF Nought
    <2>3. \A j \in 0..0 : j = 0
      OBVIOUS
    <2> QED BY <2>2, <2>3
  <1>5. ASSUME NEW m \in Nat, m \notin Wrong PROVE m + 1 \notin Wrong
    <2>1. ASSUME NEW j \in 0..(m + 1), m + 1 <= b PROVE or[m + 1][<<0, j>>] = j
      <3> DEFINE i == j \div 2
                 p == <<0, j>>
      <3>1. i \in 0..m /\ j % 2 \in {0, 1} /\ j = 2 * i + (j % 2)
        BY Halves
      <3>2. or[m + 1] = Longer(or[m])
        <4>1. m + 1 \in 0..b /\ m + 1 # 0 /\ (m + 1) - 1 = m
          BY <2>1
        <4> QED BY <1>3, <4>1
      <3>3. p \in Nat \X Nat /\ p[1] = 0 /\ p[2] = j /\ Half(p) = <<0, i>> /\ Bit(p) = j % 2
        <4>1. 0 \div 2 = 0 /\ 0 % 2 = 0
          OBVIOUS
        <4> QED BY <3>1, <4>1 DEF Half, Bit
      <3> HIDE DEF i, p
      <3>4. or[m][<<0, i>>] = i
        BY <1>5, <2>1, <3>1
      <3>5. or[m + 1][p] = Bit(p) + 2 * or[m][Half(p)]
        BY <3>2, <3>3 DEF Longer
      <3>6. or[m + 1][p] = (j % 2) + 2 * i
        BY <3>3, <3>4, <3>5, Zenon
      <3>7. or[m + 1][p] = j
        <4>1. j % 2 \in Int /\ i \in Int /\ j = (j % 2) + 2 * i
          BY <3>1
        <4> QED BY <3>6, <4>1, Zenon
      <3> QED BY <3>7, Zenon DEF p
    <2> QED BY <2>1
  <1>6. Wrong = {}
    <2>1. Wrong \in SUBSET Nat
      OBVIOUS
    <2> HIDE DEF Wrong
    <2> QED BY <1>4, <1>5, <2>1, NoneIsWrong
  <1>7. b \notin Wrong
    BY <1>6
  <1> QED BY <1>1, <1>2, <1>7

-----------------------------------------------------------------------------
(* Sequences that are put behind one another *)

\* f[i] is what the first i of them give.
Flats(seqs, n, f) == f = [i \in 1..n |-> IF i = 1 THEN seqs[i] ELSE f[i - 1] \o seqs[i]]

LEMMA FlatsExists ==
    ASSUME NEW seqs, NEW n \in Nat
    PROVE  \E f : Flats(seqs, n, f)
  <1> DEFINE Without == {l \in Nat : ~ \E f : Flats(seqs, l, f)}
  <1>1. 0 \notin Without
    <2> DEFINE f == [i \in 1..0 |-> 0]
    <2>1. f = [i \in 1..0 |-> IF i = 1 THEN seqs[i] ELSE f[i - 1] \o seqs[i]]
      OBVIOUS
    <2>2. Flats(seqs, 0, f)
      BY <2>1 DEF Flats
    <2> QED BY <2>2
  <1>2. ASSUME NEW m \in Nat, m \notin Without PROVE m + 1 \notin Without
    <2>1. PICK g : Flats(seqs, m, g)
      BY <1>2
    <2> DEFINE more == IF m = 0 THEN seqs[1] ELSE g[m] \o seqs[m + 1]
               f == [i \in 1..(m + 1) |-> IF i <= m THEN g[i] ELSE more]
               e == [i \in 1..(m + 1) |-> IF i = 1 THEN seqs[i] ELSE f[i - 1] \o seqs[i]]
    <2>2. \A i \in 1..m : g[i] = IF i = 1 THEN seqs[i] ELSE g[i - 1] \o seqs[i]
      BY <2>1 DEF Flats
    <2>3. ASSUME NEW i \in 1..(m + 1) PROVE f[i] = e[i]
      <3>0. e[i] = IF i = 1 THEN seqs[i] ELSE f[i - 1] \o seqs[i]
        OBVIOUS
      <3>1. i # 1 => i - 1 \in 1..(m + 1) /\ i - 1 <= m
        OBVIOUS
      <3>2. i # 1 => f[i - 1] = g[i - 1]
        BY <3>1
      <3>3. CASE i <= m
        <4>1. f[i] = g[i] /\ i \in 1..m
          BY <3>3
        <4> HIDE DEF f, e
        <4> QED BY <3>0, <3>2, <4>1, <2>2
      <3>4. CASE i = m + 1
        <4>1. f[i] = more /\ ~(i <= m) /\ i - 1 = m /\ (i = 1 <=> m = 0)
          BY <3>4
        <4> HIDE DEF f, e
        <4>2. CASE i = 1
          BY <3>0, <4>1, <4>2
        <4>3. CASE i # 1
          BY <3>0, <3>2, <4>1, <4>3, <3>4
        <4> QED BY <4>2, <4>3
      <3> QED BY <3>3, <3>4
    <2>4. f = e
      <3> HIDE DEF more
      <3> QED BY <2>3
    <2> HIDE DEF more
    <2>5. Flats(seqs, m + 1, f)
      BY <2>4 DEF Flats
    <2> QED BY <2>5
  <1>3. Without = {}
    <2>1. Without \in SUBSET Nat
      OBVIOUS
    <2> HIDE DEF Without
    <2> QED BY <1>1, <1>2, <2>1, NoneIsWrong
  <1> QED BY <1>3

\* g[i] is what the first i of them give, and the beginning of the whole.
Grows(seqs, g, S) ==
    /\ g[0] = <<>> /\ \A i \in 0..Len(seqs) : g[i] \in Seq(S)
    /\ \A i \in 1..Len(seqs) : g[i] = g[i - 1] \o seqs[i]
    /\ g[Len(seqs)] = FlattenSeq(seqs)

LEMMA FlattenGrows ==
    ASSUME NEW S, NEW seqs \in Seq(Seq(S))
    PROVE  \E g : Grows(seqs, g, S)
  <1> DEFINE n == Len(seqs)
             f == CHOOSE h : Flats(seqs, n, h)
             g == [i \in 0..n |-> IF i = 0 THEN <<>> ELSE f[i]]
             Wrong == {k \in Nat : k \in 0..n /\ g[k] \notin Seq(S)}
  <1>1. n \in Nat
    OBVIOUS
  <1>2. Flats(seqs, n, f)
    BY <1>1, FlatsExists
  <1>3. n # 0 => FlattenSeq(seqs) = f[n]
    BY Zenon DEF FlattenSeq, Flats
  <1>4. n = 0 => FlattenSeq(seqs) = <<>>
    BY EmptySeq DEF FlattenSeq
  <1> HIDE DEF f
  <1>5. \A i \in 1..n : f[i] = IF i = 1 THEN seqs[i] ELSE f[i - 1] \o seqs[i]
    BY <1>2 DEF Flats
  <1>6. \A i \in 1..n : seqs[i] \in Seq(S)
    BY ElementOfSeq
  <1>7. g[0] = <<>> /\ \A i \in 1..n : g[i] = f[i]
    BY <1>1
  <1> HIDE DEF g, n
  <1>8. \A i \in 1..n : g[i] = g[i - 1] \o seqs[i]
    <2> TAKE i \in 1..n
    <2>1. CASE i = 1
      <3>1. <<>> \o seqs[i] = seqs[i]
        BY <1>6, ConcatEmptySeq
      <3>2. i - 1 = 0
        BY <2>1
      <3> QED BY <1>5, <1>7, <2>1, <3>1, <3>2
    <2>2. CASE i # 1
      <3>1. i - 1 \in 1..n
        BY <1>1, <2>2
      <3> QED BY <1>5, <1>7, <2>2, <3>1
    <2> QED BY <2>1, <2>2
  <1>9. 0 \notin Wrong
    BY <1>7, EmptySeq
  <1>10. ASSUME NEW k \in Nat, k \notin Wrong PROVE k + 1 \notin Wrong
    <2>1. ASSUME k + 1 \in 0..n PROVE g[k + 1] \in Seq(S)
      <3>1. k + 1 \in 1..n /\ k \in 0..n /\ (k + 1) - 1 = k
        BY <1>1, <2>1
      <3>2. g[k] \in Seq(S) /\ g[k + 1] = g[k] \o seqs[k + 1] /\ seqs[k + 1] \in Seq(S)
        BY <1>6, <1>8, <1>10, <3>1
      <3> QED BY <3>2, ConcatProperties
    <2> QED BY <2>1
  <1>11. Wrong = {}
    <2>1. Wrong \in SUBSET Nat
      OBVIOUS
    <2> HIDE DEF Wrong
    <2> QED BY <1>9, <1>10, <2>1, NoneIsWrong
  <1>12. g[n] = FlattenSeq(seqs)
    BY <1>1, <1>3, <1>4, <1>7
  <1>13. \A i \in 0..n : g[i] \in Seq(S)
    BY <1>1, <1>11
  <1> QED BY <1>7, <1>8, <1>12, <1>13 DEF Grows, n

Continues(seqs, g, i) ==
    /\ Len(g[i]) = Len(g[i - 1]) + Len(seqs[i]) /\ Len(g[i - 1]) \in Nat /\ Len(seqs[i]) \in Nat
    /\ Len(g[i]) <= Len(g[Len(seqs)])
    /\ \A j \in 1..Len(seqs[i]) : g[Len(seqs)][Len(g[i - 1]) + j] = seqs[i][j]

LEMMA Beginnings ==
    ASSUME NEW S, NEW seqs \in Seq(Seq(S)), NEW g, Grows(seqs, g, S), NEW i \in 1..Len(seqs)
    PROVE  Continues(seqs, g, i)
  <1> DEFINE n == Len(seqs)
             Agree(a, b) == Len(a) <= Len(b) /\ \A j \in 1..Len(a) : a[j] = b[j]
             Wrong == {k \in Nat : i + k <= n /\ ~Agree(g[i], g[i + k])}
  <1>1. n \in Nat /\ i - 1 \in 0..n /\ i \in 0..n
    OBVIOUS
  <1>2. \A k \in 0..n : g[k] \in Seq(S) /\ Len(g[k]) \in Nat
    BY DEF Grows
  <1>3. \A k \in 1..n : seqs[k] \in Seq(S) /\ Len(seqs[k]) \in Nat
    BY ElementOfSeq
  <1>4. \A k \in 1..n : /\ g[k] = g[k - 1] \o seqs[k]
                        /\ Len(g[k]) = Len(g[k - 1]) + Len(seqs[k])
                        /\ \A j \in 1..Len(g[k]) :
                               g[k][j] = IF j <= Len(g[k - 1]) THEN g[k - 1][j] ELSE seqs[k][j - Len(g[k - 1])]
    <2> TAKE k \in 1..n
    <2>1. k - 1 \in 0..n
      BY <1>1
    <2>2. g[k] = g[k - 1] \o seqs[k]
      BY DEF Grows
    <2> DEFINE a == g[k - 1]
               b == seqs[k]
    <2>3. a \in Seq(S) /\ b \in Seq(S)
      BY <1>2, <1>3, <2>1
    <2> HIDE DEF a, b
    <2>4. /\ Len(a \o b) = Len(a) + Len(b)
          /\ \A j \in 1..(Len(a) + Len(b)) : (a \o b)[j] = IF j <= Len(a) THEN a[j] ELSE b[j - Len(a)]
      BY <2>3, ConcatProperties
    <2>5. g[k] = a \o b
      BY <2>2 DEF a, b
    <2> QED BY <2>4, <2>5 DEF a, b
  <1> HIDE DEF n
  <1>5. 0 \notin Wrong
    <2>1. i + 0 = i
      BY <1>1
    <2> QED BY <1>1, <1>2, <2>1
  <1>6. ASSUME NEW k \in Nat, k \notin Wrong PROVE k + 1 \notin Wrong
    <2>1. ASSUME i + (k + 1) <= n PROVE Agree(g[i], g[i + (k + 1)])
      <3> DEFINE l == i + (k + 1)
      <3>1. l \in 1..n /\ l - 1 = i + k /\ l - 1 \in 0..n /\ i + k <= n
        BY <1>1, <2>1
      <3> HIDE DEF l
      <3>2. Agree(g[i], g[l - 1])
        BY <1>6, <3>1
      <3> DEFINE x == Len(g[i])
                 y == Len(g[l - 1])
                 z == Len(seqs[l])
      <3>3. x \in Nat /\ y \in Nat /\ z \in Nat /\ x <= y
        BY <1>1, <1>2, <1>3, <3>1, <3>2
      <3>4. Len(g[l]) = y + z /\ \A j \in 1..Len(g[l]) : g[l][j] = IF j <= y THEN g[l - 1][j] ELSE seqs[l][j - y]
        BY <1>4, <3>1
      <3>5. \A j \in 1..x : g[i][j] = g[l - 1][j]
        BY <3>2
      <3>6. x <= Len(g[l]) /\ \A j \in 1..x : g[i][j] = g[l][j]
        <4> HIDE DEF x, y, z
        <4>1. x <= Len(g[l])
          BY <3>3, <3>4
        <4>2. \A j \in 1..x : j \in 1..Len(g[l]) /\ j <= y
          BY <3>3, <3>4
        <4> QED BY <3>4, <3>5, <4>1, <4>2
      <3>7. Agree(g[i], g[l])
        BY <3>6
      <3> QED BY <3>7 DEF l
    <2> QED BY <2>1
  <1>7. Wrong = {}
    <2>1. Wrong \in SUBSET Nat
      OBVIOUS
    <2> HIDE DEF Wrong
    <2> QED BY <1>5, <1>6, <2>1, NoneIsWrong
  <1>8. Agree(g[i], g[n])
    <2>1. n - i \in Nat /\ i + (n - i) = n /\ i + (n - i) <= n
      BY <1>1 DEF n
    <2>2. n - i \notin Wrong
      BY <1>7
    <2> HIDE DEF Agree
    <2> QED BY <2>1, <2>2
  <1>9. \A j \in 1..Len(seqs[i]) : g[n][Len(g[i - 1]) + j] = seqs[i][j]
    <2> TAKE j \in 1..Len(seqs[i])
    <2> DEFINE y == Len(g[i - 1])
               z == Len(seqs[i])
               p == y + j
    <2>1. y \in Nat /\ z \in Nat /\ i \in 1..n
      BY <1>1, <1>2, <1>3 DEF n
    <2>2. Len(g[i]) = y + z /\ \A q \in 1..Len(g[i]) : g[i][q] = IF q <= y THEN g[i - 1][q] ELSE seqs[i][q - y]
      BY <1>4, <2>1
    <2>3. j \in 1..z
      OBVIOUS
    <2>4. \A q \in 1..Len(g[i]) : g[i][q] = g[n][q]
      BY <1>8
    <2> HIDE DEF y, z
    <2>5. p \in 1..Len(g[i]) /\ ~(p <= y) /\ p - y = j
      BY <2>1, <2>2, <2>3
    <2> HIDE DEF p
    <2>6. g[n][p] = seqs[i][j]
      BY <2>2, <2>4, <2>5
    <2> QED BY <2>6 DEF p, y
  <1> QED BY <1>1, <1>2, <1>3, <1>4, <1>8, <1>9 DEF n, Continues

-----------------------------------------------------------------------------
(* A list of entries L, written to the FORINFO of base: the state has the  *)
(* first n of them, each combined with what was there.                     *)

Or2(x, y) == <<BitOr(x[1], y[1]), BitOr(x[2], y[2])>>
Fits(st, base, L) ==
    /\ StateOK(st)
    /\ st.tok = [k \in 1..MaxTokens |-> IF k <= st.n THEN Or2(base[k], L[k]) ELSE base[k]]
\* Only entries were written.
Kept(st, w) == w.start = st.start /\ w.end = st.end /\ w.op = st.op /\ w.prev = st.prev /\ w.last = st.last

LEMMA PutFits ==
    ASSUME NEW base, NEW L, NEW st, Fits(st, base, L), NEW b, NEW e, L[st.n + 1] = Entry(b, e),
           Put(st, b, e).status = "ok"
    PROVE  LET w == Put(st, b, e)
           IN  Fits(w, base, L) /\ Kept(st, w) /\ w.n = st.n + 1 /\ st.status = "ok"
  <1> DEFINE w == Put(st, b, e)
             i == st.n + 1
             tok == [st.tok EXCEPT ![i] = <<BitOr(@[1], Entry(b, e)[1]), BitOr(@[2], Entry(b, e)[2])>>]
  <1>0. DOMAIN st = {"start", "end", "op", "prev", "last", "tok", "n", "status"} /\ st.n \in 0..MaxTokens /\ MaxTokens \in Nat
    BY TokensAssumption DEF Fits, StateOK
  <1>1. ~(st.n >= MaxTokens)
    <2>1. CASE st.n >= MaxTokens
      <3>1. w = [st EXCEPT !.status = "overflow"]
        BY <2>1 DEF Put
      <3> HIDE DEF w
      <3>2. w.status = "overflow"
        BY <1>0, <3>1
      <3> QED BY <3>2 DEF w
    <2> QED BY <2>1
  <1>2. w = [st EXCEPT !.n = i, !.tok = tok]
    BY <1>1 DEF Put
  <1>3. StateOK(w)
    BY PutOK DEF Fits
  <1>4. i \in 1..MaxTokens /\ st.n \in Int
    BY <1>0, <1>1
  <1>5. tok = [k \in 1..MaxTokens |-> IF k <= i THEN Or2(base[k], L[k]) ELSE base[k]]
    <2> DEFINE old == [k \in 1..MaxTokens |-> IF k <= st.n THEN Or2(base[k], L[k]) ELSE base[k]]
    <2>1. st.tok = old
      BY DEF Fits
    <2>2. tok = [old EXCEPT ![i] = <<BitOr(@[1], Entry(b, e)[1]), BitOr(@[2], Entry(b, e)[2])>>]
      BY <2>1, Zenon
    <2>3. old[i] = base[i]
      BY <1>4
    <2>4. tok = [old EXCEPT ![i] = Or2(base[i], L[i])]
      BY <2>2, <2>3, Zenon DEF Or2
    <2> HIDE DEF tok
    <2>5. \A k \in 1..MaxTokens : k # i => (k <= st.n <=> k <= i)
      BY <1>4
    <2>6. \A k \in 1..MaxTokens : tok[k] = IF k <= i THEN Or2(base[k], L[k]) ELSE base[k]
      <3> TAKE k \in 1..MaxTokens
      <3>1. CASE k = i
        <4>1. tok[k] = Or2(base[i], L[i]) /\ k <= i
          BY <1>4, <2>4, <3>1
        <4> QED BY <3>1, <4>1
      <3>2. CASE k # i
        <4>1. tok[k] = old[k]
          BY <1>4, <2>4, <3>2
        <4> QED BY <2>5, <3>2, <4>1
      <3> QED BY <3>1, <3>2
    <2>7. tok = [k \in 1..MaxTokens |-> tok[k]]
      BY <2>4
    <2> QED BY <2>6, <2>7
  <1> HIDE DEF tok, i
  <1>6. w.tok = tok /\ w.n = i /\ w.status = st.status /\ Kept(st, w)
    BY <1>0, <1>2 DEF Kept
  <1> HIDE DEF w
  <1>7. Fits(w, base, L)
    BY <1>3, <1>5, <1>6 DEF Fits
  <1>8. st.status = "ok"
    BY <1>6 DEF w
  <1> QED BY <1>6, <1>7, <1>8 DEF w, i

\* Entries of n-p: as many as there are numbers.
Count(b, e) == IF e < b THEN 0 ELSE e - b + 1

LEMMA PutEachFits ==
    ASSUME NEW base, NEW L, NEW st, Fits(st, base, L), NEW b \in Nat, NEW e \in Nat,
           \A j \in 1..Count(b, e) : L[st.n + j] = Entry(b + j - 1, b + j - 1),
           PutEach(st, b, e).status = "ok"
    PROVE  LET w == PutEach(st, b, e)
           IN  Fits(w, base, L) /\ Kept(st, w) /\ w.n = st.n + Count(b, e) /\ st.status = "ok"
  <1>0. st.n \in Nat
    BY TokensAssumption DEF Fits, StateOK
  <1>1. CASE e < b
    <2>1. PutEach(st, b, e) = st /\ Count(b, e) = 0
      BY <1>1 DEF PutEach, Count
    <2> QED BY <1>0, <2>1 DEF Kept
  <1>2. CASE ~(e < b)
    <2> DEFINE n == e - b + 1
               put == CHOOSE f : Puts(st, b, n, f)
               Good(k) == put[k].status = "ok" =>
                              Fits(put[k], base, L) /\ Kept(st, put[k]) /\ put[k].n = st.n + k /\ st.status = "ok"
               Wrong == {k \in Nat : k \in 0..n /\ ~Good(k)}
    <2>1. n \in Nat /\ Count(b, e) = n
      BY <1>2 DEF Count
    <2>2. Puts(st, b, n, put)
      BY <2>1, PutsExists
    <2>3. PutEach(st, b, e) = put[n]
      BY <1>2, Zenon DEF PutEach, Puts, PutNext
    <2> HIDE DEF put, n
    <2>4. \A k \in 0..n : put[k] = IF k = 0 THEN st ELSE PutNext(put[k - 1], b + k - 1)
      BY <2>2 DEF Puts
    <2>5. 0 \notin Wrong
      <3>1. put[0] = st /\ st.n + 0 = st.n
        BY <1>0, <2>1, <2>4
      <3> QED BY <3>1 DEF Kept
    <2>6. ASSUME NEW k \in Nat, k \notin Wrong PROVE k + 1 \notin Wrong
      <3>1. ASSUME k + 1 \in 0..n, put[k + 1].status = "ok" PROVE Good(k + 1)
        <4>1. k \in 0..n /\ (k + 1) - 1 = k /\ k + 1 # 0 /\ k + 1 \in 1..n /\ b + (k + 1) - 1 = b + k
          BY <3>1, <2>1
        <4>2. put[k + 1] = PutNext(put[k], b + k)
          BY <2>4, <3>1, <4>1
        <4>3. put[k].status = "ok" /\ put[k + 1] = Put(put[k], b + k, b + k)
          BY <3>1, <4>2 DEF PutNext
        <4>4. Fits(put[k], base, L) /\ Kept(st, put[k]) /\ put[k].n = st.n + k /\ st.status = "ok"
          BY <2>6, <4>1, <4>3
        <4>5. L[st.n + (k + 1)] = Entry(b + k, b + k)
          BY <2>1, <4>1
        <4>6. put[k].n + 1 = st.n + (k + 1)
          BY <1>0, <4>4
        <4>7. Fits(put[k + 1], base, L) /\ Kept(put[k], put[k + 1]) /\ put[k + 1].n = st.n + (k + 1)
          BY <3>1, <4>3, <4>4, <4>5, <4>6, PutFits
        <4> QED BY <4>4, <4>7 DEF Kept
      <3> QED BY <3>1
    <2>7. Wrong = {}
      <3>1. Wrong \in SUBSET Nat
        OBVIOUS
      <3> HIDE DEF Wrong
      <3> QED BY <2>5, <2>6, <3>1, NoneIsWrong
    <2> QED BY <2>1, <2>3, <2>7
  <1> QED BY <1>1, <1>2

\* Between two steps of the loop of ForMakeTokens
At(st, start, end, op, last, base, L, m) ==
    /\ Fits(st, base, L) /\ st.status = "ok" /\ st.n = m
    /\ st.start = start /\ st.end = end /\ st.op = op /\ st.last = last
\* Behind an element
AfterStar(st) == st.prev = "*"
Ready(st, last, base, L, m) == At(st, None, None, "none", last, base, L, m) /\ ~AfterStar(st)
Separators == {",", "end"}

LEMMA NoneFacts == None \in Int /\ \A i \in Nat : i # None
  BY DEF None

LEMMA Fields ==
    ASSUME NEW st, NEW base, NEW L, Fits(st, base, L)
    PROVE  /\ DOMAIN st = {"start", "end", "op", "prev", "last", "tok", "n", "status"}
           /\ st.n \in Nat /\ All \in Nat
  BY TokensAssumption DEF Fits, StateOK

\* What the loop sets does not touch the entries.
LEMMA SetFits ==
    ASSUME NEW st, NEW base, NEW L, Fits(st, base, L), NEW w, DOMAIN w = DOMAIN st, w.tok = st.tok, w.n = st.n,
           w.start \in Int, w.end \in Int, w.last \in Int, w.op \in {"none", "cat", "list"}
    PROVE  Fits(w, base, L)
  <1>1. StateOK(w)
    BY DEF Fits, StateOK
  <1> QED BY <1>1 DEF Fits

\* An element ends at a separator, and its entries are written.
LEMMA SeparatorWrites ==
    ASSUME NEW base, NEW L, NEW m \in Nat, NEW old, old.status = "ok",
           NEW num, NEW sym \in Separators, NEW st, st = Number(old, num, sym),
           NEW s \in Nat, NEW e \in Nat \cup {None}, NEW op \in {"none", "cat", "list"}, NEW last \in Nat,
           At(st, s, e, op, last, base, L, m), op = "none" \/ e \in Nat,
           op = "none" => L[m + 1] = Entry(s, s),
           op = "cat" => L[m + 1] = Entry(s, e),
           op = "list" => \A j \in 1..Count(s, e) : L[m + j] = Entry(s + j - 1, s + j - 1),
           TokenStep(old, <<num, sym>>).status = "ok"
    PROVE  Ready(TokenStep(old, <<num, sym>>), IF op = "none" THEN s ELSE e, base, L,
                 m + (IF op = "list" THEN Count(s, e) ELSE 1))
  <1> DEFINE to == [st EXCEPT !.prev = sym]
             w == CASE to.op = "none" -> Put(to, to.start, to.start)
                    [] to.op # "none" /\ to.end = None -> [to EXCEPT !.status = "bad"]
                    [] to.op = "cat" /\ to.end # None  -> Put(to, to.start, to.end)
                    [] to.op = "list" /\ to.end # None -> PutEach(to, to.start, to.end)
             x == [w EXCEPT !.last = IF to.op = "none" THEN to.start ELSE to.end,
                            !.start = None, !.end = None, !.op = "none"]
  <1>0. s # None /\ (op # "none" => e # None /\ e \in Nat)
    <2> HIDE DEF w, x, to
    <2> QED BY NoneFacts
  <1>01. s \in Int /\ e \in Int /\ last \in Int /\ None \in Int /\ (IF op = "none" THEN s ELSE e) \in Int
    <2> HIDE DEF w, x, to
    <2>1. None \in Int /\ s \in Int /\ last \in Int
      BY NoneFacts
    <2>2. e \in Int
      BY <2>1
    <2>3. CASE op = "none"
      BY <2>1, <2>2, <2>3
    <2>4. CASE op # "none"
      BY <2>1, <2>2, <2>4
    <2> QED BY <2>3, <2>4
  <1>1. TokenStep(old, <<num, sym>>) = x
    <2>1. st.status = "ok" /\ st.start # None
      BY <1>0 DEF At
    <2>2. TokenStep(old, <<num, sym>>) = Write(to)
      <3> DEFINE item == <<num, sym>>
      <3>1. item[1] = num /\ item[2] = sym
        OBVIOUS
      <3> HIDE DEF item
      <3>2. sym \notin {"*", "-", ".", "other"} /\ sym \in {",", "end"}
        BY Zenon DEF Separators
      <3>3. TokenStep(old, item) = Write(to)
        BY <2>1, <3>1, <3>2, Zenon DEF TokenStep
      <3> QED BY <3>3 DEF item
    <2> QED BY <2>2, Zenon DEF Write
  <1>2. DOMAIN st = {"start", "end", "op", "prev", "last", "tok", "n", "status"}
    BY Fields DEF At
  <1>3. /\ to.start = s /\ to.end = e /\ to.op = op /\ to.last = last /\ to.prev = sym /\ to.n = m
        /\ to.tok = st.tok /\ DOMAIN to = DOMAIN st /\ to.status = "ok"
    BY <1>2 DEF At
  <1>4. Fits(to, base, L)
    <2>2. st.n = m /\ Fits(st, base, L)
      BY DEF At
    <2> HIDE DEF to
    <2> QED BY <1>01, <1>3, <2>2, SetFits
  <1> HIDE DEF to
  <1> DEFINE count == IF op = "list" THEN Count(s, e) ELSE 1
  <1>5. w = CASE op = "none" -> Put(to, s, s) [] op = "cat" -> Put(to, s, e) [] op = "list" -> PutEach(to, s, e)
    BY <1>0, <1>3
  <1>6. w.status = "ok" => Fits(w, base, L) /\ Kept(to, w) /\ w.n = m + count
    <2> HIDE DEF w
    <2>1. CASE op = "none"
      <3>1. w = Put(to, s, s) /\ count = 1 /\ L[to.n + 1] = Entry(s, s)
        BY <1>3, <1>5, <2>1
      <3> HIDE DEF count
      <3>2. w.status = "ok" => Fits(w, base, L) /\ Kept(to, w) /\ w.n = to.n + 1
        BY <1>4, <3>1, PutFits
      <3> QED BY <1>3, <3>1, <3>2
    <2>2. CASE op = "cat"
      <3>1. w = Put(to, s, e) /\ count = 1 /\ L[to.n + 1] = Entry(s, e)
        BY <1>3, <1>5, <2>2
      <3> HIDE DEF count
      <3>2. w.status = "ok" => Fits(w, base, L) /\ Kept(to, w) /\ w.n = to.n + 1
        BY <1>4, <3>1, PutFits
      <3> QED BY <1>3, <3>1, <3>2
    <2>3. CASE op = "list"
      <3>1. w = PutEach(to, s, e) /\ count = Count(s, e) /\ e \in Nat
        BY <1>0, <1>5, <2>3
      <3>2. \A j \in 1..Count(s, e) : L[to.n + j] = Entry(s + j - 1, s + j - 1)
        BY <1>3, <2>3
      <3> HIDE DEF count
      <3>3. w.status = "ok" => Fits(w, base, L) /\ Kept(to, w) /\ w.n = to.n + Count(s, e)
        BY <1>4, <3>1, <3>2, PutEachFits
      <3> QED BY <1>3, <3>1, <3>3
    <2> QED BY <2>1, <2>2, <2>3
  <1>7. DOMAIN w = {"start", "end", "op", "prev", "last", "tok", "n", "status"}
    <2> HIDE DEF w
    <2>1. StateOK(to)
      BY <1>4 DEF Fits
    <2>2. CASE op = "none"
      BY <1>5, <2>1, <2>2, PutOK DEF StateOK
    <2>3. CASE op = "cat"
      BY <1>5, <2>1, <2>3, PutOK DEF StateOK
    <2>4. CASE op = "list"
      <3>1. w = PutEach(to, s, e)
        BY <1>5, <2>4
      <3>2. StateOK(w)
        BY <1>01, <2>1, <3>1, PutEachOK
      <3> QED BY <3>2 DEF StateOK
    <2> QED BY <2>2, <2>3, <2>4
  <1> HIDE DEF w, count
  <1>8. /\ x.last = (IF op = "none" THEN s ELSE e) /\ x.start = None /\ x.end = None /\ x.op = "none"
        /\ x.prev = w.prev /\ x.tok = w.tok /\ x.n = w.n /\ x.status = w.status /\ DOMAIN x = DOMAIN w
    BY <1>3, <1>7
  <1> HIDE DEF x
  <1>9. w.status = "ok"
    BY <1>1, <1>8
  <1>10. Fits(x, base, L)
    <2> QED BY <1>01, <1>6, <1>8, <1>9, SetFits
  <1>11. ~AfterStar(x)
    <2>1. x.prev = sym
      BY <1>3, <1>6, <1>8, <1>9 DEF Kept
    <2>2. sym # "*"
      BY Zenon DEF Separators
    <2> QED BY <2>1, <2>2, Zenon DEF AfterStar
  <1> QED BY <1>1, <1>6, <1>8, <1>9, <1>10, <1>11 DEF Ready, At, count

\* The number of an element, and of the end of a range
LEMMA ReadsNumber ==
    ASSUME NEW base, NEW L, NEW m \in Nat, NEW last \in Nat, NEW old, Ready(old, last, base, L, m), NEW num \in Nat, NEW sym
    PROVE  At(Number(old, num, sym), num, None, "none", last, base, L, m)
  <1> DEFINE st == [old EXCEPT !.start = num]
  <1>1. num # NoNumber
    BY DEF NoNumber
  <1>2. Number(old, num, sym) = st
    <2>1. old.prev # "*" /\ old.op = "none"
      BY DEF Ready, AfterStar, At
    <2> QED BY <1>1, <2>1, Zenon DEF Number
  <1>3. DOMAIN old = {"start", "end", "op", "prev", "last", "tok", "n", "status"} /\ Fits(old, base, L)
    BY Fields DEF Ready, At
  <1>4. /\ st.start = num /\ st.end = None /\ st.op = "none" /\ st.last = last /\ st.status = "ok" /\ st.n = m
        /\ st.tok = old.tok /\ st.n = old.n /\ DOMAIN st = DOMAIN old
    BY <1>3 DEF Ready, At
  <1> HIDE DEF st
  <1>5. Fits(st, base, L)
    BY <1>3, <1>4, NoneFacts, SetFits
  <1> QED BY <1>2, <1>4, <1>5 DEF At

LEMMA ReadsSecond ==
    ASSUME NEW base, NEW L, NEW m \in Nat, NEW last \in Nat, NEW s \in Nat, NEW op \in {"cat", "list"},
           NEW old, At(old, s, None, op, last, base, L, m), ~AfterStar(old), NEW num \in Nat, NEW sym
    PROVE  At(Number(old, num, sym), s, num, op, last, base, L, m)
  <1> DEFINE st == [old EXCEPT !.end = num]
  <1>1. num # NoNumber
    BY DEF NoNumber
  <1>2. Number(old, num, sym) = st
    <2>1. old.prev # "*" /\ old.op # "none"
      BY DEF AfterStar, At
    <2> QED BY <1>1, <2>1, Zenon DEF Number
  <1>3. DOMAIN old = {"start", "end", "op", "prev", "last", "tok", "n", "status"} /\ Fits(old, base, L)
    BY Fields DEF At
  <1>4. /\ st.start = s /\ st.end = num /\ st.op = op /\ st.last = last /\ st.status = "ok" /\ st.n = m
        /\ st.tok = old.tok /\ st.n = old.n /\ DOMAIN st = DOMAIN old
    BY <1>3 DEF At
  <1> HIDE DEF st
  <1>5. Fits(st, base, L)
    BY <1>3, <1>4, SetFits
  <1> QED BY <1>2, <1>4, <1>5 DEF At

LEMMA ReadsNothing ==
    ASSUME NEW old, NEW sym, AfterStar(old) => sym \in Separators
    PROVE  Number(old, NoNumber, sym) = old
  <1>1. old.prev = "*" => sym \in {"*", ",", "end"}
    BY Zenon DEF AfterStar, Separators
  <1> QED BY <1>1, Zenon DEF Number

\* n- and n.
Sign(op) == IF op = "list" THEN "-" ELSE "."
LEMMA SignStep ==
    ASSUME NEW base, NEW L, NEW m \in Nat, NEW last \in Nat, NEW old, Ready(old, last, base, L, m), NEW num \in Nat,
           NEW op \in {"cat", "list"}
    PROVE  LET x == TokenStep(old, <<num, Sign(op)>>)
           IN  At(x, num, None, op, last, base, L, m) /\ ~AfterStar(x)
  <1> DEFINE sym == Sign(op)
             st == Number(old, num, sym)
             to == [st EXCEPT !.prev = sym]
             x == [to EXCEPT !.op = op]
             item == <<num, sym>>
  <1>1. At(st, num, None, "none", last, base, L, m) /\ num # None
    BY ReadsNumber, NoneFacts
  <1>2. item[1] = num /\ item[2] = sym
    OBVIOUS
  <1>3. old.status = "ok" /\ st.status = "ok" /\ st.start # None /\ st.end = None
    BY <1>1 DEF Ready, At
  <1>4. DOMAIN st = {"start", "end", "op", "prev", "last", "tok", "n", "status"} /\ Fits(st, base, L)
    BY <1>1, Fields DEF At
  <1>5. TokenStep(old, item) = Operator(to, op)
    <2> HIDE DEF item
    <2>1. CASE op = "list"
      <3>1. sym = "-"
        BY <2>1, Zenon DEF Sign
      <3>2. sym \notin {",", "end", "*", ".", "other"}
        BY <3>1, Zenon
      <3> HIDE DEF sym
      <3> QED BY <1>2, <1>3, <2>1, <3>1, <3>2, Zenon DEF TokenStep
    <2>2. CASE op = "cat"
      <3>0. op # "list"
        BY <2>2
      <3>1. sym = "."
        BY <3>0, Zenon DEF Sign
      <3>2. sym \notin {",", "end", "*", "-", "other"}
        BY <3>1, Zenon
      <3> HIDE DEF sym
      <3> QED BY <1>2, <1>3, <2>2, <3>1, <3>2, Zenon DEF TokenStep
    <2> QED BY <2>1, <2>2
  <1>6. sym # "*"
    <2>1. sym \in {"-", "."}
      BY Zenon DEF Sign
    <2> HIDE DEF sym
    <2> QED BY <2>1, Zenon
  <1> HIDE DEF sym, st, item
  <1>7. to.end = None
    BY <1>3, <1>4
  <1>8. Operator(to, op) = x
    BY <1>7, Zenon DEF Operator
  <1>9. /\ x.start = num /\ x.end = None /\ x.op = op /\ x.last = last /\ x.status = "ok" /\ x.n = m
        /\ x.tok = st.tok /\ x.n = st.n /\ DOMAIN x = DOMAIN st /\ x.prev = sym
    BY <1>1, <1>4 DEF At
  <1> HIDE DEF x, to
  <1>10. Fits(x, base, L)
    BY <1>4, <1>9, NoneFacts, SetFits
  <1>11. ~AfterStar(x)
    BY <1>6, <1>9, Zenon DEF AfterStar
  <1> QED BY <1>5, <1>8, <1>9, <1>10, <1>11 DEF At, item, sym

\* * behind n. and *, alone
LEMMA StarStep ==
    ASSUME NEW base, NEW L, NEW m \in Nat, NEW last \in Nat, NEW old, ~AfterStar(old),
           NEW s, \/ s \in Nat /\ At(old, s, None, "cat", last, base, L, m)
                  \/ s = last + 1 /\ At(old, None, None, "none", last, base, L, m)
    PROVE  At(TokenStep(old, <<NoNumber, "*">>), s, All, "cat", last, base, L, m)
  <1> DEFINE to == [old EXCEPT !.prev = "*"]
             x == [to EXCEPT !.start = s, !.end = All, !.op = "cat"]
             item == <<NoNumber, "*">>
  <1>1. item[1] = NoNumber /\ item[2] = "*"
    OBVIOUS
  <1>2. old.status = "ok" /\ Fits(old, base, L) /\ old.n = m /\ old.last = last
    BY DEF At
  <1>3. /\ DOMAIN old = {"start", "end", "op", "prev", "last", "tok", "n", "status"}
        /\ All \in Nat /\ s \in Nat
    BY <1>2, Fields
  <1>4. Number(old, NoNumber, "*") = old
    BY ReadsNothing
  <1>5. TokenStep(old, item) = Star(to)
    <2>1. "*" \notin {",", "end", "-", ".", "other"}
      BY Zenon
    <2> HIDE DEF item
    <2> QED BY <1>1, <1>2, <1>4, <2>1, Zenon DEF TokenStep
  <1>6. Star(to) = x
    <2>1. CASE s \in Nat /\ At(old, s, None, "cat", last, base, L, m)
      <3>1. to.start = s /\ to.op = "cat" /\ s # None
        BY <1>3, <2>1, NoneFacts DEF At
      <3>2. Star(to) = [to EXCEPT !.end = All]
        BY <3>1 DEF Star
      <3> DEFINE y == [to EXCEPT !.end = All]
      <3>3. y = x
        <4>1. DOMAIN y = DOMAIN x
          OBVIOUS
        <4>2. \A k \in DOMAIN x : y[k] = x[k]
          BY <3>1, <1>3
        <4> QED BY <4>1, <4>2
      <3> QED BY <3>2, <3>3
    <2>2. CASE s = last + 1 /\ At(old, None, None, "none", last, base, L, m)
      <3>1. to.start = None /\ to.last = last
        BY <1>3, <2>2 DEF At
      <3> QED BY <2>2, <3>1 DEF Star
    <2> QED BY <2>1, <2>2
  <1>7. /\ x.start = s /\ x.end = All /\ x.op = "cat" /\ x.last = last /\ x.status = "ok" /\ x.n = m
        /\ x.tok = old.tok /\ x.n = old.n /\ DOMAIN x = DOMAIN old
    BY <1>2, <1>3
  <1> HIDE DEF x, to
  <1>8. Fits(x, base, L)
    BY <1>2, <1>3, <1>7, SetFits
  <1> QED BY <1>5, <1>6, <1>7, <1>8 DEF At, item

\* n*
LEMMA OneRestStep ==
    ASSUME NEW base, NEW L, NEW m \in Nat, NEW last \in Nat, NEW old, Ready(old, last, base, L, m), NEW num \in Nat,
           L[m + 1] = Entry(num, num), TokenStep(old, <<num, "*">>).status = "ok"
    PROVE  At(TokenStep(old, <<num, "*">>), num + 1, All, "cat", last, base, L, m + 1)
  <1> DEFINE st == Number(old, num, "*")
             to == [st EXCEPT !.prev = "*"]
             w == Put(to, num, num)
             x == [w EXCEPT !.start = @ + 1, !.op = "cat", !.end = All]
             item == <<num, "*">>
  <1>1. At(st, num, None, "none", last, base, L, m) /\ num # None
    BY ReadsNumber, NoneFacts
  <1>2. item[1] = num /\ item[2] = "*"
    OBVIOUS
  <1>3. old.status = "ok" /\ st.status = "ok" /\ st.start = num /\ st.op = "none"
    BY <1>1 DEF Ready, At
  <1>4. DOMAIN st = {"start", "end", "op", "prev", "last", "tok", "n", "status"} /\ Fits(st, base, L) /\ All \in Nat
    BY <1>1, Fields DEF At
  <1>5. TokenStep(old, item) = Star(to)
    <2>1. "*" \notin {",", "end", "-", ".", "other"}
      BY Zenon
    <2> HIDE DEF item
    <2> QED BY <1>1, <1>2, <1>3, <2>1, Zenon DEF TokenStep
  <1> HIDE DEF st, item
  <1>6. /\ to.start = num /\ to.end = None /\ to.op = "none" /\ to.last = last /\ to.status = "ok" /\ to.n = m
        /\ to.tok = st.tok /\ to.n = st.n /\ DOMAIN to = DOMAIN st
    BY <1>1, <1>4 DEF At
  <1> HIDE DEF to
  <1>7. Fits(to, base, L)
    BY <1>4, <1>6, NoneFacts, SetFits
  <1>8. Star(to) = x
    BY <1>1, <1>6, Zenon DEF Star
  <1>9. DOMAIN w = {"start", "end", "op", "prev", "last", "tok", "n", "status"}
    BY <1>7, PutOK DEF Fits, StateOK
  <1> HIDE DEF w
  <1>10. /\ x.start = w.start + 1 /\ x.end = All /\ x.op = "cat" /\ x.last = w.last /\ x.status = w.status
         /\ x.tok = w.tok /\ x.n = w.n /\ DOMAIN x = DOMAIN w
    BY <1>9
  <1> HIDE DEF x
  <1>11. w.status = "ok"
    BY <1>5, <1>8, <1>10 DEF item
  <1>12. Fits(w, base, L) /\ Kept(to, w) /\ w.n = m + 1
    BY <1>6, <1>7, <1>11, PutFits DEF w
  <1>13. w.start = num /\ w.last = last
    BY <1>6, <1>12 DEF Kept
  <1>14. Fits(x, base, L)
    BY <1>4, <1>10, <1>12, <1>13, SetFits
  <1> QED BY <1>5, <1>8, <1>10, <1>11, <1>12, <1>13, <1>14 DEF At, item

\* The entries of an element behind one whose last token is last
SelectsOf(e, last) ==
    CASE e.form = "one"     -> << Entry(e.n, e.n) >>
      [] e.form = "list"    -> [k \in 1..(e.p - e.n + 1) |-> Entry(e.n + k - 1, e.n + k - 1)]
      [] e.form = "cat"     -> << Entry(e.n, e.p) >>
      [] e.form = "rest"    -> << Entry(e.n, All) >>
      [] e.form = "oneRest" -> << Entry(e.n, e.n), Entry(e.n + 1, All) >>
      [] e.form = "star"    -> << Entry(last + 1, All) >>

LEMMA StepWasOK ==
    ASSUME NEW old, NEW item, TokenStep(old, item).status = "ok"
    PROVE  old.status = "ok"
  <1>1. old.status # "ok" => TokenStep(old, item) = old
    BY Zenon DEF TokenStep
  <1> QED BY <1>1, Zenon

\* x is what comes of old after these steps.
Steps1(old, x, a) == x = TokenStep(old, a)
Steps2(old, x, a, b) == Steps1(TokenStep(old, a), x, b)
Steps3(old, x, a, b, c) == Steps2(TokenStep(old, a), x, b, c)

LEMMA ElementWritten ==
    ASSUME NEW base, NEW L, NEW m \in Nat, NEW last \in Nat, NEW old, Ready(old, last, base, L, m),
           NEW e, ElementOK(e), NEW sep \in Separators, NEW x, x.status = "ok",
           \A j \in 1..Len(SelectsOf(e, last)) : L[m + j] = SelectsOf(e, last)[j],
           e.form = "one" => Steps1(old, x, <<e.n, sep>>),
           e.form = "list" => Steps2(old, x, <<e.n, Sign("list")>>, <<e.p, sep>>),
           e.form = "cat" => Steps2(old, x, <<e.n, Sign("cat")>>, <<e.p, sep>>),
           e.form = "rest" => Steps3(old, x, <<e.n, Sign("cat")>>, <<NoNumber, "*">>, <<NoNumber, sep>>),
           e.form = "oneRest" => Steps2(old, x, <<e.n, "*">>, <<NoNumber, sep>>),
           e.form = "star" => Steps2(old, x, <<NoNumber, "*">>, <<NoNumber, sep>>)
    PROVE  Ready(x, LastOf(e), base, L, m + Len(SelectsOf(e, last))) /\ LastOf(e) \in Nat
  <1>0. All \in Nat /\ old.status = "ok" /\ ~AfterStar(old)
    BY Fields DEF Ready, At
  <1>1. CASE e.form = "one"
    <2> DEFINE S == << Entry(e.n, e.n) >>
    <2>1. SelectsOf(e, last) = S /\ LastOf(e) = e.n /\ e.n \in Nat
      BY <1>1 DEF SelectsOf, LastOf, ElementOK
    <2>2. Len(S) = 1 /\ S[1] = Entry(e.n, e.n)
      OBVIOUS
    <2> HIDE DEF S
    <2>3. L[m + 1] = Entry(e.n, e.n)
      BY <2>1, <2>2
    <2> DEFINE st == Number(old, e.n, sep)
    <2>4. At(st, e.n, None, "none", last, base, L, m)
      BY <2>1, ReadsNumber
    <2> HIDE DEF st
    <2>5. x = TokenStep(old, <<e.n, sep>>)
      BY <1>1 DEF Steps1
    <2>6. Ready(x, e.n, base, L, m + 1)
      <3> DEFINE op == "none"
                 s == e.n
      <3>1. op \in {"none", "cat", "list"} /\ op = "none" /\ op # "cat" /\ op # "list"
        OBVIOUS
      <3>2. None \in Nat \cup {None} /\ s \in Nat /\ At(st, s, None, op, last, base, L, m)
        BY <2>1, <2>4
      <3>3. TokenStep(old, <<s, sep>>).status = "ok" /\ L[m + 1] = Entry(s, s) /\ st = Number(old, s, sep)
        BY <2>3, <2>5 DEF st
      <3> HIDE DEF op, s
      <3>4. Ready(TokenStep(old, <<s, sep>>), IF op = "none" THEN s ELSE None, base, L,
                  m + (IF op = "list" THEN Count(s, None) ELSE 1))
        BY <1>0, <3>1, <3>2, <3>3, SeparatorWrites
      <3> QED BY <2>5, <3>1, <3>4 DEF s
    <2> QED BY <2>1, <2>2, <2>6
  <1>2. CASE e.form \in {"list", "cat"}
    <2> DEFINE op == e.form
               a == <<e.n, Sign(op)>>
               y == TokenStep(old, a)
               st == Number(y, e.p, sep)
               count == IF op = "list" THEN Count(e.n, e.p) ELSE 1
    <2>1. e.n \in Nat /\ e.p \in Nat /\ LastOf(e) = e.p /\ op \in {"cat", "list"}
      BY <1>2 DEF ElementOK, LastOf
    <2>2. Len(SelectsOf(e, last)) = count
      <3>1. CASE op = "cat"
        BY <3>1 DEF SelectsOf
      <3>2. CASE op = "list"
        <4>1. SelectsOf(e, last) = [k \in 1..(e.p - e.n + 1) |-> Entry(e.n + k - 1, e.n + k - 1)]
          BY <3>2 DEF SelectsOf
        <4>2. CASE e.p < e.n
          <5>1. SelectsOf(e, last) = <<>>
            <6>1. 1..(e.p - e.n + 1) = {}
              BY <2>1, <4>2
            <6> QED BY <4>1, <6>1
          <5> QED BY <3>2, <4>2, <5>1 DEF Count
        <4>3. CASE ~(e.p < e.n)
          <5>1. e.p - e.n + 1 \in Nat
            BY <2>1, <4>3
          <5> QED BY <3>2, <4>1, <4>3, <5>1 DEF Count
        <4> QED BY <4>2, <4>3
      <3> QED BY <2>1, <3>1, <3>2
    <2>3. op = "cat" => L[m + 1] = Entry(e.n, e.p)
      <3>1. op = "cat" => SelectsOf(e, last)[1] = Entry(e.n, e.p)
        BY DEF SelectsOf
      <3> QED BY <2>2, <3>1
    <2>4. op = "list" => \A j \in 1..Count(e.n, e.p) : L[m + j] = Entry(e.n + j - 1, e.n + j - 1)
      <3> SUFFICES ASSUME op = "list", NEW j \in 1..Count(e.n, e.p)
                   PROVE  L[m + j] = Entry(e.n + j - 1, e.n + j - 1)
        OBVIOUS
      <3>1. SelectsOf(e, last) = [k \in 1..(e.p - e.n + 1) |-> Entry(e.n + k - 1, e.n + k - 1)]
        BY DEF SelectsOf
      <3>2. j \in 1..(e.p - e.n + 1)
        BY <2>1 DEF Count
      <3>3. SelectsOf(e, last)[j] = Entry(e.n + j - 1, e.n + j - 1)
        BY <3>1, <3>2
      <3> QED BY <2>2, <3>3
    <2>5. At(y, e.n, None, op, last, base, L, m) /\ ~AfterStar(y)
      BY <2>1, SignStep
    <2>6. x = TokenStep(y, <<e.p, sep>>)
      BY <1>2 DEF Steps1, Steps2
    <2> HIDE DEF y
    <2>7. At(st, e.n, e.p, op, last, base, L, m)
      BY <2>1, <2>5, ReadsSecond
    <2>8. y.status = "ok"
      BY <2>5 DEF At
    <2> HIDE DEF st
    <2>9. Ready(x, e.p, base, L, m + count)
      <3> DEFINE s == e.n
                 t == e.p
      <3>1. op \in {"none", "cat", "list"} /\ op # "none" /\ s \in Nat /\ t \in Nat /\ t \in Nat \cup {None}
        BY <2>1
      <3>2. At(st, s, t, op, last, base, L, m) /\ st = Number(y, t, sep) /\ TokenStep(y, <<t, sep>>).status = "ok"
        BY <2>6, <2>7 DEF st
      <3>3. /\ op = "cat" => L[m + 1] = Entry(s, t)
            /\ op = "list" => \A j \in 1..Count(s, t) : L[m + j] = Entry(s + j - 1, s + j - 1)
        BY <2>3, <2>4
      <3> HIDE DEF op, s, t, count
      <3>4. Ready(TokenStep(y, <<t, sep>>), IF op = "none" THEN s ELSE t, base, L,
                  m + (IF op = "list" THEN Count(s, t) ELSE 1))
        BY <2>8, <3>1, <3>2, <3>3, SeparatorWrites
      <3> QED BY <2>6, <3>1, <3>4 DEF s, t, count
    <2> QED BY <2>1, <2>2, <2>9
  <1> DEFINE Rest(y, s, k) ==
          /\ k \in Nat /\ s \in Nat /\ At(y, s, All, "cat", last, base, L, k) /\ L[k + 1] = Entry(s, All)
          /\ x = TokenStep(y, <<NoNumber, sep>>)
  <1>3. ASSUME NEW y, NEW s, NEW k, Rest(y, s, k)
        PROVE  Ready(x, All, base, L, k + 1)
    <2>1. Number(y, NoNumber, sep) = y
      BY ReadsNothing
    <2>2. y.status = "ok"
      BY <1>3 DEF At
    <2> DEFINE op == "cat"
    <2>3. op \in {"none", "cat", "list"} /\ op # "none" /\ op = "cat" /\ op # "list"
      OBVIOUS
    <2>4. /\ k \in Nat /\ s \in Nat /\ All \in Nat /\ All \in Nat \cup {None}
          /\ At(y, s, All, op, last, base, L, k) /\ L[k + 1] = Entry(s, All)
          /\ TokenStep(y, <<NoNumber, sep>>).status = "ok"
      BY <1>0, <1>3
    <2> HIDE DEF op
    <2>5. Ready(TokenStep(y, <<NoNumber, sep>>), IF op = "none" THEN s ELSE All, base, L,
                k + (IF op = "list" THEN Count(s, All) ELSE 1))
      BY <2>1, <2>2, <2>3, <2>4, SeparatorWrites
    <2> QED BY <1>3, <2>3, <2>5
  <1> HIDE DEF Rest
  <1>4. CASE e.form = "rest"
    <2> DEFINE S == << Entry(e.n, All) >>
               y == TokenStep(old, <<e.n, Sign("cat")>>)
               z == TokenStep(y, <<NoNumber, "*">>)
    <2>1. SelectsOf(e, last) = S /\ LastOf(e) = All /\ e.n \in Nat
      BY <1>4 DEF SelectsOf, LastOf, ElementOK
    <2>2. Len(S) = 1 /\ S[1] = Entry(e.n, All)
      OBVIOUS
    <2> HIDE DEF S
    <2>3. L[m + 1] = Entry(e.n, All)
      BY <2>1, <2>2
    <2>4. At(y, e.n, None, "cat", last, base, L, m) /\ ~AfterStar(y)
      BY <2>1, SignStep
    <2> HIDE DEF y
    <2>5. At(z, e.n, All, "cat", last, base, L, m)
      BY <2>1, <2>4, StarStep
    <2>6. x = TokenStep(z, <<NoNumber, sep>>)
      BY <1>4, Zenon DEF Steps1, Steps2, Steps3, y
    <2> HIDE DEF z
    <2>7. Rest(z, e.n, m)
      BY <2>1, <2>3, <2>5, <2>6 DEF Rest
    <2> QED BY <1>0, <1>3, <2>1, <2>2, <2>7
  <1>5. CASE e.form = "oneRest"
    <2> DEFINE S == << Entry(e.n, e.n), Entry(e.n + 1, All) >>
               y == TokenStep(old, <<e.n, "*">>)
    <2>1. SelectsOf(e, last) = S /\ LastOf(e) = All /\ e.n \in Nat
      BY <1>5 DEF SelectsOf, LastOf, ElementOK
    <2>2. Len(S) = 2 /\ S[1] = Entry(e.n, e.n) /\ S[2] = Entry(e.n + 1, All)
      OBVIOUS
    <2> HIDE DEF S
    <2>3. L[m + 1] = Entry(e.n, e.n) /\ L[(m + 1) + 1] = Entry(e.n + 1, All)
      <3>1. L[m + 1] = Entry(e.n, e.n) /\ L[m + 2] = Entry(e.n + 1, All)
        BY <2>1, <2>2
      <3>2. (m + 1) + 1 = m + 2
        OBVIOUS
      <3> QED BY <3>1, <3>2
    <2>4. x = TokenStep(y, <<NoNumber, sep>>)
      BY <1>5, Zenon DEF Steps1, Steps2
    <2>5. y.status = "ok"
      BY <2>4, StepWasOK
    <2>6. At(y, e.n + 1, All, "cat", last, base, L, m + 1)
      BY <2>1, <2>3, <2>5, OneRestStep
    <2> HIDE DEF y
    <2>7. Rest(y, e.n + 1, m + 1)
      BY <2>1, <2>3, <2>4, <2>6 DEF Rest
    <2>8. Ready(x, All, base, L, (m + 1) + 1)
      BY <1>3, <2>7
    <2>9. (m + 1) + 1 = m + 2
      OBVIOUS
    <2> QED BY <1>0, <2>1, <2>2, <2>8, <2>9
  <1>6. CASE e.form = "star"
    <2> DEFINE S == << Entry(last + 1, All) >>
               y == TokenStep(old, <<NoNumber, "*">>)
    <2>1. SelectsOf(e, last) = S /\ LastOf(e) = All
      BY <1>6 DEF SelectsOf, LastOf
    <2>2. Len(S) = 1 /\ S[1] = Entry(last + 1, All)
      OBVIOUS
    <2> HIDE DEF S
    <2>3. L[m + 1] = Entry(last + 1, All)
      BY <2>1, <2>2
    <2>4. At(y, last + 1, All, "cat", last, base, L, m)
      BY <1>0, StarStep DEF Ready
    <2>5. x = TokenStep(y, <<NoNumber, sep>>)
      BY <1>6, Zenon DEF Steps1, Steps2
    <2> HIDE DEF y
    <2>6. Rest(y, last + 1, m)
      BY <2>3, <2>4, <2>5 DEF Rest
    <2> QED BY <1>0, <1>3, <2>1, <2>2, <2>6
  <1> QED BY <1>1, <1>2, <1>4, <1>5, <1>6 DEF ElementOK

-----------------------------------------------------------------------------
(* A whole list, element by element *)

Items == Int \X Symbols
Pairs == Nat \X Nat

LEMMA EntryOK ==
    ASSUME NEW b \in Nat, NEW e \in Nat
    PROVE  Entry(b, e) \in Pairs
  <1> DEFINE d == All + 1
  <1>1. d \in Nat /\ d > 0
    BY TokensAssumption
  <1> HIDE DEF d
  <1>2. b % d \in Nat /\ e % d \in Nat
    BY <1>1
  <1> QED BY <1>2 DEF Entry, d, Pairs

LEMMA SelectsOK ==
    ASSUME NEW e, ElementOK(e), NEW last \in Nat
    PROVE  SelectsOf(e, last) \in Seq(Pairs) /\ LastOf(e) \in Nat
  <1>0. All \in Nat
    BY TokensAssumption
  <1>1. CASE e.form = "one"
    <2>1. e.n \in Nat
      BY <1>1 DEF ElementOK
    <2> DEFINE a == Entry(e.n, e.n)
    <2>2. a \in Pairs
      BY <2>1, EntryOK
    <2>3. SelectsOf(e, last) = <<a>> /\ LastOf(e) = e.n
      BY <1>1 DEF SelectsOf, LastOf
    <2> HIDE DEF a
    <2> QED BY <2>1, <2>2, <2>3
  <1>2. CASE e.form = "list"
    <2>1. e.n \in Nat /\ e.p \in Nat
      BY <1>2 DEF ElementOK
    <2> DEFINE c == e.p - e.n + 1
               S == [k \in 1..c |-> Entry(e.n + k - 1, e.n + k - 1)]
    <2>2. SelectsOf(e, last) = S /\ LastOf(e) = e.p
      BY <1>2 DEF SelectsOf, LastOf
    <2>3. c \in Int
      BY <2>1
    <2>4. \A k \in 1..c : S[k] \in Pairs
      <3> TAKE k \in 1..c
      <3>1. e.n + k - 1 \in Nat
        BY <2>1, <2>3
      <3>2. S[k] = Entry(e.n + k - 1, e.n + k - 1)
        OBVIOUS
      <3> HIDE DEF S
      <3> QED BY <3>1, <3>2, EntryOK
    <2>5. S \in Seq(Pairs)
      <3>1. S = [k \in 1..c |-> S[k]]
        OBVIOUS
      <3> HIDE DEF S
      <3>2. CASE c >= 0
        <4>1. c \in Nat
          BY <2>3, <3>2
        <4> HIDE DEF c
        <4> QED BY <2>4, <3>1, <4>1
      <3>3. CASE ~(c >= 0)
        <4>1. 1..c = {}
          BY <2>3, <3>3
        <4>2. S = <<>>
          BY <3>1, <4>1
        <4> QED BY <4>2, EmptySeq
      <3> QED BY <3>2, <3>3
    <2> QED BY <2>1, <2>2, <2>5
  <1>3. CASE e.form = "cat"
    <2>1. e.n \in Nat /\ e.p \in Nat
      BY <1>3 DEF ElementOK
    <2> DEFINE a == Entry(e.n, e.p)
    <2>2. a \in Pairs
      BY <2>1, EntryOK
    <2>3. SelectsOf(e, last) = <<a>> /\ LastOf(e) = e.p
      BY <1>3 DEF SelectsOf, LastOf
    <2> HIDE DEF a
    <2> QED BY <2>1, <2>2, <2>3
  <1>4. CASE e.form = "rest"
    <2>1. e.n \in Nat
      BY <1>4 DEF ElementOK
    <2> DEFINE a == Entry(e.n, All)
    <2>2. a \in Pairs
      BY <1>0, <2>1, EntryOK
    <2>3. SelectsOf(e, last) = <<a>> /\ LastOf(e) = All
      BY <1>4 DEF SelectsOf, LastOf
    <2> HIDE DEF a
    <2> QED BY <1>0, <2>2, <2>3
  <1>5. CASE e.form = "oneRest"
    <2>1. e.n \in Nat /\ e.n + 1 \in Nat
      BY <1>5 DEF ElementOK
    <2> DEFINE a == Entry(e.n, e.n)
               b == Entry(e.n + 1, All)
    <2>2. a \in Pairs /\ b \in Pairs
      BY <1>0, <2>1, EntryOK
    <2>3. SelectsOf(e, last) = <<a, b>> /\ LastOf(e) = All
      BY <1>5 DEF SelectsOf, LastOf
    <2> HIDE DEF a, b
    <2> QED BY <1>0, <2>2, <2>3
  <1>6. CASE e.form = "star"
    <2> DEFINE a == Entry(last + 1, All)
    <2>2. a \in Pairs
      BY <1>0, EntryOK
    <2>3. SelectsOf(e, last) = <<a>> /\ LastOf(e) = All
      BY <1>6 DEF SelectsOf, LastOf
    <2> HIDE DEF a
    <2> QED BY <1>0, <2>2, <2>3
  <1> QED BY <1>1, <1>2, <1>3, <1>4, <1>5, <1>6 DEF ElementOK

\* An element is spelled in one step, two or three.
LEMMA SpelledOK ==
    ASSUME NEW e, ElementOK(e), NEW sep \in Separators
    PROVE  LET s == Spelled(e, sep)
           IN  /\ s \in Seq(Items)
               /\ e.form = "one" => Len(s) = 1 /\ s[1] = <<e.n, sep>>
               /\ e.form = "list" => Len(s) = 2 /\ s[1] = <<e.n, Sign("list")>> /\ s[2] = <<e.p, sep>>
               /\ e.form = "cat" => Len(s) = 2 /\ s[1] = <<e.n, Sign("cat")>> /\ s[2] = <<e.p, sep>>
               /\ e.form = "rest" => Len(s) = 3 /\ s[1] = <<e.n, Sign("cat")>> /\ s[2] = <<NoNumber, "*">> /\ s[3] = <<NoNumber, sep>>
               /\ e.form = "oneRest" => Len(s) = 2 /\ s[1] = <<e.n, "*">> /\ s[2] = <<NoNumber, sep>>
               /\ e.form = "star" => Len(s) = 2 /\ s[1] = <<NoNumber, "*">> /\ s[2] = <<NoNumber, sep>>
  <1> DEFINE Step == Items
             dash == Sign("list")
             dot == Sign("cat")
             star == "*"
             none == NoNumber
  <1>1. sep \in Symbols /\ star \in Symbols
    BY Zenon DEF Separators, Symbols
  <1>2. dash = "-" /\ dot = "."
    <2>1. "cat" # "list"
      OBVIOUS
    <2> QED BY <2>1, Zenon DEF Sign
  <1>3. dash \in Symbols /\ dot \in Symbols
    BY <1>2, Zenon DEF Symbols
  <1>4. none \in Int
    BY DEF NoNumber
  <1>5. CASE e.form = "one"
    <2>1. e.n \in Int
      BY <1>5 DEF ElementOK
    <2>2. Spelled(e, sep) = << <<e.n, sep>> >>
      BY <1>5, Zenon DEF Spelled
    <2> HIDE DEF dash, dot, star, none
    <2> QED BY <1>1, <1>5, <2>1, <2>2 DEF Items
  <1>6. CASE e.form = "list"
    <2>1. e.n \in Int /\ e.p \in Int
      BY <1>6 DEF ElementOK
    <2>2. "list" # "one"
      OBVIOUS
    <2>3. Spelled(e, sep) = << <<e.n, dash>>, <<e.p, sep>> >>
      <3>1. Spelled(e, sep) = << <<e.n, "-">>, <<e.p, sep>> >>
        BY <1>6, <2>2, Zenon DEF Spelled
      <3> HIDE DEF dash
      <3> QED BY <1>2, <3>1, Zenon
    <2> HIDE DEF dash, dot, star, none
    <2>4. LET s == << <<e.n, dash>>, <<e.p, sep>> >>
          IN  s \in Seq(Step) /\ Len(s) = 2 /\ s[1] = <<e.n, dash>> /\ s[2] = <<e.p, sep>>
      BY <1>1, <1>3, <2>1 DEF Items
    <2> QED BY <1>6, <2>3, <2>4 DEF dash
  <1>7. CASE e.form = "cat"
    <2>1. e.n \in Int /\ e.p \in Int
      BY <1>7 DEF ElementOK
    <2>2. "cat" # "one" /\ "cat" # "list"
      OBVIOUS
    <2>3. Spelled(e, sep) = << <<e.n, dot>>, <<e.p, sep>> >>
      <3>1. Spelled(e, sep) = << <<e.n, ".">>, <<e.p, sep>> >>
        BY <1>7, <2>2, Zenon DEF Spelled
      <3> HIDE DEF dot
      <3> QED BY <1>2, <3>1, Zenon
    <2> HIDE DEF dash, dot, star, none
    <2>4. LET s == << <<e.n, dot>>, <<e.p, sep>> >>
          IN  s \in Seq(Step) /\ Len(s) = 2 /\ s[1] = <<e.n, dot>> /\ s[2] = <<e.p, sep>>
      BY <1>1, <1>3, <2>1 DEF Items
    <2> QED BY <1>7, <2>3, <2>4 DEF dot
  <1>8. CASE e.form = "rest"
    <2>1. e.n \in Int
      BY <1>8 DEF ElementOK
    <2>2. "rest" # "one" /\ "rest" # "list" /\ "rest" # "cat"
      OBVIOUS
    <2>3. Spelled(e, sep) = << <<e.n, dot>>, <<none, star>>, <<none, sep>> >>
      <3>1. Spelled(e, sep) = << <<e.n, ".">>, <<NoNumber, "*">>, <<NoNumber, sep>> >>
        BY <1>8, <2>2, Zenon DEF Spelled
      <3> HIDE DEF dot
      <3> QED BY <1>2, <3>1, Zenon
    <2> HIDE DEF dash, dot, star, none
    <2>4. LET s == << <<e.n, dot>>, <<none, star>>, <<none, sep>> >>
          IN  s \in Seq(Step) /\ Len(s) = 3 /\ s[1] = <<e.n, dot>> /\ s[2] = <<none, star>> /\ s[3] = <<none, sep>>
      BY <1>1, <1>3, <1>4, <2>1 DEF Items
    <2> QED BY <1>8, <2>3, <2>4 DEF dot, star, none
  <1>9. CASE e.form = "oneRest"
    <2>1. e.n \in Int
      BY <1>9 DEF ElementOK
    <2>2. "oneRest" # "one" /\ "oneRest" # "list" /\ "oneRest" # "cat" /\ "oneRest" # "rest"
      OBVIOUS
    <2>3. Spelled(e, sep) = << <<e.n, star>>, <<none, sep>> >>
      BY <1>9, <2>2, Zenon DEF Spelled
    <2> HIDE DEF dash, dot, star, none
    <2>4. LET s == << <<e.n, star>>, <<none, sep>> >>
          IN  s \in Seq(Step) /\ Len(s) = 2 /\ s[1] = <<e.n, star>> /\ s[2] = <<none, sep>>
      BY <1>1, <1>4, <2>1 DEF Items
    <2> QED BY <1>9, <2>3, <2>4 DEF star, none
  <1>10. CASE e.form = "star"
    <2>1. "star" # "one" /\ "star" # "list" /\ "star" # "cat" /\ "star" # "rest" /\ "star" # "oneRest"
      OBVIOUS
    <2>2. Spelled(e, sep) = << <<none, star>>, <<none, sep>> >>
      BY <1>10, <2>1, Zenon DEF Spelled
    <2> HIDE DEF dash, dot, star, none
    <2>3. LET s == << <<none, star>>, <<none, sep>> >>
          IN  s \in Seq(Step) /\ Len(s) = 2 /\ s[1] = <<none, star>> /\ s[2] = <<none, sep>>
      BY <1>1, <1>4 DEF Items
    <2> QED BY <1>10, <2>2, <2>3 DEF star, none
  <1> QED BY <1>5, <1>6, <1>7, <1>8, <1>9, <1>10 DEF ElementOK

\* Two steps behind one another are steps of the loop.
AtSteps(f, list, p, s, c) ==
    \A j \in 1..c : f[p + j] = TokenStep(f[p + j - 1], list[p + j]) /\ list[p + j] = s[j]
StepsTo(f, p, s, c) ==
    /\ c = 1 => Steps1(f[p], f[p + c], s[1])
    /\ c = 2 => Steps2(f[p], f[p + c], s[1], s[2])
    /\ c = 3 => Steps3(f[p], f[p + c], s[1], s[2], s[3])
LEMMA AreSteps ==
    ASSUME NEW f, NEW list, NEW p \in Nat, NEW s, NEW c \in Nat,
           AtSteps(f, list, p, s, c)
    PROVE  StepsTo(f, p, s, c)
  <1>1. \A j \in 1..c : f[p + j] = TokenStep(f[p + j - 1], s[j])
    BY DEF AtSteps
  <1>2. c >= 1 => f[p + 1] = TokenStep(f[p], s[1])
    <2>1. p + 1 - 1 = p /\ (c >= 1 => 1 \in 1..c)
      OBVIOUS
    <2> QED BY <1>1, <2>1
  <1>3. c >= 2 => f[p + 2] = TokenStep(f[p + 1], s[2])
    <2>1. p + 2 - 1 = p + 1 /\ (c >= 2 => 2 \in 1..c)
      OBVIOUS
    <2> QED BY <1>1, <2>1
  <1>4. c >= 3 => f[p + 3] = TokenStep(f[p + 2], s[3])
    <2>1. p + 3 - 1 = p + 2 /\ (c >= 3 => 3 \in 1..c)
      OBVIOUS
    <2> QED BY <1>1, <2>1
  <1>5. CASE c = 1
    BY <1>2, <1>5 DEF Steps1, StepsTo
  <1>6. CASE c = 2
    BY <1>2, <1>3, <1>6 DEF Steps1, Steps2, StepsTo
  <1>7. CASE c = 3
    BY <1>2, <1>3, <1>4, <1>7 DEF Steps1, Steps2, Steps3, StepsTo
  <1> QED BY <1>5, <1>6, <1>7 DEF StepsTo

\* The sequences of the elements of a list
Parts(elements) == [i \in DOMAIN elements |-> Spelled(elements[i], IF i = Len(elements) THEN "end" ELSE ",")]
Ranges(elements) == [i \in DOMAIN elements |-> Selects(elements, i)]
Before(elements, i) == IF i = 0 THEN 0 ELSE LastOf(elements[i])

LEMMA PartsOK ==
    ASSUME NEW elements, IsText(elements), \A e \in Range(elements) : ElementOK(e)
    PROVE  /\ Len(elements) \in Nat /\ DOMAIN elements = 1..Len(elements)
           /\ Parts(elements) \in Seq(Seq(Items)) /\ Len(Parts(elements)) = Len(elements)
           /\ Ranges(elements) \in Seq(Seq(Pairs)) /\ Len(Ranges(elements)) = Len(elements)
           /\ \A i \in 0..Len(elements) : Before(elements, i) \in Nat
           /\ \A i \in 1..Len(elements) :
                  /\ ElementOK(elements[i])
                  /\ \E sep \in Separators : Parts(elements)[i] = Spelled(elements[i], sep)
                  /\ Ranges(elements)[i] = SelectsOf(elements[i], Before(elements, i - 1))
  <1> DEFINE n == Len(elements)
             sep(i) == IF i = n THEN "end" ELSE ","
  <1>1. n \in Nat /\ DOMAIN elements = 1..n /\ \A i \in 1..n : elements[i] \in Range(elements)
    <2>1. elements \in Seq(Range(elements))
      BY DEF IsText
    <2> QED BY <2>1, ElementOfSeq
  <1>2. \A i \in 1..n : ElementOK(elements[i])
    BY <1>1
  <1>3. \A i : sep(i) \in Separators
    BY Zenon DEF Separators
  <1>4. Parts(elements) = [i \in 1..n |-> Spelled(elements[i], sep(i))]
    BY <1>1, Zenon DEF Parts
  <1>5. Ranges(elements) = [i \in 1..n |-> Selects(elements, i)]
    BY <1>1, Zenon DEF Ranges
  <1> HIDE DEF sep, n
  <1>6. \A i \in 0..n : Before(elements, i) \in Nat
    <2> TAKE i \in 0..n
    <2>1. CASE i = 0
      BY <2>1 DEF Before
    <2>2. CASE i # 0
      <3>1. i \in 1..n
        BY <1>1, <2>2
      <3> QED BY <1>2, <2>2, <3>1, SelectsOK DEF Before
    <2> QED BY <2>1, <2>2
  <1>7. \A i \in 1..n : Selects(elements, i) = SelectsOf(elements[i], Before(elements, i - 1))
    <2> TAKE i \in 1..n
    <2>1. Before(elements, i - 1) = IF i = 1 THEN 0 ELSE LastOf(elements[i - 1])
      <3>1. i - 1 = 0 <=> i = 1
        BY <1>1
      <3> QED BY <3>1 DEF Before
    <2> QED BY <2>1, Zenon DEF Selects, SelectsOf
  <1>8. Parts(elements) \in Seq(Seq(Items)) /\ Len(Parts(elements)) = n
    <2> DEFINE S == Parts(elements)
               T == Seq(Items)
    <2>1. \A i \in 1..n : S[i] \in T
      BY <1>2, <1>3, <1>4, SpelledOK
    <2>2. S = [i \in 1..n |-> S[i]]
      BY <1>4
    <2> HIDE DEF S, T
    <2>3. S \in Seq(T) /\ Len(S) = n
      BY <1>1, <2>1, <2>2
    <2> QED BY <2>3 DEF S, T
  <1>9. Ranges(elements) \in Seq(Seq(Pairs)) /\ Len(Ranges(elements)) = n
    <2> DEFINE S == Ranges(elements)
               T == Seq(Pairs)
    <2>1. \A i \in 1..n : S[i] \in T
      <3> TAKE i \in 1..n
      <3>1. i - 1 \in 0..n
        BY <1>1
      <3> QED BY <1>2, <1>5, <1>6, <1>7, <3>1, SelectsOK
    <2>2. S = [i \in 1..n |-> S[i]]
      BY <1>5
    <2> HIDE DEF S, T
    <2>3. S \in Seq(T) /\ Len(S) = n
      BY <1>1, <2>1, <2>2
    <2> QED BY <2>3 DEF S, T
  <1>10. \A i \in 1..n : \E s \in Separators : Parts(elements)[i] = Spelled(elements[i], s)
    BY <1>3, <1>4
  <1>11. \A i \in 1..n : Ranges(elements)[i] = SelectsOf(elements[i], Before(elements, i - 1))
    BY <1>5, <1>7
  <1> QED BY <1>1, <1>2, <1>6, <1>8, <1>9, <1>10, <1>11 DEF n

\* A list that is accepted: every step was.
LEMMA EveryStepOK ==
    ASSUME NEW none, NEW list, NEW n \in Nat, NEW f, Steps(none, list, n, f), f[n].status = "ok"
    PROVE  \A k \in 0..n : f[k].status = "ok"
  <1> DEFINE Wrong == {l \in Nat : l <= n /\ f[n - l].status # "ok"}
  <1>1. 0 \notin Wrong
    OBVIOUS
  <1>2. ASSUME NEW l \in Nat, l \notin Wrong PROVE l + 1 \notin Wrong
    <2>1. ASSUME l + 1 <= n PROVE f[n - (l + 1)].status = "ok"
      <3> DEFINE k == n - l
      <3>1. k \in 1..n /\ k - 1 = n - (l + 1) /\ l <= n
        BY <2>1
      <3> HIDE DEF k
      <3>2. f[k] = TokenStep(f[k - 1], list[k])
        <4>1. k # 0 /\ k \in 0..n
          BY <3>1
        <4> QED BY <4>1 DEF Steps
      <3>3. f[k].status = "ok"
        BY <1>2, <3>1 DEF k
      <3> QED BY <3>1, <3>2, <3>3, StepWasOK
    <2> QED BY <2>1
  <1>3. Wrong = {}
    <2>1. Wrong \in SUBSET Nat
      OBVIOUS
    <2> HIDE DEF Wrong
    <2> QED BY <1>1, <1>2, <2>1, NoneIsWrong
  <1> QED
    <2> TAKE k \in 0..n
    <2>1. n - k \in Nat /\ n - k <= n /\ n - (n - k) = k
      OBVIOUS
    <2> QED BY <1>3, <2>1

IsTable(tok) == tok = [k \in 1..MaxTokens |-> tok[k]]

\* What a list that is accepted makes of a FORINFO
LEMMA ListWritten ==
    ASSUME NEW elements, IsText(elements), \A e \in Range(elements) : ElementOK(e),
           NEW list \in Seq(Items), list = Spell(elements),
           NEW info, InfoOK(info), IsTable(info.tok),
           ForMakeTokens(list, info).status = "ok"
    PROVE  LET made == ForMakeTokens(list, info)
               L == Selected(elements)
           IN  /\ L \in Seq(Pairs) /\ Len(L) \in 0..MaxTokens /\ made.iTokenNb = Len(L)
               /\ made.tok = [k \in 1..MaxTokens |-> IF k <= Len(L) THEN Or2(info.tok[k], L[k]) ELSE info.tok[k]]
  <1> DEFINE none == [start |-> None, end |-> None, op |-> "none", prev |-> "", last |-> 0,
                      tok |-> info.tok, n |-> 0, status |-> "ok"]
             N == Len(list)
             f == CHOOSE g : Steps(none, list, N, g)
             L == Selected(elements)
             n == Len(elements)
             P == Parts(elements)
             R == Ranges(elements)
             base == info.tok
             made == ForMakeTokens(list, info)
  <1>1. N \in Nat
    OBVIOUS
  <1> HIDE DEF N
  <1>2. Ready(none, 0, base, L, 0)
    <2>1. StateOK(none)
      BY TokensAssumption DEF StateOK, None
    <2>2. none.tok = info.tok /\ none.n = 0 /\ none.status = "ok" /\ none.start = None /\ none.end = None
          /\ none.op = "none" /\ none.last = 0
      OBVIOUS
    <2>3. ~AfterStar(none)
      <3>1. "" # "*" /\ none.prev = ""
        BY Zenon
      <3> HIDE DEF none
      <3> QED BY <3>1, Zenon DEF AfterStar
    <2> HIDE DEF none, L
    <2>4. info.tok = [k \in 1..MaxTokens |-> IF k <= 0 THEN Or2(base[k], L[k]) ELSE base[k]]
      <3>1. \A k \in 1..MaxTokens : ~(k <= 0)
        BY TokensAssumption
      <3>2. base = [k \in 1..MaxTokens |-> base[k]]
        BY DEF IsTable
      <3> QED BY <3>1, <3>2
    <2>5. Fits(none, base, L)
      BY <2>1, <2>2, <2>4 DEF Fits
    <2> QED BY <2>2, <2>3, <2>5 DEF Ready, At
  <1> HIDE DEF none
  <1>3. Steps(none, list, N, f)
    BY <1>1, StepsExists
  <1>4. made = [info EXCEPT !.tok = f[N].tok, !.status = f[N].status,
                            !.iTokenNb = IF f[N].status = "ok" THEN f[N].n ELSE @]
    BY Zenon DEF ForMakeTokens, Steps, none, N
  <1> HIDE DEF f, made
  <1>5. f[N].status = "ok" /\ made.tok = f[N].tok /\ made.iTokenNb = f[N].n
    <2>1. made.status = "ok"
      BY DEF made
    <2> QED BY <1>4, <2>1 DEF InfoOK
  <1>6. f[0] = none /\ \A k \in 1..N : f[k] = TokenStep(f[k - 1], list[k])
    <2>1. \A k \in 0..N : f[k] = IF k = 0 THEN none ELSE TokenStep(f[k - 1], list[k])
      BY <1>3 DEF Steps
    <2> QED BY <1>1, <2>1
  <1>7. \A k \in 0..N : f[k].status = "ok"
    BY <1>1, <1>3, <1>5, EveryStepOK
  <1>8. /\ n \in Nat /\ P \in Seq(Seq(Items)) /\ Len(P) = n /\ R \in Seq(Seq(Pairs)) /\ Len(R) = n
        /\ \A i \in 0..n : Before(elements, i) \in Nat
        /\ \A i \in 1..n : /\ ElementOK(elements[i])
                           /\ \E sep \in Separators : P[i] = Spelled(elements[i], sep)
                           /\ R[i] = SelectsOf(elements[i], Before(elements, i - 1))
    BY PartsOK
  <1>80. n \in Nat
    BY <1>8
  <1>9. FlattenSeq(P) = list /\ FlattenSeq(R) = L
    BY Zenon DEF Parts, Ranges, Spell, Selected
  <1> HIDE DEF N, n, P, R, L
  <1>10. PICK g : Grows(P, g, Items)
    BY <1>8, FlattenGrows
  <1>11. PICK h : Grows(R, h, Pairs)
    BY <1>8, FlattenGrows
  <1> DEFINE p(i) == Len(g[i])
             m(i) == Len(h[i])
             Good(i) == Ready(f[p(i)], Before(elements, i), base, L, m(i))
             Wrong == {i \in Nat : i \in 0..n /\ ~Good(i)}
  <1>12. p(0) = 0 /\ m(0) = 0 /\ g[n] = list /\ h[n] = L
    BY <1>8, <1>9, <1>10, <1>11, EmptySeq DEF Grows
  <1>13. 0 \notin Wrong
    <2>1. Before(elements, 0) = 0
      BY DEF Before
    <2>2. Good(0)
      BY <1>2, <1>6, <1>12, <2>1
    <2> QED BY <2>2
  <1>14. ASSUME NEW k \in Nat, k \notin Wrong PROVE k + 1 \notin Wrong
    <2>1. ASSUME k + 1 \in 0..n PROVE Good(k + 1)
      <3> DEFINE i == k + 1
                 e == elements[i]
                 q == p(k)
                 c == Len(P[i])
                 s == P[i]
                 last == Before(elements, k)
      <3>1. i \in 1..n /\ i - 1 = k /\ k \in 0..n
        <4> HIDE DEF Good, Wrong
        <4> QED BY <1>80, <2>1
      <3>2. Ready(f[q], last, base, L, m(k))
        BY <1>14, <3>1
      <3>3. p(i) = q + c /\ q \in Nat /\ c \in Nat /\ p(i) <= N /\ \A j \in 1..c : list[q + j] = s[j]
        <4> HIDE DEF i, e, q, c, s, last, p, m, Good, Wrong
        <4>1. Continues(P, g, i)
          <5>1. P \in Seq(Seq(Items)) /\ i \in 1..Len(P)
            BY <1>8, <3>1
          <5> QED BY <1>10, <5>1, Beginnings
        <4> QED BY <1>8, <1>12, <3>1, <4>1 DEF N, p, q, c, s, Continues
      <3>4. m(i) = m(k) + Len(R[i]) /\ m(k) \in Nat /\ \A j \in 1..Len(R[i]) : L[m(k) + j] = R[i][j]
        <4> HIDE DEF i, e, q, c, s, last, p, m, Good, Wrong
        <4>1. Continues(R, h, i)
          <5>1. R \in Seq(Seq(Pairs)) /\ i \in 1..Len(R)
            BY <1>8, <3>1
          <5> QED BY <1>11, <5>1, Beginnings
        <4> QED BY <1>8, <1>12, <3>1, <4>1 DEF m, Continues
      <3>5. R[i] = SelectsOf(e, last) /\ ElementOK(e) /\ last \in Nat
        BY <1>8, <3>1
      <3>6. PICK sep \in Separators : s = Spelled(e, sep)
        BY <1>8, <3>1
      <3> HIDE DEF i, e, q, c, s, last, p, m, Good, Wrong
      <3>7. \A j \in 1..c : f[q + j] = TokenStep(f[q + j - 1], list[q + j]) /\ list[q + j] = s[j]
        <4> TAKE j \in 1..c
        <4>1. q + j \in 1..N /\ (q + j) - 1 = q + j - 1
          BY <1>1, <3>3
        <4> QED BY <1>6, <3>3, <4>1
      <3>8. f[q + c].status = "ok"
        <4>1. q + c \in 0..N
          BY <1>1, <3>3
        <4> QED BY <1>7, <4>1
      <3>9. /\ c = 1 => Steps1(f[q], f[q + c], s[1])
            /\ c = 2 => Steps2(f[q], f[q + c], s[1], s[2])
            /\ c = 3 => Steps3(f[q], f[q + c], s[1], s[2], s[3])
        <4>1. AtSteps(f, list, q, s, c)
          BY <3>7 DEF AtSteps
        <4>2. StepsTo(f, q, s, c)
          BY <3>3, <4>1, AreSteps
        <4> QED BY <4>2 DEF StepsTo
      <3> DEFINE x == f[q + c]
      <3>10. /\ e.form = "one" => Steps1(f[q], x, <<e.n, sep>>)
             /\ e.form = "list" => Steps2(f[q], x, <<e.n, Sign("list")>>, <<e.p, sep>>)
             /\ e.form = "cat" => Steps2(f[q], x, <<e.n, Sign("cat")>>, <<e.p, sep>>)
             /\ e.form = "rest" => Steps3(f[q], x, <<e.n, Sign("cat")>>, <<NoNumber, "*">>, <<NoNumber, sep>>)
             /\ e.form = "oneRest" => Steps2(f[q], x, <<e.n, "*">>, <<NoNumber, sep>>)
             /\ e.form = "star" => Steps2(f[q], x, <<NoNumber, "*">>, <<NoNumber, sep>>)
        <4>1. c = Len(s)
          BY DEF c, s
        <4> HIDE DEF x
        <4>2. c = 1 => Steps1(f[q], x, s[1])
          BY <3>9 DEF x
        <4>3. c = 2 => Steps2(f[q], x, s[1], s[2])
          BY <3>9 DEF x
        <4>4. c = 3 => Steps3(f[q], x, s[1], s[2], s[3])
          BY <3>9 DEF x
        <4>5. /\ e.form = "one" => Len(s) = 1 /\ s[1] = <<e.n, sep>>
              /\ e.form = "list" => Len(s) = 2 /\ s[1] = <<e.n, Sign("list")>> /\ s[2] = <<e.p, sep>>
              /\ e.form = "cat" => Len(s) = 2 /\ s[1] = <<e.n, Sign("cat")>> /\ s[2] = <<e.p, sep>>
              /\ e.form = "rest" => Len(s) = 3 /\ s[1] = <<e.n, Sign("cat")>> /\ s[2] = <<NoNumber, "*">> /\ s[3] = <<NoNumber, sep>>
              /\ e.form = "oneRest" => Len(s) = 2 /\ s[1] = <<e.n, "*">> /\ s[2] = <<NoNumber, sep>>
              /\ e.form = "star" => Len(s) = 2 /\ s[1] = <<NoNumber, "*">> /\ s[2] = <<NoNumber, sep>>
          BY <3>5, <3>6, SpelledOK
        <4> QED BY <4>1, <4>2, <4>3, <4>4, <4>5, Zenon
      <3> HIDE DEF x
      <3>11. x.status = "ok" /\ \A j \in 1..Len(SelectsOf(e, last)) : L[m(k) + j] = SelectsOf(e, last)[j]
        BY <3>4, <3>5, <3>8 DEF x
      <3>12. Ready(x, LastOf(e), base, L, m(k) + Len(SelectsOf(e, last)))
        BY <3>2, <3>4, <3>5, <3>10, <3>11, ElementWritten
      <3>13. Before(elements, i) = LastOf(e)
        <4>1. i # 0
          BY <3>1
        <4> QED BY <4>1 DEF Before, e
      <3> QED BY <3>3, <3>4, <3>5, <3>12, <3>13 DEF x, i, Good
    <2> QED BY <2>1
  <1>15. Wrong = {}
    <2>1. Wrong \in SUBSET Nat
      OBVIOUS
    <2> HIDE DEF Wrong
    <2> QED BY <1>13, <1>14, <2>1, NoneIsWrong
  <1>16. Good(n)
    <2>1. n \in 0..n
      BY <1>80
    <2>2. n \notin Wrong
      BY <1>15, Zenon
    <2> HIDE DEF Good
    <2> QED BY <1>80, <2>1, <2>2
  <1>17. p(n) = N /\ m(n) = Len(L) /\ L \in Seq(Pairs)
    <2>1. n \in 0..Len(R)
      BY <1>8
    <2> QED BY <1>11, <1>12, <2>1 DEF N, Grows
  <1> HIDE DEF p, m
  <1>18. Fits(f[N], base, L) /\ f[N].n = Len(L)
    BY <1>16, <1>17 DEF Ready, At
  <1> QED BY <1>5, <1>17, <1>18 DEF Fits, StateOK, made, L

\* Every other option leaves the tokens alone.
LEMMA OtherOption ==
    ASSUME NEW info, InfoOK(info), info.status = "ok", NEW o, OptionOK(o), o.type # "tokens"
    PROVE  LET made == Option(info, o) IN made.tok = info.tok /\ made.iTokenNb = info.iTokenNb
  <1>1. o.type \in {"usebackq", "delims", "skip", "eol", "invalid"}
    BY DEF OptionOK
  <1> QED BY <1>1 DEF Option, InfoOK

LEMMA DefaultTable == IsTable(Default.tok)
  <1> DEFINE T == [i \in 1..MaxTokens |-> IF i = 1 THEN <<1, 1>> ELSE <<0, 0>>]
  <1>1. Default.tok = T
    BY DEF Default
  <1>2. T = [i \in 1..MaxTokens |-> T[i]]
    OBVIOUS
  <1> QED BY <1>1, <1>2 DEF IsTable

\* The list of an option that is accepted is in the FORINFO, combined with the default one.
LEMMA ListOfOption ==
    ASSUME NEW info, InfoOK(info), info.tok = Default.tok, info.status = "ok",
           NEW o, OptionOK(o), o.type = "tokens", o.list = Spell(o.elements), Option(info, o).status = "ok"
    PROVE  MeansIts(Option(info, o), Selected(o.elements))
  <1> DEFINE made == Option(info, o)
             L == Selected(o.elements)
  <1>1. o.list \in Seq(Items) /\ IsText(o.elements) /\ \A e \in Range(o.elements) : ElementOK(e)
    BY DEF OptionOK, Items, Symbols
  <1>2. made = ForMakeTokens(o.list, info)
    BY DEF Option
  <1>3. IsTable(info.tok)
    BY DefaultTable
  <1>4. /\ L \in Seq(Pairs) /\ Len(L) \in 0..MaxTokens /\ made.iTokenNb = Len(L)
        /\ made.tok = [k \in 1..MaxTokens |-> IF k <= Len(L) THEN Or2(info.tok[k], L[k]) ELSE info.tok[k]]
    BY <1>1, <1>2, <1>3, ListWritten
  <1> HIDE DEF made, L
  <1>5. MaxTokens \in Nat /\ \A k \in 1..MaxTokens : info.tok[k] = IF k = 1 THEN <<1, 1>> ELSE <<0, 0>>
    BY TokensAssumption DEF Default
  <1>6. \A k \in 1..Len(L) : made.tok[k] = Or2(info.tok[k], L[k]) /\ L[k] \in Pairs /\ k \in 1..MaxTokens
    <2> TAKE k \in 1..Len(L)
    <2>1. k \in 1..MaxTokens /\ k <= Len(L)
      BY <1>4, <1>5
    <2>2. L[k] \in Pairs
      BY <1>4, ElementOfSeq
    <2> QED BY <1>4, <2>1, <2>2
  <1>7. \A k \in 2..Len(L) : made.tok[k] = L[k]
    <2> TAKE k \in 2..Len(L)
    <2> DEFINE x == L[k][1]
               y == L[k][2]
    <2>1. k \in 1..Len(L) /\ k # 1
      BY <1>4
    <2>2. made.tok[k] = Or2(<<0, 0>>, L[k]) /\ L[k] \in Pairs
      BY <1>5, <1>6, <2>1
    <2>3. x \in Nat /\ y \in Nat /\ L[k] = <<x, y>>
      BY <2>2 DEF Pairs
    <2> HIDE DEF x, y
    <2>4. Or2(<<0, 0>>, <<x, y>>) = <<BitOr(0, x), BitOr(0, y)>>
      BY DEF Or2
    <2> QED BY <2>2, <2>3, <2>4, OrNothing
  <1>8. L # <<>> => \A side \in 1..2 : made.tok[1][side] = BitOr(1, L[1][side])
    <2> SUFFICES ASSUME L # <<>>, NEW side \in 1..2 PROVE made.tok[1][side] = BitOr(1, L[1][side])
      OBVIOUS
    <2>1. 1 \in 1..Len(L)
      BY <1>4, EmptySeq
    <2>2. made.tok[1] = Or2(<<1, 1>>, L[1])
      BY <1>5, <1>6, <2>1
    <2>3. side = 1 \/ side = 2
      OBVIOUS
    <2>4. Or2(<<1, 1>>, L[1]) = <<BitOr(1, L[1][1]), BitOr(1, L[1][2])>>
      BY DEF Or2
    <2> QED BY <2>2, <2>3, <2>4
  <1> QED BY <1>4, <1>7, <1>8 DEF MeansIts, made, L

LEMMA ForMakeInfoMeans ==
    ASSUME NEW options, IsText(options), \A o \in Range(options) : OptionOK(o), ForMakeInfo(options).status = "ok",
           NEW f, f.options = options, f.info = ForMakeInfo(options)
    PROVE  MeansItsElements(f)
  <1> DEFINE n == Len(options)
             read == CHOOSE g : Options(options, n, g)
  <1>1. options \in Seq(Range(options)) /\ n \in Nat /\ DOMAIN options = 1..n
    BY DEF IsText
  <1>2. Options(options, n, read)
    BY <1>1, OptionsExists
  <1>3. ForMakeInfo(options) = read[n]
    BY Zenon DEF ForMakeInfo, Options
  <1> HIDE DEF read
  <1>4. read[0] = Default /\ \A k \in 1..n : read[k] = Option(read[k - 1], options[k]) /\ OptionOK(options[k])
    <2>1. \A k \in 0..n : read[k] = IF k = 0 THEN Default ELSE Option(read[k - 1], options[k])
      BY <1>2 DEF Options
    <2>2. \A k \in 1..n : options[k] \in Range(options)
      BY <1>1, ElementOfSeq
    <2> QED BY <1>1, <2>1, <2>2
  <1> HIDE DEF n
  <1>5. \A k \in 0..n : InfoOK(read[k])
    <2> DEFINE Wrong == {k \in Nat : k <= n /\ ~InfoOK(read[k])}
    <2>1. 0 \notin Wrong
      BY <1>4, DefaultOK
    <2>2. ASSUME NEW k \in Nat, k \notin Wrong PROVE k + 1 \notin Wrong
      <3>1. ASSUME k + 1 <= n PROVE InfoOK(read[k + 1])
        <4>1. k + 1 \in 1..n /\ (k + 1) - 1 = k /\ k <= n
          BY <1>1, <3>1
        <4>2. read[k + 1] = Option(read[k], options[k + 1]) /\ OptionOK(options[k + 1]) /\ InfoOK(read[k])
          BY <1>4, <2>2, <4>1
        <4> QED BY <4>2, OptionKeepsInfo
      <3> QED BY <3>1
    <2>3. Wrong = {}
      <3>1. Wrong \in SUBSET Nat
        OBVIOUS
      <3> HIDE DEF Wrong
      <3> QED BY <2>1, <2>2, <3>1, NoneIsWrong
    <2> QED BY <1>1, <2>3
  <1>6. \A k \in 0..n : read[k].status = "ok"
    <2> DEFINE Wrong == {l \in Nat : l <= n /\ read[n - l].status # "ok"}
    <2>1. 0 \notin Wrong
      BY <1>1, <1>3
    <2>2. ASSUME NEW l \in Nat, l \notin Wrong PROVE l + 1 \notin Wrong
      <3>1. ASSUME l + 1 <= n PROVE read[n - (l + 1)].status = "ok"
        <4> DEFINE k == n - l
        <4>1. k \in 1..n /\ k - 1 = n - (l + 1) /\ l <= n
          BY <1>1, <3>1
        <4>2. read[k].status = "ok"
          BY <2>2, <4>1
        <4> HIDE DEF k
        <4>3. read[k] = Option(read[k - 1], options[k])
          BY <1>4, <4>1
        <4>4. read[k - 1].status # "ok" => read[k] = read[k - 1]
          BY <4>3 DEF Option
        <4> QED BY <4>1, <4>2, <4>4
      <3> QED BY <3>1
    <2>3. Wrong = {}
      <3>1. Wrong \in SUBSET Nat
        OBVIOUS
      <3> HIDE DEF Wrong
      <3> QED BY <2>1, <2>2, <3>1, NoneIsWrong
    <2> QED
      <3> TAKE k \in 0..n
      <3>1. n - k \in Nat /\ n - k <= n /\ n - (n - k) = k
        BY <1>1
      <3> QED BY <2>3, <3>1
  <1> SUFFICES ASSUME NEW j \in TokenLists(f), TokenLists(f) = {j}, options[j].list = Spell(options[j].elements)
               PROVE  MeansIts(f.info, Selected(options[j].elements))
    BY DEF MeansItsElements
  <1>7. j \in 1..n /\ options[j].type = "tokens" /\ \A k \in 1..n : options[k].type = "tokens" => k = j
    BY <1>1 DEF TokenLists
  <1>8. \A k \in 1..n : k # j => read[k].tok = read[k - 1].tok /\ read[k].iTokenNb = read[k - 1].iTokenNb
    <2> SUFFICES ASSUME NEW k \in 1..n, k # j
                 PROVE  read[k].tok = read[k - 1].tok /\ read[k].iTokenNb = read[k - 1].iTokenNb
      OBVIOUS
    <2>1. k - 1 \in 0..n
      BY <1>1
    <2>2. /\ read[k] = Option(read[k - 1], options[k]) /\ OptionOK(options[k])
          /\ InfoOK(read[k - 1]) /\ read[k - 1].status = "ok" /\ options[k].type # "tokens"
      BY <1>4, <1>5, <1>6, <1>7, <2>1
    <2> QED BY <2>2, OtherOption
  <1>9. read[j - 1].tok = Default.tok
    <2> DEFINE Wrong == {k \in Nat : k < j /\ read[k].tok # Default.tok}
    <2>1. 0 \notin Wrong
      BY <1>4
    <2>2. ASSUME NEW k \in Nat, k \notin Wrong PROVE k + 1 \notin Wrong
      <3>1. ASSUME k + 1 < j PROVE read[k + 1].tok = Default.tok
        <4>1. k + 1 \in 1..n /\ (k + 1) - 1 = k /\ k < j /\ k + 1 # j
          BY <1>1, <1>7, <3>1
        <4> QED BY <1>8, <2>2, <4>1
      <3> QED BY <3>1
    <2>3. Wrong = {}
      <3>1. Wrong \in SUBSET Nat
        OBVIOUS
      <3> HIDE DEF Wrong
      <3> QED BY <2>1, <2>2, <3>1, NoneIsWrong
    <2>4. j - 1 \in Nat /\ j - 1 < j
      BY <1>7
    <2> QED BY <2>3, <2>4
  <1>10. read[n].tok = read[j].tok /\ read[n].iTokenNb = read[j].iTokenNb
    <2> DEFINE Wrong == {k \in Nat : j + k <= n /\ ~(read[j + k].tok = read[j].tok /\ read[j + k].iTokenNb = read[j].iTokenNb)}
    <2>1. 0 \notin Wrong
      <3>1. j + 0 = j
        BY <1>7
      <3> QED BY <3>1
    <2>2. ASSUME NEW k \in Nat, k \notin Wrong PROVE k + 1 \notin Wrong
      <3>1. ASSUME j + (k + 1) <= n
            PROVE  read[j + (k + 1)].tok = read[j].tok /\ read[j + (k + 1)].iTokenNb = read[j].iTokenNb
        <4> DEFINE i == j + (k + 1)
        <4>1. i \in 1..n /\ i - 1 = j + k /\ j + k <= n /\ i # j
          BY <1>1, <1>7, <3>1
        <4> HIDE DEF i
        <4>2. read[i].tok = read[i - 1].tok /\ read[i].iTokenNb = read[i - 1].iTokenNb
          BY <1>8, <4>1
        <4>3. read[j + k].tok = read[j].tok /\ read[j + k].iTokenNb = read[j].iTokenNb
          BY <2>2, <4>1
        <4> QED BY <4>1, <4>2, <4>3 DEF i
      <3> QED BY <3>1
    <2>3. Wrong = {}
      <3>1. Wrong \in SUBSET Nat
        OBVIOUS
      <3> HIDE DEF Wrong
      <3> QED BY <2>1, <2>2, <3>1, NoneIsWrong
    <2>4. n - j \in Nat /\ j + (n - j) = n /\ j + (n - j) <= n
      BY <1>1, <1>7
    <2> QED BY <2>3, <2>4
  <1>11. MeansIts(read[j], Selected(options[j].elements))
    <2>1. j - 1 \in 0..n /\ j \in 0..n
      BY <1>1, <1>7
    <2>2. /\ read[j] = Option(read[j - 1], options[j]) /\ OptionOK(options[j])
          /\ InfoOK(read[j - 1]) /\ read[j - 1].status = "ok" /\ read[j].status = "ok"
      BY <1>4, <1>5, <1>6, <1>7, <2>1
    <2> QED BY <1>7, <1>9, <2>2, ListOfOption
  <1> QED BY <1>3, <1>10, <1>11 DEF MeansIts
-----------------------------------------------------------------------------
(* The invariant: the loops that run are frames, all but the inner one wait  *)
(* in their body, each has an input open unless it reads a string, a         *)
(* variable that has a value belongs to one of them, and /L has counted its  *)
(* rounds.                                                                   *)

IsSeq(s) == \E S : s \in Seq(S)
LoopOK(f) ==
    /\ {"kind", "var", "body"} \subseteq DOMAIN f
    /\ f.kind \in {"simple", "L", "F"} /\ f.var \in Vars /\ f.body \in BOOLEAN
    /\ f.kind = "F" => /\ {"info", "type", "options"} \subseteq DOMAIN f
                       /\ f.info.iTokenNb \in 0..MaxTokens
                       /\ \A v \in Vars : v < f.var + f.info.iTokenNb - NVars => v \in WrapsTo
                       /\ MeansItsElements(f)
CountOK(f) ==
    /\ {"begin", "inc", "end", "i", "rounds"} \subseteq DOMAIN f
    /\ f.begin \in IntMin..IntMax /\ f.inc \in IntMin..IntMax /\ f.end \in IntMin..IntMax
    /\ f.i \in Int /\ f.rounds \in Nat
    /\ Regular(f) => f.i = f.begin + f.rounds * f.inc /\ (f.rounds = 0 \/ f.i - f.inc <= f.end)
LinesOK(f) ==
    /\ {"lines", "files"} \subseteq DOMAIN f /\ IsLines(f.lines)
    /\ IsText(f.files) /\ \A t \in Range(f.files) : t = Missing \/ IsLines(t)
ItemsOK(f) == (f.kind = "L" => CountOK(f)) /\ (f.kind = "F" => LinesOK(f))
FrameOK(f) == LoopOK(f) /\ ItemsOK(f)
Opens(f) == f.kind = "F" /\ f.type # "string"
Covers(f, v) == IF f.kind = "F" THEN v \in f.var..(f.var + f.info.iTokenNb - 1) ELSE v = f.var
Opened(s) == {i \in 1..Len(s) : Opens(s[i])}
Owned(s, v) == v \in WrapsTo \/ \E i \in 1..Len(s) : Covers(s[i], v)

Inv ==
    /\ DOMAIN lvars = Vars
    /\ IsSeq(frames)
    /\ \A i \in 1..Len(frames) : FrameOK(frames[i])
    /\ \A i \in 2..Len(frames) : frames[i].body
    /\ abort \in BOOLEAN /\ correct \in BOOLEAN /\ crashed \in BOOLEAN
    /\ opened \in Nat /\ Cardinality(Opened(frames)) <= opened
    /\ \A v \in Vars : lvars[v] = NoValue \/ Owned(frames, v)

\* The invariant of the next state, word by word.
LEMMA InvNext ==
    ASSUME NEW s, frames' = s, DOMAIN lvars' = Vars, IsSeq(s),
           \A i \in 1..Len(s) : FrameOK(s[i]),
           \A i \in 2..Len(s) : s[i].body,
           abort' \in BOOLEAN, correct' \in BOOLEAN, crashed' \in BOOLEAN,
           opened' \in Nat, Cardinality(Opened(s)) <= opened',
           \A v \in Vars : lvars'[v] = NoValue \/ Owned(s, v)
    PROVE  Inv'
  <1>1. WrapsTo' = WrapsTo
    BY DEF WrapsTo, Vars
  <1> QED BY <1>1 DEF Inv, Owned, Opened, FrameOK, LoopOK, ItemsOK, CountOK, LinesOK, Regular, Vars, IsSeq, IsText, IsLines, Covers, Opens

-----------------------------------------------------------------------------
(* The stack of the loops *)

LEMMA SeqFacts ==
    ASSUME NEW s, IsSeq(s), NEW f
    PROVE  /\ Len(s) \in Nat /\ (s # <<>> => Len(s) # 0 /\ Head(s) = s[1])
           /\ LET t == <<f>> \o s
              IN  /\ IsSeq(t) /\ Len(t) = Len(s) + 1 /\ t[1] = f
                  /\ \A i \in 1..Len(s) : t[i + 1] = s[i]
           /\ s # <<>> =>
              LET t == Tail(s)
              IN  /\ IsSeq(t) /\ Len(t) = Len(s) - 1
                  /\ \A i \in 1..(Len(s) - 1) : t[i] = s[i + 1]
  <1>1. PICK S : s \in Seq(S)
    BY DEF IsSeq
  <1>2. Len(s) \in Nat /\ (s # <<>> => Len(s) # 0 /\ Head(s) = s[1])
    BY <1>1, EmptySeq
  <1>3. /\ IsSeq(<<f>> \o s) /\ Len(<<f>> \o s) = Len(s) + 1 /\ (<<f>> \o s)[1] = f
        /\ \A i \in 1..Len(s) : (<<f>> \o s)[i + 1] = s[i]
    <2> DEFINE one == <<f>>
    <2>1. s \in Seq(S \cup {f}) /\ one \in Seq(S \cup {f}) /\ Len(one) = 1 /\ one[1] = f
      BY <1>1
    <2> HIDE DEF one
    <2>2. /\ one \o s \in Seq(S \cup {f}) /\ Len(one \o s) = Len(one) + Len(s)
          /\ \A i \in 1..(Len(one) + Len(s)) : (one \o s)[i] = IF i <= Len(one) THEN one[i] ELSE s[i - Len(one)]
      BY <2>1, ConcatProperties
    <2>3. Len(one \o s) = Len(s) + 1 /\ (one \o s)[1] = f
      BY <1>2, <2>1, <2>2
    <2>4. \A i \in 1..Len(s) : (one \o s)[i + 1] = s[i]
      <3> TAKE i \in 1..Len(s)
      <3>1. i + 1 \in 1..(Len(one) + Len(s)) /\ ~(i + 1 <= Len(one)) /\ (i + 1) - Len(one) = i
        BY <1>2, <2>1
      <3> QED BY <2>2, <3>1
    <2> QED BY <2>2, <2>3, <2>4 DEF IsSeq, one
  <1>4. ASSUME s # <<>>
        PROVE  /\ IsSeq(Tail(s)) /\ Len(Tail(s)) = Len(s) - 1
               /\ \A i \in 1..(Len(s) - 1) : Tail(s)[i] = s[i + 1]
    BY <1>1, <1>4, HeadTailProperties DEF IsSeq
  <1> QED BY <1>2, <1>3, <1>4

LEMMA ReplaceFacts ==
    ASSUME NEW s, IsSeq(s), s # <<>>, NEW f
    PROVE  LET t == <<f>> \o Tail(s)
           IN  /\ IsSeq(t) /\ Len(t) = Len(s) /\ t[1] = f
               /\ \A i \in 2..Len(s) : t[i] = s[i]
  <1> DEFINE r == Tail(s)
             t == <<f>> \o r
  <1>1. /\ Len(s) \in Nat /\ IsSeq(r) /\ Len(r) = Len(s) - 1
        /\ \A i \in 1..(Len(s) - 1) : r[i] = s[i + 1]
    BY SeqFacts
  <1> HIDE DEF r
  <1>2. /\ IsSeq(t) /\ Len(t) = Len(r) + 1 /\ t[1] = f
        /\ \A i \in 1..Len(r) : t[i + 1] = r[i]
    BY <1>1, SeqFacts
  <1> HIDE DEF t
  <1>3. \A i \in 2..Len(s) : t[i] = s[i]
    <2> TAKE i \in 2..Len(s)
    <2>1. i - 1 \in 1..Len(r) /\ i - 1 \in 1..(Len(s) - 1) /\ (i - 1) + 1 = i
      BY <1>1
    <2>2. t[(i - 1) + 1] = r[i - 1] /\ r[i - 1] = s[(i - 1) + 1]
      BY <1>1, <1>2, <2>1
    <2> QED BY <2>1, <2>2
  <1> QED BY <1>1, <1>2, <1>3 DEF t, r

LEMMA OpenedFinite ==
    ASSUME NEW s, IsSeq(s)
    PROVE  IsFiniteSet(Opened(s)) /\ Cardinality(Opened(s)) \in Nat
  <1>1. Len(s) \in Nat
    BY SeqFacts
  <1>2. IsFiniteSet(1..Len(s)) /\ Opened(s) \in SUBSET (1..Len(s))
    BY <1>1, FS_Interval DEF Opened
  <1> QED BY <1>2, FS_Subset, FS_CardinalityType

\* One more loop, or one less: its own input counts.
LEMMA OpenedShift ==
    ASSUME NEW s, IsSeq(s), NEW t, IsSeq(t), Len(t) = Len(s) + 1,
           \A i \in 1..Len(s) : t[i + 1] = s[i]
    PROVE  Cardinality(Opened(t)) = Cardinality(Opened(s)) + (IF Opens(t[1]) THEN 1 ELSE 0)
  <1> DEFINE A == Opened(s)
             B == Opened(t) \ {1}
             g == [i \in A |-> i + 1]
  <1>1. Len(s) \in Nat
    BY SeqFacts
  <1>2. IsFiniteSet(A) /\ IsFiniteSet(Opened(t)) /\ Cardinality(Opened(t)) \in Nat
    BY OpenedFinite
  <1>3. \A i \in A : i \in 1..Len(s) /\ i + 1 \in B
    BY <1>1 DEF Opened
  <1>4. \A j \in B : j - 1 \in A /\ (j - 1) + 1 = j
    <2> TAKE j \in B
    <2>1. j \in 1..(Len(s) + 1) /\ j # 1 /\ Opens(t[j])
      BY DEF Opened
    <2>2. j - 1 \in 1..Len(s) /\ (j - 1) + 1 = j
      BY <1>1, <2>1
    <2>3. t[j] = s[j - 1]
      BY <2>2
    <2> QED BY <2>1, <2>2, <2>3 DEF Opened
  <1> HIDE DEF A, B
  <1>5. g \in Bijection(A, B)
    <2>1. g \in [A -> B]
      BY <1>3
    <2>2. \A i, j \in A : g[i] = g[j] => i = j
      BY <1>3
    <2>3. \A j \in B : \E i \in A : g[i] = j
      BY <1>4
    <2> HIDE DEF g
    <2> QED BY <2>1, <2>2, <2>3, Fun_IsBij
  <1>6. Cardinality(B) = Cardinality(A)
    BY <1>2, <1>5, FS_Bijection DEF ExistsBijection
  <1>7. Cardinality(B) = IF 1 \in Opened(t) THEN Cardinality(Opened(t)) - 1 ELSE Cardinality(Opened(t))
    BY <1>2, FS_RemoveElement DEF B
  <1>8. 1 \in Opened(t) <=> Opens(t[1])
    BY <1>1 DEF Opened
  <1> QED BY <1>2, <1>6, <1>7, <1>8 DEF A

-----------------------------------------------------------------------------
(* What a step does to the stack keeps the invariant. *)

LEMMA PushKeeps ==
    ASSUME Inv, NEW f, FrameOK(f), Push(f), frames = <<>> \/ Top.body,
           opened' = opened + (IF Opens(f) THEN 1 ELSE 0),
           UNCHANGED <<lvars, abort, correct, crashed>>
    PROVE  Inv'
  <1> DEFINE s == <<f>> \o frames
  <1>1. /\ Len(frames) \in Nat /\ (frames # <<>> => Len(frames) # 0 /\ Head(frames) = frames[1])
        /\ IsSeq(s) /\ Len(s) = Len(frames) + 1 /\ s[1] = f
        /\ \A i \in 1..Len(frames) : s[i + 1] = frames[i]
    BY SeqFacts DEF Inv
  <1>2. frames' = s
    BY DEF Push
  <1> HIDE DEF s
  <1>3. \A i \in 1..Len(s) : i = 1 \/ (i - 1 \in 1..Len(frames) /\ s[i] = frames[i - 1])
    <2> TAKE i \in 1..Len(s)
    <2>1. CASE i # 1
      <3>1. i - 1 \in 1..Len(frames) /\ (i - 1) + 1 = i
        BY <1>1, <2>1
      <3> QED BY <1>1, <3>1
    <2> QED BY <2>1
  <1>4. \A i \in 1..Len(s) : FrameOK(s[i])
    BY <1>1, <1>3 DEF Inv
  <1>5. \A i \in 2..Len(s) : s[i].body
    <2> TAKE i \in 2..Len(s)
    <2>1. i - 1 \in 1..Len(frames) /\ s[i] = frames[i - 1]
      BY <1>1, <1>3
    <2>2. CASE i = 2
      <3>1. i - 1 = 1 /\ frames # <<>>
        <4>1. Len(frames) # 0
          BY <1>1, <2>1
        <4> QED BY <4>1, <2>2, EmptySeq
      <3> QED BY <1>1, <2>1, <3>1 DEF Top
    <2>3. CASE i # 2
      <3>1. i - 1 \in 2..Len(frames)
        BY <1>1, <2>1, <2>3
      <3> QED BY <2>1, <3>1 DEF Inv
    <2> QED BY <2>2, <2>3
  <1>6. opened' \in Nat /\ Cardinality(Opened(s)) <= opened'
    <2>1. Cardinality(Opened(s)) = Cardinality(Opened(frames)) + (IF Opens(f) THEN 1 ELSE 0)
      BY <1>1, OpenedShift DEF Inv
    <2>2. Cardinality(Opened(frames)) \in Nat /\ opened \in Nat /\ Cardinality(Opened(frames)) <= opened
      BY OpenedFinite DEF Inv
    <2> QED BY <2>1, <2>2
  <1>7. \A v \in Vars : Owned(frames, v) => Owned(s, v)
    <2> TAKE v \in Vars
    <2>1. ASSUME NEW i \in 1..Len(frames), Covers(frames[i], v) PROVE Owned(s, v)
      <3>1. i + 1 \in 1..Len(s) /\ Covers(s[i + 1], v)
        BY <1>1, <2>1
      <3> QED BY <3>1 DEF Owned
    <2> QED BY <2>1 DEF Owned
  <1>8. DOMAIN lvars' = Vars /\ \A v \in Vars : lvars'[v] = NoValue \/ Owned(s, v)
    BY <1>7 DEF Inv
  <1>9. abort' \in BOOLEAN /\ correct' \in BOOLEAN /\ crashed' \in BOOLEAN
    BY DEF Inv
  <1> QED BY <1>1, <1>2, <1>4, <1>5, <1>6, <1>8, <1>9, InvNext

LEMMA ReplaceKeeps ==
    ASSUME Inv, frames # <<>>, NEW f, FrameOK(f), Replace(f), Opens(f) <=> Opens(Top),
           \A v \in Vars : Covers(Top, v) => Covers(f, v),
           opened' \in {opened, opened + 1}, abort' \in BOOLEAN, UNCHANGED <<correct, crashed>>,
           DOMAIN lvars' = Vars,
           \A v \in Vars : lvars'[v] = lvars[v] \/ v \in WrapsTo \/ Covers(f, v)
    PROVE  Inv'
  <1> DEFINE s == <<f>> \o Tail(frames)
             r == Tail(frames)
  <1>1. /\ Len(frames) \in Nat /\ Len(frames) # 0 /\ Top = frames[1]
        /\ IsSeq(s) /\ Len(s) = Len(frames) /\ s[1] = f
        /\ \A i \in 2..Len(frames) : s[i] = frames[i]
    BY SeqFacts, ReplaceFacts DEF Inv, Top
  <1>2. frames' = s
    BY DEF Replace
  <1>3. /\ IsSeq(r) /\ Len(r) = Len(frames) - 1
        /\ \A i \in 1..(Len(frames) - 1) : r[i] = frames[i + 1]
    BY SeqFacts DEF Inv
  <1> HIDE DEF s, r
  <1>4. \A i \in 1..Len(s) : FrameOK(s[i])
    <2> TAKE i \in 1..Len(s)
    <2>1. CASE i = 1
      BY <1>1, <2>1
    <2>2. CASE i # 1
      <3>1. i \in 2..Len(frames)
        BY <1>1, <2>2
      <3> QED BY <1>1, <3>1 DEF Inv
    <2> QED BY <2>1, <2>2
  <1>5. \A i \in 2..Len(s) : s[i].body
    BY <1>1 DEF Inv
  <1>6. opened' \in Nat /\ Cardinality(Opened(s)) <= opened'
    <2>1. /\ Len(s) = Len(r) + 1 /\ \A i \in 1..Len(r) : s[i + 1] = r[i]
          /\ Len(frames) = Len(r) + 1 /\ \A i \in 1..Len(r) : frames[i + 1] = r[i]
      BY <1>1, <1>3
    <2>2. Cardinality(Opened(s)) = Cardinality(Opened(r)) + (IF Opens(f) THEN 1 ELSE 0)
      BY <1>1, <1>3, <2>1, OpenedShift
    <2>3. Cardinality(Opened(frames)) = Cardinality(Opened(r)) + (IF Opens(Top) THEN 1 ELSE 0)
      BY <1>1, <1>3, <2>1, OpenedShift DEF Inv
    <2>4. Cardinality(Opened(r)) \in Nat /\ opened \in Nat /\ Cardinality(Opened(frames)) <= opened
      BY <1>3, OpenedFinite DEF Inv
    <2> QED BY <2>2, <2>3, <2>4
  <1>7. \A v \in Vars : Owned(frames, v) => Owned(s, v)
    <2> TAKE v \in Vars
    <2>1. ASSUME NEW i \in 1..Len(frames), Covers(frames[i], v) PROVE Owned(s, v)
      <3>1. i \in 1..Len(s) /\ Covers(s[i], v)
        <4>1. CASE i = 1
          BY <1>1, <2>1, <4>1
        <4>2. CASE i # 1
          <5>1. i \in 2..Len(frames)
            BY <1>1, <4>2
          <5> QED BY <1>1, <2>1, <5>1
        <4> QED BY <4>1, <4>2
      <3> QED BY <3>1 DEF Owned
    <2> QED BY <2>1 DEF Owned
  <1>8. \A v \in Vars : lvars'[v] = NoValue \/ Owned(s, v)
    <2> TAKE v \in Vars
    <2>1. Covers(f, v) => Owned(s, v)
      <3>1. 1 \in 1..Len(s)
        BY <1>1
      <3> QED BY <1>1, <3>1 DEF Owned
    <2>2. lvars[v] = NoValue \/ Owned(frames, v)
      BY DEF Inv
    <2> QED BY <1>7, <2>1, <2>2 DEF Owned
  <1>9. correct' \in BOOLEAN /\ crashed' \in BOOLEAN
    BY DEF Inv
  <1> QED BY <1>1, <1>2, <1>4, <1>5, <1>6, <1>8, <1>9, InvNext

LEMMA PopKeeps ==
    ASSUME Inv, frames # <<>>, frames' = Tail(frames), crashed' \in BOOLEAN, UNCHANGED <<abort, correct>>,
           opened' = opened \/ (Opens(Top) /\ opened' = opened - 1),
           DOMAIN lvars' = Vars,
           \A v \in Vars : lvars'[v] = IF Covers(Top, v) THEN NoValue ELSE lvars[v]
    PROVE  Inv'
  <1> DEFINE r == Tail(frames)
  <1>1. /\ Len(frames) \in Nat /\ Len(frames) # 0 /\ Top = frames[1]
        /\ IsSeq(r) /\ Len(r) = Len(frames) - 1
        /\ \A i \in 1..(Len(frames) - 1) : r[i] = frames[i + 1]
    BY SeqFacts DEF Inv, Top
  <1> HIDE DEF r
  <1>2. \A i \in 1..Len(r) : i + 1 \in 2..Len(frames) /\ i + 1 \in 1..Len(frames) /\ r[i] = frames[i + 1]
    BY <1>1
  <1>3. \A i \in 1..Len(r) : FrameOK(r[i]) /\ r[i].body
    BY <1>2 DEF Inv
  <1>4. \A i \in 2..Len(r) : r[i].body
    BY <1>1, <1>3
  <1>5. opened' \in Nat /\ Cardinality(Opened(r)) <= opened'
    <2>1. Cardinality(Opened(frames)) = Cardinality(Opened(r)) + (IF Opens(Top) THEN 1 ELSE 0)
      <3>1. Len(frames) = Len(r) + 1 /\ \A i \in 1..Len(r) : frames[i + 1] = r[i]
        BY <1>1
      <3> QED BY <1>1, <3>1, OpenedShift DEF Inv
    <2>2. Cardinality(Opened(r)) \in Nat /\ opened \in Nat /\ Cardinality(Opened(frames)) <= opened
      BY <1>1, OpenedFinite DEF Inv
    <2> QED BY <2>1, <2>2
  <1>6. \A v \in Vars : lvars'[v] = NoValue \/ Owned(r, v)
    <2> TAKE v \in Vars
    <2>1. CASE Covers(Top, v)
      BY <2>1
    <2>2. CASE ~Covers(Top, v)
      <3>1. ASSUME NEW i \in 1..Len(frames), Covers(frames[i], v) PROVE Owned(r, v)
        <4>1. i # 1
          BY <1>1, <2>2, <3>1
        <4>2. i - 1 \in 1..Len(r) /\ r[i - 1] = frames[i]
          <5>1. i - 1 \in 1..(Len(frames) - 1) /\ (i - 1) + 1 = i
            BY <1>1, <4>1
          <5> QED BY <1>1, <5>1
        <4> QED BY <3>1, <4>2 DEF Owned
      <3>2. lvars[v] = NoValue \/ Owned(frames, v)
        BY DEF Inv
      <3> QED BY <2>2, <3>1, <3>2 DEF Owned
    <2> QED BY <2>1, <2>2
  <1>7. abort' \in BOOLEAN /\ correct' \in BOOLEAN
    BY DEF Inv
  <1> QED BY <1>1, <1>3, <1>4, <1>5, <1>6, <1>7, InvNext DEF r

-----------------------------------------------------------------------------
(* Items: files, lines and characters *)

LEMMA NoItems == IsText(<<>>) /\ Range(<<>>) = {}
  BY DEF IsText, Range

LEMMA RestOf ==
    ASSUME NEW s, IsText(s), s # <<>>
    PROVE  IsText(Tail(s)) /\ Range(Tail(s)) \subseteq Range(s) /\ Head(s) \in Range(s)
  <1> DEFINE t == Tail(s)
  <1>1. s \in Seq(Range(s)) /\ Len(s) \in Nat /\ Len(s) # 0 /\ DOMAIN s = 1..Len(s)
    BY EmptySeq DEF IsText
  <1>2. /\ t \in Seq(Range(s)) /\ Len(t) = Len(s) - 1 /\ Head(s) \in Range(s)
        /\ \A i \in 1..Len(t) : t[i] = s[i + 1]
    BY <1>1, HeadTailProperties
  <1> HIDE DEF t
  <1>3. Range(t) \subseteq Range(s)
    <2>1. DOMAIN t = 1..Len(t)
      BY <1>2
    <2> QED BY <1>2, <2>1, ElementOfSeq DEF Range
  <1>4. t \in Seq(Range(t))
    <2>1. Len(t) \in Nat /\ DOMAIN t = 1..Len(t) /\ t = [i \in 1..Len(t) |-> t[i]]
      BY <1>1, <1>2
    <2>2. t \in [1..Len(t) -> Range(t)]
      BY <2>1 DEF Range
    <2> QED BY <2>1, <2>2, SeqDef
  <1> QED BY <1>2, <1>3, <1>4 DEF IsText, t

LEMMA FirstItem ==
    ASSUME NEW s, IsText(s), s # <<>>, \A t \in Range(s) : t = Missing \/ IsLines(t), Head(s) # Missing
    PROVE  IsLines(Head(s))
  BY RestOf

LEMMA FileListFacts ==
    ASSUME NEW s, IsText(s), \A t \in Range(s) : t = Missing \/ IsLines(t), ForInputParseFileList(s) # <<>>
    PROVE  LET l == ForInputParseFileList(s)
           IN  /\ s # <<>> /\ Head(l) = Head(s)
               /\ IsText(l) /\ \A t \in Range(l) : t = Missing \/ IsLines(t)
  <1> DEFINE n == Least(Len(s), MaxFiles)
             l == SubSeq(s, 1, n)
  <1>1. s \in Seq(Range(s)) /\ Len(s) \in Nat /\ MaxFiles \in Nat
    BY CommandsAssumption DEF IsText
  <1>2. n \in Nat /\ n <= Len(s)
    BY <1>1 DEF Least
  <1>3. l = ForInputParseFileList(s)
    BY DEF ForInputParseFileList
  <1> HIDE DEF n
  <1>4. /\ l \in Seq(Range(s)) /\ Len(l) = n /\ \A i \in 1..n : l[i] = s[i]
    <2>1. \A i \in 1..n : s[i] \in Range(s)
      BY <1>1, <1>2, ElementOfSeq
    <2>2. /\ l \in Seq(Range(s)) /\ Len(l) = (IF 1 <= n THEN n - 1 + 1 ELSE 0)
          /\ \A i \in 1..(n - 1 + 1) : l[i] = s[1 + i - 1]
      BY <1>2, <2>1, SubSeqProperties
    <2> QED BY <1>2, <2>2
  <1> HIDE DEF l
  <1>5. n # 0 /\ l # <<>>
    <2>1. Len(l) # 0
      BY <1>3, <1>4, EmptySeq
    <2> QED BY <1>3, <1>4, <2>1
  <1>6. s # <<>> /\ Head(l) = l[1] /\ Head(s) = s[1] /\ l[1] = s[1]
    <2>1. Len(s) # 0 /\ 1 \in 1..n
      BY <1>1, <1>2, <1>5
    <2>2. s # <<>>
      BY <2>1, EmptySeq
    <2> QED BY <1>1, <1>4, <1>5, <2>1, <2>2
  <1>7. IsText(l) /\ Range(l) \subseteq Range(s)
    <2>1. Len(l) \in Nat /\ DOMAIN l = 1..Len(l) /\ l = [i \in 1..Len(l) |-> l[i]]
      BY <1>2, <1>4
    <2>2. l \in [1..Len(l) -> Range(l)]
      BY <2>1 DEF Range
    <2>3. \A i \in 1..Len(l) : l[i] \in Range(s)
      BY <1>4, ElementOfSeq
    <2> QED BY <2>1, <2>2, <2>3, SeqDef DEF IsText, Range
  <1> QED BY <1>3, <1>6, <1>7

-----------------------------------------------------------------------------
(* The steps *)

\* A frame that takes its next item is the frame of the same loop.
LEMMA SameLoop ==
    ASSUME NEW f, FrameOK(f), NEW g, DOMAIN g = DOMAIN f, g.body \in BOOLEAN, g.kind = f.kind, g.var = f.var,
           f.kind = "F" => g.info = f.info /\ g.type = f.type /\ g.options = f.options, ItemsOK(g)
    PROVE  /\ FrameOK(g) /\ (Opens(g) <=> Opens(f))
           /\ \A v \in Vars : Covers(g, v) <=> Covers(f, v)
  <1>1. f.kind = "F" /\ MeansItsElements(f) => MeansItsElements(g)
    BY Zenon DEF MeansItsElements, TokenLists
  <1> QED BY <1>1 DEF FrameOK, LoopOK, Opens, Covers

LEMMA TopOK == ASSUME Inv, frames # <<>> PROVE FrameOK(Top)
  <1>1. Len(frames) \in Nat /\ Len(frames) # 0 /\ Top = frames[1]
    BY SeqFacts DEF Inv, Top
  <1> QED BY <1>1 DEF Inv

LEMMA InitInv == Init => Inv
  <1> SUFFICES ASSUME Init PROVE Inv
    OBVIOUS
  <1>1. IsSeq(frames) /\ Len(frames) = 0 /\ Opened(frames) = {}
    BY EmptySeq DEF Init, IsSeq, Opened
  <1>2. Cardinality(Opened(frames)) = 0
    BY <1>1, FS_EmptySet
  <1>3. DOMAIN lvars = Vars /\ \A v \in Vars : lvars[v] = NoValue
    BY DEF Init
  <1>4. /\ abort \in BOOLEAN /\ correct \in BOOLEAN /\ crashed \in BOOLEAN
        /\ opened = 0
    BY DEF Init
  <1> QED BY <1>1, <1>2, <1>3, <1>4 DEF Inv

LEMMA RefuseKeeps == ASSUME Inv, NEW s, Refuse(s) PROVE Inv'
  <1>1. IsSeq(frames) /\ frames' = frames /\ lvars' = lvars
    BY DEF Refuse, Inv
  <1> QED BY <1>1, InvNext DEF Refuse, Inv

\* A FORINFO and its first variable make a frame.
LEMMA NewFrameOK ==
    ASSUME NEW c, c.var \in Vars, NEW info, InfoOK(info), NEW f, 
           {"kind", "var", "body", "info", "type", "options"} \subseteq DOMAIN f,
           f.kind = "F", f.var = c.var, f.info = info, f.body = FALSE, MeansItsElements(f),
           \A v \in Vars : v < c.var + info.iTokenNb - NVars => v \in WrapsTo, LinesOK(f)
    PROVE  FrameOK(f)
  BY DEF FrameOK, LoopOK, ItemsOK, InfoOK

LEMMA StartFKeeps ==
    ASSUME Inv, NEW c, c.var \in Vars, NEW info, InfoOK(info), NEW back, frames = <<>> \/ Top.body,
           \A v \in Vars : v < c.var + info.iTokenNb - NVars => v \in WrapsTo,
           IsText(c.input), \A t \in Range(c.input) : t = Missing \/ IsLines(t),
           c.quote \in {"none", "single", "double", "back"},
           InputType(c.quote, info.usebackq) \in {"string", "command"} => c.input # <<>> /\ Head(c.input) # Missing,
           \A f : f.options = c.options /\ f.info = info => MeansItsElements(f), StartF(c, info, back)
    PROVE  Inv'
  <1> DEFINE type == InputType(c.quote, info.usebackq)
             files == ForInputParseFileList(c.input)
             f == [kind |-> "F", var |-> c.var, info |-> info, skip |-> info.skip, type |-> type,
                   lines |-> Head(c.input), files |-> IF type = "files" THEN Tail(files) ELSE <<>>,
                   options |-> c.options, body |-> FALSE]
  <1>1. CASE Refuse(back)
    BY <1>1, RefuseKeeps
  <1>2. CASE ~Refuse(back)
    <2>1. /\ Push(f)
          /\ opened' = IF type = "string" THEN opened ELSE opened + 1
          /\ UNCHANGED <<lvars, abort, status, correct, crashed>>
      BY <1>2, Zenon DEF StartF
    <2>2. /\ {"kind", "var", "body", "info", "type", "options"} \subseteq DOMAIN f
          /\ f.kind = "F" /\ f.var = c.var /\ f.info = info /\ f.body = FALSE /\ f.type = type
          /\ f.options = c.options /\ MeansItsElements(f)
      OBVIOUS
    <2>3. LinesOK(f)
      <3>0. type # "bad" /\ (type = "files" => files # <<>> /\ Head(files) # Missing)
        BY <1>2, Zenon DEF StartF
      <3>1. type \in {"string", "command", "files", "bad"}
        BY DEF InputType
      <3>2. /\ {"lines", "files"} \subseteq DOMAIN f /\ f.lines = Head(c.input)
            /\ f.files = IF type = "files" THEN Tail(files) ELSE <<>>
        OBVIOUS
      <3> HIDE DEF f
      <3>3. CASE type \in {"string", "command"}
        <4>1. IsLines(Head(c.input))
          BY <3>3, FirstItem
        <4> QED BY <3>2, <3>3, <4>1, NoItems DEF LinesOK
      <3>4. CASE type = "files"
        <4>1. /\ c.input # <<>> /\ Head(files) = Head(c.input)
              /\ IsText(files) /\ \A t \in Range(files) : t = Missing \/ IsLines(t)
          BY <3>0, <3>4, FileListFacts
        <4>2. IsLines(Head(c.input))
          BY <3>0, <3>4, <4>1, FirstItem
        <4>3. IsText(Tail(files)) /\ \A t \in Range(Tail(files)) : t \in Range(files)
          BY <3>0, <3>4, <4>1, RestOf
        <4> QED BY <3>2, <3>4, <4>1, <4>2, <4>3 DEF LinesOK
      <3> QED BY <3>0, <3>1, <3>3, <3>4
    <2> HIDE DEF f, type
    <2>4. FrameOK(f)
      BY <2>2, <2>3, NewFrameOK
    <2>5. opened' = opened + (IF Opens(f) THEN 1 ELSE 0)
      <3>1. opened + 0 = opened
        BY DEF Inv
      <3> QED BY <2>1, <2>2, <3>1 DEF Opens
    <2> QED BY <2>1, <2>4, <2>5, PushKeeps
  <1> QED BY <1>1, <1>2

LEMMA StartSimpleKeeps ==
    ASSUME Inv, NEW c, c.var \in Vars, frames = <<>> \/ Top.body, StartSimple(c)
    PROVE  Inv'
  <1> DEFINE f == [kind |-> "simple", var |-> c.var, items |-> c.input, files |-> <<>>, body |-> FALSE]
  <1>1. Push(f) /\ UNCHANGED <<lvars, abort, correct, opened, crashed>>
    BY DEF StartSimple
  <1>2. FrameOK(f) /\ ~Opens(f)
    BY DEF FrameOK, LoopOK, ItemsOK, Opens
  <1> HIDE DEF f
  <1>3. opened' = opened + (IF Opens(f) THEN 1 ELSE 0)
    BY <1>1, <1>2 DEF Inv
  <1> QED BY <1>1, <1>2, <1>3, PushKeeps

LEMMA StartLKeeps ==
    ASSUME Inv, NEW c, c.var \in Vars, frames = <<>> \/ Top.body, StartL(c),
           IsText(c.input), Range(c.input) \subseteq (IntMin..IntMax) \cup {Missing}
    PROVE  Inv'
  <1> DEFINE n(k) == IF k <= Len(c.input) THEN c.input[k] ELSE 0
             f == [kind |-> "L", var |-> c.var, begin |-> n(1), inc |-> n(2), end |-> n(3),
                   i |-> n(1), rounds |-> 0, body |-> FALSE]
  <1>1. CASE Refuse("bad input")
    BY <1>1, RefuseKeeps
  <1>2. CASE ~Refuse("bad input")
    <2>1. Push(f) /\ UNCHANGED <<lvars, abort, correct, opened, crashed>>
      BY <1>2 DEF StartL
    <2>2. FrameOK(f) /\ ~Opens(f)
      <3>1. n(1) \in IntMin..IntMax /\ n(2) \in IntMin..IntMax /\ n(3) \in IntMin..IntMax
        <4>1. \A i \in DOMAIN c.input : c.input[i] # Missing
          BY <1>2 DEF StartL
        <4>2. c.input \in Seq(Range(c.input)) /\ DOMAIN c.input = 1..Len(c.input)
          BY DEF IsText
        <4>3. \A i \in 1..Len(c.input) : c.input[i] \in IntMin..IntMax
          BY <4>1, <4>2, ElementOfSeq
        <4>4. 0 \in IntMin..IntMax /\ Len(c.input) \in Nat
          BY <4>2, CommandsAssumption
        <4> QED BY <4>3, <4>4
      <3> HIDE DEF n
      <3>2. /\ f.kind = "L" /\ f.var = c.var /\ f.body = FALSE /\ DOMAIN f = {"kind", "var", "begin", "inc", "end", "i", "rounds", "body"}
            /\ f.begin = n(1) /\ f.inc = n(2) /\ f.end = n(3) /\ f.i = n(1) /\ f.rounds = 0
        OBVIOUS
      <3> HIDE DEF f
      <3>3. n(1) \in Int /\ n(2) \in Int /\ n(1) = n(1) + 0 * n(2)
        BY <3>1, CommandsAssumption
      <3>4. CountOK(f)
        BY <3>1, <3>2, <3>3 DEF CountOK
      <3> QED BY <3>2, <3>4 DEF FrameOK, LoopOK, ItemsOK, Opens
    <2> HIDE DEF f
    <2>3. opened' = opened + (IF Opens(f) THEN 1 ELSE 0)
      BY <2>1, <2>2 DEF Inv
    <2> QED BY <2>1, <2>2, <2>3, PushKeeps
  <1> QED BY <1>1, <1>2

LEMMA KindOf ==
    ASSUME NEW c, CommandOK(c)
    PROVE  Kind(c) \in {"simple", "F", "L", "R", "D"}
  <1>1. CASE c.switches = <<>>
    BY <1>1 DEF Kind
  <1>2. CASE c.switches # <<>>
    <2>1. c.switches \in Seq({"F", "L", "R", "D"})
      BY DEF CommandOK
    <2>2. Len(c.switches) \in 1..Len(c.switches)
      BY <1>2, <2>1, EmptySeq
    <2>3. c.switches[Len(c.switches)] \in {"F", "L", "R", "D"}
      BY <2>1, <2>2, ElementOfSeq
    <2> QED BY <1>2, <2>3 DEF Kind, Last
  <1> QED BY <1>1, <1>2

LEMMA CmdForKeeps ==
    ASSUME Inv, NEW k \in DOMAIN Commands, CmdFor(Commands[k])
    PROVE  Inv'
  <1> DEFINE c == Commands[k]
             info == IF Kind(c) = "F" THEN ForMakeInfo(c.options) ELSE Default
             parsed == ParseStatus(c, info)
             d == [c EXCEPT !.quote = "single", !.options = <<>>]
  <1>1. CommandOK(c) /\ c.var \in Vars /\ NVars \in Nat
    BY CommandsAssumption DEF CommandOK
  <1>2. Kind(c) \in {"simple", "F", "L", "R", "D"}
    BY <1>1, KindOf
  <1>3. frames = <<>> \/ Top.body
    BY DEF CmdFor
  <1>4. /\ parsed # "ok" => Refuse(parsed)
        /\ parsed = "ok" =>
              /\ Kind(c) = "simple" => StartSimple(c)
              /\ Kind(c) = "L" => StartL(c)
              /\ Kind(c) = "F" => StartF(c, info, "bad input")
              /\ Kind(c) \in {"R", "D"} => StartF(d, Deprecated, "wrapper")
    BY Zenon, <1>2 DEF CmdFor
  <1>5. CASE parsed # "ok"
    BY <1>4, <1>5, RefuseKeeps
  <1>6. CASE parsed = "ok" /\ Kind(c) = "simple"
    BY <1>1, <1>3, <1>4, <1>6, StartSimpleKeeps
  <1>7. CASE parsed = "ok" /\ Kind(c) = "L"
    <2>1. IsText(c.input) /\ Range(c.input) \subseteq (IntMin..IntMax) \cup {Missing}
      BY <1>1, <1>7 DEF CommandOK
    <2> HIDE DEF parsed
    <2> QED BY <1>1, <1>3, <1>4, <1>7, <2>1, StartLKeeps
  <1>8. CASE parsed = "ok" /\ Kind(c) = "F"
    <2>1. info = ForMakeInfo(c.options) /\ InfoOK(info)
      <3>1. IsText(c.options) /\ \A o \in Range(c.options) : OptionOK(o)
        BY <1>1, <1>8 DEF CommandOK
      <3> QED BY <1>8, <3>1, ForMakeInfoOK
    <2>2. info.status = "ok"
      <3>1. info.status # "ok" => parsed # "ok"
        BY <1>8, Zenon DEF ParseStatus
      <3> QED BY <1>8, <3>1
    <2>3. \A v \in Vars : v < c.var + info.iTokenNb - NVars => v \in WrapsTo
      <3> HIDE DEF parsed
      <3> QED BY <1>8, <2>1, <2>2, Zenon DEF WrapsTo
    <2>4. /\ IsText(c.input) /\ c.quote \in {"none", "single", "double", "back"}
          /\ \A t \in Range(c.input) : t = Missing \/ IsLines(t)
          /\ InputType(c.quote, info.usebackq) \in {"string", "command"} => c.input # <<>> /\ Head(c.input) # Missing
      BY <1>1, <1>8, <2>1 DEF CommandOK, InputOK
    <2>6. \A f : f.options = c.options /\ f.info = info => MeansItsElements(f)
      <3>1. IsText(c.options) /\ \A o \in Range(c.options) : OptionOK(o)
        BY <1>1, <1>8 DEF CommandOK
      <3> HIDE DEF info, c, parsed
      <3> QED BY <2>1, <2>2, <3>1, ForMakeInfoMeans
    <2> HIDE DEF info, c, parsed
    <2>5. StartF(c, info, "bad input")
      BY <1>4, <1>8
    <2> QED BY <1>1, <1>3, <2>1, <2>3, <2>4, <2>5, <2>6, StartFKeeps
  <1>9. CASE parsed = "ok" /\ Kind(c) \in {"R", "D"}
    <2>1. d.var = c.var /\ d.input = c.input /\ d.quote = "single"
      BY <1>1 DEF CommandOK
    <2>2. InfoOK(Deprecated) /\ Deprecated.iTokenNb = 1
      BY DefaultOK
    <2>3. \A v \in Vars : ~(v < d.var + Deprecated.iTokenNb - NVars)
      BY <1>1, <2>1, <2>2 DEF Vars
    <2>4. StartF(d, Deprecated, "wrapper")
      BY <1>4, <1>9
    <2>5. /\ IsText(c.input) /\ \A t \in Range(c.input) : t = Missing \/ IsLines(t)
          /\ c.input # <<>> /\ Head(c.input) # Missing
      BY <1>1, <1>9 DEF CommandOK, InputOK
    <2>6. d.options = <<>>
      BY <1>1 DEF CommandOK
    <2> HIDE DEF d, c
    <2>7. \A f : f.options = d.options => MeansItsElements(f)
      BY <2>6 DEF MeansItsElements, TokenLists
    <2> QED BY <1>1, <1>3, <2>1, <2>2, <2>3, <2>4, <2>5, <2>7, StartFKeeps
  <1> QED BY <1>2, <1>5, <1>6, <1>7, <1>8, <1>9

\* The action of a loop that goes on: the inner frame changes, but not its loop.
LEMMA GoesOn ==
    ASSUME Inv, frames # <<>>, NEW g, Replace(g), DOMAIN g = DOMAIN Top, g.body \in BOOLEAN,
           g.kind = Top.kind, g.var = Top.var, Top.kind = "F" => g.info = Top.info /\ g.type = Top.type /\ g.options = Top.options, ItemsOK(g),
           opened' \in {opened, opened + 1}, abort' \in BOOLEAN, UNCHANGED <<correct, crashed>>,
           DOMAIN lvars' = Vars,
           \A v \in Vars : lvars'[v] = lvars[v] \/ v \in WrapsTo \/ Covers(Top, v)
    PROVE  Inv'
  <1>1. FrameOK(Top)
    BY TopOK
  <1>2. FrameOK(g) /\ (Opens(g) <=> Opens(Top)) /\ \A v \in Vars : Covers(g, v) <=> Covers(Top, v)
    BY <1>1, SameLoop
  <1> QED BY <1>2, ReplaceKeeps

\* Its body is no item.
LEMMA BodyKeepsItems ==
    ASSUME NEW g, {"kind", "var", "body"} \subseteq DOMAIN g, g.kind = "F" => {"info", "type", "options"} \subseteq DOMAIN g,
           ItemsOK(g), NEW b
    PROVE  LET h == [g EXCEPT !.body = b]
           IN  /\ DOMAIN h = DOMAIN g /\ h.body = b /\ h.kind = g.kind /\ h.var = g.var
               /\ g.kind = "F" => h.info = g.info /\ h.type = g.type /\ h.options = g.options /\ h.lines = g.lines
               /\ ItemsOK(h)
  <1> DEFINE h == [g EXCEPT !.body = b]
  <1>1. /\ DOMAIN h = DOMAIN g /\ h.body = b /\ h.kind = g.kind /\ h.var = g.var
        /\ g.kind = "F" => h.info = g.info /\ h.type = g.type /\ h.options = g.options
    OBVIOUS
  <1>2. CASE g.kind = "F"
    <2>1. h.lines = g.lines /\ h.files = g.files
      BY <1>2 DEF ItemsOK, LinesOK
    <2> HIDE DEF h
    <2> QED BY <1>1, <1>2, <2>1 DEF ItemsOK, LinesOK
  <1>3. CASE g.kind = "L"
    <2>1. h.begin = g.begin /\ h.inc = g.inc /\ h.end = g.end /\ h.i = g.i /\ h.rounds = g.rounds
      BY <1>3 DEF ItemsOK, CountOK
    <2> HIDE DEF h
    <2>2. Regular(h) <=> Regular(g)
      BY <1>1, <2>1 DEF Regular
    <2>3. CountOK(g) /\ DOMAIN h = DOMAIN g /\ h.kind = "L"
      BY <1>1, <1>3 DEF ItemsOK
    <2>4. CountOK(h)
      BY <2>1, <2>2, <2>3 DEF CountOK
    <2>5. ItemsOK(h)
      BY <2>3, <2>4 DEF ItemsOK
    <2> QED BY <1>1, <1>3, <2>5 DEF h
  <1>4. CASE g.kind \notin {"F", "L"}
    <2> HIDE DEF h
    <2> QED BY <1>1, <1>4 DEF ItemsOK
  <1> QED BY <1>1, <1>2, <1>3, <1>4 DEF ItemsOK, LinesOK

LEMMA RunParsedLineKeeps ==
    ASSUME Inv, NEW goto \in BOOLEAN, RunParsedLine(goto)
    PROVE  Inv'
  <1> DEFINE g == [Top EXCEPT !.body = FALSE]
  <1>1. frames # <<>> /\ Replace(g) /\ abort' = (abort \/ goto) /\ UNCHANGED <<lvars, correct, opened, crashed>>
    BY DEF RunParsedLine
  <1>2. FrameOK(Top)
    BY <1>1, TopOK
  <1>3. /\ DOMAIN g = DOMAIN Top /\ g.body = FALSE /\ g.kind = Top.kind /\ g.var = Top.var
        /\ Top.kind = "F" => g.info = Top.info /\ g.type = Top.type /\ g.options = Top.options
        /\ ItemsOK(g)
    BY <1>2, BodyKeepsItems DEF FrameOK, LoopOK
  <1> HIDE DEF g
  <1>4. abort' \in BOOLEAN /\ DOMAIN lvars' = Vars
    BY <1>1 DEF Inv
  <1> QED BY <1>1, <1>3, <1>4, GoesOn

LEMMA ClearKeeps == ASSUME Inv, Clear PROVE Inv'
  <1>1. IsSeq(frames) /\ frames' = frames /\ lvars' = lvars
    BY DEF Clear, Inv
  <1> QED BY <1>1, InvNext DEF Clear, Inv

\* A simple loop or /L gives its one variable the next value, or unsets it and ends.
LEMMA RunKeeps ==
    ASSUME Inv, frames # <<>>, Top.kind # "F", NEW text, lvars' = SetLocalVar(Top.var, text),
           NEW g, DOMAIN g = DOMAIN Top, g.kind = Top.kind, g.var = Top.var, ItemsOK(g), Run(g)
    PROVE  Inv'
  <1> DEFINE h == [g EXCEPT !.body = TRUE]
  <1>1. Replace(h) /\ UNCHANGED <<abort, correct, opened, crashed>>
    BY DEF Run
  <1>2. FrameOK(Top)
    BY TopOK
  <1>3. DOMAIN h = DOMAIN Top /\ h.body = TRUE /\ h.kind = Top.kind /\ h.var = Top.var /\ ItemsOK(h)
    BY <1>2, BodyKeepsItems DEF FrameOK, LoopOK
  <1> HIDE DEF h
  <1>4. /\ DOMAIN lvars' = Vars /\ abort' \in BOOLEAN
        /\ \A v \in Vars : lvars'[v] = lvars[v] \/ Covers(Top, v)
    BY <1>1 DEF Inv, SetLocalVar, Covers
  <1> QED BY <1>1, <1>3, <1>4, GoesOn

LEMMA LeaveKeeps ==
    ASSUME Inv, frames # <<>>, Top.kind # "F", Leave
    PROVE  Inv'
  <1>1. /\ frames' = Tail(frames) /\ UNCHANGED <<abort, correct, opened, crashed>>
        /\ lvars' = SetLocalVar(Top.var, NoValue)
    BY DEF Leave, Pop
  <1>2. /\ DOMAIN lvars' = Vars /\ crashed' \in BOOLEAN
        /\ \A v \in Vars : lvars'[v] = IF Covers(Top, v) THEN NoValue ELSE lvars[v]
    BY <1>1 DEF Inv, SetLocalVar, Covers
  <1> QED BY <1>1, <1>2, PopKeeps

LEMMA SimpleKeeps ==
    ASSUME Inv, SimpleFile \/ SimpleItem \/ SimplePattern \/ SimpleEnd
    PROVE  Inv'
  <1>1. frames # <<>> /\ Top.kind = "simple" /\ Top.kind # "F"
    BY DEF SimpleFile, SimpleItem, SimplePattern, SimpleEnd, Between
  <1>2. FrameOK(Top)
    BY <1>1, TopOK
  <1>3. CASE SimpleFile
    <2> DEFINE g == [Top EXCEPT !.files = Tail(@)]
    <2>1. Run(g) /\ lvars' = SetLocalVar(Top.var, Head(Top.files))
      BY <1>3 DEF SimpleFile
    <2>2. DOMAIN g = DOMAIN Top /\ g.kind = Top.kind /\ g.var = Top.var /\ ItemsOK(g)
      BY <1>1, <1>2 DEF FrameOK, LoopOK, ItemsOK
    <2> HIDE DEF g
    <2> QED BY <1>1, <2>1, <2>2, RunKeeps
  <1>4. CASE SimpleItem
    <2> DEFINE g == [Top EXCEPT !.items = Tail(@)]
    <2>1. Run(g) /\ lvars' = SetLocalVar(Top.var, Head(Top.items))
      BY <1>4 DEF SimpleItem
    <2>2. DOMAIN g = DOMAIN Top /\ g.kind = Top.kind /\ g.var = Top.var /\ ItemsOK(g)
      BY <1>1, <1>2 DEF FrameOK, LoopOK, ItemsOK
    <2> HIDE DEF g
    <2> QED BY <1>1, <2>1, <2>2, RunKeeps
  <1>5. CASE SimplePattern
    <2> DEFINE g == [Top EXCEPT !.items = Tail(@), !.files = FilesOf[Head(Top.items)]]
    <2>1. Replace(g) /\ UNCHANGED <<lvars, abort, correct, opened, crashed>>
      BY <1>5 DEF SimplePattern
    <2>2. /\ DOMAIN g = DOMAIN Top /\ g.kind = Top.kind /\ g.var = Top.var /\ g.body = Top.body /\ g.body \in BOOLEAN
          /\ ItemsOK(g)
      BY <1>1, <1>2 DEF FrameOK, LoopOK, ItemsOK
    <2> HIDE DEF g
    <2>3. abort' \in BOOLEAN /\ DOMAIN lvars' = Vars
      BY <2>1 DEF Inv
    <2> QED BY <1>1, <2>1, <2>2, <2>3, GoesOn
  <1>6. CASE SimpleEnd
    BY <1>1, <1>6, LeaveKeeps DEF SimpleEnd
  <1> QED BY <1>3, <1>4, <1>5, <1>6

LEMMA StepsGrow ==
    ASSUME NEW r \in Nat, NEW d \in Nat, d >= 1
    PROVE  r * d \in Nat /\ r * d >= r /\ (r + 1) * d = r * d + d
  BY DEF Nat

\* A round more: the number is one step further, and no sum of a regular loop wraps.
LEMMA CountGoesOn ==
    ASSUME NEW f, f.kind = "L", "kind" \in DOMAIN f, CountOK(f), f.i <= f.end, NEW next, NEW g,
           next = LET sum == f.i + f.inc
                  IN  IF sum > IntMax THEN sum - (IntMax - IntMin + 1)
                      ELSE IF sum < IntMin THEN sum + (IntMax - IntMin + 1) ELSE sum,
           g = [f EXCEPT !.i = next, !.rounds = IF @ > IntMax - IntMin THEN @ ELSE @ + 1]
    PROVE  CountOK(g)
  <1>1. /\ IntMin \in Int /\ IntMax \in Int
        /\ f.begin \in IntMin..IntMax /\ f.inc \in IntMin..IntMax /\ f.end \in IntMin..IntMax
        /\ f.i \in Int /\ f.rounds \in Nat /\ f.begin \in Int /\ f.inc \in Int /\ f.end \in Int
    BY CommandsAssumption DEF CountOK
  <1>2. /\ DOMAIN g = DOMAIN f /\ g.begin = f.begin /\ g.inc = f.inc /\ g.end = f.end /\ g.kind = f.kind
        /\ g.i = next /\ g.rounds = IF f.rounds > IntMax - IntMin THEN f.rounds ELSE f.rounds + 1
    BY DEF CountOK
  <1>3. next \in Int /\ g.rounds \in Nat
    BY <1>1, <1>2
  <1>4. ASSUME Regular(g) PROVE g.i = g.begin + g.rounds * g.inc /\ g.i - g.inc <= g.end
    <2>1. f.inc > 0 /\ f.end + f.inc <= IntMax
      BY <1>2, <1>4 DEF Regular
    <2>2. f.i = f.begin + f.rounds * f.inc
      BY <1>2, <1>4 DEF Regular, CountOK
    <2> DEFINE r == f.rounds
               d == f.inc
    <2>3. r \in Nat /\ d \in Nat /\ d >= 1
      BY <1>1, <2>1
    <2> HIDE DEF r, d
    <2>4. r * d \in Int /\ r * d >= r /\ (r + 1) * d = r * d + d
      BY <2>3, StepsGrow
    <2>5. f.i = f.begin + r * d
      BY <2>2 DEF r, d
    <2>6. r <= IntMax - IntMin
      BY <1>1, <2>4, <2>5, <2>3
    <2>7. g.rounds = r + 1
      BY <1>1, <1>2, <2>6, <2>3 DEF r
    <2>8. next = f.i + d
      BY <1>1, <2>1, <2>3, <2>4, <2>5 DEF d
    <2>9. g.i = g.begin + (r + 1) * d /\ g.i - d <= g.end
      BY <1>1, <1>2, <2>3, <2>4, <2>5, <2>8
    <2>10. g.inc = d
      BY <1>2 DEF d
    <2> QED BY <2>7, <2>9, <2>10
  <1> HIDE DEF CountOK
  <1>5. {"begin", "inc", "end", "i", "rounds"} \subseteq DOMAIN g
    BY <1>2 DEF CountOK
  <1> QED BY <1>1, <1>2, <1>3, <1>4, <1>5 DEF CountOK

LEMMA LKeeps ==
    ASSUME Inv, CmdForL \/ LEnd
    PROVE  Inv'
  <1>1. frames # <<>> /\ Top.kind = "L" /\ Top.kind # "F"
    BY DEF CmdForL, LEnd, Between
  <1>2. FrameOK(Top)
    BY <1>1, TopOK
  <1>3. CASE CmdForL
    <2> DEFINE sum == Top.i + Top.inc
               next == IF sum > IntMax THEN sum - (IntMax - IntMin + 1)
                       ELSE IF sum < IntMin THEN sum + (IntMax - IntMin + 1) ELSE sum
               g == [Top EXCEPT !.i = next, !.rounds = IF @ > IntMax - IntMin THEN @ ELSE @ + 1]
    <2>1. Run(g) /\ lvars' = SetLocalVar(Top.var, Printed(Top.i))
      BY <1>3, Zenon DEF CmdForL
    <2> HIDE DEF next
    <2>2. DOMAIN g = DOMAIN Top /\ g.kind = Top.kind /\ g.var = Top.var
      BY <1>2 DEF FrameOK, LoopOK
    <2>3. ItemsOK(g)
      <3>1. CountOK(Top) /\ Top.i <= Top.end
        BY <1>1, <1>2, <1>3 DEF FrameOK, ItemsOK, CmdForL
      <3>2. CountOK(g)
        BY <1>1, <1>2, <2>2, <3>1, CountGoesOn DEF next, sum, FrameOK, LoopOK
      <3> QED BY <1>1, <2>2, <3>2 DEF ItemsOK
    <2> HIDE DEF g
    <2> QED BY <1>1, <2>1, <2>2, <2>3, RunKeeps
  <1>4. CASE LEnd
    BY <1>1, <1>4, LeaveKeeps DEF LEnd
  <1> QED BY <1>3, <1>4

\* What /F gives to a variable is one of its own, or one that its list wraps around to.
LEMMA SplitOwns ==
    ASSUME NEW f, FrameOK(f), f.kind = "F", NEW line, NEW v \in Vars
    PROVE  \/ ForSplitTokens(line, f.info, f.var)[v] = lvars[v]
           \/ v \in WrapsTo \/ Covers(f, v)
  <1> DEFINE nb == f.info.iTokenNb
  <1>1. nb \in Nat /\ f.var \in Nat /\ NVars \in Nat /\ v \in Nat
    BY TokensAssumption, CommandsAssumption DEF FrameOK, LoopOK, Vars
  <1>2. CASE \E i \in 1..nb : Wrapped(f.var + i - 1) = v
    <2>1. PICK i \in 1..nb : Wrapped(f.var + i - 1) = v
      BY <1>2
    <2>2. CASE f.var + i - 1 > NVars
      <3>1. v = f.var + i - 1 - NVars
        BY <1>1, <2>1, <2>2 DEF Wrapped
      <3>2. v < f.var + nb - NVars
        BY <1>1, <3>1
      <3> QED BY <3>2 DEF FrameOK, LoopOK
    <2>3. CASE ~(f.var + i - 1 > NVars)
      <3>1. v = f.var + i - 1
        BY <1>1, <2>1, <2>3 DEF Wrapped
      <3>2. v \in f.var..(f.var + nb - 1)
        BY <1>1, <3>1
      <3> QED BY <3>2 DEF Covers
    <2> QED BY <2>2, <2>3
  <1>3. CASE ~ \E i \in 1..nb : Wrapped(f.var + i - 1) = v
    BY <1>3 DEF ForSplitTokens
  <1> QED BY <1>2, <1>3

\* /F goes on with the rest of its lines, or with the lines of the next file.
LEMMA OneLineLess ==
    ASSUME NEW f, LinesOK(f), f.lines # <<>>, NEW g, DOMAIN g = DOMAIN f, g.lines = Tail(f.lines), g.files = f.files
    PROVE  LinesOK(g)
  BY RestOf DEF LinesOK, IsLines

LEMMA NextFile ==
    ASSUME NEW f, LinesOK(f), f.files # <<>>, Head(f.files) # Missing,
           NEW g, DOMAIN g = DOMAIN f, g.lines = Head(f.files), g.files = Tail(f.files)
    PROVE  LinesOK(g)
  BY RestOf DEF LinesOK

LEMMA FKeeps ==
    ASSUME Inv, FLine \/ FDrop \/ FNextFile \/ FEnd
    PROVE  Inv'
  <1>1. frames # <<>> /\ Top.kind = "F"
    BY DEF FLine, FDrop, FNextFile, FEnd, ReadsLine, Between
  <1>2. FrameOK(Top)
    BY <1>1, TopOK
  <1>3. CASE FLine
    <2> DEFINE g == [Top EXCEPT !.lines = Tail(@)]
               h == [g EXCEPT !.body = TRUE]
    <2>1. /\ Replace(h) /\ UNCHANGED <<abort, correct, opened, crashed>>
          /\ lvars' = ForSplitTokens(Head(Top.lines), Top.info, Top.var)
      BY <1>3 DEF FLine, Run
    <2>0. /\ DOMAIN g = DOMAIN Top /\ g.kind = "F" /\ g.var = Top.var /\ g.info = Top.info /\ g.type = Top.type /\ g.options = Top.options
          /\ ItemsOK(g)
      <3>1. DOMAIN g = DOMAIN Top /\ g.kind = "F" /\ g.var = Top.var /\ g.info = Top.info /\ g.type = Top.type /\ g.options = Top.options
        BY <1>1, <1>2 DEF FrameOK, LoopOK
      <3>2. LinesOK(Top) /\ Top.lines # <<>>
        BY <1>1, <1>2, <1>3 DEF FrameOK, ItemsOK, FLine, ReadsLine
      <3>3. g.lines = Tail(Top.lines) /\ g.files = Top.files
        BY <3>2 DEF LinesOK
      <3> HIDE DEF g
      <3> QED BY <3>1, <3>2, <3>3, OneLineLess DEF ItemsOK
    <2>2. /\ DOMAIN h = DOMAIN Top /\ h.body = TRUE /\ h.kind = Top.kind /\ h.var = Top.var
          /\ h.info = Top.info /\ h.type = Top.type /\ h.options = Top.options /\ ItemsOK(h)
      <3> HIDE DEF g
      <3> QED BY <1>1, <1>2, <2>0, BodyKeepsItems DEF FrameOK, LoopOK
    <2> HIDE DEF g, h
    <2>3. abort' \in BOOLEAN /\ DOMAIN lvars' = Vars
      BY <2>1 DEF Inv, ForSplitTokens
    <2>4. \A v \in Vars : lvars'[v] = lvars[v] \/ v \in WrapsTo \/ Covers(Top, v)
      BY <1>1, <1>2, <2>1, SplitOwns
    <2> QED BY <1>1, <2>1, <2>2, <2>3, <2>4, GoesOn
  <1>4. CASE FDrop
    <2> DEFINE g == [Top EXCEPT !.lines = Tail(@),
                                !.skip = IF @ > 0 /\ ~(correct /\ Blank(Head(Top.lines))) THEN @ - 1 ELSE @]
    <2>1. Replace(g) /\ UNCHANGED <<lvars, abort, correct, opened, crashed>>
      BY <1>4, Zenon DEF FDrop
    <2>2. /\ DOMAIN g = DOMAIN Top /\ g.body \in BOOLEAN /\ g.kind = Top.kind /\ g.var = Top.var
          /\ g.info = Top.info /\ g.type = Top.type /\ g.options = Top.options
      BY <1>1, <1>2 DEF FrameOK, LoopOK
    <2>4. ItemsOK(g)
      <3>2. LinesOK(Top) /\ Top.lines # <<>>
        BY <1>1, <1>2, <1>4 DEF FrameOK, ItemsOK, FDrop, ReadsLine
      <3>3. g.lines = Tail(Top.lines) /\ g.files = Top.files
        BY <3>2 DEF LinesOK
      <3> HIDE DEF g
      <3> QED BY <1>1, <2>2, <3>2, <3>3, OneLineLess DEF ItemsOK
    <2> HIDE DEF g
    <2>3. abort' \in BOOLEAN /\ DOMAIN lvars' = Vars
      BY <2>1 DEF Inv
    <2> QED BY <1>1, <2>1, <2>2, <2>3, <2>4, GoesOn
  <1>5. CASE FNextFile
    <2> DEFINE g == [Top EXCEPT !.lines = Head(Top.files), !.files = Tail(@)]
    <2>1. Replace(g) /\ UNCHANGED <<lvars, abort, correct, crashed>> /\ opened' = opened + 1
      BY <1>5 DEF FNextFile
    <2>2. /\ DOMAIN g = DOMAIN Top /\ g.body \in BOOLEAN /\ g.kind = Top.kind /\ g.var = Top.var
          /\ g.info = Top.info /\ g.type = Top.type /\ g.options = Top.options
      BY <1>1, <1>2 DEF FrameOK, LoopOK
    <2>4. ItemsOK(g)
      <3>2. LinesOK(Top) /\ Top.files # <<>> /\ Head(Top.files) # Missing
        BY <1>1, <1>2, <1>5 DEF FrameOK, ItemsOK, FNextFile
      <3>3. g.lines = Head(Top.files) /\ g.files = Tail(Top.files)
        BY <3>2 DEF LinesOK
      <3> HIDE DEF g
      <3> QED BY <1>1, <2>2, <3>2, <3>3, NextFile DEF ItemsOK
    <2> HIDE DEF g
    <2>3. abort' \in BOOLEAN /\ DOMAIN lvars' = Vars
      BY <2>1 DEF Inv
    <2> QED BY <1>1, <2>1, <2>2, <2>3, <2>4, GoesOn
  <1>6. CASE FEnd
    <2> DEFINE fails == ~abort /\ Top.lines = <<>> /\ Top.files # <<>> /\ Head(Top.files) = Missing
    <2>1. /\ crashed' = fails
          /\ opened' = IF fails \/ Top.type = "string" THEN opened ELSE opened - 1
          /\ lvars' = ForVarUnassign(Top.info, Top.var)
          /\ frames' = Tail(frames) /\ UNCHANGED <<abort, correct>>
      BY <1>6 DEF FEnd, Pop
    <2>2. opened' = opened \/ (Opens(Top) /\ opened' = opened - 1)
      BY <1>1, <2>1 DEF Opens
    <2>3. crashed' \in BOOLEAN
      BY <2>1
    <2>4. /\ DOMAIN lvars' = Vars
          /\ \A v \in Vars : lvars'[v] = IF Covers(Top, v) THEN NoValue ELSE lvars[v]
      BY <1>1, <2>1 DEF ForVarUnassign, Covers
    <2> QED BY <1>1, <2>1, <2>2, <2>3, <2>4, PopKeeps
  <1> QED BY <1>3, <1>4, <1>5, <1>6

LEMMA NextInv == ASSUME Inv, [Next]_vars PROVE Inv'
  <1>1. ASSUME NEW k \in DOMAIN Commands, CmdFor(Commands[k]) PROVE Inv'
    BY <1>1, CmdForKeeps
  <1>2. ASSUME NEW goto \in BOOLEAN, RunParsedLine(goto) PROVE Inv'
    BY <1>2, RunParsedLineKeeps
  <1>3. CASE Clear
    BY <1>3, ClearKeeps
  <1>4. CASE SimpleFile \/ SimpleItem \/ SimplePattern \/ SimpleEnd
    BY <1>4, SimpleKeeps
  <1>5. CASE CmdForL \/ LEnd
    BY <1>5, LKeeps
  <1>6. CASE FLine \/ FDrop \/ FNextFile \/ FEnd
    BY <1>6, FKeeps
  <1>7. CASE UNCHANGED vars
    <2>1. IsSeq(frames) /\ frames' = frames /\ lvars' = lvars
      BY <1>7 DEF vars, Inv
    <2> QED BY <1>7, <2>1, InvNext DEF vars, Inv
  <1> QED BY <1>1, <1>2, <1>3, <1>4, <1>5, <1>6, <1>7 DEF Next

LEMMA InvFacts == Inv => NothingLeft
  <1> SUFFICES ASSUME Inv PROVE NothingLeft
    OBVIOUS
  <1>1. Len(frames) \in Nat /\ DOMAIN frames = 1..Len(frames)
    BY DEF Inv, IsSeq
  <1>2. TypeOK
    <2>1. \A i \in DOMAIN frames : [kind |-> frames[i].kind, var |-> frames[i].var, body |-> frames[i].body] \in Frame
      BY <1>1 DEF Inv, FrameOK, LoopOK, Frame
    <2>2. \A i \in DOMAIN frames : frames[i].kind = "F" => frames[i].info.iTokenNb \in 0..MaxTokens
      BY <1>1 DEF Inv, FrameOK, LoopOK
    <2>3. {abort, correct, crashed} \subseteq BOOLEAN /\ opened \in Nat
      BY DEF Inv
    <2> QED BY <2>1, <2>2, <2>3 DEF TypeOK, Inv
  <1>3. ASSUME frames = <<>>, NEW v \in Vars PROVE lvars[v] = NoValue \/ v \in WrapsTo
    <2>1. Len(frames) = 0
      BY <1>3
    <2> QED BY <2>1 DEF Inv, Owned
  <1> QED BY <1>2, <1>3 DEF NothingLeft

-----------------------------------------------------------------------------
(* However FOR loops run in the body of each other, whatever their variables, token lists and inputs
   are, and however they end: when none of them runs no loop variable has a value, but for those a
   token list wrapped around to; a token list never has more entries than a FORINFO has room for, and
   no loop closes an input that it did not open. *)
THEOREM NothingLeftHolds == Spec => []NothingLeft
  <1>1. Init => Inv
    BY InitInv
  <1>2. Inv /\ [Next]_vars => Inv'
    BY NextInv
  <1>3. Inv => NothingLeft
    BY InvFacts
  <1> QED BY <1>1, <1>2, <1>3, PTL DEF Spec

-----------------------------------------------------------------------------
(* /L: the rounds it has counted are its numbers, one by one, and those below the one of a round are the
   rounds before it. *)

LEMMA MoreSteps ==
    ASSUME NEW a \in Nat, NEW b \in Nat, NEW d \in Nat, a <= b
    PROVE  a * d \in Nat /\ b * d \in Nat /\ a * d <= b * d /\ (a < b => a * d + d <= b * d)
  <1>1. (b - a) \in Nat /\ (a < b => (b - (a + 1)) \in Nat)
    OBVIOUS
  <1>2. (b - a) * d >= 0 /\ (a < b => (b - (a + 1)) * d >= 0)
    BY <1>1
  <1>3. (b - a) * d = b * d - a * d /\ (b - (a + 1)) * d = b * d - (a * d + d)
    OBVIOUS
  <1>4. a * d \in Nat /\ b * d \in Nat
    OBVIOUS
  <1> QED BY <1>2, <1>3, <1>4

LEMMA WholeSteps ==
    ASSUME NEW d \in Nat \ {0}
    PROVE  /\ \A q \in Nat : (q * d) % d = 0
           /\ \A m \in Nat : m % d = 0 => m \div d \in Nat /\ m = (m \div d) * d
  <1>1. ASSUME NEW q \in Nat PROVE (q * d) % d = 0
    <2>1. \A j \in 0..d - 1 : (q * d + j) % d = j
      OBVIOUS
    <2>2. 0 \in 0..d - 1 /\ q * d + 0 = q * d
      OBVIOUS
    <2> QED BY <2>1, <2>2
  <1>2. ASSUME NEW m \in Nat, m % d = 0 PROVE m \div d \in Nat /\ m = (m \div d) * d
    <2>1. m \div d \in Nat /\ m % d \in 0..d - 1 /\ m = (m \div d) * d + (m % d)
      OBVIOUS
    <2>2. (m \div d) * d \in Nat
      BY <2>1
    <2> QED BY <1>2, <2>1, <2>2
  <1> QED BY <1>1, <1>2

\* The numbers from b in steps of d up to e, when r steps lead behind e and r - 1 do not.
LEMMA CountedUpTo ==
    ASSUME NEW b \in Int, NEW d \in Nat \ {0}, NEW r \in Nat, NEW e \in Int, b >= IntMin, e <= IntMax,
           r = 0 \/ b + r * d - d <= e, b + r * d > e
    PROVE  r = Cardinality({n \in IntMin..IntMax : n <= e /\ n >= b /\ (n - b) % d = 0})
  <1>1. IntMin \in Int /\ IntMax \in Int
    BY CommandsAssumption
  <1> DEFINE N == {n \in IntMin..IntMax : n <= e /\ n >= b /\ (n - b) % d = 0}
             g == [k \in 1..r |-> b + (k - 1) * d]
  <1>2. N = {n \in IntMin..IntMax : n <= e /\ n >= b /\ (n - b) % d = 0}
    OBVIOUS
  <1> HIDE DEF N
  <1>3. ASSUME NEW k \in 1..r PROVE b + (k - 1) * d \in N
    <2>1. k - 1 \in Nat /\ r - 1 \in Nat /\ k - 1 <= r - 1 /\ r - 1 < r
      BY <1>1
    <2>2. (k - 1) * d \in Nat /\ (r - 1) * d \in Nat /\ (k - 1) * d <= (r - 1) * d /\ (r - 1) * d + d <= r * d /\ r * d \in Nat
      BY <1>1, <2>1, MoreSteps
    <2> DEFINE q == (k - 1) * d
    <2>3. q % d = 0
      BY <1>1, <2>1, WholeSteps
    <2> HIDE DEF q
    <2>4. q \in Nat /\ b + q <= e
      BY <1>1, <2>1, <2>2 DEF q
    <2>5. (b + q) - b = q
      BY <1>1, <2>4
    <2>6. b + q \in IntMin..IntMax /\ b + q >= b
      BY <1>1, <2>4
    <2> QED BY <1>2, <2>3, <2>4, <2>5, <2>6 DEF N, q
  <1>4. ASSUME NEW n \in N PROVE \E k \in 1..r : b + (k - 1) * d = n
    <2>1. n \in Int /\ n <= e /\ n >= b /\ (n - b) % d = 0 /\ n - b \in Nat
      BY <1>1, <1>2 DEF N
    <2> DEFINE q == (n - b) \div d
    <2>2. q \in Nat /\ n - b = q * d
      BY <1>1, <2>1, WholeSteps
    <2> HIDE DEF q
    <2>3. q < r
      <3>1. SUFFICES ASSUME r <= q PROVE FALSE
        BY <1>1, <2>2
      <3>2. r * d <= q * d /\ r * d \in Nat /\ q * d \in Nat
        BY <1>1, <2>2, <3>1, MoreSteps
      <3> QED BY <1>1, <2>1, <2>2, <3>2
    <2>4. q + 1 \in 1..r /\ (q + 1) - 1 = q
      BY <1>1, <2>2, <2>3
    <2>5. b + ((q + 1) - 1) * d = n
      BY <1>1, <2>1, <2>2, <2>4
    <2> QED BY <2>4, <2>5
  <1>5. ASSUME NEW j \in 1..r, NEW k \in 1..r, b + (j - 1) * d = b + (k - 1) * d PROVE j = k
    <2>1. j - 1 \in Nat /\ k - 1 \in Nat /\ (j - 1) * d \in Nat /\ (k - 1) * d \in Nat
      BY <1>1
    <2>2. (j - 1) * d = (k - 1) * d
      BY <1>1, <1>5, <2>1
    <2>3. CASE j < k
      <3>1. (j - 1) * d + d <= (k - 1) * d
        BY <1>1, <2>1, <2>3, MoreSteps
      <3> QED BY <1>1, <2>1, <2>2, <3>1
    <2>4. CASE k < j
      <3>1. (k - 1) * d + d <= (j - 1) * d
        BY <1>1, <2>1, <2>4, MoreSteps
      <3> QED BY <1>1, <2>1, <2>2, <3>1
    <2> QED BY <1>1, <2>3, <2>4
  <1>6. g \in Bijection(1..r, N)
    <2>1. g \in [1..r -> N]
      BY <1>3
    <2>2. \A j, k \in 1..r : g[j] = g[k] => j = k
      BY <1>5
    <2>3. \A n \in N : \E k \in 1..r : g[k] = n
      BY <1>4
    <2> HIDE DEF g
    <2> QED BY <2>1, <2>2, <2>3, Fun_IsBij
  <1>7. Cardinality(N) = r
    BY <1>1, <1>6, FS_CountingElements DEF ExistsBijection
  <1> QED BY <1>7 DEF N

LEMMA CountedNumbers ==
    ASSUME NEW f, CountOK(f), Regular(f), f.i > f.end
    PROVE  f.rounds = Cardinality(Numbers(f))
  <1>1. /\ f.begin \in Int /\ f.end \in Int /\ f.inc \in Nat \ {0} /\ f.rounds \in Nat
        /\ f.begin >= IntMin /\ f.end <= IntMax
        /\ f.i = f.begin + f.rounds * f.inc /\ (f.rounds = 0 \/ f.i - f.inc <= f.end)
    BY CommandsAssumption DEF CountOK, Regular
  <1> QED BY <1>1, CountedUpTo DEF Numbers

\* The number of a round: those below it are as many as the rounds before.
LEMMA NumberOfRound ==
    ASSUME NEW f, CountOK(f), Regular(f), f.i <= f.end
    PROVE  f.i \in Numbers(f) /\ f.rounds = Cardinality({m \in Numbers(f) : m < f.i})
  <1> DEFINE b == f.begin
             d == f.inc
             r == f.rounds
             e == f.i - 1
             Below == {n \in IntMin..IntMax : n <= e /\ n >= b /\ (n - b) % d = 0}
  <1>1. /\ IntMin \in Int /\ IntMax \in Int /\ b \in Int /\ f.end \in Int /\ d \in Nat \ {0} /\ r \in Nat
        /\ b >= IntMin /\ f.end <= IntMax /\ f.i \in Int
        /\ f.i = b + r * d
    BY CommandsAssumption DEF CountOK, Regular
  <1>2. Numbers(f) = {n \in IntMin..IntMax : n <= f.end /\ n >= b /\ (n - b) % d = 0}
    BY DEF Numbers
  <1> HIDE DEF b, d, r
  <1>3. r * d \in Nat /\ (r * d) % d = 0
    BY <1>1, WholeSteps
  <1>4. f.i \in IntMin..IntMax /\ f.i >= b /\ f.i - b = r * d
    BY <1>1, <1>3
  <1>5. f.i \in Numbers(f)
    BY <1>2, <1>3, <1>4
  <1>6. e \in Int /\ e <= IntMax /\ b + r * d - d <= e /\ b + r * d > e
    BY <1>1, <1>3, <1>4
  <1>7. {m \in Numbers(f) : m < f.i} = Below
    <2>1. ASSUME NEW m \in IntMin..IntMax PROVE m < f.i <=> m <= e
      BY <1>1
    <2>2. ASSUME NEW m \in IntMin..IntMax, m <= e PROVE m <= f.end
      BY <1>1, <2>2
    <2> HIDE DEF e
    <2> QED BY <1>2, <2>1, <2>2
  <1>8. r = Cardinality(Below)
    <2> HIDE DEF e
    <2> QED BY <1>1, <1>6, CountedUpTo
  <1> QED BY <1>5, <1>7, <1>8 DEF r

LEMMA GivesNumberHolds == Inv /\ [Next]_vars => [GivesNumber]_vars
  <1> SUFFICES ASSUME Inv, CmdForL, Regular(Top)
               PROVE  \E n \in Numbers(Top) : /\ lvars'[Top.var] = Printed(n)
                                               /\ Top.rounds = Cardinality({m \in Numbers(Top) : m < n})
    BY DEF GivesNumber
  <1>1. frames # <<>> /\ Top.kind = "L" /\ Top.i <= Top.end /\ lvars' = SetLocalVar(Top.var, Printed(Top.i))
    BY DEF CmdForL, Between
  <1>2. CountOK(Top) /\ Top.var \in Vars
    BY <1>1, TopOK DEF FrameOK, ItemsOK, LoopOK
  <1>3. lvars'[Top.var] = Printed(Top.i)
    BY <1>1, <1>2 DEF Inv, SetLocalVar
  <1> QED BY <1>1, <1>2, <1>3, NumberOfRound

LEMMA HasCountedHolds == Inv /\ [Next]_vars => [HasCounted]_vars
  <1> SUFFICES ASSUME Inv, LEnd, ~abort, Regular(Top) PROVE Top.rounds = Cardinality(Numbers(Top))
    BY DEF HasCounted
  <1>1. frames # <<>> /\ Top.kind = "L" /\ Top.i > Top.end
    BY DEF LEnd, Between
  <1>2. CountOK(Top)
    BY <1>1, TopOK DEF FrameOK, ItemsOK
  <1> QED BY <1>1, <1>2, CountedNumbers

-----------------------------------------------------------------------------
(* /F: what a variable is given is the words of the line that its entry names. *)

LEMMA LeastExists ==
    ASSUME NEW S \in SUBSET Nat, S # {}
    PROVE  Min(S) \in S /\ \A m \in S : Min(S) <= m
  <1>0. IsWellFoundedOn(Less, Nat)
    BY NatLessThanWellFounded, Zenon DEF OpToRel, Less
  <1>1. PICK n \in S : \A m \in S : <<m, n>> \notin Less
    BY <1>0, WFMin, Zenon
  <1>2. \A m \in S : n <= m
    <2> TAKE m \in S
    <2>1. m \in Nat /\ n \in Nat /\ <<m, n>> \notin Less
      BY <1>1
    <2>2. ~(m < n)
      BY <2>1 DEF Less
    <2> QED BY <2>1, <2>2
  <1>3. \E least \in S : \A m \in S : least <= m
    BY <1>2
  <1> QED BY <1>3 DEF Min

LEMMA EndOfFacts ==
    ASSUME NEW line, Len(line) \in Nat, NEW delims, NEW p \in Nat
    PROVE  LET q == EndOf(line, delims, p)
           IN  /\ q \in Int /\ q <= Len(line)
               /\ p - 1 <= Len(line) => p - 1 <= q
               /\ \A j \in p..q : line[j] \notin delims
               /\ q + 1 <= Len(line) => line[q + 1] \in delims
  <1> DEFINE after == {j \in p..Len(line) : line[j] \in delims}
             q == EndOf(line, delims, p)
  <1>1. q = IF after = {} THEN Len(line) ELSE Min(after) - 1
    BY Zenon DEF EndOf
  <1>2. after \in SUBSET Nat /\ \A j \in p..Len(line) : line[j] \in delims => j \in after
    OBVIOUS
  <1>3. \A j \in after : j \in p..Len(line) /\ line[j] \in delims
    OBVIOUS
  <1> HIDE DEF after, q
  <1>4. CASE after = {}
    BY <1>1, <1>2, <1>4 DEF q
  <1>5. CASE after # {}
    <2>1. Min(after) \in after /\ \A m \in after : Min(after) <= m
      BY <1>2, <1>5, LeastExists
    <2>2. Min(after) \in p..Len(line)
      BY <1>3, <2>1
    <2>3. ASSUME NEW j \in p..q PROVE line[j] \notin delims
      <3>1. j < Min(after) /\ j \in p..Len(line)
        BY <1>1, <1>5, <2>2
      <3> QED BY <1>2, <2>1, <2>2, <3>1
    <2>4. q = Min(after) - 1 /\ line[Min(after)] \in delims
      BY <1>1, <1>3, <1>5, <2>1
    <2>5. q + 1 = Min(after)
      BY <2>2, <2>4
    <2> QED BY <1>1, <1>5, <2>2, <2>3, <2>4, <2>5 DEF q
  <1> QED BY <1>4, <1>5

\* A word is a start of ForGetToken, and the other way round, but for the empty one at the end.
LEMMA WordIsStart ==
    ASSUME NEW line, IsText(line), NEW d
    PROVE  /\ Len(line) \in Nat /\ DOMAIN line = 1..Len(line)
           /\ Words(line, d) = WordStarts(line, d) \ {Len(line) + 1}
           /\ WordStarts(line, d) \subseteq 1..(Len(line) + 1)
           /\ \A i \in Words(line, d) : line[i] \notin d
  <1>1. line \in Seq(Range(line)) /\ Len(line) \in Nat /\ DOMAIN line = 1..Len(line)
    BY DEF IsText
  <1> QED BY <1>1 DEF Words, WordStarts

\* The n-th start is the n-th word; the empty one at the end only when there is no n-th word.
LEMMA NthStart ==
    ASSUME NEW line, IsText(line), NEW d, NEW n, NEW i, i \in WordStarts(line, d), IsNth(i, n, WordStarts(line, d))
    PROVE  IF NthWord(line, d, n) = {} THEN i = Len(line) + 1 ELSE i \in NthWord(line, d, n)
  <1> DEFINE S == WordStarts(line, d)
             W == Words(line, d)
             len == Len(line)
             InFront(A, j) == {k \in A : k < j}
  <1>1. len \in Nat /\ W = S \ {len + 1} /\ S \subseteq 1..(len + 1) /\ W \subseteq 1..len
    BY WordIsStart
  <1>2. i \in S /\ Cardinality(InFront(S, i)) = n - 1
    BY DEF IsNth
  <1>3. NthWord(line, d, n) = {j \in W : Cardinality(InFront(W, j)) = n - 1}
    BY DEF NthWord
  <1>4. ASSUME NEW j \in S PROVE InFront(S, j) = InFront(W, j)
    BY <1>1
  <1> HIDE DEF S, W, len
  <1>5. CASE i # len + 1
    <2>1. i \in W /\ Cardinality(InFront(W, i)) = n - 1
      BY <1>1, <1>2, <1>4, <1>5
    <2> QED BY <1>3, <2>1
  <1>6. ASSUME i = len + 1, NEW j \in NthWord(line, d, n) PROVE FALSE
    <2>1. j \in W /\ Cardinality(InFront(W, j)) = n - 1 /\ j \in 1..len
      BY <1>1, <1>3, <1>6
    <2>2. InFront(W, i) = W
      <3>1. ASSUME NEW k \in W PROVE k < i
        BY <1>1, <1>6, <3>1
      <3> QED BY <3>1
    <2>5. Cardinality(W) = n - 1
      BY <1>2, <1>4, <2>2
    <2>3. InFront(W, j) \subseteq W /\ InFront(W, j) # W
      BY <1>1, <2>1
    <2>4. IsFiniteSet(W)
      <3>1. IsFiniteSet(1..len)
        BY <1>1, FS_Interval
      <3> QED BY <1>1, <3>1, FS_Subset
    <2> QED BY <2>1, <2>3, <2>4, <2>5, FS_Subset
  <1> QED BY <1>5, <1>6 DEF len

\* Whatever the entry, if it does not end before it begins
LEMMA TokenIsListed ==
    ASSUME NEW line, IsText(line), NEW d, NEW entry, entry[1] \in 0..entry[2],
           NEW text, text = ForGetToken(line, d, entry)
    PROVE  IsListed(text, line, d, entry)
  <1> DEFINE S == WordStarts(line, d)
             b == {i \in S : IsNth(i, entry[1], S)}
             e == {i \in S : IsNth(i, entry[2], S)}
             p == CHOOSE i \in b : TRUE
             o == CHOOSE i \in e : TRUE
             q == IF e = {} THEN Len(line) ELSE EndOf(line, d, o)
             len == Len(line)
  <1>1. len \in Nat /\ Words(line, d) = S \ {len + 1} /\ S \subseteq 1..(len + 1) /\ \A i \in Words(line, d) : line[i] \notin d
    BY WordIsStart
  <1>2. text = IF b = {} \/ entry[2] \in 1..(entry[1] - 1) THEN <<>> ELSE SubSeq(line, p, q)
    BY Zenon DEF ForGetToken
  <1>3. entry[2] \notin 1..(entry[1] - 1)
    OBVIOUS
  <1>4. ASSUME NEW n PROVE \A i \in {j \in S : IsNth(j, n, S)} :
                                IF NthWord(line, d, n) = {} THEN i = len + 1 ELSE i \in NthWord(line, d, n)
    BY NthStart
  <1>5. ASSUME NEW n, NthWord(line, d, n) # {} PROVE {j \in S : IsNth(j, n, S)} # {}
    <2>1. PICK i \in NthWord(line, d, n) : TRUE
      BY <1>5
    <2>2. i \in Words(line, d) /\ i \in S /\ Cardinality({j \in Words(line, d) : j < i}) = n - 1
      BY <1>1, <2>1 DEF NthWord
    <2>3. {j \in Words(line, d) : j < i} = {j \in S : j < i}
      BY <1>1, <2>2
    <2> QED BY <2>2, <2>3 DEF IsNth
  <1>6. b # {} => p \in b
    OBVIOUS
  <1>7. e # {} => o \in e
    OBVIOUS
  <1> HIDE DEF p, o
  <1>8. q \in Int /\ q <= len
    <2>1. e # {} => o \in Nat
      BY <1>1, <1>7
    <2> HIDE DEF e
    <2> QED BY <1>1, <2>1, EndOfFacts
  <1>9. CASE NthWord(line, d, entry[1]) = {}
    <2>1. ASSUME b # {} PROVE SubSeq(line, p, q) = <<>>
      <3>1. p = len + 1
        BY <1>4, <1>6, <1>9, <2>1
      <3>2. line \in Seq(Range(line)) /\ p \in Int /\ ~(p <= q) /\ \A i \in p..q : line[i] \in Range(line)
        BY <1>1, <1>8, <3>1 DEF IsText
      <3> HIDE DEF q
      <3>3. SubSeq(line, p, q) \in Seq(Range(line)) /\ Len(SubSeq(line, p, q)) = 0
        BY <1>8, <3>2, SubSeqProperties
      <3> QED BY <3>3, EmptySeq
    <2>2. text = <<>>
      BY <1>2, <2>1
    <2> QED BY <1>9, <2>2 DEF IsListed
  <1>10. CASE NthWord(line, d, entry[1]) # {}
    <2>1. b # {} /\ text = SubSeq(line, p, q) /\ p \in NthWord(line, d, entry[1])
      BY <1>2, <1>3, <1>4, <1>5, <1>6, <1>10
    <2>2. CASE NthWord(line, d, entry[2]) = {}
      <3>1. q = len
        <4>1. CASE e = {}
          BY <4>1
        <4>2. CASE e # {}
          <5>1. o = len + 1 /\ o \in Nat
            BY <1>1, <1>4, <1>7, <2>2, <4>2
          <5>2. q = EndOf(line, d, o)
            BY <4>2
          <5>3. o - 1 <= q
            BY <1>1, <5>1, <5>2, EndOfFacts
          <5> QED BY <1>1, <1>8, <5>1, <5>3
        <4> QED BY <4>1, <4>2
      <3>2. len + 1 \in 1..(len + 1) /\ text = SubSeq(line, p, (len + 1) - 1)
        <4>1. (len + 1) - 1 = len /\ len + 1 \in 1..(len + 1)
          BY <1>1
        <4> HIDE DEF q, len
        <4> QED BY <2>1, <3>1, <4>1
      <3> QED BY <1>10, <2>1, <2>2, <3>2 DEF IsListed
    <2>3. CASE NthWord(line, d, entry[2]) # {}
      <3>1. e # {} /\ o \in NthWord(line, d, entry[2]) /\ q = EndOf(line, d, o)
        BY <1>4, <1>5, <1>7, <2>3
      <3>2. o \in Words(line, d) /\ o \in 1..len /\ line[o] \notin d
        BY <1>1, <3>1 DEF NthWord
      <3>3. /\ o - 1 <= q /\ \A j \in o..q : line[j] \notin d
            /\ q + 1 <= len => line[q + 1] \in d
        BY <1>1, <3>1, <3>2, EndOfFacts
      <3> HIDE DEF q, len
      <3>4. o <= q
        <4>1. (q = o - 1) => (q + 1 = o /\ q + 1 <= len)
          BY <1>1, <1>8, <3>2
        <4>2. q # o - 1
          BY <3>2, <3>3, <4>1
        <4> QED BY <1>8, <3>2, <3>3, <4>2
      <3>5. EndsBefore(line, d, o, q + 1)
        <4>1. (q + 1) - 1 = q /\ o < q + 1
          BY <1>8, <3>2, <3>4
        <4> QED BY <3>3, <4>1 DEF EndsBefore, len
      <3>6. q + 1 \in 1..(len + 1) /\ text = SubSeq(line, p, (q + 1) - 1)
        BY <1>1, <1>8, <2>1, <3>2, <3>4
      <3> QED BY <1>10, <2>1, <2>3, <3>1, <3>5, <3>6 DEF IsListed, len
    <2> QED BY <2>2, <2>3
  <1> QED BY <1>9, <1>10

\* The variable of an entry is the one it is split into, unless a later entry wraps around to it.
LEMMA EntryVariable ==
    ASSUME NEW f, FrameOK(f), f.kind = "F", NEW k \in 1..f.info.iTokenNb, k + NVars > f.info.iTokenNb, NEW line
    PROVE  ForSplitTokens(line, f.info, f.var)[Wrapped(f.var + k - 1)] = ForGetToken(line, f.info.delims, f.info.tok[k])
  <1> DEFINE nb == f.info.iTokenNb
             v == Wrapped(f.var + k - 1)
             Ours(i) == Wrapped(f.var + i - 1) = v /\ \A j \in (i + 1)..nb : Wrapped(f.var + j - 1) # v
  <1>1. nb \in Nat /\ f.var \in 1..NVars /\ NVars \in Nat /\ nb <= NVars + 1
    BY TokensAssumption, CommandsAssumption DEF FrameOK, LoopOK, Vars
  <1>2. v \in Vars
    BY <1>1 DEF Wrapped, Vars
  <1>3. ASSUME NEW i \in 1..nb, NEW j \in 1..nb, i < j, j - i < NVars
        PROVE  Wrapped(f.var + i - 1) # Wrapped(f.var + j - 1)
    BY <1>1, <1>3 DEF Wrapped
  <1>4. Ours(k)
    <2>1. ASSUME NEW j \in (k + 1)..nb PROVE Wrapped(f.var + j - 1) # v
      <3>1. j \in 1..nb /\ k < j /\ j - k < NVars
        BY <1>1
      <3> QED BY <1>3, <3>1
    <2> QED BY <2>1
  <1>5. ASSUME NEW i \in 1..nb, Ours(i) PROVE i = k
    <2>1. CASE i < k
      <3>1. k \in (i + 1)..nb
        BY <1>1, <2>1
      <3> QED BY <1>5, <3>1
    <2>2. CASE k < i
      <3>1. i \in (k + 1)..nb
        BY <1>1, <2>2
      <3> QED BY <1>4, <1>5, <3>1
    <2> QED BY <1>1, <2>1, <2>2
  <1>6. (CHOOSE i \in 1..nb : Ours(i)) = k
    <2> HIDE DEF Ours
    <2> QED BY <1>4, <1>5
  <1>7. \E i \in 1..nb : Wrapped(f.var + i - 1) = v
    OBVIOUS
  <1>8. ForSplitTokens(line, f.info, f.var)[v] = ForGetToken(line, f.info.delims, f.info.tok[CHOOSE i \in 1..nb : Ours(i)])
    <2> HIDE DEF v
    <2> QED BY <1>2, <1>7 DEF ForSplitTokens
  <1> QED BY <1>6, <1>8

LEMMA HasSplitHolds == Inv /\ [Next]_vars => [HasSplit]_vars
  <1> SUFFICES ASSUME Inv, FLine, NEW k \in 1..Top.info.iTokenNb,
                      k + NVars > Top.info.iTokenNb, Top.info.tok[k][1] \in 0..Top.info.tok[k][2]
               PROVE  IsListed(lvars'[Wrapped(Top.var + k - 1)], Head(Top.lines), Top.info.delims, Top.info.tok[k])
    BY DEF HasSplit
  <1>1. frames # <<>> /\ Top.kind = "F" /\ Top.lines # <<>> /\ lvars' = ForSplitTokens(Head(Top.lines), Top.info, Top.var)
    BY DEF FLine, ReadsLine, Between
  <1>2. FrameOK(Top) /\ LinesOK(Top)
    BY <1>1, TopOK DEF FrameOK, ItemsOK
  <1>3. IsText(Head(Top.lines))
    BY <1>1, <1>2, RestOf DEF LinesOK, IsLines
  <1>4. lvars'[Wrapped(Top.var + k - 1)] = ForGetToken(Head(Top.lines), Top.info.delims, Top.info.tok[k])
    BY <1>1, <1>2, EntryVariable
  <1> QED BY <1>3, <1>4, TokenIsListed

-----------------------------------------------------------------------------
(* Whatever loops run in its body: FOR /L with a step above zero whose end is not at the edge of the
   integers gives its variable in each round the number that has as many numbers below it as rounds are
   over, and ends when these are all its numbers; FOR /F gives the variable of an entry of its FORINFO
   the line from the word where the entry begins to the end of the one where it ends, for every line,
   delimiters and entry that does not end before it begins. *)
THEOREM VisitsItsItemsHolds == Spec => VisitsItsItems
  <1>1. Init => Inv
    BY InitInv
  <1>2. Inv /\ [Next]_vars => Inv'
    BY NextInv
  <1>3. Inv /\ [Next]_vars => [HasCounted]_vars
    BY HasCountedHolds
  <1>4. Inv /\ [Next]_vars => [HasSplit]_vars
    BY HasSplitHolds
  <1>5. Inv /\ [Next]_vars => [GivesNumber]_vars
    BY GivesNumberHolds
  <1>6. Inv /\ [Next]_vars => [GivesNumber /\ HasCounted]_vars
    BY <1>3, <1>5
  <1> QED BY <1>1, <1>2, <1>4, <1>6, PTL DEF Spec, VisitsItsItems, Counts, WordsOnly

-----------------------------------------------------------------------------
(* Whatever lists and variables the FOR lines have, and whatever loops run around each other: the
   FORINFO of a loop that has one token list, written as the manual says, has an entry for each token
   that the manual says of the list's elements, in their order and with their bounds; the first one
   is combined, bit by bit, with the entry of the default list. *)
THEOREM MeansItsListHolds == Spec => []MeansItsList
  <1>1. Init => Inv
    BY InitInv
  <1>2. Inv /\ [Next]_vars => Inv'
    BY NextInv
  <1>3. Inv => MeansItsList
    BY DEF Inv, IsSeq, FrameOK, LoopOK, MeansItsList
  <1> QED BY <1>1, <1>2, <1>3, PTL DEF Spec
=============================================================================
