--------------------------- MODULE DirStackProofs ---------------------------
(***************************************************************************)
(* Theorems about DirStack, for any tree of directories that may come and  *)
(* go, and any arguments of CD and PUSHD: what pBat_Canonicalize leaves of *)
(* a path, where CD goes to and where POPD comes back to.                  *)
(***************************************************************************)
EXTENDS DirStack, TLAPS, WellFoundedInduction, SequenceTheorems

-----------------------------------------------------------------------------
(* Numbers: a set of them has a least element, which is what induction needs. *)

Less == {p \in Nat \X Nat : p[1] < p[2]}

LEMMA LeastOf ==
    ASSUME NEW S \in SUBSET Nat, S # {}
    PROVE  \E n \in S : \A m \in S : n <= m
  <1>0. IsWellFoundedOn(Less, Nat)
    BY NatLessThanWellFounded, Zenon DEF OpToRel, Less
  <1>1. PICK n \in S : \A m \in S : <<m, n>> \notin Less
    BY <1>0, WFMin, Zenon
  <1>2. ASSUME NEW m \in S, m < n PROVE FALSE
    <2>1. <<m, n>> \in Less
      BY <1>2 DEF Less
    <2> QED BY <2>1, <1>1
  <1>3. \A m \in S : m \in Nat /\ n \in Nat /\ ~(m < n)
    BY <1>2
  <1> QED BY <1>3

LEMMA MinFacts ==
    ASSUME NEW S \in SUBSET Nat, S # {}
    PROVE  Min(S) \in S /\ \A m \in S : Min(S) <= m
  BY LeastOf DEF Min

LEMMA MaxIs ==
    ASSUME NEW S \in SUBSET Nat, NEW m \in S, \A n \in S : n <= m
    PROVE  Max(S) = m
  <1>1. Max(S) \in S /\ \A n \in S : Max(S) >= n
    <2>1. \E x \in S : \A y \in S : x >= y
      OBVIOUS
    <2> QED BY <2>1 DEF Max
  <1>2. Max(S) >= m /\ Max(S) <= m /\ Max(S) \in Nat /\ m \in Nat
    BY <1>1
  <1> QED BY <1>2

-----------------------------------------------------------------------------
(* The recursive functions of the module have the values their definitions give them. *)

Walks(there, p, n, f) == f = [k \in 0..n |-> IF k = 0 THEN Root ELSE Visit(there, f[k - 1], p[k])]

LEMMA WalkIsTaken ==
    ASSUME NEW there, NEW p, Len(p) \in Nat
    PROVE  Walks(there, p, Len(p), Walk(there, p))
  <1>1. ASSUME NEW n \in Nat PROVE \E f : Walks(there, p, n, f)
    <2> DEFINE Without == {l \in Nat : ~ \E f : Walks(there, p, l, f)}
    <2>1. SUFFICES ASSUME Without # {} PROVE FALSE
      OBVIOUS
    <2>2. PICK m \in Without : \A l \in Without : m <= l
      <3>1. Without \in SUBSET Nat
        OBVIOUS
      <3> HIDE DEF Without
      <3> QED BY <2>1, <3>1, LeastOf
    <2>3. CASE m = 0
      <3> DEFINE f == [k \in 0..0 |-> Root]
      <3>1. f = [k \in 0..0 |-> IF k = 0 THEN Root ELSE Visit(there, f[k - 1], p[k])]
        OBVIOUS
      <3>2. Walks(there, p, 0, f)
        BY <3>1 DEF Walks
      <3> QED BY <2>3, <3>2
    <2>4. CASE m # 0
      <3>1. m \in Nat /\ m - 1 \in Nat /\ m - 1 \notin Without
        BY <2>2, <2>4
      <3>2. PICK g : Walks(there, p, m - 1, g)
        BY <3>1
      <3> DEFINE f == [k \in 0..m |-> IF k < m THEN g[k] ELSE Visit(there, g[m - 1], p[m])]
                 e == [k \in 0..m |-> IF k = 0 THEN Root ELSE Visit(there, f[k - 1], p[k])]
      <3>3. \A k \in 0..(m - 1) : g[k] = IF k = 0 THEN Root ELSE Visit(there, g[k - 1], p[k])
        BY <3>1, <3>2 DEF Walks
      <3>4. ASSUME NEW k \in 0..m PROVE f[k] = e[k]
        <4>1. CASE k = 0
          BY <4>1, <3>1, <3>3, <2>4
        <4>2. CASE k # 0
          <5>1. k - 1 \in 0..m /\ k - 1 < m /\ m \in Nat
            BY <4>2, <3>1
          <5>2. f[k - 1] = g[k - 1] /\ e[k] = Visit(there, f[k - 1], p[k])
            BY <5>1, <4>2
          <5>3. CASE k < m
            BY <5>1, <5>2, <5>3, <4>2, <3>3
          <5>4. CASE k = m
            BY <5>1, <5>2, <5>4
          <5> QED BY <5>1, <5>3, <5>4
        <4> QED BY <4>1, <4>2
      <3>5. f = e
        BY <3>4
      <3>6. Walks(there, p, m, f)
        BY <3>5 DEF Walks
      <3> QED BY <2>2, <3>6
    <2> QED BY <2>3, <2>4
  <1>2. \E f : Walks(there, p, Len(p), f)
    BY <1>1
  <1> DEFINE at == CHOOSE f : Walks(there, p, Len(p), f)
  <1>3. Walks(there, p, Len(p), at)
    BY <1>2
  <1>4. Walk(there, p) = at
    BY DEF Walk, Walks
  <1> QED BY <1>3, <1>4

LEMMA WalkSteps ==
    ASSUME NEW there, NEW p, Len(p) \in Nat
    PROVE  /\ Walk(there, p)[0] = Root
           /\ \A k \in 1..Len(p) : Walk(there, p)[k] = Visit(there, Walk(there, p)[k - 1], p[k])
  <1>1. \A k \in 0..Len(p) : Walk(there, p)[k] = IF k = 0 THEN Root ELSE Visit(there, Walk(there, p)[k - 1], p[k])
    BY WalkIsTaken DEF Walks
  <1> QED BY <1>1

Takes(path, n, f) == f = [k \in 0..n |-> IF k = 0 THEN [path |-> path, at |-> 1] ELSE Turn(f[k - 1])]

LEMMA TurnsAreTaken ==
    ASSUME NEW path, Len(path) \in Nat
    PROVE  \E f : /\ Turns(path) = f[Len(path)].path
                  /\ f[0] = [path |-> path, at |-> 1]
                  /\ \A k \in 1..Len(path) : f[k] = Turn(f[k - 1])
  <1> DEFINE first == [path |-> path, at |-> 1]
  <1>1. ASSUME NEW n \in Nat PROVE \E f : Takes(path, n, f)
    <2> DEFINE Without == {l \in Nat : ~ \E f : Takes(path, l, f)}
    <2>1. SUFFICES ASSUME Without # {} PROVE FALSE
      OBVIOUS
    <2>2. PICK m \in Without : \A l \in Without : m <= l
      <3>1. Without \in SUBSET Nat
        OBVIOUS
      <3> HIDE DEF Without
      <3> QED BY <2>1, <3>1, LeastOf
    <2>3. CASE m = 0
      <3> DEFINE f == [k \in 0..0 |-> first]
      <3>1. f = [k \in 0..0 |-> IF k = 0 THEN first ELSE Turn(f[k - 1])]
        OBVIOUS
      <3>2. Takes(path, 0, f)
        BY <3>1 DEF Takes
      <3> QED BY <2>3, <3>2
    <2>4. CASE m # 0
      <3>1. m \in Nat /\ m - 1 \in Nat /\ m - 1 \notin Without
        BY <2>2, <2>4
      <3>2. PICK g : Takes(path, m - 1, g)
        BY <3>1
      <3> DEFINE f == [k \in 0..m |-> IF k < m THEN g[k] ELSE Turn(g[m - 1])]
                 e == [k \in 0..m |-> IF k = 0 THEN first ELSE Turn(f[k - 1])]
      <3>3. \A k \in 0..(m - 1) : g[k] = IF k = 0 THEN first ELSE Turn(g[k - 1])
        BY <3>1, <3>2 DEF Takes
      <3>4. ASSUME NEW k \in 0..m PROVE f[k] = e[k]
        <4>1. CASE k = 0
          BY <4>1, <3>1, <3>3, <2>4
        <4>2. CASE k # 0
          <5>1. k - 1 \in 0..m /\ k - 1 < m /\ m \in Nat
            BY <4>2, <3>1
          <5>2. f[k - 1] = g[k - 1] /\ e[k] = Turn(f[k - 1])
            BY <5>1, <4>2
          <5>3. CASE k < m
            BY <5>1, <5>2, <5>3, <4>2, <3>3
          <5>4. CASE k = m
            BY <5>1, <5>2, <5>4
          <5> QED BY <5>1, <5>3, <5>4
        <4> QED BY <4>1, <4>2
      <3>5. f = e
        BY <3>4
      <3>6. Takes(path, m, f)
        BY <3>5 DEF Takes
      <3> QED BY <2>2, <3>6
    <2> QED BY <2>3, <2>4
  <1>2. \E f : Takes(path, Len(path), f)
    BY <1>1
  <1> DEFINE turn == CHOOSE f : Takes(path, Len(path), f)
  <1>3. Takes(path, Len(path), turn)
    BY <1>2
  <1>4. Turns(path) = turn[Len(path)].path
    BY DEF Turns, Takes
  <1> HIDE DEF turn
  <1>5. \A k \in 0..Len(path) : turn[k] = IF k = 0 THEN first ELSE Turn(turn[k - 1])
    BY <1>3 DEF Takes
  <1>6. turn[0] = first /\ \A k \in 1..Len(path) : turn[k] = Turn(turn[k - 1])
    BY <1>5
  <1> QED BY <1>4, <1>6

-----------------------------------------------------------------------------
(* Directories and what the system makes of a path. *)

Dots == {"/", ".", ".."}
Token == Dots \cup (UNION {Range(d) : d \in Tree}) \cup (UNION {Range(p) : p \in Asked})
IsName(token) == token \in Token \ Dots

LEMMA TreeFacts ==
    ASSUME NEW d \in Tree
    PROVE  /\ d \in Seq(Token) /\ d # Missing /\ Len(d) \in Nat
           /\ \A k \in 1..Len(d) : IsName(d[k])
           /\ \A k \in 0..Len(d) : PathUpto(d, k) \in Tree
  <1>1. d \in Seq(Range(d)) /\ Range(d) \subseteq Token /\ Range(d) \cap {"/", ".", ".."} = {}
    BY TreeAssumption DEF Token
  <1>2. d \in Seq(Token)
    BY <1>1, SeqMonotonic
  <1>3. \A k \in 1..Len(d) : d[k] \in Range(d)
    BY <1>1, <1>2 DEF Range
  <1> QED BY <1>1, <1>2, <1>3, TreeAssumption DEF IsName, Dots

(* The directories there are when no directory is there without the one it is in. *)
Closed(there) == /\ there \subseteq Tree /\ <<>> \in there
                 /\ \A d \in there : \A k \in 0..Len(d) : PathUpto(d, k) \in there

LEMMA UptoFacts ==
    ASSUME NEW T, NEW d \in Seq(T), NEW k \in 0..Len(d)
    PROVE  /\ PathUpto(d, k) \in Seq(T) /\ Len(PathUpto(d, k)) = k
           /\ \A i \in 1..k : PathUpto(d, k)[i] = d[i]
  <1>1. \A i \in 1..k : d[i] \in T
    BY ElementOfSeq
  <1>2. /\ SubSeq(d, 1, k) \in Seq(T)
        /\ Len(SubSeq(d, 1, k)) = IF 1 <= k THEN k - 1 + 1 ELSE 0
        /\ \A i \in 1..k - 1 + 1 : SubSeq(d, 1, k)[i] = d[1 + i - 1]
    BY <1>1, SubSeqProperties
  <1> QED BY <1>2 DEF PathUpto

LEMMA AppendFacts ==
    ASSUME NEW T, NEW d \in Seq(T), NEW x \in T
    PROVE  /\ Append(d, x) \in Seq(T) /\ Len(Append(d, x)) = Len(d) + 1
           /\ \A i \in 1..Len(d) : Append(d, x)[i] = d[i]
           /\ Append(d, x)[Len(d) + 1] = x
  OBVIOUS

LEMMA WholePath ==
    ASSUME NEW T, NEW d \in Seq(T)
    PROVE  PathUpto(d, Len(d)) = d
  <1>1. Len(d) \in 0..Len(d) /\ Len(d) \in Nat
    OBVIOUS
  <1> DEFINE e == PathUpto(d, Len(d))
  <1>2. e \in Seq(T) /\ Len(e) = Len(d) /\ \A i \in 1..Len(d) : e[i] = d[i]
    BY <1>1, UptoFacts
  <1> HIDE DEF e
  <1>3. e = d
    BY <1>2, SeqEqual
  <1> QED BY <1>3 DEF e

LEMMA UptoUpto ==
    ASSUME NEW T, NEW d \in Seq(T), NEW n \in 0..Len(d), NEW k \in 0..n
    PROVE  PathUpto(PathUpto(d, n), k) = PathUpto(d, k)
  <1> DEFINE e == PathUpto(d, n)
             f == PathUpto(e, k)
             g == PathUpto(d, k)
  <1>1. Len(d) \in Nat /\ n \in Nat /\ k \in Nat /\ k \in 0..Len(d) /\ \A i \in 1..k : i \in 1..n
    OBVIOUS
  <1>2. e \in Seq(T) /\ Len(e) = n /\ \A i \in 1..n : e[i] = d[i]
    BY UptoFacts
  <1> HIDE DEF e
  <1>3. f \in Seq(T) /\ Len(f) = k /\ \A i \in 1..k : f[i] = e[i]
    BY <1>2, UptoFacts
  <1>4. g \in Seq(T) /\ Len(g) = k /\ \A i \in 1..k : g[i] = d[i]
    BY <1>1, UptoFacts
  <1> HIDE DEF f, g
  <1>5. f = g
    BY <1>1, <1>2, <1>3, <1>4, SeqEqual
  <1> QED BY <1>5 DEF f, g, e

LEMMA FrontFacts ==
    ASSUME NEW T, NEW x \in T, NEW s \in Seq(T)
    PROVE  /\ <<x>> \o s \in Seq(T) /\ Len(<<x>> \o s) = 1 + Len(s) /\ (<<x>> \o s)[1] = x
           /\ \A i \in 1..Len(s) : (<<x>> \o s)[i + 1] = s[i]
  OBVIOUS

LEMMA NextPrefix ==
    ASSUME NEW T, NEW d \in Seq(T), NEW k \in 1..Len(d)
    PROVE  Append(PathUpto(d, k - 1), d[k]) = PathUpto(d, k)
  <1>1. Len(d) \in Nat /\ k \in Nat /\ k - 1 \in 0..Len(d) /\ k \in 0..Len(d) /\ k - 1 + 1 = k /\ d[k] \in T
    BY ElementOfSeq
  <1> DEFINE e == PathUpto(d, k - 1)
             g == PathUpto(d, k)
             x == d[k]
  <1>2. e \in Seq(T) /\ Len(e) = k - 1 /\ \A i \in 1..(k - 1) : e[i] = d[i]
    BY <1>1, UptoFacts
  <1>3. g \in Seq(T) /\ Len(g) = k /\ \A i \in 1..k : g[i] = d[i]
    BY <1>1, UptoFacts
  <1> HIDE DEF e, g, x
  <1>4. /\ Append(e, x) \in Seq(T) /\ Len(Append(e, x)) = k /\ \A i \in 1..(k - 1) : Append(e, x)[i] = e[i]
        /\ Append(e, x)[k] = x
    BY <1>1, <1>2, AppendFacts DEF x
  <1>5. \A i \in 1..k : Append(e, x)[i] = g[i]
    <2>1. \A i \in 1..k : i = k \/ i \in 1..(k - 1)
      BY <1>1
    <2> QED BY <1>2, <1>3, <1>4, <2>1 DEF x
  <1>6. Append(e, x) = g
    BY <1>3, <1>4, <1>5, SeqEqual
  <1> QED BY <1>6 DEF e, g, x

(* The system is in directory d, where it came without going above the root. *)
In(d) == [dir |-> d, level |-> Len(d), out |-> FALSE]

LEMMA VisitIs ==
    ASSUME NEW there, NEW d, Len(d) \in Nat, NEW token, Deeper(token) \in Int
    PROVE  LET v == Visit(there, In(d), token)
           IN  /\ v.dir = CASE d = Missing \/ token \in {"/", "."} -> d
                            [] d # Missing /\ token = ".." -> PathUpto(d, Len(d) - 1)
                            [] OTHER -> IF Append(d, token) \in there THEN Append(d, token) ELSE Missing
               /\ v.level = Len(d) + Deeper(token)
               /\ v.out = (Len(d) + Deeper(token) < 0)
               /\ v = [dir |-> v.dir, level |-> v.level, out |-> v.out]
  <1>1. In(d).dir = d /\ In(d).level = Len(d) /\ In(d).out = FALSE
    BY DEF In
  <1>2. (In(d).out \/ In(d).level + Deeper(token) < 0) = (Len(d) + Deeper(token) < 0)
    BY <1>1
  <1> QED BY <1>1, <1>2, Zenon DEF Visit

\* Going on to directory e, which is not above the root.
LEMMA VisitGoes ==
    ASSUME NEW there, NEW d, Len(d) \in Nat, NEW token, NEW e,
           Deeper(token) \in Int, Len(e) = Len(d) + Deeper(token), Len(e) \in Nat,
           Visit(there, In(d), token).dir = e
    PROVE  Visit(there, In(d), token) = In(e)
  <1> DEFINE v == Visit(there, In(d), token)
  <1>1. v.out = (Len(d) + Deeper(token) < 0) /\ v.level = Len(d) + Deeper(token)
        /\ v = [dir |-> v.dir, level |-> v.level, out |-> v.out]
    BY VisitIs
  <1>2. (Len(d) + Deeper(token) < 0) = FALSE
    OBVIOUS
  <1>3. v.out = FALSE /\ v.level = Len(e) /\ v.dir = e
    BY <1>1, <1>2
  <1> HIDE DEF v
  <1>4. v = In(e)
    BY <1>1, <1>3 DEF In
  <1> QED BY <1>4 DEF v

LEMMA VisitDot ==
    ASSUME NEW there, NEW d, Len(d) \in Nat, NEW token \in {"/", "."}
    PROVE  Visit(there, In(d), token) = In(d)
  <1>1. Deeper(token) = 0
    BY DEF Deeper
  <1>2. Visit(there, In(d), token).dir = d
    BY DEF Visit, In
  <1> QED BY <1>1, <1>2, VisitGoes

LEMMA VisitUp ==
    ASSUME NEW there, NEW d \in Tree, d # <<>>
    PROVE  Visit(there, In(d), "..") = In(PathUpto(d, Len(d) - 1))
  <1>1. d # Missing /\ d \in Seq(Token) /\ Len(d) \in Nat /\ Len(d) # 0
    <2>1. d # Missing /\ d \in Seq(Token)
      BY TreeFacts
    <2> QED BY <2>1
  <1>2. Len(d) - 1 \in 0..Len(d)
    BY <1>1
  <1>3. Len(PathUpto(d, Len(d) - 1)) = Len(d) - 1
    BY <1>1, <1>2, UptoFacts
  <1>4. Deeper("..") = -1
    BY DEF Deeper
  <1>5. Visit(there, In(d), "..").dir = PathUpto(d, Len(d) - 1)
    BY <1>1 DEF Visit, In
  <1> QED BY <1>1, <1>2, <1>3, <1>4, <1>5, VisitGoes

LEMMA VisitOut ==
    ASSUME NEW there
    PROVE  Visit(there, In(<<>>), "..").out = TRUE
  <1>1. Deeper("..") = -1
    BY DEF Deeper
  <1>2. Visit(there, In(<<>>), "..").out = (Len(<<>>) + Deeper("..") < 0)
    <2>1. Len(<<>>) \in Nat /\ -1 \in Int
      OBVIOUS
    <2> QED BY <1>1, <2>1, VisitIs
  <1>3. (Len(<<>>) + Deeper("..") < 0) = TRUE
    BY <1>1
  <1> QED BY <1>2, <1>3

LEMMA VisitName ==
    ASSUME NEW there, NEW d \in Tree, NEW x, IsName(x)
    PROVE  IF Append(d, x) \in there THEN Visit(there, In(d), x) = In(Append(d, x))
                                     ELSE Visit(there, In(d), x).dir = Missing
  <1>1. d # Missing /\ d \in Seq(Token) /\ Len(d) \in Nat /\ x \in Token
    BY TreeFacts DEF IsName
  <1>2. x \notin {"/", "."} /\ x # ".." /\ Deeper(x) = 1
    BY DEF Deeper, IsName, Dots
  <1>3. Len(Append(d, x)) = Len(d) + 1
    BY <1>1
  <1>4. CASE Append(d, x) \in there
    <2>1. Visit(there, In(d), x).dir = Append(d, x)
      BY <1>1, <1>2, <1>4 DEF Visit, In
    <2> DEFINE e == Append(d, x)
    <2>2. Len(e) = Len(d) + Deeper(x) /\ Len(e) \in Nat /\ Deeper(x) \in Int
      BY <1>1, <1>2, <1>3
    <2>3. Visit(there, In(d), x).dir = e
      BY <2>1
    <2> HIDE DEF e
    <2>4. Visit(there, In(d), x) = In(e)
      BY <1>1, <2>2, <2>3, VisitGoes
    <2> QED BY <1>4, <2>4 DEF e
  <1>5. CASE Append(d, x) \notin there
    BY <1>1, <1>2, <1>5 DEF Visit, In
  <1> QED BY <1>4, <1>5

\* What is not there has nothing in it, and who goes above the root has done so.
LEMMA WalkStays ==
    ASSUME NEW there, NEW p, Len(p) \in Nat, NEW i \in 0..Len(p)
    PROVE  /\ Walk(there, p)[i].dir = Missing => Walk(there, p)[Len(p)].dir = Missing
           /\ Walk(there, p)[i].out = TRUE => Walk(there, p)[Len(p)].out = TRUE
  <1> DEFINE w(k) == Walk(there, p)[k]
             Same(k) == /\ w(i).dir = Missing => w(k).dir = Missing
                        /\ w(i).out = TRUE => w(k).out = TRUE
             Without == {k \in Nat : k >= i /\ k <= Len(p) /\ ~Same(k)}
  <1>1. \A k \in 1..Len(p) : /\ w(k - 1).dir = Missing => w(k).dir = Missing
                             /\ w(k - 1).out = TRUE => w(k).out = TRUE
    <2>1. \A v, x : /\ v.dir = Missing => Visit(there, v, x).dir = Missing
                    /\ v.out = TRUE => Visit(there, v, x).out = TRUE
      BY DEF Visit
    <2> QED BY <2>1, WalkSteps
  <1> HIDE DEF w
  <1>2. SUFFICES ASSUME Without # {} PROVE FALSE
    <2>1. Len(p) \in Nat /\ Len(p) >= i /\ Len(p) <= Len(p)
      OBVIOUS
    <2>2. Same(Len(p))
      BY <1>2, <2>1
    <2> QED BY <2>2 DEF w
  <1>3. PICK k \in Without : \A l \in Without : k <= l
    <2>1. Without \in SUBSET Nat
      OBVIOUS
    <2> HIDE DEF Without
    <2> QED BY <1>2, <2>1, LeastOf
  <1>4. k # i /\ k \in Nat /\ i \in Nat /\ k >= i /\ k <= Len(p)
    BY <1>3
  <1>5. k - 1 \in Nat /\ k - 1 >= i /\ k - 1 <= Len(p) /\ k - 1 \notin Without
    <2>1. k - 1 \in Nat /\ k - 1 >= i /\ k - 1 <= Len(p) /\ ~(k <= k - 1)
      BY <1>4
    <2> QED BY <2>1, <1>3
  <1>6. Same(k - 1)
    BY <1>5
  <1>7. k \in 1..Len(p)
    BY <1>4
  <1> QED BY <1>1, <1>3, <1>6, <1>7

\* Separators and dots lead nowhere.
LEMMA WalkOverDots ==
    ASSUME NEW there, NEW p, Len(p) \in Nat, NEW i \in 0..Len(p), NEW n \in i..Len(p),
           NEW d, Len(d) \in Nat, Walk(there, p)[i] = In(d),
           \A k \in (i + 1)..n : p[k] \in {"/", "."}
    PROVE  Walk(there, p)[n] = In(d)
  <1> DEFINE Without == {k \in Nat : k >= i /\ k <= n /\ Walk(there, p)[k] # In(d)}
  <1>1. SUFFICES ASSUME Without # {} PROVE FALSE
    BY <1>1
  <1>2. PICK k \in Without : \A l \in Without : k <= l
    <2>1. Without \in SUBSET Nat
      OBVIOUS
    <2> HIDE DEF Without
    <2> QED BY <1>1, <2>1, LeastOf
  <1>3. k # i /\ k \in Nat /\ i \in Nat /\ k >= i /\ k <= n /\ n <= Len(p) /\ n \in Nat
    BY <1>2
  <1>4. k - 1 \in Nat /\ k - 1 >= i /\ k - 1 <= n /\ k - 1 \notin Without
    <2>1. k - 1 \in Nat /\ k - 1 >= i /\ k - 1 <= n /\ ~(k <= k - 1)
      BY <1>3
    <2> QED BY <2>1, <1>2
  <1>5. Walk(there, p)[k - 1] = In(d)
    BY <1>4
  <1>6. k \in 1..Len(p) /\ k \in (i + 1)..n
    BY <1>3
  <1>7. Walk(there, p)[k] = Visit(there, In(d), p[k]) /\ p[k] \in {"/", "."}
    BY <1>5, <1>6, WalkSteps
  <1>8. Walk(there, p)[k] = In(d)
    BY <1>7, VisitDot
  <1> QED BY <1>2, <1>8

-----------------------------------------------------------------------------
(* Paths *)

LEMMA FromFacts ==
    ASSUME NEW T, NEW s \in Seq(T), NEW k \in 1..(Len(s) + 1)
    PROVE  /\ PathFrom(s, k) \in Seq(T) /\ Len(PathFrom(s, k)) = Len(s) - k + 1
           /\ \A i \in 1..(Len(s) - k + 1) : PathFrom(s, k)[i] = s[k + i - 1]
  <1>1. Len(s) \in Nat /\ k \in Nat /\ \A i \in k..Len(s) : s[i] \in T
    BY ElementOfSeq
  <1>2. /\ SubSeq(s, k, Len(s)) \in Seq(T)
        /\ Len(SubSeq(s, k, Len(s))) = IF k <= Len(s) THEN Len(s) - k + 1 ELSE 0
        /\ \A i \in 1..Len(s) - k + 1 : SubSeq(s, k, Len(s))[i] = s[k + i - 1]
    BY <1>1, SubSeqProperties
  <1> QED BY <1>1, <1>2 DEF PathFrom

(* The first a tokens of s, and those from b on *)
Joined(s, a, b) == PathUpto(s, a) \o PathFrom(s, b)

LEMMA JoinFacts ==
    ASSUME NEW T, NEW s \in Seq(T), NEW a \in 0..Len(s), NEW b \in 1..(Len(s) + 1)
    PROVE  /\ Joined(s, a, b) \in Seq(T) /\ Len(Joined(s, a, b)) = a + Len(s) - b + 1
           /\ \A i \in 1..a : Joined(s, a, b)[i] = s[i]
           /\ \A i \in (a + 1)..(a + Len(s) - b + 1) : Joined(s, a, b)[i] = s[i - a + b - 1]
  <1> DEFINE u == PathUpto(s, a)
             v == PathFrom(s, b)
  <1>1. u \in Seq(T) /\ Len(u) = a /\ \A i \in 1..a : u[i] = s[i]
    BY UptoFacts
  <1>2. v \in Seq(T) /\ Len(v) = Len(s) - b + 1 /\ \A i \in 1..(Len(s) - b + 1) : v[i] = s[b + i - 1]
    BY FromFacts
  <1>3. Joined(s, a, b) = u \o v
    BY DEF Joined
  <1> HIDE DEF u, v
  <1>4. Len(s) \in Nat /\ a \in Nat /\ b \in Nat
    OBVIOUS
  <1>5. /\ u \o v \in Seq(T) /\ Len(u \o v) = Len(u) + Len(v)
        /\ \A i \in 1..Len(u) + Len(v) : (u \o v)[i] = IF i <= Len(u) THEN u[i] ELSE v[i - Len(u)]
    BY <1>1, <1>2, ConcatProperties, Zenon
  <1>6. ASSUME NEW i \in 1..a PROVE (u \o v)[i] = s[i]
    BY <1>1, <1>2, <1>4, <1>5
  <1>7. ASSUME NEW i \in (a + 1)..(a + Len(s) - b + 1) PROVE (u \o v)[i] = s[i - a + b - 1]
    <2>1. i \in 1..Len(u) + Len(v) /\ ~(i <= Len(u)) /\ i - a \in 1..(Len(s) - b + 1) /\ b + (i - a) - 1 = i - a + b - 1
      BY <1>1, <1>2, <1>4
    <2>2. (u \o v)[i] = v[i - a]
      BY <1>1, <1>5, <2>1
    <2>3. v[i - a] = s[b + (i - a) - 1]
      BY <1>2, <2>1
    <2> QED BY <2>1, <2>2, <2>3
  <1> QED BY <1>1, <1>2, <1>3, <1>4, <1>5, <1>6, <1>7

(* Token i of the canonical path of d *)
Tok(d, i) == IF i % 2 = 1 THEN "/" ELSE d[i \div 2]

LEMMA TokFacts ==
    ASSUME NEW d, NEW n \in Nat
    PROVE  Tok(d, 2 * n + 1) = "/" /\ Tok(d, 2 * n) = d[n]
  <1>1. (2 * n + 1) % 2 = 1 /\ (2 * n) % 2 = 0 /\ (2 * n) \div 2 = n
    OBVIOUS
  <1> QED BY <1>1 DEF Tok

LEMMA TokSame ==
    ASSUME NEW d, NEW e, NEW n \in Nat, \A k \in 1..n : e[k] = d[k]
    PROVE  \A i \in 1..(2 * n + 1) : Tok(e, i) = Tok(d, i)
  <1> SUFFICES ASSUME NEW i \in 1..(2 * n + 1) PROVE Tok(e, i) = Tok(d, i)
    OBVIOUS
  <1>1. CASE i % 2 = 1
    BY <1>1 DEF Tok
  <1>2. CASE i % 2 # 1
    <2>1. i \div 2 \in 1..n
      BY <1>2
    <2> QED BY <1>2, <2>1 DEF Tok
  <1> QED BY <1>1, <1>2

Good(there, o) == /\ Closed(there)
                  /\ o \in Seq(Token) /\ o # <<>> /\ o[1] = "/"
                  /\ \A i \in 1..(Len(o) - 1) : "/" \in {o[i], o[i + 1]}
                  /\ Walk(there, o)[Len(o)].dir # Missing

(* The invariant of the loop. What is before w.at is the canonical path of the directory where the system is when it
   has read the tokens of o before the j-th, and a separator when a name comes; what is behind it are the others. *)
Reads(there, o, w, j, d) ==
    /\ j \in 1..(Len(o) + 1) /\ w.at \in Nat \ {0} /\ w = [path |-> w.path, at |-> w.at]
    /\ w.path \in Seq(Token) /\ Len(w.path) = w.at - 1 + (Len(o) - j + 1)
    /\ d \in there /\ Walk(there, o)[j - 1] = In(d)
    /\ \/ w.at = 2 * Len(d) + 1 /\ (j <= Len(o) => o[j] = "/")
       \/ w.at = 2 * Len(d) + 2 /\ j <= Len(o) /\ IsName(o[j])
       \/ w.at = 2 /\ d = <<>> /\ j = Len(o) + 1
    /\ \A i \in 1..(w.at - 1) : w.path[i] = Tok(d, i)
    /\ \A i \in w.at..Len(w.path) : w.path[i] = o[i - w.at + j]

LEMMA ReadsTypes ==
    ASSUME NEW there, NEW o, Good(there, o), NEW w, NEW j, NEW d, Reads(there, o, w, j, d)
    PROVE  /\ d \in there /\ d \in Tree /\ d \in Seq(Token) /\ Len(d) \in Nat
           /\ Len(o) \in Nat /\ w.at \in Nat /\ w.at # 0 /\ j \in Nat /\ j >= 1 /\ j <= Len(o) + 1
  <1>1. d \in there /\ d \in Tree
    BY DEF Reads, Good, Closed
  <1>2. o \in Seq(Token) /\ j \in 1..(Len(o) + 1) /\ w.at \in Nat \ {0}
    BY DEF Reads, Good
  <1> QED BY <1>1, <1>2, TreeFacts

LEMMA TurnEnds ==
    ASSUME NEW there, NEW o, Good(there, o), NEW w, NEW d, Reads(there, o, w, Len(o) + 1, d)
    PROVE  Turn(w) = w
  <1>1. w.at > Len(w.path)
    BY DEF Reads, Good
  <1> QED BY <1>1 DEF Turn

\* A name of a directory that is there.
LEMMA NameIsThere ==
    ASSUME NEW there, NEW o, Good(there, o), NEW j \in 1..Len(o), NEW d \in there, Walk(there, o)[j - 1] = In(d), IsName(o[j])
    PROVE  Append(d, o[j]) \in there /\ Walk(there, o)[j] = In(Append(d, o[j]))
  <1>1. Len(o) \in Nat /\ d \in Tree
    BY DEF Good, Closed
  <1>2. Walk(there, o)[j] = Visit(there, In(d), o[j])
    BY <1>1, WalkSteps
  <1>3. Walk(there, o)[j].dir # Missing
    <2>1. j \in 0..Len(o)
      BY <1>1
    <2> QED BY <1>1, <2>1, WalkStays DEF Good
  <1> QED BY <1>1, <1>2, <1>3, VisitName

LEMMA TurnName ==
    ASSUME NEW there, NEW o, Good(there, o), NEW w, NEW j, NEW d, Reads(there, o, w, j, d), w.at = 2 * Len(d) + 2, j <= Len(o), IsName(o[j])
    PROVE  Reads(there, o, Turn(w), j + 1, Append(d, o[j]))
  <1> DEFINE e == Append(d, o[j])
             v == [path |-> w.path, at |-> w.at + 1]
  <1>1. /\ d \in Tree /\ d \in Seq(Token) /\ Len(d) \in Nat /\ Len(o) \in Nat /\ j \in 1..Len(o) /\ o[j] \in Token
        /\ w.at \in Nat /\ w.at # 0 /\ w.path \in Seq(Token) /\ Len(w.path) \in Nat /\ Len(w.path) = w.at - 1 + (Len(o) - j + 1)
        /\ w.at = 2 * Len(d) + 2
    <2>1. d \in Tree /\ d \in Seq(Token) /\ Len(d) \in Nat /\ Len(o) \in Nat /\ w.at \in Nat /\ w.at # 0 /\ j \in Nat /\ j >= 1
      BY ReadsTypes
    <2>2. w.path \in Seq(Token) /\ Len(w.path) = w.at - 1 + (Len(o) - j + 1)
      BY DEF Reads
    <2>3. o[j] \in Token
      BY DEF IsName
    <2> QED BY <2>1, <2>2, <2>3
  <1>2. w.path[w.at] = o[j] /\ ~(w.at > Len(w.path))
    <2>1. w.at \in w.at..Len(w.path) /\ w.at - w.at + j = j /\ ~(w.at > Len(w.path))
      BY <1>1
    <2>2. w.path[w.at] = o[w.at - w.at + j]
      BY <2>1 DEF Reads
    <2> QED BY <2>1, <2>2
  <1>3. Turn(w) = v
    BY <1>2 DEF Turn, IsName, Dots
  <1>4. e \in there /\ Walk(there, o)[j] = In(e)
    BY <1>1, NameIsThere DEF Reads
  <1>5. Len(e) = Len(d) + 1 /\ e[Len(d) + 1] = o[j] /\ \A i \in 1..Len(d) : e[i] = d[i]
    BY <1>1, AppendFacts
  <1> HIDE DEF e
  <1>6. ASSUME NEW i \in 1..w.at PROVE w.path[i] = Tok(e, i)
    <2>1. CASE i = w.at
      <3>1. i = 2 * (Len(d) + 1) /\ Len(d) + 1 \in Nat
        BY <1>1, <2>1
      <3> QED BY <1>2, <1>5, <2>1, <3>1, TokFacts
    <2>2. CASE i # w.at
      <3>1. i \in 1..(w.at - 1) /\ i \in 1..(2 * Len(d) + 1)
        BY <1>1, <2>2
      <3>2. Tok(e, i) = Tok(d, i)
        BY <1>1, <1>5, <3>1, TokSame
      <3> QED BY <3>1, <3>2 DEF Reads
    <2> QED BY <2>1, <2>2
  <1>7. j + 1 <= Len(o) => o[j + 1] = "/"
    <2> SUFFICES ASSUME j + 1 <= Len(o) PROVE o[j + 1] = "/"
      OBVIOUS
    <2>1. j \in 1..(Len(o) - 1)
      BY <1>1
    <2>2. "/" \in {o[j], o[j + 1]}
      BY <2>1 DEF Good
    <2> QED BY <2>2 DEF IsName, Dots
  <1>8. \A i \in (w.at + 1)..Len(w.path) : w.path[i] = o[i - (w.at + 1) + (j + 1)]
    <2> SUFFICES ASSUME NEW i \in (w.at + 1)..Len(w.path) PROVE w.path[i] = o[i - (w.at + 1) + (j + 1)]
      OBVIOUS
    <2>1. i \in w.at..Len(w.path) /\ i - (w.at + 1) + (j + 1) = i - w.at + j
      BY <1>1
    <2> QED BY <2>1 DEF Reads
  <1> DEFINE m == j + 1
  <1>9. m - 1 = j /\ m \in 1..(Len(o) + 1) /\ w.at + 1 \in Nat \ {0} /\ Len(w.path) = w.at + 1 - 1 + (Len(o) - m + 1)
        /\ w.at + 1 = 2 * Len(e) + 1 /\ w.at + 1 - 1 = w.at /\ m = j + 1
    BY <1>1, <1>5
  <1>10. (m <= Len(o) => o[m] = "/") /\ \A i \in (w.at + 1)..Len(w.path) : w.path[i] = o[i - (w.at + 1) + m]
    BY <1>7, <1>8
  <1> HIDE DEF m
  <1>11. Reads(there, o, v, m, e)
    <2>1. v.at = w.at + 1 /\ v.path = w.path /\ v = [path |-> v.path, at |-> v.at]
      OBVIOUS
    <2> HIDE DEF v
    <2>2. v.at = 2 * Len(e) + 1 /\ m \in 1..(Len(o) + 1) /\ v.at \in Nat \ {0} /\ Len(v.path) = v.at - 1 + (Len(o) - m + 1)
      BY <1>9, <2>1
    <2>3. \A i \in 1..(v.at - 1) : v.path[i] = Tok(e, i)
      BY <1>6, <1>9, <2>1
    <2>4. \A i \in v.at..Len(v.path) : v.path[i] = o[i - v.at + m]
      BY <1>10, <2>1
    <2>5. Walk(there, o)[m - 1] = In(e) /\ e \in there
      BY <1>4, <1>9
    <2>6. v.path \in Seq(Token)
      BY <1>1, <2>1
    <2> QED BY <1>10, <2>1, <2>2, <2>3, <2>4, <2>5, <2>6 DEF Reads
  <1>12. Reads(there, o, v, j + 1, e)
    BY <1>9, <1>11
  <1> QED BY <1>3, <1>12 DEF e

(* Where the path goes on behind the separator at w.at, and the path without what is between *)
After(w) == Min({k \in w.at + 1..Len(w.path) + 1 : k > Len(w.path) \/ w.path[k] \notin {"/", "."}})
Swallowed(w) == Joined(w.path, w.at, After(w))
Up(w, s) == w.at < Len(s) /\ s[w.at + 1] = ".."
Separators(w, s) == {q \in 1..w.at - 1 : s[q] = "/"}

LEMMA TurnIs ==
    ASSUME NEW w, ~(w.at > Len(w.path)), w.path[w.at] = "/", NEW s, s = Swallowed(w)
    PROVE  Turn(w) =
             IF Up(w, s) /\ Separators(w, s) # {}
             THEN [path |-> Joined(s, Max(Separators(w, s)) - 1, w.at + 2), at |-> Max(Separators(w, s))]
             ELSE LET t == IF Up(w, s) THEN PathUpto(s, w.at) ELSE s
                  IN  IF w.at = Len(t) /\ w.at # 1 THEN [path |-> PathUpto(t, w.at - 1), at |-> w.at]
                      ELSE [path |-> t, at |-> w.at + 1]
  BY DEF Turn, After, Swallowed, Joined, Up, Separators

\* What swallowing leaves: the j-th token, the separator, and then those from the n-th on.
Leaves(there, o, w, j, d, n) ==
    /\ n \in (j + 1)..(Len(o) + 1) /\ Walk(there, o)[n - 1] = In(d)
    /\ n <= Len(o) => o[n] \in Token \ {"/", "."}
    /\ Swallowed(w) \in Seq(Token) /\ Len(Swallowed(w)) = w.at + Len(o) - n + 1
    /\ \A i \in 1..w.at : Swallowed(w)[i] = Tok(d, i)
    /\ \A i \in (w.at + 1)..(w.at + Len(o) - n + 1) : Swallowed(w)[i] = o[i - w.at - 1 + n]

LEMMA SwallowLeaves ==
    ASSUME NEW there, NEW o, Good(there, o), NEW w, NEW j, NEW d, Reads(there, o, w, j, d), w.at = 2 * Len(d) + 1, j <= Len(o)
    PROVE  /\ \E n : Leaves(there, o, w, j, d, n)
           /\ ~(w.at > Len(w.path)) /\ w.path[w.at] = "/"
  <1> DEFINE p == w.at
             S == {k \in p + 1..Len(w.path) + 1 : k > Len(w.path) \/ w.path[k] \notin {"/", "."}}
             next == After(w)
             n == next - p + j
             s == Swallowed(w)
  <1>1. /\ d \in Tree /\ Len(d) \in Nat /\ Len(o) \in Nat /\ j \in 1..Len(o) /\ p = 2 * Len(d) + 1
        /\ p \in Nat /\ p # 0 /\ w.path \in Seq(Token) /\ Len(w.path) \in Nat /\ Len(w.path) = p - 1 + (Len(o) - j + 1)
        /\ o[j] = "/" /\ p <= Len(w.path)
    <2>1. d \in Tree /\ Len(d) \in Nat
      BY TreeFacts DEF Reads, Good, Closed
    <2>2. o \in Seq(Token) /\ j \in 1..(Len(o) + 1) /\ w.at \in Nat \ {0} /\ w.path \in Seq(Token) /\ Len(w.path) = w.at - 1 + (Len(o) - j + 1)
      BY DEF Reads, Good
    <2>3. o[j] = "/"
      BY <2>1, <2>2 DEF Reads
    <2> QED BY <2>1, <2>2, <2>3
  <1>2. \A i \in p..Len(w.path) : w.path[i] = o[i - p + j]
    BY DEF Reads
  <1>3. w.path[p] = "/"
    <2>1. p \in p..Len(w.path) /\ p - p + j = j
      BY <1>1
    <2>2. w.path[p] = o[p - p + j]
      BY <1>2, <2>1
    <2> QED BY <1>1, <2>1, <2>2
  <1>4. next \in S /\ \A k \in S : next <= k
    <2>1. Len(w.path) + 1 \in S /\ S \in SUBSET Nat
      BY <1>1
    <2>2. next = Min(S)
      BY DEF After
    <2> HIDE DEF S, next
    <2> QED BY <2>1, <2>2, MinFacts
  <1> HIDE DEF next
  <1>5. next \in Nat /\ next >= p + 1 /\ next <= Len(w.path) + 1
    BY <1>1, <1>4
  <1>6. n \in (j + 1)..(Len(o) + 1) /\ n \in Nat
    BY <1>1, <1>5
  <1>7. \A k \in (j + 1)..(n - 1) : o[k] \in {"/", "."}
    <2> SUFFICES ASSUME NEW k \in (j + 1)..(n - 1) PROVE o[k] \in {"/", "."}
      OBVIOUS
    <2>1. k - j + p \in p..Len(w.path) /\ k - j + p \in p + 1..Len(w.path) + 1 /\ (k - j + p) - p + j = k /\ ~(next <= k - j + p)
      BY <1>1, <1>5, <1>6
    <2>2. w.path[k - j + p] = o[k]
      BY <1>2, <2>1
    <2>3. k - j + p \notin S
      BY <1>4, <2>1
    <2> QED BY <2>1, <2>2, <2>3
  <1>8. Walk(there, o)[n - 1] = In(d)
    <2>1. Walk(there, o)[j] = In(d)
      <3>1. Walk(there, o)[j] = Visit(there, Walk(there, o)[j - 1], o[j])
        BY <1>1, WalkSteps
      <3>2. Walk(there, o)[j - 1] = In(d)
        BY DEF Reads
      <3> QED BY <1>1, <3>1, <3>2, VisitDot
    <2>2. j \in 0..Len(o) /\ n - 1 \in j..Len(o)
      BY <1>1, <1>6
    <2> HIDE DEF n
    <2> QED BY <1>1, <1>7, <2>1, <2>2, WalkOverDots
  <1>9. n <= Len(o) => o[n] \in Token \ {"/", "."}
    <2> SUFFICES ASSUME n <= Len(o) PROVE o[n] \in Token \ {"/", "."}
      OBVIOUS
    <2>1. next \in p..Len(w.path) /\ ~(next > Len(w.path)) /\ n \in 1..Len(o)
      BY <1>1, <1>5, <1>6
    <2>2. w.path[next] = o[n]
      BY <1>2, <2>1
    <2>3. w.path[next] \notin {"/", "."}
      BY <1>4, <2>1
    <2>4. o[n] \in Token
      BY <2>1, ElementOfSeq DEF Good
    <2> QED BY <2>2, <2>3, <2>4
  <1>10. /\ s \in Seq(Token) /\ Len(s) = p + Len(w.path) - next + 1
         /\ \A i \in 1..p : s[i] = w.path[i]
         /\ \A i \in (p + 1)..(p + Len(w.path) - next + 1) : s[i] = w.path[i - p + next - 1]
    <2>1. p \in 0..Len(w.path) /\ next \in 1..(Len(w.path) + 1)
      BY <1>1, <1>5
    <2>2. s = Joined(w.path, p, next)
      BY DEF Swallowed, next
    <2> HIDE DEF s, p
    <2> QED BY <1>1, <2>1, <2>2, JoinFacts
  <1>11. p + Len(w.path) - next + 1 = p + Len(o) - n + 1
    BY <1>1, <1>5
  <1>12. ASSUME NEW i \in 1..p PROVE s[i] = Tok(d, i)
    <2>1. CASE i = p
      <3>1. p \in 1..p
        BY <1>1
      <3>2. s[p] = "/"
        BY <1>3, <1>10, <3>1
      <3>3. Tok(d, 2 * Len(d) + 1) = "/"
        BY <1>1, TokFacts
      <3> QED BY <1>1, <2>1, <3>2, <3>3
    <2>2. CASE i # p
      <3>1. i \in 1..(p - 1)
        BY <1>1, <2>2
      <3>2. w.path[i] = Tok(d, i)
        BY <3>1 DEF Reads
      <3> QED BY <1>10, <3>2
    <2> QED BY <2>1, <2>2
  <1>13. ASSUME NEW i \in (p + 1)..(p + Len(o) - n + 1) PROVE s[i] = o[i - p - 1 + n]
    <2>1. i - p + next - 1 \in p..Len(w.path) /\ (i - p + next - 1) - p + j = i - p - 1 + n
      BY <1>1, <1>5, <1>11
    <2>2. s[i] = w.path[i - p + next - 1]
      BY <1>10, <1>11
    <2>3. w.path[i - p + next - 1] = o[(i - p + next - 1) - p + j]
      BY <1>2, <2>1
    <2> QED BY <2>1, <2>2, <2>3
  <1>14. Leaves(there, o, w, j, d, n)
    <2> HIDE DEF n
    <2> QED BY <1>6, <1>8, <1>9, <1>10, <1>11, <1>12, <1>13 DEF Leaves
  <1> QED BY <1>1, <1>3, <1>14

\* The path ends with a separator: it goes, but for the root.
LEMMA TurnLast ==
    ASSUME NEW there, NEW o, Good(there, o), NEW w, NEW j, NEW d, Reads(there, o, w, j, d), w.at = 2 * Len(d) + 1, j <= Len(o),
           NEW n, Leaves(there, o, w, j, d, n), n = Len(o) + 1
    PROVE  Reads(there, o, Turn(w), n, d)
  <1> DEFINE s == Swallowed(w)
  <1>1. /\ d \in Tree /\ d \in Seq(Token) /\ Len(d) \in Nat /\ Len(o) \in Nat /\ w.at \in Nat /\ w.at # 0
    BY TreeFacts DEF Reads, Good, Closed
  <1>2. s \in Seq(Token) /\ Len(s) = w.at /\ \A i \in 1..w.at : s[i] = Tok(d, i)
    BY <1>1 DEF Leaves
  <1>3. d \in there /\ Walk(there, o)[n - 1] = In(d) /\ n \in 1..(Len(o) + 1) /\ Len(o) - n + 1 = 0 /\ ~(n <= Len(o))
    BY <1>1 DEF Leaves, Reads
  <1>4. ~Up(w, s)
    BY <1>1, <1>2 DEF Up
  <1>5. Turn(w) = IF w.at = Len(s) /\ w.at # 1 THEN [path |-> PathUpto(s, w.at - 1), at |-> w.at] ELSE [path |-> s, at |-> w.at + 1]
    BY <1>4, SwallowLeaves, TurnIs
  <1> HIDE DEF s
  <1>6. CASE w.at # 1
    <2> DEFINE u == PathUpto(s, w.at - 1)
               v == [path |-> u, at |-> w.at]
    <2>1. w.at - 1 \in 0..Len(s)
      BY <1>1, <1>2
    <2>2. u \in Seq(Token) /\ Len(u) = w.at - 1 /\ \A i \in 1..(w.at - 1) : u[i] = s[i]
      BY <1>2, <2>1, UptoFacts
    <2> HIDE DEF u
    <2>3. Turn(w) = v
      BY <1>2, <1>5, <1>6 DEF u
    <2>4. v.path = u /\ v.at = w.at /\ v = [path |-> v.path, at |-> v.at]
      OBVIOUS
    <2> HIDE DEF v
    <2>5. \A i \in 1..(v.at - 1) : v.path[i] = Tok(d, i)
      BY <1>1, <1>2, <2>2, <2>4
    <2>6. Len(v.path) = v.at - 1 + (Len(o) - n + 1) /\ v.at \in Nat \ {0} /\ v.path \in Seq(Token)
      BY <1>1, <1>3, <2>2, <2>4
    <2>7. \A i \in v.at..Len(v.path) : v.path[i] = o[i - v.at + n]
      BY <1>1, <2>2, <2>4
    <2>8. v.at = 2 * Len(d) + 1
      BY <2>4
    <2> QED BY <1>3, <2>3, <2>4, <2>5, <2>6, <2>7, <2>8 DEF Reads
  <1>7. CASE w.at = 1
    <2> DEFINE v == [path |-> s, at |-> w.at + 1]
    <2>1. Turn(w) = v
      BY <1>5, <1>7
    <2>2. d = <<>>
      BY <1>1, <1>7
    <2>3. v.path = s /\ v.at = 2 /\ v.at - 1 = w.at /\ v = [path |-> v.path, at |-> v.at]
      BY <1>7
    <2> HIDE DEF v
    <2>4. \A i \in 1..(v.at - 1) : v.path[i] = Tok(d, i)
      BY <1>2, <2>3
    <2>5. Len(v.path) = v.at - 1 + (Len(o) - n + 1) /\ v.at \in Nat \ {0} /\ v.path \in Seq(Token)
      BY <1>1, <1>2, <1>3, <2>3
    <2>6. \A i \in v.at..Len(v.path) : v.path[i] = o[i - v.at + n]
      BY <1>1, <1>2, <1>7, <2>3
    <2> QED BY <1>3, <2>1, <2>2, <2>3, <2>4, <2>5, <2>6 DEF Reads
  <1> QED BY <1>6, <1>7

\* A name comes.
LEMMA TurnToName ==
    ASSUME NEW there, NEW o, Good(there, o), NEW w, NEW j, NEW d, Reads(there, o, w, j, d), w.at = 2 * Len(d) + 1, j <= Len(o),
           NEW n, Leaves(there, o, w, j, d, n), n <= Len(o), o[n] # ".."
    PROVE  Reads(there, o, Turn(w), n, d)
  <1> DEFINE s == Swallowed(w)
             v == [path |-> s, at |-> w.at + 1]
  <1>1. /\ d \in Tree /\ d \in Seq(Token) /\ Len(d) \in Nat /\ Len(o) \in Nat /\ w.at \in Nat /\ w.at # 0 /\ n \in Nat /\ n \in 1..(Len(o) + 1)
    <2>1. d \in Tree /\ d \in Seq(Token) /\ Len(d) \in Nat /\ Len(o) \in Nat /\ w.at \in Nat /\ w.at # 0 /\ j \in Nat /\ j >= 1
      BY ReadsTypes
    <2>2. n \in (j + 1)..(Len(o) + 1)
      BY DEF Leaves
    <2> QED BY <2>1, <2>2
  <1>2. /\ s \in Seq(Token) /\ Len(s) = w.at + Len(o) - n + 1
        /\ \A i \in 1..w.at : s[i] = Tok(d, i)
        /\ \A i \in (w.at + 1)..(w.at + Len(o) - n + 1) : s[i] = o[i - w.at - 1 + n]
    BY DEF Leaves
  <1>3. d \in there /\ Walk(there, o)[n - 1] = In(d) /\ IsName(o[n])
    BY DEF Leaves, Reads, IsName, Dots
  <1>4. s[w.at + 1] = o[n] /\ w.at < Len(s)
    <2>1. w.at + 1 \in (w.at + 1)..(w.at + Len(o) - n + 1) /\ w.at + 1 - w.at - 1 + n = n /\ w.at < Len(s)
      BY <1>1, <1>2
    <2>2. s[w.at + 1] = o[w.at + 1 - w.at - 1 + n]
      BY <2>1 DEF Leaves
    <2> QED BY <2>1, <2>2
  <1>5. ~Up(w, s)
    BY <1>4 DEF Up
  <1>6. Turn(w) = v
    <2>1. Turn(w) = IF w.at = Len(s) /\ w.at # 1 THEN [path |-> PathUpto(s, w.at - 1), at |-> w.at] ELSE v
      BY <1>5, SwallowLeaves, TurnIs
    <2>2. w.at # Len(s)
      BY <1>1, <1>2, <1>4
    <2> QED BY <2>1, <2>2
  <1> HIDE DEF s
  <1>7. v.path = s /\ v.at = w.at + 1 /\ v.at - 1 = w.at /\ v = [path |-> v.path, at |-> v.at]
    BY <1>1
  <1> HIDE DEF v
  <1>8. \A i \in 1..(v.at - 1) : v.path[i] = Tok(d, i)
    BY <1>2, <1>7
  <1>9. /\ Len(v.path) = v.at - 1 + (Len(o) - n + 1) /\ v.at \in Nat \ {0} /\ v.path \in Seq(Token)
        /\ v.at = 2 * Len(d) + 2
    BY <1>1, <1>2, <1>7
  <1>10. ASSUME NEW i \in v.at..Len(v.path) PROVE v.path[i] = o[i - v.at + n]
    <2>1. i \in (w.at + 1)..(w.at + Len(o) - n + 1) /\ i - w.at - 1 + n = i - v.at + n
      BY <1>1, <1>2, <1>7
    <2>2. s[i] = o[i - w.at - 1 + n]
      BY <1>2, <2>1
    <2> QED BY <1>7, <2>1, <2>2
  <1> QED BY <1>1, <1>3, <1>6, <1>7, <1>8, <1>9, <1>10 DEF Reads

\* ".." at the root: what follows goes.
LEMMA TurnCuts ==
    ASSUME NEW there, NEW o, Good(there, o), NEW w, NEW j, NEW d, Reads(there, o, w, j, d), w.at = 2 * Len(d) + 1, j <= Len(o),
           NEW n, Leaves(there, o, w, j, d, n), n <= Len(o), o[n] = "..", d = <<>>
    PROVE  Turn(w) = [path |-> <<"/">>, at |-> 2] /\ Walk(there, o)[Len(o)].out = TRUE
  <1> DEFINE s == Swallowed(w)
  <1>1. Len(o) \in Nat /\ w.at = 1 /\ n \in Nat /\ n \in 1..(Len(o) + 1) /\ n \in 1..Len(o) /\ n \in 0..Len(o)
    <2>1. Len(o) \in Nat /\ w.at \in Nat /\ j \in Nat /\ j >= 1 /\ w.at = 1
      BY ReadsTypes
    <2>2. n \in (j + 1)..(Len(o) + 1)
      BY DEF Leaves
    <2> QED BY <2>1, <2>2
  <1>2. s \in Seq(Token) /\ Len(s) = w.at + Len(o) - n + 1 /\ \A i \in 1..w.at : s[i] = Tok(d, i)
    BY DEF Leaves
  <1>3. s[1] = "/"
    <2>1. Tok(d, 2 * 0 + 1) = "/"
      BY TokFacts
    <2> QED BY <1>1, <1>2, <2>1
  <1>4. Separators(w, s) = {}
    BY <1>1 DEF Separators
  <1>5. Up(w, s)
    <2>1. w.at + 1 \in (w.at + 1)..(w.at + Len(o) - n + 1) /\ w.at + 1 - w.at - 1 + n = n /\ w.at < Len(s)
      BY <1>1, <1>2
    <2>2. s[w.at + 1] = o[w.at + 1 - w.at - 1 + n]
      BY <2>1 DEF Leaves
    <2> QED BY <2>1, <2>2 DEF Up
  <1>6. Turn(w) = LET t == PathUpto(s, w.at)
                  IN  IF w.at = Len(t) /\ w.at # 1 THEN [path |-> PathUpto(t, w.at - 1), at |-> w.at] ELSE [path |-> t, at |-> w.at + 1]
    BY <1>4, <1>5, SwallowLeaves, TurnIs
  <1> HIDE DEF s
  <1>7. PathUpto(s, 1) = <<"/">>
    <2>1. 1 \in 0..Len(s)
      BY <1>1, <1>2
    <2>2. PathUpto(s, 1) \in Seq(Token) /\ Len(PathUpto(s, 1)) = 1 /\ \A i \in 1..1 : PathUpto(s, 1)[i] = s[i]
      BY <1>2, <2>1, UptoFacts
    <2>3. PathUpto(s, 1)[1] = "/"
      BY <1>3, <2>2
    <2> QED BY <2>2, <2>3
  <1>8. Turn(w) = [path |-> <<"/">>, at |-> 2]
    BY <1>1, <1>6, <1>7
  <1>9. Walk(there, o)[n].out = TRUE
    <2>1. Walk(there, o)[n] = Visit(there, Walk(there, o)[n - 1], o[n])
      BY <1>1, WalkSteps
    <2>2. Walk(there, o)[n - 1] = In(<<>>)
      BY DEF Leaves
    <2> QED BY <2>1, <2>2, VisitOut
  <1> QED BY <1>1, <1>8, <1>9, WalkStays

\* ".." takes the last directory away.
LEMMA TurnUp ==
    ASSUME NEW there, NEW o, Good(there, o), NEW w, NEW j, NEW d, Reads(there, o, w, j, d), w.at = 2 * Len(d) + 1, j <= Len(o),
           NEW n, Leaves(there, o, w, j, d, n), n <= Len(o), o[n] = "..", d # <<>>
    PROVE  Reads(there, o, Turn(w), n + 1, PathUpto(d, Len(d) - 1))
  <1> DEFINE s == Swallowed(w)
             p == w.at
             e == PathUpto(d, Len(d) - 1)
             u == Joined(s, p - 3, p + 2)
             v == [path |-> u, at |-> p - 2]
  <1>1. /\ d \in there /\ d \in Tree /\ d \in Seq(Token) /\ Len(d) \in Nat /\ Len(d) # 0 /\ Len(o) \in Nat /\ p \in Nat /\ p = 2 * Len(d) + 1
        /\ n \in Nat /\ n >= 2 /\ n <= Len(o) /\ n \in 1..Len(o)
    <2>1. d \in there /\ d \in Tree /\ d \in Seq(Token) /\ Len(d) \in Nat /\ Len(o) \in Nat /\ p \in Nat /\ j \in Nat /\ j >= 1 /\ p = 2 * Len(d) + 1
      BY ReadsTypes
    <2>2. n \in (j + 1)..(Len(o) + 1) /\ n <= Len(o)
      BY DEF Leaves
    <2>3. Len(d) # 0
      BY <2>1
    <2> QED BY <2>1, <2>2, <2>3
  <1>2. s \in Seq(Token) /\ Len(s) = p + Len(o) - n + 1
    BY DEF Leaves
  <1>3. \A i \in 1..p : s[i] = Tok(d, i)
    BY DEF Leaves
  <1>4. \A i \in (p + 1)..(p + Len(o) - n + 1) : s[i] = o[i - p - 1 + n]
    BY DEF Leaves
  <1>5. ~(p > Len(w.path)) /\ w.path[p] = "/"
    BY SwallowLeaves
  <1>6. Up(w, s)
    <2>1. p + 1 \in (p + 1)..(p + Len(o) - n + 1) /\ p + 1 - p - 1 + n = n /\ p < Len(s)
      BY <1>1, <1>2
    <2>2. s[p + 1] = o[p + 1 - p - 1 + n]
      BY <2>1 DEF Leaves
    <2> QED BY <2>1, <2>2 DEF Up
  <1>7. Separators(w, s) \in SUBSET Nat /\ p - 2 \in Separators(w, s) /\ \A q \in Separators(w, s) : q <= p - 2
    <2>1. s[p - 2] = "/"
      <3>1. Len(d) - 1 \in Nat /\ p - 2 = 2 * (Len(d) - 1) + 1 /\ p - 2 \in 1..p
        BY <1>1
      <3>2. Tok(d, 2 * (Len(d) - 1) + 1) = "/"
        BY <3>1, TokFacts
      <3> QED BY <1>3, <3>1, <3>2
    <2>2. s[p - 1] # "/"
      <3>1. Len(d) \in Nat /\ p - 1 = 2 * Len(d) /\ p - 1 \in 1..p /\ Len(d) \in 1..Len(d)
        BY <1>1
      <3>2. Tok(d, 2 * Len(d)) = d[Len(d)]
        BY <3>1, TokFacts
      <3>3. s[p - 1] = d[Len(d)]
        BY <1>3, <3>1, <3>2
      <3>4. IsName(d[Len(d)])
        BY <1>1, <3>1, TreeFacts
      <3> QED BY <3>3, <3>4 DEF IsName, Dots
    <2>3. \A q \in 1..p - 1 : q \in Nat /\ (q <= p - 2 \/ q = p - 1)
      BY <1>1
    <2>4. p - 2 \in 1..p - 1
      BY <1>1
    <2> HIDE DEF s
    <2> QED BY <2>1, <2>2, <2>3, <2>4 DEF Separators
  <1>8. Turn(w) = v
    <2>1. Max(Separators(w, s)) = p - 2 /\ Separators(w, s) # {}
      BY <1>7, MaxIs
    <2>2. Turn(w) = [path |-> Joined(s, Max(Separators(w, s)) - 1, p + 2), at |-> Max(Separators(w, s))]
      BY <1>5, <1>6, <2>1, TurnIs
    <2>3. p - 2 - 1 = p - 3
      BY <1>1
    <2> HIDE DEF s, p
    <2> QED BY <2>1, <2>2, <2>3
  <1>9. /\ Len(e) = Len(d) - 1 /\ \A k \in 1..(Len(d) - 1) : e[k] = d[k]
        /\ e \in there /\ Walk(there, o)[n] = In(e)
    <2>1. Len(d) - 1 \in 0..Len(d)
      BY <1>1
    <2>2. Len(e) = Len(d) - 1 /\ \A k \in 1..(Len(d) - 1) : e[k] = d[k]
      BY <1>1, <2>1, UptoFacts
    <2>3. e \in there
      BY <1>1, <2>1 DEF Good, Closed
    <2>4. Walk(there, o)[n] = Visit(there, Walk(there, o)[n - 1], o[n])
      BY <1>1, WalkSteps
    <2>5. Walk(there, o)[n - 1] = In(d)
      BY DEF Leaves
    <2>6. Walk(there, o)[n] = In(e)
      BY <1>1, <2>4, <2>5, VisitUp
    <2> QED BY <2>2, <2>3, <2>6
  <1> HIDE DEF s, e
  <1>10. /\ u \in Seq(Token) /\ Len(u) = p - 3 + (Len(o) - n)
         /\ \A i \in 1..(p - 3) : u[i] = s[i]
         /\ \A i \in (p - 2)..(p - 3 + (Len(o) - n)) : u[i] = s[i - (p - 3) + (p + 2) - 1]
    <2>1. p - 3 \in 0..Len(s) /\ p + 2 \in 1..(Len(s) + 1) /\ p - 3 + 1 = p - 2 /\ p - 3 + Len(s) - (p + 2) + 1 = p - 3 + (Len(o) - n)
      BY <1>1, <1>2
    <2> DEFINE a == p - 3
               b == p + 2
    <2> HIDE DEF a, b
    <2>2. a \in 0..Len(s) /\ b \in 1..(Len(s) + 1)
      BY <2>1 DEF a, b
    <2>3. /\ Joined(s, a, b) \in Seq(Token) /\ Len(Joined(s, a, b)) = a + Len(s) - b + 1
          /\ \A i \in 1..a : Joined(s, a, b)[i] = s[i]
          /\ \A i \in (a + 1)..(a + Len(s) - b + 1) : Joined(s, a, b)[i] = s[i - a + b - 1]
      BY <1>2, <2>2, JoinFacts
    <2>4. u = Joined(s, a, b)
      BY DEF a, b
    <2> HIDE DEF u, p
    <2> QED BY <2>1, <2>3, <2>4 DEF a, b
  <1> HIDE DEF u
  <1>11. v.path = u /\ v.at = p - 2 /\ v = [path |-> v.path, at |-> v.at]
    OBVIOUS
  <1> HIDE DEF v
  <1>12. /\ v.at \in Nat \ {0} /\ v.path \in Seq(Token) /\ Len(v.path) = v.at - 1 + (Len(o) - (n + 1) + 1)
         /\ v.at = 2 * Len(e) + 1 /\ n + 1 \in 1..(Len(o) + 1) /\ n + 1 - 1 = n
    BY <1>1, <1>9, <1>10, <1>11
  <1>13. ASSUME NEW i \in 1..(v.at - 1) PROVE v.path[i] = Tok(e, i)
    <2>1. i \in 1..(p - 3) /\ i \in 1..p /\ i \in 1..(2 * (Len(d) - 1) + 1) /\ Len(d) - 1 \in Nat
      BY <1>1, <1>11
    <2>2. Tok(e, i) = Tok(d, i)
      BY <1>9, <2>1, TokSame
    <2> QED BY <1>3, <1>10, <1>11, <2>1, <2>2
  <1> DEFINE m == n + 1
  <1>14. ASSUME NEW i \in v.at..Len(v.path) PROVE v.path[i] = o[i - v.at + m]
    <2>0. p \in Nat /\ p >= 3 /\ Len(o) \in Nat /\ n \in Nat /\ v.at = p - 2 /\ Len(v.path) = p - 3 + (Len(o) - n)
      BY <1>1, <1>10, <1>11
    <2> HIDE DEF p
    <2> DEFINE k == i - (p - 3) + (p + 2) - 1
               l == i - v.at + m
    <2>1. /\ i \in (p - 2)..(p - 3 + (Len(o) - n)) /\ k \in (p + 1)..(p + Len(o) - n + 1) /\ k - p - 1 + n = l
      BY <2>0
    <2>2. u[i] = s[k]
      BY <1>10, <2>1
    <2> HIDE DEF k, l, m
    <2>4. s[k] = o[k - p - 1 + n]
      BY <1>4, <2>1
    <2>5. s[k] = o[l]
      BY <2>1, <2>4
    <2>6. v.path[i] = o[l]
      BY <1>11, <2>2, <2>5
    <2> QED BY <2>6 DEF l
  <1>15. m <= Len(o) => o[m] = "/"
    <2> SUFFICES ASSUME m <= Len(o) PROVE o[m] = "/"
      OBVIOUS
    <2>1. n \in 1..(Len(o) - 1)
      BY <1>1
    <2>2. "/" \in {o[n], o[n + 1]}
      BY <2>1 DEF Good
    <2> QED BY <2>2
  <1>16. m - 1 = n /\ m \in 1..(Len(o) + 1) /\ Len(v.path) = v.at - 1 + (Len(o) - m + 1) /\ m = n + 1
    BY <1>1, <1>12
  <1> HIDE DEF m
  <1>17. Reads(there, o, v, m, e)
    <2>1. v = [path |-> v.path, at |-> v.at]
      BY <1>11
    <2>2. e \in there /\ Walk(there, o)[m - 1] = In(e)
      BY <1>9, <1>16
    <2>3. v.at \in Nat \ {0} /\ v.path \in Seq(Token) /\ v.at = 2 * Len(e) + 1
      BY <1>12
    <2> HIDE DEF p
    <2> QED BY <1>13, <1>14, <1>15, <1>16, <2>1, <2>2, <2>3 DEF Reads
  <1>18. Reads(there, o, v, n + 1, e)
    BY <1>16, <1>17
  <1> QED BY <1>8, <1>18 DEF e

-----------------------------------------------------------------------------
(* The loop *)

\* Where the loop is once it has cut a path that climbs out of the root.
Cut == [path |-> <<"/">>, at |-> 2]

\* A turn goes on in the path until it is read, or cuts it.
LEMMA TurnKeeps ==
    ASSUME NEW there, NEW o, Good(there, o), NEW w, NEW j, NEW d, Reads(there, o, w, j, d)
    PROVE  \/ Turn(w) = Cut /\ Walk(there, o)[Len(o)].out = TRUE
           \/ \E i, e : i > j /\ Reads(there, o, Turn(w), i, e)
           \/ j = Len(o) + 1 /\ Reads(there, o, Turn(w), j, d)
  <1>1. Len(o) \in Nat /\ j \in Nat /\ j >= 1 /\ j <= Len(o) + 1
    BY ReadsTypes
  <1>2. CASE j = Len(o) + 1
    BY <1>2, TurnEnds
  <1>3. CASE j <= Len(o) /\ w.at = 2 * Len(d) + 2 /\ IsName(o[j])
    <2>1. Reads(there, o, Turn(w), j + 1, Append(d, o[j]))
      BY <1>3, TurnName
    <2> QED BY <1>1, <2>1
  <1>4. CASE j <= Len(o) /\ w.at = 2 * Len(d) + 1
    <2>1. PICK n : Leaves(there, o, w, j, d, n)
      BY <1>4, SwallowLeaves
    <2>2. n \in Nat /\ n > j /\ (n <= Len(o) \/ n = Len(o) + 1)
      <3>1. n \in (j + 1)..(Len(o) + 1)
        BY <2>1 DEF Leaves
      <3> QED BY <1>1, <3>1
    <2>3. CASE n = Len(o) + 1
      BY <1>4, <2>1, <2>2, <2>3, TurnLast
    <2>4. CASE n <= Len(o) /\ o[n] # ".."
      BY <1>4, <2>1, <2>2, <2>4, TurnToName
    <2>5. CASE n <= Len(o) /\ o[n] = ".." /\ d = <<>>
      BY <1>4, <2>1, <2>5, TurnCuts DEF Cut
    <2>6. CASE n <= Len(o) /\ o[n] = ".." /\ d # <<>>
      <3>1. Reads(there, o, Turn(w), n + 1, PathUpto(d, Len(d) - 1)) /\ n + 1 > j
        BY <1>1, <1>4, <2>1, <2>2, <2>6, TurnUp
      <3> QED BY <3>1
    <2> QED BY <2>2, <2>3, <2>4, <2>5, <2>6, Zenon
  <1>5. j = Len(o) + 1 \/ j <= Len(o)
    BY <1>1
  <1>6. j <= Len(o) => \/ w.at = 2 * Len(d) + 1
                       \/ w.at = 2 * Len(d) + 2 /\ IsName(o[j])
    BY <1>1 DEF Reads
  <1> QED BY <1>2, <1>3, <1>4, <1>5, <1>6

\* After k turns at least k tokens are read.
Kept(there, o, k, w) == \/ w = Cut /\ Walk(there, o)[Len(o)].out = TRUE
                        \/ \E j, d : (j > k \/ j = Len(o) + 1) /\ Reads(there, o, w, j, d)

LEMMA KeptByTurn ==
    ASSUME NEW there, NEW o, Good(there, o), NEW k \in Nat, NEW w, Kept(there, o, k, w)
    PROVE  Kept(there, o, k + 1, Turn(w))
  <1>1. CASE w = Cut /\ Walk(there, o)[Len(o)].out = TRUE
    <2>1. Cut.at > Len(Cut.path)
      BY DEF Cut
    <2>2. Turn(Cut) = Cut
      BY <2>1 DEF Turn
    <2> QED BY <1>1, <2>2 DEF Kept
  <1>2. ASSUME NEW j, NEW d, j > k \/ j = Len(o) + 1, Reads(there, o, w, j, d)
        PROVE  Kept(there, o, k + 1, Turn(w))
    <2>1. Len(o) \in Nat /\ j \in Nat
      BY <1>2, ReadsTypes
    <2>2. ASSUME NEW i, NEW e, i > j, Reads(there, o, Turn(w), i, e) PROVE Kept(there, o, k + 1, Turn(w))
      <3>1. i \in Nat /\ i <= Len(o) + 1
        BY <2>2, ReadsTypes
      <3>2. i > k + 1 \/ i = Len(o) + 1
        BY <1>2, <2>1, <2>2, <3>1
      <3> QED BY <2>2, <3>2 DEF Kept
    <2>3. CASE j = Len(o) + 1 /\ Reads(there, o, Turn(w), j, d)
      BY <2>3 DEF Kept
    <2>4. CASE Turn(w) = Cut /\ Walk(there, o)[Len(o)].out = TRUE
      BY <2>4 DEF Kept
    <2> QED BY <1>2, <2>2, <2>3, <2>4, TurnKeeps
  <1> QED BY <1>1, <1>2 DEF Kept

LEMMA ReadsFirst ==
    ASSUME NEW there, NEW o, Good(there, o)
    PROVE  Reads(there, o, [path |-> o, at |-> 1], 1, <<>>)
  <1> DEFINE v == [path |-> o, at |-> 1]
             d == <<>>
  <1>1. v.path = o /\ v.at = 1 /\ v = [path |-> v.path, at |-> v.at]
    OBVIOUS
  <1>2. Len(o) \in Nat /\ o \in Seq(Token) /\ d \in there /\ o[1] = "/" /\ Len(d) = 0
    BY DEF Good, Closed
  <1>3. Walk(there, o)[1 - 1] = In(d)
    BY <1>2, WalkSteps DEF Root, In
  <1> HIDE DEF v, d
  <1>4. /\ 1 \in 1..(Len(o) + 1) /\ v.at \in Nat \ {0} /\ Len(v.path) = v.at - 1 + (Len(o) - 1 + 1) /\ v.path \in Seq(Token)
        /\ v.at = 2 * Len(d) + 1 /\ 1..(v.at - 1) = {}
    BY <1>1, <1>2
  <1>5. \A i \in v.at..Len(v.path) : v.path[i] = o[i - v.at + 1]
    BY <1>1, <1>2
  <1>6. Reads(there, o, v, 1, d)
    BY <1>1, <1>2, <1>3, <1>4, <1>5 DEF Reads
  <1> QED BY <1>6 DEF v, d

\* When the loop ends it has cut the path or read it.
LEMMA TurnsEnd ==
    ASSUME NEW there, NEW o, Good(there, o)
    PROVE  \E w : /\ Turns(o) = w.path
                  /\ \/ w = Cut /\ Walk(there, o)[Len(o)].out = TRUE
                     \/ \E d : Reads(there, o, w, Len(o) + 1, d)
  <1>1. Len(o) \in Nat
    BY DEF Good
  <1>2. PICK f : /\ Turns(o) = f[Len(o)].path
                 /\ f[0] = [path |-> o, at |-> 1]
                 /\ \A k \in 1..Len(o) : f[k] = Turn(f[k - 1])
    BY <1>1, TurnsAreTaken
  <1> DEFINE Without == {k \in Nat : k <= Len(o) /\ ~Kept(there, o, k, f[k])}
  <1>3. Kept(there, o, 0, f[0])
    BY <1>2, ReadsFirst DEF Kept
  <1>4. Without = {}
    <2> SUFFICES ASSUME Without # {} PROVE FALSE
      OBVIOUS
    <2>1. PICK k \in Without : \A l \in Without : k <= l
      <3>1. Without \in SUBSET Nat
        OBVIOUS
      <3> HIDE DEF Without
      <3> QED BY <3>1, LeastOf
    <2>2. k \in Nat /\ k # 0 /\ k <= Len(o) /\ ~Kept(there, o, k, f[k])
      BY <1>3, <2>1
    <2> DEFINE l == k - 1
    <2>3. l \in Nat /\ l + 1 = k /\ l <= Len(o) /\ ~(k <= l) /\ k \in 1..Len(o)
      BY <1>1, <2>2
    <2>4. f[k] = Turn(f[l])
      BY <1>2, <2>3
    <2> HIDE DEF l
    <2>5. Kept(there, o, l, f[l])
      BY <2>1, <2>3
    <2>6. Kept(there, o, l + 1, Turn(f[l]))
      BY <2>3, <2>5, KeptByTurn
    <2> QED BY <2>2, <2>3, <2>4, <2>6
  <1>5. Kept(there, o, Len(o), f[Len(o)])
    BY <1>1, <1>4
  <1>6. ASSUME NEW j, NEW d, j > Len(o) \/ j = Len(o) + 1, Reads(there, o, f[Len(o)], j, d) PROVE j = Len(o) + 1
    BY <1>6, ReadsTypes
  <1> QED BY <1>2, <1>5, <1>6 DEF Kept

-----------------------------------------------------------------------------
(* Canonical paths *)

LEMMA CanonicalFacts ==
    ASSUME NEW d \in Tree
    PROVE  /\ Canonical(d) \in Seq(Token) /\ Canonical(d) # <<>>
           /\ Len(Canonical(d)) = IF d = <<>> THEN 1 ELSE 2 * Len(d)
           /\ \A i \in 1..Len(Canonical(d)) : Canonical(d)[i] = Tok(d, i)
           /\ Canonical(d)[1] = "/"
  <1>1. d \in Seq(Token) /\ Len(d) \in Nat /\ "/" \in Token
    BY TreeFacts DEF Token, Dots
  <1>2. Tok(d, 1) = "/"
    BY DEF Tok
  <1>3. CASE d = <<>>
    <2>1. Canonical(d) = <<"/">>
      BY <1>3 DEF Canonical
    <2> DEFINE c == <<"/">>
    <2>2. c \in Seq(Token) /\ c # <<>> /\ Len(c) = 1 /\ c[1] = "/"
      BY <1>1
    <2>3. \A i \in 1..Len(c) : i = 1
      BY <2>2
    <2>4. \A i \in 1..Len(c) : c[i] = Tok(d, i)
      BY <1>2, <2>2, <2>3
    <2> HIDE DEF c
    <2> QED BY <1>3, <2>1, <2>2, <2>4 DEF c
  <1>4. CASE d # <<>>
    <2>1. Len(d) # 0 /\ 2 * Len(d) \in Nat
      BY <1>1, <1>4
    <2>2. ASSUME NEW i \in 1..2 * Len(d) PROVE Tok(d, i) \in Token
      <3>1. CASE i % 2 = 1
        BY <1>1, <3>1 DEF Tok
      <3>2. CASE i % 2 # 1
        <4>1. i \div 2 \in 1..Len(d)
          BY <1>1, <3>2
        <4>2. d[i \div 2] \in Token
          BY <1>1, <4>1, ElementOfSeq
        <4> QED BY <3>2, <4>2 DEF Tok
      <3> QED BY <3>1, <3>2
    <2>3. Canonical(d) = [i \in 1..2 * Len(d) |-> Tok(d, i)]
      BY <1>4 DEF Canonical, Tok
    <2>4. Canonical(d) \in Seq(Token) /\ Len(Canonical(d)) = 2 * Len(d)
      <3> DEFINE n == 2 * Len(d)
                 c == [i \in 1..n |-> Tok(d, i)]
      <3>1. c \in [1..n -> Token]
        BY <2>2
      <3>2. n \in Nat
        BY <2>1
      <3> HIDE DEF n
      <3>3. c \in Seq(Token) /\ Len(c) = n
        BY <3>1, <3>2
      <3> QED BY <2>3, <3>3 DEF n
    <2> QED BY <1>2, <1>4, <2>1, <2>3, <2>4
  <1> QED BY <1>3, <1>4

LEMMA CanonicalBegins ==
    ASSUME NEW d \in Tree
    PROVE  LET p == Canonical(d) IN p # <<>> /\ p[1] = "/" /\ (Len(p) > 1 => p[2] # "/")
  <1> DEFINE p == Canonical(d)
  <1>1. /\ p # <<>> /\ p[1] = "/" /\ Len(p) = (IF d = <<>> THEN 1 ELSE 2 * Len(d)) /\ \A i \in 1..Len(p) : p[i] = Tok(d, i)
    BY CanonicalFacts
  <1> HIDE DEF p
  <1>2. ASSUME Len(p) > 1 PROVE p[2] # "/"
    <2>1. 1 \in 1..Len(d) /\ 2 \in 1..Len(p)
      BY <1>1, <1>2, TreeFacts
    <2>2. p[2] = d[1]
      <3>1. 2 % 2 # 1 /\ 2 \div 2 = 1
        OBVIOUS
      <3> QED BY <1>1, <2>1, <3>1 DEF Tok
    <2>3. IsName(d[1])
      BY <2>1, TreeFacts
    <2> QED BY <2>2, <2>3 DEF IsName, Dots
  <1> QED BY <1>1, <1>2 DEF p

LEMMA CanonicalIs ==
    ASSUME NEW d \in Tree, NEW p \in Seq(Token), Len(p) = Len(Canonical(d)), \A i \in 1..Len(p) : p[i] = Tok(d, i)
    PROVE  p = Canonical(d)
  <1>1. Canonical(d) \in Seq(Token) /\ \A i \in 1..Len(p) : p[i] = Canonical(d)[i]
    BY CanonicalFacts
  <1> HIDE DEF Canonical
  <1> QED BY <1>1, SeqEqual

\* What pBat_Canonicalize leaves of a path to a directory.
LEMMA CanonicalizeFacts ==
    ASSUME NEW there, NEW o, Good(there, o)
    PROVE  LET here == Walk(there, o)[Len(o)].dir
           IN  \/ Canonicalize(o) = <<"/">> /\ Walk(there, o)[Len(o)].out = TRUE
               \/ here \in there /\ (Canonicalize(o) = Canonical(here) \/ (here = <<>> /\ Canonicalize(o) = <<>>))
  <1> DEFINE here == Walk(there, o)[Len(o)].dir
  <1>1. PICK w : /\ Turns(o) = w.path
                 /\ \/ w = Cut /\ Walk(there, o)[Len(o)].out = TRUE
                    \/ \E d : Reads(there, o, w, Len(o) + 1, d)
    BY TurnsEnd
  <1>2. CASE w = Cut /\ Walk(there, o)[Len(o)].out = TRUE
    BY <1>1, <1>2 DEF Canonicalize, Cut
  <1>3. ASSUME NEW d, Reads(there, o, w, Len(o) + 1, d)
        PROVE  /\ d \in there /\ Walk(there, o)[Len(o)].dir = d
               /\ w.path = Canonical(d) \/ (d = <<>> /\ w.path = <<>>)
    <2>1. /\ d \in there /\ d \in Tree /\ Len(d) \in Nat /\ Len(o) \in Nat /\ w.at \in Nat /\ w.at # 0
      BY <1>3, ReadsTypes
    <2>2. Walk(there, o)[Len(o) + 1 - 1] = In(d) /\ Len(o) + 1 - 1 = Len(o)
      BY <1>3, <2>1 DEF Reads
    <2>3. Walk(there, o)[Len(o)].dir = d
      BY <2>2 DEF In
    <2>4. /\ w.path \in Seq(Token) /\ Len(w.path) = w.at - 1 + (Len(o) - (Len(o) + 1) + 1)
          /\ \A i \in 1..(w.at - 1) : w.path[i] = Tok(d, i)
          /\ w.at = 2 * Len(d) + 1 \/ (w.at = 2 /\ d = <<>>)
      BY <1>3, <2>1 DEF Reads
    <2>5. Len(w.path) = w.at - 1
      BY <2>1, <2>4
    <2>6. CASE w.at = 2 * Len(d) + 1 /\ d = <<>>
      <3>1. Len(w.path) = 0
        BY <2>5, <2>6
      <3> QED BY <2>1, <2>3, <2>4, <2>6, <3>1
    <2>7. CASE w.at = 2 * Len(d) + 1 /\ d # <<>>
      <3>1. Len(w.path) = Len(Canonical(d))
        BY <2>1, <2>5, <2>7, CanonicalFacts
      <3>2. w.path = Canonical(d)
        BY <2>1, <2>4, <2>5, <3>1, CanonicalIs
      <3> QED BY <2>1, <2>3, <3>2
    <2>8. CASE w.at = 2 /\ d = <<>>
      <3>1. Len(w.path) = Len(Canonical(d))
        BY <2>1, <2>5, <2>8, CanonicalFacts
      <3>2. w.path = Canonical(d)
        BY <2>1, <2>4, <2>5, <3>1, CanonicalIs
      <3> QED BY <2>1, <2>3, <3>2
    <2> QED BY <2>4, <2>6, <2>7, <2>8
  <1>4. ASSUME NEW d, Reads(there, o, w, Len(o) + 1, d)
        PROVE  here \in there /\ (w.path = Canonical(here) \/ (here = <<>> /\ w.path = <<>>))
    BY <1>3, <1>4
  <1> HIDE DEF here
  <1>5. CASE \E d : Reads(there, o, w, Len(o) + 1, d)
    <2>1. here \in there /\ (w.path = Canonical(here) \/ (here = <<>> /\ w.path = <<>>))
      BY <1>4, <1>5
    <2>2. Canonicalize(o) = w.path
      BY <1>1 DEF Canonicalize
    <2> QED BY <2>1, <2>2 DEF here
  <1> QED BY <1>1, <1>2, <1>5

\* The canonical path of a directory leads there, or nowhere when the directory is gone.
LEMMA WalkCanonical ==
    ASSUME NEW there, Closed(there), NEW d \in Tree
    PROVE  LET c == Canonical(d)
           IN  /\ Walk(there, c)[Len(c)].dir \in {d, Missing}
               /\ d \in there => Walk(there, c)[Len(c)] = In(d)
  <1> DEFINE c == Canonical(d)
             w(i) == Walk(there, c)[i]
             Right(i) == \/ w(i).dir = Missing /\ d \notin there
                         \/ w(i) = In(PathUpto(d, i \div 2))
             Without == {i \in Nat : i <= Len(c) /\ ~Right(i)}
  <1>1. /\ d \in Seq(Token) /\ Len(d) \in Nat /\ d # Missing /\ \A k \in 0..Len(d) : PathUpto(d, k) \in Tree
        /\ \A k \in 1..Len(d) : IsName(d[k])
    BY TreeFacts
  <1>2. /\ c \in Seq(Token) /\ Len(c) = (IF d = <<>> THEN 1 ELSE 2 * Len(d)) /\ \A i \in 1..Len(c) : c[i] = Tok(d, i)
        /\ Len(c) \in Nat /\ \A i \in 0..Len(c) : i \div 2 \in 0..Len(d)
    <2>1. c \in Seq(Token) /\ Len(c) = (IF d = <<>> THEN 1 ELSE 2 * Len(d)) /\ \A i \in 1..Len(c) : c[i] = Tok(d, i)
      BY CanonicalFacts
    <2> HIDE DEF c
    <2> QED BY <1>1, <2>1
  <1> HIDE DEF c
  <1>3. w(0) = Root /\ \A k \in 1..Len(c) : w(k) = Visit(there, w(k - 1), c[k])
    BY <1>2, WalkSteps
  <1>4. w(0) = In(PathUpto(d, 0 \div 2))
    <2>1. 0 \in 0..Len(d) /\ 0 \div 2 = 0
      BY <1>1
    <2>2. PathUpto(d, 0) \in Seq(Token) /\ Len(PathUpto(d, 0)) = 0
      BY <1>1, <2>1, UptoFacts
    <2>3. PathUpto(d, 0) = <<>>
      BY <2>2
    <2>4. In(<<>>) = Root
      BY DEF Root, In
    <2> HIDE DEF w
    <2> QED BY <1>3, <2>1, <2>3, <2>4
  <1> HIDE DEF w
  <1>5. ASSUME NEW i \in 1..Len(c), Right(i - 1) PROVE Right(i)
    <2> DEFINE k == i \div 2
               e == PathUpto(d, (i - 1) \div 2)
    <2>1. k \in 0..Len(d) /\ (i - 1) \div 2 \in 0..Len(d) /\ e \in Tree /\ Len(e) \in Nat
      <3>1. i \in 0..Len(c) /\ i - 1 \in 0..Len(c)
        BY <1>2
      <3>2. k \in 0..Len(d) /\ (i - 1) \div 2 \in 0..Len(d)
        BY <1>2, <3>1
      <3>3. e \in Tree
        BY <1>1, <3>2
      <3> QED BY <3>2, <3>3, TreeFacts
    <2>2. w(i) = Visit(there, w(i - 1), c[i]) /\ c[i] = Tok(d, i)
      BY <1>2, <1>3
    <2>3. CASE w(i - 1).dir = Missing /\ d \notin there
      BY <2>2, <2>3 DEF Visit
    <2>4. CASE w(i - 1) = In(e) /\ i % 2 = 1
      <3>1. (i - 1) \div 2 = k
        BY <1>2, <2>4
      <3>2. w(i) = In(e)
        <4>1. c[i] \in {"/", "."}
          BY <2>2, <2>4 DEF Tok
        <4> HIDE DEF e
        <4> QED BY <2>1, <2>2, <2>4, <4>1, VisitDot
      <3> QED BY <3>1, <3>2
    <2>5. CASE w(i - 1) = In(e) /\ i % 2 # 1
      <3>1. (i - 1) \div 2 = k - 1 /\ k \in 1..Len(d) /\ k \in Nat
        BY <1>1, <1>2, <2>1, <2>5
      <3>2. c[i] = d[k] /\ IsName(d[k])
        BY <1>1, <2>2, <2>5, <3>1 DEF Tok
      <3> DEFINE x == d[k]
      <3>3. Append(e, x) = PathUpto(d, k)
        BY <1>1, <2>1, <3>1, NextPrefix
      <3>4. e = PathUpto(d, k - 1)
        BY <3>1
      <3> HIDE DEF e, x
      <3>5. IF Append(e, x) \in there THEN w(i) = In(Append(e, x)) ELSE w(i).dir = Missing
        BY <2>1, <2>2, <2>5, <3>2, VisitName DEF x
      <3>6. d \in there => PathUpto(d, k) \in there
        BY <2>1 DEF Closed
      <3> QED BY <3>3, <3>5, <3>6
    <2> QED BY <1>5, <2>3, <2>4, <2>5
  <1>10. Right(0)
    BY <1>4
  <1> HIDE DEF Right
  <1>6. Without = {}
    <2> SUFFICES ASSUME Without # {} PROVE FALSE
      OBVIOUS
    <2>1. PICK i \in Without : \A l \in Without : i <= l
      <3>1. Without \in SUBSET Nat
        OBVIOUS
      <3> HIDE DEF Without
      <3> QED BY <3>1, LeastOf
    <2>2. i \in Nat /\ i # 0 /\ i <= Len(c) /\ ~Right(i)
      BY <1>10, <2>1
    <2>3. i - 1 \in Nat /\ i - 1 <= Len(c) /\ ~(i <= i - 1) /\ i \in 1..Len(c)
      BY <1>2, <2>2
    <2>4. Right(i - 1)
      BY <2>1, <2>3
    <2>5. Right(i)
      BY <1>5, <2>3, <2>4, Zenon
    <2> QED BY <2>2, <2>5
  <1>7. Right(Len(c))
    BY <1>2, <1>6
  <1>8. PathUpto(d, Len(c) \div 2) = d
    <2>1. Len(c) \div 2 = Len(d)
      <3>1. CASE d = <<>>
        <4>1. Len(c) = 1 /\ Len(d) = 0 /\ 1 \div 2 = 0
          BY <1>2, <3>1
        <4> QED BY <4>1
      <3>2. CASE d # <<>>
        <4>1. Len(c) = 2 * Len(d) /\ (2 * Len(d)) \div 2 = Len(d)
          BY <1>1, <1>2, <3>2
        <4> QED BY <4>1
      <3> QED BY <3>1, <3>2
    <2>2. Len(d) \in 0..Len(d)
      BY <1>1
    <2>3. PathUpto(d, Len(d)) \in Seq(Token) /\ Len(PathUpto(d, Len(d))) = Len(d) /\ \A i \in 1..Len(d) : PathUpto(d, Len(d))[i] = d[i]
      BY <1>1, <2>2, UptoFacts
    <2>4. PathUpto(d, Len(d)) = d
      BY <1>1, <2>3, SeqEqual
    <2> QED BY <2>1, <2>4
  <1>9. w(Len(c)).dir \in {d, Missing} /\ (d \in there => w(Len(c)) = In(d))
    BY <1>7, <1>8 DEF In, Right
  <1> QED BY <1>9 DEF c, w

\* A canonical path is left alone by pBat_Canonicalize in what it means: the rewritten path leads where the path led.
LEMMA RewrittenLeadsThere ==
    ASSUME NEW there, NEW o, Good(there, o)
    PROVE  LET c == Canonicalize(o)
           IN  /\ c \in CanonicalPaths
               /\ \/ Walk(there, o)[Len(o)].out = TRUE
                  \/ Walk(there, c)[Len(c)].dir = Walk(there, o)[Len(o)].dir
  <1> DEFINE c == Canonicalize(o)
             here == Walk(there, o)[Len(o)].dir
             goes == Walk(there, c)[Len(c)].dir
  <1>1. <<>> \in Tree /\ Canonical(<<>>) = <<"/">> /\ Closed(there)
    BY TreeAssumption DEF Canonical, Good
  <1>2. \/ c = <<"/">> /\ Walk(there, o)[Len(o)].out = TRUE
        \/ here \in there /\ (c = Canonical(here) \/ (here = <<>> /\ c = <<>>))
    BY CanonicalizeFacts
  <1> HIDE DEF c, here
  <1>3. ASSUME c = <<"/">> PROVE c \in CanonicalPaths
    BY <1>1, <1>3 DEF CanonicalPaths
  <1>4. ASSUME here \in there, c = Canonical(here) PROVE c \in CanonicalPaths /\ goes = here
    <2>1. here \in Tree
      BY <1>1, <1>4 DEF Closed
    <2>2. Walk(there, Canonical(here))[Len(Canonical(here))] = In(here)
      BY <1>1, <1>4, <2>1, WalkCanonical
    <2>3. In(here).dir = here
      BY DEF In
    <2> QED BY <1>4, <2>1, <2>2, <2>3 DEF CanonicalPaths
  <1>5. ASSUME here = <<>>, c = <<>> PROVE c \in CanonicalPaths /\ goes = here
    <2>1. Len(c) = 0 /\ Len(c) \in Nat
      BY <1>5
    <2>2. Walk(there, c)[0] = Root
      BY <2>1, WalkSteps
    <2>3. goes = <<>>
      BY <2>1, <2>2 DEF Root
    <2> QED BY <1>5, <2>3 DEF CanonicalPaths
  <1> HIDE DEF goes
  <1>6. c \in CanonicalPaths /\ (Walk(there, o)[Len(o)].out = TRUE \/ goes = here)
    BY <1>2, <1>3, <1>4, <1>5
  <1> QED BY <1>6 DEF goes, here, c

-----------------------------------------------------------------------------
(* The paths of the program *)

Written(p) == p \in Seq(Token) /\ \A i \in 1..(Len(p) - 1) : "/" \in {p[i], p[i + 1]}

LEMMA AskedAreWritten == \A p \in Asked : Written(p)
  <1> SUFFICES ASSUME NEW p \in Asked PROVE Written(p)
    OBVIOUS
  <1>1. p \in Seq(Range(p)) /\ Range(p) \subseteq Token /\ \A i \in 1..(Len(p) - 1) : "/" \in {p[i], p[i + 1]}
    <2>1. Separated(p)
      BY AskedAssumption
    <2>2. Range(p) \subseteq Token
      BY DEF Token
    <2> QED BY <2>1, <2>2 DEF Separated
  <1>2. p \in Seq(Token)
    BY <1>1, SeqMonotonic
  <1> QED BY <1>1, <1>2 DEF Written

LEMMA CanonicalIsWritten ==
    ASSUME NEW p \in CanonicalPaths
    PROVE  Written(p) /\ (p # <<>> => p[1] = "/")
  <1>1. CASE p = <<>>
    BY <1>1 DEF Written
  <1>2. ASSUME NEW d \in Tree, p = Canonical(d) PROVE Written(p) /\ p[1] = "/"
    <2>1. p \in Seq(Token) /\ Len(p) \in Nat /\ p[1] = "/" /\ \A i \in 1..Len(p) : p[i] = Tok(d, i)
      BY <1>2, CanonicalFacts
    <2>2. ASSUME NEW i \in 1..(Len(p) - 1) PROVE "/" \in {p[i], p[i + 1]}
      <3>1. i \in 1..Len(p) /\ i + 1 \in 1..Len(p)
        BY <2>1
      <3>2. p[i] = Tok(d, i) /\ p[i + 1] = Tok(d, i + 1)
        BY <2>1, <3>1
      <3>3. i % 2 = 1 \/ (i + 1) % 2 = 1
        BY <3>1
      <3> QED BY <3>2, <3>3 DEF Tok
    <2> QED BY <2>1, <2>2 DEF Written
  <1> QED BY <1>1, <1>2 DEF CanonicalPaths

LEMMA BelowIsWritten ==
    ASSUME NEW c, Written(c), c # <<>> => c[1] = "/", NEW p, Written(p)
    PROVE  LET b == c \o <<"/">> \o p IN Written(b) /\ b # <<>> /\ b[1] = "/"
  <1> DEFINE x == <<"/">>
             a == c \o x
             b == a \o p
  <1>1. c \in Seq(Token) /\ p \in Seq(Token) /\ Len(c) \in Nat /\ Len(p) \in Nat
    BY DEF Written
  <1>2. x \in Seq(Token) /\ Len(x) = 1 /\ x[1] = "/"
    BY DEF Token, Dots
  <1> HIDE DEF x
  <1>3. a \in Seq(Token) /\ Len(a) = Len(c) + 1 /\ \A i \in 1..Len(c) + 1 : a[i] = IF i <= Len(c) THEN c[i] ELSE x[i - Len(c)]
    <2>1. /\ a \in Seq(Token) /\ Len(a) = Len(c) + Len(x)
          /\ \A i \in 1..Len(c) + Len(x) : a[i] = IF i <= Len(c) THEN c[i] ELSE x[i - Len(c)]
      BY <1>1, <1>2, ConcatProperties, Zenon
    <2> QED BY <1>2, <2>1
  <1> HIDE DEF a
  <1>4. a[Len(c) + 1] = "/" /\ \A i \in 1..Len(c) : a[i] = c[i]
    <2>1. Len(c) + 1 \in 1..Len(c) + 1 /\ ~(Len(c) + 1 <= Len(c)) /\ Len(c) + 1 - Len(c) = 1
      BY <1>1
    <2>2. a[Len(c) + 1] = x[Len(c) + 1 - Len(c)]
      BY <1>3, <2>1
    <2>3. \A i \in 1..Len(c) : i \in 1..Len(c) + 1 /\ i <= Len(c)
      BY <1>1
    <2>4. \A i \in 1..Len(c) : a[i] = c[i]
      BY <1>3, <2>3
    <2> QED BY <1>2, <2>1, <2>2, <2>4
  <1>5. /\ b \in Seq(Token) /\ Len(b) = Len(a) + Len(p)
        /\ \A i \in 1..Len(a) + Len(p) : b[i] = IF i <= Len(a) THEN a[i] ELSE p[i - Len(a)]
    BY <1>1, <1>3, ConcatProperties, Zenon
  <1> HIDE DEF b
  <1> DEFINE n == Len(c) + 1
  <1>6. n \in Nat /\ n >= 1 /\ Len(b) = n + Len(p) /\ n - 1 = Len(c) /\ Len(a) = n
    BY <1>1, <1>3, <1>5
  <1>7. a[n] = "/" /\ \A i \in 1..(n - 1) : a[i] = c[i]
    BY <1>4, <1>6
  <1> HIDE DEF n
  <1>8. \A i \in 1..n : b[i] = a[i]
    BY <1>1, <1>5, <1>6
  <1>9. \A i \in 1..Len(p) : b[n + i] = p[i]
    <2> TAKE i \in 1..Len(p)
    <2> DEFINE k == n + i
    <2>1. k \in 1..n + Len(p) /\ ~(k <= n) /\ k - n = i
      BY <1>1, <1>6
    <2> HIDE DEF k
    <2>2. b[k] = p[i]
      BY <1>5, <1>6, <2>1
    <2> QED BY <2>2 DEF k
  <1>10. b[1] = "/" /\ b # <<>>
    <2>1. CASE c = <<>>
      BY <1>1, <1>5, <1>6, <1>7, <1>8, <2>1
    <2>2. CASE c # <<>>
      <3>1. Len(c) # 0 /\ c[1] = "/"
        BY <1>1, <2>2
      <3>2. 1 \in 1..n /\ 1 \in 1..(n - 1) /\ Len(b) # 0
        BY <1>1, <1>6, <3>1
      <3> QED BY <1>5, <1>7, <1>8, <3>1, <3>2
    <2> QED BY <2>1, <2>2
  <1>11. ASSUME NEW i \in 1..(Len(b) - 1) PROVE "/" \in {b[i], b[i + 1]}
    <2>1. i \in Nat /\ i + 1 \in Nat /\ (i <= n - 2 \/ i = n - 1 \/ i = n \/ i > n)
      BY <1>6
    <2>2. CASE i <= n - 2
      <3>1. i \in 1..(Len(c) - 1) /\ i \in 1..n /\ i + 1 \in 1..n /\ i \in 1..(n - 1) /\ i + 1 \in 1..(n - 1)
        BY <1>6, <2>1, <2>2
      <3>2. "/" \in {c[i], c[i + 1]}
        BY <3>1 DEF Written
      <3>3. b[i] = c[i] /\ b[i + 1] = c[i + 1]
        BY <1>7, <1>8, <3>1
      <3> QED BY <3>2, <3>3
    <2>3. CASE i = n - 1 \/ i = n
      <3>1. (i = n \/ i + 1 = n) /\ n \in 1..n
        BY <1>6, <2>3
      <3>2. b[n] = "/"
        BY <1>7, <1>8, <3>1
      <3> QED BY <3>1, <3>2
    <2>4. CASE i > n
      <3> DEFINE k == i - n
      <3>1. k \in 1..(Len(p) - 1) /\ k \in 1..Len(p) /\ k + 1 \in 1..Len(p) /\ n + k = i /\ n + (k + 1) = i + 1
        BY <1>1, <1>6, <2>1, <2>4
      <3> HIDE DEF k
      <3>2. "/" \in {p[k], p[k + 1]}
        BY <3>1 DEF Written
      <3>3. b[n + k] = p[k] /\ b[n + (k + 1)] = p[k + 1]
        BY <1>9, <3>1
      <3> QED BY <3>1, <3>2, <3>3
    <2> QED BY <2>1, <2>2, <2>3, <2>4
  <1>12. Written(b) /\ b # <<>> /\ b[1] = "/"
    BY <1>5, <1>10, <1>11 DEF Written
  <1>13. b = c \o <<"/">> \o p
    BY DEF a, b, x
  <1> QED BY <1>12, <1>13

-----------------------------------------------------------------------------
(* The inductive invariant: no directory is there without the one it is in, and what PUSHD keeps is the canonical path
   of the directory it left, which may be gone by then. *)

Places == Tree \cup {Missing}
IInv == /\ Closed(dirs)
        /\ cwd \in CanonicalPaths
        /\ stack \in Seq(CanonicalPaths) /\ left \in Seq(Places) /\ Len(stack) = Len(left)
        /\ \A i \in 1..Len(stack) : \/ stack[i] = <<>>
                                   \/ \E d \in Tree : stack[i] = Canonical(d) /\ left[i] \in {d, Missing}

\* What the current directory is to the system.
LEMMA WhereItIs ==
    ASSUME NEW there, Closed(there), NEW c \in CanonicalPaths
    PROVE  LET here == Walk(there, c)[Len(c)].dir
           IN  here \in Places /\ (c = <<>> \/ \E d \in Tree : c = Canonical(d) /\ here \in {d, Missing})
  <1> DEFINE here == Walk(there, c)[Len(c)].dir
  <1>1. CASE c = <<>>
    <2>1. Len(c) = 0 /\ Len(c) \in Nat /\ <<>> \in Tree
      BY <1>1, TreeAssumption
    <2>2. Walk(there, c)[0] = Root
      BY <2>1, WalkSteps
    <2>3. here = <<>>
      BY <2>1, <2>2 DEF Root
    <2> HIDE DEF here
    <2>4. here \in Places
      BY <2>1, <2>3 DEF Places
    <2> QED BY <1>1, <2>4 DEF here
  <1>2. CASE c # <<>>
    <2>1. PICK d \in Tree : c = Canonical(d)
      BY <1>2 DEF CanonicalPaths
    <2>2. here \in {d, Missing}
      BY <2>1, WalkCanonical
    <2> HIDE DEF here
    <2>3. here \in Places
      BY <2>2 DEF Places
    <2> QED BY <2>1, <2>2, <2>3 DEF here
  <1> QED BY <1>1, <1>2

LEMMA ChosenIsGood ==
    ASSUME IInv, NEW p, Written(p), DirExists(Chosen(p))
    PROVE  Good(dirs, Chosen(p))
  <1> DEFINE o == Chosen(p)
  <1>1. Closed(dirs) /\ Written(cwd) /\ (cwd # <<>> => cwd[1] = "/")
    BY CanonicalIsWritten DEF IInv
  <1>2. Written(o) /\ o # <<>> /\ o[1] = "/"
    <2>1. CASE o = p /\ Absolute(p)
      BY <2>1 DEF Absolute
    <2>2. CASE o = Below(p)
      BY <1>1, <2>2, BelowIsWritten DEF Below
    <2> QED BY <2>1, <2>2 DEF Chosen
  <1>3. Walk(dirs, o)[Len(o)].dir # Missing
    BY DEF DirExists, Resolve
  <1> HIDE DEF o
  <1>4. Good(dirs, o)
    BY <1>1, <1>2, <1>3 DEF Good, Written
  <1> QED BY <1>4 DEF o

\* SetCurrentDir leaves a canonical path, and goes to the directory of the path it was given.
LEMMA SetGoes ==
    ASSUME IInv, NEW p, Written(p), SetCurrentDir(p), UNCHANGED dirs
    PROVE  /\ cwd' \in CanonicalPaths
           /\ Walk(dirs, Chosen(p))[Len(Chosen(p))].out = TRUE \/ Resolve(cwd)' = Resolve(Chosen(p))
  <1> DEFINE o == Chosen(p)
             c == Canonicalize(o)
  <1>1. Good(dirs, o) /\ cwd' = c
    BY ChosenIsGood DEF SetCurrentDir
  <1>2. c \in CanonicalPaths /\ (Walk(dirs, o)[Len(o)].out = TRUE \/ Walk(dirs, c)[Len(c)].dir = Walk(dirs, o)[Len(o)].dir)
    BY <1>1, RewrittenLeadsThere
  <1>3. Resolve(cwd)' = Walk(dirs, cwd')[Len(cwd')].dir /\ Resolve(o) = Walk(dirs, o)[Len(o)].dir
    BY DEF Resolve
  <1> HIDE DEF o, c
  <1>4. cwd' \in CanonicalPaths /\ (Walk(dirs, o)[Len(o)].out = TRUE \/ Resolve(cwd)' = Resolve(o))
    BY <1>1, <1>2, <1>3
  <1> QED BY <1>4 DEF o

LEMMA InitIInv == DirInit => IInv
  <1> SUFFICES ASSUME DirInit PROVE IInv
    OBVIOUS
  <1>1. Closed(dirs) /\ cwd \in CanonicalPaths
    BY TreeAssumption DEF DirInit, Closed, CanonicalPaths
  <1>2. stack = <<>> /\ left = <<>>
    BY DEF DirInit
  <1> QED BY <1>1, <1>2 DEF IInv

LEMMA CdKeeps ==
    ASSUME IInv, NEW p \in Asked, CmdCd(p)
    PROVE  IInv'
  <1>1. Written(p)
    BY AskedAreWritten
  <1>2. SetCurrentDir(p) /\ UNCHANGED <<dirs, stack, left>>
    BY DEF CmdCd
  <1>3. cwd' \in CanonicalPaths
    BY <1>1, <1>2, SetGoes
  <1> QED BY <1>2, <1>3 DEF IInv

LEMMA PushdKeeps ==
    ASSUME IInv, NEW p \in Asked, CmdPushd(p)
    PROVE  IInv'
  <1> DEFINE here == Resolve(cwd)
  <1>1. /\ SetCurrentDir(p) /\ dirs' = dirs /\ stack' = <<cwd>> \o stack /\ left' = <<here>> \o left
    BY DEF CmdPushd, PushDir
  <1>2. cwd' \in CanonicalPaths
    BY <1>1, AskedAreWritten, SetGoes
  <1>3. /\ cwd \in CanonicalPaths /\ here \in Places
        /\ cwd = <<>> \/ \E d \in Tree : cwd = Canonical(d) /\ here \in {d, Missing}
    BY WhereItIs DEF IInv, Resolve
  <1> HIDE DEF here
  <1>4. /\ stack' \in Seq(CanonicalPaths) /\ Len(stack') = 1 + Len(stack) /\ stack'[1] = cwd
        /\ \A i \in 1..Len(stack) : stack'[i + 1] = stack[i]
    BY <1>1, <1>3, FrontFacts DEF IInv
  <1>5. /\ left' \in Seq(Places) /\ Len(left') = 1 + Len(left) /\ left'[1] = here
        /\ \A i \in 1..Len(left) : left'[i + 1] = left[i]
    BY <1>1, <1>3, FrontFacts DEF IInv
  <1>6. Len(stack) \in Nat /\ Len(stack) = Len(left)
    BY DEF IInv
  <1>7. ASSUME NEW i \in 1..Len(stack')
        PROVE  stack'[i] = <<>> \/ \E d \in Tree : stack'[i] = Canonical(d) /\ left'[i] \in {d, Missing}
    <2>1. CASE i = 1
      BY <1>3, <1>4, <1>5, <2>1
    <2>2. CASE i # 1
      <3> DEFINE k == i - 1
      <3>1. k \in 1..Len(stack) /\ k + 1 = i
        BY <1>4, <1>6, <2>2
      <3> HIDE DEF k
      <3>2. stack[k] = <<>> \/ \E d \in Tree : stack[k] = Canonical(d) /\ left[k] \in {d, Missing}
        BY <3>1 DEF IInv
      <3>3. stack'[k + 1] = stack[k] /\ left'[k + 1] = left[k]
        BY <1>4, <1>5, <1>6, <3>1
      <3> QED BY <3>1, <3>2, <3>3
    <2> QED BY <2>1, <2>2
  <1> QED BY <1>1, <1>2, <1>4, <1>5, <1>6, <1>7 DEF IInv

LEMMA PopdKeeps ==
    ASSUME IInv, CmdPopd
    PROVE  IInv'
  <1>1. /\ stack # <<>> /\ stack' = Tail(stack) /\ left' = Tail(left) /\ dirs' = dirs
        /\ SetCurrentDir(Head(stack)) \/ cwd' = cwd
    BY DEF CmdPopd, PopDir
  <1>2. /\ stack \in Seq(CanonicalPaths) /\ left \in Seq(Places) /\ Len(stack) = Len(left) /\ left # <<>> /\ Len(stack) \in Nat
    BY <1>1 DEF IInv
  <1>3. Head(stack) \in CanonicalPaths
    BY <1>1, <1>2, HeadTailProperties
  <1>4. cwd' \in CanonicalPaths
    <2>1. CASE SetCurrentDir(Head(stack))
      <3>1. Written(Head(stack))
        BY <1>3, CanonicalIsWritten
      <3> QED BY <1>1, <2>1, <3>1, SetGoes
    <2>2. CASE cwd' = cwd
      BY <2>2 DEF IInv
    <2> QED BY <1>1, <2>1, <2>2
  <1>5. /\ stack' \in Seq(CanonicalPaths) /\ Len(stack') = Len(stack) - 1
        /\ \A i \in 1..Len(stack') : stack'[i] = stack[i + 1]
    BY <1>1, <1>2, HeadTailProperties
  <1>6. /\ left' \in Seq(Places) /\ Len(left') = Len(left) - 1
        /\ \A i \in 1..Len(left') : left'[i] = left[i + 1]
    BY <1>1, <1>2, HeadTailProperties
  <1>7. ASSUME NEW i \in 1..Len(stack')
        PROVE  stack'[i] = <<>> \/ \E d \in Tree : stack'[i] = Canonical(d) /\ left'[i] \in {d, Missing}
    <2> DEFINE k == i + 1
    <2>1. k \in 1..Len(stack) /\ i \in 1..Len(left')
      BY <1>2, <1>5, <1>6
    <2>2. stack'[i] = stack[k] /\ left'[i] = left[k]
      BY <1>5, <1>6, <2>1
    <2> HIDE DEF k
    <2>3. stack[k] = <<>> \/ \E d \in Tree : stack[k] = Canonical(d) /\ left[k] \in {d, Missing}
      BY <2>1 DEF IInv
    <2> QED BY <2>2, <2>3
  <1> QED BY <1>1, <1>2, <1>4, <1>5, <1>6, <1>7 DEF IInv

LEMMA MkdirKeeps ==
    ASSUME IInv, NEW d \in Tree, Mkdir(d)
    PROVE  IInv'
  <1>1. /\ d \notin dirs /\ SubSeq(d, 1, Len(d) - 1) \in dirs /\ dirs' = dirs \cup {d}
        /\ cwd' = cwd /\ stack' = stack /\ left' = left
    BY DEF Mkdir
  <1>2. d \in Seq(Token) /\ Len(d) \in Nat /\ Closed(dirs) /\ d # <<>> /\ Len(d) # 0
    <2>1. d \in Seq(Token) /\ Len(d) \in Nat /\ Closed(dirs)
      BY TreeFacts DEF IInv
    <2>2. d # <<>>
      BY <1>1, <2>1 DEF Closed
    <2> QED BY <2>1, <2>2
  <1>3. ASSUME NEW k \in 0..Len(d) PROVE PathUpto(d, k) \in dirs \cup {d}
    <2>1. CASE k = Len(d)
      <3>1. PathUpto(d, Len(d)) = d
        BY <1>2, WholePath
      <3> QED BY <2>1, <3>1
    <2>2. CASE k # Len(d)
      <3> DEFINE e == PathUpto(d, Len(d) - 1)
      <3>1. e \in dirs /\ Len(d) - 1 \in 0..Len(d) /\ k \in 0..(Len(d) - 1)
        BY <1>1, <1>2, <2>2 DEF PathUpto
      <3>2. Len(e) = Len(d) - 1
        BY <1>2, <3>1, UptoFacts
      <3>3. PathUpto(e, k) = PathUpto(d, k)
        BY <1>2, <3>1, UptoUpto
      <3> HIDE DEF e
      <3>4. PathUpto(e, k) \in dirs
        BY <1>2, <3>1, <3>2 DEF Closed
      <3> QED BY <3>3, <3>4
    <2> QED BY <2>1, <2>2
  <1>4. Closed(dirs \cup {d})
    BY <1>2, <1>3 DEF Closed
  <1> QED BY <1>1, <1>4 DEF IInv

LEMMA RmdirKeeps ==
    ASSUME IInv, NEW d \in Tree, Rmdir(d)
    PROVE  IInv'
  <1>1. /\ d \in dirs /\ d # <<>> /\ \A e \in dirs : SubSeq(e, 1, Len(e) - 1) # d
        /\ dirs' = dirs \ {d} /\ cwd' = cwd /\ stack' = stack /\ left' = left
    BY DEF Rmdir
  <1>2. Closed(dirs)
    BY DEF IInv
  <1>3. ASSUME NEW e \in dirs \ {d}, NEW k \in 0..Len(e) PROVE PathUpto(e, k) \in dirs \ {d}
    <2>1. e \in Seq(Token) /\ Len(e) \in Nat /\ PathUpto(e, k) \in dirs
      BY <1>2, TreeFacts DEF Closed
    <2>2. CASE k = Len(e)
      <3>1. PathUpto(e, Len(e)) = e
        BY <2>1, WholePath
      <3> QED BY <2>2, <3>1
    <2>3. CASE k # Len(e)
      <3> DEFINE f == PathUpto(e, k + 1)
      <3>1. k + 1 \in 0..Len(e) /\ k \in 0..(k + 1) /\ k + 1 - 1 = k
        BY <2>1, <2>3
      <3>2. f \in dirs /\ Len(f) = k + 1
        BY <1>2, <2>1, <3>1, UptoFacts DEF Closed
      <3>3. PathUpto(f, k) = PathUpto(e, k)
        BY <2>1, <3>1, UptoUpto
      <3> HIDE DEF f
      <3>4. PathUpto(f, Len(f) - 1) # d
        BY <1>1, <3>2 DEF PathUpto
      <3> QED BY <2>1, <3>1, <3>2, <3>3, <3>4
    <2> QED BY <2>2, <2>3
  <1>4. Closed(dirs \ {d})
    BY <1>1, <1>2, <1>3 DEF Closed
  <1> QED BY <1>1, <1>4 DEF IInv

LEMMA NextIInv == IInv /\ [DirNext]_dirVars => IInv'
  <1> SUFFICES ASSUME IInv, [DirNext]_dirVars PROVE IInv'
    OBVIOUS
  <1>1. CASE UNCHANGED dirVars
    BY <1>1 DEF dirVars, IInv
  <1>2. CASE \E p \in Asked : CmdCd(p)
    BY <1>2, CdKeeps
  <1>3. CASE \E p \in Asked : CmdPushd(p)
    BY <1>3, PushdKeeps
  <1>4. CASE CmdPopd
    BY <1>4, PopdKeeps
  <1>5. CASE \E d \in Tree : Mkdir(d)
    BY <1>5, MkdirKeeps
  <1>6. CASE \E d \in Tree : Rmdir(d)
    BY <1>6, RmdirKeeps
  <1> QED BY <1>1, <1>2, <1>3, <1>4, <1>5, <1>6 DEF DirNext

LEMMA Invariance == DirSpec => []IInv
  <1> QED BY InitIInv, NextIInv, PTL DEF DirSpec

LEMMA InvCanonical == IInv => CwdCanonical
  <1> SUFFICES ASSUME IInv PROVE CwdCanonical
    OBVIOUS
  <1>1. cwd \in CanonicalPaths /\ stack \in Seq(CanonicalPaths)
    BY DEF IInv
  <1>2. \A i \in DOMAIN stack : stack[i] \in CanonicalPaths
    BY <1>1
  <1> QED BY <1>1, <1>2 DEF CwdCanonical

-----------------------------------------------------------------------------
(* CD goes to the directory that the system finds at the path it was given, though it keeps a rewritten path; and that
   path is a canonical one, as are those of the stack. *)
THEOREM GoesThereHolds == DirSpec => GoesThere
  <1>1. IInv /\ [DirNext]_dirVars => [cwd' # cwd => Goes]_dirVars
    <2> SUFFICES ASSUME IInv, NEW p \in Asked, CmdCd(p), ~ClimbsOut(Chosen(p)) PROVE Resolve(cwd)' = Resolve(Chosen(p))
      BY DEF Goes
    <2>1. SetCurrentDir(p) /\ dirs' = dirs
      BY DEF CmdCd
    <2>2. Walk(dirs, Chosen(p))[Len(Chosen(p))].out # TRUE
      BY DEF ClimbsOut
    <2> QED BY <2>1, <2>2, AskedAreWritten, SetGoes
  <1> QED BY <1>1, Invariance, InvCanonical, PTL DEF DirSpec, GoesThere

(* POPD comes back to the directory PUSHD left, when that is there. *)
THEOREM PopdReturnsHolds == DirSpec => PopdReturns
  <1>1. IInv /\ [DirNext]_dirVars => [CmdPopd /\ Head(left) \in dirs => Returns \/ Head(stack) = <<>>]_dirVars
    <2> SUFFICES ASSUME IInv, CmdPopd, Head(left) \in dirs, Head(stack) # <<>> PROVE Returns
      OBVIOUS
    <2>1. /\ stack \in Seq(CanonicalPaths) /\ stack # <<>> /\ left \in Seq(Places) /\ left # <<>> /\ dirs' = dirs
          /\ Head(stack) = stack[1] /\ Head(left) = left[1] /\ 1 \in 1..Len(stack)
      <3>1. stack # <<>> /\ dirs' = dirs /\ stack \in Seq(CanonicalPaths) /\ left \in Seq(Places) /\ Len(stack) = Len(left)
        BY DEF CmdPopd, PopDir, IInv
      <3> QED BY <3>1
    <2>2. PICK d \in Tree : stack[1] = Canonical(d) /\ left[1] \in {d, Missing}
      BY <2>1 DEF IInv
    <2>3. left[1] = d /\ d \in dirs
      BY <2>1, <2>2, TreeAssumption DEF IInv, Closed
    <2> DEFINE p == Canonical(d)
    <2>4. Walk(dirs, p)[Len(p)] = In(d)
      BY <2>3, WalkCanonical DEF IInv
    <2>5. Walk(dirs, p)[Len(p)].out # TRUE /\ Resolve(p) = d
      BY <2>4 DEF In, Resolve
    <2>6. Absolute(p) /\ DirExists(p) /\ Written(p)
      <3>1. p # <<>> /\ p[1] = "/" /\ (Len(p) > 1 => p[2] # "/")
        BY CanonicalBegins
      <3>2. d # Missing
        BY TreeFacts
      <3>3. p \in CanonicalPaths
        BY DEF CanonicalPaths
      <3> QED BY <2>5, <3>1, <3>2, <3>3, CanonicalIsWritten DEF Absolute, DirExists
    <2> HIDE DEF p
    <2>7. Chosen(p) = p
      BY <2>6 DEF Chosen
    <2>8. SetCurrentDir(p)
      BY <2>1, <2>2, <2>6, <2>7 DEF CmdPopd, p
    <2>9. Resolve(cwd)' = d
      BY <2>1, <2>5, <2>6, <2>7, <2>8, SetGoes
    <2> QED BY <2>1, <2>3, <2>9 DEF Returns
  <1> QED BY <1>1, Invariance, PTL DEF DirSpec, PopdReturns
=============================================================================
