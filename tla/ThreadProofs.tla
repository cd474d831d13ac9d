------------------------------ MODULE ThreadProofs ------------------------------
(***************************************************************************)
(* Theorems about what a thread keeps from line to line: Arguments, for    *)
(* any number of digits, any words and any lines of CALL, and Strings, for *)
(* any cache, any default size and any texts, whatever malloc and realloc  *)
(* refuse.                                                                 *)
(***************************************************************************)
EXTENDS Arguments, Strings, TLAPS, WellFoundedInduction, SequenceTheorems

LineWords == UNION {Range(line) : line \in CallLines}
Word == LineWords \cup Words \cup {NoArgument, "main", "batch"}

LEMMA WordHas ==
    /\ Words \subseteq Word /\ NoArgument \in Word /\ "main" \in Word /\ "batch" \in Word
    /\ \A line \in CallLines : Range(line) \subseteq Word
  <1>1. \A line \in CallLines : Range(line) \subseteq LineWords
    BY DEF LineWords
  <1> QED BY <1>1 DEF Word

-----------------------------------------------------------------------------
(* Numbers: a set of them has a least element, which is what induction needs. *)

Less == {p \in Nat \X Nat : p[1] < p[2]}

LEMMA LeastOf ==
    ASSUME NEW S \in SUBSET Nat, S # {}
    PROVE  \E n \in S : \A m \in S : n <= m
  <1>0. IsWellFoundedOn(Less, Nat)
    BY NatLessThanWellFounded, Zenon DEF OpToRel, Less
  <1>1. PICK n \in S : \A m \in S : <<m, n>> \notin Less
    BY <1>0, WFMin, Zenon
  <1>2. ASSUME NEW m \in S, m < n PROVE FALSE
    <2>1. <<m, n>> \in Less
      BY <1>2 DEF Less
    <2> QED BY <2>1, <1>1
  <1>3. \A m \in S : m \in Nat /\ n \in Nat /\ ~(m < n)
    BY <1>2
  <1> QED BY <1>3

LEMMA LeastFacts ==
    ASSUME NEW i \in Nat, NEW j \in Nat
    PROVE  Least(i, j) \in Nat /\ Least(i, j) <= i /\ Least(i, j) <= j /\ Least(i, j) \in {i, j}
  BY DEF Least

-----------------------------------------------------------------------------
(* Parts of a sequence *)

LEMMA FromFacts ==
    ASSUME NEW S, NEW s \in Seq(S), NEW k \in Nat \ {0}
    PROVE  /\ From(s, k) \in Seq(S)
           /\ Len(From(s, k)) = IF k <= Len(s) THEN Len(s) - k + 1 ELSE 0
           /\ \A i \in 1..Len(From(s, k)) : From(s, k)[i] = s[k + i - 1]
  <1>1. Len(s) \in Nat /\ \A i \in k..Len(s) : s[i] \in S
    BY ElementOfSeq
  <1>2. /\ SubSeq(s, k, Len(s)) \in Seq(S)
        /\ Len(SubSeq(s, k, Len(s))) = IF k <= Len(s) THEN Len(s) - k + 1 ELSE 0
        /\ \A i \in 1..Len(s) - k + 1 : SubSeq(s, k, Len(s))[i] = s[k + i - 1]
    BY <1>1, SubSeqProperties
  <1> QED BY <1>1, <1>2 DEF From

LEMMA UptoFacts ==
    ASSUME NEW S, NEW s \in Seq(S), NEW k \in Nat
    PROVE  /\ Upto(s, k) \in Seq(S) /\ Len(Upto(s, k)) = Least(k, Len(s))
           /\ \A i \in 1..Least(k, Len(s)) : Upto(s, k)[i] = s[i]
  <1> DEFINE n == Least(k, Len(s))
  <1>1. Len(s) \in Nat /\ n \in Nat /\ n <= Len(s)
    <2>1. Len(s) \in Nat
      OBVIOUS
    <2> QED BY <2>1, LeastFacts
  <1>2. \A i \in 1..n : s[i] \in S
    BY <1>1, ElementOfSeq
  <1> HIDE DEF n
  <1>3. /\ SubSeq(s, 1, n) \in Seq(S)
        /\ Len(SubSeq(s, 1, n)) = IF 1 <= n THEN n - 1 + 1 ELSE 0
        /\ \A i \in 1..n - 1 + 1 : SubSeq(s, 1, n)[i] = s[1 + i - 1]
    BY <1>1, <1>2, SubSeqProperties
  <1>4. \A i \in 1..n : 1 + i - 1 = i
    BY <1>1
  <1> QED BY <1>1, <1>3, <1>4 DEF Upto, n

LEMMA FromFrom ==
    ASSUME NEW S, NEW s \in Seq(S), NEW k \in Nat \ {0}, NEW m \in Nat \ {0}
    PROVE  From(From(s, k), m) = From(s, k + m - 1)
  <1> DEFINE a == From(From(s, k), m)
             b == From(s, k + m - 1)
  <1>1. k + m - 1 \in Nat \ {0} /\ Len(s) \in Nat
    OBVIOUS
  <1>2. /\ From(s, k) \in Seq(S)
        /\ Len(From(s, k)) = IF k <= Len(s) THEN Len(s) - k + 1 ELSE 0
        /\ \A i \in 1..Len(From(s, k)) : From(s, k)[i] = s[k + i - 1]
    BY FromFacts
  <1>3. /\ a \in Seq(S)
        /\ Len(a) = IF m <= Len(From(s, k)) THEN Len(From(s, k)) - m + 1 ELSE 0
        /\ \A i \in 1..Len(a) : a[i] = From(s, k)[m + i - 1]
    BY <1>2, FromFacts
  <1>4. /\ b \in Seq(S)
        /\ Len(b) = IF k + m - 1 <= Len(s) THEN Len(s) - (k + m - 1) + 1 ELSE 0
        /\ \A i \in 1..Len(b) : b[i] = s[(k + m - 1) + i - 1]
    BY <1>1, FromFacts
  <1> HIDE DEF a, b
  <1> DEFINE n == Len(s)
             f == Len(From(s, k))
             la == Len(a)
             lb == Len(b)
  <1>8. /\ n \in Nat /\ f = (IF k <= n THEN n - k + 1 ELSE 0)
        /\ la = (IF m <= f THEN f - m + 1 ELSE 0) /\ lb = (IF k + m - 1 <= n THEN n - (k + m - 1) + 1 ELSE 0)
    BY <1>1, <1>2, <1>3, <1>4
  <1> HIDE DEF n, f, la, lb
  <1>9. la = lb /\ \A i \in 1..la : m + i - 1 \in 1..f
    <2>1. CASE k <= n
      BY <1>8, <2>1
    <2>2. CASE ~(k <= n)
      BY <1>8, <2>2
    <2> QED BY <2>1, <2>2
  <1>5. Len(a) = Len(b)
    BY <1>9 DEF la, lb
  <1>6. ASSUME NEW i \in 1..Len(a) PROVE a[i] = b[i]
    <2>1. m + i - 1 \in 1..Len(From(s, k)) /\ i \in Nat
      BY <1>3, <1>9 DEF la, f
    <2>2. k + (m + i - 1) - 1 = (k + m - 1) + i - 1
      BY <2>1
    <2> QED BY <2>1, <2>2, <1>2, <1>3, <1>4, <1>5
  <1>7. a = b
    BY <1>3, <1>4, <1>5, <1>6, SeqEqual
  <1> QED BY <1>7 DEF a, b

-----------------------------------------------------------------------------
(* SHIFT: what is left of a list, and where its words are in the old one *)

Left(g, begin, q) == Upto(g, begin) \o From(g, q + 1)

LEMMA LeftFacts ==
    ASSUME NEW S, NEW g \in Seq(S), NEW begin \in Nat, NEW q \in Nat, begin <= q
    PROVE  LET h == Left(g, begin, q)
           IN  /\ h \in Seq(S)
               /\ Len(h) = IF Len(g) <= q THEN Least(begin, Len(g)) ELSE Len(g) - q + begin
               /\ \A i \in 1..Len(h) : h[i] = IF i <= begin THEN g[i] ELSE g[i + q - begin]
  <1> DEFINE a == Upto(g, begin)
             b == From(g, q + 1)
             h == Left(g, begin, q)
  <1>1. Len(g) \in Nat /\ q + 1 \in Nat \ {0}
    OBVIOUS
  <1>2. /\ a \in Seq(S) /\ Len(a) = Least(begin, Len(g))
        /\ \A i \in 1..Least(begin, Len(g)) : a[i] = g[i]
    BY UptoFacts
  <1>3. /\ b \in Seq(S) /\ Len(b) = IF q + 1 <= Len(g) THEN Len(g) - (q + 1) + 1 ELSE 0
        /\ \A i \in 1..Len(b) : b[i] = g[(q + 1) + i - 1]
    BY <1>1, FromFacts
  <1>4. /\ h \in Seq(S) /\ Len(h) = Len(a) + Len(b)
        /\ \A i \in 1..Len(a) + Len(b) : h[i] = IF i <= Len(a) THEN a[i] ELSE b[i - Len(a)]
    BY <1>2, <1>3, ConcatProperties DEF Left
  <1>5. Least(begin, Len(g)) = IF begin < Len(g) THEN begin ELSE Len(g)
    BY DEF Least
  <1> HIDE DEF a, b, h
  <1>6. Len(h) = IF Len(g) <= q THEN Least(begin, Len(g)) ELSE Len(g) - q + begin
    <2> DEFINE n == Len(g)
               la == Len(a)
               lb == Len(b)
               lh == Len(h)
    <2>1. /\ lb = (IF q + 1 <= n THEN n - (q + 1) + 1 ELSE 0) /\ la = (IF begin < n THEN begin ELSE n)
          /\ lh = la + lb /\ la \in Nat /\ lb \in Nat /\ n \in Nat
      BY <1>2, <1>3, <1>4, <1>5
    <2> HIDE DEF n, la, lb, lh
    <2>2. lh = (IF n <= q THEN IF begin < n THEN begin ELSE n ELSE n - q + begin)
      BY <2>1
    <2> QED BY <2>2, <1>5 DEF n, lh
  <1>7. ASSUME NEW i \in 1..Len(h)
        PROVE  h[i] = IF i <= begin THEN g[i] ELSE g[i + q - begin]
    <2>1. CASE i <= Len(a)
      BY <2>1, <1>1, <1>2, <1>4, <1>5
    <2>2. CASE i > Len(a)
      <3>1. Len(b) # 0 /\ Len(a) \in Nat /\ Len(b) \in Nat
        BY <2>2, <1>2, <1>3, <1>4
      <3> DEFINE n == Len(g)
                 la == Len(a)
                 lb == Len(b)
      <3>4. /\ lb = (IF q + 1 <= n THEN n - (q + 1) + 1 ELSE 0) /\ la = (IF begin < n THEN begin ELSE n)
            /\ la \in Nat /\ lb \in Nat /\ n \in Nat /\ lb # 0 /\ i > la /\ i \in 1..la + lb
        <4>1. lb = (IF q + 1 <= n THEN n - (q + 1) + 1 ELSE 0) /\ la = (IF begin < n THEN begin ELSE n)
          BY <1>2, <1>3, <1>5
        <4>2. i \in 1..la + lb
          BY <1>4
        <4> QED BY <4>1, <4>2, <3>1, <2>2, <1>1
      <3> HIDE DEF n, la, lb
      <3>5. la = begin /\ i - begin \in 1..lb
        BY <3>4
      <3>2. Len(a) = begin /\ i - begin \in 1..Len(b)
        BY <3>5 DEF la, lb
      <3>3. (q + 1) + (i - begin) - 1 = i + q - begin
        BY <3>2
      <3> QED BY <2>2, <3>2, <3>3, <1>3, <1>4
    <2> QED BY <2>1, <2>2, <1>2, <1>4
  <1> QED BY <1>4, <1>6, <1>7 DEF h

LEMMA LeftDigit ==
    ASSUME NEW S, NEW g \in Seq(S), NEW begin \in Nat, NEW q \in Nat, begin <= q, NEW d \in Nat
    PROVE  Digit(Left(g, begin, q), d) = IF d < begin THEN Digit(g, d) ELSE Digit(g, d + (q - begin))
  <1> DEFINE h == Left(g, begin, q)
  <1>1. Len(g) \in Nat
    OBVIOUS
  <1>2. /\ h \in Seq(S)
        /\ Len(h) = IF Len(g) <= q THEN Least(begin, Len(g)) ELSE Len(g) - q + begin
        /\ \A i \in 1..Len(h) : h[i] = IF i <= begin THEN g[i] ELSE g[i + q - begin]
    BY LeftFacts
  <1>3. Least(begin, Len(g)) = IF begin < Len(g) THEN begin ELSE Len(g)
    BY DEF Least
  <1> HIDE DEF h
  <1>4. CASE d < begin
    <2>1. d < Len(h) <=> d < Len(g)
      BY <1>1, <1>2, <1>3, <1>4
    <2>2. d < Len(h) => h[d + 1] = g[d + 1]
      BY <1>2, <1>4
    <2> QED BY <2>1, <2>2, <1>4 DEF Digit, h
  <1>5. CASE d >= begin
    <2>1. d < Len(h) <=> d + (q - begin) < Len(g)
      BY <1>1, <1>2, <1>3, <1>5
    <2>2. (d + 1) + q - begin = d + (q - begin) + 1
      OBVIOUS
    <2>3. d < Len(h) => h[d + 1] = g[d + (q - begin) + 1]
      BY <1>2, <1>5, <2>2
    <2> QED BY <2>1, <2>3, <1>5 DEF Digit, h
  <1> QED BY <1>4, <1>5

\* What is left behind a place that is not before the words that are dropped.
LEMMA FromLeft ==
    ASSUME NEW S, NEW g \in Seq(S), NEW begin \in Nat, NEW q \in Nat, begin <= q,
           NEW k \in Nat, begin < k
    PROVE  From(Left(g, begin, q), k) = From(g, k + (q - begin))
  <1> DEFINE h == Left(g, begin, q)
             a == From(h, k)
             b == From(g, k + (q - begin))
  <1>1. Len(g) \in Nat /\ k \in Nat \ {0} /\ k + (q - begin) \in Nat \ {0}
    OBVIOUS
  <1>2. /\ h \in Seq(S)
        /\ Len(h) = IF Len(g) <= q THEN Least(begin, Len(g)) ELSE Len(g) - q + begin
        /\ \A i \in 1..Len(h) : h[i] = IF i <= begin THEN g[i] ELSE g[i + q - begin]
    BY LeftFacts
  <1>3. Least(begin, Len(g)) = IF begin < Len(g) THEN begin ELSE Len(g)
    BY DEF Least
  <1> HIDE DEF h
  <1>4. /\ a \in Seq(S) /\ Len(a) = IF k <= Len(h) THEN Len(h) - k + 1 ELSE 0
        /\ \A i \in 1..Len(a) : a[i] = h[k + i - 1]
    BY <1>1, <1>2, FromFacts
  <1>5. /\ b \in Seq(S)
        /\ Len(b) = IF k + (q - begin) <= Len(g) THEN Len(g) - (k + (q - begin)) + 1 ELSE 0
        /\ \A i \in 1..Len(b) : b[i] = g[(k + (q - begin)) + i - 1]
    BY <1>1, FromFacts
  <1> HIDE DEF a, b
  <1>6. Len(a) = Len(b)
    BY <1>1, <1>2, <1>3, <1>4, <1>5
  <1>7. ASSUME NEW i \in 1..Len(a) PROVE a[i] = b[i]
    <2>1. k + i - 1 \in 1..Len(h) /\ begin < k + i - 1
      <3> DEFINE la == Len(a)
                 lh == Len(h)
      <3>1. la = (IF k <= lh THEN lh - k + 1 ELSE 0) /\ lh \in Nat /\ i \in 1..la
        BY <1>2, <1>4
      <3> HIDE DEF la, lh
      <3>2. k <= lh /\ la = lh - k + 1
        BY <3>1
      <3>3. k + i - 1 \in 1..lh /\ begin < k + i - 1
        BY <3>1, <3>2
      <3> QED BY <3>3 DEF lh
    <2>2. (k + i - 1) + q - begin = (k + (q - begin)) + i - 1
      BY <1>1, <1>4
    <2>3. a[i] = h[k + i - 1] /\ b[i] = g[(k + (q - begin)) + i - 1]
      BY <1>4, <1>5, <1>6
    <2>4. h[k + i - 1] = g[(k + i - 1) + q - begin]
      BY <2>1, <1>2
    <2> QED BY <2>2, <2>3, <2>4
  <1>8. a = b
    BY <1>4, <1>5, <1>6, <1>7, SeqEqual
  <1> QED BY <1>8 DEF a, b, h

\* The three loops of CmdShift put the words that are left in the digits and %+.
LEMMA ShiftShows ==
    ASSUME Last \in Nat, NEW S, NEW g \in Seq(S), NEW a, NEW begin \in Digits, NEW by \in Digits,
           a = [digit |-> a.digit, plus |-> a.plus, star |-> a.star],
           a.digit = View(g).digit, a.plus = View(g).plus
    PROVE  LET h == Left(g, begin, Least(begin + by, Last + 1))
           IN  /\ Shifted(a, begin, by).digit = View(h).digit
               /\ Shifted(a, begin, by).plus = View(h).plus
  <1> DEFINE q == Least(begin + by, Last + 1)
             h == Left(g, begin, q)
             moved == IF begin + by <= Last THEN Last + 1 - by ELSE begin
             new == Shifted(a, begin, by)
  <1>1. begin \in 0..Last /\ by \in 0..Last
    BY DEF Digits
  <1>2. q = IF begin + by <= Last THEN begin + by ELSE Last + 1
    BY <1>1 DEF Least
  <1>3. q \in Nat /\ begin <= q /\ moved \in Nat /\ moved >= begin /\ Last + 1 - moved = q - begin
    BY <1>1, <1>2
  <1>4. /\ new.digit = [d \in Digits |->
              CASE d < begin -> a.digit[d]
                [] d >= begin /\ d < moved -> a.digit[d + by]
                [] d >= moved /\ d - moved + 1 <= Len(a.plus) -> a.plus[d - moved + 1]
                [] OTHER -> NoArgument]
        /\ new.plus = IF moved > Last THEN a.plus ELSE From(a.plus, Last + 2 - moved)
    BY DEF Shifted
  <1>5. a.digit = [d \in Digits |-> Digit(g, d)] /\ a.plus = From(g, Last + 2)
    BY DEF View
  <1>6. Len(g) \in Nat /\ Last + 2 \in Nat \ {0}
    OBVIOUS
  <1>7. /\ Len(a.plus) = IF Last + 2 <= Len(g) THEN Len(g) - (Last + 2) + 1 ELSE 0
        /\ \A i \in 1..Len(a.plus) : a.plus[i] = g[(Last + 2) + i - 1]
    BY <1>5, <1>6, FromFacts
  <1> HIDE DEF q, moved, new
  <1>8. ASSUME NEW d \in Digits PROVE new.digit[d] = Digit(h, d)
    <2>1. d \in 0..Last /\ d \in Nat
      BY DEF Digits
    <2>2. Digit(h, d) = IF d < begin THEN Digit(g, d) ELSE Digit(g, d + (q - begin))
      <3>1. begin \in Nat /\ q \in Nat /\ begin <= q /\ d \in Nat
        BY <1>1, <1>3, <2>1
      <3> QED BY <3>1, LeftDigit
    <2>0. /\ d < begin => new.digit[d] = a.digit[d]
          /\ ~(d < begin) /\ d < moved => new.digit[d] = a.digit[d + by]
          /\ ~(d < begin) /\ ~(d < moved) /\ d - moved + 1 <= Len(a.plus) => new.digit[d] = a.plus[d - moved + 1]
          /\ ~(d < begin) /\ ~(d < moved) /\ ~(d - moved + 1 <= Len(a.plus)) => new.digit[d] = NoArgument
      BY <1>1, <1>3, <1>4, <2>1
    <2>3. CASE d < begin
      BY <2>0, <2>2, <2>3, <1>5
    <2>4. CASE d >= begin /\ d < moved
      <3>1. q - begin = by /\ d + by \in Digits
        BY <2>1, <2>4, <1>1, <1>2 DEF moved, Digits
      <3>2. ~(d < begin)
        BY <2>1, <2>4, <1>1
      <3>3. new.digit[d] = a.digit[d + by]
        BY <2>0, <2>4, <3>2
      <3> QED BY <2>2, <3>1, <3>2, <3>3, <1>5
    <2>5. CASE d >= moved
      <3>1. ~(d < begin) /\ ~(d < moved)
        BY <2>1, <2>5, <1>1, <1>3
      <3>2. (Last + 2) + (d - moved + 1) - 1 = d + (q - begin) + 1
        BY <1>1, <1>3, <2>1
      <3>3. d - moved + 1 <= Len(a.plus) <=> d + (q - begin) < Len(g)
        <4> DEFINE n == Len(g)
                   p == Len(a.plus)
        <4>1. n \in Nat /\ p = (IF Last + 2 <= n THEN n - (Last + 2) + 1 ELSE 0)
          BY <1>6, <1>7
        <4>2. q - begin = Last + 1 - moved /\ moved \in Nat /\ d \in Nat /\ moved <= d
          BY <1>3, <2>1, <2>5
        <4> HIDE DEF n, p, q, moved
        <4>3. d + (q - begin) = d - moved + (Last + 1)
          BY <4>2
        <4>4. d - moved + 1 <= p <=> d - moved + (Last + 1) < n
          BY <4>1, <4>2
        <4> QED BY <4>3, <4>4 DEF n, p
      <3>4. CASE d - moved + 1 <= Len(a.plus)
        <4>1. new.digit[d] = a.plus[d - moved + 1]
          BY <3>1, <3>4, <2>0
        <4>2. d - moved + 1 \in 1..Len(a.plus)
          BY <3>4, <2>1, <2>5, <1>3
        <4>3. a.plus[d - moved + 1] = g[d + (q - begin) + 1]
          BY <4>2, <3>2, <1>7
        <4> QED BY <4>1, <4>3, <3>1, <3>3, <3>4, <2>2 DEF Digit
      <3>5. CASE ~(d - moved + 1 <= Len(a.plus))
        <4>1. new.digit[d] = NoArgument
          BY <3>1, <3>5, <2>0
        <4> QED BY <4>1, <3>1, <3>3, <3>5, <2>2 DEF Digit
      <3> QED BY <3>4, <3>5
    <2> QED BY <2>1, <2>3, <2>4, <2>5, <1>1, <1>3
  <1>9. new.digit = View(h).digit
    BY <1>4, <1>8 DEF View
  <1>10. new.plus = View(h).plus
    <2>1. From(h, Last + 2) = From(g, (Last + 2) + (q - begin))
      BY <1>1, <1>3, <1>6, FromLeft
    <2>2. CASE moved > Last
      <3>1. q - begin = 0
        BY <2>2, <1>1, <1>2, <1>3
      <3> QED BY <2>1, <2>2, <3>1, <1>4, <1>5 DEF View
    <2>3. CASE ~(moved > Last)
      <3>1. Last + 2 - moved \in Nat \ {0} /\ (Last + 2) + (Last + 2 - moved) - 1 = (Last + 2) + (q - begin)
        BY <2>3, <1>1, <1>3
      <3>2. From(From(g, Last + 2), Last + 2 - moved) = From(g, (Last + 2) + (Last + 2 - moved) - 1)
        BY <3>1, <1>6, FromFrom
      <3> QED BY <2>1, <2>3, <3>1, <3>2, <1>4, <1>5 DEF View
    <2> QED BY <2>2, <2>3
  <1> QED BY <1>9, <1>10 DEF new, q

-----------------------------------------------------------------------------
(* CALL: what its words have made of the structure it fills, after each of them *)

\* f[i] is what CmdCall has after i words of the line.
Reads(line, n, f) ==
    f = [i \in 0..n |-> IF i = 0 THEN Unread(line) ELSE ReadWord(f[i - 1], line[i])]

LEMMA CallIsRead ==
    ASSUME NEW S, NEW line \in Seq(S)
    PROVE  \E f : Reads(line, Len(line), f) /\ CallTarget(line) = f[Len(line)]
  <1>1. Len(line) \in Nat
    OBVIOUS
  <1>2. ASSUME NEW n \in Nat PROVE \E f : Reads(line, n, f)
    <2> DEFINE Without == {l \in Nat : ~ \E f : Reads(line, l, f)}
    <2>1. SUFFICES ASSUME Without # {} PROVE FALSE
      OBVIOUS
    <2>2. PICK m \in Without : \A l \in Without : m <= l
      <3>1. Without \in SUBSET Nat
        OBVIOUS
      <3> HIDE DEF Without
      <3> QED BY <2>1, <3>1, LeastOf
    <2>3. CASE m = 0
      <3> DEFINE f == [i \in 0..0 |-> Unread(line)]
      <3>1. f = [i \in 0..0 |-> IF i = 0 THEN Unread(line) ELSE ReadWord(f[i - 1], line[i])]
        OBVIOUS
      <3>2. Reads(line, 0, f)
        BY <3>1 DEF Reads
      <3> QED BY <2>3, <3>2
    <2>4. CASE m # 0
      <3>1. m \in Nat /\ m - 1 \in Nat /\ m - 1 \notin Without
        BY <2>2, <2>4
      <3>2. PICK g : Reads(line, m - 1, g)
        BY <3>1
      <3> DEFINE f == [i \in 0..m |-> IF i < m THEN g[i] ELSE ReadWord(g[m - 1], line[m])]
                 e == [i \in 0..m |-> IF i = 0 THEN Unread(line) ELSE ReadWord(f[i - 1], line[i])]
      <3>3. \A i \in 0..(m - 1) : g[i] = IF i = 0 THEN Unread(line) ELSE ReadWord(g[i - 1], line[i])
        BY <3>1, <3>2 DEF Reads
      <3>4. ASSUME NEW i \in 0..m PROVE f[i] = e[i]
        <4>1. CASE i = 0
          BY <4>1, <3>1, <3>3, <2>4
        <4>2. CASE i # 0
          <5>1. i - 1 \in 0..m /\ i - 1 < m /\ m \in Nat
            BY <4>2, <3>1
          <5>2. f[i - 1] = g[i - 1] /\ e[i] = ReadWord(f[i - 1], line[i])
            BY <5>1, <4>2
          <5>3. CASE i < m
            BY <5>1, <5>2, <5>3, <4>2, <3>3
          <5>4. CASE i = m
            BY <5>1, <5>2, <5>4
          <5> QED BY <5>1, <5>3, <5>4
        <4> QED BY <4>1, <4>2
      <3>5. f = e
        BY <3>4
      <3>6. Reads(line, m, f)
        BY <3>5 DEF Reads
      <3> QED BY <2>2, <3>6
    <2> QED BY <2>3, <2>4
  <1>3. \E f : Reads(line, Len(line), f)
    BY <1>1, <1>2
  <1> DEFINE upto == CHOOSE f : Reads(line, Len(line), f)
  <1>4. Reads(line, Len(line), upto)
    BY <1>3
  <1>5. CallTarget(line) = upto[Len(line)]
    BY DEF CallTarget, Reads
  <1> QED BY <1>4, <1>5

LEMMA TailFrom ==
    ASSUME NEW S, NEW s \in Seq(S), NEW k \in 1..Len(s)
    PROVE  Tail(From(s, k)) = From(s, k + 1)
  <1> DEFINE a == From(s, k)
             t == Tail(a)
             b == From(s, k + 1)
             n == Len(s)
  <1>1. n \in Nat /\ k \in Nat \ {0} /\ k <= n /\ k + 1 \in Nat \ {0}
    OBVIOUS
  <1>2. a \in Seq(S) /\ Len(a) = n - k + 1 /\ \A i \in 1..(n - k + 1) : a[i] = s[k + i - 1]
    BY <1>1, FromFacts
  <1>3. b \in Seq(S) /\ Len(b) = n - k /\ \A i \in 1..(n - k) : b[i] = s[(k + 1) + i - 1]
    <2>1. /\ b \in Seq(S) /\ Len(b) = IF k + 1 <= n THEN n - (k + 1) + 1 ELSE 0
          /\ \A i \in 1..Len(b) : b[i] = s[(k + 1) + i - 1]
      BY <1>1, FromFacts
    <2>2. (IF k + 1 <= n THEN n - (k + 1) + 1 ELSE 0) = n - k
      BY <1>1
    <2> QED BY <2>1, <2>2
  <1> HIDE DEF a, b, n
  <1>4. a # <<>>
    BY <1>1, <1>2
  <1>5. t \in Seq(S) /\ Len(t) = n - k /\ \A i \in 1..(n - k) : t[i] = a[i + 1]
    <2>1. Len(a) - 1 = n - k
      BY <1>1, <1>2
    <2>2. t \in Seq(S) /\ Len(t) = Len(a) - 1 /\ \A i \in 1..Len(t) : t[i] = a[i + 1]
      BY <1>2, <1>4, HeadTailProperties
    <2> QED BY <2>1, <2>2
  <1> HIDE DEF t
  <1>6. ASSUME NEW i \in 1..(n - k) PROVE t[i] = b[i]
    <2>1. i + 1 \in 1..(n - k + 1) /\ k + (i + 1) - 1 = (k + 1) + i - 1
      BY <1>1
    <2> QED BY <2>1, <1>2, <1>3, <1>5
  <1>7. t = b
    BY <1>3, <1>5, <1>6, SeqEqual
  <1> QED BY <1>7 DEF t, a, b

LEMMA SwitchesFacts ==
    ASSUME NEW S, NEW line \in Seq(S)
    PROVE  /\ Switches(line) \in 0..Len(line)
           /\ \A i \in 1..Switches(line) : line[i] = Switch
           /\ Switches(line) < Len(line) => line[Switches(line) + 1] # Switch
  <1> DEFINE Ends == {l \in 0..Len(line) : l < Len(line) => line[l + 1] # Switch}
  <1>1. Len(line) \in Nat
    OBVIOUS
  <1>2. PICK k \in Ends : \A l \in Ends : k <= l
    <2>1. Ends \in SUBSET Nat /\ Len(line) \in Ends
      BY <1>1
    <2> HIDE DEF Ends
    <2> QED BY <2>1, LeastOf
  <1>3. ASSUME NEW i \in 1..k PROVE line[i] = Switch
    <2>1. i - 1 \in 0..Len(line) /\ i - 1 < k /\ ~(k <= i - 1) /\ i - 1 + 1 = i /\ i - 1 < Len(line)
      BY <1>1, <1>2
    <2>2. i - 1 \notin Ends
      BY <1>2, <2>1
    <2> QED BY <2>1, <2>2
  <1>4. k \in 0..Len(line) /\ InFront(line, k)
    BY <1>2, <1>3 DEF InFront
  <1>5. Switches(line) \in 0..Len(line) /\ InFront(line, Switches(line))
    BY <1>4 DEF Switches
  <1> QED BY <1>5 DEF InFront

\* x is the first word of S among those of the line behind the k-th, up to the m-th.
First(line, k, m, S, x) ==
    \/ x = NoArgument /\ \A j \in (k + 1)..m : line[j] \notin S
    \/ \E j \in (k + 1)..m : x = line[j] /\ line[j] \in S /\ \A l \in (k + 1)..(j - 1) : line[l] \notin S

LEMMA FirstGrows ==
    ASSUME NEW line, NEW k \in Nat, NEW m \in Nat, k < m, NEW S, NoArgument \notin S, NEW x,
           First(line, k, m - 1, S, x)
    PROVE  First(line, k, m, S, IF x = NoArgument /\ line[m] \in S THEN line[m] ELSE x)
  <1>1. \A j \in (k + 1)..m : j \in (k + 1)..(m - 1) \/ j = m
    OBVIOUS
  <1>2. m \in (k + 1)..m /\ \A j \in (k + 1)..(m - 1) : j \in (k + 1)..m
    OBVIOUS
  <1>3. CASE x = NoArgument
    <2>1. \A j \in (k + 1)..(m - 1) : line[j] \notin S
      BY <1>3 DEF First
    <2>2. CASE line[m] \in S
      BY <1>2, <1>3, <2>1, <2>2 DEF First
    <2>3. CASE line[m] \notin S
      BY <1>1, <1>3, <2>1, <2>3 DEF First
    <2> QED BY <2>2, <2>3
  <1>4. CASE x # NoArgument
    <2>1. PICK j \in (k + 1)..(m - 1) : x = line[j] /\ line[j] \in S /\ \A l \in (k + 1)..(j - 1) : line[l] \notin S
      BY <1>4 DEF First
    <2> QED BY <1>2, <1>4, <2>1 DEF First
  <1> QED BY <1>3, <1>4

\* The last word that may name the target, and what the structure is after i words.
Limit(line) == Switches(line) + (IF Switches(line) = 0 THEN 1 ELSE 2)
FileNames == Word \ (Labels \cup {NoArgument})
Structure(l, f, w, e, a, t) == [label |-> l, file |-> f, words |-> w, extended |-> e, args |-> a, stopped |-> t]
FilledUpto(line, i, m, c) ==
    LET k == Switches(line)
    IN  /\ c = Structure(c.label, c.file, IF m <= k THEN 0 ELSE m - k, i # 0 /\ k # 0, From(line, m + 1), Limit(line) < i)
        /\ First(line, k, m, Labels, c.label)
        /\ First(line, k, m, FileNames, c.file)
Filled(line, i, c) == FilledUpto(line, i, Least(i, Limit(line)), c)

\* What a word makes of the structure, branch by branch.
IsRead(l, f, w, e, a, t, word, new) ==
    /\ t => new = Structure(l, f, w, e, a, t)
    /\ ~t /\ word = Switch /\ w = 0 => new = Structure(l, f, w, TRUE, Tail(a), t)
    /\ ~t /\ ~(word = Switch /\ w = 0) /\ w = (IF e THEN 2 ELSE 1) => new = Structure(l, f, w, e, a, TRUE)
    /\ ~t /\ ~(word = Switch /\ w = 0) /\ w # (IF e THEN 2 ELSE 1) /\ word \in Labels
         => new = Structure(IF l = NoArgument THEN word ELSE l, f, w + 1, e, Tail(a), t)
    /\ ~t /\ ~(word = Switch /\ w = 0) /\ w # (IF e THEN 2 ELSE 1) /\ word \notin Labels
         => new = Structure(l, IF f = NoArgument THEN word ELSE f, w + 1, e, Tail(a), t)

LEMMA ReadWordReads ==
    ASSUME NEW l, NEW f, NEW w, NEW e \in BOOLEAN, NEW a, NEW t \in BOOLEAN, NEW word
    PROVE  IsRead(l, f, w, e, a, t, word, ReadWord(Structure(l, f, w, e, a, t), word))
  <1> DEFINE c == Structure(l, f, w, e, a, t)
  <1>1. c.stopped = t /\ c.words = w /\ c.extended = e /\ c.args = a /\ c.label = l /\ c.file = f
    BY DEF Structure
  <1> QED BY <1>1 DEF ReadWord, Structure, IsRead

LEMMA WordIsFilledIn ==
    ASSUME NoArgument \notin Labels, NEW line \in Seq(Word), NEW i \in 1..Len(line), NEW c,
           Filled(line, i - 1, c)
    PROVE  Filled(line, i, ReadWord(c, line[i]))
  <1> DEFINE k == Switches(line)
             top == Limit(line)
             m == Least(i - 1, top)
             word == line[i]
             new == ReadWord(c, word)
             w == IF m <= k THEN 0 ELSE m - k
             e == i - 1 # 0 /\ k # 0
             a == From(line, m + 1)
             t == top < i - 1
             l == c.label
             f == c.file
  <1>1. /\ Len(line) \in Nat /\ i \in Nat /\ i - 1 \in Nat /\ k \in Nat /\ top \in Nat /\ i <= Len(line)
        /\ top = k + (IF k = 0 THEN 1 ELSE 2) /\ k < top
    BY SwitchesFacts DEF Limit
  <1>2. /\ \A j \in 1..k : line[j] = Switch
        /\ k < Len(line) => line[k + 1] # Switch
    BY SwitchesFacts
  <1>3. c = Structure(l, f, w, e, a, t) /\ First(line, k, m, Labels, l) /\ First(line, k, m, FileNames, f)
    BY DEF Filled, FilledUpto
  <1>4. word \in Word
    BY <1>1, ElementOfSeq
  <1>5. IsRead(l, f, w, e, a, t, word, new)
    <2>1. e \in BOOLEAN /\ t \in BOOLEAN
      OBVIOUS
    <2> HIDE DEF word, l, f, w, e, a, t
    <2>2. IsRead(l, f, w, e, a, t, word, ReadWord(Structure(l, f, w, e, a, t), word))
      BY <2>1, ReadWordReads
    <2> QED BY <2>2, <1>3, Zenon
  <1>6. Tail(From(line, i)) = From(line, i + 1)
    BY TailFrom
  <1>7. /\ i <= k => m = i - 1 /\ Least(i, top) = i
        /\ k < i /\ i <= top => m = i - 1 /\ Least(i, top) = i
        /\ top < i => m = top /\ Least(i, top) = top
    BY <1>1 DEF Least
  <1> HIDE DEF k, top, word, new, m, l, f, w, e, a, t
  <1>8. CASE i <= k
    <2>1. w = 0 /\ t = FALSE /\ (top < i) = FALSE /\ word = Switch /\ m + 1 = i /\ (i # 0 /\ k # 0) = TRUE
          /\ (IF i <= k THEN 0 ELSE i - k) = 0
      BY <1>1, <1>2, <1>7, <1>8 DEF word, w, t
    <2>8. a = From(line, i)
      BY <2>1 DEF a
    <2>2. new = Structure(l, f, 0, TRUE, From(line, i + 1), FALSE)
      BY <1>5, <1>6, <2>1, <2>8, Zenon DEF IsRead
    <2>3. (k + 1)..m = {} /\ (k + 1)..i = {}
      BY <1>1, <1>7, <1>8
    <2>4. First(line, k, i, Labels, l) /\ First(line, k, i, FileNames, f)
      BY <1>3, <2>3 DEF First
    <2>5. new.label = l /\ new.file = f
      BY <2>2 DEF Structure
    <2>6. new = Structure(new.label, new.file, IF i <= k THEN 0 ELSE i - k, i # 0 /\ k # 0, From(line, i + 1), top < i)
      BY <2>1, <2>2, <2>5, Zenon
    <2>7. FilledUpto(line, i, i, new)
      BY <2>4, <2>5, <2>6 DEF FilledUpto, k, top
    <2> QED BY <2>7, <1>7, <1>8 DEF Filled, new, word, top
  <1>9. CASE k < i /\ i <= top
    <2>1. /\ m = i - 1 /\ t = FALSE /\ ~(top < i) /\ m + 1 = i /\ i # 0
          /\ w = i - 1 - k /\ w \in Nat /\ e = (k # 0) /\ w # (IF e THEN 2 ELSE 1)
      BY <1>1, <1>7, <1>9 DEF w, e, t
    <2>9. a = From(line, i)
      BY <2>1 DEF a
    <2>2. ~(word = Switch /\ w = 0)
      BY <1>1, <1>2, <1>9, <2>1 DEF word
    <2>3. NoArgument \notin FileNames /\ (word \in FileNames <=> word \notin Labels /\ word # NoArgument)
      BY <1>4 DEF FileNames
    <2>4. /\ First(line, k, i, Labels, IF l = NoArgument /\ word \in Labels THEN word ELSE l)
          /\ First(line, k, i, FileNames, IF f = NoArgument /\ word \in FileNames THEN word ELSE f)
      BY <1>1, <1>3, <1>9, <2>1, <2>3, FirstGrows DEF word
    <2>5. PICK x, y : /\ new = Structure(x, y, i - k, k # 0, From(line, i + 1), FALSE)
                      /\ First(line, k, i, Labels, x) /\ First(line, k, i, FileNames, y)
      <3>1. w + 1 = i - k
        BY <1>1, <2>1
      <3>2. CASE word \in Labels
        <4>1. new = Structure(IF l = NoArgument THEN word ELSE l, f, i - k, k # 0, From(line, i + 1), FALSE)
          BY <1>5, <1>6, <2>1, <2>2, <2>9, <3>1, <3>2, Zenon DEF IsRead
        <4>2. First(line, k, i, FileNames, f) /\ First(line, k, i, Labels, IF l = NoArgument THEN word ELSE l)
          BY <2>3, <2>4, <3>2
        <4> QED BY <4>1, <4>2
      <3>3. CASE word \notin Labels
        <4>1. new = Structure(l, IF f = NoArgument THEN word ELSE f, i - k, k # 0, From(line, i + 1), FALSE)
          BY <1>5, <1>6, <2>1, <2>2, <2>9, <3>1, <3>3, Zenon DEF IsRead
        <4>2. First(line, k, i, Labels, l) /\ First(line, k, i, FileNames, IF f = NoArgument THEN word ELSE f)
          <5>1. (IF f = NoArgument /\ word \in FileNames THEN word ELSE f) = (IF f = NoArgument THEN word ELSE f)
            BY <2>3, <3>3
          <5> QED BY <2>4, <3>3, <5>1
        <4> QED BY <4>1, <4>2
      <3> QED BY <3>2, <3>3
    <2>6. new.label = x /\ new.file = y
      BY <2>5 DEF Structure
    <2>7. new = Structure(new.label, new.file, IF i <= k THEN 0 ELSE i - k, i # 0 /\ k # 0, From(line, i + 1), top < i)
      <3>1. (IF i <= k THEN 0 ELSE i - k) = i - k /\ (i # 0 /\ k # 0) = (k # 0) /\ (top < i) = FALSE
        BY <1>1, <1>9, <2>1
      <3> QED BY <2>5, <2>6, <3>1, Zenon
    <2>8. FilledUpto(line, i, i, new)
      BY <2>5, <2>6, <2>7 DEF FilledUpto, k, top
    <2> QED BY <2>8, <1>7, <1>9 DEF Filled, new, word, top
  <1>10. CASE top < i
    <2>1. /\ m = top /\ w = top - k /\ (IF top <= k THEN 0 ELSE top - k) = w
          /\ (i # 0 /\ k # 0) = e /\ w = (IF e THEN 2 ELSE 1) /\ w # 0 /\ t \in BOOLEAN
      BY <1>1, <1>7, <1>10 DEF w, e, t
    <2>6. a = From(line, top + 1) /\ (top < i) = TRUE
      BY <2>1, <1>10 DEF a
    <2>2. new = Structure(l, f, w, e, a, TRUE)
      <3>1. CASE t
        <4>1. t = TRUE
          BY <2>1, <3>1
        <4> QED BY <1>5, <4>1, Zenon DEF IsRead
      <3>2. CASE ~t
        BY <1>5, <2>1, <3>2, Zenon DEF IsRead
      <3> QED BY <3>1, <3>2
    <2>3. new.label = l /\ new.file = f
      BY <2>2 DEF Structure
    <2>4. new = Structure(new.label, new.file, IF top <= k THEN 0 ELSE top - k, i # 0 /\ k # 0, From(line, top + 1), top < i)
      BY <2>1, <2>2, <2>3, <2>6, Zenon
    <2>5. FilledUpto(line, i, top, new)
      BY <1>3, <2>1, <2>3, <2>4 DEF FilledUpto, k, top
    <2> QED BY <2>5, <1>7, <1>10 DEF Filled, new, word, top
  <1> QED BY <1>1, <1>8, <1>9, <1>10

LEMMA CallIsFilledIn ==
    ASSUME NoArgument \notin Labels, NEW line \in Seq(Word)
    PROVE  Filled(line, Len(line), CallTarget(line))
  <1>1. Len(line) \in Nat
    OBVIOUS
  <1>2. PICK f : Reads(line, Len(line), f) /\ CallTarget(line) = f[Len(line)]
    BY CallIsRead
  <1>3. /\ f[0] = Unread(line)
        /\ \A i \in 1..Len(line) : f[i] = ReadWord(f[i - 1], line[i])
    BY <1>1, <1>2 DEF Reads
  <1> DEFINE Wrong == {i \in 0..Len(line) : ~Filled(line, i, f[i])}
  <1>4. ASSUME Wrong # {} PROVE FALSE
    <2>1. PICK i \in Wrong : \A j \in Wrong : i <= j
      <3>1. Wrong \in SUBSET Nat
        BY <1>1
      <3> HIDE DEF Wrong
      <3> QED BY <1>4, <3>1, LeastOf
    <2>2. CASE i = 0
      <3> DEFINE k == Switches(line)
      <3>1. k \in 0..Len(line) /\ Limit(line) \in Nat /\ Least(0, Limit(line)) = 0
        <4>1. k \in 0..Len(line)
          BY SwitchesFacts
        <4> QED BY <1>1, <4>1 DEF Limit, Least
      <3>2. From(line, 1) = line
        BY <1>1 DEF From
      <3>3. (IF 0 <= k THEN 0 ELSE 0 - k) = 0 /\ (0 # 0 /\ k # 0) = FALSE /\ (Limit(line) < 0) = FALSE
            /\ (k + 1)..0 = {} /\ 0 + 1 = 1
        BY <1>1, <3>1
      <3>4. f[0] = Structure(NoArgument, NoArgument, 0, FALSE, line, FALSE)
        BY <1>3 DEF Unread, Structure
      <3>5. f[0].label = NoArgument /\ f[0].file = NoArgument
        BY <3>4 DEF Structure
      <3>6. f[0] = Structure(f[0].label, f[0].file, IF 0 <= k THEN 0 ELSE 0 - k, 0 # 0 /\ k # 0, From(line, 0 + 1), Limit(line) < 0)
        BY <3>2, <3>3, <3>4, <3>5, Zenon
      <3>7. First(line, k, 0, Labels, NoArgument) /\ First(line, k, 0, FileNames, NoArgument)
        BY <3>3 DEF First
      <3>8. Filled(line, 0, f[0])
        BY <3>1, <3>5, <3>6, <3>7, Zenon DEF Filled, FilledUpto
      <3> QED BY <2>1, <2>2, <3>8
    <2>3. CASE i # 0
      <3>1. i \in 1..Len(line) /\ i - 1 \in 0..Len(line) /\ ~(i <= i - 1)
        BY <1>1, <2>1, <2>3
      <3>2. Filled(line, i - 1, f[i - 1])
        BY <2>1, <3>1
      <3>3. Filled(line, i, f[i])
        BY <1>3, <3>1, <3>2, WordIsFilledIn
      <3> QED BY <2>1, <3>3
    <2> QED BY <2>2, <2>3
  <1> QED BY <1>1, <1>2, <1>4

LEMMA FirstOfIsFirst ==
    ASSUME NEW S, NEW names \in Seq(S), NEW T, NEW i \in 1..Len(names),
           names[i] \in T, \A j \in 1..(i - 1) : names[j] \notin T
    PROVE  FirstOf(names, T) = names[i]
  <1> DEFINE c == CHOOSE l \in DOMAIN names : names[l] \in T /\ \A j \in 1..(l - 1) : names[j] \notin T
  <1>1. DOMAIN names = 1..Len(names) /\ Len(names) \in Nat
    OBVIOUS
  <1>2. c \in 1..Len(names) /\ names[c] \in T /\ \A j \in 1..(c - 1) : names[j] \notin T
    BY <1>1
  <1>3. FirstOf(names, T) = names[c]
    BY DEF FirstOf
  <1> HIDE DEF c
  <1>4. ~(c < i) /\ ~(i < c)
    BY <1>1, <1>2
  <1>5. c = i
    BY <1>1, <1>2, <1>4
  <1> QED BY <1>3, <1>5

\* What CALL reads word by word is what Target and Behind say of the line.
LEMMA CallMeansItsLine ==
    ASSUME NoArgument \notin Labels, NEW line \in Seq(Word)
    PROVE  LET c == CallTarget(line)
           IN  /\ c.args = Behind(line)
               /\ {c.label, c.file} # {NoArgument} =>
                     (IF c.label # NoArgument THEN c.label ELSE c.file) = Target(line) /\ Target(line) \in Word
  <1> DEFINE c == CallTarget(line)
             k == Switches(line)
             n == Named(line)
             names == CallNames(line)
  <1>1. Len(line) \in Nat /\ k \in 0..Len(line)
    BY SwitchesFacts
  <1>2. n = Least(Len(line), Limit(line)) /\ n \in Nat /\ k <= n /\ n <= Len(line)
    BY <1>1 DEF Named, Limit, Least
  <1>3. FilledUpto(line, Len(line), n, c)
    BY <1>2, CallIsFilledIn DEF Filled
  <1>4. c.args = Behind(line)
    BY <1>3 DEF FilledUpto, Structure, Behind
  <1>5. First(line, k, n, Labels, c.label) /\ First(line, k, n, FileNames, c.file)
    BY <1>3 DEF FilledUpto
  <1>6. names \in Seq(Word) /\ Len(names) = n - k /\ \A i \in 1..(n - k) : names[i] = line[k + i] /\ names[i] \in Word
    <2>1. \A i \in (k + 1)..n : line[i] \in Word
      BY <1>1, <1>2, ElementOfSeq
    <2>2. names = SubSeq(line, k + 1, n)
      BY DEF CallNames
    <2>3. k + 1 \in Nat /\ n \in Nat /\ (IF k + 1 <= n THEN n - (k + 1) + 1 ELSE 0) = n - k /\ n - (k + 1) + 1 = n - k
      BY <1>1, <1>2
    <2> HIDE DEF names, k, n
    <2>4. /\ SubSeq(line, k + 1, n) \in Seq(Word)
          /\ Len(SubSeq(line, k + 1, n)) = (IF k + 1 <= n THEN n - (k + 1) + 1 ELSE 0)
          /\ \A i \in 1..n - (k + 1) + 1 : SubSeq(line, k + 1, n)[i] = line[(k + 1) + i - 1]
      BY <2>1, <2>3, SubSeqProperties
    <2>5. \A i \in 1..(n - k) : (k + 1) + i - 1 = k + i /\ k + i \in (k + 1)..n
      BY <1>1, <1>2
    <2> QED BY <2>1, <2>2, <2>3, <2>4, <2>5
  <1> HIDE DEF c, k, n, names
  <1>7. CASE c.label # NoArgument
    <2>1. PICK j \in (k + 1)..n : c.label = line[j] /\ line[j] \in Labels /\ \A l \in (k + 1)..(j - 1) : line[l] \notin Labels
      BY <1>5, <1>7 DEF First
    <2>2. j - k \in 1..(n - k) /\ k + (j - k) = j /\ \A i \in 1..(j - k - 1) : i \in 1..(n - k) /\ k + i \in (k + 1)..(j - 1)
      BY <1>1, <1>2
    <2>3. names[j - k] = c.label /\ names[j - k] \in Labels /\ \A i \in 1..(j - k - 1) : names[i] \notin Labels
      BY <1>6, <2>1, <2>2
    <2>7. PICK i \in 1..Len(names) : i = j - k
      BY <1>6, <2>2
    <2>8. names[i] \in Labels /\ \A l \in 1..(i - 1) : names[l] \notin Labels
      BY <2>3, <2>7
    <2>4. FirstOf(names, Labels) = c.label
      BY <1>6, <2>3, <2>7, <2>8, FirstOfIsFirst
    <2>5. Range(names) \cap Labels # {}
      BY <1>6, <2>2, <2>3 DEF Range
    <2>6. Target(line) = c.label
      BY <2>4, <2>5 DEF Target, names
    <2> QED BY <1>4, <1>6, <1>7, <2>2, <2>3, <2>6 DEF c
  <1>8. CASE c.label = NoArgument /\ c.file # NoArgument
    <2>1. \A j \in (k + 1)..n : line[j] \notin Labels
      BY <1>5, <1>8 DEF First
    <2>2. PICK j \in (k + 1)..n : c.file = line[j] /\ line[j] \in FileNames /\ \A l \in (k + 1)..(j - 1) : line[l] \notin FileNames
      BY <1>5, <1>8 DEF First
    <2> DEFINE T == Range(names) \ {NoArgument}
    <2>3. \A i \in 1..(n - k) : k + i \in (k + 1)..n
      BY <1>1, <1>2
    <2>4. \A i \in 1..(n - k) : names[i] \notin Labels /\ names[i] \in Range(names)
      BY <1>6, <2>1, <2>3 DEF Range
    <2>5. Range(names) \cap Labels = {}
      BY <1>6, <2>4 DEF Range
    <2>6. \A i \in 1..(n - k) : names[i] \in T <=> line[k + i] \in FileNames
      BY <1>6, <2>4 DEF FileNames
    <2>7. j - k \in 1..(n - k) /\ k + (j - k) = j /\ \A i \in 1..(j - k - 1) : i \in 1..(n - k) /\ k + i \in (k + 1)..(j - 1)
      BY <1>1, <1>2
    <2>8. names[j - k] = c.file /\ names[j - k] \in T /\ \A i \in 1..(j - k - 1) : names[i] \notin T
      BY <1>6, <2>2, <2>6, <2>7
    <2> HIDE DEF T
    <2>11. PICK i \in 1..Len(names) : i = j - k
      BY <1>6, <2>7
    <2>12. names[i] \in T /\ \A l \in 1..(i - 1) : names[l] \notin T
      BY <2>8, <2>11
    <2>9. FirstOf(names, T) = c.file
      BY <1>6, <2>8, <2>11, <2>12, FirstOfIsFirst
    <2>10. Target(line) = c.file
      BY <2>5, <2>9 DEF Target, names, T
    <2> QED BY <1>4, <1>6, <1>8, <2>7, <2>8, <2>10 DEF c
  <1> QED BY <1>4, <1>7, <1>8 DEF c

-----------------------------------------------------------------------------
(* The invariant: every file has the words it was given, and its blocks show    *)
(* them.                                                                        *)

Blocks == [digit : [Digits -> Word], plus : Seq(Word), star : Seq(Word)]
Shows(a, list) == a.digit = View(list).digit /\ a.plus = View(list).plus
Inv ==
    /\ args \in Blocks /\ callers \in Seq(Blocks)
    /\ given \in Seq(Seq(Word)) /\ Len(given) = Len(callers) + 1
    /\ Shows(args, given[1])
    /\ \A i \in 1..Len(callers) : Shows(callers[i], given[i + 1])

LEMMA WordsAreWords ==
    /\ \A line \in CallLines : line \in Seq(Word)
    /\ \A words \in Lists : words \in Seq(Word)
  <1>1. ASSUME NEW line \in CallLines PROVE line \in Seq(Word)
    <2>1. line \in Seq(Range(line)) /\ Range(line) \subseteq Word
      BY WordHas, ArgumentsAssumption
    <2> QED BY <2>1, SeqMonotonic
  <1>2. ASSUME NEW words \in Lists PROVE words \in Seq(Word)
    <2>1. PICK n \in 0..MaxArguments : words \in [1..n -> Words]
      BY DEF Lists
    <2>2. words \in [1..n -> Word] /\ n \in Nat
      BY <2>1, WordHas, ArgumentsAssumption
    <2> QED BY <2>2, SeqDef
  <1> QED BY <1>1, <1>2

LEMMA ViewFacts ==
    ASSUME Last \in Nat, NEW list \in Seq(Word)
    PROVE  View(list).digit \in [Digits -> Word] /\ View(list).plus \in Seq(Word)
  <1>1. Last + 2 \in Nat \ {0}
    OBVIOUS
  <1>2. From(list, Last + 2) \in Seq(Word)
    BY <1>1, FromFacts
  <1>3. ASSUME NEW d \in Digits PROVE Digit(list, d) \in Word
    <2>1. d \in Nat /\ (d < Len(list) => d + 1 \in 1..Len(list))
      BY DEF Digits
    <2> QED BY <2>1, WordHas, ElementOfSeq DEF Digit
  <1> QED BY <1>2, <1>3 DEF View

LEMMA SetArgumentsShows ==
    ASSUME Last \in Nat, NEW file \in Word, NEW words \in Seq(Word)
    PROVE  /\ SetArguments(file, words) \in Blocks
           /\ Shows(SetArguments(file, words), <<file>> \o words)
           /\ <<file>> \o words \in Seq(Word)
  <1> DEFINE list == <<file>> \o words
             a == SetArguments(file, words)
  <1>1. list \in Seq(Word)
    OBVIOUS
  <1> HIDE DEF list
  <1>2. a = [digit |-> View(list).digit, plus |-> View(list).plus, star |-> words]
    BY DEF SetArguments, View, list
  <1>5. a \in Blocks
    BY <1>1, <1>2, ViewFacts DEF Blocks
  <1>6. Shows(a, list)
    BY <1>2 DEF Shows, View
  <1> QED BY <1>1, <1>5, <1>6 DEF list

\* A file is entered: its list goes in front of those of the files that wait.
LEMMA EnterKeepsInv ==
    ASSUME Last \in Nat, Inv, NEW file \in Word, NEW words \in Seq(Word), Enter(file, words, <<file>> \o words)
    PROVE  Inv'
  <1> DEFINE list == <<file>> \o words
             a == SetArguments(file, words)
  <1>1. a \in Blocks /\ Shows(a, list) /\ list \in Seq(Word)
    BY SetArgumentsShows
  <1> HIDE DEF list, a
  <1>2. args' = a /\ callers' = <<args>> \o callers /\ given' = <<list>> \o given
    BY DEF Enter, list, a
  <1>3. /\ Len(callers) \in Nat /\ Len(given) = Len(callers) + 1
        /\ callers \in Seq(Blocks) /\ args \in Blocks /\ given \in Seq(Seq(Word))
    BY DEF Inv
  <1>4. callers' \in Seq(Blocks) /\ Len(callers') = Len(callers) + 1
        /\ callers'[1] = args /\ \A i \in 1..Len(callers) : callers'[i + 1] = callers[i]
    BY <1>2, <1>3
  <1>5. given' \in Seq(Seq(Word)) /\ Len(given') = Len(given) + 1
        /\ given'[1] = list /\ \A i \in 1..Len(given) : given'[i + 1] = given[i]
    BY <1>1, <1>2, <1>3
  <1>6. ASSUME NEW i \in 1..Len(callers') PROVE Shows(callers'[i], given'[i + 1])
    <2>1. CASE i = 1
      <3>1. 1 \in 1..Len(given)
        BY <1>3
      <3> QED BY <2>1, <3>1, <1>4, <1>5 DEF Inv
    <2>2. CASE i # 1
      <3>1. i - 1 \in 1..Len(callers) /\ i \in 1..Len(given) /\ i - 1 + 1 = i
        BY <2>2, <1>3, <1>4
      <3>2. callers'[i] = callers[i - 1] /\ given'[i + 1] = given[i]
        BY <3>1, <1>4, <1>5
      <3> QED BY <3>1, <3>2 DEF Inv
    <2> QED BY <2>1, <2>2
  <1> QED BY <1>1, <1>2, <1>3, <1>4, <1>5, <1>6 DEF Inv

LEMMA InitInv ==
    ASSUME ArgInit
    PROVE  Inv
  <1>1. PICK words \in Lists : args = SetArguments("main", words) /\ given = <<(<<"main">> \o words)>>
    BY DEF ArgInit, GetParameters
  <1>2. words \in Seq(Word) /\ Last \in Nat
    BY WordsAreWords, ArgumentsAssumption
  <1> DEFINE list == <<"main">> \o words
  <1>3. args \in Blocks /\ Shows(args, list) /\ list \in Seq(Word)
    BY <1>1, <1>2, WordHas, SetArgumentsShows
  <1> HIDE DEF list
  <1>4. given = <<list>> /\ callers = <<>>
    BY <1>1 DEF ArgInit, list
  <1> QED BY <1>3, <1>4 DEF Inv

LEMMA ReturnKeepsInv ==
    ASSUME Inv, Return
    PROVE  Inv'
  <1>1. /\ callers \in Seq(Blocks) /\ callers # <<>> /\ Len(callers) \in Nat \ {0}
        /\ given \in Seq(Seq(Word)) /\ Len(given) = Len(callers) + 1 /\ given # <<>>
    BY DEF Inv, Return
  <1>2. callers' \in Seq(Blocks) /\ Len(callers') = Len(callers) - 1
        /\ \A i \in 1..(Len(callers) - 1) : callers'[i] = callers[i + 1]
    BY <1>1, HeadTailProperties DEF Return
  <1>3. given' \in Seq(Seq(Word)) /\ Len(given') = Len(callers)
        /\ \A i \in 1..Len(callers) : given'[i] = given[i + 1]
    <2>1. given' \in Seq(Seq(Word)) /\ Len(given') = Len(given) - 1 /\ \A i \in 1..Len(given') : given'[i] = given[i + 1]
      BY <1>1, HeadTailProperties DEF Return
    <2>2. Len(given) - 1 = Len(callers)
      BY <1>1
    <2> QED BY <2>1, <2>2
  <1>4. args' = callers[1] /\ callers[1] \in Blocks
    BY <1>1, HeadTailProperties DEF Return
  <1>5. Shows(args', given'[1])
    BY <1>1, <1>3, <1>4 DEF Inv
  <1>6. ASSUME NEW i \in 1..Len(callers') PROVE Shows(callers'[i], given'[i + 1])
    <2>1. i + 1 \in 1..Len(callers) /\ i \in 1..(Len(callers) - 1)
      BY <1>1, <1>2
    <2> QED BY <2>1, <1>2, <1>3 DEF Inv
  <1> QED BY <1>1, <1>2, <1>3, <1>4, <1>5, <1>6 DEF Inv

LEMMA ShiftKeepsInv ==
    ASSUME Last \in Nat, Inv, NEW begin \in Digits, NEW by \in Digits, CmdShift(begin, by)
    PROVE  Inv'
  <1> DEFINE q == Least(begin + by, Last + 1)
             g == given[1]
             h == Left(g, begin, q)
  <1>1. /\ Len(callers) \in Nat /\ Len(given) = Len(callers) + 1 /\ given \in Seq(Seq(Word))
        /\ args \in Blocks /\ Shows(args, g)
    BY DEF Inv
  <1>2. g \in Seq(Word)
    <2>1. 1 \in 1..Len(given)
      BY <1>1
    <2> QED BY <1>1, <2>1, ElementOfSeq
  <1>3. begin \in Nat /\ q \in Nat /\ begin <= q
    <2>1. begin \in 0..Last /\ by \in 0..Last
      BY DEF Digits
    <2> QED BY <2>1 DEF Least
  <1>4. given' = [given EXCEPT ![1] = h]
    BY DEF CmdShift, Remaining, Left
  <1>5. h \in Seq(Word)
    BY <1>2, <1>3, LeftFacts
  <1>6. args' = Shifted(args, begin, by) /\ callers' = callers
    BY DEF CmdShift
  <1>7. args = [digit |-> args.digit, plus |-> args.plus, star |-> args.star]
    BY <1>1 DEF Blocks
  <1>8. args'.digit = View(h).digit /\ args'.plus = View(h).plus
    <2>1. args.digit = View(g).digit /\ args.plus = View(g).plus
      BY <1>1 DEF Shows
    <2> HIDE DEF g
    <2>2. /\ Shifted(args, begin, by).digit = View(h).digit
          /\ Shifted(args, begin, by).plus = View(h).plus
      BY <1>2, <1>7, <2>1, ShiftShows
    <2> QED BY <2>2, <1>6
  <1>9. args' = [digit |-> args'.digit, plus |-> args'.plus, star |-> args.star]
    BY <1>6, <1>7 DEF Shifted
  <1> HIDE DEF h, g
  <1>10. args' \in Blocks
    <2>1. View(h).digit \in [Digits -> Word] /\ View(h).plus \in Seq(Word)
      BY <1>5, ViewFacts
    <2>2. args.star \in Seq(Word)
      BY <1>1 DEF Blocks
    <2> QED BY <2>1, <2>2, <1>8, <1>9 DEF Blocks
  <1>11. /\ given' \in Seq(Seq(Word)) /\ Len(given') = Len(given) /\ given'[1] = h
         /\ \A i \in 1..Len(callers) : given'[i + 1] = given[i + 1]
    BY <1>1, <1>4, <1>5
  <1>12. Shows(args', given'[1])
    BY <1>8, <1>11 DEF Shows
  <1> QED BY <1>1, <1>6, <1>10, <1>11, <1>12 DEF Inv

LEMMA StepKeepsInv ==
    ASSUME Inv, [ArgNext]_argVars
    PROVE  Inv'
  <1>0. Last \in Nat /\ NoArgument \notin Labels
    BY ArgumentsAssumption
  <1>1. ASSUME NEW line \in CallLines, CmdCall(line) PROVE Inv'
    <2> DEFINE c == CallTarget(line)
               file == IF c.label # NoArgument THEN c.label ELSE c.file
    <2>1. line \in Seq(Word)
      BY WordsAreWords
    <2>2. /\ {c.label, c.file} # {NoArgument}
          /\ Enter(file, c.args, <<Target(line)>> \o Behind(line))
      BY <1>1 DEF CmdCall, CmdCallFile
    <2>3. c.args = Behind(line) /\ file = Target(line) /\ Target(line) \in Word
      BY <1>0, <2>1, <2>2, CallMeansItsLine
    <2>4. Behind(line) \in Seq(Word)
      <3>1. Named(line) + 1 \in Nat \ {0}
        <4>1. Len(line) \in Nat /\ Switches(line) \in 0..Len(line)
          BY <2>1, SwitchesFacts
        <4> QED BY <4>1 DEF Named, Least
      <3> QED BY <2>1, <3>1, FromFacts DEF Behind
    <2> HIDE DEF c, file
    <2>5. Enter(Target(line), Behind(line), <<Target(line)>> \o Behind(line))
      BY <2>2, <2>3
    <2> QED BY <1>0, <2>3, <2>4, <2>5, EnterKeepsInv
  <1>2. ASSUME NEW words \in Lists, LaunchExternalBatch(words) PROVE Inv'
    BY <1>0, <1>2, WordsAreWords, WordHas, EnterKeepsInv DEF LaunchExternalBatch
  <1>3. CASE Return
    BY <1>3, ReturnKeepsInv
  <1>4. ASSUME NEW begin \in Digits, NEW by \in Digits, CmdShift(begin, by) PROVE Inv'
    BY <1>0, <1>4, ShiftKeepsInv
  <1>5. CASE UNCHANGED argVars
    BY <1>5 DEF argVars, Inv
  <1> QED BY <1>1, <1>2, <1>3, <1>4, <1>5 DEF ArgNext

\* Whatever is called, shifted and returned from: the digits and %+ of every
\* batch file in progress show the words that are left of those it was given.
THEOREM ShowsTheListHolds == ArgSpec => []ShowsTheList
  <1>1. ArgInit => Inv
    BY InitInv
  <1>2. Inv /\ [ArgNext]_argVars => Inv'
    BY StepKeepsInv
  <1>3. Inv => ShowsTheList
    <2>1. SUFFICES ASSUME Inv PROVE ShowsTheList
      OBVIOUS
    <2>2. DOMAIN callers = 1..Len(callers)
      BY <2>1 DEF Inv
    <2>3. \A a, list : Shows(a, list) => [digit |-> a.digit, plus |-> a.plus] = View(list)
      BY DEF Shows, View
    <2> QED BY <2>1, <2>2, <2>3 DEF Inv, ShowsTheList
  <1> QED BY <1>1, <1>2, <1>3, PTL DEF ArgSpec


-----------------------------------------------------------------------------
(* Strings: the size of an allocation, and the bits of the cache *)

LEMMA MinFacts ==
    ASSUME NEW S \in SUBSET Nat, S # {}
    PROVE  Min(S) \in S /\ \A m \in S : Min(S) <= m
  <1>0. IsWellFoundedOn(Less, Nat)
    BY NatLessThanWellFounded, Zenon DEF OpToRel, Less
  <1>1. PICK n \in S : \A m \in S : <<m, n>> \notin Less
    BY <1>0, WFMin, Zenon
  <1>2. ASSUME NEW m \in S, m < n PROVE FALSE
    <2>1. <<m, n>> \in Less
      BY <1>2 DEF Less
    <2> QED BY <2>1, <1>1
  <1>3. \A m \in S : n <= m
    <2>1. \A m \in S : m \in Nat /\ n \in Nat /\ ~(m < n)
      BY <1>2
    <2> QED BY <2>1
  <1> QED BY <1>3 DEF Min

LEMMA SizeFacts ==
    ASSUME NEW text \in 0..MaxText
    PROVE  Size(text + 1) \in Nat /\ text < Size(text + 1)
  <1> DEFINE S == {size \in Sizes : size >= text + 1}
  <1>1. MaxText \in Nat /\ text \in Nat
    BY StringsAssumption
  <1>2. PICK size \in Sizes : size > MaxText
    BY StringsAssumption
  <1>3. S \in SUBSET Nat /\ size \in S
    <2>1. Sizes \subseteq Nat
      BY StringsAssumption
    <2>2. size \in Nat /\ size >= text + 1
      BY <2>1, <1>1, <1>2
    <2> QED BY <2>1, <2>2, <1>2
  <1>4. Min(S) \in S
    BY <1>3, MinFacts
  <1>5. Min(S) \in Nat /\ Min(S) >= text + 1
    BY <1>3, <1>4
  <1> QED BY <1>1, <1>5 DEF Size

(* The word and the bit of a string of the cache *)
LEMMA ProductOrder ==
    ASSUME NEW a \in Nat, NEW b \in Nat, NEW B \in Nat, a < b
    PROVE  a * B + B <= b * B
  <1>1. (b - (a + 1)) \in Nat
    OBVIOUS
  <1>2. (b - (a + 1)) * B >= 0
    BY <1>1
  <1>3. (b - (a + 1)) * B = b * B - (a * B + B)
    OBVIOUS
  <1> QED BY <1>2, <1>3

LEMMA BitFacts ==
    ASSUME NEW B \in Nat \ {0}, NEW w \in Nat, NEW j \in 0..B - 1
    PROVE  /\ w * B + j \in Nat
           /\ (w * B + j) \div B = w
           /\ (w * B + j) % B = j
  OBVIOUS

LEMMA DivFacts ==
    ASSUME NEW i \in Nat, NEW B \in Nat \ {0}
    PROVE  i \div B \in Nat /\ i % B \in 0..B - 1 /\ i = (i \div B) * B + (i % B)
  OBVIOUS

LEMMA CachedFacts ==
    /\ \A w \in 0..StatusWords - 1, j \in 0..Bits - 1 :
          /\ w * Bits + j \in Cached
          /\ (w * Bits + j) \div Bits = w /\ (w * Bits + j) % Bits = j
    /\ \A i \in Cached :
          /\ i \div Bits \in 0..StatusWords - 1 /\ i % Bits \in 0..Bits - 1
          /\ i = (i \div Bits) * Bits + (i % Bits)
  <1>0. StatusWords \in Nat /\ Bits \in Nat \ {0} /\ StatusWords * Bits \in Nat
    BY StringsAssumption
  <1>1. ASSUME NEW w \in 0..StatusWords - 1, NEW j \in 0..Bits - 1
        PROVE  /\ w * Bits + j \in Cached
               /\ (w * Bits + j) \div Bits = w /\ (w * Bits + j) % Bits = j
    <2>1. w \in Nat /\ w < StatusWords /\ j \in Nat /\ j < Bits
      BY <1>0
    <2>2. w * Bits + Bits <= StatusWords * Bits
      BY <1>0, <2>1, ProductOrder
    <2>3. w * Bits \in Nat
      BY <1>0, <2>1
    <2>4. w * Bits + j \in Cached
      BY <1>0, <2>1, <2>2, <2>3 DEF Cached
    <2> QED BY <1>0, <2>1, <2>4, BitFacts
  <1>2. ASSUME NEW i \in Cached
        PROVE  /\ i \div Bits \in 0..StatusWords - 1 /\ i % Bits \in 0..Bits - 1
               /\ i = (i \div Bits) * Bits + (i % Bits)
    <2> DEFINE w == i \div Bits
    <2>1. i \in Nat /\ i < StatusWords * Bits
      BY <1>0 DEF Cached
    <2>2. w \in Nat /\ i % Bits \in 0..Bits - 1 /\ i = w * Bits + (i % Bits)
      BY <1>0, <2>1, DivFacts
    <2>3. ASSUME StatusWords <= w PROVE FALSE
      <3>1. StatusWords * Bits <= w * Bits
        <4>1. CASE StatusWords = w
          BY <4>1, <1>0, <2>2
        <4>2. CASE StatusWords < w
          <5>1. StatusWords * Bits + Bits <= w * Bits
            BY <4>2, <1>0, <2>2, ProductOrder
          <5> QED BY <5>1, <1>0, <2>2
        <4> QED BY <4>1, <4>2, <2>3, <1>0, <2>2
      <3> QED BY <3>1, <2>1, <2>2, <1>0
    <2> QED BY <2>2, <2>3, <1>0
  <1> QED BY <1>1, <1>2

-----------------------------------------------------------------------------
(* The invariant. A string that is no longer used is as sound as those in  *)
(* use, and what a line that is being read may still write is in the       *)
(* string, which someone has.                                              *)

Status == [0..StatusWords - 1 -> [0..Bits - 1 -> {0, 1}]]
Sound(s) == /\ s \in [text : Nat, len : Nat, bytes : Nat]
            /\ s.text < s.bytes /\ s.len = s.bytes
Reading(r) == /\ r \in [s : DOMAIN str, at : Nat, room : Nat \ {0}, come : Nat, newline : BOOLEAN]
            /\ \E k \in DOMAIN held : held[k] = r.s
            /\ r.at + r.room <= str[r.s].bytes

StrInv ==
    /\ Cached \subseteq DOMAIN str /\ str = [i \in DOMAIN str |-> str[i]]
    /\ \A i \in DOMAIN str : str[i] = Unusable \/ Sound(str[i])
    /\ status \in Status
    /\ held \in Seq(DOMAIN str)
    /\ \A k \in DOMAIN held : Sound(str[held[k]])
    /\ OneUser
    /\ reading = Idle \/ Reading(reading)

LEMMA InvFacts == StrInv => Fits /\ OneUser
  <1> SUFFICES ASSUME StrInv PROVE Fits
    BY DEF StrInv
  <1> QED BY DEF StrInv, Fits, Sound, Reading

LEMMA StringFacts ==
    /\ ~Sound(Unusable)
    /\ \A text, len \in Nat : text < len => Sound(String(text, len)) /\ String(text, len).bytes = len
    /\ Sound(String(0, Default))
  <1>1. Default \in Nat /\ 0 < Default
    BY StringsAssumption
  <1> QED BY <1>1 DEF Sound, Unusable, String

LEMMA StrInitInv == StrInit => StrInv
  <1> SUFFICES ASSUME StrInit PROVE StrInv
    OBVIOUS
  <1>1. PICK failed \in SUBSET Cached :
           /\ str = [i \in Cached |-> IF i \in failed THEN Unusable ELSE String(0, Default)]
           /\ status = [w \in 0..StatusWords - 1 |-> [j \in 0..Bits - 1 |-> IF w * Bits + j \in failed THEN 1 ELSE 0]]
    BY DEF StrInit
  <1>2. held = <<>> /\ reading = Idle
    BY DEF StrInit
  <1>3. \A i \in Cached : str[i] = Unusable <=> i \in failed
    BY <1>1, StringFacts
  <1>4. \A i \in Cached : On(i) <=> i \in failed
    <2> TAKE i \in Cached
    <2> DEFINE w == i \div Bits
               j == i % Bits
    <2>1. w \in 0..StatusWords - 1 /\ j \in 0..Bits - 1 /\ i = w * Bits + j
      BY CachedFacts
    <2>2. On(i) <=> status[w][j] = 1
      BY DEF On
    <2> HIDE DEF w, j
    <2> QED BY <1>1, <2>1, <2>2
  <1>5. status \in Status
    BY <1>1 DEF Status
  <1>6. OneUser
    BY <1>2, <1>3, <1>4 DEF OneUser
  <1> QED BY <1>1, <1>2, <1>5, <1>6, StringFacts DEF StrInv

-----------------------------------------------------------------------------
(* A bit is set. *)
LEMMA StatusFacts ==
    ASSUME status \in Status, NEW i \in Cached, NEW b \in {0, 1}, SetStatus(i, b)
    PROVE  /\ status' \in Status
           /\ \A k \in Cached : On(k)' <=> IF k = i THEN b = 1 ELSE On(k)
  <1> DEFINE w(k) == k \div Bits
             j(k) == k % Bits
  <1>1. \A k \in Cached : w(k) \in 0..StatusWords - 1 /\ j(k) \in 0..Bits - 1 /\ k = w(k) * Bits + j(k)
    BY CachedFacts, Zenon
  <1>2. status' = [status EXCEPT ![w(i)][j(i)] = b]
    BY DEF SetStatus
  <1>3. \A k \in Cached : k # i => w(k) # w(i) \/ j(k) # j(i)
    BY <1>1
  <1> HIDE DEF w, j
  <1>4. status' \in Status
    BY <1>1, <1>2 DEF Status
  <1>5. \A k \in Cached : status'[w(k)][j(k)] = IF k = i THEN b ELSE status[w(k)][j(k)]
    BY <1>1, <1>2, <1>3 DEF Status
  <1>6. \A k \in Cached : (On(k) <=> status[w(k)][j(k)] = 1) /\ (On(k)' <=> status'[w(k)][j(k)] = 1)
    BY DEF On, w, j
  <1> QED BY <1>4, <1>5, <1>6

(* A string that someone has is written; a line may be read into it. *)
LEMMA WrittenInv ==
    ASSUME StrInv, NEW k \in DOMAIN held, NEW s, Sound(s),
           str' = [str EXCEPT ![held[k]] = s], UNCHANGED <<status, held>>,
           reading' = Idle \/ Reading(reading)'
    PROVE  StrInv'
  <1>1. held[k] \in DOMAIN str /\ DOMAIN held = 1..Len(held)
    BY DEF StrInv
  <1>2. DOMAIN str' = DOMAIN str /\ str' = [i \in DOMAIN str' |-> str'[i]]
    BY <1>1 DEF StrInv
  <1>3. \A i \in DOMAIN str : str'[i] = IF i = held[k] THEN s ELSE str[i]
    BY <1>1
  <1>4. \A m \in DOMAIN held : held[m] \in DOMAIN str
    BY DEF StrInv
  <1>5. \A i \in Cached : On(i)' <=> On(i)
    BY DEF On
  <1>6. \A i \in Cached : On(i) <=> str'[i] = Unusable \/ \E m \in DOMAIN held : held[m] = i
    BY <1>3, StringFacts DEF StrInv, OneUser
  <1>7. \A m \in DOMAIN held : Sound(str'[held[m]])
    BY <1>3, <1>4 DEF StrInv
  <1>8. OneUser'
    <2>1. \A m \in DOMAIN held : str'[held[m]].bytes > 0
      BY <1>7 DEF Sound
    <2> QED BY <1>2, <1>4, <1>5, <1>6, <2>1 DEF OneUser, StrInv
  <1> QED BY <1>2, <1>3, <1>7, <1>8 DEF StrInv

(* A string is taken that no one has. *)
LEMMA TakenInv ==
    ASSUME StrInv, NEW i \in DOMAIN str', Sound(str'[i]),
           DOMAIN str \subseteq DOMAIN str', str' = [m \in DOMAIN str' |-> str'[m]],
           DOMAIN str' \subseteq DOMAIN str \cup {i},
           \A m \in DOMAIN str : str'[m] = str[m],
           \A k \in DOMAIN held : held[k] # i,
           status' \in Status, \A m \in Cached : On(m)' <=> On(m) \/ m = i,
           held' = Append(held, i), UNCHANGED reading
    PROVE  StrInv'
  <1>1. held \in Seq(DOMAIN str) /\ held \in Seq(DOMAIN str')
    BY DEF StrInv
  <1>2. /\ held' \in Seq(DOMAIN str')
        /\ DOMAIN held' = 1..Len(held) + 1 /\ DOMAIN held = 1..Len(held) /\ Len(held) \in Nat
        /\ \A k \in DOMAIN held' : held'[k] = IF k = Len(held) + 1 THEN i ELSE held[k]
    BY <1>1
  <1>3. \A k \in DOMAIN held : k \in DOMAIN held' /\ held'[k] = held[k] /\ held[k] \in DOMAIN str
    BY <1>1, <1>2
  <1>4. Len(held) + 1 \in DOMAIN held' /\ held'[Len(held) + 1] = i
    BY <1>2
  <1>5. \A k \in DOMAIN held' : k \in DOMAIN held \/ k = Len(held) + 1
    BY <1>2
  <1>6. \A k \in DOMAIN held' : Sound(str'[held'[k]])
    BY <1>3, <1>4, <1>5 DEF StrInv
  <1>7. OneUser'
    <2>1. \A j, k \in DOMAIN held' : held'[j] = held'[k] => j = k
      BY <1>3, <1>4, <1>5 DEF StrInv, OneUser
    <2>2. \A k \in DOMAIN held' : held'[k] \in DOMAIN str' /\ str'[held'[k]].bytes > 0
      BY <1>2, <1>6 DEF Sound
    <2>3. \A m \in Cached : m \in DOMAIN str /\ str'[m] = str[m]
      BY DEF StrInv
    <2>4. \A m \in Cached : (\E k \in DOMAIN held' : held'[k] = m) <=> m = i \/ \E k \in DOMAIN held : held[k] = m
      BY <1>3, <1>4, <1>5
    <2>5. \A m \in Cached : On(m)' <=> str'[m] = Unusable \/ \E k \in DOMAIN held' : held'[k] = m
      BY <2>3, <2>4 DEF StrInv, OneUser
    <2> QED BY <2>1, <2>2, <2>5 DEF OneUser
  <1>8. reading' = Idle \/ Reading(reading)'
    BY <1>3 DEF StrInv, Reading
  <1>9. \A m \in DOMAIN str' : str'[m] = Unusable \/ Sound(str'[m])
    BY DEF StrInv
  <1> QED BY <1>2, <1>6, <1>7, <1>8, <1>9 DEF StrInv

-----------------------------------------------------------------------------
(* The functions that take strings and give them back *)

LEMMA EsInitCachedInv == ASSUME StrInv, EsInitCached PROVE StrInv'
  <1> DEFINE words == {w \in 0..StatusWords - 1 : Free(w) # {}}
             w == Min(words)
             j == Min(Free(w))
             i == w * Bits + j
  <1>1. w \in 0..StatusWords - 1 /\ Free(w) # {}
    <2>1. words \in SUBSET Nat /\ words # {}
      BY StringsAssumption DEF EsInitCached
    <2>2. w \in words
      BY <2>1, MinFacts
    <2> QED BY <2>2
  <1> HIDE DEF w
  <1>2. j \in 0..Bits - 1 /\ status[w][j] = 0
    <2>1. Free(w) \in SUBSET Nat
      BY StringsAssumption DEF Free
    <2>2. j \in Free(w)
      BY <1>1, <2>1, MinFacts
    <2> QED BY <2>2 DEF Free
  <1> HIDE DEF j
  <1>3. i \in Cached /\ i \div Bits = w /\ i % Bits = j
    BY <1>1, <1>2, CachedFacts
  <1> HIDE DEF i
  <1>4. ~On(i)
    BY <1>2, <1>3 DEF On
  <1>5. held' = Append(held, i) /\ SetStatus(i, 1) /\ UNCHANGED <<str, reading>>
    BY DEF EsInitCached, i, j, w
  <1>6. i \in DOMAIN str /\ Sound(str[i]) /\ \A k \in DOMAIN held : held[k] # i
    BY <1>3, <1>4 DEF StrInv, OneUser
  <1>7. status' \in Status /\ \A m \in Cached : On(m)' <=> On(m) \/ m = i
    BY <1>3, <1>5, StatusFacts DEF StrInv
  <1> QED BY <1>5, <1>6, <1>7, TakenInv DEF StrInv

LEMMA EsInitInv == ASSUME StrInv, EsInit PROVE StrInv'
  <1>1. PICK i \in Extra \ DOMAIN str :
           /\ str' = [j \in DOMAIN str \cup {i} |-> IF j = i THEN String(0, Default) ELSE str[j]]
           /\ held' = Append(held, i)
    BY DEF EsInit
  <1>2. UNCHANGED <<status, reading>>
    BY DEF EsInit
  <1>3. \A k \in DOMAIN held : held[k] \in DOMAIN str
    BY DEF StrInv
  <1>4. i \notin Cached
    BY <1>1 DEF StrInv
  <1>5. \A m \in Cached : On(m)' <=> On(m) \/ m = i
    BY <1>2, <1>4 DEF On
  <1>6. Sound(str'[i]) /\ i \in DOMAIN str'
    BY <1>1, StringFacts
  <1>7. status' \in Status
    BY <1>2 DEF StrInv
  <1> QED BY <1>1, <1>2, <1>3, <1>5, <1>6, <1>7, TakenInv

LEMMA EsFreeCachedInv ==
    ASSUME StrInv, NEW k \in DOMAIN held, reading = Idle, EsFreeCached(k)
    PROVE  StrInv'
  <1> DEFINE i == held[k]
  <1>1. held \in Seq(DOMAIN str) /\ DOMAIN held = 1..Len(held) /\ Len(held) \in Nat
    BY DEF StrInv
  <1>2. /\ i \in DOMAIN str /\ Sound(str[i])
        /\ \A m \in DOMAIN held : held[m] = i => m = k
    BY <1>1 DEF StrInv, OneUser
  <1> HIDE DEF i
  <1>3. /\ DOMAIN held' = 1..Len(held) - 1
        /\ held' \in Seq(DOMAIN str)
        /\ \A m \in DOMAIN held' : held'[m] = IF m < k THEN held[m] ELSE held[m + 1]
    <2>1. held' = SubSeq(held, 1, k - 1) \o SubSeq(held, k + 1, Len(held))
      BY DEF EsFreeCached
    <2> DEFINE A == SubSeq(held, 1, k - 1)
               B == SubSeq(held, k + 1, Len(held))
    <2>2. A \in Seq(DOMAIN str) /\ Len(A) = k - 1 /\ \A m \in 1..k - 1 : A[m] = held[m]
      BY <1>1
    <2>3. B \in Seq(DOMAIN str) /\ Len(B) = Len(held) - k /\ \A m \in 1..Len(held) - k : B[m] = held[k + m]
      BY <1>1
    <2> HIDE DEF A, B
    <2>4. /\ A \o B \in Seq(DOMAIN str) /\ Len(A \o B) = Len(held) - 1
          /\ \A m \in 1..Len(held) - 1 : (A \o B)[m] = IF m <= k - 1 THEN A[m] ELSE B[m - (k - 1)]
      <3>1. Len(A) + Len(B) = Len(held) - 1
        BY <1>1, <2>2, <2>3
      <3>2. /\ A \o B \in Seq(DOMAIN str) /\ Len(A \o B) = Len(A) + Len(B)
            /\ \A m \in 1..Len(A) + Len(B) : (A \o B)[m] = IF m <= Len(A) THEN A[m] ELSE B[m - Len(A)]
        BY <2>2, <2>3, ConcatProperties, Zenon
      <3> QED BY <2>2, <3>1, <3>2, Zenon
    <2>5. held' = A \o B
      BY <2>1 DEF A, B
    <2>6. DOMAIN held' = 1..Len(held) - 1 /\ held' \in Seq(DOMAIN str)
      <3>1. Len(held) - 1 \in Nat
        BY <1>1
      <3>2. held' \in Seq(DOMAIN str) /\ Len(held') = Len(held) - 1
        BY <2>4, <2>5
      <3> QED BY <3>1, <3>2
    <2>7. ASSUME NEW m \in 1..Len(held) - 1 PROVE held'[m] = IF m < k THEN held[m] ELSE held[m + 1]
      <3>1. CASE m < k
        BY <3>1, <1>1, <2>2, <2>4, <2>5
      <3>2. CASE ~(m < k)
        <4>1. m - (k - 1) \in 1..Len(held) - k /\ k + (m - (k - 1)) = m + 1
          BY <3>2, <1>1
        <4>2. held'[m] = B[m - (k - 1)]
          BY <3>2, <1>1, <2>4, <2>5
        <4> QED BY <3>2, <4>1, <4>2, <2>3
      <3> QED BY <3>1, <3>2
    <2> QED BY <2>6, <2>7
  <1>4. \A m \in DOMAIN held' : \E n \in DOMAIN held : n # k /\ held[n] = held'[m]
    <2> TAKE m \in DOMAIN held'
    <2>1. CASE m < k
      BY <2>1, <1>1, <1>3
    <2>2. CASE ~(m < k)
      <3>1. m + 1 \in DOMAIN held /\ m + 1 # k
        BY <2>2, <1>1, <1>3
      <3> QED BY <2>2, <3>1, <1>3
    <2> QED BY <2>1, <2>2
  <1>5. \A n \in DOMAIN held : n # k => \E m \in DOMAIN held' : held'[m] = held[n]
    <2> TAKE n \in DOMAIN held
    <2> HAVE n # k
    <2>1. CASE n < k
      BY <2>1, <1>1, <1>3
    <2>2. CASE n > k
      <3>1. n - 1 \in DOMAIN held' /\ ~(n - 1 < k) /\ (n - 1) + 1 = n
        BY <2>2, <1>1, <1>3
      <3> QED BY <3>1, <1>3
    <2> QED BY <2>1, <2>2, <1>1
  <1>6. \A m, n \in DOMAIN held' : held'[m] = held'[n] => m = n
    <2> SUFFICES ASSUME NEW m \in DOMAIN held', NEW n \in DOMAIN held', held'[m] = held'[n]
                 PROVE  m = n
      OBVIOUS
    <2> DEFINE up(x) == IF x < k THEN x ELSE x + 1
    <2>1. up(m) \in DOMAIN held /\ up(n) \in DOMAIN held /\ held[up(m)] = held[up(n)]
      BY <1>1, <1>3
    <2>2. up(m) = up(n)
      BY <2>1 DEF StrInv, OneUser
    <2> QED BY <2>2, <1>1, <1>3
  <1>7. \A m \in DOMAIN held' : held'[m] # i
    BY <1>2, <1>4
  <1>8. \A m : (\E n \in DOMAIN held' : held'[n] = m) <=> m # i /\ \E n \in DOMAIN held : held[n] = m
    BY <1>4, <1>5, <1>7, <1>2 DEF i
  <1>9. ASSUME Cached \subseteq DOMAIN str', str' = [m \in DOMAIN str' |-> str'[m]],
               DOMAIN str' \subseteq DOMAIN str, DOMAIN str \subseteq DOMAIN str' \cup {i},
               \A m \in DOMAIN str' : m # i => str'[m] = str[m],
               i \in DOMAIN str' => Sound(str'[i]),
               status' \in Status, \A m \in Cached : On(m)' <=> On(m) /\ m # i
        PROVE  StrInv'
    <2>1. held' \in Seq(DOMAIN str')
      <3>1. \A m \in DOMAIN held' : held'[m] \in DOMAIN str'
        BY <1>3, <1>7, <1>9
      <3> QED BY <1>3, <3>1
    <2>2. \A m \in DOMAIN str' : str'[m] = Unusable \/ Sound(str'[m])
      BY <1>9 DEF StrInv
    <2>3. \A m \in DOMAIN held' : Sound(str'[held'[m]])
      <3>1. \A m \in DOMAIN held' : held'[m] \in DOMAIN str' /\ held'[m] # i /\ Sound(str[held'[m]])
        BY <2>1, <1>4, <1>7, <1>9 DEF StrInv
      <3> QED BY <3>1, <1>9
    <2>4. OneUser'
      <3>1. \A m \in DOMAIN held' : held'[m] \in DOMAIN str' /\ str'[held'[m]].bytes > 0
        BY <2>1, <2>3 DEF Sound
      <3>2. \A m \in Cached : m # i => str'[m] = str[m]
        BY <1>9
      <3>3. \A m \in Cached : str'[i] # Unusable \/ m # i
        BY <1>9, StringFacts
      <3>4. \A m \in Cached : On(m)' <=> str'[m] = Unusable \/ \E n \in DOMAIN held' : held'[n] = m
        BY <3>2, <3>3, <1>8, <1>9 DEF StrInv, OneUser
      <3> QED BY <3>1, <3>4, <1>6 DEF OneUser
    <2>5. reading' = Idle
      BY DEF EsFreeCached
    <2> QED BY <1>9, <2>1, <2>2, <2>3, <2>4, <2>5 DEF StrInv
  <1>10. CASE i \in Cached
    <2>1. SetStatus(i, 0)
      BY <1>10 DEF EsFreeCached, i
    <2>2. PICK s : Sound(s) /\ str' = [str EXCEPT ![i] = s]
      <3>1. CASE str' = [str EXCEPT ![i] = String(0, Default)]
        BY <3>1, StringFacts
      <3>2. CASE str' = [str EXCEPT ![i].text = 0]
        <4>1. Sound([str[i] EXCEPT !.text = 0])
          BY <1>2 DEF Sound
        <4> QED BY <3>2, <4>1
      <3> QED BY <3>1, <3>2, <1>10 DEF EsFreeCached, i
    <2>3. status' \in Status /\ \A m \in Cached : On(m)' <=> On(m) /\ m # i
      BY <1>10, <2>1, StatusFacts DEF StrInv
    <2>4. DOMAIN str' = DOMAIN str /\ \A m \in DOMAIN str : str'[m] = IF m = i THEN s ELSE str[m]
      BY <2>2
    <2>5. Cached \subseteq DOMAIN str' /\ str' = [m \in DOMAIN str' |-> str'[m]]
      BY <2>2, <2>4 DEF StrInv
    <2> QED BY <1>2, <1>9, <2>2, <2>3, <2>4, <2>5
  <1>11. CASE i \notin Cached
    <2>1. str' = [j \in DOMAIN str \ {i} |-> str[j]] /\ UNCHANGED status
      BY <1>11 DEF EsFreeCached, i
    <2>2. status' \in Status /\ \A m \in Cached : On(m)' <=> On(m) /\ m # i
      BY <1>11, <2>1 DEF StrInv, On
    <2>3. Cached \subseteq DOMAIN str'
      BY <1>11, <2>1 DEF StrInv
    <2> QED BY <1>9, <2>1, <2>2, <2>3
  <1> QED BY <1>10, <1>11

-----------------------------------------------------------------------------
(* The functions that write into strings *)

LEMMA WriteInv ==
    ASSUME StrInv, NEW k \in DOMAIN held, NEW text \in 0..MaxText,
           Write(held[k], text), UNCHANGED <<status, held, reading>>, reading = Idle
    PROVE  StrInv'
  <1> DEFINE i == held[k]
             size == Size(text + 1)
  <1>1. Sound(str[i]) /\ i \in DOMAIN str
    BY DEF StrInv
  <1>2. text \in Nat /\ size \in Nat /\ text < size
    BY SizeFacts, StringsAssumption
  <1> HIDE DEF i, size
  <1>3. CASE str[i].len < size /\ str' = [str EXCEPT ![i] = String(text, size)]
    BY <1>2, <1>3, StringFacts, WrittenInv DEF i
  <1>4. CASE UNCHANGED str
    <2>1. str' = [str EXCEPT ![i] = str[i]]
      BY <1>4 DEF StrInv
    <2> QED BY <1>1, <2>1, WrittenInv DEF i
  <1>5. CASE ~(str[i].len < size) /\ str' = [str EXCEPT ![i].text = text]
    <2>1. Sound([str[i] EXCEPT !.text = text])
      BY <1>1, <1>2, <1>5 DEF Sound
    <2>2. str' = [str EXCEPT ![i] = [str[i] EXCEPT !.text = text]]
      BY <1>5
    <2> QED BY <2>1, <2>2, WrittenInv DEF i
  <1> QED BY <1>3, <1>4, <1>5 DEF Write, i, size

LEMMA EsCpyInv ==
    ASSUME StrInv, reading = Idle, NEW k \in DOMAIN held,
           NEW text \in 0..MaxText, EsCpy(k, text)
    PROVE  StrInv'
  BY WriteInv DEF EsCpy

LEMMA EsCatInv ==
    ASSUME StrInv, reading = Idle, NEW k \in DOMAIN held,
           NEW text \in 0..MaxText, EsCat(k, text)
    PROVE  StrInv'
  <1>1. str[held[k]].text \in Nat /\ MaxText \in Nat
    BY StringsAssumption DEF StrInv, Sound
  <1>2. str[held[k]].text + text \in 0..MaxText
    BY <1>1 DEF EsCat
  <1> QED BY <1>2, WriteInv DEF EsCat

LEMMA EsGetInv ==
    ASSUME StrInv, NEW k \in DOMAIN held,
           NEW come \in 1..MaxText, NEW newline \in BOOLEAN, EsGet(k, come, newline)
    PROVE  StrInv'
  <1>1. UNCHANGED <<str, status, held>>
    BY DEF EsGet
  <1>2. held[k] \in DOMAIN str /\ Sound(str[held[k]])
    BY DEF StrInv
  <1>3. str[held[k]].len \in Nat \ {0} /\ str[held[k]].bytes = str[held[k]].len
    BY <1>2 DEF Sound
  <1>4. come \in Nat
    BY StringsAssumption
  <1>5. reading' = [s |-> held[k], at |-> 0, room |-> str[held[k]].len, come |-> come, newline |-> newline]
    BY DEF EsGet
  <1>6. Reading(reading)'
    BY <1>1, <1>2, <1>3, <1>4, <1>5 DEF Reading
  <1>7. OneUser'
    BY <1>1 DEF StrInv, OneUser, On
  <1> QED BY <1>1, <1>6, <1>7 DEF StrInv

LEMMA FgetsInv == ASSUME StrInv, Fgets PROVE StrInv'
  <1> DEFINE i == reading.s
             end == reading.at + Taken
  <1>1. Reading(reading)
    BY DEF StrInv, Fgets
  <1>2. PICK k \in DOMAIN held : held[k] = i
    BY <1>1 DEF Reading
  <1>3. i \in DOMAIN str /\ Sound(str[i])
    BY <1>2 DEF StrInv
  <1>4. /\ reading.at \in Nat /\ reading.room \in Nat \ {0} /\ reading.come \in Nat
        /\ reading.newline \in BOOLEAN /\ reading.at + reading.room <= str[i].bytes
    BY <1>1 DEF Reading
  <1>5. Taken \in Nat /\ Taken <= reading.come /\ Taken < reading.room
    BY <1>4 DEF Taken
  <1>6. end \in Nat /\ end < str[i].bytes
    BY <1>3, <1>4, <1>5 DEF Sound
  <1>7. UNCHANGED <<status, held>>
    BY DEF Fgets
  <1> DEFINE got == [str[i] EXCEPT !.text = end]
             grown == [got EXCEPT !.len = 2 * @, !.bytes = 2 * @]
  <1>8. Sound(got)
    BY <1>3, <1>6 DEF Sound
  <1>9. Sound(grown) /\ grown.bytes = 2 * str[i].len
    <2>1. str[i] \in [text : Nat, len : Nat, bytes : Nat] /\ str[i].len = str[i].bytes
      BY <1>3 DEF Sound
    <2>2. grown.text = end /\ grown.len = 2 * str[i].len /\ grown.bytes = 2 * str[i].bytes
      BY <2>1
    <2>3. grown \in [text : Nat, len : Nat, bytes : Nat]
      <3>1. end \in Nat /\ 2 * str[i].len \in Nat /\ 2 * str[i].bytes \in Nat
        BY <1>6, <2>1
      <3> DEFINE once == [got EXCEPT !.len = 2 * str[i].len]
      <3>2. got \in [text : Nat, len : Nat, bytes : Nat]
        BY <1>8 DEF Sound
      <3>3. grown = [once EXCEPT !.bytes = 2 * str[i].bytes]
        BY <2>1
      <3> HIDE DEF got, grown
      <3>4. once \in [text : Nat, len : Nat, bytes : Nat]
        BY <3>1, <3>2
      <3> HIDE DEF once
      <3> QED BY <3>1, <3>3, <3>4
    <2>4. end < 2 * str[i].bytes
      BY <1>6, <2>1
    <2> HIDE DEF grown
    <2> QED BY <2>1, <2>2, <2>3, <2>4 DEF Sound
  <1>10. CASE str' = str /\ reading' = Idle
    <2>1. str' = [str EXCEPT ![held[k]] = str[i]]
      BY <1>2, <1>10 DEF StrInv
    <2> QED BY <1>3, <1>7, <1>10, <2>1, WrittenInv
  <1>11. CASE str' = [str EXCEPT ![i].text = end] /\ reading' = Idle
    <2>1. str' = [str EXCEPT ![held[k]] = got]
      BY <1>2, <1>11
    <2> HIDE DEF got
    <2> QED BY <1>7, <1>8, <1>11, <2>1, WrittenInv
  <1>12. CASE /\ str' = [[str EXCEPT ![i].text = end] EXCEPT ![i].len = 2 * @, ![i].bytes = 2 * @]
              /\ reading' = [reading EXCEPT !.at = str[i].len - 1, !.room = str[i].len + 1, !.come = @ - Taken]
    <2>1. str' = [str EXCEPT ![held[k]] = grown]
      BY <1>2, <1>3, <1>12
    <2>2. str'[i] = grown /\ DOMAIN str' = DOMAIN str
      BY <1>2, <1>3, <2>1
    <2>3. str[i].len \in Nat \ {0}
      BY <1>3 DEF Sound
    <2>4. /\ reading' \in [s : DOMAIN str, at : Nat, room : Nat \ {0}, come : Nat, newline : BOOLEAN]
          /\ reading'.s = i /\ reading'.at + reading'.room = 2 * str[i].len
      <3>1. reading \in [s : DOMAIN str, at : Nat, room : Nat \ {0}, come : Nat, newline : BOOLEAN]
        BY <1>1 DEF Reading
      <3>2. /\ str[i].len - 1 \in Nat /\ str[i].len + 1 \in Nat \ {0} /\ reading.come - Taken \in Nat
            /\ (str[i].len - 1) + (str[i].len + 1) = 2 * str[i].len
        BY <1>4, <1>5, <2>3
      <3>3. reading'.s = i /\ reading'.at = str[i].len - 1 /\ reading'.room = str[i].len + 1
        BY <3>1, <1>12
      <3> HIDE DEF i
      <3> QED BY <3>1, <3>2, <3>3, <1>12
    <2>5. Reading(reading)'
      <3>1. \E m \in DOMAIN held' : held'[m] = reading'.s
        BY <1>2, <1>7, <2>4
      <3>2. reading'.at + reading'.room <= str'[reading'.s].bytes
        <4>1. 2 * str[i].len \in Nat
          BY <2>3
        <4> HIDE DEF grown
        <4> QED BY <4>1, <1>9, <2>2, <2>4
      <3> QED BY <2>2, <2>4, <3>1, <3>2 DEF Reading
    <2> HIDE DEF grown
    <2> QED BY <1>7, <1>9, <2>1, <2>5, WrittenInv
  <1> QED BY <1>10, <1>11, <1>12 DEF Fgets

-----------------------------------------------------------------------------
LEMMA NextInv == ASSUME StrInv, [StrNext]_strVars PROVE StrInv'
  <1>1. CASE EsInitCached
    BY <1>1, EsInitCachedInv
  <1>2. CASE EsInit
    BY <1>2, EsInitInv
  <1>3. CASE Fgets
    BY <1>3, FgetsInv
  <1>4. ASSUME reading = Idle, NEW k \in DOMAIN held, EsFreeCached(k) PROVE StrInv'
    BY <1>4, EsFreeCachedInv
  <1>5. ASSUME reading = Idle, NEW k \in DOMAIN held, NEW text \in 0..MaxText,
               EsCpy(k, text) \/ EsCat(k, text)
        PROVE  StrInv'
    BY <1>5, EsCpyInv, EsCatInv
  <1>6. ASSUME NEW k \in DOMAIN held, NEW come \in 1..MaxText, NEW newline \in BOOLEAN,
               EsGet(k, come, newline)
        PROVE  StrInv'
    BY <1>6, EsGetInv
  <1>7. CASE UNCHANGED strVars
    BY <1>7 DEF strVars, StrInv, OneUser, On, Reading
  <1> QED BY <1>1, <1>2, <1>3, <1>4, <1>5, <1>6, <1>7 DEF StrNext

\* Whatever functions take strings, write into them, read lines and give them back,
\* whether there is memory or not: what a string holds, and what fgets() may still
\* write, is in its bytes; no string has two users, and the bit of a string is on
\* exactly when it is used or was never allocated.
THEOREM StringsFitHolds == StrSpec => []StringsFit
  <1>1. StrInit => StrInv
    BY StrInitInv
  <1>2. StrInv /\ [StrNext]_strVars => StrInv'
    BY NextInv
  <1>3. StrInv => StringsFit
    BY InvFacts DEF StringsFit
  <1> QED BY <1>1, <1>2, <1>3, PTL DEF StrSpec
=============================================================================
