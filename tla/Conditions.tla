----------------------------- MODULE Conditions -----------------------------
(* IF: its tests, the comparison of two texts, and the expressions in brackets. *)
(* A word that makes a whole test is one token: "T" holds, "F" does not.        *)
EXTENDS Integers, Sequences
CONSTANTS Texts,     \* records: what a text is worth as a number, and where it stands among the texts
          NotANumber, Nan,
          Lines,     \* the IF lines a script may hold
          Expressions, \* what may follow IF from a bracket on, sequences of words
          Trees,       \* expressions as trees, see Written
          Undefined  \* ERRORLEVEL has no value

VARIABLES errorlevel,  \* the variable ERRORLEVEL
          line, expr,  \* the IF that runs, with its expression
          tree,        \* history: the tree that the expression spells, or none
          outcome      \* what it did: "then", "else", "none", "error", or "crash"
vars == <<errorlevel, line, expr, tree, outcome>>
NoTree == [op |-> "none"]

-----------------------------------------------------------------------------
(* pBat_PerformExtendedTest: as numbers when both are numbers, an empty text being zero, else in the
   order of the texts, or of the texts in lower case. 1, 0, or -1 for a word that is no comparison. *)
Bit(b) == IF b THEN 1 ELSE 0
\* The number a text is, in any base or with a fraction.
GetCmpValue(text) == text.num
Keys(a, b, i) == IF GetCmpValue(a) # NotANumber /\ GetCmpValue(b) # NotANumber THEN <<GetCmpValue(a), GetCmpValue(b)>>
                 ELSE IF i THEN <<a.fold, b.fold>> ELSE <<a.rank, b.rank>>
PerformExtendedTest(cmp, a, b, i) ==
    LET l == Keys(a, b, i)[1]
        r == Keys(a, b, i)[2]
        odd == Nan \in {l, r}               \* no comparison with it holds but NEQ
    IN  CASE cmp \in {"EQU", "=="} -> Bit(~odd /\ l = r)
          [] cmp = "NEQ" -> Bit(odd \/ l # r)
          [] cmp = "GEQ" -> Bit(~odd /\ (IF odd THEN FALSE ELSE l >= r))
          [] cmp = "GTR" -> Bit(~odd /\ (IF odd THEN FALSE ELSE l > r))
          [] cmp = "LEQ" -> Bit(~odd /\ (IF odd THEN FALSE ELSE l <= r))
          [] cmp = "LSS" -> Bit(~odd /\ (IF odd THEN FALSE ELSE l < r))
          [] OTHER -> -1

-----------------------------------------------------------------------------
(* Bracket expressions: a list of words, cut in place. A node of the tree is a test or an operator
   with two children; "null" is a parse that failed, with the list as it is left; "undefined" is a
   use of a word that was freed. *)
From(s, k) == SubSeq(s, k, Len(s))
Depth(s, k) == LET count[i \in 0..k] == IF i = 0 THEN 0
                                        ELSE LET c == count[i - 1]
                                             IN  IF s[i] = "[" THEN c + 1
                                                 ELSE IF s[i] = "]" /\ i > 1 THEN c - 1 ELSE c
               IN  count[k]
Surrounded(s) == s # <<>> /\ Head(s) = "[" /\ \A k \in 1..(Len(s) - 1) : Depth(s, k) > 0
RECURSIVE SuppressBrackets(_)
SuppressBrackets(s) == IF Surrounded(s) /\ Len(s) > 1 THEN SuppressBrackets(SubSeq(s, 2, Len(s) - 1)) ELSE s

CutsInBrackets(s, tok) == {k \in 2..Len(s) : s[k] = tok}   \* whatever bracket it is in
CutsAt(s, tok) == {k \in 2..Len(s) : s[k] = tok /\ Depth(s, k - 1) = 0}
FirstCut(s, tok) == CHOOSE k \in CutsAt(s, tok) : \A j \in CutsAt(s, tok) : k <= j

RECURSIVE Parse(_)
Child(s) == LET p == Parse(SuppressBrackets(s))
            IN  IF p.node = "null" THEN [node |-> "test", ops |-> p.ops] ELSE p
CutAt(s, tok) ==
    LET k == FirstCut(s, tok)
        left == Child(SubSeq(s, 1, k - 1))
        right == Child(From(s, k + 1))
    IN  IF k = Len(s) THEN [node |-> "null", ops |-> SubSeq(s, 1, k - 1)]
        ELSE IF "undefined" \in {left.node, right.node} THEN [node |-> "undefined"]
        ELSE [node |-> tok, left |-> left, right |-> right]
\* AND is looked for first: it is the outer operator.
Parse(words) ==
    LET s == SuppressBrackets(words)
    IN  CASE s = <<>> -> [node |-> "null", ops |-> s]
          [] s = <<"[">> -> [node |-> "undefined"]
          [] s # <<>> /\ Head(s) = "AND" -> [node |-> "undefined"]
          [] s # <<>> /\ s # <<"[">> /\ Head(s) # "AND" ->
                 IF CutsAt(s, "AND") # {} THEN CutAt(s, "AND")
                 ELSE IF Head(s) = "OR" THEN [node |-> "undefined"]
                 ELSE IF CutsAt(s, "OR") # {} THEN CutAt(s, "OR")
                 ELSE [node |-> "test", ops |-> s]
(* A test without words reads a null pointer: 2. *)
ExecuteTest(ops) ==
    CASE ops = <<>> -> 2
      [] ops \in {<<"T">>, <<"NOT", "F">>} -> 1
      [] ops \in {<<"F">>, <<"NOT", "T">>} -> 0
      [] OTHER -> -1
RECURSIVE Evaluate(_)
Evaluate(p) ==
    IF p.node = "test" THEN ExecuteTest(p.ops)
    ELSE LET l == Evaluate(p.left)
             r == Evaluate(p.right)
         IN  IF l \in {-1, 2} THEN l
             ELSE IF p.node = "AND" /\ l = 0 THEN 0
             ELSE IF r \in {-1, 2} THEN r
             ELSE IF p.node = "AND" THEN Bit(l = 1 /\ r = 1) ELSE Bit(l = 1 \/ r = 1)

(* The words from the bracket to the one that closes it; without it, to the end of the line. *)
ParseLine(s) == LET closes == {k \in DOMAIN s : Depth(s, k) <= 0}
                IN  IF closes = {} THEN s ELSE SubSeq(s, 1, CHOOSE k \in closes : \A j \in closes : k <= j)
Compute(s) ==
    LET p == Parse(ParseLine(s))
    IN  CASE p.node = "undefined" -> 2
          [] p.node = "null" -> -1
          [] OTHER -> Evaluate(p)

-----------------------------------------------------------------------------
(* CmdIf: the value of its condition. NOT counts for the tests of one word and for ==; the other
   comparisons and the expressions do not look at it. *)
Negated(v, l) == IF l.not THEN 1 - v ELSE v
Test(l) ==
    CASE l.form = "errorlevel" -> IF errorlevel = Undefined THEN 2 ELSE Negated(Bit(l.a = errorlevel), l)
      [] l.form \in {"exist", "defined"} -> Negated(Bit(l.there), l)
      [] l.form = "expr" -> Compute(expr)
      [] l.form = "cmp" /\ l.cmp = "==" -> Negated(PerformExtendedTest("==", l.a, l.b, l.i), l)
      [] l.form = "cmp" /\ l.cmp # "==" -> PerformExtendedTest(l.cmp, l.a, l.b, l.i)
      [] l.form = "short" -> -1
\* /i goes with comparisons only.
Incompatible(l) == l.i /\ l.form \in {"errorlevel", "exist", "defined"}
Unclosed(l) == l.form = "expr" /\ \A k \in DOMAIN expr : Depth(expr, k) > 0

Branch(v, tail) == CASE v = 1 -> "then"
                     [] v = 0 /\ tail \in {"line", "block"} -> "none"
                     [] v = 0 /\ tail = "else" -> "else"
                     [] v = 0 /\ tail \in {"junk", "elseJunk"} -> "error"

CmdIf == /\ outcome = "runs"
         /\ LET v == Test(line)
            IN  outcome' = CASE Incompatible(line) -> "error"
                             [] ~Incompatible(line) /\ v = 2 -> "crash"
                             [] ~Incompatible(line) /\ v = -1 -> "error"
                             [] ~Incompatible(line) /\ v \in {0, 1} ->
                                    IF Unclosed(line) THEN "crash" ELSE Branch(v, line.tail)
         /\ UNCHANGED <<errorlevel, line, expr, tree>>

(* Trees over the tests and how they are written, with a pair of brackets around every operator. *)
Binary(S) == {[op |-> op, l |-> l, r |-> r] : op \in {"AND", "OR"}, l \in S, r \in S}
Leaf(w) == [op |-> "leaf", words |-> w]
RECURSIVE Written(_), Worth(_)
Written(t) == IF t.op = "leaf" THEN t.words
              ELSE <<"[">> \o Written(t.l) \o <<t.op>> \o Written(t.r) \o <<"]">>
Worth(t) == CASE t.op = "leaf" -> Bit(t.words \in {<<"T">>, <<"NOT", "F">>})
              [] t.op = "AND" -> Worth(t.l) * Worth(t.r)
              [] t.op = "OR"  -> Bit(Worth(t.l) + Worth(t.r) > 0)

Init == /\ line \in Lines
        /\ errorlevel \in (IF line.form = "errorlevel" THEN Texts \cup {Undefined} ELSE {Undefined})
        /\ IF line.form # "expr" THEN expr = <<>> /\ tree = NoTree
           ELSE \/ tree = NoTree /\ expr \in Expressions
                \/ tree \in Trees /\ expr = Written(tree)
        /\ outcome = "runs"
Next == CmdIf
Spec == Init /\ [][Next]_vars

-----------------------------------------------------------------------------
(* An expression whose operators are all in brackets runs the branch that its value calls for. *)
FollowsBrackets == tree # NoTree /\ outcome # "runs" => outcome = Branch(Worth(tree), line.tail)

(* An expression whose brackets match and hold something, with a word on each side of each operator,
   is evaluated or refused: it never touches a word that was freed or is not there. *)
Operators == {"AND", "OR"}
WellFormed(s) ==
    /\ Head(s) = "[" /\ Depth(s, Len(s)) = 0 /\ \A k \in 1..(Len(s) - 1) : Depth(s, k) > 0
    /\ \A k \in 1..(Len(s) - 1) : /\ s[k] \in Operators \cup {"["} => s[k + 1] \notin Operators \cup {"]"}
                                  /\ s[k + 1] \in Operators \cup {"]"} => s[k] \notin Operators \cup {"["}
NeverLost == line.form = "expr" /\ expr # <<>> /\ WellFormed(expr) => outcome # "crash"

(* Of two opposite comparisons one holds, and two texts are equal when neither comes first. *)
Opposites ==
    line.form = "cmp" =>
        LET Holds(cmp) == PerformExtendedTest(cmp, line.a, line.b, line.i)
        IN  /\ Holds("EQU") = 1 - Holds("NEQ")
            /\ Nan \notin {line.a.num, line.b.num} =>
                   /\ Holds("LSS") = 1 - Holds("GEQ") /\ Holds("GTR") = 1 - Holds("LEQ")
                   /\ Holds("EQU") = Holds("GEQ") * Holds("LEQ")
=============================================================================
