-------------------------------- MODULE SetA --------------------------------
(* SET /A and libfasteval: integers and doubles side by side, the precedence of *)
(* the operators, and the assignments with an operator.                        *)
EXTENDS Integers, Sequences, Bitwise
CONSTANTS Long,         \* a long long is -Long..(Long - 1)
          Word,         \* an int is -Word..(Word - 1)
          Names,        \* variables
          Statements,   \* sequences of expressions of a SET /A line
          Start         \* values of the variables

VARIABLES value,    \* the numbers that the variables hold, as text
          fmode,    \* result.fmode, which a failed parse leaves alone
          todo,     \* the expressions of the line that are left
          before,   \* history: the variables before the last expression, and the expression
          state     \* "runs", "done", "error" or "fpe", the signal of a division
vars == <<value, fmode, todo, before, state>>

(* A double: a fraction <<p, q>> in lowest terms with q > 0, or one of the special values. The numbers that
   are tried have few enough digits for %.14g and %.16g to print them whole. *)
NaN == <<0, 0>>
Inf(sign) == <<sign, 0>>
Abs(n) == IF n < 0 THEN -n ELSE n
Sign(n) == IF n < 0 THEN -1 ELSE IF n = 0 THEN 0 ELSE 1
RECURSIVE Gcd(_, _)
Gcd(a, b) == IF b = 0 THEN a ELSE Gcd(b, a % b)
Double(p, q) == IF q = 0 THEN <<Sign(p), 0>>
                ELSE LET g == Gcd(Abs(p), Abs(q)) IN <<Sign(q) * (p \div g), Abs(q) \div g>>
OfInt(n) == <<n, 1>>
Finite(d) == d[2] # 0
Add(a, b) == CASE Finite(a) /\ Finite(b) -> Double(a[1] * b[2] + b[1] * a[2], a[2] * b[2])
               [] Finite(a) /\ ~Finite(b) -> b
               [] ~Finite(a) /\ Finite(b) -> a
               [] ~Finite(a) /\ ~Finite(b) -> IF a = b THEN a ELSE NaN
Neg(a) == <<-a[1], a[2]>>
Times(a, b) == IF Finite(a) /\ Finite(b) THEN Double(a[1] * b[1], a[2] * b[2]) ELSE Inf(Sign(a[1]) * Sign(b[1]))
Over(a, b) == CASE ~Finite(b) -> IF Finite(a) /\ b # NaN THEN OfInt(0) ELSE NaN
                [] Finite(b) /\ ~Finite(a) -> Inf(a[1] * (IF b[1] < 0 THEN -1 ELSE 1))
                [] Finite(a) /\ Finite(b) -> Double(a[1] * b[2], a[2] * b[1])
Trunc(p, q) == Sign(p) * Sign(q) * (Abs(p) \div Abs(q))         \* the division of C
Fmod(a, b) == CASE ~Finite(a) \/ b[1] = 0 -> NaN
                [] Finite(a) /\ b[1] # 0 /\ ~Finite(b) -> a
                [] Finite(a) /\ b[1] # 0 /\ Finite(b) -> Add(a, Neg(Times(OfInt(Trunc(a[1] * b[2], a[2] * b[1])), b)))
\* (int) of a double out of range is undefined: the machine gives the smallest int.
ToInt(d) == IF ~Finite(d) THEN -Word
            ELSE LET n == Trunc(d[1], d[2]) IN IF n \in (-Word)..(Word - 1) THEN n ELSE -Word

Wrap(n, half) == ((n + half) % (2 * half)) - half
Bool(b) == IF b THEN 1 ELSE 0
Bits(op, a, b, half) ==
    LET x == a % (2 * half)
        y == b % (2 * half)
        r == CASE op = "&" -> x & y [] op = "|" -> x | y [] op = "^" -> x ^^ y
    IN  Wrap(r, half)
\* The operators that work on integers only, on long longs or on ints.
OnIntegers(op, a, b, half) ==
    CASE op \in {"&", "|", "^"} -> Bits(op, a, b, half)
      [] op = "&&" -> Bool(a # 0 /\ b # 0)
      [] op = "||" -> Bool(a # 0 \/ b # 0)
      [] op = ">>" -> a \div (2 ^ b)
      [] op = "<<" -> Wrap(a * (2 ^ b), half)
Logical == {"&", "|", "^", "&&", "||", ">>", "<<"}
Arithmetic == {"+", "-", "*", "/", "%"}
Traps(a, b, half) == b = 0 \/ (a = -half /\ b = -1)
OnLongs(op, a, b) ==
    CASE op = "+" -> Wrap(a + b, Long) [] op = "-" -> Wrap(a - b, Long) [] op = "*" -> Wrap(a * b, Long)
      [] op = "/" -> Trunc(a, b)       [] op = "%" -> a - b * Trunc(a, b)
OnDoubles(op, a, b) ==
    CASE op = "+" -> Add(a, b) [] op = "-" -> Add(a, Neg(b)) [] op = "*" -> Times(a, b)
      [] op = "/" -> Over(a, b) [] op = "%" -> Fmod(a, b)

-----------------------------------------------------------------------------
(* A number of the parser holds both; an integer's double is kept up, so that it counts once a double
   joins in. The signal of the processor is a number of its own. *)
Number(dbl, i, d) == [dbl |-> dbl, i |-> i, d |-> d]
Fpe == Number(FALSE, 0, <<0, -1>>)
AsDouble(x) == IF x.dbl THEN x.d ELSE OfInt(x.i)
Binary(op, a, b) ==
    LET dbl == a.dbl \/ b.dbl
    IN  IF Fpe \in {a, b} \/ (~dbl /\ op \in {"/", "%"} /\ Traps(a.i, b.i, Long)) THEN Fpe
        ELSE IF op \in Logical
        THEN Number(dbl, IF dbl THEN 0 ELSE OnIntegers(op, a.i, b.i, Long), OfInt(OnIntegers(op, ToInt(a.d), ToInt(b.d), Word)))
        ELSE Number(dbl, IF dbl THEN 0 ELSE OnLongs(op, a.i, b.i), OnDoubles(op, a.d, b.d))
\* The scanner takes `!` for a letter of a name: the parser never sees the operator.
Unary(op, a) ==
    IF a = Fpe THEN Fpe
    ELSE CASE op = "-" -> Number(a.dbl, Wrap(-a.i, Long), Neg(a.d))
           [] op = "~" -> Number(a.dbl, -a.i - 1, OfInt(-ToInt(a.d) - 1))

(* The grammar without its tokens: a leaf, an operator over one expression, a call, an assignment, or a row
   of operands with operators between them, which binds by the table of precedences. *)
Level(op) == CASE op \in {"|", "||", "^"} -> 1 [] op \in {"&", "&&"} -> 2 [] op \in {">>", "<<"} -> 3
               [] op \in {"+", "-"} -> 4 [] op \in {"*", "/", "%"} -> 5
\* The operator that is applied last: the last one of the lowest level.
LastOp(ops) == CHOOSE k \in DOMAIN ops :
                   \A j \in DOMAIN ops : Level(ops[j]) > Level(ops[k]) \/ (Level(ops[j]) = Level(ops[k]) /\ j <= k)
GetVar(env, v) == IF v \in DOMAIN env THEN env[v] ELSE OfInt(0)
Put(env, v, d) == [n \in DOMAIN env \cup {v} |-> IF n = v THEN d ELSE env[n]]
Result(n, env) == [num |-> n, env |-> env]
RECURSIVE Evaluate(_, _)
Evaluate(e, env) ==
    CASE e.kind = "int"   -> Result(Number(FALSE, e.n, OfInt(e.n)), env)
      [] e.kind = "float" -> Result(Number(TRUE, 0, e.d), env)
      [] e.kind = "var"   -> LET d == GetVar(env, e.name) IN Result(Number(FALSE, ToInt(d), d), env)
      [] e.kind = "unary" -> LET r == Evaluate(e.args[1], env) IN Result(Unary(e.op, r.num), r.env)
      [] e.kind = "abs"   -> LET r == Evaluate(e.args[1], env)
                                 d == AsDouble(r.num)
                             IN  Result(IF r.num = Fpe THEN Fpe ELSE Number(TRUE, 0, <<Abs(d[1]), d[2]>>), r.env)
      [] e.kind = "set"   -> LET r == Evaluate(e.args[1], env)
                             IN  Result(r.num, IF r.num = Fpe THEN r.env ELSE Put(r.env, e.name, AsDouble(r.num)))
      [] e.kind = "row"   -> IF e.ops = <<>> THEN Evaluate(e.args[1], env)
                             ELSE LET k == LastOp(e.ops)
                                      l == Evaluate([e EXCEPT !.ops = SubSeq(@, 1, k - 1), !.args = SubSeq(@, 1, k)], env)
                                      r == Evaluate([e EXCEPT !.ops = SubSeq(@, k + 1, Len(@)), !.args = SubSeq(@, k + 1, Len(@))], l.env)
                                  IN  Result(Binary(e.ops[k], l.num, r.num), r.env)
      [] e.kind = "bad"   -> Evaluate([kind |-> "set", name |-> e.name, args |-> e.args], env)   \* what was reduced before the error

-----------------------------------------------------------------------------
(* One expression: name operator= e. The && and || forms read the variable whose name still ends with one of
   the two characters. *)
OnInts(op, a, b) == IF op = "/" THEN Trunc(a, b) ELSE OnIntegers(op, a, b, Word)
OperandName(s) == IF s.op \in {"&&", "||"} THEN "name with a character" ELSE s.name
CombineSwapped(op, dVal, dResult, mode) ==    \* the operands of a minus
                                           IF op = "-" THEN OnDoubles(op, dResult, dVal)
                                           ELSE IF op = "" THEN dResult ELSE OnDoubles("+", dVal, dResult)
Combine(op, dVal, dResult, mode) ==
    LET a == ToInt(dVal)
        b == ToInt(dResult)
    IN  CASE op = "" -> dResult
          [] op = "/" -> IF mode THEN Over(dVal, dResult) ELSE OfInt(OnInts("/", a, b))
          [] op \in {"+", "-", "*", "%"} -> OnDoubles(op, dVal, dResult)
          [] op \in {"&", "|", "^", "&&", "||"} -> OfInt(OnInts(op, a, b))
CmdSetEval ==
    /\ state = "runs" /\ todo # <<>>
    /\ LET s == Head(todo)
           r == Evaluate(s.expr, value)
           bad == s.expr.kind = "bad"
           mode == IF bad THEN fmode ELSE r.num.dbl
           dResult == IF bad THEN NaN ELSE AsDouble(r.num)
           dVal == GetVar(r.env, OperandName(s))
           fpe == r.num = Fpe \/ (s.op = "/" /\ ~mode /\ Traps(ToInt(dVal), ToInt(dResult), Word))
       IN  /\ before' = <<value, s>>
           /\ IF s.form # "ok" THEN /\ state' = "error"
                                    /\ UNCHANGED <<value, fmode, todo>>
              ELSE IF fpe THEN /\ state' = "fpe"
                               /\ UNCHANGED <<value, fmode, todo>>
              ELSE /\ value' = Put(r.env, s.name, Combine(s.op, dVal, dResult, mode))
                   /\ fmode' = mode
                   /\ todo' = Tail(todo)
                   /\ UNCHANGED state
CmdSetA == /\ state = "runs" /\ todo = <<>>
           /\ state' = "done"
           /\ UNCHANGED <<value, fmode, todo, before>>

Init == /\ value \in Start /\ fmode = FALSE
        /\ todo \in Statements
        /\ before = <<>> /\ state = "runs"
Next == CmdSetEval \/ CmdSetA
Spec == Init /\ [][Next]_vars

-----------------------------------------------------------------------------
(* What the manual says of a tree whose every operator is in brackets. *)
RECURSIVE Leaves(_)
Leaves(e) == IF e.kind \in {"int", "float", "var"} THEN {e} ELSE UNION {Leaves(e.args[i]) : i \in DOMAIN e.args}
RECURSIVE Kinds(_)
Kinds(e) == {e.kind} \cup (IF e.kind \in {"int", "float", "var"} THEN {} ELSE UNION {Kinds(e.args[i]) : i \in DOMAIN e.args})
RECURSIVE Operators(_)
Operators(e) == CASE e.kind \in {"int", "float", "var"} -> {}
                  [] e.kind = "row" -> {e.ops[i] : i \in DOMAIN e.ops} \cup UNION {Operators(e.args[i]) : i \in DOMAIN e.args}
                  [] OTHER -> {e.kind} \cup UNION {Operators(e.args[i]) : i \in DOMAIN e.args}
RECURSIVE InBrackets(_)
InBrackets(e) == CASE e.kind \in {"int", "float", "var"} -> TRUE
                   [] e.kind = "row" -> Len(e.ops) = 1 /\ \A i \in DOMAIN e.args : InBrackets(e.args[i])
                   [] OTHER -> FALSE
RECURSIVE Exact(_)      \* over the numbers, without rounding
Exact(e) == CASE e.kind = "int" -> OfInt(e.n)
              [] e.kind = "float" -> e.d
              [] e.kind = "var" -> GetVar(before[1], e.name)
              [] e.kind = "row" -> OnDoubles(e.ops[1], Exact(e.args[1]), Exact(e.args[2]))

\* The last expression was x = e, and it was computed.
Assigned == state = "runs" /\ before # <<>> /\ (IF before # <<>> THEN before[2].op = "" ELSE FALSE)

(* An expression with a floating point number in it is computed over the numbers, its integer parts too:
   they are not rounded first. *)
FloatIsExact ==
    Assigned => LET e == before[2].expr
                IN  InBrackets(e) /\ (\E x \in Leaves(e) : x.kind = "float") /\ Operators(e) \subseteq Arithmetic
                        => value[before[2].name] = Exact(e)

(* x op= e does what x = x op (e) does, when x is an integer. *)
AsRow(s) == [kind |-> "row", ops |-> <<s.op>>, args |-> << [kind |-> "var", name |-> s.name], s.expr >>]
AssignsLikeOperator ==
    state = "runs" /\ before # <<>> =>
        LET s == before[2]
            x == GetVar(before[1], s.name)
        IN  s.op \in Arithmetic \cup {"&", "|", "^"} /\ x = OfInt(ToInt(x)) /\ "bad" \notin Kinds(s.expr) /\ "set" \notin Kinds(s.expr) =>
                LET r == Evaluate(AsRow(s), before[1]).num IN r # Fpe => value[s.name] = AsDouble(r)

(* Operators without brackets: what binds tighter is computed first, and what binds alike from the left. The
   table is the manual's for the arithmetic operators, the shifts and the bitwise AND. *)
Rank(op) == CASE op = "&" -> 1 [] op \in {">>", "<<"} -> 2 [] op \in {"+", "-"} -> 3 [] op \in {"*", "/", "%"} -> 4
Pair(op, a, b) == [kind |-> "row", ops |-> <<op>>, args |-> <<a, b>>]
Bracketed(e) == IF Rank(e.ops[2]) > Rank(e.ops[1]) THEN Pair(e.ops[1], e.args[1], Pair(e.ops[2], e.args[2], e.args[3]))
                ELSE Pair(e.ops[2], Pair(e.ops[1], e.args[1], e.args[2]), e.args[3])
BindsAsTold ==
    Assigned => LET e == before[2].expr
                IN  IF e.kind # "row" THEN TRUE
                    ELSE Len(e.ops) = 2 /\ Operators(e) \subseteq Arithmetic \cup {"&", ">>", "<<"} =>
                             value[before[2].name] = AsDouble(Evaluate(Bracketed(e), before[1]).num)
=============================================================================
