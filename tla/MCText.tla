------------------------------- MODULE MCText -------------------------------
(* What becomes of a line: it is parsed and expanded, IF tests it, FOR repeats  *)
(* it, SET /A computes it and another interpreter starts with it as its command *)
(* line. A behaviour is a behaviour of one of these parts.                      *)
EXTENDS ForLoop, TLC

CONSTANTS Parts, NotANumber, Nan, Undefined
VARIABLES part,
          errorlevel, ifLine, expr, tree, outcome,
          items, line, phase, delayed,
          nodes, written, step, parsed,
          value, fmode, todo, before, state

Strings(S, k) == UNION {[1..n -> S] : n \in 0..k}

-----------------------------------------------------------------------------
(* FOR: x and y are letters, 0 is the space, 7 a wildcard and 9 the semicolon; a token mask has three bits. *)
x == 1
y == 2
One(n) == [form |-> "one", n |-> n]
Rest(n) == [form |-> "rest", n |-> n]
OneRest(n) == [form |-> "oneRest", n |-> n]
List(n, p) == [form |-> "list", n |-> n, p |-> p]
Cat(n, p) == [form |-> "cat", n |-> n, p |-> p]
AllOf == [form |-> "star"]
Tokens(list, elements) == [type |-> "tokens", list |-> list, elements |-> elements]
For(switches, input, var) == [switches |-> switches, options |-> <<>>, var |-> var, form |-> "ok", quote |-> "none", closed |-> TRUE, input |-> input]
ForF(options, quote, input, var) == [For(<<"F">>, input, var) EXCEPT !.options = options, !.quote = quote]
L1 == <<x, 0, y, y, 0, 0, x>>
L2 == <<0, y, 0>>
Lists == << <<One(2)>>, <<One(1), AllOf>>, <<OneRest(2)>>, <<List(2, 3)>>, <<Cat(2, 3), One(1)>>, <<AllOf>>,
            <<Rest(2), One(3)>>, <<List(1, 2), List(2, 3)>>, <<List(3, 2)>> >>
No == NoNumber
BadLists == << << <<No, "end">> >>, << <<1, "-">>, <<No, "end">> >>, << <<1, "-">>, <<No, "*">>, <<No, "end">> >>,
               << <<1, "*">>, <<2, "end">> >>, << <<1, "-">>, <<2, "-">>, <<3, "end">> >>, << <<1, "other">>, <<No, "end">> >>,
               << <<1, ",">>, <<No, "end">> >> >>
\* A list the manual does not know is refused.
ASSUME RefusesBadLists == \A i \in DOMAIN BadLists : ForMakeTokens(BadLists[i], Default).status # "ok"
MCCommands ==
    [i \in DOMAIN Lists |-> ForF(<<Tokens(Spell(Lists[i]), Lists[i])>>, "double", << <<L1, L2>> >>, 3)]
    \o [i \in DOMAIN BadLists |-> ForF(<<Tokens(BadLists[i], <<>>)>>, "double", << <<L1>> >>, 3)]
    \o << ForF(<<[type |-> "delims", chars |-> {9}]>>, "none", << << <<9, x>>, <<>> >>, <<L2>> >>, 3),
          ForF(<<[type |-> "skip", n |-> 1], Tokens(Spell(<<OneRest(1)>>), <<OneRest(1)>>)>>, "none", << << <<9, x>>, <<>>, L1>>, Missing >>, 5),
          ForF(<<[type |-> "eol", chars |-> {}], [type |-> "usebackq"]>>, "single", << << <<9, x>>, <<>>, <<0>> >> >>, 5),
          ForF(<<[type |-> "invalid"]>>, "single", << << <<x>> >> >>, 4),
          ForF(<<>>, "back", << << <<x>> >> >>, 4), ForF(<<>>, "none", <<Missing>>, 4), ForF(<<>>, "none", <<>>, 4), ForF(<<>>, "none", << <<L2>>, << <<x>> >>, Missing >>, 4),
          [ForF(<<>>, "single", << << <<x>> >> >>, 4) EXCEPT !.closed = FALSE], ForF(<<>>, "single", << << <<x>>, L1>> >>, 3),
          For(<<>>, << <<x>>, <<7>>, <<y>> >>, 3), For(<<>>, << <<7>> >>, 4),
          For(<<"L">>, <<1, 2, 4>>, 3), For(<<"F", "L">>, <<3, 1, 3>>, 4), For(<<"L">>, <<2, -1, 1>>, 4), For(<<"L">>, <<1, -1, 2>>, 4),
          For(<<"L">>, <<5, 3, 6>>, 5), For(<<"L">>, <<1, 1>>, 4), For(<<"L">>, <<1, 1, 1, 1>>, 4), For(<<"L">>, <<1, Missing>>, 4),
          For(<<"R">>, << << <<x>>, L1>> >>, 3), [For(<<"D">>, << <<>> >>, 3) EXCEPT !.options = <<"d1", "d2">>],
          [For(<<>>, <<>>, 3) EXCEPT !.form = "incomplete"], [For(<<>>, <<>>, 3) EXCEPT !.form = "unexpected"] >>
MCFilesOf == [p \in {<<7>>} |-> << <<x>>, <<y>> >>]
MCIntMin == -8

-----------------------------------------------------------------------------
(* IF: texts that are numbers, an empty one, and words; lines, and expressions of at most five words. *)
Term(rank, fold, num) == [rank |-> rank, fold |-> fold, num |-> num]
MCTexts == {Term(0, 0, 0), Term(1, 1, 0), Term(2, 2, 8), Term(3, 3, 8), Term(4, 6, NotANumber), Term(6, 6, NotANumber), Term(5, 5, Nan)}
If(form, there, not, i, tail) == [form |-> form, there |-> there, not |-> not, i |-> i, tail |-> tail]
Cmp(cmp, a, b, not, i) == [form |-> "cmp", cmp |-> cmp, a |-> a, b |-> b, not |-> not, i |-> i, tail |-> "else"]
IfLines == {Cmp(cmp, a, b, n, i) : cmp \in {"==", "EQU", "NEQ", "GEQ", "GTR", "LEQ", "LSS", "EQ"}, a, b \in MCTexts, n, i \in BOOLEAN}
    \cup {If("expr", FALSE, FALSE, FALSE, "else"), If("expr", FALSE, TRUE, FALSE, "line"), If("short", FALSE, FALSE, FALSE, "line"),
          If("exist", TRUE, TRUE, FALSE, "block"), If("defined", FALSE, TRUE, FALSE, "junk"), If("defined", FALSE, FALSE, FALSE, "elseJunk"),
          If("exist", TRUE, TRUE, TRUE, "block"),
          [form |-> "errorlevel", a |-> Term(0, 0, 0), not |-> TRUE, i |-> FALSE, tail |-> "else"]}
IfExpressions == {<<"[">> \o s : s \in Strings({"[", "]", "T", "NOT", "AND", "OR"}, 4)}
    \cup {<<"[", a, "OR", b, "AND", c, "]">> : a, b, c \in {"T", "F"}}
Binary(S) == {[op |-> op, l |-> l, r |-> r] : op \in {"AND", "OR"}, l, r \in S}
Leaf(words) == [op |-> "leaf", words |-> words]
Small == {Leaf(<<"T">>), Leaf(<<"F">>), Leaf(<<"NOT", "T">>), Leaf(<<"NOT", "F">>)}
I == INSTANCE Conditions WITH line <- ifLine, Texts <- MCTexts, Lines <- IfLines, Expressions <- IfExpressions,
        Trees <- Binary(Small) \cup Binary({Leaf(<<"T">>), Leaf(<<"NOT", "T">>)} \cup Binary(Small))

-----------------------------------------------------------------------------
(* Expansion: one, two or three items on a line; the variable v is abc, 5x has a name that starts like an
   argument, p holds the name of a loop variable; the loop variable n has the name of a flag. *)
V == <<"v">>
Named(kind, name) == [kind |-> kind, name |-> name]
Flagged(kind, flags, char) == [kind |-> kind, flags |-> flags, char |-> char]
CutItem(b, l) == [kind |-> "cut", name |-> V, b |-> b, l |-> l]
Ints == {<<"-", "3">>, <<"-", "2">>, <<"-", "1">>, <<"0">>, <<"1">>, <<"2">>, <<"3">>, <<"4">>}
Items == {[kind |-> "literal", text |-> V], [kind |-> "escape", char |-> "%"], [kind |-> "escape", char |-> "^"], [kind |-> "escape", char |-> "!"],
    Named("var", V), Named("var", <<"u">>), Named("var", <<"5", "x">>), CutItem(<<"1">>, <<"-", "1">>),
    [kind |-> "replace", name |-> V, a |-> <<"b">>, b |-> <<"y">>], [kind |-> "default", name |-> <<"u">>, text |-> <<"d">>],
    Flagged("argument", <<>>, "1"), Flagged("argument", <<"~">>, "1"), Flagged("argument", <<"~", "d", "p", "n">>, "1"), Flagged("argument", <<>>, "*"),
    Flagged("loop", <<>>, "i"), Flagged("loop", <<>>, "j"), Flagged("loop", <<"~", "n", "x">>, "i"), Named("bang", V), Named("bang", <<"u">>)}
ExpandLines == {<<a, b>> : a, b \in Items} \cup {<<a, b, c>> : a, b, c \in Items} \cup {<<CutItem(b, l)>> : b \in Ints, l \in Ints \cup {<<>>}}
    \cup {<<Flagged("loop", f, n)>> : f \in {<<"~", "n">>, <<"~", "x", "n">>, <<"~", "f", "x">>}, n \in {"n", "i"}}
    \cup {<<Flagged("argument", <<"~", "d", "p", "n", "x">>, c)>> : c \in {"1", "2", "3"}}
    \cup {<<Flagged("argument", <<"~", "d", "p">>, "0")>>}
Nth(n) == [kind |-> "nth", n |-> n]
MacroItems == {Nth(1), Nth(2), Nth(9), [kind |-> "all"], [kind |-> "literal", text |-> <<"1", ":">>]}
Ten == <<"0", "1", "2", "3", "4", "5", "6", "7", "8", "9">>
Calls == {[body |-> <<a, b>>, params |-> p] : a, b \in MacroItems, p \in {<<>>, << <<"a">> >>, << <<"a">>, <<"1">> >>, [k \in 1..10 |-> <<Ten[k]>>]}}
MCEnv == (V :> <<"a", "b", "c">>) @@ (<<"5", "x">> :> <<"k">>) @@ (<<"p">> :> <<"%", "i">>)
MCArguments == ("0" :> <<"s">>) @@ ("1" :> <<"Q", "d", "/", "e", ".", "o", "Q">>) @@ ("2" :> <<"/", ".", "/", "x">>)
    @@ ("3" :> <<"x", ".", ".", "y">>) @@ ("*" :> <<"r">>)
E == INSTANCE Expand WITH Env <- MCEnv, Arguments <- MCArguments, LoopVars <- ("i" :> <<"q", ".", "r">>) @@ ("n" :> <<"h">>),
        ScriptName <- <<"/", "m">>, Directory <- <<"/", "w", "/">>, MaxOptions <- 4, Lines <- ExpandLines, Macros <- Calls

-----------------------------------------------------------------------------
(* Parsing: a command with two pieces or a block command with two blocks, then up to two more nodes; and
   every short text of the characters that count. *)
Piece(kind, t) == [kind |-> kind, text |-> t, fd |-> <<>>, append |-> FALSE]
File(fd, append) == [kind |-> "file", text |-> <<"f">>, fd |-> fd, append |-> append]
C == Piece("word", <<"c">>)
Pieces == {Piece("word", <<"a", "1", "2">>), Piece("quoted", <<"|", "1", ">", "(">>), Piece("escape", <<"|">>), Piece("escape", <<">", "a">>),
    Piece("escape", <<"&">>), File(<<>>, FALSE), File(<<"1">>, TRUE), File(<<"2">>, FALSE), Piece("input", <<"1">>),
    Piece("both", <<"2", ">", "&", "1">>), Piece("both", <<"1", ">", "&", "2">>)}
Blocks == {Piece("block", <<"a", "|", "b", ">", "f">>), Piece("block", <<"a", "&", "(", "b", ")", "|", "Q", ")", "Q">>),
    Piece("block", <<"F", " ", "(", "b", "|", ")", "(", ")", "&", "c">>)}
Node(op, pieces) == [op |-> op, pieces |-> pieces]
First == <<"&">>
Ops == {<<"|">>, <<"|", "|">>, First, <<"&", "&">>}
CommandNodes == {<<C, p, q>> : p, q \in Pieces} \cup {<<b, p>> : b \in Blocks, p \in {q \in Pieces : q.kind # "quoted"}}
    \cup {<<Piece("word", <<"F">>), Piece("word", <<"x">>), b, c>> : b \in Blocks, c \in Blocks \cup {Piece("word", <<"e">>), File(<<>>, FALSE)}}
Short == {<<C>>, <<C, File(<<"2">>, TRUE)>>, <<Piece("word", <<"F">>), Piece("block", <<"a", "&", "b">>)>>, <<Piece("block", <<"1", ">", "2">>)>>}
MCWritten == {<<Node(First, a)>> : a \in CommandNodes} \cup {<<Node(First, a), Node(op, b)>> : a \in CommandNodes, b \in Short, op \in Ops}
    \cup {<<Node(First, a), Node(op, b), Node(o2, c)>> : a, b, c \in Short, op, o2 \in Ops}
MCLoose == (Strings({"(", ")", "&", "F", " "}, 5) \cup Strings({"|", ">", "1", "c", "Q", "^"}, 4) \cup Strings({"|", "&", ">", "c"}, 4)) \ {<<>>}
MCWords == {<<>>, <<"a">>, <<" ", "a">>, <<",">>, <<"a", "N">>}
\* The words an interpreter is started with: up to two switches, then up to three words; and what START gives it.
Switches == {<<"/", "a", ":", "v", "e">>, <<"/", "a", "q", "c">>, <<"/", "c">>, <<"/", "k">>, <<"/", "?">>, <<"/", "/">>, <<"/">>, <<"@">>}
Given == {<<"a">>, <<" ", "a">>, <<"a", "&">>, <<"Q", "a">>, <<"Q", " ">>, <<"/", ",">>, <<>>}
MCLaunches == {a \o b : a \in Strings(Switches, 2), b \in Strings(Given, 3)}
MCStarts == {[what |-> w, title |-> t, words |-> a, modes |-> m] : w \in {"command", "script"}, m \in SUBSET {"v", "e", "c"},
                t \in {<<>>, << <<>> >>, << <<" ", "a">> >>},
                a \in Strings({<<"a">>, <<" ", "a">>, <<" ", "&">>, <<"a", ",">>, <<"/", "c">>}, 3) \ {<<>>}}
    \cup {[what |-> "command", title |-> << <<"a">> >>, words |-> <<>>, modes |-> m] : m \in SUBSET {"v", "e", "c"}}
    \cup {[what |-> "break", title |-> <<>>, words |-> <<>>, modes |-> m] : m \in SUBSET {"v", "e", "c"}}
P == INSTANCE StartUp WITH text <- written, phase <- step, Written <- MCWritten, Loose <- MCLoose,
        WordLists <- Strings(MCWords, 3) \ {<<>>}, LastDigit <- 2, CommandVariable <- <<"c">>, Launches <- MCLaunches, Starts <- MCStarts

-----------------------------------------------------------------------------
(* SET /A: every operator over integers and halves and quarters, two operators in a row, assignments. *)
Integer(n) == [kind |-> "int", n |-> n]
Float(p, q) == [kind |-> "float", d |-> <<p, q>>]
Var(v) == [kind |-> "var", name |-> v]
Unary(op, e) == [kind |-> "unary", op |-> op, args |-> <<e>>]
Pair(op, a, b) == [kind |-> "row", ops |-> <<op>>, args |-> <<a, b>>]
Row(o, p, a, b, c) == [kind |-> "row", ops |-> <<o, p>>, args |-> <<a, b, c>>]
Set(v, e) == [kind |-> "set", name |-> v, args |-> <<e>>]
Bad(v, e) == [kind |-> "bad", name |-> v, args |-> <<e>>]
St(op, e) == [name |-> "x", op |-> op, expr |-> e, form |-> "ok"]
Arithmetic == {"+", "-", "*", "/", "%"}
Logical == {"&", "|", "^", "&&", "||", ">>", "<<"}
SetNumbers == {Integer(0), Integer(1), Integer(2), Integer(-5), Float(1, 2), Float(-5, 4), Var("x"), Var("y")}
Pairs == {Pair(op, a, b) : op \in Arithmetic \cup Logical, a \in {Integer(3), Integer(-5), Float(5, 4)}, b \in {Integer(2), Integer(0), Float(1, 2), Float(0, 1)}}
    \cup {Unary(op, e) : op \in {"-", "~"}, e \in {Integer(2), Float(3, 2)}}
Nested == {Pair(op, a, b) : op \in Arithmetic, a \in {Pair("/", Integer(1), Integer(2)), Pair("%", Integer(-5), Integer(3)), Pair("-", Integer(1), Integer(7))},
                            b \in {Float(1, 2), Integer(2), Float(5, 4)}}
Rows == {Row(o, p, Integer(12), Integer(3), Integer(2)) : o \in Arithmetic \cup {"&", ">>", "<<", "|", "^"}, p \in Arithmetic \cup {"&", ">>", "<<"}}
Exprs == SetNumbers \cup Pairs \cup Nested \cup Rows \cup
    {Set("y", Integer(4)), Pair("+", Set("y", Integer(4)), Var("y")), Bad("y", Integer(3)), [kind |-> "abs", args |-> <<Integer(-2)>>]}
MCStatements == {<<St(op, e)>> : op \in {"", "*", "/", "+", "-", "%", "^", "&", "|", "&&", "||"}, e \in Exprs} \cup
    {<<St("", Bad("y", Float(1, 2))), St("/", Integer(2))>>, <<St("", Float(1, 2)), St("", Bad("y", Integer(1))), St("/", Integer(2))>>,
     <<St("", Float(1, 2)), [St("", Integer(1)) EXCEPT !.form = "no ="], St("", Integer(2))>>}
MCStart == {[v \in {"x", "y"} |-> IF v = "x" THEN a ELSE <<1, 1>>] : a \in { <<7, 1>>, <<-2, 1>>, <<3, 2>>, <<0, 0>> }}
S == INSTANCE SetA WITH Long <- 32768, Word <- 8192, Names <- {"x", "y"}, Statements <- MCStatements, Start <- MCStart

-----------------------------------------------------------------------------
ifVars == <<errorlevel, ifLine, expr, tree, outcome>>
expandVars == <<items, line, phase, delayed>>
parseVars == <<nodes, written, step, parsed>>
setVars == <<value, fmode, todo, before, state>>

\* The parts that do not run stay in one of their initial states.
MCInit ==
    /\ part \in Parts
    /\ Init /\ (part = "for" \/ correct)
    /\ IF part = "if" THEN I!Init
       ELSE errorlevel = Undefined /\ ifLine = If("short", FALSE, FALSE, FALSE, "line") /\ expr = <<>> /\ tree = I!NoTree /\ outcome = "runs"
    /\ IF part = "expand" THEN E!Init ELSE delayed = FALSE /\ phase = "read" /\ items = << >> /\ line = <<>>
    /\ IF part = "parse" THEN P!Init \/ P!StartInit ELSE parsed = <<>> /\ step = "line" /\ nodes = <<>> /\ written = <<>>
    /\ IF part = "set" THEN S!Init
       ELSE value = (CHOOSE v \in MCStart : TRUE) /\ fmode = FALSE /\ todo = <<>> /\ before = <<>> /\ state = "runs"

MCNext == \/ part = "for" /\ Next /\ UNCHANGED <<part, ifVars, expandVars, parseVars, setVars>>
          \/ part = "if" /\ I!Next /\ UNCHANGED <<part, vars, expandVars, parseVars, setVars>>
          \/ part = "expand" /\ E!Next /\ UNCHANGED <<part, vars, ifVars, parseVars, setVars>>
          \/ part = "parse" /\ (P!Next \/ P!Start \/ P!SigHandlerBreak \/ P!Main) /\ UNCHANGED <<part, vars, ifVars, expandVars, setVars>>
          \/ part = "set" /\ S!Next /\ UNCHANGED <<part, vars, ifVars, expandVars, parseVars>>

MCSpec == MCInit /\ [][MCNext]_<<part, vars, ifVars, expandVars, parseVars, setVars>> /\ Fairness

-----------------------------------------------------------------------------
\* IF with an expression in brackets runs the branch that its value calls for, never uses a word of an expression
\* that is gone, and finds one of two opposite comparisons true.
FollowsBrackets == part = "if" => I!FollowsBrackets /\ I!NeverLost /\ I!Opposites

\* A line becomes what its items stand for, a macro the text with its parameters, and the parts of an argument make
\* its full path.
MeansItsItems == part = "expand" => E!MeansItsItems /\ E!MacroMeansItsItems /\ E!PartsMakeThePath

\* The nodes of a line are the ones it was written from, and the nodes of any line, put together, are the line.
ParsesWhatIsWritten == part = "parse" => P!ParsesWhatIsWritten /\ P!KeepsTheLine
\* Words in quotes are the parameters of their line, a script gets the words it is given, and a command or a batch
\* file that START gives to another interpreter gets there with its words and modes.
WordsComeBack == part = "parse" => P!WordsComeBack /\ P!ScriptGetsItsWords /\ P!StartKeepsModesAndWords

\* An expression with a floating point number is not rounded on the way, x op= e does what x = x op (e) does, and
\* operators bind by the manual's table.
Evaluates == part = "set" => S!FloatIsExact /\ S!AssignsLikeOperator /\ S!BindsAsTold
=============================================================================
