-------------------------------- MODULE Parse --------------------------------
(* From a line to its nodes: blocks, the operators | || & &&, redirections and  *)
(* parameters. The words IF, FOR and DEF are one character, "F".               *)
EXTENDS Texts
CONSTANTS Written,      \* lines, as the nodes they were written from
          Loose,        \* lines that nobody wrote from nodes
          WordLists     \* parameters, as the words they were written from

VARIABLES nodes, text, phase, parsed
vars == <<nodes, text, phase, parsed>>

At(s, i, c) == i \in DOMAIN s /\ (IF i \in DOMAIN s THEN s[i] = c ELSE FALSE)
End(s) == Len(s) + 1
OrEnd(s, i) == IF i = Null THEN End(s) ELSE i

-----------------------------------------------------------------------------
(* Blocks. Where a line of a block ends: behind the block it is, at its operator, or at the bracket
   that closes the block around it; Null when a bracket is missing. *)
IsBlockCommand(s, i) == At(s, i, "F") /\ \E d \in Delims : At(s, i + 1, d)
Stops(bracket) == IF bracket THEN {")", "&", "|"} ELSE {"&", "|"}
RECURSIVE LineEndAt(_, _, _), GetNextBlockEnd(_, _), CommandEnd(_, _, _), LinesEnd(_, _)
After(e) == IF e = Null THEN Null ELSE e + 1
\* i is behind the blanks of the line.
LineEndAt(s, i, bracket) ==
    IF At(s, i, "(") THEN After(GetNextBlockEnd(s, i))
    ELSE IF IsBlockCommand(s, i) THEN CommandEnd(s, i, bracket)
    ELSE OrEnd(s, SearchToken_Hybrid(s, i, {LineEnd}, Stops(bracket)))
GetBlockLineEndEx(s, from, bracket) == LineEndAt(s, Skipped(s, from, (Delims \ {LineEnd}) \cup {"@"}), bracket)
\* The blocks of an IF, a FOR or a DEF: t is the next token of the command, e the end of a block of it.
CommandBehind(s, e, bracket) == IF e \in {Null, Len(s)} THEN After(e) ELSE CommandEnd(s, e + 1, bracket)
CommandAt(s, t, bracket) == IF t = Null THEN End(s)
                            ELSE IF s[t] # "(" THEN t
                            ELSE CommandBehind(s, GetNextBlockEnd(s, t), bracket)
CommandEnd(s, i, bracket) == CommandAt(s, SearchToken_Hybrid(s, i, {LineEnd}, Stops(bracket) \cup {"("}), bracket)
\* The lines of a block: p is behind one of them, with its operator.
Closing(s, p) == IF p \in {Null, End(s)} THEN Null ELSE IF s[p] = ")" THEN p ELSE LinesEnd(s, p)
Behind(s, e) == IF e \in DOMAIN s /\ ~At(s, e, ")") THEN e + 1 ELSE e
LinesEnd(s, i) == Closing(s, Behind(s, GetBlockLineEndEx(s, i, TRUE)))
GetNextBlockEnd(s, i) == IF At(s, i, "(") THEN LinesEnd(s, i + 1) ELSE Null

RECURSIVE BlockBeginAt(_, _)
BeginAt(s, t) == IF t = Null THEN Null
                 ELSE IF s[t] = "(" THEN t
                 ELSE BlockBeginAt(s, SkipAllBlanks(s, IF s[t] # LineEnd /\ At(s, t + 1, s[t]) THEN t + 2 ELSE t + 1))
BlockBeginAt(s, i) ==
    BeginAt(s, SearchToken_Hybrid(s, i, {LineEnd}, IF IsBlockCommand(s, i) \/ At(s, i, "(") THEN {"(", "&", "|"} ELSE {"&", "|"}))
GetNextBlockBegin(s, from) == BlockBeginAt(s, SkipAllBlanks(s, from))
\* Behind a block: the next bracket, whatever the command is.
Opening(s, t) == IF At(s, t, "(") THEN t ELSE Null
NextInCommand(s, from) == Opening(s, SearchToken_OutQuotes(s, from, {"(", ")"}))

-----------------------------------------------------------------------------
(* Parameters: they end at a delimiter out of quotes; the quotes around them go. *)
ParameterDelims == Delims \cup {Quote}
RECURSIVE ParameterEnd(_, _, _)
BehindQuotes(s, q, delims) == IF q = Null THEN Null ELSE ParameterEnd(s, q + 1, delims)
ParameterAt(s, e, delims) == IF e = Null \/ ~At(s, e, Quote) THEN e ELSE BehindQuotes(s, SearchChar(s, e + 1, Quote), delims)
ParameterEnd(s, from, delims) == ParameterAt(s, SearchToken(s, from, delims), delims)
NoParameter == [next |-> Null, text |-> <<>>]
WithoutFirstQuote(s, b, e) == SubSeq(s, IF s[b] = Quote THEN b + 1 ELSE b, e - 1)    \* the last one stays
WithoutQuotes(s, b, e) ==
    IF s[b] # Quote THEN SubSeq(s, b, e - 1)
    ELSE IF e = End(s) THEN IF SearchLastChar(s, b + 1, Quote) = Len(s) THEN SubSeq(s, b + 1, Len(s) - 1) ELSE From(s, b + 1)
    ELSE IF s[e - 1] = Quote THEN SubSeq(s, b + 1, e - 2) ELSE SubSeq(s, b + 1, e - 1)
RECURSIVE GetNextParameterEsD(_, _, _), GetParamList(_, _)
ParameterIs(s, e, t, delims) == IF t = <<"^">> THEN GetNextParameterEsD(s, e, delims)
                                ELSE [next |-> e, text |-> UnEscape(t)]      \* pBat_DelayedExpand: no variable is left
ParameterTo(s, b, e, delims) == ParameterIs(s, e, WithoutQuotes(s, b, e), delims)
ParameterFrom(s, b, delims) == IF b = End(s) THEN NoParameter ELSE ParameterTo(s, b, OrEnd(s, ParameterEnd(s, b, delims)), delims)
GetNextParameterEsD(s, from, delims) == ParameterFrom(s, SkipBlanks(s, from), delims)
\* pBat_DelayedExpand is called on a parameter twice.
WithRest(s, p) == IF p.next = Null THEN <<>> ELSE <<UnEscape(p.text)>> \o GetParamList(s, p.next)
GetParamList(s, from) == WithRest(s, GetNextParameterEsD(s, from, ParameterDelims))

-----------------------------------------------------------------------------
(* pBat_ParseOperators: the nodes, each with the operator in front of it. *)
Malformed == << [op |-> "malformed", text |-> <<>>] >>
Node(op, t) == [op |-> op, text |-> t]
Doubled(s, t) == At(s, t + 1, s[t])
OperatorAt(s, t) == IF Doubled(s, t) THEN <<s[t], s[t]>> ELSE <<s[t]>>
RECURSIVE Operators(_, _, _, _, _)
WithNode(node, rest) == IF rest = Malformed THEN Malformed ELSE <<node>> \o rest
BehindBlock(s, start, e, op) == IF e = Null THEN Malformed ELSE Operators(s, start, e, NextInCommand(s, e + 1), op)
NodesBehind(s, next, block, op) == Operators(s, next, next, block, op)
NodeTo(s, start, t, block, op) ==
    IF t = Null THEN << Node(op, From(s, start)) >>
    ELSE IF block # Null /\ t >= block THEN BehindBlock(s, start, GetNextBlockEnd(s, block), op)
    ELSE IF s[t] = "&" /\ At(s, t - 1, ">") THEN Operators(s, start, t + 1, block, op)
    ELSE WithNode(Node(op, SubSeq(s, start, t - 1)), NodesBehind(s, t + Len(OperatorAt(s, t)), block, OperatorAt(s, t)))
Operators(s, start, search, block, op) == NodeTo(s, start, SearchToken_OutQuotes(s, search, {"|", "&"}), block, op)
ParseOperators(s) == Operators(s, 1, 1, GetNextBlockBegin(s, 1), <<"&">>)

(* pBat_ParseOutput: the redirections of a node, which leave its text. *)
NoStream == [text |-> <<>>, in |-> <<>>, out |-> <<>>, err |-> <<>>, outMode |-> "", errMode |-> "", redir |-> "", status |-> "ok"]
Fail(st, why) == [st EXCEPT !.status = why]
Follows(s, i, t) == i + Len(t) - 1 <= Len(s) /\ SubSeq(s, i, i + Len(t) - 1) = t
FileDelims == ParameterDelims \cup {"&", "|", "<", ">", ")"}
Stream(c) == CASE c = "<" -> "in" [] c \in {"1", ">"} -> "out" [] c = "2" -> "err"
RECURSIVE Output(_, _, _, _, _)
\* 2>&1 and 1>&2 are the same constant: the node forgets which of them was written.
STDERR2STDOUT == "FERROR"
STDOUT2STDERR == "FERROR"
Both(s, t) == CASE s[t] = "2" /\ Follows(s, t + 1, <<">", "&", "1">>) -> STDERR2STDOUT
                [] s[t] \in {"1", "2"} /\ Follows(s, t + 1, <<">", "&", "2">>) -> STDOUT2STDERR
                [] OTHER -> ""
IsNumber(c) == c \in {"1", "2"}
Sign(s, t) == IF IsNumber(s[t]) THEN t + 1 ELSE t                     \* where its < or > stands
Appends(s, t) == s[t] # "<" /\ At(s, Sign(s, t) + 1, ">")
Given(st, into, file, mode) == CASE into = "in"  -> [st EXCEPT !.in = file]
                                 [] into = "out" -> [st EXCEPT !.out = file, !.outMode = mode]
                                 [] into = "err" -> [st EXCEPT !.err = file, !.errMode = mode]
Goes(s, i, block, st) == Output(s, i, i, block, st)
IntoFile(s, param, block, st, into, mode) ==
    IF param.next = Null THEN Fail(st, "invalid") ELSE Goes(s, param.next, block, Given(st, into, param.text, mode))
BehindStream(s, start, e, st) == IF e = Null THEN Fail(st, "malformed") ELSE Output(s, start, e, NextInCommand(s, e + 1), st)
\* st has the text in front of t.
StreamAt(s, t, both, block, st) ==
    IF both # "" THEN IF st.redir # "" THEN Fail(st, "already redirected") ELSE Goes(s, t + 4, block, [st EXCEPT !.redir = both])
    ELSE IF IsNumber(s[t]) /\ ~At(s, t + 1, ">") THEN Goes(s, t + 1, block, [st EXCEPT !.text = Append(@, s[t])])
    ELSE IF st[Stream(s[t])] # <<>> THEN Fail(st, "already redirected")
    ELSE IntoFile(s, GetNextParameterEsD(s, Sign(s, t) + (IF Appends(s, t) THEN 2 ELSE 1), FileDelims), block, st,
                  Stream(s[t]), IF Appends(s, t) THEN "append" ELSE "truncate")
OutputAt(s, start, t, block, st) ==
    IF t = Null THEN [st EXCEPT !.text = @ \o From(s, start)]
    ELSE IF block # Null /\ t >= block THEN BehindStream(s, start, GetNextBlockEnd(s, block), st)
    ELSE StreamAt(s, t, Both(s, t), block, [st EXCEPT !.text = @ \o SubSeq(s, start, t - 1)])
Output(s, start, search, block, st) == OutputAt(s, start, SearchToken_OutQuotes(s, search, {"1", "2", "<", ">"}), block, st)
ParseOutput(s) == Output(s, 1, 1, GetNextBlockBegin(s, 1), NoStream)

-----------------------------------------------------------------------------
(* A node as a person writes it: an operator, and pieces with a blank in front of each. *)
PieceText(p) ==
    CASE p.kind = "word"   -> p.text
      [] p.kind = "quoted" -> <<Quote>> \o p.text \o <<Quote>>
      [] p.kind = "escape" -> <<"^">> \o p.text
      [] p.kind = "block"  -> <<"(">> \o p.text \o <<")">>
      [] p.kind = "file"   -> p.fd \o (IF p.append THEN <<">", ">">> ELSE <<">">>) \o p.text
      [] p.kind = "input"  -> <<"<">> \o p.text
      [] p.kind = "both"   -> p.text
Piece(p) == <<" ">> \o PieceText(p)
RECURSIVE Pieces(_, _)
Pieces(ps, all) == IF ps = <<>> THEN <<>>
                   ELSE (IF all \/ ps[1].kind \in {"word", "quoted", "escape", "block"} THEN Piece(ps[1]) ELSE <<" ">>) \o Pieces(Tail(ps), all)
RECURSIVE Spelled(_)
Spelled(ns) == IF ns = <<>> THEN <<>>
               ELSE Pieces(ns[1].pieces, TRUE) \o (IF Len(ns) = 1 THEN <<>> ELSE ns[2].op) \o Spelled(Tail(ns))
Of(n, kind, fds) == {i \in DOMAIN n.pieces : n.pieces[i].kind = kind /\ n.pieces[i].fd \in fds}
Twice(n) == \E S \in {Of(n, "file", {<<>>, <<"1">>}), Of(n, "file", {<<"2">>}), Of(n, "input", {<<>>}), Of(n, "both", {<<>>})} : Cardinality(S) > 1
Field(n, S, f(_), none) == IF S = {} THEN none ELSE f(n.pieces[CHOOSE i \in S : TRUE])
Means(n) ==
    LET File(p) == p.text
        Mode(p) == IF p.append THEN "append" ELSE "truncate"
        Some(p) == "FERROR"
        out == Of(n, "file", {<<>>, <<"1">>})
        err == Of(n, "file", {<<"2">>})
    IN  [text |-> Pieces(n.pieces, FALSE), status |-> "ok", in |-> Field(n, Of(n, "input", {<<>>}), File, <<>>),
         out |-> Field(n, out, File, <<>>), outMode |-> Field(n, out, Mode, ""),
         err |-> Field(n, err, File, <<>>), errMode |-> Field(n, err, Mode, ""),
         redir |-> Field(n, Of(n, "both", {<<>>}), Some, "")]

RECURSIVE Joined(_)
Joined(words) == IF words = <<>> THEN <<>> ELSE <<" ", Quote>> \o words[1] \o <<Quote>> \o Joined(Tail(words))

Init == /\ parsed = <<>>
        /\ \/ phase = "line" /\ nodes \in Written /\ text = Spelled(nodes)
           \/ phase = "line" /\ nodes = <<>> /\ text \in Loose
           \/ phase = "words" /\ nodes \in WordLists /\ text = Joined(nodes)

Streams(ops) == IF ops = Malformed THEN <<>> ELSE [i \in DOMAIN ops |-> [op |-> ops[i].op, stream |-> ParseOutput(ops[i].text)]]
Accepted(nodesOf) == IF \E i \in DOMAIN nodesOf : nodesOf[i].stream.status # "ok" THEN <<>> ELSE nodesOf
ParseLine == /\ phase = "line"
             /\ parsed' = Accepted(Streams(ParseOperators(text)))
             /\ phase' = "done"
             /\ UNCHANGED <<nodes, text>>
Parameters == /\ phase = "words"
              /\ parsed' = GetParamList(text, 1)
              /\ phase' = "list"
              /\ UNCHANGED <<nodes, text>>
Next == ParseLine \/ Parameters
Spec == Init /\ [][Next]_vars

-----------------------------------------------------------------------------
(* The nodes of a line are the ones it was written from, with their operators and their streams: what is
   quoted, escaped or in a block belongs to its command. A stream that is redirected twice refuses the line.
   One thing that is written is lost: a node with 2>&1 or 1>&2 says only that one of them was there (pBat_Parse.h:49,
   though the manual, spec/red.tea:94, tells them apart), so both lines have to give the same node here. *)
ParsesWhatIsWritten ==
    phase = "done" /\ nodes # <<>> =>
        parsed = IF \E i \in DOMAIN nodes : Twice(nodes[i]) THEN <<>>
                 ELSE [i \in DOMAIN nodes |-> [op |-> nodes[i].op, stream |-> Means(nodes[i])]]

(* No text is lost and none is read twice: the nodes of any line, with their operators, are the line. *)
RECURSIVE Together(_)
Together(ops) == IF ops = <<>> THEN <<>>
                 ELSE ops[1].text \o (IF Len(ops) = 1 THEN <<>> ELSE ops[2].op) \o Together(Tail(ops))
IsWhole(ops) == ops = Malformed \/ Together(ops) = text
KeepsTheLine == phase = "done" => IsWhole(ParseOperators(text))

(* Words in quotes are the parameters of their line. *)
WordsComeBack == phase = "list" => parsed = nodes
=============================================================================
