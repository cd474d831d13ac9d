------------------------------- MODULE Globs -------------------------------
(* The search of files of libPBat, and the selection of what was found by its  *)
(* attributes. A name is a sequence of characters, a path a sequence of names, *)
(* a tree a function from the paths there are, its root <<>> left out, to what *)
(* is there.                                                                   *)
EXTENDS Integers, Sequences, FiniteSets

CONSTANTS Order,      \* the order of readdir: every name there may be
          UpperCase   \* toupper, on the lower case characters

Dot == <<".">>
DotDot == <<".", ".">>
Pseudo == {Dot, DotDot}
Jokers == {"*", "?"}
From(s, i) == SubSeq(s, i, Len(s))
Upto(s, i) == SubSeq(s, 1, i)
RECURSIVE Concat(_)
Concat(ss) == IF ss = <<>> THEN <<>> ELSE Head(ss) \o Concat(Tail(ss))

(* What the system makes of a path *)
Nowhere == << <<"/">> >>
Resolve(tree, path) ==
    LET at[k \in 0..Len(path)] ==
            IF k = 0 THEN <<>>
            ELSE LET d == at[k - 1] IN
                 CASE d = Nowhere \/ (d # <<>> /\ ~tree[d].dir) -> Nowhere
                   [] path[k] = Dot    -> d
                   [] path[k] = DotDot -> IF d = <<>> THEN d ELSE Upto(d, Len(d) - 1)
                   [] OTHER -> IF Append(d, path[k]) \in DOMAIN tree THEN Append(d, path[k]) ELSE Nowhere
    IN  at[Len(path)]
DirExists(tree, path) == LET p == Resolve(tree, path) IN p = <<>> \/ (p # Nowhere /\ tree[p].dir)
FileExists(tree, path) == LET p == Resolve(tree, path) IN p \notin {<<>>, Nowhere} /\ ~tree[p].dir
Exists(tree, path) == Resolve(tree, path) # Nowhere
Entries(tree, path) ==
    LET d == Resolve(tree, path)
    IN  <<Dot, DotDot>> \o SelectSeq(Order, LAMBDA n : Append(d, n) \in DOMAIN tree)

-----------------------------------------------------------------------------
(* Names and patterns *)
Upper(c) == IF c \in DOMAIN UpperCase THEN UpperCase[c] ELSE c
Same(c, d, case) == IF case THEN c = d ELSE Upper(c) = Upper(d)
Agree(s, t, case) == Len(s) = Len(t) /\ \A i \in DOMAIN s : Same(s[i], t[i], case)
Trivial(name) == \A i \in DOMAIN name : name[i] \notin Jokers

\* Where what follows the first occurrence starts, or 0.
SeekStart(match, pattern, case) ==    \* stays in front of it
    LET at == {i \in 1..(Len(match) - Len(pattern) + 1) : Agree(SubSeq(match, i, i + Len(pattern) - 1), pattern, case)}
    IN  IF at = {} THEN 0 ELSE CHOOSE i \in at : \A j \in at : i <= j
SeekPattern(match, pattern, case) ==
    LET at == {i \in 1..(Len(match) - Len(pattern) + 1) : Agree(SubSeq(match, i, i + Len(pattern) - 1), pattern, case)}
    IN  IF at = {} THEN 0 ELSE (CHOOSE i \in at : \A j \in at : i <= j) + Len(pattern)
EndWithPattern(match, pattern, case) ==
    Len(match) >= Len(pattern) /\ Agree(From(match, Len(match) - Len(pattern) + 1), pattern, case)

\* The text to the next joker, and behind the jokers in front of it.
Literal(regexp) == LET jokers == {i \in DOMAIN regexp : regexp[i] \in Jokers}
                   IN  IF jokers = {} THEN regexp ELSE Upto(regexp, (CHOOSE i \in jokers : \A j \in jokers : i <= j) - 1)
RECURSIVE WithoutJokers(_)
WithoutJokers(regexp) == IF regexp # <<>> /\ Head(regexp) \in Jokers THEN WithoutJokers(Tail(regexp)) ELSE regexp

\* pBat_RegExpMatch and pBat_RegExpCaseMatch
RECURSIVE RegExpMatch(_, _, _)
RegExpMatch(regexp, match, case) ==
    IF regexp = <<>> \/ match = <<>> THEN regexp = match
    ELSE IF Head(regexp) = "*"
    THEN LET rest == WithoutJokers(regexp)
             text == Literal(rest)
             next == SeekPattern(match, text, case)
         IN  IF rest = <<>> THEN TRUE
             ELSE IF text = rest THEN EndWithPattern(match, rest, case)
             ELSE next # 0 /\ RegExpMatch(From(rest, Len(text) + 1), From(match, next), case)
    ELSE (Head(regexp) = "?" \/ Same(Head(regexp), Head(match), case)) /\ RegExpMatch(Tail(regexp), Tail(match), case)

-----------------------------------------------------------------------------
(* pBat_GetMatch. A flag is "R" (recursive), "N" (no pseudo directories), "D" (the contents of a directory). *)
StaticLevels(up) == LET joker == {i \in DOMAIN up : ~Trivial(up[i])}
                    IN  IF joker = {} THEN Len(up) ELSE (CHOOSE i \in joker : \A j \in joker : i <= j) - 1
AddMatch(found, path, matches) == IF matches THEN Append(found, path) ELSE found
Walks(entry, path, tree, flags) ==      \* a directory of a recursive search
    "R" \in flags /\ entry \notin Pseudo /\ DirExists(tree, path)
RECURSIVE Walk(_, _, _, _)
\* The levels in front of the first joker, or all that is left: nothing is read.
Static(tree, path, rest, flags) ==
    IF rest = <<>> THEN IF Exists(tree, path) THEN <<path>> ELSE <<>>
    ELSE IF DirExists(tree, path) THEN Walk(tree, path, rest, flags) ELSE <<>>
\* One entry of a directory: it is found, searched, or both.
Visit(tree, p, entry, up, flags) ==
    LET matches == RegExpMatch(Head(up), entry, FALSE)
        inside == IF Walks(entry, p, tree, flags) THEN Walk(tree, p, up, flags) ELSE <<>>
    IN  IF entry \in Pseudo /\ "N" \in flags THEN <<>>
        ELSE IF Len(up) = 1 THEN AddMatch(inside, p, matches)
        ELSE IF matches /\ DirExists(tree, p) THEN Walk(tree, p, Tail(up), flags) ELSE <<>>
Browse(tree, base, up, flags) ==
    LET entries == Entries(tree, base)
    IN  IF ~DirExists(tree, base) THEN <<>>
        ELSE Concat([i \in DOMAIN entries |-> Visit(tree, Append(base, entries[i]), entries[i], up, flags)])
Walk(tree, base, up, flags) ==
    LET n == StaticLevels(up)
    IN  IF n > 0 THEN Static(tree, base \o Upto(up, n), From(up, n + 1), flags) ELSE Browse(tree, base, up, flags)
GetMatchFileList(tree, up, flags) ==
    IF flags \cap {"D", "R"} # {} /\ DirExists(tree, up)
    THEN AddMatch(Walk(tree, up, << <<"*">> >>, flags), up, "D" \notin flags)
    ELSE Walk(tree, <<>>, up, flags)

\* pBat_GetStaticLength, in levels: those in front of the last one, and of the first joker.
GetStaticLength(up) == LET n == StaticLevels(up) IN IF n = Len(up) THEN n - 1 ELSE n

-----------------------------------------------------------------------------
(* Attributes: the letters asked for, and those of them with the flag of the negation. *)
All == [asked |-> {}, not |-> {}]
NoDir == [asked |-> {"D"}, not |-> {"D"}]
NoReadOnly == [asked |-> {"R"}, not |-> {"R"}]
Both(a, b) == [asked |-> a.asked \cup b.asked, not |-> a.not \cup b.not]
MakeFileAttributes(token) ==
    LET letters == {i \in DOMAIN token : token[i] \in {"I", "A", "R", "H", "S", "D"}}
        \* the dash holds until a letter comes
        negated == {i \in letters : \E j \in 1..(i - 1) : token[j] = "-" /\ \A k \in letters : k \notin (j + 1)..(i - 1)}
    IN  [asked |-> {token[i] : i \in letters}, not |-> {token[i] : i \in negated}]
Negation(letter) == IF letter \in {"S", "I"} THEN "H" ELSE letter    \* the flag that is tested
Has(node, letter) == CASE letter = "D" -> node.dir
                       [] letter = "R" -> node.ro
                       [] letter = "I" -> ~node.dir /\ node.data = <<>>
                       [] OTHER -> FALSE                              \* PBAT_FILE_ARCHIVE and others are 0
CheckFileAttributes(attr, node) ==
    \A letter \in attr.asked : Has(node, letter) # (Negation(letter) \in attr.not)
NodeAt(tree, path) == LET p == Resolve(tree, path) IN
    IF p \in DOMAIN tree THEN tree[p] ELSE [dir |-> TRUE, ro |-> FALSE, data |-> <<>>]
\* pBat_AttributesSplitFileList
Selected(attr, tree, list) == SelectSeq(list, LAMBDA p : CheckFileAttributes(attr, NodeAt(tree, p)))
Remaining(attr, tree, list) == SelectSeq(list, LAMBDA p : ~CheckFileAttributes(attr, NodeAt(tree, p)))
=============================================================================
