------------------------------- MODULE Texts -------------------------------
(* The searches of libpBat: what an escape `^` and a pair of quotes hide.      *)
(* A text is a sequence of characters, a position is an index of it.           *)
EXTENDS Integers, Sequences, FiniteSets

Null == 0
Quote == "Q"                     \* the character "
LineEnd == "N"
Delims == {" ", ",", LineEnd}    \* pBat_IsDelim
First(S) == IF S = {} THEN Null ELSE CHOOSE i \in S : \A j \in S : i <= j
Final(S) == IF S = {} THEN Null ELSE CHOOSE i \in S : \A j \in S : i >= j
From(s, i) == SubSeq(s, i, Len(s))
Before(s, i) == SubSeq(s, 1, i - 1)

\* An odd number of carets stand in front of it, from where the search starts.
Escaped(s, from, i) ==
    LET others == {k \in from..(i - 1) : s[k] # "^"}
    IN  (i - (IF others = {} THEN from ELSE Final(others) + 1)) % 2 = 1

Found(s, from, chars) == {i \in from..Len(s) : s[i] \in chars /\ ~Escaped(s, from, i)}
SearchToken(s, from, chars) == First(Found(s, from, chars))
SearchLastToken(s, from, chars) == Final(Found(s, from, chars))
SearchChar(s, from, c) == SearchToken(s, from, {c})
SearchLastChar(s, from, c) == SearchLastToken(s, from, {c})

\* What stands behind an odd number of quotes is quoted, to the next quote or to the end.
NotQuoted(s, from, i) == FALSE                              \* forgets them
Quoted(s, from, i) == Cardinality({q \in Found(s, from, {Quote}) : q <= i}) % 2 = 1
SearchToken_OutQuotes(s, from, chars) == First({i \in Found(s, from, chars) : ~Quoted(s, from, i)})
SearchToken_Hybrid(s, from, chars, quotable) ==
    First({SearchToken(s, from, chars), SearchToken_OutQuotes(s, from, quotable)} \ {Null})

\* One caret of each pair, and those in front of another character, go.
UnEscape(s) ==
    LET keeps[i \in 0..Len(s)] == \* whether the characters up to i leave a caret that counts
            IF i = 0 THEN [text |-> <<>>, caret |-> FALSE]
            ELSE LET p == keeps[i - 1]
                 IN  IF s[i] = "^" /\ ~p.caret THEN [p EXCEPT !.caret = TRUE]
                     ELSE [text |-> Append(p.text, s[i]), caret |-> FALSE]
    IN  keeps[Len(s)].text

Skipped(s, from, chars) == IF \A i \in from..Len(s) : s[i] \in chars THEN Len(s) + 1
                           ELSE First({i \in from..Len(s) : s[i] \notin chars})
SkipBlanks(s, from) == Skipped(s, from, Delims)
SkipAllBlanks(s, from) == Skipped(s, from, Delims \cup {"@"})
=============================================================================
