----------------------------- MODULE Completion -----------------------------
(* TAB in a line being typed: the word in front of the cursor is looked for in *)
(* the current directory, and what the names found have in common is inserted. *)
(* When they have nothing more in common they are searched again and listed;   *)
(* another process may change the directory in between.                        *)
EXTENDS Globs

CONSTANTS Typed,      \* lines, each with a place in it
          Present,    \* what may be in the directory at first
          Names, Many, Room, MaxChanges, MaxTabs     \* the names there may be; 20 in the code; buflen; bounds
VARIABLES line, cursor, names, phase,
          found,      \* the names to list
          shown,      \* the names listed last
          last,       \* history: what TAB was pressed on last
          tabs, changes

vars == <<line, cursor, names, phase, found, shown, last, tabs, changes>>
Quote == "Q"
Blanks == {" ", "&"}

\* The word in front of the cursor. Quotes are counted backwards from it, a quote behind it being the first.
GetItem(text, at) ==
    LET closed == at < Len(text) /\ text[at + 1] = Quote
        quotes(k) == (Cardinality({i \in (k + 1)..at : text[i] = Quote}) % 2 = 1) # closed
        ends == {k \in 1..at : text[k] \in Blanks /\ ~quotes(k)}
        start == IF ends = {} THEN 1 ELSE (CHOOSE k \in ends : \A j \in ends : j <= k) + 1
        item == SubSeq(text, start, at)
    IN  IF item # <<>> /\ Head(item) = Quote THEN Tail(item) ELSE item

Tree == [p \in {<<n>> : n \in names} |-> [dir |-> FALSE, ro |-> FALSE, data |-> <<>>]]
Search(item) == LET list == GetMatchFileList(Tree, << item \o <<"*">> >>, {"N"})
                IN  [i \in DOMAIN list |-> list[i][1]]
\* How many characters the names begin with alike.
GetLongestCommonMatch(list) ==
    CHOOSE n \in 0..Len(list[1]) :
        /\ \A i \in DOMAIN list : Len(list[i]) >= n /\ Upto(list[i], n) = Upto(list[1], n)
        /\ n = Len(list[1]) \/ \E i \in DOMAIN list : Len(list[i]) = n \/ list[i][n + 1] # list[1][n + 1]
CompletionHandler(list, item) == SubSeq(list[1], Len(item) + 1, GetLongestCommonMatch(list))

\* memcpy() within the line: a part that is moved over itself may be spoilt.
Moved(rest, by) == {rest} \cup (IF by < Len(rest) THEN {[i \in DOMAIN rest |-> rest[((i - 1) % by) + 1]]} ELSE {})

-----------------------------------------------------------------------------
Init == /\ \E t \in Typed : line = t.line /\ cursor = t.cursor
        /\ names \in Present
        /\ phase = "edit" /\ found = <<>> /\ shown = <<>> /\ tabs = 0 /\ changes = 0
        /\ last = [line |-> <<>>, cursor |-> 0, names |-> {}, item |-> <<>>]

Remember(item) == /\ last' = [line |-> line, cursor |-> cursor, names |-> names, item |-> item]
                  /\ tabs' = tabs + 1 /\ UNCHANGED <<names, found, changes>>
CompleteLine(item, list, text) ==
    /\ Remember(item) /\ shown' = <<>>
    /\ \/ /\ list = <<>> \/ Len(text) > Room - Len(line)
          /\ UNCHANGED <<line, cursor, phase>>
       \/ /\ list # <<>> /\ text = <<>>
          /\ phase' = "list" /\ UNCHANGED <<line, cursor>>
       \/ /\ text # <<>> /\ Len(text) <= Room - Len(line)
          /\ \E rest \in Moved(From(line, cursor + 1), Len(text)) : line' = Upto(line, cursor) \o text \o rest
          /\ cursor' = cursor + Len(text) /\ UNCHANGED phase
Tab == /\ phase = "edit" /\ tabs < MaxTabs
       /\ LET item == GetItem(line, cursor)
              list == Search(item)
          IN  CompleteLine(item, list, IF list = <<>> THEN <<>> ELSE CompletionHandler(list, item))
\* The handler is called again, without a place for what it finds: when there is nothing now, it writes there all the same.
PrintCompletionList ==
    /\ phase = "list"
    /\ LET list == Search(last.item)
       IN  CASE list = <<>> -> phase' = "crashed" /\ UNCHANGED <<found, shown>>
             [] Len(list) > Many -> phase' = "asking" /\ found' = list /\ UNCHANGED shown
             [] OTHER -> phase' = "edit" /\ shown' = list /\ UNCHANGED found
    /\ UNCHANGED <<line, cursor, names, last, tabs, changes>>
Answer(yes) == /\ phase = "asking" /\ phase' = "edit"
               /\ shown' = IF yes THEN found ELSE <<>>
               /\ found' = <<>>
               /\ UNCHANGED <<line, cursor, names, last, tabs, changes>>
Other == /\ phase # "crashed" /\ changes < MaxChanges /\ changes' = changes + 1
         /\ \E n \in Names : names' \in {names \cup {n}, names \ {n}}
         /\ UNCHANGED <<line, cursor, phase, found, shown, last, tabs>>
Next == Tab \/ PrintCompletionList \/ (\E yes \in BOOLEAN : Answer(yes)) \/ Other

-----------------------------------------------------------------------------
(* The word, told without going through it: what follows the last blank, or the quote in front of a word that is
   quoted up to the cursor and just behind it. *)
Plain(text) == \A i \in DOMAIN text : text[i] # Quote
Word(text) == IF \E i \in DOMAIN text : text[i] \in Blanks
              THEN From(text, (CHOOSE i \in DOMAIN text : text[i] \in Blanks /\ \A j \in (i + 1)..Len(text) : text[j] \notin Blanks) + 1)
              ELSE text
Quoted(text, at) == /\ at > 0 /\ at < Len(text) /\ text[at + 1] = Quote /\ text[1] = Quote
                    /\ Plain(SubSeq(text, 2, at))
Candidates == {n \in last.names : Len(n) > Len(last.item) /\ Agree(Upto(n, Len(last.item)), last.item, FALSE)}
Inserted == SubSeq(line, last.cursor + 1, cursor)
Rest(n) == From(n, Len(last.item) + 1)
Begins(s, t) == Len(s) <= Len(t) /\ Upto(t, Len(s)) = s

(* TAB adds to the word what the names that begin with it have in common, and all of it; it loses nothing of the line
   but what is moved over itself, and what it lists begins with the word. *)
CompletesWord ==
    tabs > 0 =>
        /\ Plain(last.line) => last.item = Word(Upto(last.line, last.cursor))
        /\ Quoted(last.line, last.cursor) => last.item = SubSeq(last.line, 2, last.cursor)
        /\ Begins(Upto(last.line, last.cursor), line) /\ Len(line) = Len(last.line) + Len(Inserted) /\ Len(line) <= Room
        /\ Len(last.line) - last.cursor <= Len(Inserted) \/ Inserted = <<>> => From(line, cursor + 1) = From(last.line, last.cursor + 1)
        /\ Trivial(last.item) =>
               /\ Inserted # <<>> => Candidates # {} /\ \A n \in Candidates : Begins(Inserted, Rest(n))
               \* names that spell the word itself in two ways have nothing in common
               /\ \A n \in Candidates : Rest(n) # Inserted /\ Len(line) < Room =>
                      \E m \in Candidates : Upto(m, Len(last.item)) # Upto(n, Len(last.item)) \/ ~Begins(Upto(Rest(n), Len(Inserted) + 1), Rest(m))
                                            \/ Len(line) + Len(Rest(n)) > Room
               /\ \A i \in DOMAIN shown : Agree(Upto(shown[i], Len(last.item)), last.item, FALSE)
               /\ phase = "edit" /\ shown # <<>> /\ changes = 0 => {shown[i] : i \in DOMAIN shown} = Candidates
=============================================================================
