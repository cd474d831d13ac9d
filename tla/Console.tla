------------------------------- MODULE Console -------------------------------
(* How text gets through on Windows: fgets() on a file and on the console,      *)
(* where a line is edited, and fputs(). A character may have several bytes, and *)
(* the end of a buffer or of a piece may be in the middle of it: what is left   *)
(* is kept with the descriptor until the next call.                             *)
EXTENDS Integers, Sequences, SequencesExt

CONSTANTS Needs,          \* the bytes that begin a longer character, and how long it is
          Following,      \* the byte that goes on with one
          NewLine,
          Files, Others,  \* what the first file contains, and those that come after it
          Sizes,          \* the sizes of the buffers for fgets()
          Pieces,         \* what fputs() is given
          Keyboard,       \* the characters typed that are one unit of UTF-16, and their bytes
          Pair,           \* the bytes of the character that High and Low make
          Completions,    \* what TAB may insert
          HistorySize,    \* 50 in the code
          EntrySize,      \* the bytes of an entry of the history
          MaxCalls, MaxKeys, MaxWritten

VARIABLES device, phase,
          source,         \* what the other side gave so far: the file, the lines typed, the pieces
          rest, eof,      \* what is not read of the file
          remain,         \* what the last read had no room for
          remainder,      \* the beginning of a character that was written
          front, buf, orig, pos, \* the line being read: what was left for it, its text and the room for it; the cursor
          history, hid,
          high, again,    \* the first half of a pair was read; what a key that stays down still gives
          got,            \* what came through, call by call
          lines,          \* the lines of the history, by characters
          ideal,          \* the characters in front of the cursor and behind it, and the line of the history they come from
          sure,           \* nothing that the code does not take care of has happened
          calls, keys

readVars == <<front, buf, orig, pos, hid>>
vars == <<device, phase, source, rest, eof, remain, remainder, readVars, history, high, again, got, ideal, lines, sure, calls, keys>>

Upto(s, n) == SubSeq(s, 1, IF n < Len(s) THEN n ELSE Len(s))
From(s, n) == SubSeq(s, n, Len(s))
Need(b) == IF b \in DOMAIN Needs THEN Needs[b] ELSE 1
Wild == <<-1>>             \* an entry whose pointer has been overwritten in part
Cut == << <<-1>> >>        \* a line of which the history has a part only
Empty == [before |-> <<>>, after |-> <<>>, line |-> 0]
Room == orig - Len(buf)

\* The first byte tells how long a character is; the others are looked at when they are all there.
Incomplete(s) == s[1] # Following /\ Len(s) < Need(s[1])
IsCharacter(s) == s[1] # Following /\ Len(s) = Need(s[1]) /\ \A i \in 2..Len(s) : s[i] = Following

Init == /\ device \in {"file", "console", "output"} /\ phase = "idle"
        /\ IF device = "file" THEN source \in Files ELSE source = <<>>
        /\ rest = source /\ eof = FALSE /\ remain = <<>> /\ remainder = <<>>
        /\ front = <<>> /\ buf = <<>> /\ orig = 0 /\ pos = 0 /\ high = FALSE /\ hid = 0
        /\ history = <<>> /\ again = <<>>
        /\ got = <<>> /\ ideal = Empty /\ lines = <<>> /\ sure = TRUE /\ calls = 0 /\ keys = 0

-----------------------------------------------------------------------------
(* fgets(): first what the last call left. *)
ReadBuffered(size) == Upto(remain, size)
Fgets(s) ==
    /\ phase = "idle" /\ device # "output" /\ ~eof /\ calls < MaxCalls /\ calls' = calls + 1
    /\ LET first == ReadBuffered(s - 1) IN
       /\ remain' = From(remain, Len(first) + 1)
       /\ IF Len(first) = s - 1 THEN got' = Append(got, first) /\ UNCHANGED <<phase, front, orig>>
          ELSE phase' = device /\ front' = first /\ orig' = s - 1 - Len(first) /\ UNCHANGED got
    /\ buf' = <<>> /\ pos' = 0 /\ hid' = Len(history) /\ ideal' = [Empty EXCEPT !.line = Len(lines)]
    /\ UNCHANGED <<device, source, rest, eof, remainder, history, high, again, lines, sure, keys>>

\* The end of a call. When nothing more could be read, what was left of the last one is lost.
WriteBuffered(text) == remain' = From(text, orig + 1)
Returns(text) ==
    /\ phase' = "idle" /\ front' = <<>> /\ buf' = <<>> /\ pos' = 0 /\ orig' = 0 /\ hid' = 0
    /\ IF text = <<>> THEN UNCHANGED <<got, remain>>
       ELSE got' = Append(got, front \o Upto(text, orig)) /\ WriteBuffered(text)
Loses(text) == text = <<>> /\ front # <<>>

-----------------------------------------------------------------------------
(* A file is read byte by byte until there are enough for a character; they are skipped when they are none. *)
UnitEnds == {n \in 1..Len(rest) : ~Incomplete(Upto(rest, n))}
ReadFile ==
    /\ phase = "file"
    /\ IF UnitEnds = {} THEN Returns(buf) /\ eof' = TRUE /\ rest' = <<>> /\ sure' = (sure /\ ~Loses(buf))
       ELSE LET n == CHOOSE k \in UnitEnds : \A j \in UnitEnds : k <= j
                unit == Upto(rest, n)
                text == buf \o (IF IsCharacter(unit) THEN unit ELSE <<>>)
            IN  /\ rest' = From(rest, n + 1) /\ UNCHANGED <<eof, sure>>
                /\ IF Len(text) >= orig \/ unit = <<NewLine>> THEN Returns(text)
                   ELSE buf' = text /\ UNCHANGED <<phase, front, orig, pos, hid, got, remain>>
    /\ UNCHANGED <<device, source, remainder, history, high, again, ideal, lines, calls, keys>>

\* fopen() and fseek() forget what was left; a descriptor that _pipe() makes still has what was left for its last file.
Starts(file, left, ok) ==
    /\ device = "file" /\ phase = "idle" /\ calls < MaxCalls /\ calls' = calls + 1
    /\ source' = file /\ rest' = file /\ eof' = FALSE /\ got' = <<>> /\ remain' = left /\ sure' = ok
    /\ UNCHANGED <<device, phase, remainder, readVars, history, high, again, ideal, lines, keys>>
Fopen(file) == Starts(file, <<>>, TRUE)
Fseek == Starts(source, <<>>, TRUE)
OpenPipe(file) == Starts(file, remain, remain = <<>>)

-----------------------------------------------------------------------------
(* fputs(): all that is complete is written, bytes that cannot be one are skipped, a beginning is kept. *)
Convert(s) ==
    LET f[i \in 1..(Len(s) + 1)] ==
            IF i > Len(s) THEN [out |-> <<>>, left |-> <<>>]
            ELSE IF Incomplete(From(s, i)) THEN [out |-> <<>>, left |-> From(s, i)]
            ELSE IF IsCharacter(SubSeq(s, i, i + Need(s[i]) - 1))
            THEN LET next == f[i + Need(s[i])] IN [next EXCEPT !.out = SubSeq(s, i, i + Need(s[i]) - 1) \o @]
            ELSE f[i + 1]
    IN  f[1]
Fputs(piece) ==
    /\ device = "output" /\ Len(source) + Len(piece) <= MaxWritten
    /\ LET c == Convert(remainder \o piece) IN got' = Append(got, c.out) /\ remainder' = c.left
    /\ source' = source \o piece
    /\ UNCHANGED <<device, phase, rest, eof, remain, readVars, history, high, again, ideal, lines, sure, calls, keys>>
\* A flush forgets the beginning of a character.
Fflush ==
    /\ device = "output" /\ calls < MaxCalls /\ calls' = calls + 1
    /\ remainder' = <<>> /\ sure' = (sure /\ remainder = <<>>)
    /\ UNCHANGED <<device, phase, source, rest, eof, remain, readVars, history, high, again, got, ideal, lines, keys>>

-----------------------------------------------------------------------------
(* The console. *)
\* memmove() is given a number of bytes instead of entries: few entries move, and half of one more.
Shifted(h) ==
    LET whole == (HistorySize - 1) \div EntrySize
        half == (HistorySize - 1) % EntrySize # 0
    IN  [i \in DOMAIN h |-> IF i <= whole THEN h[i + 1] ELSE IF i = whole + 1 /\ half THEN Wild ELSE h[i]]
WithoutEnd(line) == IF line # <<>> /\ Last(line) = NewLine THEN Front(line) ELSE line
HistoryAdded(line) == IF Len(history) < HistorySize THEN Append(history, WithoutEnd(line))
                      ELSE [Shifted(history) EXCEPT ![HistorySize] = WithoutEnd(line)]

Characters == ideal.before \o ideal.after
\* The line is over, with text, which may be longer than the room for it; typed is what the user made of it.
EndsLine(text, typed, ok) ==
    /\ IF Len(history) = HistorySize /\ history[1] = Wild
       THEN phase' = "undefined" /\ UNCHANGED <<readVars, got, remain, history, lines>>
       ELSE Returns(text) /\ history' = HistoryAdded(Upto(text, orig))
            /\ lines' = Append(lines, IF Len(text) > orig THEN Cut ELSE SelectSeq(typed, LAMBDA c : c # <<NewLine>>))
    /\ source' = source \o FlattenSeq(typed) /\ sure' = (sure /\ ok /\ ~Loses(text)) /\ ideal' = Empty
\* The line becomes text, with the cursor at p; a line that fills its buffer is over.
Becomes(text, p, i, ok) ==
    IF Len(text) >= orig THEN EndsLine(text, i.before \o i.after, ok)
    ELSE /\ buf' = text /\ pos' = p /\ ideal' = i /\ sure' = (sure /\ ok)
         /\ UNCHANGED <<phase, front, orig, hid, got, remain, history, lines, source>>
Ignored == UNCHANGED <<phase, readVars, got, remain, history, ideal, lines, source, sure>>
Undefined == phase' = "undefined" /\ UNCHANGED <<readVars, got, remain, history, ideal, lines, source, sure>>
\* A failed conversion ends the call with nothing.
Fails == Returns(<<>>) /\ sure' = (sure /\ front = <<>>) /\ ideal' = Empty /\ UNCHANGED <<history, lines, source>>

PreviousCharacter == CHOOSE p \in 0..pos : /\ p < pos \/ pos = 0
                                           /\ p = 0 \/ buf[p + 1] # Following
                                           /\ \A q \in (p + 1)..(pos - 1) : buf[q + 1] = Following
NextCharacter == CHOOSE p \in pos..Len(buf) : /\ p > pos \/ pos = Len(buf)
                                              /\ p = Len(buf) \/ buf[p + 1] # Following
                                              /\ \A q \in (pos + 1)..(p - 1) : buf[q + 1] = Following
Back == [ideal EXCEPT !.before = Front(@), !.after = <<Last(ideal.before)>> \o @]
Forth == [ideal EXCEPT !.before = Append(@, Head(ideal.after)), !.after = Tail(@)]

\* Left and right move by a byte.
Left == IF pos = 0 THEN Ignored
        ELSE Becomes(buf, pos - 1, IF ideal.before = <<>> THEN ideal ELSE Back, IsCharacter(<<buf[pos]>>))
Right == IF pos = Len(buf) THEN Ignored
         ELSE Becomes(buf, pos + 1, IF ideal.after = <<>> THEN ideal ELSE Forth, IsCharacter(<<buf[pos + 1]>>))
Delete == IF pos = Len(buf) THEN Ignored
          ELSE Becomes(Upto(buf, pos) \o From(buf, NextCharacter + 1), pos,
                       [ideal EXCEPT !.after = IF @ = <<>> THEN @ ELSE Tail(@)], TRUE)
Rubout == IF pos = 0 THEN Ignored
          ELSE Becomes(Upto(buf, PreviousCharacter) \o From(buf, pos + 1), PreviousCharacter,
                       [ideal EXCEPT !.before = IF @ = <<>> THEN @ ELSE Front(@)], TRUE)
Home == Becomes(buf, 0, [ideal EXCEPT !.before = <<>>, !.after = Characters], TRUE)
End == Becomes(buf, Len(buf), [ideal EXCEPT !.before = Characters, !.after = <<>>], TRUE)
Escape == Becomes(<<>>, 0, [ideal EXCEPT !.before = <<>>, !.after = <<>>], TRUE)
\* The history is seen from its line h on; the user expects to see line n. Down, when there is none, looks in front of it.
Recall(h, n) ==
    IF h < 0 \/ (h < Len(history) /\ history[h + 1] = Wild) THEN Undefined
    ELSE LET there == h < Len(history) /\ Len(history[h + 1]) <= orig
             entry == history[h + 1]
             ok == Len(lines) <= HistorySize /\ lines[n + 1] # Cut
             i == [before |-> lines[n + 1], after |-> <<>>, line |-> n]
         IN  IF there /\ Len(entry) = orig THEN EndsLine(entry, i.before, ok)
             ELSE /\ hid' = h /\ UNCHANGED <<phase, front, orig, got, remain, history, lines, source>>
                  /\ IF there THEN buf' = entry /\ pos' = Len(entry) /\ ideal' = i /\ sure' = (sure /\ ok)
                     ELSE ideal' = [ideal EXCEPT !.line = n] /\ UNCHANGED <<buf, pos, sure>>
Up == Recall(IF hid > 0 THEN hid - 1 ELSE hid, IF ideal.line > 0 THEN ideal.line - 1 ELSE 0)
Down == Recall(IF hid < Len(history) - 1 THEN hid + 1 ELSE Len(history) - 1, IF ideal.line + 1 < Len(lines) THEN ideal.line + 1 ELSE Len(lines) - 1)

\* A character, at the cursor. The line is shown again: the cursor must not be behind the text that there is room for.
Put(char) ==
    IF pos + Len(char) > orig THEN Undefined
    ELSE Becomes(Upto(buf, pos) \o char \o From(buf, pos + 1), pos + Len(char), [ideal EXCEPT !.before = Append(@, char)], TRUE)
Enter == EndsLine(Append(buf, NewLine), Append(Characters, <<NewLine>>), TRUE)
ControlZ == EndsLine(buf, Characters, TRUE)
\* What TAB inserts moves the rest of the line over itself when it is shorter: memcpy() may spoil it.
Spoilt(r, n) == [i \in DOMAIN r |-> r[((i - 1) % n) + 1]]
Tab(completion) ==
    LET r == From(buf, pos + 1)
        i == [ideal EXCEPT !.before = @ \o [k \in DOMAIN completion |-> <<completion[k]>>]]
        n == Len(completion)
    IN  IF n > Room \/ n = 0 THEN Ignored
        ELSE \/ Becomes(Upto(buf, pos) \o completion \o r, pos + n, i, TRUE)
             \/ n < Len(r) /\ Becomes(Upto(buf, pos) \o completion \o Spoilt(r, n), pos + n, i, FALSE)

\* What ReadConsoleInput gives: keys without a character, units of UTF-16. A unit that looks like the second half of
\* a pair is skipped in front of a character, and must follow one that looks like the first half.
Virtual == {"LEFT", "RIGHT", "DELETE", "UP", "DOWN", "END", "HOME"}
LooksLow == {"low", "looks low"}
VirtualKey(k) == CASE k = "LEFT" -> Left [] k = "RIGHT" -> Right [] k = "DELETE" -> Delete [] k = "UP" -> Up
                   [] k = "DOWN" -> Down [] k = "END" -> End [] k = "HOME" -> Home
Character(k) == CASE k = "ENTER" -> Enter [] k = "CTRL-Z" -> ControlZ [] k = "ESC" -> Escape [] k = "DEL" -> Rubout
                  [] k = "TAB" -> (\E c \in Completions : Tab(c))
                  [] OTHER -> Put(Keyboard[k])
Single == {"ENTER", "CTRL-Z", "ESC", "DEL", "TAB"} \cup DOMAIN Keyboard
GetConsoleInput(k) ==
    CASE k \in Virtual -> IF high THEN Ignored ELSE VirtualKey(k)
      [] k = "high" -> Ignored
      [] k \in LooksLow /\ ~high -> Ignored
      [] k = "low" /\ high -> Put(Pair)
      [] k = "looks low" /\ high -> Fails
      [] OTHER -> Character(k)
\* The first half of a pair is kept while the keys in between are ignored, and dropped otherwise.
HalfRead(k) == high' = (k = "high" \/ (high /\ k \in Virtual))
KeyVars == <<device, rest, eof, remainder, calls>>
Press(k, times) ==
    /\ phase = "console" /\ again = <<>> /\ keys < MaxKeys /\ keys' = keys + 1
    /\ again' = [i \in 1..(IF k \in Virtual THEN 0 ELSE times - 1) |-> k]
    /\ GetConsoleInput(k) /\ HalfRead(k) /\ UNCHANGED KeyVars
Repeat ==
    /\ phase = "console" /\ again # <<>> /\ again' = Tail(again)
    /\ GetConsoleInput(Head(again)) /\ HalfRead(Head(again)) /\ UNCHANGED <<KeyVars, keys>>

Next == \/ \E s \in Sizes : Fgets(s)
        \/ ReadFile
        \/ (\E f \in Others : Fopen(f) \/ OpenPipe(f)) \/ Fseek
        \/ (\E p \in Pieces : Fputs(p)) \/ Fflush
        \/ \E k \in Virtual \cup LooksLow \cup {"high"} \cup Single, times \in {1, 2} : Press(k, times)
        \/ Repeat

-----------------------------------------------------------------------------
(* Text is well formed when each byte that begins a character has as many behind it as it needs. *)
WellFormed(s) == \A i \in DOMAIN s :
    IF s[i] = Following THEN \E j \in 1..(i - 1) : i < j + Need(s[j]) /\ j + Need(s[j]) - 1 <= Len(s) /\ IsCharacter(SubSeq(s, j, j + Need(s[j]) - 1))
    ELSE i + Need(s[i]) - 1 <= Len(s) /\ IsCharacter(SubSeq(s, i, i + Need(s[i]) - 1))
Starting(s) == \E t \in {<<>>, <<Following>>, <<Following, Following>>, <<Following, Following, Following>>} : WellFormed(s \o t)
Came == FlattenSeq(got)

(* What came through, with what waits, is what was given, whatever the pieces, unless: the end of the input came right
   after a split character, a pipe got a descriptor with something left, a beginning was flushed. The line that is
   edited is the one the user sees, with the cursor between the same characters, unless an arrow key went into a
   character or memcpy() spoilt the rest; the history is what was typed, until it is full. fgets() gives a line at a
   time, and half of a bad character never comes out. *)
EditsWhatIsSeen == device = "console" /\ phase = "console" /\ sure =>
                        /\ buf = FlattenSeq(Characters) /\ pos = Len(FlattenSeq(ideal.before))
HistoryIsTyped == phase # "undefined" /\ sure =>
    /\ lines # <<>> /\ Last(lines) # Cut => Last(history) = FlattenSeq(Last(lines))
    /\ Len(lines) <= HistorySize => \A i \in DOMAIN lines : lines[i] # Cut => history[i] = FlattenSeq(lines[i])
GetsThrough == sure =>
    CASE device = "file" -> WellFormed(source) => Came \o front \o buf \o remain \o rest = source
      [] device = "console" -> phase = "idle" => Came \o remain = source
      [] device = "output" -> Starting(source) => Came \o remainder = source
OneLine == \A k \in DOMAIN got : device # "output" => \A i \in 1..(Len(got[k]) - 1) : got[k][i] # NewLine
\* fputs() skips what is no character, and nothing else.
OtherTextKept == device = "output" /\ sure => LET Ascii(s) == SelectSeq(s, LAMBDA b : b # Following /\ b \notin DOMAIN Needs)
                                              IN  Ascii(Came \o remainder) = Ascii(source)
NoHalves == /\ device = "file" /\ sure => Starting(Came \o front \o buf \o remain)
            /\ device = "output" => WellFormed(Came)
InTheBuffer == pos \in 0..Len(buf) /\ (phase \in {"file", "console"} => Len(buf) < orig) /\ Len(remain) <= 8 /\ Len(remainder) <= 4
KeepsText == EditsWhatIsSeen /\ HistoryIsTyped /\ GetsThrough /\ OtherTextKept /\ OneLine /\ NoHalves /\ InTheBuffer
=============================================================================
