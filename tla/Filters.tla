------------------------------- MODULE Filters -------------------------------
(* TYPE, WC, FIND, MORE and XARGS: what they make of the lists of files their  *)
(* arguments match, or of their input. A text is a sequence of bytes: letters, *)
(* "N" (the end of a line), "T" (a tab), "E" (an escape sequence of a console), *)
(* "+" (a byte that goes on with a character) and the separators.              *)
EXTENDS Globs

CONSTANTS Contents,   \* the text of each file
          Jobs,       \* commands: their switches, the lists of their arguments and their input
          Width,      \* the columns of a line of MORE, 79
          Page,       \* the lines of a page of MORE, 23
          WordEnds    \* the bytes that end a word for WC

VARIABLES job, left, several,        \* what is left of the list, and whether it had more than one file
          out, total, status, phase, gone,
          screen                     \* MORE: [at, blank, cr, skip, toprint, ok, jumped]
vars == <<job, left, several, out, total, status, phase, gone, screen>>

Stdin == "stdin"
Text(f) == IF f = Stdin THEN job.input ELSE Contents[f]
IsFile(f) == f \in DOMAIN Contents
FilesOf(list) == SelectSeq(list, IsFile)
Header(f) == IF several THEN <<"H", f>> ELSE <<>>

-----------------------------------------------------------------------------
(* WC *)
Zero == [lines |-> 0, words |-> 0, bytes |-> 0, chars |-> 0]
CountsFrom(w, b) ==      \* pBat_FileCounts on one byte more; inword tells whether a word has begun
    [n |-> [lines |-> w.n.lines + (IF b = "N" THEN 1 ELSE 0),
            words |-> w.n.words + (IF b \in WordEnds /\ w.inword THEN 1 ELSE 0),
            bytes |-> w.n.bytes + 1,
            chars |-> w.n.chars + (IF b = "+" THEN 0 ELSE 1)],
     inword |-> b \notin WordEnds]
FileCounts(text) ==
    LET upto[i \in 0..Len(text)] == IF i = 0 THEN [n |-> Zero, inword |-> FALSE] ELSE CountsFrom(upto[i - 1], text[i])
    IN  upto[Len(text)].n
LastCounts(a, b) == b                       \* keeps those of the last file
AddCounts(a, b) == [k \in DOMAIN a |-> a[k] + b[k]]
Printed(mode, counts, name) == << [name |-> name, counts |-> [k \in mode |-> counts[k]]] >>

-----------------------------------------------------------------------------
(* FIND *)
LinesOf(text) ==       \* pBat_EsGet to the end, without the ends of the lines
    LET upto[i \in 0..Len(text)] ==
            IF i = 0 THEN [done |-> <<>>, line |-> <<>>]
            ELSE LET p == upto[i - 1] IN
                 IF text[i] = "N" THEN [done |-> Append(p.done, p.line), line |-> <<>>] ELSE [p EXCEPT !.line = Append(@, text[i])]
        end == upto[Len(text)]
    IN  IF end.line = <<>> THEN end.done ELSE Append(end.done, end.line)
Holds(line, what, switches) ==
    what # <<>> /\ IF "E" \in switches THEN RegExpMatch(what, line, "I" \notin switches)
                   ELSE SeekPattern(line, what, "I" \notin switches) # 0
Hits(text) == LET lines == LinesOf(text) IN {i \in DOMAIN lines : Holds(lines[i], job.what, job.switches) # ("V" \in job.switches)}
Item(number, text) == [number |-> number, text |-> text]        \* 0: no number
Title(f) == IF several THEN <<Item(0, <<"H", f>>)>> ELSE <<>>
Shown(text, hits) ==
    LET lines == LinesOf(text)
        upto[i \in 0..Len(lines)] == IF i = 0 THEN <<>> ELSE IF i \notin hits THEN upto[i - 1]
                                     ELSE Append(upto[i - 1], Item(IF "N" \in job.switches THEN i ELSE 0, lines[i]))
    IN  IF "C" \in job.switches THEN <<Item(Cardinality(hits), <<>>)>> ELSE upto[Len(lines)]

-----------------------------------------------------------------------------
(* MORE: one line of the screen, from the byte i of the text and the column col *)
Spaces(n) == [k \in 1..n |-> " "]
RECURSIVE Line(_, _, _, _)
Line(text, i, col, s) ==
    IF col >= Width THEN [s EXCEPT !.at = i, !.text = Append(@, "N"), !.cr = TRUE, !.ok = TRUE]
    ELSE IF i > Len(text) THEN [s EXCEPT !.at = i, !.ok = FALSE]
    ELSE LET c == text[i]
             tab == job.tab - (col % job.tab)
         IN  CASE c = "T" -> IF col + tab <= Width
                             THEN Line(text, i + 1, col + tab, [s EXCEPT !.text = @ \o Spaces(tab), !.blank = FALSE, !.cr = FALSE])
                             ELSE [s EXCEPT !.at = i + 1, !.text = Append(@, "N"), !.blank = FALSE, !.ok = TRUE]
               [] c \in {"E", "+"} -> Line(text, i + 1, col, [s EXCEPT !.text = Append(@, c), !.cr = FALSE])
               [] c = "N" -> IF col = 0 /\ ((s.blank /\ "S" \in job.switches) \/ s.cr) THEN Line(text, i + 1, col, s)
                             ELSE [s EXCEPT !.at = i + 1, !.text = Append(@, "N"), !.blank = (col = 0), !.ok = TRUE]
               [] OTHER -> Line(text, i + 1, col + 1, [s EXCEPT !.text = Append(@, c), !.blank = FALSE, !.cr = FALSE])
\* pBat_MoreWriteLine: a line that is skipped is read and not written.
Skipping(line, was) == [line EXCEPT !.text = IF was.skip > 0 THEN was.text ELSE @, !.skip = IF @ > 0 THEN @ - 1 ELSE 0]
WriteLine(text, s) == Skipping(Line(text, s.at, 0, s), s)
RECURSIVE WriteLines(_, _)
WriteAll(text, s) == IF s.ok THEN WriteLines(text, s) ELSE s
WriteLines(text, s) == WriteAll(text, WriteLine(text, s))

-----------------------------------------------------------------------------
(* XARGS *)
Blanks == {" ", ";", ",", "T"}
Quoted(line) ==
    LET first == {i \in DOMAIN line : line[i] \notin {" ", ";", ",", "T", "@"} /\ \A j \in 1..(i - 1) : line[j] \in {" ", ";", ",", "T", "@"}}
    IN  (\E i \in DOMAIN line : line[i] \in Blanks) /\ ~\E i \in first : line[i] = "Q"
CommandLine(lines) == Concat([i \in DOMAIN lines |-> IF Quoted(lines[i]) THEN <<" ", "Q">> \o lines[i] \o <<"Q">> ELSE <<" ">> \o lines[i]])

-----------------------------------------------------------------------------
(* The lists of the arguments *)
ListOf(lists) ==
    CASE job.op = "type" -> FilesOf(IF Len(lists) = 1 THEN lists[1] ELSE <<Head(lists[1])>> \o lists[Len(lists)])     \* pEnd stays where it is
      [] job.op = "find" -> Concat(lists)                                    \* the negation alone selects nothing
      [] OTHER           -> FilesOf(Concat(lists))
Matched(list) == IF job.op = "wc" THEN FilesOf(list) ELSE list

Init == /\ job \in Jobs
        /\ left = <<>> /\ several = FALSE /\ out = <<>> /\ total = Zero /\ status = "ok" /\ phase = "start" /\ gone = {}
        /\ screen = [at |-> 1, text |-> <<>>, blank |-> job.blank, cr |-> job.cr, skip |-> 0, ok |-> TRUE, toprint |-> 0, jumped |-> FALSE]

Goes(list) == left' = list /\ several' = (Len(list) > 1) /\ phase' = "files" /\ UNCHANGED status
Refused == phase' = "refused" /\ status' = "error" /\ UNCHANGED <<left, several>>
Start == /\ phase = "start" /\ job.op # "xargs"
         /\ IF \E i \in DOMAIN job.lists : Matched(job.lists[i]) = <<>> THEN Refused
            ELSE IF job.lists = <<>> THEN Goes(<<Stdin>>)
            ELSE IF ListOf(job.lists) = <<>> THEN Refused
            ELSE Goes(ListOf(job.lists))
         /\ UNCHANGED <<job, out, total, gone, screen>>
\* The command that is made of the lines of the input runs.
Xargs == /\ phase = "start" /\ job.op = "xargs"
         /\ out' = job.what \o CommandLine(LinesOf(job.input))
         /\ phase' = "done" /\ UNCHANGED <<job, left, several, total, status, gone, screen>>

File(op) == phase = "files" /\ left # <<>> /\ job.op = op
Opens == Head(left) \notin gone
Fails == IF Opens THEN status ELSE "error"
TypeFile == /\ File("type")
            /\ out' = out \o Header(Head(left)) \o (IF Opens THEN Text(Head(left)) ELSE <<>>)
            /\ status' = Fails /\ left' = Tail(left)
            /\ UNCHANGED <<job, several, total, phase, gone, screen>>
\* Without switches the bytes are counted, which for a file needs no reading; nothing is printed of the input then.
Bytes == {"bytes"}
Mode == IF job.mode = {} THEN Bytes ELSE job.mode
WcFile == /\ File("wc")
          /\ LET f == Head(left)
                 counts == FileCounts(Text(f))
                 reads == f = Stdin \/ Mode # Bytes
             IN  /\ out' = IF reads /\ ~Opens THEN out ELSE out \o Printed(IF f = Stdin THEN job.mode ELSE Mode, counts, f)
                 /\ total' = IF reads /\ ~Opens THEN total ELSE AddCounts(total, counts)
                 /\ status' = IF reads THEN Fails ELSE status
          /\ left' = Tail(left) /\ UNCHANGED <<job, several, phase, gone, screen>>
\* A file that is gone is closed without having been opened.
FindFile == /\ File("find")
            /\ IF Opens
               THEN LET text == IF IsFile(Head(left)) \/ Head(left) = Stdin THEN Text(Head(left)) ELSE <<>>      \* nothing of a directory
                    IN  /\ out' = out \o Title(Head(left)) \o Shown(text, Hits(text))
                        /\ status' = IF Hits(text) = {} THEN "error" ELSE status
                        /\ left' = Tail(left) /\ UNCHANGED phase
               ELSE phase' = "crashed" /\ UNCHANGED <<out, status, left>>
            /\ UNCHANGED <<job, several, total, gone, screen>>
\* A file that cannot be opened is closed all the same, as for FIND.
Fresh == [screen EXCEPT !.at = 1, !.text = <<>>, !.skip = job.begin, !.ok = TRUE]
MoreGone == /\ File("more") /\ ~Opens
            /\ phase' = "crashed"
            /\ UNCHANGED <<job, left, several, out, total, status, gone, screen>>
MoreAll == /\ File("more") /\ Opens /\ ~job.tty
           /\ screen' = WriteLines(Text(Head(left)), Fresh)
           /\ out' = out \o screen'.text
           /\ left' = Tail(left) /\ UNCHANGED <<job, several, total, status, phase, gone>>
Finish == /\ phase = "files" /\ left = <<>> /\ phase' = "done"
          /\ out' = IF job.op = "wc" /\ several THEN out \o Printed(Mode, total, "Total") ELSE out
          /\ UNCHANGED <<job, left, several, total, status, gone, screen>>

(* MORE on a terminal. The lines of the first page are not initialised, unless the screen is cleared first. *)
MoreOpen == /\ File("more") /\ Opens /\ job.tty
            /\ phase' = "skip"
            /\ \E n \in {-1, 0, 1, Page} : screen' = [Fresh EXCEPT !.toprint = n]
            /\ UNCHANGED <<job, left, several, out, total, status, gone>>
MoreSkip == /\ phase = "skip"
            /\ LET next == WriteLine(Text(Head(left)), screen)
               IN  IF screen.skip = 0 THEN phase' = "page" /\ UNCHANGED screen
                   ELSE /\ screen' = [next EXCEPT !.ok = TRUE, !.toprint = IF next.ok THEN Page ELSE @]
                        /\ phase' = IF next.ok THEN phase ELSE "page"
            /\ UNCHANGED <<job, left, several, out, total, status, gone>>
\* A page begins.
MorePage == /\ phase = "page"
            /\ screen' = IF "C" \in job.switches THEN [screen EXCEPT !.toprint = Page] ELSE screen
            /\ phase' = "lines" /\ UNCHANGED <<job, left, several, out, total, status, gone>>
MoreLine == /\ phase = "lines" /\ screen.toprint # 0 /\ screen.ok
            /\ screen' = [WriteLine(Text(Head(left)), screen) EXCEPT !.toprint = IF @ > 0 THEN @ - 1 ELSE @]
            /\ UNCHANGED <<job, left, several, out, total, status, phase, gone>>
MoreStops == /\ phase = "lines" /\ (screen.toprint = 0 \/ ~screen.ok)
             /\ phase' = "prompt" /\ UNCHANGED <<job, left, several, out, total, status, gone, screen>>
\* "q" and "f" leave the file, and the next one is shown; after the last line every key does.
MoreKey(key) == /\ phase = "prompt"
                /\ LET ends == key \in {"q", "f"} \/ ~screen.ok
                   IN  /\ phase' = IF ends THEN "files" ELSE "page"
                       /\ left' = IF ends THEN Tail(left) ELSE left
                       /\ out' = IF ends THEN out \o screen.text ELSE out
                       /\ screen' = CASE ends -> screen
                                      [] key = "enter" -> [screen EXCEPT !.toprint = Page]
                                      [] key = "space" -> [screen EXCEPT !.toprint = 1]
                                      [] key = "p2" -> [screen EXCEPT !.toprint = 2]
                                      [] key = "s1" -> [screen EXCEPT !.toprint = Page, !.skip = 1, !.jumped = TRUE]
                /\ UNCHANGED <<job, several, total, status, gone>>

\* Another process removes a file that was found.
Vanish == /\ gone = {} /\ left # <<>> /\ Head(left) # Stdin
          /\ gone' = {Head(left)}
          /\ UNCHANGED <<job, left, several, out, total, status, phase, screen>>

Next == \/ Start \/ Xargs \/ TypeFile \/ WcFile \/ FindFile \/ MoreGone \/ MoreAll \/ Finish \/ Vanish
        \/ MoreOpen \/ MoreSkip \/ MorePage \/ MoreLine \/ MoreStops \/ (\E key \in {"q", "f", "enter", "space", "p2", "s1"} : MoreKey(key))
Spec == Init /\ [][Next]_vars

-----------------------------------------------------------------------------
(* What is shown, told from the texts alone *)
NamedFiles == IF job.lists = <<>> THEN <<Stdin>> ELSE FilesOf(Concat(job.lists))
\* TYPE forgets the lists between the first and the last one, and what is behind the first file of the first.
Catenated == Len(job.lists) <= 1 \/ (Len(job.lists) = 2 /\ Len(job.lists[1]) = 1)
Typed == Concat([i \in DOMAIN NamedFiles |-> (IF Len(NamedFiles) > 1 THEN <<"H", NamedFiles[i]>> ELSE <<>>) \o Text(NamedFiles[i])])

Number(text, S) == Cardinality({i \in DOMAIN text : text[i] \in S})
\* A word that ends the text is not counted.
WordsEnded(text) == Cardinality({i \in DOMAIN text : i > 1 /\ text[i] \in WordEnds /\ text[i - 1] \notin WordEnds})
Counted(texts) == LET all == Concat(texts) IN
    [lines |-> Number(all, {"N"}), bytes |-> Len(all), chars |-> Len(all) - Number(all, {"+"}),
     words |-> LET sum[i \in 0..Len(texts)] == IF i = 0 THEN 0 ELSE sum[i - 1] + WordsEnded(texts[i]) IN sum[Len(texts)]]
TextsOf(names) == [i \in DOMAIN names |-> Text(names[i])]
Row(counts, name) == [name |-> name, counts |-> [k \in Mode |-> counts[k]]]
CountedAll == [i \in DOMAIN NamedFiles |-> Row(Counted(<<Text(NamedFiles[i])>>), NamedFiles[i])]
              \o (IF Len(NamedFiles) > 1 THEN <<Row(Counted(TextsOf(NamedFiles)), "Total")>> ELSE <<>>)

\* MORE: the line ends of a text and of its screen.
IsEnd(text, i) == text[i] = "N"
Letters(text) == SelectSeq(text, LAMBDA c : c \notin {"N", "T", " "})
Columns(text, i, j) == Number(SubSeq(text, i, j), {"a", "b", " "})
NarrowLines(text, n) == \A i, j \in DOMAIN text : Columns(text, i, j) > n => \E k \in i..j : IsEnd(text, k)
\* No line is folded: none is so long, and there are no tabs.
Unfolded(text) == NarrowLines(text, Width - 1) /\ Number(text, {"T"}) = 0
WholeText == Concat(TextsOf(NamedFiles))
Behind(text, n) == IF n > Number(text, {"N"}) THEN <<>>
                   ELSE From(text, (CHOOSE i \in 0..Len(text) : (i = 0 \/ text[i] = "N") /\ Number(Upto(text, i), {"N"}) = n) + 1)
\* /S: one blank line is left of several.
Squeezed(text) == LET blank(i) == IsEnd(text, i) /\ (i > 1 => IsEnd(text, i - 1))
                      keep(i) == ~(blank(i) /\ i > 1 /\ blank(i - 1))
                      upto[i \in 0..Len(text)] == IF i = 0 THEN <<>> ELSE IF keep(i) THEN Append(upto[i - 1], text[i]) ELSE upto[i - 1]
                  IN  upto[Len(text)]
BeginsWith(text, start) == Len(start) <= Len(text) /\ Upto(text, Len(start)) = start
\* A file that is left early gives the beginning of its text; to leave it is what every key but the last may do.
Paged == /\ (\A i \in 1..(Len(NamedFiles) - 1) : Behind(Text(NamedFiles[i]), Number(Text(NamedFiles[i]), {"N"})) = <<>>) => NarrowLines(out, Width)
         /\ (job.begin = 0 /\ ~job.tty) => Letters(out) = Letters(WholeText)
         /\ (Len(NamedFiles) = 1 /\ Unfolded(WholeText) /\ ~job.cr /\ ~job.blank /\ ~screen.jumped) =>
                LET text == Behind(IF "S" \in job.switches THEN Squeezed(WholeText) ELSE WholeText, job.begin)
                IN  IF job.tty THEN BeginsWith(text, out) ELSE out = text

\* FIND
Occurs(what, line) == \E i \in DOMAIN line : \A k \in DOMAIN what : i + k - 1 <= Len(line) /\ (i + k - 1 <= Len(line) => Same(what[k], line[i + k - 1], "I" \notin job.switches))
Wanted(text) == {i \in DOMAIN LinesOf(text) : Occurs(job.what, LinesOf(text)[i]) # ("V" \in job.switches)}
\* What is shown of a text in a file, or of nothing in a directory.
FoundNames == IF job.lists = <<>> THEN <<Stdin>> ELSE Concat(job.lists)
TextOrNone(f) == IF IsFile(f) \/ f = Stdin THEN Text(f) ELSE <<>>
ItemsOf(text) ==
    LET number(i) == IF "N" \in job.switches THEN i ELSE 0
        lines == [i \in DOMAIN LinesOf(text) |-> IF i \in Wanted(text) THEN <<Item(number(i), LinesOf(text)[i])>> ELSE <<>>]
    IN  IF "C" \in job.switches THEN <<Item(Cardinality(Wanted(text)), <<>>)>> ELSE Concat(lines)
FoundAll == Concat([i \in DOMAIN FoundNames |-> (IF Len(FoundNames) > 1 THEN <<Item(0, <<"H", FoundNames[i]>>)>> ELSE <<>>) \o ItemsOf(TextOrNone(FoundNames[i]))])

(* What a filter shows is made of the whole text of everything it was named, in order: nothing is lost, added or
   counted twice, unless it said that it failed. *)
FiltersKeepText ==
    phase = "done" /\ (gone = {} \/ status = "ok") /\ left = <<>> =>
        CASE job.op = "type" -> Catenated => out = Typed
          [] job.op = "wc"   -> job.mode # {} \/ job.lists # <<>> => out = CountedAll
          [] job.op = "find" -> "E" \notin job.switches => out = FoundAll
          [] job.op = "more" -> Paged
          [] OTHER -> TRUE
=============================================================================
