------------------------------ MODULE MCOutside ------------------------------
(* What the interpreter does to the world outside: its commands search and     *)
(* change files and show what is in them, it runs programs, TAB looks for names *)
(* while a line is typed, and text is read and written on Windows. A behaviour *)
(* is a behaviour of one of these.                                             *)
EXTENDS RunFile, TLC

CONSTANTS Parts
VARIABLES part,
          tree, call, todo, flags, listed, status, phase, first, agreed, refused, disturbed,
          job, left, several, out, total, verdict, step, gone, screen,
          typed, cursor, present, mode, found, shown, last, tabs, changes,
          device, ready, source, rest, eof, remain, remainder, front, buf, orig, pos, hid,
          history, high, again, got, lines, ideal, sure, calls, keys

Texts(S, k) == UNION {[1..n -> S] : n \in 0..k}

-----------------------------------------------------------------------------
(* Files: in / there are a, b, an empty file v, a read-only file r and a locked directory l, and d with two
   levels; f is on another device. A directory for patterns has all names of up to three letters. *)
N(c) == <<c>>
File(ro, data) == [dir |-> FALSE, ro |-> ro, data |-> data]
Directory == [dir |-> TRUE, ro |-> FALSE, data |-> <<>>]
A == <<"a">>
B == <<"b">>
AB == <<"a", "b">>
DirName == <<"d">>
E == <<"e">>
LockedDir == <<"l">>
FarDir == <<"f">>
Empty == <<"x">>
ReadOnly == <<"r">>
Void == <<"v">>
New == <<"n">>
MCTree == (<<A>> :> File(FALSE, <<1, 2>>)) @@ (<<B>> :> File(FALSE, <<3>>)) @@ (<<ReadOnly>> :> File(TRUE, <<4>>)) @@ (<<Void>> :> File(FALSE, <<>>))
    @@ (<<DirName>> :> Directory) @@ (<<DirName, A>> :> File(FALSE, <<5>>)) @@ (<<DirName, E>> :> Directory)
    @@ (<<DirName, E, B>> :> File(FALSE, <<6>>)) @@ (<<DirName, E, AB>> :> File(TRUE, <<7, 8>>)) @@ (<<Empty>> :> Directory)
    @@ (<<LockedDir>> :> Directory) @@ (<<LockedDir, A>> :> File(FALSE, <<8>>)) @@ (<<FarDir>> :> Directory) @@ (<<FarDir, B>> :> File(FALSE, <<9>>))
Letters == (Texts({"a", "b"}, 3) \ {<<>>}) \cup {<<"A">>, <<"A", "b">>}
Flat == [p \in {<<n>> : n \in Letters} |-> File(FALSE, <<>>)]
MCOrder == << E, B, AB, A, DirName, ReadOnly, LockedDir, FarDir, Empty, Void, New, <<"A">>, <<"A", "b">>, <<"a", "a">>, <<"b", "a">>, <<"b", "b">>,
              <<"a", "b", "a">>, <<"a", "a", "a">>, <<"a", "a", "b">>, <<"a", "b", "b">>, <<"b", "a", "a">>, <<"b", "b", "a">>, <<"b", "b", "b">>, <<"b", "a", "b">> >>
All == [asked |-> {}, not |-> {}]
C(op, names, dest, switches) == [op |-> op, names |-> names, dest |-> dest, switches |-> switches, attr |-> All]
Star == <<"*">>
StarA == <<"*", "a">>
StarB == <<"*", "b">>
AStar == <<"a", "*">>
Ask == <<"?">>
Patterns == {<<p>> : p \in Texts({"a", "B", "*", "?"}, 3) \ {<<>>}} \cup {<<p>> : p \in {<<"*", "a", "*", "b">>, <<"*", "b", "?", "a">>, <<"*", "?", "a", "*">>}}
DirPlaces == {<<Star>>, <<StarB>>, <<DirName>>, <<DirName, StarB>>, <<Star, Ask>>, <<Star, E, Star>>, <<Star, Star>>, <<Ask, E>>, <<New>>, <<A>>}
Dirs == {C("dir", <<up>>, <<>>, s) : up \in DirPlaces, s \in SUBSET {"B", "S"}}
Copies == {C(op, names, dest, s) : op \in {"copy", "move"}, dest \in {<<New>>, <<B>>, <<DirName>>, <<DirName, New>>, <<LockedDir>>},
                names \in {<< <<A>> >>, << <<A>>, <<Void>> >>, << <<Ask>> >>, << <<DirName, E, StarB>> >>, << <<FarDir, B>> >>}, s \in {{}, {"-Y"}}}
    \cup {C("copy", << <<A>>, <<B>> >>, dest, {"+"}) : dest \in {<<New>>, <<B>>}}
    \cup {C(op, <<up>>, dest, {"R"}) : op \in {"copy", "move"}, up \in {<<DirName>>, <<DirName, StarB>>, <<DirName, E>>, <<LockedDir>>}, dest \in {<<New>>, <<Empty>>}}
    \cup {C("copy", << <<New>> >>, <<Empty>>, {"R"}), C("copy", << <<A>> >>, <<New>>, {"R", "+"}), C("move", << <<A>> >>, <<New>>, {"+"}), C("copy", << <<New>> >>, <<Empty>>, {})}
Removals == {C("del", names, <<>>, s) : names \in {<< <<A>> >>, << <<DirName>> >>, << <<DirName>>, <<Void>> >>, << <<Ask>> >>, << <<LockedDir>> >>, << <<New>> >>,
                                                  << <<DirName, StarB>> >>, << <<DirName, E>> >>}, s \in SUBSET {"S", "F", "Q"}}
    \cup {[C("del", << <<Ask>> >>, <<>>, {"Q"}) EXCEPT !.attr = [asked |-> {"I"}, not |-> {}]], [C("del", << <<DirName>> >>, <<>>, {"S"}) EXCEPT !.attr = [asked |-> {"R"}, not |-> {}]]}
    \cup {C("rd", names, <<>>, s) : names \in {<< <<DirName>> >>, << <<Empty>> >>, << <<A>> >>, << <<Empty>>, <<DirName, E>> >>, << <<New>>, <<Empty>> >>}, s \in SUBSET {"S", "Q"}}
Makes == {C("md", names, <<>>, {}) : names \in {<< <<New>> >>, << <<New, A, B>>, <<Empty, New>> >>, << <<A, New>>, <<New>> >>, << <<LockedDir, New>> >>, << <<Empty>> >>}}
    \cup {C("ren", << name >>, << to >>, s) : name \in {<<A>>, <<DirName>>, <<LockedDir, A>>, <<DirName, E>>}, to \in {New, B, Empty}, s \in {{}, {"slash"}}}
\* A character for a name of the tree in a directory.
F == INSTANCE FileCommands WITH Order <- MCOrder, UpperCase <- ("a" :> "A") @@ ("b" :> "B"), Starts <- {[tree |-> MCTree, call |-> c] : c \in Dirs \cup Copies \cup Removals \cup Makes}
                \cup {[tree |-> Flat, call |-> C("dir", <<up>>, <<>>, {"B"})] : up \in Patterns},
        Locked <- {<<LockedDir>>}, Far <- {<<FarDir>>}, Unreadable <- {<<FarDir, B>>}

fileVars == <<tree, call, todo, flags, listed, status, phase, first, agreed, refused, disturbed>>

-----------------------------------------------------------------------------
(* Filters, on lines of four columns and pages of two lines *)
MCContents == ("p" :> <<"a", "b", " ", "b", "N", " ", "a", "N", "a", "b">>) @@ ("q" :> <<"N", "N", "a", "N", "N", "N", "N", "b", "N">>)
    @@ ("r" :> <<"a", "a", "a", "a", "a", "b", "N", "N", "b", "N">>) @@ ("s" :> <<"a", "T", "a", "b", "T", "+", "b", "E", "N">>)
    @@ ("t" :> <<"a", "a", "b", "b", "N", "N", "b">>)
FileNames == DOMAIN MCContents
Job(op, switches, lists) == [op |-> op, switches |-> switches, what |-> <<>>, lists |-> lists, input |-> MCContents["p"], mode |-> {}, tab |-> 3,
                             begin |-> 0, tty |-> FALSE, blank |-> FALSE, cr |-> FALSE]
\* "D" is a directory.
Lists == {<<>>, << <<>> >>, << <<"p">> >>, << <<"p", "D", "q">> >>, << <<"p">>, <<"q", "r">> >>, << <<"D">>, <<"q">> >>, << <<"p", "q">>, <<"r">> >>,
          << <<"p">>, <<"q">>, <<"r">> >>, << <<"D">> >>}
Pages == {[Job("more", s, l) EXCEPT !.begin = n, !.tab = tab, !.tty = tty] :
              s \in {{}, {"S"}, {"C"}}, l \in {<<>>, << <<"q", "r">> >>} \cup {<< <<f>> >> : f \in FileNames}, n \in {0, 1, 2}, tab \in {2, 3}, tty \in BOOLEAN}
    \cup {[Job("more", {}, << <<f>> >>) EXCEPT !.blank = b, !.cr = TRUE] : f \in {"q", "r"}, b \in BOOLEAN}
MCJobs == {Job("type", {}, l) : l \in Lists} \cup {[Job("wc", {}, l) EXCEPT !.mode = m] : l \in Lists, m \in {{}, {"bytes"}, {"words", "lines"}, {"chars"}}}
    \cup {[Job("find", s, l) EXCEPT !.what = w] : s \in SUBSET {"C", "N", "V", "I"} \ {{"N", "C"}}, l \in Lists \cup {<< <<"s">> >>}, w \in {<<"b">>, <<"A">>, <<"b", "b">>}}
    \cup {[Job("find", {"E"}, << <<f>> >>) EXCEPT !.what = <<"*", "a", "?">>] : f \in FileNames}
    \cup Pages
    \cup {[Job("xargs", {}, <<>>) EXCEPT !.what = <<"b", " ", "b">>, !.input = i] : i \in Texts({"a", " ", ",", "N"}, 5)}
L == INSTANCE Filters WITH Order <- MCOrder, UpperCase <- ("a" :> "A") @@ ("b" :> "B"), status <- verdict, phase <- step, Contents <- MCContents, Jobs <- MCJobs,
         Width <- 4, Page <- 2, WordEnds <- {" ", "N", "T"}
P == INSTANCE Parse WITH nodes <- left, text <- out, phase <- step, parsed <- left, Written <- {}, Loose <- {}, WordLists <- {}
filterVars == <<job, left, several, out, total, verdict, step, gone, screen>>

-----------------------------------------------------------------------------
(* Programs: k is killed, s is a server that does not end, x cannot be executed; p is in two directories. *)
Program(exec, ends) == [exec |-> exec, ends |-> ends]
MCFiles == (<<"cwd", "p", "">> :> Program(TRUE, 3)) @@ (<<"bin", "p", ".e">> :> Program(TRUE, 1)) @@ (<<"bin", "p", "">> :> Program(TRUE, 2))
    @@ (<<"bin", "s", "">> :> Program(TRUE, -2)) @@ (<<"far", "x", "">> :> Program(FALSE, 4)) @@ (<<"far", "k", ".e">> :> Program(TRUE, -3))
    @@ (<<"far", "b", ".bat">> :> Program(FALSE, 0)) @@ (<<"bin", "pbat", "">> :> Program(TRUE, 0))
Plain(place, name) == [kind |-> "plain", place |-> place, name |-> name, args |-> <<>>]
Started(name, args) == [kind |-> "start", place |-> "", name |-> name, args |-> args]
Orders == {Plain("", n) : n \in {"p", "k", "x", "b", "none"}} \cup {Plain("bin", "p")}
    \cup {Started(n, a) : n \in {"p", "s", "x", "none"}, a \in {<<>>, <<"/B">>, <<"/WAIT">>}}
    \cup {Started("s", <<"/B", "/WAIT">>), Started("", <<>>), Started("", <<"title">>), Started("cd", <<>>), Started("cd", <<"/B">>), Started("p", <<"/D", "/D">>)}
Others == {Plain("", "p"), Plain("", "x"), Started("s", <<>>), Started("s", <<"/B">>), Started("p", <<"/WAIT">>)}
MCAssigned == {<<a, b>> : a \in Orders, b \in Others}
MCPath == <<"bin", "far", "bin">>
MCPathExt == <<".e", ".bat">>
MCStartScripts == {[ok |-> TRUE, set |-> TRUE], [ok |-> FALSE, set |-> TRUE], [ok |-> FALSE, set |-> FALSE]}

-----------------------------------------------------------------------------
(* Completion in a directory with up to five names, one of them with a blank and one spelled with a capital *)
MCNames == {<<"a">>, <<"a", "b">>, <<"a", "b", "b">>, <<"a", " ", "b">>, <<"A", "b", "a">>}
MCTyped == {[line |-> l, cursor |-> c] : l \in Texts({"a", "b", " ", "Q"}, 3), c \in 0..3}
    \cup {[line |-> <<"b", "&", "a", "b", " ", "a">>, cursor |-> c] : c \in 0..6} \cup {[line |-> <<"Q", "a", " ", "b", "Q">>, cursor |-> c] : c \in 0..5}
    \cup {[line |-> <<"*", "b">>, cursor |-> c] : c \in {1, 2}}
I == INSTANCE Completion WITH Order <- << <<"A", "b", "a">>, <<"a", " ", "b">>, <<"a", "b", "b">>, <<"a">>, <<"a", "b">> >>, UpperCase <- ("a" :> "A") @@ ("b" :> "B"),
        Typed <- {t \in MCTyped : t.cursor <= Len(t.line)}, Present <- SUBSET MCNames, Names <- MCNames, Many <- 2, Room <- 7, MaxChanges <- 1, MaxTabs <- 2,
        line <- typed, names <- present, phase <- mode
lineVars == <<typed, cursor, present, mode, found, shown, last, tabs, changes>>

-----------------------------------------------------------------------------
(* Text on Windows: 1 to 4 are ASCII, 10 is the newline, 20 begins a character of two bytes and 22 one of four; files
   of up to four bytes, a line of one byte or four, two entries of history. *)
K == INSTANCE Console WITH phase <- ready, Needs <- (20 :> 2) @@ (22 :> 4), Following <- 30, NewLine <- 10,
        Files <- Texts({1, 20, 30, 10}, 4) \cup {<<22, 30, 30, 30, 20, 30>>, <<1, 1, 20, 30, 10, 1>>, <<1, 1, 22, 30, 30, 30, 1, 10, 20, 30>>, <<22, 30, 30, 1>>},
        Others <- {<<1, 10, 1>>, <<20, 30, 10>>}, Sizes <- {2, 5}, Pieces <- {<<1>>, <<20>>, <<30>>, <<22, 30>>, <<30, 30>>, <<1, 20>>},
        Keyboard <- [a |-> <<1>>, e |-> <<20, 30>>], Pair <- <<22, 30, 30, 30>>, Completions <- {<<>>, <<3>>, <<3, 4>>},
        HistorySize <- 2, EntrySize <- 2, MaxCalls <- 4, MaxKeys <- 4, MaxWritten <- 5
textVars == <<device, ready, source, rest, eof, remain, remainder, front, buf, orig, pos, hid, history, high, again, got, lines, ideal, sure, calls, keys>>

-----------------------------------------------------------------------------
NoText == device = "none" /\ ready = "idle" /\ source = 0 /\ rest = 0 /\ eof = 0 /\ remain = 0 /\ remainder = 0 /\ front = 0 /\ buf = 0 /\ orig = 0
          /\ pos = 0 /\ hid = 0 /\ history = 0 /\ high = 0 /\ again = 0 /\ got = 0 /\ lines = 0 /\ ideal = 0 /\ sure = 0 /\ calls = 0 /\ keys = 0
NoLine == typed = 0 /\ cursor = 0 /\ present = 0 /\ mode = "idle" /\ found = 0 /\ shown = 0 /\ last = 0 /\ tabs = 0 /\ changes = 0
NoJob == job = 0 /\ left = 0 /\ several = 0 /\ out = 0 /\ total = 0 /\ verdict = 0 /\ step = "idle" /\ gone = 0 /\ screen = 0
NoCall == /\ tree = 0 /\ call = 0 /\ todo = 0 /\ flags = 0 /\ listed = 0 /\ status = 0 /\ phase = "idle" /\ first = 0 /\ agreed = 0 /\ refused = 0
          /\ disturbed = 0
\* No program was found.
NoProgram == /\ command = [t \in Threads |-> Plain("", "none")] /\ script \in StartScripts /\ script.ok
             /\ pc = [t \in Threads |-> "done"] /\ result = [t \in Threads |-> Error] /\ info = [t \in Threads |-> NoInfo]
             /\ holders = [t \in Threads |-> {}] /\ child = [t \in Threads |-> "none"] /\ by = [t \in Threads |-> ""]
             /\ told = [t \in Threads |-> FALSE] /\ started = [t \in Threads |-> FALSE]
MCInit ==
    /\ part \in Parts
    /\ IF part = "files" THEN F!Init ELSE NoCall
    /\ IF part = "filters" THEN L!Init ELSE NoJob
    /\ IF part = "programs" THEN Init ELSE NoProgram
    /\ IF part = "line" THEN I!Init ELSE NoLine
    /\ IF part = "console" THEN K!Init ELSE NoText
MCNext == \/ part = "files" /\ F!Next /\ UNCHANGED <<part, filterVars, vars, lineVars, textVars>>
          \/ part = "filters" /\ L!Next /\ UNCHANGED <<part, fileVars, vars, lineVars, textVars>>
          \/ part = "programs" /\ Next /\ UNCHANGED <<part, fileVars, filterVars, lineVars, textVars>>
          \/ part = "line" /\ I!Next /\ UNCHANGED <<part, fileVars, filterVars, vars, textVars>>
          \/ part = "console" /\ K!Next /\ UNCHANGED <<part, fileVars, filterVars, vars, lineVars>>
MCSpec == MCInit /\ [][MCNext]_<<part, fileVars, filterVars, vars, lineVars, textVars>> /\ Fairness

\* What a name means is found, each once, and a word in a line is completed to what the names have in common.
ListsEachOnce == (part = "files" => F!ListsEachOnce) /\ (part = "line" => I!CompletesWord)
OnlyNamed == part = "files" => F!OnlyNamed
SuccessMeansDone == part = "files" => F!SuccessMeansDone

(* The lines of the input are the parameters of the command that XARGS runs, empty lines left out. *)
XargsGivesLines ==
    step = "done" /\ job.op = "xargs" =>
        P!GetParamList(out, 1) = <<(<<"b">>), (<<"b">>)>> \o SelectSeq(L!LinesOf(job.input), LAMBDA line : line # <<>>)
\* Text goes through the filters, and through the console and files of Windows, as what it was.
FiltersKeepText == /\ part = "filters" => L!FiltersKeepText /\ XargsGivesLines
                   /\ part = "console" => K!KeepsText
=============================================================================
