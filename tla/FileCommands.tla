---------------------------- MODULE FileCommands ----------------------------
(* COPY, MOVE, DEL, RD, MD, REN and DIR: each makes a list of what it found,   *)
(* and goes through the list, asking where it has to, while another process    *)
(* may change the tree. A path is a sequence of names from the root, which is the  *)
(* current directory; what a file holds is a sequence of the names of texts.   *)
EXTENDS Globs

CONSTANTS Starts,     \* the commands, each with the tree it starts in
          Locked,     \* directories in which nothing can be made or removed
          Far,        \* directories of another device
          Unreadable  \* files
VARIABLES tree, call,
          todo,       \* what is left to do
          flags,      \* "silence", "second" of COPY; "all" of the choice of DEL and RD
          listed,     \* what DIR shows
          status, phase,
          first, agreed, refused, disturbed     \* history: the tree at the start, the answers, another process or a broken write

vars == <<tree, call, todo, flags, listed, status, phase, first, agreed, refused, disturbed>>
history == <<first, agreed, refused>>
others == <<call, listed, first, agreed, refused, disturbed>>     \* what the work on the list leaves alone

Last(p) == p[Len(p)]
Parent(p) == Upto(p, Len(p) - 1)
Below(d, p) == Len(p) > Len(d) /\ Upto(p, Len(d)) = d
Node(dir, ro, data) == [dir |-> dir, ro |-> ro, data |-> data]
NewDir == Node(TRUE, FALSE, <<>>)
\* Where a path is or would be.
Place(t, p) == LET d == Resolve(t, Parent(p)) IN IF DirExists(t, Parent(p)) THEN Append(d, Last(p)) ELSE Nowhere
Empty(t, d) == \A p \in DOMAIN t : ~Below(d, p)
With(t, p, node) == [q \in DOMAIN t \cup {p} |-> IF q = p THEN node ELSE t[q]]
Without(t, p) == [q \in DOMAIN t \ {p} |-> t[q]]
Outcome(t, ok) == [tree |-> t, ok |-> ok]

-----------------------------------------------------------------------------
(* The calls of the system *)
Remove(t, path) ==     \* remove() and rmdir()
    LET p == Resolve(t, path)
    IN  IF p \notin DOMAIN t \/ Parent(p) \in Locked \/ ~Empty(t, p) THEN Outcome(t, FALSE) ELSE Outcome(Without(t, p), TRUE)
FarOf(p) == {d \in Far : Below(d, p)}
Renamed(t, a, b) ==
    LET kept == {q \in DOMAIN t : q # a /\ ~Below(a, q) /\ q # b}
    IN  [q \in kept \cup {b \o From(r, Len(a) + 1) : r \in {r \in DOMAIN t : r = a \/ Below(a, r)}} |->
            IF q \in kept THEN t[q] ELSE t[a \o From(q, Len(b) + 1)]]
Rename(t, from, to) ==
    LET a == Resolve(t, from)
        b == Place(t, to)
        there == b \in DOMAIN t
    IN  IF a \notin DOMAIN t \/ b = Nowhere THEN Outcome(t, FALSE)
        ELSE IF a = b THEN Outcome(t, TRUE)
        ELSE IF \/ FarOf(a) # FarOf(b) \/ {Parent(a), Parent(b)} \cap Locked # {} \/ Below(a, b)
                \/ there /\ (t[a].dir # t[b].dir \/ ~Empty(t, b))
        THEN Outcome(t, FALSE) ELSE Outcome(Renamed(t, a, b), TRUE)

-----------------------------------------------------------------------------
(* One file or directory of the list *)
RECURSIVE MakeDirsTo(_, _, _)
MakeDirsTo(t, path, k) ==
    LET p == Upto(path, k)
        made == IF Exists(t, p) \/ Place(t, p) = Nowhere \/ Parent(p) \in Locked THEN t ELSE With(t, Place(t, p), NewDir)
    IN  IF k > Len(path) THEN t ELSE MakeDirsTo(made, path, k + 1)
CmdMakeDirs(t, path) == LET made == MakeDirsTo(t, path, 1) IN Outcome(made, DirExists(made, path))

MoveFile(t, from, to) ==
    LET removed == IF FileExists(t, to) THEN Remove(t, to) ELSE Outcome(t, TRUE)
    IN  IF removed.ok THEN Rename(removed.tree, from, to) ELSE removed

\* What open() leaves of the destination, and what there is when so many texts were written.
OpenedAnew(t, from, b, append) == LET node == IF b \in DOMAIN t THEN t[b] ELSE Node(FALSE, t[Resolve(t, from)].ro, <<>>)
                                  IN  With(t, b, [node EXCEPT !.data = <<>>])           \* forgets the second file
Opened(t, from, b, append) == LET node == IF b \in DOMAIN t THEN t[b] ELSE Node(FALSE, t[Resolve(t, from)].ro, <<>>)
                              IN  With(t, b, IF append THEN node ELSE [node EXCEPT !.data = <<>>])
CanOpen(t, b) == b # Nowhere /\ (IF b \in DOMAIN t THEN ~t[b].dir /\ ~t[b].ro ELSE Parent(b) \notin Locked)
CanRead(t, from) == Resolve(t, from) \in DOMAIN t /\ Resolve(t, from) \notin Unreadable
Written(t, from, b, append, n) ==
    LET opened == Opened(t, from, b, append)
        text == opened[Resolve(t, from)].data
    IN  [opened EXCEPT ![b].data = @ \o Upto(text, IF n < Len(text) THEN n ELSE Len(text))]
\* pBat_CopyFile and pBat_CatFile: all is written, or an error comes after some of it.
CopyFile(t, from, to, append) ==
    LET b == Place(t, to)
    IN  IF ~CanRead(t, from) \/ ~CanOpen(t, b) THEN {Outcome(t, FALSE)}
        ELSE IF t[Resolve(t, from)].dir THEN {Outcome(Opened(t, from, b, append), FALSE)}
        ELSE LET all == Len(t[Resolve(t, from)].data)
             IN  {Outcome(Written(t, from, b, append, all), TRUE)} \cup {Outcome(Written(t, from, b, append, n), FALSE) : n \in 0..(all - 1)}
\* A write() that fails behind a short one, of n texts, is added to the count of what is written: the last of
\* them is written again, if the next write() succeeds.
WrittenTwice(t, from, b, append, n) ==
    LET opened == Opened(t, from, b, append)
        text == opened[Resolve(t, from)].data
    IN  [opened EXCEPT ![b].data = @ \o Upto(text, n) \o From(text, n)]
\* A file that is appended to itself is never read to its end.
Endless(task) == /\ task.do = "cat" /\ "second" \in flags /\ CanRead(tree, task.from)
                 /\ Resolve(tree, task.from) = Place(tree, task.to) /\ NodeAt(tree, task.from).data # <<>>

-----------------------------------------------------------------------------
(* The lists *)
Task(do, from, to) == [do |-> do, from |-> from, to |-> to]
Tasks(do, list) == [i \in DOMAIN list |-> Task(do, list[i], list[i])]
Found(c, search) == [i \in DOMAIN c.names |-> GetMatchFileList(tree, c.names[i], search)]
NoMatch(lists) == \E i \in DOMAIN lists : lists[i] = <<>>
HasJoker(c) == \E i \in DOMAIN c.names : \E j \in DOMAIN c.names[i] : ~Trivial(c.names[i][j])

\* CmdCopy counts to 3 from the number of sources.
Counted(sources, files) == IF files <= 1 THEN sources
                           ELSE IF sources = 1 THEN (IF files = 2 THEN 2 ELSE 3) ELSE sources + 1
CopyList(c) ==
    LET list == Selected(Both(c.attr, NoDir), tree, Concat(Found(c, {})))
        intoDir == DirExists(tree, c.dest) \/ "slash" \in c.switches
        three == Counted(Len(c.names), Len(list)) = 3
        cat == "+" \in c.switches \/ (three /\ ~intoDir /\ c.op = "copy")
        multiple == ~cat /\ (intoDir \/ three)
        do == IF c.op = "move" THEN "move" ELSE IF cat THEN "cat" ELSE "copy"
    IN  [i \in DOMAIN list |-> Task(do, list[i], IF multiple THEN Append(c.dest, Last(list[i])) ELSE c.dest)]
\* pBat_CmdCopyRecursive on one source
RelativeTo(c, source, list, do, i) == Task(do, list[i], c.dest \o From(list[i], GetStaticLength(source) + 1))
Shortened(p, d) == LET n == Len(d) + 1                     \* the first character behind the static part is lost
                   IN  IF Len(p[n]) = 1 THEN d \o From(p, n + 1) ELSE [p EXCEPT ![n] = Tail(p[n])]
TreeList(c, source) ==
    LET list == Selected(c.attr, tree, GetMatchFileList(tree, source, {"D", "R", "N"}))
        files == Selected(NoDir, tree, list)
        dirs == Remaining(NoDir, tree, list)
        moved == [i \in DOMAIN dirs |-> RelativeTo(c, source, dirs, "rmdirs", i)]
    IN  [i \in DOMAIN dirs |-> RelativeTo(c, source, dirs, "mkdirs", i)]
        \o [i \in DOMAIN files |-> RelativeTo(c, source, files, IF c.op = "move" THEN "move" ELSE "copy", i)]
        \o IF c.op = "move" THEN [i \in DOMAIN moved |-> [moved[i] EXCEPT !.from = Shortened(moved[i].to, c.dest)]] ELSE <<>>

DelAttr(c) == IF c.attr # All THEN c.attr
              ELSE Both(IF "F" \in c.switches THEN All ELSE NoReadOnly, IF "S" \in c.switches THEN All ELSE NoDir)
DelList(c) == LET list == Concat(Found(c, {"D", "N"} \cup (IF "S" \in c.switches THEN {"R"} ELSE {})))
              IN  Tasks("del", Selected(NoDir, tree, Selected(DelAttr(c), tree, list)))
RdSearch(c) == {"N"} \cup (IF "S" \in c.switches THEN {"R"} ELSE {})
RdList(c) == LET list == Concat(Found(c, RdSearch(c)))
             IN  Tasks("del", Remaining([asked |-> {"D"}, not |-> {}], tree, list))
                 \o Tasks("rmdir", Selected([asked |-> {"D"}, not |-> {}], tree, list))

-----------------------------------------------------------------------------
Init == /\ \E s \in Starts : tree = s.tree /\ first = s.tree /\ call = s.call
        /\ todo = <<>> /\ flags = {} /\ listed = <<>> /\ status = "ok" /\ phase = "start"
        /\ agreed = {} /\ refused = {} /\ disturbed = FALSE

\* A command whose list is todo, or that is refused.
Begins(list, with) == todo' = list /\ flags' = with /\ phase' = "next" /\ status' = "ok"
Refuses == todo' = <<>> /\ flags' = {} /\ phase' = "done" /\ status' = "error"
Begin == phase = "start" /\ UNCHANGED <<tree, others>>
IsCopy == call.op \in {"copy", "move"}
Silence == IF "-Y" \in call.switches THEN {"silence"} ELSE {}         \* /Y has no effect
CmdCopy == /\ Begin /\ IsCopy /\ "R" \notin call.switches
           /\ IF "+" \in call.switches /\ call.op = "move" THEN Refuses
              ELSE IF NoMatch(Found(call, {})) THEN Refuses
              ELSE Begins(CopyList(call), Silence)
CmdCopyTree == /\ Begin /\ IsCopy /\ "R" \in call.switches
               /\ IF "+" \in call.switches THEN Refuses ELSE Begins(Tasks("list", call.names), Silence)
CmdDel == /\ Begin /\ call.op = "del"
          /\ IF NoMatch(Found(call, {"D", "N"} \cup (IF "S" \in call.switches THEN {"R"} ELSE {}))) THEN Refuses
             ELSE Begins(DelList(call), IF HasJoker(call) /\ "Q" \notin call.switches THEN {} ELSE {"all"})
CmdRmdir == /\ Begin /\ call.op = "rd"
            /\ IF "S" \notin call.switches /\ Len(call.names) = 1 THEN Begins(Tasks("rmdir", call.names), {"all"})
               ELSE IF NoMatch(Found(call, RdSearch(call))) THEN Refuses
               ELSE Begins(RdList(call), IF "Q" \in call.switches THEN {"all"} ELSE {})
CmdMkdir == /\ Begin /\ call.op = "md"
            /\ Begins(Tasks("mkdir", call.names), {})
CmdDir == /\ phase = "start" /\ call.op = "dir"
          /\ LET search == {"D"} \cup (IF "B" \in call.switches THEN {"N"} ELSE {}) \cup (IF "S" \in call.switches THEN {"R"} ELSE {})
             IN  listed' = Selected(call.attr, tree, GetMatchFileList(tree, call.names[1], search))
          /\ phase' = "done" /\ UNCHANGED <<tree, call, todo, flags, status, history, disturbed>>
CmdRen == /\ Begin /\ call.op = "ren"
          /\ IF "slash" \in call.switches THEN Refuses
             ELSE Begins(<<Task("ren", call.names[1], Append(Parent(call.names[1]), Last(call.dest)))>>, {})

-----------------------------------------------------------------------------
Now == Head(todo)
AsksOfPlace == IF Now.do \in {"del", "rmdir"} THEN "all" \notin flags       \* looks for the directory, not for the file in it
               ELSE Now.do \in {"copy", "move", "cat"} /\ FileExists(tree, call.dest) /\ "silence" \notin flags
Asks == IF Now.do \in {"del", "rmdir"} THEN "all" \notin flags
        ELSE Now.do \in {"copy", "move", "cat"} /\ FileExists(tree, Now.to) /\ "silence" \notin flags
Check == /\ phase = "next" /\ todo # <<>>
         /\ phase' = IF Asks THEN "asking" ELSE "go"
         /\ UNCHANGED <<tree, todo, flags, status, others>>

AllFlag == IF Now.do \in {"del", "rmdir"} THEN "all" ELSE "silence"
Yes(all) == /\ phase' = "go" /\ flags' = IF all THEN flags \cup {AllFlag} ELSE flags
            /\ UNCHANGED <<todo, refused>>
No == phase' = "next" /\ todo' = Tail(todo) /\ UNCHANGED <<flags, agreed>>
\* pBat_AskConfirmation. The result is not initialised, so that another answer is anything; a zero asks again.
Everything == <<>>
Answer(input) ==
    /\ phase = "asking"
    /\ CASE input = "yes" -> Yes(FALSE) /\ agreed' = agreed \cup {Now.to} /\ UNCHANGED disturbed
         [] input = "all" -> Yes(TRUE) /\ agreed' = agreed \cup {Everything} /\ UNCHANGED disturbed
         [] input \in {"no", ""} -> No /\ refused' = refused \cup {Now.to} /\ UNCHANGED disturbed
         [] input = "junk" -> /\ disturbed' = TRUE
                              /\ \/ \E all \in BOOLEAN : Yes(all) /\ UNCHANGED agreed
                                 \/ No /\ UNCHANGED refused
    /\ UNCHANGED <<tree, call, listed, status, first>>
EndOfInput == /\ phase = "asking" /\ phase' = "stuck"             \* read() returns 0 for ever
              /\ UNCHANGED <<tree, todo, flags, status, others>>

-----------------------------------------------------------------------------
Go(do) == phase = "go" /\ Now.do \in do /\ UNCHANGED others
Next1 == todo' = Tail(todo) /\ phase' = "next"
Worse(ok) == status' = IF ok THEN status ELSE "error"
DeleteFile == /\ Go({"del"})
              /\ LET done == Remove(tree, Now.from) IN tree' = done.tree /\ Worse(done.ok)
              /\ Next1 /\ UNCHANGED flags
\* The result for a single directory is not looked at.
RemoveDirectory == /\ Go({"rmdir"})
                   /\ LET done == IF DirExists(tree, Now.from) THEN Remove(tree, Now.from) ELSE Outcome(tree, FALSE)
                      IN  tree' = done.tree /\ Worse(done.ok \/ ("S" \notin call.switches /\ Len(call.names) = 1))
                   /\ Next1 /\ UNCHANGED flags
Move == /\ Go({"move"})
        /\ LET done == MoveFile(tree, Now.from, Now.to) IN tree' = done.tree /\ Worse(done.ok)
        /\ Next1 /\ UNCHANGED flags
Copy == /\ Go({"copy"})
        /\ \E done \in CopyFile(tree, Now.from, Now.to, FALSE) : tree' = done.tree /\ Worse(done.ok)
        /\ Next1 /\ UNCHANGED flags
Cat == /\ Go({"cat"}) /\ ~Endless(Now)
       /\ \E done \in CopyFile(tree, Now.from, Now.to, "second" \in flags) : tree' = done.tree /\ Worse(done.ok)
       /\ flags' = IF CanRead(tree, Now.from) THEN flags \cup {"second"} ELSE flags
       /\ Next1
\* No error is reported. What the file holds is no longer what a command makes of it, as with another process.
ShortWrite ==
    /\ phase = "go" /\ Now.do \in {"copy", "cat"} /\ ~Endless(Now)
    /\ ~disturbed /\ disturbed' = TRUE
    /\ CanRead(tree, Now.from) /\ CanOpen(tree, Place(tree, Now.to))
    /\ LET append == Now.do = "cat" /\ "second" \in flags
           to == Place(tree, Now.to)
       IN  \E n \in 1..(Len(Opened(tree, Now.from, to, append)[Resolve(tree, Now.from)].data) - 1) :
               tree' = WrittenTwice(tree, Now.from, to, append, n)
    /\ flags' = IF Now.do = "cat" THEN flags \cup {"second"} ELSE flags
    /\ Next1 /\ UNCHANGED <<call, listed, status, history>>
CatForEver == /\ phase = "go" /\ Now.do = "cat" /\ Endless(Now) /\ phase' = "stuck"
              /\ UNCHANGED <<tree, todo, flags, status, others>>
Rename1 == /\ Go({"ren"})
           /\ LET done == Rename(tree, Now.from, Now.to) IN tree' = done.tree /\ Worse(done.ok)
           /\ Next1 /\ UNCHANGED flags
MakeDir == /\ Go({"mkdir"})
           /\ LET done == CmdMakeDirs(tree, Now.from)
              IN  /\ tree' = done.tree /\ Worse(done.ok)
                  /\ todo' = IF done.ok THEN Tail(todo) ELSE <<>>
           /\ phase' = "next" /\ UNCHANGED flags
\* Each source is searched when its turn comes, and its status replaces the one before.
List == /\ Go({"list"})
        /\ LET list == TreeList(call, Now.from)
               none == GetMatchFileList(tree, Now.from, {"D", "R", "N"}) = <<>>
           IN  todo' = list \o Tail(todo) /\ status' = IF none THEN "error" ELSE "ok"
        /\ phase' = "next" /\ UNCHANGED <<tree, flags>>
MakeDirAgain == /\ Go({"mkdirs"})
                /\ LET done == CmdMakeDirs(tree, Now.to) IN tree' = done.tree /\ Worse(done.ok)
                /\ Next1 /\ UNCHANGED flags
RemoveDir == /\ Go({"rmdirs"})
             /\ LET done == Remove(tree, Now.from) IN tree' = done.tree /\ status' = IF done.ok THEN "ok" ELSE "error"
             /\ Next1 /\ UNCHANGED flags
Finish == /\ phase = "next" /\ todo = <<>> /\ phase' = "done"
          /\ UNCHANGED <<tree, todo, flags, status, others>>

\* Another process removes a file that is listed, or makes one where the command will.
Other == /\ ~disturbed /\ phase \notin {"start", "done", "stuck"} /\ disturbed' = TRUE
         /\ \/ todo # <<>> /\ FileExists(tree, Now.from) /\ tree' = Without(tree, Resolve(tree, Now.from))
            \/ todo # <<>> /\ ~Exists(tree, Now.to) /\ Place(tree, Now.to) # Nowhere /\ tree' = With(tree, Place(tree, Now.to), Node(FALSE, FALSE, <<"other">>))
         /\ UNCHANGED <<call, todo, flags, listed, status, phase, history>>

Next == \/ CmdCopy \/ CmdCopyTree \/ CmdDel \/ CmdRmdir \/ CmdMkdir \/ CmdRen \/ CmdDir
        \/ Check \/ EndOfInput \/ (\E input \in {"yes", "no", "all", "", "junk"} : Answer(input))
        \/ DeleteFile \/ RemoveDirectory \/ Move \/ Copy \/ Cat \/ ShortWrite \/ CatForEver \/ Rename1 \/ MakeDir \/ List \/ MakeDirAgain \/ RemoveDir
        \/ Finish \/ Other
Spec == Init /\ [][Next]_vars

-----------------------------------------------------------------------------
(* What a name means, told without a search. A star at the end takes a character or more. *)
RECURSIVE Glob(_, _)
Glob(r, s) ==
    IF r = <<>> THEN s = <<>>
    ELSE IF Head(r) = "*" THEN Glob(Tail(r), s) \/ (s # <<>> /\ Glob(r, Tail(s)))
    ELSE s # <<>> /\ (Head(r) = "?" \/ Same(Head(r), Head(s), FALSE)) /\ Glob(Tail(r), Tail(s))
\* A ? behind a * counts for nothing.
Counting(r) == LET behind == {i \in DOMAIN r : r[i] = "?" /\ \E j \in 1..(i - 1) : r[j] = "*" /\ \A k \in j..i : r[k] \in Jokers}
                   keep[i \in 0..Len(r)] == IF i = 0 THEN <<>> ELSE IF i \in behind THEN keep[i - 1] ELSE Append(keep[i - 1], r[i])
               IN  keep[Len(r)]
AsMeant(r) == LET c == Counting(r) IN IF c[Len(c)] = "*" THEN Append(c, "?") ELSE c
Level(r, name) == IF Trivial(r) THEN r = name ELSE Glob(AsMeant(r), name)
\* The search for a ? behind a * and a text stops at the first text.
Certain(r) == \A i \in DOMAIN r : r[i] = "?" => \A j \in 1..(i - 1) : r[j] # "*"
AllLevels(up, p, n) == \A i \in 1..n : Level(up[i], p[i])
Matching(t, up, deep) ==
    {p \in DOMAIN t : \/ Len(p) = Len(up) /\ AllLevels(up, p, Len(up))
                      \/ deep /\ ~Trivial(Last(up)) /\ Len(p) > Len(up) /\ AllLevels(up, p, Len(up) - 1) /\ Level(Last(up), Last(p))}
\* A directory means what is in it.
Meant(t, up, deep) == IF DirExists(t, up) THEN {p \in DOMAIN t : Below(up, p) /\ (deep \/ Len(p) = Len(up) + 1)} ELSE Matching(t, up, deep)
Elements(list) == {list[i] : i \in DOMAIN list}

(* A search finds what a name means, each once and what is in a directory in front of it. *)
ListsEachOnce ==
    phase = "done" /\ call.op = "dir" /\ call.attr = All =>
        LET found == SelectSeq(listed, LAMBDA p : Elements(p) \cap Pseudo = {})
            meant == Meant(tree, call.names[1], "S" \in call.switches)
        IN  /\ Elements(found) \subseteq meant
            /\ (\A i \in DOMAIN call.names[1] : Certain(call.names[1][i])) => meant \subseteq Elements(found)
            /\ \A i, j \in DOMAIN found : i < j => found[i] # found[j] /\ ~Below(found[i], found[j])
            /\ "B" \in call.switches => found = listed

-----------------------------------------------------------------------------
Deep == "S" \in call.switches
Touched == {p \in DOMAIN first \cup DOMAIN tree : IF p \in DOMAIN first \cap DOMAIN tree THEN first[p] # tree[p] ELSE TRUE}
AllMeant(deep) == UNION {Meant(first, call.names[i], deep) : i \in DOMAIN call.names}
AllMatching == UNION {Matching(first, call.names[i], FALSE) : i \in DOMAIN call.names}
Files(S) == {p \in S : ~first[p].dir}
Sources == Files(AllMatching)
Into == DirExists(first, call.dest) \/ "slash" \in call.switches
Target(s) == IF call.dest \o <<Last(s)>> \in DOMAIN tree /\ "+" \notin call.switches /\ (Into \/ call.op = "move")
             THEN call.dest \o <<Last(s)>> ELSE call.dest
\* What a command was told to remove, and where it was told to write.
ToDelete == {p \in Files(AllMeant(Deep)) : CheckFileAttributes(call.attr, first[p]) /\ (first[p].ro => "F" \in call.switches \/ call.attr # All)}
ToRemove == IF Deep THEN AllMeant(TRUE) \cup AllMatching ELSE AllMatching
Named == CASE call.op = "del" -> ToDelete
           [] call.op = "rd"  -> ToRemove
           [] call.op = "md"  -> {p \in DOMAIN tree : tree[p].dir /\ \E i \in DOMAIN call.names : p = call.names[i] \/ Below(p, call.names[i])}
           [] call.op = "ren" -> {p \in DOMAIN first \cup DOMAIN tree :
                                    \E d \in {call.names[1], Append(Parent(call.names[1]), Last(call.dest))} : p = d \/ Below(d, p)}
           [] call.op = "dir" -> {}
           [] OTHER -> {p \in DOMAIN first \cup DOMAIN tree : p = call.dest \/ Below(call.dest, p) \/ ("R" \in call.switches /\ Below(p, call.dest))}
                       \cup (IF call.op = "move" THEN Files(IF "R" \in call.switches THEN AllMeant(TRUE) ELSE AllMatching) ELSE {})
\* The files for which a question has to be answered.
Asked == CASE call.op = "del" /\ HasJoker(call) /\ "Q" \notin call.switches -> Named
           [] call.op = "rd" /\ (Deep \/ Len(call.names) > 1) /\ "Q" \notin call.switches -> Named
           [] call.op = "copy" /\ "-Y" \notin call.switches -> Files(DOMAIN first)
           [] call.op = "move" /\ "-Y" \notin call.switches -> Files(DOMAIN first \cap DOMAIN tree)
           [] OTHER -> {}

(* A command changes what it was told to change and nothing else, and of that only what the user agreed to. *)
OnlyNamed == ~disturbed => /\ Touched \subseteq Named
                           /\ Touched \cap Asked \subseteq agreed \cup (IF Everything \in agreed THEN Touched ELSE {})
                           \* several files may be copied to one, each with a question
                           /\ (IsCopy /\ Everything \in agreed) \/ Touched \cap (refused \ agreed) \cap DOMAIN first = {}

-----------------------------------------------------------------------------
Is(p, data) == p \in DOMAIN tree /\ (IF p \in DOMAIN tree THEN tree[p].data = data ELSE FALSE)
\* Two files of one name, the last of which stays.
Arrived(s) == \E other \in Sources : Target(other) = Target(s) /\ Is(Target(s), first[other].data)
Catenated == Concat([i \in DOMAIN call.names |-> LET list == Selected(Both(call.attr, NoDir), first, GetMatchFileList(first, call.names[i], {}))
                                                  IN  Concat([j \in DOMAIN list |-> first[list[j]].data])])
\* Two files of one pattern are copied over each other, three are put together.
OverEachOther == Len(call.names) = 1 /\ Cardinality(Sources) = 2
Done == CASE call.op = "del" -> ToDelete \cap DOMAIN tree \subseteq refused
          [] call.op = "rd"  -> Deep \/ Len(call.names) > 1 => ToRemove \cap DOMAIN tree \subseteq refused
          [] call.op = "md"  -> \A i \in DOMAIN call.names : DirExists(tree, call.names[i])
          [] call.op = "ren" -> Is(Append(Parent(call.names[1]), Last(call.dest)), first[call.names[1]].data)
          [] call.op \in {"copy", "move"} /\ "R" \in call.switches ->
                 (call.op = "copy" /\ Len(call.names) = 1) =>
                     \A s \in Files(AllMeant(TRUE)) :
                         LET to == call.dest \o From(s, GetStaticLength(call.names[1]) + 1) IN to \in refused \/ Is(to, first[s].data)
          [] call.op = "copy" /\ ("+" \in call.switches \/ (~Into /\ Cardinality(Sources) > 1 /\ ~OverEachOther)) -> call.dest \in refused \/ Is(call.dest, Catenated)
          [] call.op = "dir" -> TRUE
          [] OTHER -> /\ \A s \in Sources : Target(s) \in refused \/ Arrived(s)
                      /\ call.op = "move" => \A s \in Sources : Target(s) \in refused \/ s \notin DOMAIN tree
(* A command that ends well has done all it was told to do, as far as the user agreed, when no other
   process changes the tree and no write fails behind a short one: that writes a piece twice without an error
   (pBat_Copy.c:567 and :671). A file copied on itself is emptied, two files that a pattern finds are copied over each
   other (OverEachOther), and one of the directories that MOVE /R leaves ends it well. *)
OnItself == call.op = "copy" /\ \E s \in Sources : Place(first, Target(s)) = s
SuccessMeansDone == phase = "done" /\ status = "ok" /\ ~disturbed /\ ~OnItself => Done
=============================================================================
