------------------------------ MODULE DirStack ------------------------------
(* The current directory of a thread and its directory stack: CD, PUSHD, POPD, *)
(* and the way lpCurrentDir is kept in canonical form, in place. A path is a   *)
(* sequence of tokens: "/", ".", ".." and names. The process never changes its *)
(* own directory, so that lpCurrentDir is only a text, and the directories may *)
(* come and go under it.                                                       *)
EXTENDS Integers, Sequences, FiniteSetsExt, Functions

CONSTANTS Tree,        \* the directories there may be: sequences of names
          Asked,       \* the arguments of CD and PUSHD
          MaxStack, MaxChanges     \* bounds
VARIABLES dirs,        \* the directories there are
          cwd,         \* lpCurrentDir
          stack,       \* dsDirStack, last pushed first
          left,        \* history: the directories that PUSHD left
          changes      \* how often a directory was removed or made

dirVars == <<dirs, cwd, stack, left, changes>>

PathFrom(s, k) == SubSeq(s, k, Len(s))
PathUpto(s, k) == SubSeq(s, 1, k)
Absolute(p) == p # <<>> /\ p[1] = "/" /\ ~(Len(p) > 1 /\ p[2] = "/")

(* What opendir makes of a path, token by token: a directory, or Missing. And, for the properties, how far the path
   is from where it began, and whether it went above that. *)
Missing == <<"missing">>
Deeper(token) == CASE token \in {"/", "."} -> 0 [] token = ".." -> -1 [] OTHER -> 1
Visit(there, w, token) ==
    [dir |-> CASE w.dir = Missing \/ token \in {"/", "."} -> w.dir
               [] w.dir # Missing /\ token = ".." -> PathUpto(w.dir, Len(w.dir) - 1)
               [] OTHER -> IF Append(w.dir, token) \in there THEN Append(w.dir, token) ELSE Missing,
     level |-> w.level + Deeper(token),
     out |-> w.out \/ w.level + Deeper(token) < 0]
Root == [dir |-> <<>>, level |-> 0, out |-> FALSE]
Walk(there, p) == LET at[k \in 0..Len(p)] == IF k = 0 THEN Root ELSE Visit(there, at[k - 1], p[k]) IN at
Resolve(p) == Walk(dirs, p)[Len(p)].dir
DirExists(p) == Resolve(p) # Missing

\* No name is behind another one without a separator.
Separated(p) == p \in Seq(Range(p)) /\ \A i \in 1..(Len(p) - 1) : "/" \in {p[i], p[i + 1]}
ASSUME TreeAssumption ==
    /\ <<>> \in Tree /\ Missing \notin Tree
    /\ \A d \in Tree : /\ d \in Seq(Range(d)) /\ Range(d) \cap {"/", ".", ".."} = {}
                        /\ \A k \in 0..Len(d) : PathUpto(d, k) \in Tree
ASSUME AskedAssumption == \A p \in Asked : Separated(p)

(* A turn of the loop of pBat_Canonicalize. The separators and the dots behind a separator are swallowed; ".." takes
   the directory before it away, and when there is none it takes what follows. *)
Turn(w) ==
    LET path == w.path
        p == w.at
        next == Min({k \in p + 1..Len(path) + 1 : k > Len(path) \/ path[k] \notin {"/", "."}})
        s == PathUpto(path, p) \o PathFrom(path, next)
        up == p < Len(s) /\ s[p + 1] = ".."
        previous == {q \in 1..p - 1 : s[q] = "/"}
        t == IF up THEN PathUpto(s, p) ELSE s
    IN  IF p > Len(path) THEN w
        ELSE IF path[p] # "/" THEN [path |-> path, at |-> p + 1]
        ELSE IF up /\ previous # {}
        THEN [path |-> PathUpto(s, Max(previous) - 1) \o PathFrom(s, p + 2), at |-> Max(previous)]
        ELSE IF p = Len(t) /\ p # 1 THEN [path |-> PathUpto(t, p - 1), at |-> p]
        ELSE [path |-> t, at |-> p + 1]
Turns(path) ==
    LET turn[k \in 0..Len(path)] == IF k = 0 THEN [path |-> path, at |-> 1] ELSE Turn(turn[k - 1])
    IN  turn[Len(path)].path
\* Swallows ".." like ".".
CanonicalizeDots(path) == Turns(SelectSeq(path, LAMBDA t : t # ".."))

Canonicalize(path) == Turns(path)

(* The path itself when it is absolute and there, else behind lpCurrentDir *)
Below(p) == cwd \o <<"/">> \o p
Chosen(p) == IF Absolute(p) /\ DirExists(p) THEN p ELSE Below(p)
SetCurrentDir(p) == /\ DirExists(Chosen(p))
                    /\ cwd' = Canonicalize(Chosen(p))

Canonical(d) == IF d = <<>> THEN <<"/">>
                ELSE [i \in 1..2 * Len(d) |-> IF i % 2 = 1 THEN "/" ELSE d[i \div 2]]
-----------------------------------------------------------------------------
DirInit == /\ dirs = Tree
           /\ \E d \in Tree : cwd = Canonical(d)     \* getcwd
           /\ stack = <<>> /\ left = <<>>
           /\ changes = 0

CmdCd(p) == SetCurrentDir(p) /\ UNCHANGED <<dirs, stack, left, changes>>

PushDir(d) == Len(stack) < MaxStack /\ stack' = <<d>> \o stack
PopDir == stack # <<>> /\ stack' = Tail(stack)

\* Pushes the directory it went to.
PushNew(p) ==
    /\ SetCurrentDir(p)
    /\ PushDir(cwd')
    /\ left' = <<Resolve(cwd)>> \o left
    /\ UNCHANGED <<dirs, changes>>

(* One of the paths of PUSHD; the first that is no directory ends the command *)
CmdPushd(p) ==
    /\ SetCurrentDir(p)
    /\ PushDir(cwd)
    /\ left' = <<Resolve(cwd)>> \o left
    /\ UNCHANGED <<dirs, changes>>

CmdPopd ==
    /\ PopDir
    /\ \/ SetCurrentDir(Head(stack))
       \/ ~DirExists(Chosen(Head(stack))) /\ UNCHANGED cwd
    /\ left' = Tail(left)
    /\ UNCHANGED <<dirs, changes>>

(* Another program, or MD and RD, make and remove directories *)
Mkdir(d) == /\ changes < MaxChanges /\ changes' = changes + 1
            /\ d \notin dirs /\ SubSeq(d, 1, Len(d) - 1) \in dirs
            /\ dirs' = dirs \cup {d}
            /\ UNCHANGED <<cwd, stack, left>>
Rmdir(d) == /\ changes < MaxChanges /\ changes' = changes + 1
            /\ d \in dirs \ {<<>>} /\ \A e \in dirs : SubSeq(e, 1, Len(e) - 1) # d
            /\ dirs' = dirs \ {d}
            /\ UNCHANGED <<cwd, stack, left>>

DirNext == \/ \E p \in Asked : CmdCd(p) \/ CmdPushd(p)
           \/ CmdPopd
           \/ \E d \in Tree : Mkdir(d) \/ Rmdir(d)

DirSpec == DirInit /\ [][DirNext]_dirVars

-----------------------------------------------------------------------------
\* The current directory and the stack hold canonical paths; the root may be empty.
CanonicalPaths == {<<>>} \cup {Canonical(d) : d \in Tree}
CwdCanonical == cwd \in CanonicalPaths /\ \A i \in DOMAIN stack : stack[i] \in CanonicalPaths

\* `..` at the root, with more behind it, is not read as the system reads it.
ClimbsOut(p) == Walk(dirs, p)[Len(p)].out
\* CD goes to the directory the system finds at the path, rewritten or not, and what it keeps of it is a canonical path.
Goes == \A p \in Asked : CmdCd(p) /\ ~ClimbsOut(Chosen(p)) => Resolve(cwd)' = Resolve(Chosen(p))
GoesThere == []CwdCanonical /\ [][cwd' # cwd => Goes]_dirVars

(* POPD goes back to where PUSHD was, if the directory is there, unless the
   root was pushed as an empty text. *)
Returns == Resolve(cwd)' = Head(left)
PopdReturns == [][CmdPopd /\ Head(left) \in dirs => Returns \/ Head(stack) = <<>>]_dirVars
=============================================================================
