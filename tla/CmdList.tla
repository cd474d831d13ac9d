------------------------------ MODULE CmdList ------------------------------
(* The commands of an interpreter: a binary tree ordered by name, in which the *)
(* command at the start of a line is looked for, and to which DEF adds macros  *)
(* and MOD the commands of modules. The nodes are numbered like a heap's: the  *)
(* children of p are 2p and 2p+1.                                              *)
EXTENDS Integers, Sequences, FiniteSets, SequencesExt

CONSTANTS Delimiters,    \* the characters that may follow a command
          NamesOf,       \* the names that DEF and MOD may be given
          Internal,      \* lpCmdInfo: the names and their limits
          MaxCommands    \* bound

VARIABLES tree,    \* lpclCommands
          told     \* history: the name of the last definition, if it was made

vars == <<tree, told>>

(* stricmp, and strnicmp with the length of the second string *)
Compare(a, b) ==
    LET differ == {i \in 1..Len(a) : i <= Len(b) /\ a[i] # b[i]}
        first == CHOOSE i \in differ : \A j \in differ : i <= j
    IN  IF differ = {} THEN Len(a) - Len(b) ELSE a[first] - b[first]
Start(line, n) == SubSeq(line, 1, IF n < Len(line) THEN n ELSE Len(line))
CompareStart(line, name) == Compare(Start(line, Len(name)), name)

(* A line ends with a NUL, which delimits; behind it the memory holds anything *)
Delimits(line, at, past) ==
    \/ at < Len(line) /\ line[at + 1] \in Delimiters
    \/ at = Len(line)
    \/ at > Len(line) /\ past

None == 0
Hangs == -1
Child(p, order) == 2 * p + (IF order > 0 THEN 1 ELSE 0)
Positions == 0..2^(MaxCommands + 1)

(* The node of the command of a line. A node without limit needs no delimiter;
   a name of the right length with a limit that is not its own is compared with
   itself for ever. *)
GetCommandProc(t, line, past) ==
    LET find[p \in Positions] ==
        IF p \notin DOMAIN t THEN None
        ELSE LET order == CompareStart(line, t[p].name) IN
             IF order # 0 THEN find[Child(p, order)]
             ELSE IF t[p].limit = 0 \/ Delimits(line, t[p].limit, past) THEN p
             ELSE LET again == Compare(line, t[p].name)
                  IN  IF again = 0 THEN Hangs ELSE find[Child(p, again)]
    IN  find[1]

(* The node /f replaces: no delimiter is looked for *)
ReplacedNode(t, name) ==
    LET find[p \in Positions] ==
        IF p \notin DOMAIN t THEN None
        ELSE LET order == CompareStart(name, t[p].name)
             IN  IF order = 0 THEN p ELSE find[Child(p, order)]
    IN  find[1]
ReplaceCommand(t, name) ==
    LET p == ReplacedNode(t, name)
    IN  IF p = None THEN t ELSE [t EXCEPT ![p].limit = Len(name), ![p].runs = name]

(* A leaf for the command, unless its name is there *)
AddCommandDynamic(t, info) ==
    LET place[p \in Positions] ==
            IF p \notin DOMAIN t THEN p
            ELSE LET order == Compare(info.name, t[p].name)
                 IN  IF order = 0 THEN None ELSE place[Child(p, order)]
        at == place[1]
    IN  IF at = None THEN t
        ELSE [p \in DOMAIN t \cup {at} |-> IF p = at THEN info ELSE t[p]]

\* The upper end is the last command instead of the one behind it.
PutSeedShort(infos) ==
    LET put[b, u \in 0..Len(infos)] ==
            LET mid == (b + u) \div 2
            IN  IF mid = b THEN <<>> ELSE <<infos[mid]>> \o put[b, mid] \o put[mid, u]
    IN  put[0, Len(infos)]

(* The middles of the segments of the sorted commands, from the outer ones in *)
PutSeed(infos) ==
    LET put[b, u \in 0..Len(infos) + 1] ==
            LET mid == (b + u) \div 2
            IN  IF mid = b THEN <<>> ELSE <<infos[mid]>> \o put[b, mid] \o put[mid, u]
    IN  put[0, Len(infos) + 1]
MapCommandInfo(infos) ==
    LET below(a) == Cardinality({b \in infos : Compare(b.name, a.name) < 0})
        sorted == [i \in 1..Cardinality(infos) |-> CHOOSE a \in infos : below(a) = i - 1]
    IN  IF Len(sorted) \div 2 = 1 THEN <<>>       \* NULL: two or three are not mapped
        ELSE FoldLeft(AddCommandDynamic, <<>>, PutSeed(sorted))
FillInfoFromList(t) == {t[p] : p \in DOMAIN t}
ReMapCommandInfo(t) == MapCommandInfo(FillInfoFromList(t))

Command(name, limit) == [name |-> name, limit |-> limit, runs |-> name]
Add(t, name) == AddCommandDynamic(t, Command(name, Len(name)))

-----------------------------------------------------------------------------
Init == /\ tree = MapCommandInfo({Command(n, Internal[n]) : n \in DOMAIN Internal})
        /\ told = <<>>

(* The new tree replaces the old one; without memory for it, the old one stays
   with the leaf in it. *)
Insert(name) ==
    /\ Cardinality(DOMAIN tree) < MaxCommands
    /\ tree' \in {ReMapCommandInfo(Add(tree, name)), Add(tree, name)}
    /\ told' = name

CmdDef(name, f, past) ==
    LET known == GetCommandProc(tree, name, past)
    IN  \/ /\ known # None /\ known # Hangs /\ f
           /\ tree' = ReplaceCommand(tree, name)
           /\ told' = name
        \/ /\ known # None /\ known # Hangs /\ ~f
           /\ told' = <<>>
           /\ UNCHANGED tree
        \/ known = None /\ Insert(name)

ModRegisterCommand(name, past) ==
    LET known == GetCommandProc(tree, name, past)
    IN  \/ known \notin {None, Hangs} /\ told' = <<>> /\ UNCHANGED tree
        \/ known = None /\ Insert(name)

Next == \E name \in NamesOf, past \in BOOLEAN :
            \/ \E f \in BOOLEAN : CmdDef(name, f, past)
            \/ ModRegisterCommand(name, past)

-----------------------------------------------------------------------------
(* What a line runs: the name the command was given when it was defined. *)
Runs(t, line, past) == LET p == GetCommandProc(t, line, past)
                       IN  IF p \in DOMAIN t THEN t[p].runs ELSE <<>>

Matches(t, line) == {p \in DOMAIN t : /\ IsPrefix(t[p].name, line)
                                      /\ t[p].limit = 0 \/ Delimits(line, t[p].limit, FALSE)}
Lines == {n \o rest : n \in NamesOf \cup DOMAIN Internal, rest \in {<<>>} \cup {<<d>> : d \in Delimiters}}

(* A line finds a command that it starts with whenever there is one, however
   the tree grew, as long as all the names sort above the delimiters and none
   was replaced by a longer one. *)
Undamaged(t) == \A p \in DOMAIN t : t[p].limit \in {0, Len(t[p].name)}
Regular(t) == \A p \in DOMAIN t, d \in Delimiters : \A i \in DOMAIN t[p].name : t[p].name[i] > d
FindsCommands ==
    Undamaged(tree) /\ Regular(tree) => \A line \in Lines :
        LET p == GetCommandProc(tree, line, FALSE)
        IN  IF Matches(tree, line) = {} THEN p = None ELSE p \in Matches(tree, line)

(* From a tree without such a replacement, a definition changes what its own
   name runs; when there is a command whose name its own starts with, it may
   damage that one and those that start like it, and never another one. *)
Named(t) == {t[p].name : p \in DOMAIN t}
Changed == {n \in Named(tree) : \E past \in BOOLEAN : Runs(tree', n, past) # Runs(tree, n, past)}
OthersKeep ==
    Undamaged(tree) => \A n \in Changed :
        \E short \in Named(tree) : IsPrefix(short, told') /\ IsPrefix(short, n)
=============================================================================
