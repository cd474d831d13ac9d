----------------------------- MODULE ScriptCache -----------------------------
(***************************************************************************)
(* How a thread of picobat reads its batch files: pBat_Read.c,             *)
(* pBat_ReadScript.c, pBat_Jump.c and the part of CALL, GOTO and RunBatch  *)
(* that they share.                                                        *)
(*                                                                         *)
(* A file is loaded as a list of its commands and labels, which is kept as *)
(* long as the file does not change; with the option CMDLYCORRECT it is    *)
(* opened for each line instead. CALL copies the structures, and a copy    *)
(* shares the list.                                                        *)
(***************************************************************************)
EXTENDS Scripts, FiniteSets

CONSTANTS
    Files, Main,    \* the batch files, and the one that main() runs
    Texts, Sizes,   \* what a file may contain, and the size of each of these
    Lists,          \* the addresses of the lists that fit in the memory
    MaxDepth,       \* bounds the CALLs in each other
    MaxEdits,       \* bounds the modifications of files
    MaxSwitches     \* bounds the changes of CMDLYCORRECT

ASSUME FilesAssumption == Main \in Files /\ NULL \notin Files
ASSUME TextsAssumption ==
    /\ Texts \subseteq Seq(Entry) /\ NULL \notin Texts
    /\ Sizes \in [Texts -> Nat]
ASSUME ListsAssumption == Lists \subseteq Nat /\ NULL \notin Lists
ASSUME BoundsAssumption == MaxDepth \in Nat /\ MaxEdits \in Nat /\ MaxSwitches \in Nat

VARIABLES
    files,      \* the files on the disk: what they contain, NULL if they do not exist
    lists,      \* the lists in memory: the text they were loaded from, NULL if free
    in,         \* ifIn
    saved,      \* the variables ifOldFile of the CALLs in progress, innermost first
    cmdly,      \* bCmdlyCorrect
    line,       \* "none": RunBatch is to read a line; "runs": a command of the line
                \* runs; "exit": GOTO :EOF or EXIT /B has ended the batch
    phase,      \* "running", "done", or "undefined": memory that is not the program's
                \* was freed, and what happens next is not followed
    sure,       \* history: which levels, innermost first, know where they are
    edits, switches     \* how many there have been

vars == <<files, lists, in, saved, cmdly, line, phase, sure, edits, switches>>

Running == phase = "running" /\ line = "runs"
Reading == phase = "running" /\ line = "none" /\ ~in.eof

(***************************************************************************)
(* The structures: batch_script_t and INPUT_FILE                           *)
(***************************************************************************)
\* name is NULL when the first character of the name is '\0'; curr is a position in
\* the text of the list, one past its end for a NULL pointer.
Batch == [name: Files \cup {NULL}, cpy: BOOLEAN, list: Lists \cup {NULL}, curr: Nat]
NotLoaded == [name |-> NULL, cpy |-> FALSE, list |-> NULL, curr |-> 1]

\* pos counts the lines before iPos.
Input == [file: Files, pos: Nat, eof: BOOLEAN, batch: Batch]

\* What a function that works on a batch_script_t may leave behind.
Loaded(b, h, ok) == [batch |-> b, lists |-> h, ok |-> ok]

FreeBatchScript(b, h) ==
    IF b.cpy \/ b.list = NULL THEN h ELSE [h EXCEPT ![b.list] = NULL]

FreeLists(h) == {l \in DOMAIN h : h[l] = NULL}

\* mutant: the caller does not free a script that it could not load
OpenKeepsName(f, h) ==
    {Loaded([NotLoaded EXCEPT !.name = f], h, FALSE)} \cup
    (IF files[f] = NULL THEN {}
     ELSE LET l == Min(FreeLists(h))
          IN  {Loaded([name |-> f, cpy |-> FALSE, list |-> l, curr |-> Following(files[f], 1)],
                      [h EXCEPT ![l] = files[f]], TRUE)})

\* Any fopen can fail. The caller then frees the script, which holds nothing.
OpenBatchScript(f, h) ==
    {Loaded(NotLoaded, h, FALSE)} \cup
    (IF files[f] = NULL THEN {}
     ELSE LET l == Min(FreeLists(h))
          IN  {Loaded([name |-> f, cpy |-> FALSE, list |-> l, curr |-> Following(files[f], 1)],
                      [h EXCEPT ![l] = files[f]], TRUE)})

CommandsBefore(text, i) == Cardinality({j \in 1 .. i - 1 : IsCommand(text, j)})

\* The same command number in another text, or else its first command.
SameNumber(text, n) ==
    LET same == {i \in 1 .. Len(text) : IsCommand(text, i) /\ CommandsBefore(text, i) = n}
    IN  IF same = {} THEN Following(text, 1) ELSE Min(same)

\* mutant: the list is freed also if it is shared
ReloadFreesShared(b, h) ==
    {[r EXCEPT !.batch.curr =
        IF r.ok THEN SameNumber(files[b.name], CommandsBefore(h[b.list], b.curr)) ELSE @] :
        r \in OpenBatchScript(b.name, [h EXCEPT ![b.list] = NULL])}

ReloadBatchScript(b, h) ==
    {[r EXCEPT !.batch.curr =
        IF r.ok THEN SameNumber(files[b.name], CommandsBefore(h[b.list], b.curr)) ELSE @] :
        r \in OpenBatchScript(b.name, FreeBatchScript(b, h))}

SizeChanged(b) == files[b.name] # NULL /\ Sizes[files[b.name]] # Sizes[lists[b.list]]

\* CheckBatchScriptChanges reads err, which stat() leaves uninitialized when it
\* succeeds: the script may be taken as unchanged whatever its size.
UpdateScript(i) ==
    IF i.batch.name = i.file
    THEN {Loaded(i.batch, lists, TRUE)} \cup
            (IF SizeChanged(i.batch) THEN ReloadBatchScript(i.batch, lists) ELSE {})
    ELSE OpenBatchScript(i.file, FreeBatchScript(i.batch, lists))

(***************************************************************************)
(* Reading a line                                                          *)
(***************************************************************************)
GetLine ==
    /\ Reading /\ ~cmdly /\ FreeLists(lists) # {}
    /\ \E r \in UpdateScript(in) :
        LET text == r.lists[r.batch.list]
            found == r.ok /\ IsClosed(text, r.batch.curr)
        IN  /\ lists' = r.lists
            /\ in' = [in EXCEPT !.eof = ~found,
                        !.batch = IF r.ok THEN [r.batch EXCEPT !.curr = After(text, @)] ELSE r.batch]
            /\ line' = IF found THEN "runs" ELSE "none"
    /\ UNCHANGED <<files, saved, cmdly, phase, sure, edits, switches>>

\* What an fopen finds in a file: nothing if it fails.
Opened(f) == {<<>>} \cup ({files[f]} \ {NULL})

\* A label is read as an empty line of its own.
GetLine_Cmdly ==
    /\ Reading /\ cmdly
    /\ \E text \in Opened(in.file) :
        LET i == in.pos + 1
        IN  \/ /\ i <= Len(text) /\ ~IsCommand(text, i)
               /\ in' = [in EXCEPT !.pos = i]
               /\ UNCHANGED line
            \/ /\ i <= Len(text) /\ IsCommand(text, i) /\ IsClosed(text, i)
               /\ in' = [in EXCEPT !.pos = Min(Closes(text, i))]
               /\ line' = "runs"
            \/ /\ i <= Len(text) => IsCommand(text, i) /\ ~IsClosed(text, i)
               /\ in' = [in EXCEPT !.eof = TRUE]
               /\ UNCHANGED line
    /\ UNCHANGED <<files, lists, saved, cmdly, phase, sure, edits, switches>>

EndOfLine ==
    /\ Running
    /\ line' = "none"
    /\ UNCHANGED <<files, lists, in, saved, cmdly, phase, sure, edits, switches>>

(***************************************************************************)
(* Jumps                                                                   *)
(***************************************************************************)
\* What a jump may leave behind. "undefined": pBat_JumpToLabel has freed its
\* variable script, which it has not initialized.
Jump(i, h, how) == [in |-> i, lists |-> h, how |-> how]

JumpInFile(i, l) ==
    UNION {LET j == [i EXCEPT !.batch = r.batch]
               text == r.lists[r.batch.list]
           IN  IF ~r.ok THEN {Jump(j, r.lists, "failed")}
               ELSE IF HasLabel(text, l)
               THEN {Jump([j EXCEPT !.batch.curr = Target(text, l)], r.lists, "jumped")}
               ELSE {Jump(j, r.lists, how) : how \in {"failed", "undefined"}} :
           r \in UpdateScript(i)}

\* mutant: the script that was read before is not freed
JumpKeepsScript(i, l, f) ==
    {IF r.ok /\ HasLabel(files[f], l)
     THEN Jump([i EXCEPT !.file = f, !.batch = [r.batch EXCEPT !.curr = Target(files[f], l)]],
               r.lists, "jumped")
     ELSE Jump(i, lists, "failed") : r \in OpenBatchScript(f, lists)}

JumpToFile(i, l, f) ==
    {IF r.ok /\ HasLabel(files[f], l)
     THEN Jump([i EXCEPT !.file = f, !.batch = [r.batch EXCEPT !.curr = Target(files[f], l)]],
               FreeBatchScript(i.batch, r.lists), "jumped")
     ELSE Jump(i, lists, "failed") : r \in OpenBatchScript(f, lists)}

\* The jump has also reached the end of the file if the label is its last line and
\* has no line end.
JumpToLabel_Cmdly(i, l) ==
    {Jump(i, lists, "failed")} \cup
    UNION {LET at == Min(Labelled(text, l))
           IN  {Jump([i EXCEPT !.pos = at, !.eof = eof], lists, "jumped") :
                    eof \in {FALSE, at = Len(text)}} :
           text \in {opened \in Opened(i.file) : HasLabel(opened, l)}}

JumpToLabel(i, l, f) ==
    IF cmdly THEN JumpToLabel_Cmdly(i, l)
    ELSE IF f \in {NULL, i.batch.name} THEN JumpInFile(i, l) ELSE JumpToFile(i, l, f)

\* A jump that looks at the file itself leads where the label is now.
Certain(f) == cmdly \/ f \notin {NULL, in.batch.name}

\* An option /F, and both a file and a label in a CALL, are extensions. The file of
\* either must exist.
MayName(f) == f # NULL => files[f] # NULL

CmdGoto ==
    /\ Running /\ FreeLists(lists) # {}
    /\ \E l \in Labels, f \in Files \cup {NULL} :
        /\ MayName(f) /\ (f # NULL => ~cmdly)
        /\ \E jump \in JumpToLabel(in, l, f) :
            /\ in' = jump.in /\ lists' = jump.lists
            /\ line' = IF jump.how = "jumped" THEN "none" ELSE "runs"
            /\ phase' = IF jump.how = "undefined" THEN "undefined" ELSE "running"
            /\ sure' = [sure EXCEPT ![1] = @ \/ (jump.how = "jumped" /\ Certain(f))]
    /\ UNCHANGED <<files, saved, cmdly, edits, switches>>

(***************************************************************************)
(* CALL                                                                    *)
(***************************************************************************)
\* mutant: the copy is not marked
CopyUnmarked == in

Copy == [in EXCEPT !.batch.cpy = TRUE]

\* mutant: the position of the caller is kept
CallKeepsPosition ==
    /\ Running /\ Len(saved) < MaxDepth
    /\ \E f \in Files :
        /\ MayName(f)
        /\ in' = [Copy EXCEPT !.eof = FALSE, !.file = f]
        /\ sure' = <<Certain(f)>> \o sure
    /\ saved' = <<in>> \o saved
    /\ line' = "none"
    /\ UNCHANGED <<files, lists, cmdly, phase, edits, switches>>

\* The file is not read yet: RunBatch's first GetLine will see that its name is not
\* the one of the batch, if it is not.
CmdCallFile ==
    /\ Running /\ Len(saved) < MaxDepth
    /\ \E f \in Files :
        /\ MayName(f)
        /\ in' = [Copy EXCEPT !.eof = FALSE, !.pos = 0, !.file = f]
        /\ sure' = <<Certain(f)>> \o sure
    /\ saved' = <<in>> \o saved
    /\ line' = "none"
    /\ UNCHANGED <<files, lists, cmdly, phase, edits, switches>>

CmdCallLabel ==
    /\ Running /\ Len(saved) < MaxDepth /\ FreeLists(lists) # {}
    /\ \E l \in Labels, f \in Files \cup {NULL} :
        /\ MayName(f) /\ (f # NULL => ~cmdly)
        /\ \E jump \in JumpToLabel(Copy, l, f) :
            /\ jump.how = "jumped"
            /\ in' = jump.in /\ lists' = jump.lists
            /\ sure' = <<Certain(f) \/ Head(sure)>> \o sure
    /\ saved' = <<in>> \o saved
    /\ line' = "none"
    /\ UNCHANGED <<files, cmdly, phase, edits, switches>>

\* The input stays marked as a copy, although nothing was saved.
CallFails ==
    /\ Running /\ FreeLists(lists) # {}
    /\ \E l \in Labels, f \in Files \cup {NULL} :
        /\ MayName(f) /\ (f # NULL => ~cmdly)
        /\ \E jump \in JumpToLabel(Copy, l, f) :
            /\ jump.how # "jumped"
            /\ in' = jump.in /\ lists' = jump.lists
            /\ phase' = IF jump.how = "undefined" THEN "undefined" ELSE "running"
    /\ UNCHANGED <<files, saved, cmdly, line, sure, edits, switches>>

\* GOTO :EOF and EXIT /B.
CmdGotoEof ==
    /\ Running
    /\ line' = "exit"
    /\ UNCHANGED <<files, lists, in, saved, cmdly, phase, sure, edits, switches>>

BatchEnded == phase = "running" /\ (line = "exit" \/ (line = "none" /\ in.eof))

CallReturns ==
    /\ BatchEnded /\ saved # <<>>
    /\ lists' = FreeBatchScript(in.batch, lists)
    /\ in' = Head(saved) /\ saved' = Tail(saved) /\ sure' = Tail(sure)
    /\ line' = "runs"
    /\ UNCHANGED <<files, cmdly, phase, edits, switches>>

MainEnds ==
    /\ BatchEnded /\ saved = <<>>
    /\ phase' = "done"
    /\ UNCHANGED <<files, lists, in, saved, cmdly, line, sure, edits, switches>>

\* A malloc that fails ends the process.
OutOfMemory ==
    /\ phase = "running" /\ ~cmdly /\ FreeLists(lists) = {}
    /\ phase' = "done"
    /\ UNCHANGED <<files, lists, in, saved, cmdly, line, sure, edits, switches>>

(***************************************************************************)
(* What happens around                                                     *)
(***************************************************************************)
\* SETLOCAL CMDLYCORRECT or CMDLYINCORRECT. Neither position is brought up to date.
CmdSetLocal ==
    /\ Running /\ switches < MaxSwitches
    /\ cmdly' = ~cmdly
    /\ sure' = [i \in DOMAIN sure |-> FALSE]
    /\ switches' = switches + 1
    /\ UNCHANGED <<files, lists, in, saved, line, phase, edits>>

Levels == <<in>> \o saved

\* Another program, or a command of the script, writes a file, creates or deletes it.
Edit ==
    /\ phase = "running" /\ edits < MaxEdits
    /\ \E f \in Files, text \in Texts \cup {NULL} :
        /\ text # files[f]
        /\ files' = [files EXCEPT ![f] = text]
        /\ sure' = [i \in DOMAIN sure |-> sure[i] /\ Levels[i].file # f]
    /\ edits' = edits + 1
    /\ UNCHANGED <<lists, in, saved, cmdly, line, phase, switches>>

Init ==
    /\ files \in [Files -> Texts]
    /\ lists = [l \in Lists |-> NULL]
    /\ in = [file |-> Main, pos |-> 0, eof |-> FALSE, batch |-> NotLoaded]
    /\ saved = <<>> /\ sure = <<TRUE>>
    /\ cmdly \in BOOLEAN
    /\ line = "none" /\ phase = "running"
    /\ edits = 0 /\ switches = 0

Stopped == phase # "running" /\ UNCHANGED vars

Next ==
    \/ GetLine \/ GetLine_Cmdly \/ EndOfLine
    \/ CmdGoto \/ CmdCallFile \/ CmdCallLabel \/ CallFails \/ CmdGotoEof
    \/ CallReturns \/ MainEnds \/ OutOfMemory
    \/ CmdSetLocal \/ Edit \/ Stopped

Spec == Init /\ [][Next]_vars

(***************************************************************************)
(* Properties                                                              *)
(***************************************************************************)
\* Every variable has its type; a structure without a name holds no list; a batch
\* is only asked for its next line in a text that has it, or at its end.
TypeOK ==
    /\ files \in [Files -> Texts \cup {NULL}]
    /\ lists \in [Lists -> Texts \cup {NULL}]
    /\ in \in Input /\ saved \in Seq(Input) /\ Len(saved) <= MaxDepth
    /\ cmdly \in BOOLEAN /\ line \in {"none", "runs", "exit"}
    /\ phase \in {"running", "done", "undefined"}
    /\ sure \in Seq(BOOLEAN) /\ Len(sure) = Len(Levels)
    /\ edits \in 0 .. MaxEdits /\ switches \in 0 .. MaxSwitches
    /\ \A k \in DOMAIN Levels : (Levels[k].batch.name = NULL) = (Levels[k].batch.list = NULL)

\* No level is left with a list of commands that was freed: reloading a file, jumping
\* to another one and returning from a CALL free the list of no level that will read
\* on, whichever of them share it.
NoFreedList ==
    \A k \in DOMAIN Levels :
        LET b == Levels[k].batch IN b.name # NULL => lists[b.list] # NULL

\* A list is freed by at most one level: the others that share it are marked as copies.
OneOwner ==
    \A k, m \in DOMAIN Levels :
        k # m /\ Levels[k].batch.list = Levels[m].batch.list /\ Levels[k].batch.list # NULL
            => Levels[k].batch.cpy \/ Levels[m].batch.cpy

Owned == {Levels[k].batch.list : k \in {m \in DOMAIN Levels : ~Levels[m].batch.cpy}}
Leaked == {l \in Lists : lists[l] # NULL /\ l \notin Owned}

\* A list that is in use is never lost, except by a CALL of a label that fails: however
\* often files change, and whichever level reloads them, each list is freed again.
NoLeak == [][Leaked' \subseteq Leaked \/ CallFails]_vars

\* Where a level is: the line it will read next, or 0 if nothing is promised about it.
Position(i) ==
    IF cmdly THEN Following(files[i.file], i.pos + 1)
    ELSE IF i.batch.name = i.file THEN i.batch.curr ELSE Following(files[i.file], 1)
LevelAt(k) ==
    [file |-> Levels[k].file, at |-> IF sure[k] THEN Position(Levels[k]) ELSE 0]
R == INSTANCE Reader WITH text <- files, levels <- [k \in DOMAIN Levels |-> LevelAt(k)]

\* Whatever is cached, shared or reloaded, scripts are read as Reader says: each line of
\* a file that does not change once and in order, a file that is called from its first
\* line, and the caller from where it was, whatever the callee has loaded, and whatever
\* happened to other files.
ReadsInOrder == R!Spec

\* What the manual says of CALL file: the file is executed, that is from its start.
CallStarts == [][CmdCallFile => Following(files[in'.file], 1) = Position(in)']_vars
=============================================================================
