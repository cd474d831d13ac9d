# A TLA+ model of picobat

picobat (`pbat`) is a portable interpreter of DOS batch scripts written in C. This
directory models its interpreter in TLA+, checks the model with TLC and proves the most
important facts about it with TLAPS. File names below are relative to `src/`.

Contents: [inventory](#inventory) · [plan](#plan) · [module Interp](#interp) ·
[module Clones](#clones) ·
[module ScriptCache](#scripts) · [what a thread keeps](#scopes) · [what becomes of a line](#text) ·
[the world outside](#outside) · [runs](#runs) · [findings](#findings) · [proofs](#proofs) · [limits](#limits)

<a name="inventory"></a>
## 1. Inventory

### Components, their state and their operations

| component | code | state | operations |
|---|---|---|---|
| interpreter | `pbat/core/pBat_Run.c` | the C call stack, the `PARSED_LINE` lists, `bAbortCommand`, `iErrorLevel` | RunBatch, RunLine, RunParsedLine, ExecOperators, RunCommand, RunBlock, LookAHeadMakeParsedLine |
| redirections | `pbat/core/pBat_Stream.c` | `fInput`, `fOutput`, `fError`, `lppsStreamStack` and the lock bit of its top | OpenOutput, OpenOutputF, PopStreamStack, PopStreamStackUntilLock, FreeStreamStack |
| control flow | `pbat/command/pBat_{If,For,Goto,Exit,Block,Call}.c` | none of their own: they work on the interpreter's | the commands IF, FOR, GOTO, EXIT, `(...)`, CALL |
| start-up, exit | `pbat/pBat.c`, `pbat/init`, `pBat_ExitInt.c` | which script main() is running | RunAutoBat, the line of `/C` or `/K`, the script, pBat_Exit |
| parser | `pBat_Parse.c`, `pBat_ParseBlock.c` | none | a line to a list of commands, operators and redirections |
| pipes and clones | `pBat_Clone.c`, `pBat_Pipe.c`, `libpbat/thread` | one interpreter per thread (every global is thread-local), the descriptors they share, `mEchoLock` | CloneInstance, LaunchPipe, RunExternalBatch, FOR /F, START /B |
| script cache | `pBat_Read.c`, `pBat_ReadScript.c`, `pBat_Jump.c` | the loaded script, its labels, the position in it | GetLine, reload of a file that changed, JumpToLabel |
| environment | `pBat_Env.c`, `pBat_EnvStack.c`, `pBat_Set.c`, `pBat_Setlocal.c` | sorted variables with shadowed values, the stack of SETLOCAL | GetEnv, SetEnv, PushEnvLocals, SETLOCAL, ENDLOCAL |
| arguments | `pBat_Call.c`, `pBat_Shift.c`, `pBat_Args.c` | `lpvArguments`: `%0` to `%9`, `%+`, `%*` | CALL, its return, SHIFT |
| expansion | `pBat_Expand.c`, `pBat_ExpandDef.c`, `pBat_Var.c`, `pBat_SplitPath.c` | none | ReplaceVars, delayed expansion, ExpandDef |
| command lists, modules | `pBat_CmdList.c`, `pBat_Def.c`, `pBat_Mod.c` | the tree of commands of the thread, the list of modules of the process | lookup, AddCommandDynamic, ReplaceCommand, ReMapCommandInfo, DEF, MOD |
| external programs | `pBat_Exec.c`, `pBat_FilePath.c`, `pBat_Start.c` | the child process, the error pipe | the search in PATH, RunFile, StartFile, ExecuteFile, START |
| directory stack | `pBat_DirStack.c`, `pBat_Pushd.c`, `pBat_Cd.c` | `lpCurrentDir`, a list of directories | CD, PUSHD, POPD |
| dynamic strings | `pBat_EsCache.c`, `pBat_Estr.c` | a pool of buffers per thread and its bitmap, the sizes of the buffers | EsCacheInit, EsCacheFree, EsCpy, EsCat, EsGet |
| IF expressions, SET /A | `pBat_IfExp.c`, `libfasteval` | the variables that are assigned, `fmode` | evaluation |
| file commands | `pBat_{Copy,Del,Ren,Mkdir,Rmdir,Dir}.c`, `libpbat/dir` | the list of files, the answers of the user, the tree of files | COPY, MOVE, DEL, RD, MD, REN, DIR |
| filters | `pBat_{Type,Find,Wc,More,Xargs}.c` | counts, the place on the screen of MORE | TYPE, FIND, WC, MORE, XARGS |
| line editing | `pBat_Completion.c`, `linenoise` | the line, the cursor, the names found | TAB |
| text on Windows | `libcu8`: `read.c`, `write.c`, `fdio.c`, `encoding.c` | for each descriptor the bytes that wait, the line being edited, its history | fgets, fputs, fopen, fseek, fflush |
| the rest | display commands, prompt, help and languages, `libpbat` wrappers, the rest of `libcu8`, `microgettext`, `tea`, `dump`, `pbatize` | | |

`PROJECT.json` lists all of them, with what is modelled of each.

### How they interact

Everything goes through *globals of the thread*. RunBatch reads a line (script cache),
RunLine parses it, RunParsedLine walks the list and, for each command, tests the operator
against `iErrorLevel`, pushes its redirections on the stream stack, and calls the command.
IF and FOR call RunParsedLine again **on the same list**, blocks and CALL go down to RunLine
and RunBatch. The only ways back up are C returns: GOTO, GOTO :EOF and EXIT /B store a value
in `bAbortCommand`, and every function on the stack has to look at it when its callee returns.
A pipe clones the interpreter in a new thread for every command but the last one; `foo.bat` on
a line does the same and waits for it. External programs inherit the streams.

### What is hard

* **Unwinding.** Six functions look at `bAbortCommand`, each in its own way, and two clear it.
  One that forgets makes a script run commands after GOTO, end one CALL too many, or loop.
* **Restoring streams.** The stack of redirections has no frame markers: a "lock" bit on its
  top says where a line has to stop popping, and each of the functions that nest saves,
  sets and restores that bit. `2>&1` saves a second stream. A redirection may fail half-way.
* **Lines that change while they run.** IF and FOR rewrite the node of the list they were
  called with, FOR runs it many times, and several frames point into the same list.
* **Clones.** Threads that write to pipes other threads read, are joined or detached by four
  callers in four ways, end by two paths that close different things, and share a lock.
* **Scripts that change on disk** while they run, or call themselves.
* **Scopes.** SETLOCAL, CALL and DEF each save the environment in a different way, and nest.
* **Texts that are read again.** A line is expanded, cut into commands, cut into words, and put
  together for a clone or another interpreter, which does the same with it; what is quoted or
  escaped in one pass must be so in the next. IF expressions and token lists are cut in place.
* **Other processes.** The commands make a list of files and go through it with questions in
  between; every `fork` hands the open descriptors of all threads to the child.

What makes each component correct: the interpreter runs nothing between a GOTO and its target,
and an EXIT /B ends exactly its own batch; a line leaves the streams as it found them, no closed
`FILE *` stays reachable and none leaks; lists of lines are freed once and never used after; the
stages of a pipe see the end of their input when the writer ends, and no stage waits for ever;
the script cache gives the lines of the file in order, and CALL gives the caller its own
position back; after ENDLOCAL the environment is what it was at SETLOCAL; POPD returns where
PUSHD came from; a line is the commands and words it was written from; a command removes no file
that was not named or was refused, and has done its work when it reports success; a program that
could not be executed is reported as such, and RunFile returns when its own program has ended.

<a name="plan"></a>
## 2. Plan

| # | module | content | properties, refinement, theorems |
|---|---|---|---|
| 1 | `Interp`, `MCInterp`, `InterpProofs` (**done**) | the interpreter thread: call stack, lines, streams, abort, error level | see below; all safety properties proved |
| 2 | `Clones`, `MCClones`, `ClonesProofs` (**done**) | the threads of the process, pipes as bounded buffers, duplicated descriptors, how a clone ends, the lock of ECHO | see below; all safety properties proved |
| 3 | `Scripts`, `ScriptCache`, `Reader`, `MCScriptCache`, `ScriptCacheProofs` (**done**) | GetLine in both modes, reload, labels, CALL's save and restore of the input | refinement of `Reader`; all properties proved, the refinement too |
| 4 | `EnvStack`, `Scopes`, `Arguments`, `CmdList`, `Modules`, `DirStack`, `Strings`, composed in `MCScopes`, `EnvStackProofs`, `ThreadProofs`, `DirStackProofs` (**done**) | what a thread keeps from line to line | refinement of `Scopes`, and every other property of the run but `FindsCommands`, proved |
| 5 | `ForTokens`, `ForLoop`, `Conditions`, `Texts`, `Expand`, `Parse`, `StartUp`, `SetA`, composed in `MCText`, `ForLoopProofs` (**done**) | what becomes of a line | texts against what they were written from; liveness of FOR; the safety of the loops of FOR and the meaning of their token lists proved. The rest is recursive definitions over texts, model-checked |
| 6 | `Globs`, `FileCommands`, `Filters`, `RunFile`, `Completion`, `Console`, composed in `MCOutside`, `RunFileProofs` (**done**) | files, programs, the keyboard, text on Windows | results told without the search; liveness of RunFile; `ErrorReported` of `RunFile` proved |

`Interp` comes first because every script goes through it. `Clones` uses its interface only
(a clone interprets a program, then returns or exits); `ScriptCache`, `EnvStack` and `Arguments`
follow the CALL structure of `Interp`, each as a module of its own whose actions are the calls
`Interp` makes, so that each can be checked and proved apart. What the commands of the other
modules do to each other goes through `Interp` as well: none of them has state that another one
changes, except where the table of a section says so. That is why three MC modules run several of
them side by side: a behaviour of `MCScopes`, `MCText` or `MCOutside` is a behaviour of one of its
*parts*, and each part has its own properties. The parts with theorems are extended by their MC module,
so that the run checks the very formula that is proved, and the assumptions on the constants as well; the others are
instantiated. `StartUp` uses the parser, `CmdList` is extended by
`Modules`, and `FileCommands`, `Filters` and `Completion` use the search of `Globs`.

<a name="interp"></a>
## 3. Module Interp

### State

| variable | code |
|---|---|
| `frames` | the C call stack, innermost first: function, point in it, and its locals. `list`/`pos` is the local `line` of RunParsedLine (`lpplLine` of IF and FOR), `lock` the saved lock bit, `look` the test for IF/FOR of ExecOperators, `todo` the redirections still to open |
| `lines` | the `PARSED_LINE` lists of the RunLine calls in progress (and of the THEN part of an IF with ELSE) |
| `stack`, `cur`, `open` | `lppsStreamStack`; `fInput`, `fOutput`, `fError`; the `FILE *` that are open |
| `abort` | `bAbortCommand`: `line_end` is `PBAT_ABORT_EXECUTION_LINE_END`'s value 2, `level` is `PBAT_ABORT_EXECUTION_LEVEL` |
| `err` | `iErrorLevel`, zero or not |
| `phase` | where main() is: `pBat_Auto.bat`, the line of `/C` or `/K`, the script, after pBat_Exit |
| `raised`, `lost` | history: who raised `abort` at which depth of RunBatch; whether a failed redirection dropped the stack |

### Actions

| code | actions |
|---|---|
| RunBatch | `GetLine`, `BatchLineRan`, `EndOfBatch` |
| RunParsedLine with ExecOperators, ExecOutput | `ExecOperators`, `LaunchPipe`, `PipeFails`, `ExecOutput`, `StartCommand`, `PopUntilLock`, `FinishNode` |
| RunCommand | `RunProc` (any command without an action of its own), `CmdFails` |
| GOTO, EXIT | `CmdGoto`, `CmdGotoNoLabel`, `CmdGotoEof`, `CmdExitB`, `CmdExit` |
| `(...)` | `CmdBlock`, `RunBlockLine`, `BlockLineRan`, `EndOfBlock` |
| IF | `CmdIfTrue`, `CmdIfElse`, `CmdIfNothing`, `CmdIfBadOperator`, `CmdIfRan` |
| FOR | `CmdFor`, `CmdForError`, `CmdForBadInput`, `ForIterate`, `ForIterated`, `EndOfFor` |
| CALL | `CmdCallFile`, `CmdFails`, `CallReturns` |
| main | `Init`, `RunSwitchLine`, `RunScript`, `MainEnds`, `FreeStreamStack` |

A script is any sequence of lines of the constant `Lines`, each block and each called batch too:
the contents of a block are chosen when it runs, not when it is parsed. This covers every
script made of these lines, loops of any number of iterations, and jumps to any label.
A condition, the success of a command and the success of an open are choices.

### Constants and bounds

`Lines` is the set of parsed lines; `Handles` the `FILE *` the process can have open, and when
none is left every open fails; `MaxDepth` bounds the C stack: at that depth only simple
commands are read, so that a behaviour always can return. Depth 5 holds a line in a block (or
the body of a loop) in a line of the script; depth 7 a line in a CALL from a loop or a
condition. `MayFail` lets opens fail while handles are left. The theorems hold for all values.

### Fairness

`FairSpec` is weak fairness of `Next`: the interpreter is one thread that in this model never
waits for another one (the stages of a pipe are detached clones, external programs are
`RunProc`). No fairness of a choice is assumed: a script may loop for ever, and `AbortClears`
has to hold all the same.

<a name="clones"></a>
## 4. Module Clones

What `Interp` leaves out: the other threads. A clone has its own `fInput`, `fOutput` and stream
stack; what the threads share is descriptors, pipes, and `mEchoLock`.

| variable | code |
|---|---|
| `status`, `detached` | the threads: free, running, in pBat_Exit (having returned to CloneTrampoline, or by EXIT), ended and not joined yet; whether pBat_CloseThread detached it |
| `calls` | the C stack of a thread: a block of commands, CmdForF with the pipe it reads and the clone it waits for, ExecOperators with `lastin`, a WaitForThread |
| `in`, `out`, `saved` | `fInput`, `fOutput`, `lppsStreamStack`: `FILE *` are handles |
| `fd`, `buf` | what a handle is open on; how many writes a pipe holds |
| `echoLock`, `phase` | the owner of `mEchoLock`; whether the process runs, exited, or crashed |

| code | actions |
|---|---|
| ECHO and other commands that print | `LockEcho` (ECHO only), `Write` |
| FIND, MORE, SET /P | `Read`, `ReadEof`, `ReadNull` |
| `foo.bat`, START /B, START /B /WAIT | `CloneInstance` |
| FOR /F over a command | `CmdForF`, `ForGetInputLine`, `ForNext`, `ForCloseInputInfo` |
| a pipe | `ExecOperators`, `LaunchPipe`, `LastCommand`, `PipeEnds` |
| failures of CloneInstance | `CloneFails` (no thread, pipe or descriptor left), `CloneNull` (NULL `fInput`) |
| joining a thread, the end of a block | `WaitForThread`, `BlockEnds` |
| CloneTrampoline, EXIT, pBat_Exit, main | `CloneReturns`, `CmdExit`, `FreeStreamStack`, `CloneEnds`, `ExitEnds`, `MainEnds` |

The commands of a clone are a *program*, a short sequence of the operations above, given by the
constants `Programs` and `Code`; `Scripts` are the programs main() may be given. A pipe holds
`Capacity` writes: a write to a full pipe waits as long as somebody can read it, a read from
an empty one as long as somebody can write to it. An output is written at once: what a `FILE *`
buffers only moves the write to a later command of the same thread. `fclose`, `fileno` and a
read on a NULL `FILE *`, which is what the first stage of every pipe has as its input, are
undefined; the model lets them either end the process, as glibc does, or be refused, as msvcrt
does. `fError` goes the way of `fOutput` and is left out.

In a pipe of three commands nobody reads what the first one writes: LaunchPipe opens `lastin` as the input of the
next stage only if there is none (`pBat_Run.c:210`), and then forgets it. `NoOrphan` has this exception, and that of EXIT
in a clone, which leaves CmdForF and ExecOperators without their ends.

**Fairness.** Weak fairness of each thread, because the operating system schedules them all.
The lock is not assumed to be fair, and no run needs it.

<a name="scripts"></a>
## 5. Module ScriptCache

Where `Interp` chooses the next line freely, `ScriptCache` is about which line it is. `Scripts`
defines what a text is (labels and command lines, some of which open a block that a later one
closes) and where reading and jumps lead in it. `ScriptCache` is the code. `Reader` is what the code
promises, without caches or modes: a stack of levels, each a file and a line.

| variable | code |
|---|---|
| `files` | the files on the disk |
| `lists` | the heap: the lists of commands and labels, each by its address, with the text it was loaded from |
| `in`, `saved` | `ifIn` and the variables `ifOldFile` of the CALLs in progress: file, `iPos`, `bEof` and the `batch_script_t` (name, `cpy`, list, `curr`) |
| `cmdly` | `bCmdlyCorrect` |
| `line`, `phase` | what RunBatch is doing; whether the process goes on |
| `sure` | history: the levels that know where they are |

| code | actions |
|---|---|
| pBat_GetLine with UpdateScript, Open-, Load-, Reload-, CheckBatchScriptChanges | `GetLine` |
| pBat_GetLine_Cmdly | `GetLine_Cmdly` |
| GOTO with JumpToLabel, JumpToLabel_Cmdly; `/F` | `CmdGoto`, `CmdGotoEof` (also EXIT /B) |
| CALL of a file, a label, a label in a file | `CmdCallFile`, `CmdCallLabel`, `CallFails`, `CallReturns` |
| RunBatch | `EndOfLine`, `MainEnds` |
| SETLOCAL CMDLYCORRECT | `CmdSetLocal` |
| other programs, commands that write the script | `Edit` |
| a malloc that fails | `OutOfMemory` |

A line runs any number of commands, in any order. Every `fopen` may fail. `err`, which
CheckBatchScriptChanges reads uninitialised on Unix, makes a changed script look unchanged or
not as it likes. The variable `script` that JumpToLabel frees uninitialised may be harmless, or
the process is not followed any further (`phase = "undefined"`).

**The refinement.** `ReadsInOrder` is `Reader`'s specification with `levels` computed from `in` and
`saved`: a level is at `curr` if its script is loaded, at its first command if it is not, after
`iPos` with CMDLYCORRECT. A level whose file is modified, or during which the mode is switched, has
lost its place and is mapped to line 0, until a jump that looks at the file itself; the code
does what it can for such a level (reload, same command number), but promises nothing. What is
checked is that *only* these levels are affected: a caller keeps its place whatever
its callee loads, jumps to, reloads or switches between, and a callee that shares its caller's
list may reload it under it. The exception `Reader` makes for a file that calls itself is the
finding `doc_call_self`.

Positions are counted in lines also where the code counts bytes; a level that reads a modified file
from the middle of a line has lost its place anyway.

<a name="scopes"></a>
## 6. What a thread keeps: `MCScopes`

| module | code | state | actions |
|---|---|---|---|
| `EnvStack` | `pBat_Env.c`, `pBat_EnvStack.c`, SET, SET /P, SETLOCAL, ENDLOCAL, the call of a macro | `env` (the sorted array, with the values that a variable hides), `saved` (`lpesEnv`), `opts`, `macros` | `CmdSet`, `CmdSetP`, `CmdUnSet`, `CmdSetLocal`, `CmdEndLocal`, `CallDef`, `ReturnDef` |
| `Scopes` | what SETLOCAL and ENDLOCAL promise | a value for each name, a stack of copies | `Assign`, `OpenScope`, `CloseScope` |
| `Arguments` | the line of CALL, `pBat_CmdCallFile`, a batch file run by its name, SHIFT | `args` (`lpvArguments`), `callers` | `CmdCall`, `LaunchExternalBatch`, `Return`, `CmdShift` |
| `CmdList` | `pBat_CmdList.c`, DEF, the registration of a module's command | `tree` | `CmdDef`, `ModRegisterCommand` |
| `Modules` | `pBat_Mod.c`, `pBat_Module.c`, the copy of the commands for a thread | `modules`, the line of MOD, the trees of two threads | `CmdMod` and its steps, `CloneInstance`, `EndClone` |
| `DirStack` | CD, PUSHD, POPD, `pBat_Canonicalize`, `pBat_DirStack.c` | `cwd` (`lpCurrentDir`), `stack`, and `dirs`, which others change | `CmdCd`, `CmdPushd`, `CmdPopd`, `Mkdir`, `Rmdir` |
| `Strings` | `pBat_EsCache.c`, `pBat_Estr.c` | lengths and sizes, the bitmap, a line that is read | `EsInitCached`, `EsInit`, `EsFreeCached`, `EsCpy`, `EsCat`, `EsGet`, `Fgets` |

**The environment.** Deleted variables stay in the array without a name and are compared with the
names by a truncated pointer, so that a binary search may miss a variable; `nullsFirst` is where they
are sorted, which depends on the heap, and `unsure` is history: such a search may have missed.
`ImplementsScopes` is the specification of `Scopes` with the values of the ordinary variables and of
those in the saved environments: whatever macros start and return in between, SET changes one
variable, SETLOCAL saves all of them and ENDLOCAL brings them back. `BSearch` is the loop of bsearch (`Narrow`);
`TypeOK` says that it finds a slot without a name for every new variable as long as there is one, so that the array
stops growing.

**The directories.** `Canonicalize` is the loop of `pBat_Canonicalize` (`Turn`) on the tokens of a path, `Walk` what the
system does with a path, a token at a time. `GoesThere` compares the two: CD goes to the directory the system finds at
the path, and what it keeps of it is a canonical path; a path that climbs above the root is left out
(`ClimbsOut`), because the code cuts it there. Other programs make and remove directories at any time.

**The arguments.** `given` is history, the whole list of each level, told without digits:
`ShowsTheList` says that after any CALLs and SHIFTs the digits show the first ones that are left, in
order, and `%+` the others, at the level that runs and at each level it will return to. A line of CALL is read word
by word (`ReadWord`), the list it gives is told without that (`Target`, `Behind`).

**The commands.** A node of the tree has a name, the length to compare and what it runs;
`FindsCommands` is checked for trees in which no name starts below a delimiter and none was
replaced by a longer one, because for others the code does not hold it (see the findings).
What lies behind the end of a line in memory is a choice (`past`).

**Bounds.** Three variables, one of each kind (ordinary, local, and one with a small letter, which is behind `_`), two
contents, two scopes and two macros, three SETs: SETLOCAL in a macro, ENDLOCAL behind it, with a
variable deleted in between. Digits 0 to 2 and four arguments, so that `%+` holds some; lines of CALL with a label, a file, both, several `/E` and
empty words. Seven
commands, with names that are prefixes of each other. Two modules that load, one that is not there,
one for another version, one by two spellings, two clones one after the other. Four directories,
a stack of two and two changes of the tree. A cache of two words of one bit each with strings of two
bytes: enough to fill the cache, to allocate beyond it and to double a size twice.

<a name="text"></a>
## 7. What becomes of a line: `MCText`

| module | code | state | actions |
|---|---|---|---|
| `ForTokens` | the options of FOR /F and the cut of a line in tokens | none, operators | |
| `ForLoop` | `pBat_For.c` | `lvars` (`lpvLocalVars`), the frames of the loops, open files | `CmdFor`, `SimpleFile`, `SimpleItem`, `SimplePattern`, `SimpleEnd`, `CmdForL`, `LEnd`, `FLine`, `FDrop`, `FNextFile`, `FEnd`, `RunParsedLine`, `Clear` |
| `Conditions` | `pBat_If.c`, `pBat_IfExp.c` | ERRORLEVEL, the line, what IF did | `CmdIf` |
| `Texts` | the searches of `pBat_String.c`: escapes and quotes | none, operators | |
| `Expand` | `pBat_Expand.c`, `pBat_Var.c`, `pBat_ExpandDef.c` | a line and the items it was written from | `ReplaceVars`, `DelayedExpand`, `ExpandDef` |
| `Parse` | `pBat_Parse.c`, `pBat_ParseBlock.c`, the parameters of `pBat_Args.c` | a line and the nodes it was written from | `ParseLine`, `Parameters` |
| `StartUp` | `pBat_Init.c`, `main`, START, the handler of CTRL+C | the words an interpreter is started with | `Start`, `SigHandlerBreak`, `Main` |
| `SetA` | SET /A and the grammar of `libfasteval` | the variables, `fmode`, what is left of the line | `CmdSetEval`, `CmdSetA` |

A character is a member of a small set, a text a sequence of them. What a text *means* is not taken
from the code: each behaviour begins with a structure (the items of a line, its nodes with their
redirections, a list of words, a tree of conditions, an expression), which a writer spells as a
line; the code reads the line, and the properties compare what it finds with the structure. Texts
that nobody wrote from a structure are tried as well (`Loose`): there the property is that no text
is lost or read twice, and that every IF expression with well-formed brackets is evaluated or refused.
`RefusesBadLists`, an assumption that TLC evaluates, says that a bad token list is refused.

| property | says |
|---|---|
| `NothingLeft` | when no loop runs, no loop variable has a value, however the loops nested, failed or were left, but for those that a token list reaches by wrapping around behind the last character (`WrapsTo`): nobody unsets these |
| `MeansItsList` | a loop with one `tokens=` list has the entries that its elements name, in their order; the first one is combined with the default entry |
| `VisitsItsItems` | FOR /L gives its variable each of its numbers, in order, and no other, unless the body aborts it; FOR /F gives each variable the words of the line that its entry names. A step of zero or below and an end at the edge of the integers are excepted |
| `LoopsEnd` | liveness: a FOR ends, unless it counts for ever (a zero or negative step, an end at the edge of the integers) |
| `FollowsBrackets` | an IF expression runs the branch its value calls for; two opposite comparisons never agree |
| `MeansItsItems` | no item of a line takes a part of the next one, what is escaped or was expanded is not expanded again; a cut is the part of the value that the manual says, but for a length of 0 (`NoLength`) and a position from the end with too great a length (`FewBefore`) |
| `ParsesWhatIsWritten` | the nodes of a line are those it was written from, but that a node with `2>&1` or `1>&2` no longer knows which; the nodes of any line, put together, are the line |
| `WordsComeBack` | words in quotes are the parameters of their line; the words a script is given are what `%1`, `%*` and `%+` hand on; an interpreter that START or a break starts has the modes and the words of the one that started it. A first word in quotes is the title for START (`BehindTitle`) and is not handed on |
| `Evaluates` | floating-point expressions are not rounded on the way, `x op= e` does what `x = x op (e)` does, operators bind by the manual's table |

**Fairness.** `ForLoop` assumes weak fairness of the end of a body without a jump and of each kind of loop: a
thread runs on. A body is not assumed to jump out of its loop.

**Bounds.** Five loop variables and three tokens, two loops inside each other, 4-bit integers for FOR /L,
so that the edge of the integers is met; a token mask has three bits. Expressions of IF of up to
five words, and all trees of two levels. Lines of two and three items, each with every other one
beside it. Lines of one to three nodes, every text of five brackets, operators and blanks, and every
text of four redirections, quotes and escapes. Two switches and three words on the command line, START
with one to three words and every set of modes. SET /A with every operator over integers, halves and quarters
and every two operators in a row; a `long long` is 16 bits wide and an `int` 14, so that both
overflow.

<a name="outside"></a>
## 8. The world outside: `MCOutside`

| module | code | state | actions |
|---|---|---|---|
| `Globs` | `pBat_DirEntry.c`, `pBat_Attr.c` | none, operators: the search of files, the pattern of a name, the attributes | |
| `FileCommands` | COPY, MOVE, DEL, RD, MD, REN, DIR | the tree of files, the list and what is left of it, the answers | a search action for each command, then one for each thing it does to a file: `Check`, `Answer`, `EndOfInput`, `DeleteFile`, `RemoveDirectory`, `Move`, `Copy`, `Cat`, `Rename1`, `MakeDir`, `List`, ...; `ShortWrite` is a copy whose `write` is short once and fails the next time; `Other` is another process |
| `Filters` | TYPE, WC, FIND, MORE, XARGS | the lists of files, the output, the counts, the screen of MORE | `Start`, `TypeFile`, `WcFile`, `FindFile`, `Xargs`, the steps of MORE with its keys; `Vanish` is another process |
| `RunFile` | `pBat_ExecuteFile`, `pBat_RunFile`, `pBat_StartFile`, the search in PATH, START | of each thread: where it is, the child, who holds the write end of its error pipe | `RunExternalCommand`, `CmdStart`, `Pipe`, `Fork`, `ForkFails`, `CloseWriteEnd`, `Read`, `Wait`, `StartFile`, `StartFails`; of a child `Prepare`, `Exec`, `ExecScript`, `End` |
| `Completion` | `pBat_Completion.c` and the handler of `linenoise.c` | the line, the cursor, the directory | `Tab`, `PrintCompletionList`, `Answer`, `Other` |
| `Console` | `libcu8`, on Windows: `libcu8_fgets` and what it calls, `libcu8_fputs`, what forgets the bytes that wait | `buf`, `pos`, `orig` are the line, the cursor and its room; `remain` and `remainder` the bytes that wait; the history; `ideal` and `lines` are the characters the user sees | `Fgets`, `ReadFile`, `Press` and `Repeat` with an operator for each key, `Fputs`, `Fflush`, `Fopen`, `Fseek`, `OpenPipe` |

| property | says |
|---|---|
| `ListsEachOnce` | a search finds what its name means, told without a search, each entry once and in an order in which directories can be emptied; TAB adds what the names have in common, all of it, and loses nothing of the line |
| `OnlyNamed` | no command removes or changes a file that was not named, or that the user refused |
| `SuccessMeansDone` | a command that ends well has done all it was told to, but what the user refused, when no other process changed the tree and no write was broken (`disturbed`) |
| `FiltersKeepText` | TYPE, MORE and FIND show the text they are given and nothing else, WC counts it, the lines that XARGS reads are the parameters of its command; bytes read or written by pieces of any size are those of the text, the line that is edited is the one the user sees, and the history has the lines that were typed (`Console`) |
| `ErrorReported` | the program that runs is the first one of the search; of RunFile: an error is reported only when nothing was executed, what RunFile was to execute and reported no error for was executed; the status of a program that was waited for is its own |
| `RunsEnd` | liveness: RunFile returns, unless it waits for a program that never ends |

The exceptions the code makes are part of the properties, each with its name (`OverEachOther`, `OnItself`,
`Counting`, `Catenated`, `Held`; in `Console` the actions that clear `sure`), and are listed with the findings.

**Fairness.** `RunsEnd` assumes weak fairness of each thread and of each child: the system
schedules them all. A program with the status `Never` has no fair end, and neither `fork` nor
`exec` is assumed to succeed.

**Bounds.** Every command with every set of its switches over a tree of fourteen entries on three levels,
with a directory that may not be written, a read-only file, an empty one and another
device; every pattern of up to three characters against every name of up to three. Another
process changes the tree, or one write is broken, at most once, between any two steps and at any byte. Five texts for the filters, with lines that are as
long as the screen is wide, longer ones, tabs, and blank lines at the borders. Two threads that
run or start programs at once, with a PATH that names a directory twice, from five places, one of them killed and one that never ends. Lines of up to three
characters and two longer ones with the cursor anywhere, every directory of five names, one change of it
and two TABs. For `Console` characters of one, two and four bytes and a half of a pair; files of up to four bytes, well formed or not, and longer ones,
read into buffers for one byte and for four, four calls; four keys in four calls with a history of two lines, which overflows; five bytes written by pieces.

<a name="runs"></a>
## 9. Runs

| run | checks | shows |
|---|---|---|
| `redir` | `TypeOK`, `NoLeak` | four lines that redirect blocks, loops, conditions, calls and pipe ends with `2>&1` and `1>&2`, nested to depth 5 with 16 handles (never exhausted): only the three standard streams are open at the end |
| `control` | `QuietAbort`, `AbortLevel`, `AbortClears` | GOTO, GOTO :EOF, EXIT /B, EXIT under FOR, IF, IF/ELSE, blocks pipes and CALL, to depth 7: while unwinding no command runs, no redirection is made and no function is called, but that the pipe behind the next operator is set up and its first commands are started; the unwinding stops at the RunBatch it must, and always stops |
| `fail` | `NoDangling`, `StreamsRestored` | as `redir` with six handles and opens that fail or succeed: the loop that ran a line finds its streams as they were; no closed stream is ever reachable, and if the failed redirection was the only one in force, everything is restored |
| `clones` | `TypeOK`, `OwnStreams`, `JoinedOnce`, `NoOrphan`, `Finishes` | sixteen programs: FOR /F over a batch file, over START /B, over FOR /F, over a pipe; pipes with a writer that fills them, a reader that stops early, a FOR /F on both sides; EXIT in the clone that owns the pipe. No `FILE *` is used by two threads, each clone is joined or detached once, only EXIT and a pipe of three commands leave a descriptor without owner, and the process ends |
| `scripts` | `TypeOK`, `NoFreedList`, `OneOwner`, `NoLeak`, `ReadsInOrder` | two files that call and jump into each other, three levels deep, in both modes, with one modification or deletion and one change of mode at any point: lists are freed once, and only a failed CALL of a label loses one; reading implements `Reader` |
| `scopes` | `TypeOK`, `Restores`, `ImplementsScopes`, `ShowsTheList`, `FindsCommands`, `GoesThere`, `PopdReturns`, `StringsFit` | what a thread keeps, over every order of a few commands: scopes and macros nest, the arguments of a level survive its CALLs, a command that is in the tree is found, CD goes where the system would, POPD returns, texts fit in their strings and a string has one user |
| `text` | the nine properties of section 7 | every line of the bounds of section 7, each from what it was written from to what the interpreter makes of it |
| `outside` | the six properties of section 8 | 1.5 million states of commands that change files, programs of two threads, filters, TAB, and text on Windows |
| `doc_*` | one property each | the findings below |

`NoLeak` is checked where redirections succeed; `lost` in `StreamsRestored` and `NoLeak` excludes
the behaviours that already went through the first finding, which has a run of its own without
that exclusion. Each property of the passing runs is broken by a mutant of one of the
modelled definitions (a pop that forgets the copied stream, a lock that is never set, a FOR
that joins its clone before it closes the pipe, a clone that keeps its output open, ...).

Bounds of `clones`: three clones besides main, so that a clone of a clone exists while a third
one starts; two pipes; twelve handles, enough for all of these and few enough to run out in the
longest programs; one write fills a pipe, so that every writer of two lines has to wait.

Bounds of `scripts`: a file is one of two texts, one with a label inside a block, one without labels
and with a block that is never closed, of different sizes and numbers of lines, or does not exist.
Three levels, so that the middle one can share the list of the outer one and be shared by the inner
one. Three lists: one for each level; a jump to another file at the third level, or a list that was
lost, exhausts them, which ends the process. One edit and one switch disturb each level at most once,
at every point of every behaviour.

<a name="findings"></a>
## 10. Findings

Each is a run that TLC ends with a counterexample to what the manual or a comment says;
`PROJECT.json` quotes the sentence.

| run | the code |
|---|---|
| `doc_restore` | after `( echo a > /no/such/file ) > g.txt` the whole stack of redirections is forgotten: output goes to `g.txt` for good |
| `doc_for_if` | `for %%a in (1 2 3) do echo %%a & if %%a==1 echo ONE` prints ONE three times: the IF has been rewritten |
| `doc_for_echo` | `for /f %%a in ('...echo...') do echo %%a` deadlocks when the command has filled the pipe: it holds `mEchoLock` while it waits for FOR to read |
| `doc_call_self` | a file that CALLs itself is not run from its first line: the callee goes on after the CALL |

The following can be read off a few lines of code and have no run of their own. The modules model all of
them as the code does them (those marked * are outside the models), and where a property has an exception for one, its comment
says so. The manual is `man/en_US`.

**Control flow.** In `a | b | c`, `b` does not read what `a` writes, and `a` runs on a NULL input, because the
test of `infos->in` is inverted (`pBat_Run.c:210` against `condop.tea:63`). A `pBat_Auto.bat` or a `/K`
line that ends with `exit /b` also ends the script main() runs next (`pBat.c:176` against `exit.tea:13`).
`goto x & a | b` starts `a` (`pBat_Run.c:312` against `goto.tea:49`). In `a | if x b | c` the IF is
run by a clone as an ordinary stage (`pBat_Run.c:187` against `condop.tea:99`). In `a || for ... do b`
the `||` is applied again to every iteration (`pBat_Run.c:142`, `:816`). The code of `if 1==1 exit /b 4`
is overwritten with 0 (`pBat_If.c:434`), and `exit 5` exits with 0, because the text after the argument
is parsed (`pBat_Exit.c:94`)*. `1>&2` and `2>&1` alone are ignored when nothing is redirected to a file
(`pBat_Parse.h:50`); both constants have the same value (`:49`), so that a node does not know which of them was written
(against `red.tea:94`). Nobody waits for the commands of a pipe, so that the process can end before them
(`pBat_Run.c:188` against `condop.tea:68`). `for /f %%a in ('foo.bat') do ...` never ends if
`foo.bat` ends with EXIT: the duplicate of the write end that its clone holds is not closed
(`pBat_Exit.c:104` against `for.tea:101`).

**Scripts.** `goto nowhere` frees an uninitialised structure (`pBat_Jump.c:84` against
`goto.tea:53`); a GOTO to a missing label changes ERRORLEVEL (`pBat_Goto.c:117`). Switching CMDLYCORRECT twice does not restart the script but
goes back to an earlier position (`pBat_Read.c:97` against `parse.tea:44`). With `/E`, CALL swallows a second label or a second file
and leaves only the switch out of the arguments (`pBat_Call.c:133`). SHIFT does not know `/7` (`pBat_Shift.c:71`).

**Environment.** ENDLOCAL does not bring the options back to what they were (`pBat_Setlocal.c:76` against `endlocal.tea:28`) and
ends scopes that a caller opened (`endlocal.tea:35`); a macro changes the `_` variables of its caller when
the search for them misses, because of a deleted variable or a name that begins with a small letter (`pBat_Env.c:45` against `def.tea:117`). DEF replaces commands by comparing with the length of the name that is
defined, so that a new name may take the place of a longer one (`pBat_CmdList.c:286`); in a tree with names that
start below a delimiter a command can be missed (`:202`). `cd /../usr` goes to `/`, `cd /x` falls back to `x` in the current
directory, POPD drops its entry before it knows that the directory is there (`pBat_Pushd.c:110`).
The list of modules belongs to the process and the commands to the thread: a module loaded in a clone can
never be loaded in the main thread (`pBat_Mod.c:189`); the names of modules that differ in case are one, on Unix too.

**FOR.** `tokens=2` yields the third token, because the first entry is combined with the default one
(`pBat_For.c:862`). Empty lines are skipped (against `for.tea:109`). A file of the input that is missing behind one that is
there closes a null pointer, and every file that was read stays open. `for /l` with a negative step runs nothing, or for ever
(`:536`). Nested FOR /F overwrite the variables of the loop around when token lists wrap around.

**IF.** NOT is ignored in front of EQU and its like and of `[ ]`; `if errorlevel` tests for equality and reads a null pointer when ERRORLEVEL
is not defined; `""=="0"` holds; the comparison is not transitive over numbers and words; OR binds tighter than AND
(`pBat_IfExp.c:351` against `if.tea:173`); `IF [ AND ...` and an unclosed `[` use words that are gone, which is why
`NeverLost` asks for brackets that match.

**SET /A.** `x&&=1` reads the variable `x&`; `!` cannot be reached (`seta.tea:105`); `|`, `^` and `||` bind alike, and `&` and `&&`, against the
manual's table; the value of an assignment made before an error stays; a division by zero ends the interpreter
(`parser.c:1221` against `seta.tea:81`); `fmode` keeps the mode of an expression that failed.

**Expansion and parsing.** `%v:=x%` never returns; a length of 0 is none, so that `%v:~0,0%` is the whole value (`pBat_Var.c:277` against `exp.tea:92`), and a position from the end
with a length greater than the number of characters in front of it gives nothing, as `%v:~-2,2%` of a value of three (`:237`); variables whose names start with a digit are read as arguments; parameters of a
macro that hold a dollar are replaced again (`pBat_ExpandDef.c`). `^>&` makes `&` part of a redirection; `2>&2`
acts as `1>&2`; behind a block any bracket starts another one.

**Start-up.** A script with an absolute path on Unix is taken for a switch, so that START cannot run it
(`pBat_Init.c:312`). `pbat /C "echo hello"` looks for a program of that name. START drops quotes: `start echo "a&b"` runs two commands;
it does not hand on delayed expansion, which a break does. The switches `/i` and `/o` of `pbat.tea` do not exist.

**Files.** Two files of one pattern are copied over each other, and not put together (`pBat_Copy.c:286` against `copy.tea:50`); `/Y` does nothing and
`/-Y` silences (`copy.tea:28`); a file copied on itself is emptied, moved on itself it is gone; `del d` deletes the files of a directory
without a question, RD of a single directory ignores the result, MOVE between devices removes the destination first, and
MOVE /R reports the result of removing a directory; at the end of the input a question is asked for ever. A `*` at the end
of a pattern takes a character or more, a `?` behind a `*` counts for nothing, `*a?b` tries the first place only. An attribute `-I` or `-S`
tests the wrong flag. When `write` is short and then fails, the -1 is added to the count of what was written: the copy goes on a byte
earlier and writes it twice, without an error (`pBat_Copy.c:567`, `:671`).

**Filters.** TYPE forgets files between the first and the last argument; WC does not count a word that
ends with its file; FIND and MORE close a null pointer when a file cannot be opened; MORE loses blank lines behind a full one
and keeps its state from file to file (`pBat_More.c:371`).

**Programs.** A program that was killed has ended well (`WEXITSTATUS`); the child of StartFile keeps the error pipes of other threads
open, so that they wait for the program that was started (`Held`); when `exec` fails, the start script is run in its place; START of a file that this cannot execute either returns 0, or the
status of that child with `/WAIT` (`pBat_Exec.c:598`), which is why `ErrorReported` asks for an error of RunFile only; a child that failed
is never reaped; a CTRL+C that is answered with N interrupts the `read` on the error pipe (the handler is set without `SA_RESTART`,
`pBat.c:98`), and a program that runs is reported as one that could not be executed (`pBat_Exec.c:355`)*, or `waitpid`, and its status is not its own*; `fclose` and `fflush` in a child may write what its parent has buffered*.

**TAB.** A directory that is emptied between the two searches crashes the handler (`pBat_Completion.c:233`); a file with the
name of the word is not offered; names that spell the word in another case have nothing in common; the line behind the cursor is moved with
`memcpy`, which may spoil it.

**Text on Windows** (`libcu8/src`). The arrow keys move by a byte, also into a character (`read.c:337`); a character that does not fit behind the
cursor trips `assert(cursor <= size)` (`:648`), the down key without a history reads in front of it (`:412`), a line of the history
that fills the buffer is taken at once. The history has 50 entries, and then moves 49 bytes instead of 49 entries (`:929`), which leaves a broken
pointer to be freed later. When the input ends right behind a character that was split, its second half is lost (`:115`); a byte that
begins a character swallows those behind it, a newline too, when it is none. `IS_SURROGATE` holds for letters that are none (`:796`): they are
dropped. A pipe made by `_pipe` finds what was left for the last file of its descriptor (`pBat_Pipe.c:55`), and a flush between the bytes
of a character forgets its beginning (`fdio.c:278`).

<a name="proofs"></a>
## 11. Proofs

TLC checks small instances; the theorems hold for **every** value of the constants: any lines,
handles, depths, threads, pipes, programs, texts, names and words.

| module | theorems | about |
|---|---|---|
| `InterpProofs` | `TypeCorrect`, `QuietAbortHolds`, `NoDanglingHolds`, `NoLeakHolds`, `AbortLevelHolds`, `StreamsRestoredHolds` | the C stack, what is started while unwinding, the streams, what a return gives back to the callers |
| `ClonesProofs` | `SpecInv`, `TypeCorrect`, `OwnStreamsHolds`, `JoinedOnceHolds`, `NoOrphanHolds` | who owns a `FILE *`, who waits for a clone, who closes a descriptor |
| `ScriptCacheProofs` | `SpecInv`, `TypeCorrect`, `NoFreedListHolds`, `OneOwnerHolds`, `NoLeakHolds`, `ReadsInOrderHolds` | the lists of the scripts: freed once, by one owner, never used after; `ScriptCache` implements `Reader` |
| `EnvStackProofs` | `ScopesImplemented`, `RestoresHolds`, `TypeCorrect` | `EnvStack` implements `Scopes`; a macro gives back the variables it hides; the array stops growing |
| `ThreadProofs` | `ShowsTheListHolds`, `StringsFitHolds` | the digits and `%+` after any CALLs and SHIFTs; sizes and users of the dynamic strings |
| `DirStackProofs` | `GoesThereHolds`, `PopdReturnsHolds` | what is left of a path, where CD goes to, where POPD comes back to |
| `ForLoopProofs` | `NothingLeftHolds`, `VisitsItsItemsHolds`, `MeansItsListHolds` | whose the loop variables are, the rounds of FOR /L, the words of FOR /F, what a token list selects |
| `RunFileProofs` | `ErrorReportedHolds` | what is reported of an external program |

With these, every safety property of the runs `redir`, `control`, `fail`, `clones` and `scripts`
is a theorem, and of `scopes` every property but `FindsCommands`; of `text` the three of FOR are,
and of `outside` what is reported of a program.

**Assumptions.** Those the modules state about their constants (`ASSUME`, evaluated by TLC in the
runs): lines are not empty and made of nodes, the standard streams are three different handles,
programs, texts and the order of the names are sequences, NULL is no handle, thread or file, bounds are numbers.
`StringsAssumption` says that doubling the default size reaches every length of a text. `TreeAssumption` says that the
directory a directory is in is in the tree too, and that no directory is called `.`, `..` or `/`; `AskedAssumption` that the paths given to CD are
written with a separator between two names. `CommandsAssumption` says what a FOR line is once it is parsed: a variable of ASCII, options
the code tells apart, numbers that are ints, texts that are sequences; and that a FORINFO has no more than one entry beyond
the number of loop variables (96 and 95 in the code). None of them bounds anything, and the theorems have no other hypothesis.

**Every invariant was first checked by TLC**, as an invariant of a run of the same module:
`LevelInv` and `RestoredInv` of `Interp` on lines of the runs `control` (25 000 states) and `redir` (8 000), `Halted` on those of `control` (130 000),
that of `ScriptCache` on 600 000 states, that of `RunFile` on 57 000, `RInv` of `EnvStack` on 3.5 million (two local names, three macros, two
scopes) and its `TInv` on 850 000, `ShowsTheList` on 220 000, that of `Strings` on 180 000, that of `DirStack` with the run `scopes`. Several
were wrong at first, and the counterexamples are the clauses that look odd below.

### `Interp`: the C stack

`TypeOK` is not inductive: a function that returns to a frame with a node past the end of a
list, or into a list that was freed, leaves the types. `Inv` adds to the types what makes the C
code safe to return through: every frame that will still use its node points to an existing node
of an existing list; a frame that owns a list is above all the frames that use it and lists are
freed in the order of the calls; a frame below another one is at a point where it waits for it; IF
and FOR were called by a RunParsedLine that will pop its streams next. `CallsStep` proves this
action by action from lemmas on the four changes the call stack can undergo (`ReplaceTop`,
`PushFrame`, `PopFrame`, `ChangeLines`).

`QuietAbort` says of each step that is taken with the flag set that it only unwinds: no frame comes to a
redirection or a command, none is called above another one, and nothing is opened but by `LaunchPipe`, whose RunParsedLine is left then. What
makes this inductive is `Halted`: while the flag is set the frame that runs is at no place where it redirects
or starts something, and at the head of a loop only if it is the only frame. A return cannot break it, because a frame that waits (by `Inv`) is at
a place behind its call (`TailWaits`, `HaltedHolds`). `UnwindStep` then goes through the actions: those that call or open something ask for
a flag that is not set, or for a place that `Halted` excludes, and `OperatorsDrop` shows that a RunParsedLine that finds the flag set drops its command.

`NoDangling` is not: popping an item makes another saved stream current, and closes the current
one, which must not be saved further down. `Views` says for each depth of the stack what the
streams will be once that many items are popped, and that a stream opened for an item is in no
view below it; it is preserved by pushes, pops, a dropped stack, and changes of the lock.
`NoLeak` uses the same views (`LeakInv`): the bottom one is the standard streams, and what is open
is these and one stream for each item that opened one, so that popping closes exactly what the
item accounts for.

`AbortLevel` looks at two states that may be far apart: where bAbortCommand was raised, and which
RunBatch sees it. `LevelInv` counts the RunBatch on the stack: while `abort` is `line_end` their number
is that of the one it was raised in, while it is `level` it is that number, or one less at the
only place where this is possible, a CmdCallFile whose callee has just returned and that clears it. That
needs `Chained`: below a RunBatch there is a CmdCallFile that waits for it. The exceptions for a value
raised at depth 0 or 1 are those of the start-up (a `pBat_Auto.bat` that ends with EXIT /B).

`StreamsRestored` compares the streams with those the line was entered with. `RestoredInv` gives
each frame a depth `b` in the stack of redirections: the depth it must find again. A frame returns to one
of the same depth, the innermost frame that is about to return finds the top there, and the
lock bit at a depth is on exactly when a frame that is a *holder* of that depth (it saved the bit and
set it) is on the C stack, where the bit a frame saved says whether an outer holder has the same depth.
It is the code's protocol without markers, written as an invariant: PopStreamStackUntilLock then stops at the depth
of the frame that calls it. `Given` says that what a frame was entered with is the view at its depth. A failed redirection drops the
stack; from then on (`lost`) nothing is claimed, which is the finding `doc_restore`.

### `Clones`: owners

What matters is that no two places hold the same `FILE *`, and places come and go with calls and
redirections. The proof makes them fixed: a *spot* is a thread, a variable (`in`, `out`, the saved
streams, the calls) and a height counted from the bottom of the stack, so that pushing and popping
change the top spot only. `Holds` maps spots to handles, `Waits` spots to threads; `Exclusive` (each
handle that is held is open and has one spot) and `Joinable` (each thread that is waited for is there, is
not detached, is not its own waiter, and has one) are functions of these maps alone, and the lemmas about
opening, duplicating, moving and closing are proved once for maps (`Exclusive(H, g)`), then applied to each
action. `AllAlive` adds what is true of each state of a thread: an ended one holds nothing, a running one
has an output, and a pipe whose last command runs has saved an input for PopStreamStack. `NoOrphan` is an action property: a
descriptor without owner appears in two actions only.

### `ScriptCache` and `Reader`

`IInv`: a structure has a list exactly when it has a name, and its list was not freed (`AllLive`); of two
levels that share a list the inner one is marked `cpy` (`InnerIsCopy`). That order is what makes freeing
safe: the level that ends is the innermost one.

For the refinement, `Abs` computes `Reader`'s levels. Steps are matched one by one. The mapping alone is not
enough: a level that *knows where it is* must read a file that exists and, if its list is of that file, one
that equals the file's text (`AllPlaced`), or a reload would move it; and while a command runs its
list is of the file it was read from (`AllRead`). A callee that reloads a list it shares replaces it for its caller
too: `AllPlaced` says that then the caller's file is the one that has changed, so that it already lost its place.

### What a thread keeps: `EnvStack`, `Arguments`, `Strings`, `DirStack`

`ScopesImplemented` needs nothing of how the array is sorted, which is its point: whatever bsearch answers among
deleted variables, a step on a name that is local to macros leaves the ordinary ones alone. `IInv`
says that an ordinary variable hides no value, and the types of the environments that SETLOCAL saved.

`Restores` compares a return with a call any number of steps before it, while each scope in between has its own
copy of the environment. `RInv` says for each scope, the saved ones too, what the levels of a local variable
are: those of the macros in progress that were called in that scope (`On`). `Counts` numbers them from the innermost
out, and `Hides` ties each to its level: the macro found the value one level below its own, or nothing where there
is no such level, and a mark on its own level was set by it or by a macro it called. SETLOCAL copies the
levels but no macro is `On` the copy yet, so that only the current values count there; ENDLOCAL goes back to levels whose
macros are still waiting. A macro that ends a scope it did not open is no longer
`balanced`. Its return, like a return with scopes left open or a search that missed, makes the state `unsure`: the code
then restores other levels than the macro's, and neither the property nor the invariant says more of such a behaviour.

`TypeOK` of `EnvStack` says that there are never more slots than names, which `TInv` says of the saved environments too,
or ENDLOCAL could bring back one that is not so. The step that matters is a new variable: it takes a slot without a
name, and a new slot only if it finds none. That there is none then rests on `BSearchFacts`: in an array where the
elements behind the key send the search down and those before it up (`InOrder`), `Window` holds after each turn: the elements that
may be the key are in the interval that is left, and this one is shorter than the number of turns left. The slots
without names are together, on either side of the names (`NullSlotFacts`), so the search misses none of them. The order that PushEnvLocals
searches by is *not* `InOrder` when a name begins with a small letter, which is how it misses local variables.

`ShowsTheList` is inductive once the types are added, but one step is a loop over the line of CALL: it
skips `/E`, takes a label, a file, and drops empty words. `Target` and `Behind` tell the result without the
loop. That they agree is an induction over the line, which the library's induction theorems cannot be used for (they take
an operator); instead the proof takes the *least* position at which they would differ (`LeastOf`, from
`WFMin` of `WellFoundedInduction`) and derives a contradiction.

`StringsFitHolds` needs that strings no one uses are as sound as the others (their bytes are as many as `->len` says,
with room for the NUL), because they are handed out as they are; and that a line which is being read goes to a string
someone has, with `at + room` in its bytes, before and after its length is doubled. The rest is arithmetic: a
bit belongs to one string, as `w * Bits + j` has quotient `w` and remainder `j`.

`GoesThere` is about a loop that rewrites the path it reads. `Reads` is its invariant, between the path as it was given
(`o`) and as it is now (`w`): what is before `w.at` is the canonical path of the directory `d` where the system is
when it has read the tokens of `o` before `j`, and what is behind is what is left of `o`. A turn that takes a name goes one directory down
on both sides, one that takes `..` swallows the last name as the system goes up (`TurnUp`), one that takes a dot or a
separator leaves the system where it is (`TurnName`, `SwallowLeaves`). Each turn but the last reads a token at least
(`TurnKeeps`), so the bound on the number of turns is no bound (`TurnsEnd`). `CanonicalizeFacts` is what follows for the
whole loop, and `WalkCanonical` that the canonical path of a directory leads there, or nowhere when the directory is gone. `IInv` then says that no
directory is there without the one it is in, and ties each element of the stack, a text, to the directory it was pushed in (`left`), which
`PopdReturns` needs.

### `ForLoop`

Loops share one row of variables, and a loop that runs in the body of another may use, overwrite and unset the variables of that one.
`NothingLeft` speaks of the end; `Inv` says at any time that a variable with a value is *covered* by a loop on the stack
(its own variable, or one of the `iTokenNb` of /F), or is one that a token list wraps around to. A loop that ends unsets just what it covers
(`PopKeeps`), so that what is left is covered by the others. Two more facts make this inductive: all loops but the
inner one wait in their body, and the inputs that are open are at least as many as the loops that close one (`OpenedShift` counts them through a
bijection), so that `opened` never goes below zero.

`iTokenNb` is what ForMakeTokens makes of a text nobody vouches for. `ForMakeInfoOK` follows the loops over options, over the steps of
a list (`StateOK`) and over the tokens of a range: each is a recursive function that exists because no least index is
without one (`StepsExists`), and keeps its bound because no least index breaks it (`NoneIsWrong`).

`VisitsItsItems` speaks of each round. For /L, `CountOK` keeps `i = begin + rounds * inc` while no sum can wrap, and that the last
number that was given to the body was not beyond the end. So `i` is one of the numbers, and a bijection shows that those below it are as many as the rounds
before (`NumberOfRound`): none is left out and none comes twice; at the end the rounds are as many as the numbers (`CountedNumbers`). For /F,
`EntryVariable` shows which entry a variable is split from when the entries wrap around. `NthStart` counts: the n-th place where the scan of the code
finds a word is the n-th word of the line, and behind the last one there is only the empty word at the end. `TokenIsListed` then says that
what is cut begins at the first word of the entry and ends where the last one does, or with the line.

`MeansItsList` is about a reader that goes through a text sign by sign, and a meaning that goes through its elements. `PartsOK` cuts the
steps of the reader where the elements end (`FlattenGrows`, `Beginnings`), and `ElementWritten` says what an element does, form by form: a reader
that is ready and has written `n` entries writes the entries of the element behind them, if there is room for all of them (or the list is refused), and is ready again.
Entries are combined with what is there (`Or2`): nothing but in the first one (`OrNothing`). `EveryStepOK` follows the elements from the first, and because the list
was accepted no step before was an error (`StepWasOK`). `ForMakeInfoMeans` carries the table over the other options,
which leave it alone (`OtherOption`). From there on it is an invariant: the frame of a loop keeps its FORINFO and its options as long as it
runs (`SameLoop`). A line with two token lists combines both, which the property leaves out.

### `RunFile`

`ErrorReported` looks at a thread that is done. `Inv` follows the child with it: a child that may still fail
holds the write end of its *own* error pipe, so that the end of that pipe means that the program runs, however many
children of other threads hold copies; what a child has told is that it failed (`ChildOK`); at each place of
its code the thread knows how far the child is (`PlaceOK`). The first place of the search is a minimum over
pairs of a directory and an extension, again by a well-founded order.

### What TLC alone checks

* Liveness, `AbortClears`, `Finishes`, `LoopsEnd` and `RunsEnd`: not within the reach of the provers.
* The properties of modules with RECURSIVE operators (`Conditions`, `Expand`, `Parse`, `StartUp`, `SetA`,
  `Globs`, `FileCommands`, `Filters`, `Modules`): their code is recursive
  or loops over characters, and the functions are checked against what their input was written from.
* `FindsCommands` (the searches of `CmdList` are recursive functions, and what they compute is an induction over the
  tree) and `Console`.

<a name="limits"></a>
## 12. What is not modelled

* In `Interp`: the runs of the clones themselves (their streams and frames are their own; what
  they share is in `Clones`); the bodies of DEF macros (`RunLine` from RunCommand); lines
  that fail to parse or are empty, which run nothing; interactive input.
* In `Clones`: `fError`, buffered output, redirections inside a clone (they are `Interp`'s), the
  copies of the environment and of the variables that a clone starts with (they are private), and
  external programs, which inherit descriptors (`RunFile`).
* In `ScriptCache`: lines of the interactive prompt; the contents of lines (`MCText`);
  clones, which start without a loaded script and have an `ifIn` of their own.
* In `EnvStack`: the listing of variables, and the block of variables handed to a program. On Unix
  that is the environment of the process, overlaid (`pBat_Exec.c:298`), so that a deleted variable is still seen.
* In `MCText`: the variables that depend on the time and the drive, `%~$PATH:1`, the functions of SET /A
  (`sqr`, `sin`, ...), of which `abs` stands for all, and the scanner, which is generated by flex.
* In `RunFile`: CTRL+C. Its handler asks whether to go on, and when the answer is N it returns into the `read` or `waitpid` it
  interrupted. Both then give -1, which the code takes for an error of `exec` or leaves as a status of its own making. `Read` and `Wait` of the model
  answer only when there is something to answer, so `ErrorReported` says nothing of a thread that was interrupted. Of the
  handler, `StartUp` models what it does otherwise: the interpreter it starts in its own place.
* In `FileCommands`: more than one broken write in a behaviour. After one (`ShortWrite`) nothing is claimed of success, and of
  `OnlyNamed` as much as before.
* In `MCOutside`: the layout of what DIR and WC print, the drives and attributes of Windows, the keys MORE
  does not know, and the sorting of names, which is the order of `readdir`.
* What is compiled on Windows only, but for `Console`: the other halves of `pBat_Exec.c`, `pBat_Cd.c` and the consoles, and
  the rest of `libcu8` with its copy of `iconv`. The other models follow the Unix build. `Console` leaves out the drawing of the line,
  errors of the console and of files, and `dup`, which copies the bytes that wait.
* ASK is in `FileCommands` as the question it asks; the commands that print, read a key or set a global
  (BREAK, CHCP, CLS, COLOR, PAUSE, PECHO, TIMEOUT, TITLE, VER, HELP, the prompt) have no state that
  another command reads.
* Third-party and generated code: `linenoise` but for its completion, the tables of the grammar,
  the functions of `xmath.c`, `microgettext`.
* The tools `tea`, `dump` and `pbatize`, which run at build time, the modules `batbox` and `Sample`, the manual and the tests.
