------------------------------ MODULE Modules ------------------------------
(* MOD: the modules of the process, and the commands that each adds to the     *)
(* commands of the thread in which it is loaded. A thread begins with a copy   *)
(* of the commands of the one that made it; the list of modules is the same    *)
(* for all of them.                                                            *)
EXTENDS CmdList

CONSTANTS Files,      \* the module at a path: whether it opens, whether it takes this interpreter, the names it registers
          Folded,     \* stricmp: paths are alike when these agree
          ParamLists, \* what MOD may be given
          MaxClones   \* bound
VARIABLES modules,    \* modules, the last one first, with the thread that loaded each
          params,     \* what is left of the line of MOD
          quiet, failed,
          clones,     \* the threads there have been beside the main one
          kept        \* the commands of the main thread while another one runs, or nothing

modVars == <<modules, params, quiet, failed, clones, kept>>
Nothing == <<>>
Thread == IF kept = Nothing THEN 0 ELSE clones

CheckLoadedMods(path) == \E i \in DOMAIN modules : Folded[modules[i].path] = Folded[path]

(* Registration of one name; the module does not look at what becomes of it. *)
Registered(t, name, known) ==
    CASE known = Hangs -> {}
      [] known = None -> {ReMapCommandInfo(Add(t, name)), Add(t, name)}
      [] OTHER -> {t}
RECURSIVE Attach(_, _)
Attach(t, names) ==     \* pBat_ModuleHandler
    IF names = <<>> THEN {t}
    ELSE UNION {Attach(u, Tail(names)) : u \in UNION {Registered(t, Head(names), GetCommandProc(t, Head(names), past)) : past \in BOOLEAN}}

MInit == Init /\ modules = <<>> /\ params = <<>> /\ quiet = FALSE /\ failed = FALSE /\ clones = 0 /\ kept = Nothing

CmdMod == /\ params = <<>> /\ failed' = FALSE
          /\ \E list \in ParamLists : params' = list
          /\ quiet' = FALSE /\ UNCHANGED <<vars, modules, clones, kept>>
Given(kind) == params # <<>> /\ kind /\ UNCHANGED <<clones, kept>>
Ends(ok) == params' = <<>> /\ failed' = ~ok
ListMods == Given(Head(params) = "/l") /\ Ends(TRUE) /\ UNCHANGED <<vars, modules, quiet>>
Quiet == Given(Head(params) = "/q") /\ params' = Tail(params) /\ quiet' = TRUE /\ UNCHANGED <<vars, modules, failed>>
IsPath == Head(params) \notin {"/l", "/q"}
NoFile == Given(IsPath /\ Head(params) \notin DOMAIN Files) /\ Ends(FALSE) /\ UNCHANGED <<vars, modules, quiet>>
IsLoaded == /\ Given(IsPath /\ Head(params) \in DOMAIN Files /\ CheckLoadedMods(Head(params)))
            /\ IF quiet THEN params' = Tail(params) /\ UNCHANGED failed ELSE Ends(FALSE)
            /\ UNCHANGED <<vars, modules, quiet>>
LoadMod == /\ Given(IsPath /\ Head(params) \in DOMAIN Files /\ ~CheckLoadedMods(Head(params)))
           /\ LET file == Files[Head(params)]
              IN  /\ Cardinality(DOMAIN tree) + Len(file.names) <= MaxCommands
                  /\ IF file.opens /\ file.agrees
                     THEN /\ tree' \in Attach(tree, file.names)
                          /\ modules' = <<[path |-> Head(params), by |-> Thread]>> \o modules
                          /\ params' = Tail(params) /\ UNCHANGED failed
                     ELSE Ends(FALSE) /\ UNCHANGED <<tree, modules>>
           /\ told' = <<>> /\ UNCHANGED quiet

(* Another thread is made, runs some commands and ends. *)
DuplicateCommandList(t) == [p \in DOMAIN t |-> t[p]]      \* shape and all
CloneInstance == /\ params = <<>> /\ kept = Nothing /\ clones < MaxClones
                 /\ kept' = <<tree>> /\ clones' = clones + 1
                 /\ tree' = DuplicateCommandList(tree)
                 /\ UNCHANGED <<told, modules, params, quiet, failed>>
EndClone == /\ params = <<>> /\ kept # Nothing
            /\ tree' = kept[1] /\ kept' = Nothing /\ told' = <<>>
            /\ UNCHANGED <<modules, params, quiet, failed, clones>>
Def == params = <<>> /\ Next /\ UNCHANGED modVars

MNext == \/ Def \/ CmdMod \/ ListMods \/ Quiet \/ NoFile \/ IsLoaded \/ LoadMod \/ CloneInstance \/ EndClone

-----------------------------------------------------------------------------
(* A module is loaded once, however it is spelled and whichever thread asks, and the commands of the modules that the
   main thread loaded are there in all threads; what another thread loads, the main thread has lost. *)
LoadedOnce == \A i, j \in DOMAIN modules : i # j => Folded[modules[i].path] # Folded[modules[j].path]
KnowsItsModules ==
    Undamaged(tree) /\ Regular(tree) => \A i \in DOMAIN modules : modules[i].by \in {0, Thread} =>
        \A n \in {Files[modules[i].path].names[k] : k \in DOMAIN Files[modules[i].path].names} : GetCommandProc(tree, n, FALSE) # None
=============================================================================
