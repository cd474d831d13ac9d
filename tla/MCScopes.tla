------------------------------ MODULE MCScopes ------------------------------
(* What a thread of the interpreter keeps from line to line, each part on its   *)
(* own: the environment, the arguments, the commands, the directories and the  *)
(* strings. A behaviour is a behaviour of one of them.                         *)
EXTENDS EnvStack, Arguments, Strings, DirStack, TLC

CONSTANTS Parts
VARIABLES part, tree, told, modules, params, quiet, failed, clones, kept

MCCallLines == {<<"f">> \o b : b \in UNION {[1..n -> {"a", "b"}] : n \in 0..4}}
    \cup {a \o b : a \in {<<":l">>, <<"/E", "f", ":l">>, <<"/E", ":l", ":m">>, <<"/E", "f", "g">>, <<"f", "/E">>, <<"/E", "/E", "f", ":l">>, <<"/E", "", "f">>}, b \in {<<>>, <<"a", "b", "a">>}}
    \cup {<<"/E", ":l">>}

\* Characters: 1 stands for a dash, 2 for a slash, 3 and 4 for letters.
MCInternal == (<<3>> :> 1) @@ (<<3, 3, 4>> :> 3) @@ (<<4>> :> 0) @@ (<<3, 4>> :> 2)
C == INSTANCE CmdList WITH Delimiters <- {2}, Internal <- MCInternal, MaxCommands <- 7,
        NamesOf <- {<<3>>, <<3, 3>>, <<3, 4>>, <<3, 4, 3>>, <<3, 1>>, <<3, 3, 4, 4>>, <<4, 4>>}

MCFiles == [m |-> [opens |-> TRUE, agrees |-> TRUE, names |-> <<(<<3, 3>>)>>], n |-> [opens |-> TRUE, agrees |-> TRUE, names |-> <<(<<3, 4, 3>>), (<<4>>)>>],
            bad |-> [opens |-> FALSE, agrees |-> FALSE, names |-> <<>>], old |-> [opens |-> TRUE, agrees |-> FALSE, names |-> <<(<<4, 4>>)>>]]
M == INSTANCE Modules WITH Delimiters <- {2}, Internal <- MCInternal, MaxCommands <- 7, MaxClones <- 2,
        NamesOf <- {<<3, 3>>, <<4, 4>>}, Files <- MCFiles @@ [M |-> MCFiles.m], Folded <- [m |-> "m", M |-> "m", n |-> "n", bad |-> "bad", old |-> "old"],
        ParamLists <- { <<"m">>, <<"/q", "M", "n">>, <<"n", "m", "/l">>, <<"old", "m">>, <<"bad">>, <<"none">> }

MCTree == {<<>>, <<"a">>, <<"a", "b">>, <<"b">>}
MCAsked == { <<"..">>, <<"a">>, <<"b", "/">>, <<"/", "a", "/", "b">>, <<"/", "a", "/", "..", "/", "b">>,
             <<"/", ".", "/", "a", "/", "/", ".">>, <<"..", "/", "..", "/", "b">>, <<".", "/", "..", "/", "b">>,
             <<"/", "/", "b">>, <<"/">>, <<>>, <<"/", "a", "/", "b", "/", "..", "/", "..", "/", "a">> }

MCOrder == <<"_a", "low", "UP">>

cmdVars == <<tree, told>>
modVars == <<modules, params, quiet, failed, clones, kept>>

\* The parts that do not run stay in one of their initial states.
MCInit == /\ part \in Parts
          /\ Init   /\ (part # "env" => env = InitEnv({}, CHOOSE c \in Contents : TRUE) /\ nullsFirst /\ opts = CHOOSE o \in Options : TRUE)
          /\ ArgInit /\ (part # "args" => given = << <<"main">> >>)
          /\ M!MInit      \* and C!Init
          /\ DirInit /\ (part # "dirs" => cwd = <<"/">>)
          /\ StrInit /\ (part # "strings" => \A i \in DOMAIN str : str[i] # Unusable)

MCNext == \/ part = "env" /\ Next /\ UNCHANGED <<part, argVars, cmdVars, modVars, dirVars, strVars>>
          \/ part = "args" /\ ArgNext /\ UNCHANGED <<part, vars, cmdVars, modVars, dirVars, strVars>>
          \/ part = "cmds" /\ C!Next /\ UNCHANGED <<part, vars, argVars, modVars, dirVars, strVars>>
          \/ part = "mods" /\ M!MNext /\ UNCHANGED <<part, vars, argVars, dirVars, strVars>>
          \/ part = "dirs" /\ DirNext /\ UNCHANGED <<part, vars, argVars, cmdVars, modVars, strVars>>
          \/ part = "strings" /\ StrNext /\ UNCHANGED <<part, vars, argVars, cmdVars, modVars, dirVars>>

MCSpec == MCInit /\ [][MCNext]_<<part, vars, argVars, cmdVars, modVars, dirVars, strVars>>

\* A line finds a command that it starts with, however the tree grew, and a definition damages no name but those that
\* start like its own. The commands of a module are there in the threads that have it, and it is loaded once.
FindsCommands == [](part = "cmds" => C!FindsCommands) /\ [](part = "mods" => M!FindsCommands /\ M!LoadedOnce /\ M!KnowsItsModules) /\ [][part = "cmds" => C!OthersKeep]_cmdVars
=============================================================================
