------------------------------ MODULE EnvStack ------------------------------
(* The environment of an interpreter: the sorted array of variables that       *)
(* pBat_Env.c keeps, the copies SETLOCAL saves, and the variables local to a   *)
(* DEF macro, whose outer values hang under them.                              *)
(*                                                                             *)
(* Deleted variables stay in the array as slots without a name, which compare  *)
(* with the others by the sign of a truncated pointer: they are sorted before  *)
(* all the names or after them, depending on where the heap is.                *)
EXTENDS Naturals, Sequences, FiniteSets

CONSTANTS Order,       \* the names, as stricmp sorts them
          Locals,      \* those that start with PBAT_ENV_LOCAL_PREFIX
          Lower,       \* those whose first character is above `_` in ASCII
          Contents, NoValue,
          Options,     \* values of bDelayedExpansion and bCmdlyCorrect
          MaxSaved, MaxMacros,     \* bounds on the nesting
          MaxEdits                 \* bound on the number of SET and SETLOCAL

Names == {Order[i] : i \in DOMAIN Order}
ASSUME OrderAssumption == Order \in Seq(Names)
ASSUME NamesAssumption == Locals \cap Lower = {} /\ Locals \cup Lower \subseteq Names
ASSUME NoValueAssumption == NoValue \notin Contents

VARIABLES env,         \* lpeEnv: the variables, and the flags of the slots without name
          saved,       \* lpesEnv: what each SETLOCAL in force saved
          opts,        \* bDelayedExpansion, bCmdlyCorrect
          macros,      \* the DEF macros in progress, innermost first, with what
                       \* they found (history)
          nullsFirst,  \* where slots without a name are sorted
          edits,       \* how many SET and SETLOCAL ran, for the bound
          unsure       \* history: a search missed, or a slot was reused with its flag

vars == <<env, saved, opts, macros, nullsFirst, edits, unsure>>

(* Variables: their values in this macro and, below, in the ones around it *)
Level == [content: Contents, inherit: BOOLEAN]
NoVar == <<>>
Has(e, n) == e.var[n] # NoVar
GetEnv(e, n) == IF Has(e, n) THEN Head(e.var[n]).content ELSE NoValue

(* bsearch of the C library over directions: where the key is, from the element behind w.from to w.upto *)
Narrow(dir, w) ==
    LET m == (w.from + w.upto) \div 2 IN
    IF w.at # 0 \/ w.from >= w.upto THEN w
    ELSE CASE dir[m + 1] = "here"  -> [w EXCEPT !.at = m + 1]
           [] dir[m + 1] = "left"  -> [w EXCEPT !.upto = m]
           [] dir[m + 1] = "right" -> [w EXCEPT !.from = m + 1]
Everything(dir) == [from |-> 0, upto |-> Len(dir), at |-> 0]
BSearch(dir) ==
    LET look[k \in 0..Len(dir)] == IF k = 0 THEN Everything(dir) ELSE Narrow(dir, look[k - 1])
    IN  look[Len(dir)].at

\* The names of S as stricmp sorts them.
Place(n) == CHOOSE i \in DOMAIN Order : Order[i] = n
Sorted(S) == [i \in 1..Cardinality(S) |-> CHOOSE n \in S : Cardinality({m \in S : Place(m) < Place(n)}) = i - 1]

(* The array, with a direction for each name and another one for the rest *)
Present(e) == {n \in Names : Has(e, n)}
Directions(e, named(_), null) ==
    LET names == [i \in 1..Cardinality(Present(e)) |-> named(Sorted(Present(e))[i])]
        nulls == [i \in DOMAIN e.nulls |-> null]
    IN  IF nullsFirst THEN nulls \o names ELSE names \o nulls

(* pBat_EnvCompLocal: names above `_` send the search up, all others down *)
CompLocal(n) == IF n \in Locals THEN "here" ELSE IF n \in Lower THEN "right" ELSE "left"
FindsLocals(e) == BSearch(Directions(e, CompLocal, "left")) # 0
CompNull(n) == IF nullsFirst THEN "left" ELSE "right"
NullSlot(e) == LET at == BSearch(Directions(e, CompNull, "here"))
               IN  IF at = 0 \/ nullsFirst THEN at ELSE at - Cardinality(Present(e))

RemoveAt(s, k) == SubSeq(s, 1, k - 1) \o SubSeq(s, k + 1, Len(s))
(* The slots of S lose their names, not their flags; qsort keeps their order *)
Delete(e, S) ==
    LET freed == [i \in 1..Cardinality(S) |-> Head(e.var[Sorted(S)[i]]).inherit]
    IN  [var |-> [n \in Names |-> IF n \in S THEN NoVar ELSE e.var[n]],
         nulls |-> IF nullsFirst THEN e.nulls \o freed ELSE freed \o e.nulls]

UnSetEnv(e, n, blank) == IF ~blank /\ Len(e.var[n]) = 1 THEN Delete(e, {n}) ELSE e

\* A new slot for every new variable.
SetEnvExAppends(e, n, c, inherit) ==
    [e EXCEPT !.var[n] = <<[content |-> c, inherit |-> inherit]>> \o (IF Has(e, n) THEN Tail(@) ELSE <<>>)]

SetEnvEx(e, n, c, inherit) ==
    IF Has(e, n)
    THEN [e EXCEPT !.var[n] = <<[content |-> c, inherit |-> Head(@).inherit \/ inherit]>> \o Tail(@)]
    ELSE LET k == NullSlot(e) IN
         IF k = 0
         THEN [e EXCEPT !.var[n] = <<[content |-> c, inherit |-> inherit]>>]
         ELSE [e EXCEPT !.var[n] = <<[content |-> c, inherit |-> e.nulls[k] \/ inherit]>>,
                        !.nulls = RemoveAt(@, k)]

(* pBat_EnvDup copies the values in force, without flags and outer values *)
EnvDup(e) == [var |-> [n \in Names |-> IF Has(e, n) THEN <<[content |-> GetEnv(e, n), inherit |-> FALSE]>>
                                       ELSE NoVar],
              nulls |-> [i \in DOMAIN e.nulls |-> FALSE]]

PushEnvLocals(e) ==
    IF FindsLocals(e)
    THEN [e EXCEPT !.var = [n \in Names |->
            IF n \in Locals /\ Has(e, n)
            THEN <<[content |-> GetEnv(e, n), inherit |-> FALSE]>> \o e.var[n]
            ELSE e.var[n]]]
    ELSE e

(* PBAT_POP_ENVVAR on a variable that hides another one *)
\* Takes the flag the other way round.
PopLevelSwapped(v) == IF ~v[1].inherit THEN <<v[1]>> \o SubSeq(v, 3, Len(v)) ELSE Tail(v)

PopLevel(v) == IF v[1].inherit THEN <<v[1]>> \o SubSeq(v, 3, Len(v)) ELSE Tail(v)
PopEnvLocals(e) ==
    LET mine == {n \in Locals : Has(e, n)}
        gone == {n \in mine : Len(e.var[n]) = 1 /\ ~e.var[n][1].inherit}
        popped == [e EXCEPT !.var = [n \in Names |->
                      IF n \in mine /\ Len(e.var[n]) > 1 THEN PopLevel(e.var[n]) ELSE e.var[n]]]
    IN  IF FindsLocals(e) THEN Delete(popped, gone) ELSE e

-----------------------------------------------------------------------------
(* pBat_InitEnv: a sorted array without empty slots *)
InitEnv(S, c) == [var |-> [n \in Names |-> IF n \in S THEN <<[content |-> c, inherit |-> FALSE]>> ELSE NoVar],
                  nulls |-> <<>>]

Init == /\ \E S \in SUBSET Names, c \in Contents : env = InitEnv(S, c)
        /\ saved = <<>>
        /\ opts \in Options
        /\ macros = <<>>
        /\ nullsFirst \in BOOLEAN
        /\ edits = 0
        /\ unsure = FALSE

(* SET n=c, SET /X n=c, and the assignments of SET /A *)
CmdSet(n, c, inherit) ==
    /\ edits < MaxEdits /\ edits' = edits + 1
    /\ env' = SetEnvEx(env, n, c, inherit)
    /\ macros' = IF inherit /\ macros # <<>>
                 THEN [macros EXCEPT ![1].inherited = @ \cup {n}] ELSE macros
    /\ unsure' = (unsure \/ (~Has(env, n) /\ NullSlot(env) # 0 /\ env.nulls[NullSlot(env)]))
    /\ UNCHANGED <<saved, opts, nullsFirst>>

(* SET n= ; a name typed with a blank behind it is looked for with the blank *)
CmdUnSet(n, blank) ==
    /\ edits < MaxEdits /\ edits' = edits + 1
    /\ env' = UnSetEnv(env, n, blank)
    /\ UNCHANGED <<saved, opts, macros, nullsFirst, unsure>>

(* SET /P: an empty answer deletes the variable *)
CmdSetP(n, answer) ==
    IF answer = NoValue THEN CmdUnSet(n, FALSE) ELSE CmdSet(n, answer, FALSE)

PushEnvStack(o) == /\ Len(saved) < MaxSaved
                   /\ saved' = <<[env |-> env, opts |-> o]>> \o saved
                   /\ env' = EnvDup(env)
\* Frees the saved block instead of the current one.
PopEnvStackFrees == /\ env' = env
                    /\ opts' = Head(saved).opts
                    /\ saved' = Tail(saved)
PopEnvStack == /\ env' = Head(saved).env
               /\ opts' = Head(saved).opts
               /\ saved' = Tail(saved)

(* The options first, then, unless /Q was given, the copy of everything; a
   word that is no option ends the command like /Q, the options before it set. *)
CmdSetLocal(o, push) ==
    /\ opts' = o
    /\ edits < MaxEdits /\ edits' = edits + 1
    /\ IF push THEN PushEnvStack(o) ELSE UNCHANGED <<saved, env>>
    /\ UNCHANGED <<macros, nullsFirst, unsure>>

CmdEndLocal ==
    /\ saved # <<>>
    /\ PopEnvStack
    /\ macros' = [i \in DOMAIN macros |->
                     [macros[i] EXCEPT !.balanced = @ /\ Len(saved) > macros[i].depth]]
    /\ UNCHANGED <<nullsFirst, edits, unsure>>

Misses(e) == ~FindsLocals(e) /\ \E n \in Locals : Has(e, n)

(* RunCommand on a DEF macro, before and after it runs the body *)
CallDef ==
    /\ Len(macros) < MaxMacros
    /\ env' = PushEnvLocals(env)
    /\ macros' = <<[depth |-> Len(saved), balanced |-> TRUE, inherited |-> {},
                    found |-> [n \in Locals |-> GetEnv(env, n)]]>> \o macros
    /\ unsure' = (unsure \/ Misses(env))
    /\ UNCHANGED <<saved, opts, nullsFirst, edits>>

ReturnDef ==
    /\ macros # <<>>
    /\ env' = PopEnvLocals(env)
    /\ LET outer == Tail(macros)
       IN  macros' = IF outer = <<>> THEN <<>>
                     ELSE [outer EXCEPT ![1].inherited = @ \cup Head(macros).inherited]
    /\ unsure' = (unsure \/ Misses(env) \/ ~Head(macros).balanced \/ Head(macros).depth # Len(saved))
    /\ UNCHANGED <<saved, opts, nullsFirst, edits>>

Next ==
    \/ \E n \in Names, c \in Contents, inherit \in BOOLEAN : CmdSet(n, c, inherit)
    \/ \E n \in Names, answer \in Contents \cup {NoValue} : CmdSetP(n, answer)
    \/ \E n \in Names, blank \in BOOLEAN : CmdUnSet(n, blank)
    \/ \E o \in Options, push \in BOOLEAN : CmdSetLocal(o, push)
    \/ CmdEndLocal
    \/ CallDef
    \/ ReturnDef

Spec == Init /\ [][Next]_vars

-----------------------------------------------------------------------------
Env == [var: [Names -> Seq(Level)], nulls: Seq(BOOLEAN)]
\* Slots are used again: there are never more of them than names.
Slots(e) == Len(e.nulls) + Cardinality(Present(e))
TypeOK == /\ env \in Env /\ Slots(env) <= Len(Order)
          /\ saved \in Seq([env: Env, opts: Options])
          /\ opts \in Options
          /\ nullsFirst \in BOOLEAN /\ unsure \in BOOLEAN

(* A variable hides at most one value for each macro in progress, and ordinary
   variables hide none: no outer value outlives the macro that hid it. *)
NoStaleLevels ==
    ~unsure => \A n \in Names :
        Len(env.var[n]) <= 1 + (IF n \in Locals THEN Len(macros) ELSE 0)

(* When a macro returns, its caller finds the local variables it had, except
   for those that were marked with /X during the macro, which keep the value
   they have, provided the search did not miss them and the macro ended the
   scopes it opened. *)
MacroRestores ==
    [][ReturnDef /\ ~unsure' => \A n \in Locals :
            \/ GetEnv(env, n)' = Head(macros).found[n]
            \/ n \in Head(macros).inherited /\ GetEnv(env, n)' = GetEnv(env, n)]_vars

(* DEF macros nest like SETLOCAL: the values they hide come back, and only those. *)
Restores == []NoStaleLevels /\ MacroRestores

(* ENDLOCAL brings the ordinary variables back to what SETLOCAL saved, however
   many macros started or returned in between. *)
Plain == Names \ Locals
Scoped == INSTANCE Scopes WITH
    Names <- Plain, Contents <- Contents, NoValue <- NoValue,
    value <- [n \in Plain |-> GetEnv(env, n)],
    scopes <- [i \in DOMAIN saved |-> [n \in Plain |-> GetEnv(saved[i].env, n)]]
ImplementsScopes == Scoped!Spec

=============================================================================
