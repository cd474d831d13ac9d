--------------------------- MODULE EnvStackProofs ---------------------------
(***************************************************************************)
(* EnvStack implements Scopes, for every value of its constants: any names *)
(* and values, any nesting of SETLOCAL and of DEF macros, and whatever a   *)
(* search among the local variables finds or misses.  A macro gives back   *)
(* the local variables it hides, unless such a search missed one.  The     *)
(* array never has more slots than there are names: a search for a slot    *)
(* without a name, unlike one for a local variable, misses none.           *)
(***************************************************************************)
EXTENDS EnvStack, SequenceTheorems, FiniteSetTheorems, WellFoundedInduction, TLAPS

-----------------------------------------------------------------------------
(* The invariant.  A step on the local variables leaves the others alone   *)
(* whatever bsearch answers; so nothing needs to be known of the slots,    *)
(* and of the variables only that an ordinary one hides no other.          *)

Flat(v) == v = NoVar \/ v = <<Head(v)>>
IsEnv(e) ==
    /\ e = [var |-> e.var, nulls |-> e.nulls]
    /\ e.var = [n \in Names |-> e.var[n]]
    /\ \A n \in Plain : Flat(e.var[n])

IInv ==
    /\ IsEnv(env)
    /\ Len(saved) \in Nat /\ saved = [i \in 1 .. Len(saved) |-> saved[i]]
    /\ \A i \in 1 .. Len(saved) : IsEnv(saved[i].env)

-----------------------------------------------------------------------------
(* What an operation on the array does to the ordinary variables. *)

\* The ordinary variables have the same values in both.
Same(e, g) == \A m \in Plain : GetEnv(g, m) = GetEnv(e, m)

LEMMA PlainNames == Plain \subseteq Names /\ Plain \cap Locals = {}
  BY DEF Plain

LEMMA SetEnvExFacts ==
    ASSUME NEW e, IsEnv(e), NEW n \in Names, NEW c, NEW inherit
    PROVE  /\ IsEnv(SetEnvEx(e, n, c, inherit))
           /\ n \in Plain => GetEnv(SetEnvEx(e, n, c, inherit), n) = c
           /\ \A m \in Plain \ {n} : GetEnv(SetEnvEx(e, n, c, inherit), m) = GetEnv(e, m)
  <1> DEFINE g == SetEnvEx(e, n, c, inherit)
  <1>1. \E v, w : /\ g = [var |-> [e.var EXCEPT ![n] = v], nulls |-> w]
                  /\ n \in Plain => v = <<Head(v)>> /\ Head(v).content = c
    <2>0. e = [var |-> e.var, nulls |-> e.nulls]
      BY DEF IsEnv
    <2>1. CASE Has(e, n)
      <3> DEFINE x == [content |-> c, inherit |-> Head(e.var[n]).inherit \/ inherit]
                 v == <<x>> \o Tail(e.var[n])
      <3>1. g = [e EXCEPT !.var[n] = v]
        BY <2>1 DEF SetEnvEx
      <3>2. x.content = c
        OBVIOUS
      <3> HIDE DEF x
      <3>3. n \in Plain => v = <<x>>
        <4> SUFFICES ASSUME n \in Plain
                     PROVE  v = <<x>>
          OBVIOUS
        <4>1. e.var[n] = <<Head(e.var[n])>>
          BY <2>1 DEF IsEnv, Flat, Has
        <4>2. \A y : Tail(<<y>>) = <<>>
          OBVIOUS
        <4>3. Tail(e.var[n]) = <<>>
          BY <4>1, <4>2
        <4>4. <<x>> \o <<>> = <<x>>
          OBVIOUS
        <4> QED BY <4>3, <4>4, Zenon
      <3> HIDE DEF v
      <3>4. n \in Plain => v = <<Head(v)>> /\ Head(v) = x
        BY <3>3
      <3>5. g = [var |-> [e.var EXCEPT ![n] = v], nulls |-> e.nulls]
        BY <2>0, <3>1
      <3> QED BY <3>2, <3>4, <3>5
    <2>2. CASE ~Has(e, n) /\ NullSlot(e) = 0
      <3> DEFINE x == [content |-> c, inherit |-> inherit]
      <3>1. g = [e EXCEPT !.var[n] = <<x>>]
        BY <2>2 DEF SetEnvEx
      <3>2. x.content = c
        OBVIOUS
      <3> HIDE DEF x
      <3>3. g = [var |-> [e.var EXCEPT ![n] = <<x>>], nulls |-> e.nulls]
        BY <2>0, <3>1
      <3>4. Head(<<x>>) = x
        OBVIOUS
      <3> QED BY <3>2, <3>3, <3>4
    <2>3. CASE ~Has(e, n) /\ NullSlot(e) # 0
      <3> DEFINE x == [content |-> c, inherit |-> e.nulls[NullSlot(e)] \/ inherit]
                 w == RemoveAt(e.nulls, NullSlot(e))
      <3>1. g = [e EXCEPT !.var[n] = <<x>>, !.nulls = w]
        BY <2>3 DEF SetEnvEx
      <3>2. x.content = c
        OBVIOUS
      <3> HIDE DEF x, w
      <3>3. g = [var |-> [e.var EXCEPT ![n] = <<x>>], nulls |-> w]
        BY <2>0, <3>1
      <3>4. Head(<<x>>) = x
        OBVIOUS
      <3> QED BY <3>2, <3>3, <3>4
    <2> QED BY <2>1, <2>2, <2>3
  <1>2. PICK v, w : /\ g = [var |-> [e.var EXCEPT ![n] = v], nulls |-> w]
                    /\ n \in Plain => v = <<Head(v)>> /\ Head(v).content = c
    BY <1>1
  <1> HIDE DEF g
  <1>3. g.var = [e.var EXCEPT ![n] = v] /\ g.nulls = w
    BY <1>2
  <1>4. \A m \in Names : g.var[m] = IF m = n THEN v ELSE e.var[m]
    BY <1>3 DEF IsEnv
  <1>5. IsEnv(g)
    <2>1. g.var = [m \in Names |-> g.var[m]]
      BY <1>3 DEF IsEnv
    <2>2. \A m \in Plain : Flat(g.var[m])
      BY <1>2, <1>4, PlainNames DEF IsEnv, Flat
    <2> QED BY <1>2, <1>3, <2>1, <2>2 DEF IsEnv
  <1>6. ASSUME n \in Plain
        PROVE  GetEnv(g, n) = c
    <2>1. g.var[n] = v /\ v = <<Head(v)>> /\ Head(v).content = c
      BY <1>2, <1>4, <1>6
    <2>2. \A y : <<y>> # <<>>
      OBVIOUS
    <2>3. v # <<>>
      BY <2>1, <2>2
    <2> QED BY <2>1, <2>3 DEF GetEnv, Has, NoVar
  <1>7. \A m \in Plain \ {n} : GetEnv(g, m) = GetEnv(e, m)
    BY <1>4, PlainNames DEF GetEnv, Has
  <1> QED BY <1>5, <1>6, <1>7 DEF g

LEMMA DeleteFacts ==
    ASSUME NEW e, IsEnv(e), NEW S \in SUBSET Names
    PROVE  /\ IsEnv(Delete(e, S))
           /\ \A m \in Plain : GetEnv(Delete(e, S), m) = IF m \in S THEN NoValue ELSE GetEnv(e, m)
  <1> DEFINE g == Delete(e, S)
  <1>1. \E w : g = [var |-> [n \in Names |-> IF n \in S THEN NoVar ELSE e.var[n]], nulls |-> w]
    BY DEF Delete
  <1>2. PICK w : g = [var |-> [n \in Names |-> IF n \in S THEN NoVar ELSE e.var[n]], nulls |-> w]
    BY <1>1
  <1> HIDE DEF g
  <1>3. g.var = [n \in Names |-> IF n \in S THEN NoVar ELSE e.var[n]] /\ g.nulls = w
    BY <1>2
  <1>4. \A m \in Names : g.var[m] = IF m \in S THEN NoVar ELSE e.var[m]
    BY <1>3
  <1>5. IsEnv(g)
    <2>1. \A m \in Plain : Flat(g.var[m])
      BY <1>4, PlainNames DEF IsEnv, Flat
    <2> QED BY <1>2, <1>3, <2>1 DEF IsEnv
  <1>6. \A m \in Plain : GetEnv(g, m) = IF m \in S THEN NoValue ELSE GetEnv(e, m)
    BY <1>4, PlainNames DEF GetEnv, Has
  <1> QED BY <1>5, <1>6 DEF g

LEMMA EnvDupFacts ==
    ASSUME NEW e, IsEnv(e)
    PROVE  IsEnv(EnvDup(e)) /\ Same(e, EnvDup(e))
  <1> DEFINE g == EnvDup(e)
             x(n) == [content |-> GetEnv(e, n), inherit |-> FALSE]
             w == [i \in DOMAIN e.nulls |-> FALSE]
  <1>1. g = [var |-> [n \in Names |-> IF Has(e, n) THEN <<x(n)>> ELSE NoVar], nulls |-> w]
    BY DEF EnvDup
  <1>2. \A n \in Names : Head(<<x(n)>>) = x(n) /\ x(n).content = GetEnv(e, n) /\ <<x(n)>> # <<>>
    OBVIOUS
  <1> HIDE DEF x, w, g
  <1>3. g.var = [n \in Names |-> IF Has(e, n) THEN <<x(n)>> ELSE NoVar] /\ g.nulls = w
    BY <1>1
  <1>4. \A n \in Names : g.var[n] = IF Has(e, n) THEN <<x(n)>> ELSE NoVar
    BY <1>3
  <1>5. IsEnv(g)
    <2>1. \A m \in Plain : Flat(g.var[m])
      BY <1>2, <1>4, PlainNames DEF Flat
    <2> QED BY <1>1, <1>3, <2>1 DEF IsEnv
  <1>6. Same(e, g)
    <2>1. ASSUME NEW m \in Plain
          PROVE  GetEnv(g, m) = GetEnv(e, m)
      <3>1. CASE Has(e, m)
        BY <1>2, <1>4, <3>1, PlainNames DEF GetEnv, Has, NoVar
      <3>2. CASE ~Has(e, m)
        BY <1>4, <3>2, PlainNames DEF GetEnv, Has, NoVar
      <3> QED BY <3>1, <3>2
    <2> QED BY <2>1 DEF Same
  <1> QED BY <1>5, <1>6 DEF g

\* Steps on the local variables.
LEMMA LocalsChange ==
    ASSUME NEW e, IsEnv(e), NEW V
    PROVE  LET g == [e EXCEPT !.var = [n \in Names |-> IF n \in Locals THEN V[n] ELSE e.var[n]]]
           IN  IsEnv(g) /\ Same(e, g)
  <1> DEFINE W == [n \in Names |-> IF n \in Locals THEN V[n] ELSE e.var[n]]
             g == [e EXCEPT !.var = W]
  <1>1. g = [var |-> W, nulls |-> e.nulls]
    BY DEF IsEnv
  <1>2. \A n \in Plain : W[n] = e.var[n]
    BY PlainNames
  <1>3. W = [n \in Names |-> W[n]]
    OBVIOUS
  <1> HIDE DEF g, W
  <1>4. g.var = W /\ g.nulls = e.nulls
    BY <1>1
  <1>5. IsEnv(g)
    BY <1>1, <1>2, <1>3, <1>4 DEF IsEnv
  <1>6. Same(e, g)
    BY <1>2, <1>4 DEF Same, GetEnv, Has
  <1> QED BY <1>5, <1>6 DEF g, W

LEMMA PushEnvLocalsFacts ==
    ASSUME NEW e, IsEnv(e)
    PROVE  IsEnv(PushEnvLocals(e)) /\ Same(e, PushEnvLocals(e))
  <1> DEFINE pushed(n) == <<[content |-> GetEnv(e, n), inherit |-> FALSE]>> \o e.var[n]
             V == [n \in Names |-> IF Has(e, n) THEN pushed(n) ELSE e.var[n]]
  <1>1. [n \in Names |-> IF n \in Locals /\ Has(e, n) THEN pushed(n) ELSE e.var[n]]
            = [n \in Names |-> IF n \in Locals THEN V[n] ELSE e.var[n]]
    <2> HIDE DEF pushed
    <2> QED OBVIOUS
  <1>2. PushEnvLocals(e) =
            IF FindsLocals(e)
            THEN [e EXCEPT !.var = [n \in Names |-> IF n \in Locals /\ Has(e, n) THEN pushed(n)
                                                    ELSE e.var[n]]]
            ELSE e
    BY DEF PushEnvLocals
  <1> HIDE DEF V, pushed
  <1>3. CASE FindsLocals(e)
    BY <1>1, <1>2, <1>3, LocalsChange
  <1>4. CASE ~FindsLocals(e)
    BY <1>2, <1>4 DEF Same
  <1> QED BY <1>3, <1>4

LEMMA PopEnvLocalsFacts ==
    ASSUME NEW e, IsEnv(e)
    PROVE  IsEnv(PopEnvLocals(e)) /\ Same(e, PopEnvLocals(e))
  <1> DEFINE mine == {n \in Locals : Has(e, n)}
             gone == {n \in mine : Len(e.var[n]) = 1 /\ ~e.var[n][1].inherit}
             hides(n) == n \in mine /\ Len(e.var[n]) > 1
             popped == [e EXCEPT !.var = [n \in Names |->
                          IF hides(n) THEN PopLevel(e.var[n]) ELSE e.var[n]]]
             V == [n \in Names |-> IF hides(n) THEN PopLevel(e.var[n]) ELSE e.var[n]]
  <1>1. PopEnvLocals(e) = IF FindsLocals(e) THEN Delete(popped, gone) ELSE e
    BY DEF PopEnvLocals
  <1>2. gone \in SUBSET Names /\ gone \cap Plain = {}
    BY NamesAssumption, PlainNames
  <1>3. \A n : hides(n) => n \in Locals
    OBVIOUS
  <1> HIDE DEF gone, hides
  <1>4. [n \in Names |-> IF hides(n) THEN PopLevel(e.var[n]) ELSE e.var[n]]
            = [n \in Names |-> IF n \in Locals THEN V[n] ELSE e.var[n]]
    BY <1>3
  <1> HIDE DEF V
  <1>5. IsEnv(popped) /\ Same(e, popped)
    BY <1>4, LocalsChange
  <1> HIDE DEF popped
  <1>6. IsEnv(Delete(popped, gone)) /\ Same(e, Delete(popped, gone))
    BY <1>2, <1>5, DeleteFacts DEF Same
  <1> QED BY <1>1, <1>6 DEF Same

-----------------------------------------------------------------------------
(* The steps.  What implements the variables of Scopes: *)

Value == [n \in Plain |-> GetEnv(env, n)]
SavedScopes == [i \in DOMAIN saved |-> [n \in Plain |-> GetEnv(saved[i].env, n)]]
ScopedStep == [Scoped!Next]_<<Value, SavedScopes>>

\* A sequence whose elements have no common type.
LEMMA Stack ==
    ASSUME NEW s, Len(s) \in Nat, s = [i \in 1 .. Len(s) |-> s[i]], NEW f
    PROVE  /\ Len(<<f>> \o s) = Len(s) + 1 /\ DOMAIN (<<f>> \o s) = 1 .. Len(s) + 1
           /\ \A i \in 1 .. Len(s) + 1 : (<<f>> \o s)[i] = IF i = 1 THEN f ELSE s[i - 1]
           /\ <<f>> \o s = [i \in 1 .. Len(s) + 1 |-> (<<f>> \o s)[i]]
           /\ s # <<>> => /\ Len(s) > 0 /\ Head(s) = s[1] /\ Len(Tail(s)) = Len(s) - 1
                          /\ DOMAIN Tail(s) = 1 .. Len(s) - 1
                          /\ \A i \in 1 .. Len(s) - 1 : Tail(s)[i] = s[i + 1]
                          /\ Tail(s) = [i \in 1 .. Len(s) - 1 |-> Tail(s)[i]]
  <1> DEFINE S == {s[i] : i \in 1 .. Len(s)} \cup {f}
  <1>1. s \in Seq(S) /\ f \in S
    <2>1. \A i \in 1 .. Len(s) : s[i] \in S
      OBVIOUS
    <2>2. f \in S
      OBVIOUS
    <2> HIDE DEF S
    <2>3. s \in [1 .. Len(s) -> S]
      BY <2>1
    <2> QED BY <2>2, <2>3, SeqDef
  <1> HIDE DEF S
  <1>2. <<f>> \o s \in Seq(S) /\ Len(<<f>> \o s) = Len(s) + 1
    BY <1>1
  <1>3. \A i \in 1 .. Len(s) + 1 : (<<f>> \o s)[i] = IF i = 1 THEN f ELSE s[i - 1]
    BY <1>1
  <1>4. DOMAIN (<<f>> \o s) = 1 .. Len(s) + 1 /\ <<f>> \o s = [i \in 1 .. Len(s) + 1 |-> (<<f>> \o s)[i]]
    BY <1>2
  <1>5. ASSUME s # <<>>
        PROVE  /\ Len(s) > 0 /\ Head(s) = s[1] /\ Len(Tail(s)) = Len(s) - 1 /\ Tail(s) \in Seq(S)
               /\ \A i \in 1 .. Len(s) - 1 : Tail(s)[i] = s[i + 1]
    <2>1. s \in Seq(S) /\ s # <<>>
      BY <1>1, <1>5
    <2>2. Len(s) > 0 /\ Head(s) = s[1]
      BY <2>1
    <2>3. Len(Tail(s)) = Len(s) - 1 /\ Tail(s) \in Seq(S)
      BY <2>1
    <2>4. \A i \in 1 .. Len(s) - 1 : Tail(s)[i] = s[i + 1]
      BY <2>1
    <2> QED BY <2>2, <2>3, <2>4
  <1>6. ASSUME s # <<>>
        PROVE  /\ DOMAIN Tail(s) = 1 .. Len(s) - 1
               /\ Tail(s) = [i \in 1 .. Len(s) - 1 |-> Tail(s)[i]]
    <2> DEFINE u == Tail(s)
    <2>1. u \in Seq(S) /\ Len(u) = Len(s) - 1
      BY <1>5, <1>6
    <2> HIDE DEF u
    <2>2. DOMAIN u = 1 .. Len(u) /\ u = [i \in 1 .. Len(u) |-> u[i]]
      BY <2>1
    <2> QED BY <2>1, <2>2 DEF u
  <1>7. s # <<>> => /\ Len(s) > 0 /\ Head(s) = s[1] /\ Len(Tail(s)) = Len(s) - 1
                    /\ DOMAIN Tail(s) = 1 .. Len(s) - 1
                    /\ \A i \in 1 .. Len(s) - 1 : Tail(s)[i] = s[i + 1]
                    /\ Tail(s) = [i \in 1 .. Len(s) - 1 |-> Tail(s)[i]]
    BY <1>5, <1>6
  <1> QED BY <1>2, <1>3, <1>4, <1>7

LEMMA InitScoped == Init => IInv /\ Scoped!Init
  <1> SUFFICES ASSUME Init
               PROVE  IInv /\ Scoped!Init
    OBVIOUS
  <1>1. PICK S \in SUBSET Names, c \in Contents : env = InitEnv(S, c)
    BY DEF Init
  <1> DEFINE x == [content |-> c, inherit |-> FALSE]
  <1>2. x.content = c /\ <<x>> # <<>> /\ Head(<<x>>) = x
    OBVIOUS
  <1>3. env = [var |-> [n \in Names |-> IF n \in S THEN <<x>> ELSE NoVar], nulls |-> <<>>]
    BY <1>1 DEF InitEnv
  <1> HIDE DEF x
  <1>4. \A n \in Names : env.var[n] = IF n \in S THEN <<x>> ELSE NoVar
    BY <1>3
  <1>5. IsEnv(env)
    BY <1>2, <1>3, <1>4, PlainNames DEF IsEnv, Flat
  <1>6. saved = <<>>
    BY DEF Init
  <1>7. IInv
    BY <1>5, <1>6 DEF IInv
  <1>8. Value \in [Plain -> Contents \cup {NoValue}]
    BY <1>2, <1>4, PlainNames DEF Value, GetEnv, Has, NoVar
  <1>9. SavedScopes = <<>>
    BY <1>6 DEF SavedScopes
  <1> QED BY <1>7, <1>8, <1>9 DEF Scoped!Init, Value, SavedScopes

\* A step that changes none of the ordinary variables, and saves nothing.
LEMMA StutterStep ==
    ASSUME IInv, IsEnv(env'), Same(env, env'), saved' = saved
    PROVE  IInv' /\ ScopedStep
  <1>1. IInv'
    BY DEF IInv
  <1>2. Value' = Value
    BY DEF Value, Same
  <1>3. SavedScopes' = SavedScopes
    BY DEF SavedScopes
  <1> QED BY <1>1, <1>2, <1>3 DEF ScopedStep

\* SET on an ordinary variable assigns, and on a local one does nothing to the others.
LEMMA AssignStep ==
    ASSUME IInv, IsEnv(env'), saved' = saved, NEW n \in Names, NEW c \in Contents \cup {NoValue},
           n \in Plain => GetEnv(env', n) = c,
           \A m \in Plain \ {n} : GetEnv(env', m) = GetEnv(env, m)
    PROVE  IInv' /\ ScopedStep
  <1>1. CASE n \in Plain
    <2>1. IInv'
      BY DEF IInv
    <2>2. Value' = [Value EXCEPT ![n] = c]
      BY <1>1 DEF Value
    <2>3. SavedScopes' = SavedScopes
      BY DEF SavedScopes
    <2>4. Scoped!Assign(n, c)
      BY <2>2, <2>3 DEF Scoped!Assign, Value, SavedScopes
    <2> QED BY <1>1, <2>1, <2>4 DEF ScopedStep, Scoped!Next
  <1>2. CASE n \notin Plain
    BY <1>2, StutterStep DEF Same
  <1> QED BY <1>1, <1>2

LEMMA CmdSetStep ==
    ASSUME IInv, NEW n \in Names, NEW c \in Contents, NEW inherit, CmdSet(n, c, inherit)
    PROVE  IInv' /\ ScopedStep
  <1>1. env' = SetEnvEx(env, n, c, inherit) /\ saved' = saved /\ IsEnv(env)
    BY DEF CmdSet, IInv
  <1> QED BY <1>1, SetEnvExFacts, AssignStep

LEMMA CmdUnSetStep ==
    ASSUME IInv, NEW n \in Names, NEW blank, CmdUnSet(n, blank)
    PROVE  IInv' /\ ScopedStep
  <1>1. env' = UnSetEnv(env, n, blank) /\ saved' = saved /\ IsEnv(env)
    BY DEF CmdUnSet, IInv
  <1>2. CASE ~blank /\ Len(env.var[n]) = 1
    <2>1. env' = Delete(env, {n})
      BY <1>1, <1>2 DEF UnSetEnv
    <2>2. IsEnv(env') /\ \A m \in Plain : GetEnv(env', m) = IF m \in {n} THEN NoValue ELSE GetEnv(env, m)
      BY <1>1, <2>1, DeleteFacts
    <2> QED BY <1>1, <2>2, AssignStep
  <1>3. CASE ~(~blank /\ Len(env.var[n]) = 1)
    <2>1. env' = env
      BY <1>1, <1>3 DEF UnSetEnv
    <2> QED BY <1>1, <2>1, StutterStep DEF Same
  <1> QED BY <1>2, <1>3

LEMMA CmdSetPStep ==
    ASSUME IInv, NEW n \in Names, NEW answer \in Contents \cup {NoValue}, CmdSetP(n, answer)
    PROVE  IInv' /\ ScopedStep
  BY CmdSetStep, CmdUnSetStep DEF CmdSetP

LEMMA CmdSetLocalStep ==
    ASSUME IInv, NEW o, NEW push, CmdSetLocal(o, push)
    PROVE  IInv' /\ ScopedStep
  <1>1. CASE ~push
    BY <1>1, StutterStep DEF CmdSetLocal, IInv, Same
  <1>2. CASE push
    <2> DEFINE x == [env |-> env, opts |-> o]
    <2>1. saved' = <<x>> \o saved /\ env' = EnvDup(env)
      BY <1>2 DEF CmdSetLocal, PushEnvStack
    <2>2. x.env = env
      OBVIOUS
    <2> HIDE DEF x
    <2>3. IsEnv(env') /\ Same(env, env')
      BY <2>1, EnvDupFacts DEF IInv
    <2>4. /\ Len(saved') = Len(saved) + 1 /\ DOMAIN saved' = 1 .. Len(saved) + 1
          /\ \A i \in 1 .. Len(saved) + 1 : saved'[i] = IF i = 1 THEN x ELSE saved[i - 1]
          /\ saved' = [i \in 1 .. Len(saved) + 1 |-> saved'[i]]
      BY <2>1, Stack DEF IInv
    <2>5. IInv'
      <3>1. \A i \in 1 .. Len(saved) + 1 : IsEnv(saved'[i].env)
        BY <2>2, <2>4 DEF IInv
      <3> QED BY <2>3, <2>4, <3>1 DEF IInv
    <2>6. Value' = Value
      BY <2>3 DEF Value, Same
    <2>7. SavedScopes' = <<Value>> \o SavedScopes
      <3>1. /\ DOMAIN SavedScopes = 1 .. Len(saved) /\ Len(SavedScopes) = Len(saved)
            /\ SavedScopes = [i \in 1 .. Len(saved) |-> SavedScopes[i]]
        BY DEF IInv, SavedScopes
      <3>2. /\ DOMAIN (<<Value>> \o SavedScopes) = 1 .. Len(saved) + 1
            /\ \A i \in 1 .. Len(saved) + 1 :
                (<<Value>> \o SavedScopes)[i] = IF i = 1 THEN Value ELSE SavedScopes[i - 1]
            /\ <<Value>> \o SavedScopes = [i \in 1 .. Len(saved) + 1 |-> (<<Value>> \o SavedScopes)[i]]
        BY <3>1, Stack DEF IInv
      <3>3. \A i \in 1 .. Len(saved) + 1 :
                [n \in Plain |-> GetEnv(saved'[i].env, n)] = (<<Value>> \o SavedScopes)[i]
        <4> SUFFICES ASSUME NEW i \in 1 .. Len(saved) + 1
                     PROVE  [n \in Plain |-> GetEnv(saved'[i].env, n)] = (<<Value>> \o SavedScopes)[i]
          OBVIOUS
        <4>1. CASE i = 1
          BY <2>2, <2>4, <3>2, <4>1 DEF Value
        <4>2. CASE i # 1
          <5>1. i - 1 \in 1 .. Len(saved)
            BY <4>2 DEF IInv
          <5>2. SavedScopes[i - 1] = [n \in Plain |-> GetEnv(saved[i - 1].env, n)]
            BY <3>1, <5>1 DEF SavedScopes
          <5> QED BY <2>4, <3>2, <4>2, <5>2
        <4> QED BY <4>1, <4>2
      <3>4. SavedScopes' = [i \in 1 .. Len(saved) + 1 |-> [n \in Plain |-> GetEnv(saved'[i].env, n)]]
        BY <2>4 DEF SavedScopes
      <3> QED BY <3>2, <3>3, <3>4
    <2>8. Scoped!OpenScope
      BY <2>6, <2>7 DEF Scoped!OpenScope, Value, SavedScopes
    <2> QED BY <2>5, <2>8 DEF ScopedStep, Scoped!Next
  <1> QED BY <1>1, <1>2

LEMMA CmdEndLocalStep ==
    ASSUME IInv, CmdEndLocal
    PROVE  IInv' /\ ScopedStep
  <1>1. saved # <<>> /\ env' = Head(saved).env /\ saved' = Tail(saved)
    BY DEF CmdEndLocal, PopEnvStack
  <1>2. /\ Len(saved) \in Nat /\ Len(saved) > 0 /\ Head(saved) = saved[1]
        /\ Len(saved') = Len(saved) - 1 /\ DOMAIN saved' = 1 .. Len(saved) - 1
        /\ \A i \in 1 .. Len(saved) - 1 : saved'[i] = saved[i + 1]
        /\ saved' = [i \in 1 .. Len(saved) - 1 |-> saved'[i]]
    BY <1>1, Stack DEF IInv
  <1>3. IInv'
    <2>1. IsEnv(env')
      BY <1>1, <1>2 DEF IInv
    <2>2. \A i \in 1 .. Len(saved) - 1 : IsEnv(saved'[i].env)
      BY <1>2 DEF IInv
    <2> QED BY <1>2, <2>1, <2>2 DEF IInv
  <1>4. /\ DOMAIN SavedScopes = 1 .. Len(saved) /\ Len(SavedScopes) = Len(saved)
        /\ SavedScopes = [i \in 1 .. Len(saved) |-> SavedScopes[i]]
    BY DEF IInv, SavedScopes
  <1>5. \A i \in 1 .. Len(saved) : SavedScopes[i] = [n \in Plain |-> GetEnv(saved[i].env, n)]
    BY <1>4 DEF SavedScopes
  <1>6. SavedScopes # <<>>
    BY <1>2, <1>4
  <1>7. /\ Head(SavedScopes) = SavedScopes[1]
        /\ \A i \in 1 .. Len(saved) - 1 : Tail(SavedScopes)[i] = SavedScopes[i + 1]
        /\ Tail(SavedScopes) = [i \in 1 .. Len(saved) - 1 |-> Tail(SavedScopes)[i]]
    BY <1>2, <1>4, <1>6, Stack
  <1>8. Value' = Head(SavedScopes)
    <2>1. SavedScopes[1] = [n \in Plain |-> GetEnv(saved[1].env, n)]
      <3>1. 1 \in 1 .. Len(saved)
        BY <1>2
      <3> QED BY <1>5, <3>1
    <2>2. env' = saved[1].env
      BY <1>1, <1>2
    <2> QED BY <1>7, <2>1, <2>2 DEF Value
  <1>9. SavedScopes' = Tail(SavedScopes)
    <2>1. SavedScopes' = [i \in 1 .. Len(saved) - 1 |-> [n \in Plain |-> GetEnv(saved'[i].env, n)]]
      BY <1>2 DEF SavedScopes
    <2>2. \A i \in 1 .. Len(saved) - 1 :
            [n \in Plain |-> GetEnv(saved'[i].env, n)] = Tail(SavedScopes)[i]
      BY <1>2, <1>5, <1>7
    <2> QED BY <1>7, <2>1, <2>2
  <1>10. Scoped!CloseScope
    BY <1>6, <1>8, <1>9 DEF Scoped!CloseScope, Value, SavedScopes
  <1> QED BY <1>3, <1>10 DEF ScopedStep, Scoped!Next

LEMMA CallDefStep ==
    ASSUME IInv, CallDef
    PROVE  IInv' /\ ScopedStep
  <1>1. env' = PushEnvLocals(env) /\ saved' = saved /\ IsEnv(env)
    BY DEF CallDef, IInv
  <1> QED BY <1>1, PushEnvLocalsFacts, StutterStep

LEMMA ReturnDefStep ==
    ASSUME IInv, ReturnDef
    PROVE  IInv' /\ ScopedStep
  <1>1. env' = PopEnvLocals(env) /\ saved' = saved /\ IsEnv(env)
    BY DEF ReturnDef, IInv
  <1> QED BY <1>1, PopEnvLocalsFacts, StutterStep

LEMMA NextScoped == IInv /\ [Next]_vars => IInv' /\ ScopedStep
  <1> SUFFICES ASSUME IInv, [Next]_vars
               PROVE  IInv' /\ ScopedStep
    OBVIOUS
  <1>1. ASSUME NEW n \in Names, NEW c \in Contents, NEW inherit \in BOOLEAN, CmdSet(n, c, inherit)
        PROVE  IInv' /\ ScopedStep
    BY <1>1, CmdSetStep
  <1>2. ASSUME NEW n \in Names, NEW answer \in Contents \cup {NoValue}, CmdSetP(n, answer)
        PROVE  IInv' /\ ScopedStep
    BY <1>2, CmdSetPStep
  <1>3. ASSUME NEW n \in Names, NEW blank \in BOOLEAN, CmdUnSet(n, blank)
        PROVE  IInv' /\ ScopedStep
    BY <1>3, CmdUnSetStep
  <1>4. ASSUME NEW o \in Options, NEW push \in BOOLEAN, CmdSetLocal(o, push)
        PROVE  IInv' /\ ScopedStep
    BY <1>4, CmdSetLocalStep
  <1>5. CASE CmdEndLocal
    BY <1>5, CmdEndLocalStep
  <1>6. CASE CallDef
    BY <1>6, CallDefStep
  <1>7. CASE ReturnDef
    BY <1>7, ReturnDefStep
  <1>8. CASE UNCHANGED vars
    BY <1>8, StutterStep DEF vars, IInv, Same
  <1> QED BY <1>1, <1>2, <1>3, <1>4, <1>5, <1>6, <1>7, <1>8 DEF Next

-----------------------------------------------------------------------------
(* The theorem. *)

\* SETLOCAL and ENDLOCAL are scopes of the ordinary variables: ENDLOCAL brings each of
\* them back to what it was at the SETLOCAL it ends, whatever was set, deleted and put
\* in the place of a deleted variable since, and however many DEF macros were called,
\* or returned, between the two; no macro, and no search that goes wrong among the
\* variables local to it, touches an ordinary variable.
THEOREM ScopesImplemented == Spec => ImplementsScopes
  <1>1. Spec => []IInv
    BY InitScoped, NextScoped, PTL DEF Spec
  <1>2. ScopedStep => [Scoped!Next]_(Scoped!vars)
    BY DEF ScopedStep, Scoped!vars, Value, SavedScopes
  <1>3. IInv /\ [Next]_vars => [Scoped!Next]_(Scoped!vars)
    BY <1>2, NextScoped
  <1> QED BY InitScoped, <1>1, <1>3, PTL DEF Spec, ImplementsScopes, Scoped!Spec

-----------------------------------------------------------------------------
(* Restores.  The levels of a local variable are those of the macros that  *)
(* are in force in its environment: the ones that were called since it is  *)
(* the current one, or that wait for the scopes above it to end.           *)

Vars == [Names -> Seq(Level)]
Macro == [depth : Nat, balanced : BOOLEAN, inherited : SUBSET Names,
          found : [Locals -> Contents \cup {NoValue}]]

\* The environment of the j-th scope, and the macros that pushed a level there.
EnvAt(j) == IF j = Len(saved) THEN env ELSE saved[Len(saved) - j].env
On(m, j) == m.balanced /\ m.depth = j
Inherited(n, ms, i) == \E k \in 1 .. i : n \in ms[k].inherited

\* p[i] is how many of the i innermost macros did.
Counts(p, ms, j) ==
    /\ p \in [0 .. Len(ms) -> Nat] /\ p[0] = 0
    /\ \A i \in 1 .. Len(ms) : p[i] = p[i - 1] + (IF On(ms[i], j) THEN 1 ELSE 0)
    /\ \A i, k \in 0 .. Len(ms) : i <= k => p[i] <= p[k] /\ p[k] <= p[i] + (k - i)

\* A macro found what is one level below its own, or nothing; and what is marked
\* on its own level was marked by it, or by a macro that it called.
Hides(v, n, ms, p, j) ==
    /\ Len(v) <= p[Len(ms)] + 1
    /\ \A i \in 1 .. Len(ms) : On(ms[i], j) =>
          /\ p[i] < Len(v) => ms[i].found[n] = v[p[i] + 1].content
          /\ p[i] >= Len(v) => ms[i].found[n] = NoValue
          /\ p[i] <= Len(v) /\ v[p[i]].inherit = TRUE => Inherited(n, ms, i)
LevelOK(e, ms, j) ==
    \E p : Counts(p, ms, j) /\ \A n \in Locals : Hides(e.var[n], n, ms, p, j)

RInv ==
    /\ env.var \in Vars /\ \A i \in 1 .. Len(saved) : saved[i].env.var \in Vars
    /\ macros \in Seq(Macro)
    /\ ~unsure =>
         /\ \A i \in 1 .. Len(macros) : macros[i].balanced => macros[i].depth <= Len(saved)
         /\ \A j \in 0 .. Len(saved) : LevelOK(EnvAt(j), macros, j)

-----------------------------------------------------------------------------
(* What happens to the macros in progress, seen from one scope. *)

\* They mark variables, or lose the scopes above this one.
Kept(ms, ns, j) ==
    /\ Len(ns) = Len(ms)
    /\ \A i \in 1 .. Len(ms) : /\ On(ns[i], j) <=> On(ms[i], j)
                               /\ ns[i].found = ms[i].found
                               /\ ms[i].inherited \subseteq ns[i].inherited
Called(ms, ns, m) ==
    /\ Len(ns) = Len(ms) + 1 /\ ns[1] = m
    /\ \A i \in 1 .. Len(ms) : ns[i + 1] = ms[i]
Returned(ms, ns, j) ==
    /\ Len(ms) = Len(ns) + 1
    /\ \A i \in 1 .. Len(ns) : /\ On(ns[i], j) <=> On(ms[i + 1], j)
                               /\ ns[i].found = ms[i + 1].found
                               /\ ms[i + 1].inherited \subseteq ns[i].inherited
    /\ 1 <= Len(ns) => ms[1].inherited \subseteq ns[1].inherited

LEMMA InheritedKept ==
    ASSUME NEW ms \in Seq(Macro), NEW ns \in Seq(Macro), NEW j, Kept(ms, ns, j),
           NEW n, NEW i \in 1 .. Len(ms), Inherited(n, ms, i)
    PROVE  Inherited(n, ns, i)
  BY DEF Inherited, Kept

LEMMA InheritedCalled ==
    ASSUME NEW ms \in Seq(Macro), NEW ns \in Seq(Macro), NEW m, Called(ms, ns, m),
           NEW n, NEW i \in 1 .. Len(ms), Inherited(n, ms, i)
    PROVE  Inherited(n, ns, i + 1)
  <1>1. PICK k \in 1 .. i : n \in ms[k].inherited
    BY DEF Inherited
  <1>2. k + 1 \in 1 .. i + 1 /\ ns[k + 1] = ms[k]
    BY DEF Called
  <1> QED BY <1>1, <1>2 DEF Inherited

LEMMA InheritedReturned ==
    ASSUME NEW ms \in Seq(Macro), NEW ns \in Seq(Macro), NEW j, Returned(ms, ns, j),
           NEW n, NEW i \in 1 .. Len(ns), Inherited(n, ms, i + 1)
    PROVE  Inherited(n, ns, i)
  <1>1. PICK k \in 1 .. i + 1 : n \in ms[k].inherited
    BY DEF Inherited
  <1>2. CASE k = 1
    BY <1>1, <1>2 DEF Inherited, Returned
  <1>3. CASE k # 1
    <2>1. k - 1 \in 1 .. i /\ (k - 1) + 1 = k /\ k - 1 \in 1 .. Len(ns)
      BY <1>3
    <2>2. n \in ns[k - 1].inherited
      BY <1>1, <2>1 DEF Returned
    <2> QED BY <2>1, <2>2 DEF Inherited
  <1> QED BY <1>2, <1>3

LEMMA CountsKept ==
    ASSUME NEW ms \in Seq(Macro), NEW ns \in Seq(Macro), NEW j, Kept(ms, ns, j),
           NEW p, Counts(p, ms, j)
    PROVE  Counts(p, ns, j)
  BY DEF Counts, Kept

LEMMA CountsOn ==
    ASSUME NEW ms \in Seq(Macro), NEW j, NEW p, Counts(p, ms, j),
           NEW i \in 1 .. Len(ms)
    PROVE  p[i] \in Nat /\ (On(ms[i], j) => p[i] >= 1)
  <1>0. i \in 0 .. Len(ms) /\ i - 1 \in 0 .. Len(ms)
    OBVIOUS
  <1>1. p[i] \in Nat /\ p[i - 1] \in Nat
    BY <1>0 DEF Counts
  <1>2. p[i] = p[i - 1] + (IF On(ms[i], j) THEN 1 ELSE 0)
    BY DEF Counts
  <1> QED BY <1>1, <1>2

\* The counts after a call, and after a return.
CountsCall(p, ms, one) == [i \in 0 .. Len(ms) + 1 |-> IF i = 0 THEN 0 ELSE p[i - 1] + one]
CountsReturn(p, ms, one) == [i \in 0 .. Len(ms) - 1 |-> p[i + 1] - one]

LEMMA CountsCalled ==
    ASSUME NEW ms \in Seq(Macro), NEW ns \in Seq(Macro), NEW m, Called(ms, ns, m),
           NEW j, NEW p, Counts(p, ms, j), NEW one \in {0, 1}, one = 1 <=> On(m, j)
    PROVE  Counts(CountsCall(p, ms, one), ns, j)
  <1> DEFINE q == CountsCall(p, ms, one)
             N == Len(ms)
  <1>1. N \in Nat /\ Len(ns) = N + 1
    BY DEF Called
  <1>2. \A i \in 0 .. N : p[i] \in Nat
    BY DEF Counts
  <1>3. p[0] = 0 /\ (\A i \in 1 .. N : p[i] = p[i - 1] + (IF On(ms[i], j) THEN 1 ELSE 0))
    BY DEF Counts
  <1>4. \A i, k \in 0 .. N : i <= k => p[i] <= p[k] /\ p[k] <= p[i] + (k - i)
    BY DEF Counts
  <1>5. q = [i \in 0 .. N + 1 |-> IF i = 0 THEN 0 ELSE p[i - 1] + one]
    BY DEF CountsCall
  <1>6. q[0] = 0 /\ \A i \in 0 .. N : q[i + 1] = p[i] + one
    BY <1>1, <1>5
  <1>7. q \in [0 .. N + 1 -> Nat]
    <2>1. ASSUME NEW i \in 0 .. N + 1 PROVE (IF i = 0 THEN 0 ELSE p[i - 1] + one) \in Nat
      BY <1>1, <1>2
    <2> QED BY <1>5, <2>1
  <1> HIDE DEF q, N
  <1>8. ASSUME NEW i \in 1 .. N + 1
        PROVE  q[i] = q[i - 1] + (IF On(ns[i], j) THEN 1 ELSE 0)
    <2>1. CASE i = 1
      BY <1>1, <1>3, <1>6, <2>1 DEF Called
    <2>2. CASE i # 1
      <3>1. PICK k \in 1 .. N : i = k + 1
        BY <1>1, <2>2
      <3>2. ns[i] = ms[k]
        BY <3>1 DEF Called, N
      <3>3. q[k + 1] = p[k] + one /\ q[(k - 1) + 1] = p[k - 1] + one
        BY <1>1, <1>6
      <3>4. p[k] = p[k - 1] + (IF On(ms[k], j) THEN 1 ELSE 0) /\ p[k] \in Nat /\ p[k - 1] \in Nat
        BY <1>1, <1>2, <1>3
      <3> QED BY <1>1, <3>1, <3>2, <3>3, <3>4
    <2> QED BY <2>1, <2>2
  <1>9. ASSUME NEW i \in 0 .. N + 1, NEW k \in 0 .. N + 1, i <= k
        PROVE  q[i] <= q[k] /\ q[k] <= q[i] + (k - i)
    <2>1. CASE k = 0
      BY <1>6, <1>9, <2>1
    <2>2. CASE i = 0 /\ k # 0
      <3>1. k - 1 \in 0 .. N /\ (k - 1) + 1 = k /\ 0 \in 0 .. N
        BY <1>1, <2>2
      <3>2. q[k] = p[k - 1] + one /\ p[k - 1] \in Nat
        BY <1>2, <1>6, <3>1
      <3>3. p[k - 1] <= p[0] + ((k - 1) - 0)
        BY <1>4, <3>1
      <3> QED BY <1>3, <1>6, <2>2, <3>2, <3>3
    <2>3. CASE i # 0
      <3>1. k - 1 \in 0 .. N /\ (k - 1) + 1 = k /\ i - 1 \in 0 .. N /\ (i - 1) + 1 = i /\ i - 1 <= k - 1
        BY <1>1, <1>9, <2>3
      <3>2. /\ q[k] = p[k - 1] + one /\ p[k - 1] \in Nat
            /\ q[i] = p[i - 1] + one /\ p[i - 1] \in Nat
        BY <1>2, <1>6, <3>1
      <3>3. p[i - 1] <= p[k - 1] /\ p[k - 1] <= p[i - 1] + ((k - 1) - (i - 1))
        BY <1>4, <3>1
      <3> QED BY <3>2, <3>3
    <2> QED BY <2>1, <2>2, <2>3
  <1> QED BY <1>1, <1>6, <1>7, <1>8, <1>9 DEF Counts, q, N

LEMMA CountsReturned ==
    ASSUME NEW ms \in Seq(Macro), NEW ns \in Seq(Macro), NEW j, Returned(ms, ns, j),
           NEW p, Counts(p, ms, j), NEW one \in {0, 1}, one = 1 <=> On(ms[1], j)
    PROVE  Counts(CountsReturn(p, ms, one), ns, j)
  <1> DEFINE q == CountsReturn(p, ms, one)
             N == Len(ns)
  <1>1. N \in Nat /\ Len(ms) = N + 1
    BY DEF Returned
  <1>2. \A i \in 0 .. N + 1 : p[i] \in Nat
    BY <1>1 DEF Counts
  <1>3. p[0] = 0 /\ (\A i \in 1 .. N + 1 : p[i] = p[i - 1] + (IF On(ms[i], j) THEN 1 ELSE 0))
    BY <1>1 DEF Counts
  <1>4. \A i, k \in 0 .. N + 1 : i <= k => p[i] <= p[k] /\ p[k] <= p[i] + (k - i)
    BY <1>1 DEF Counts
  <1>5. q = [i \in 0 .. N |-> p[i + 1] - one]
    BY <1>1 DEF CountsReturn
  <1>6. \A i \in 0 .. N : q[i] = p[i + 1] - one
    BY <1>5
  <1> HIDE DEF q, N
  <1>7. p[1] = one
    <2>1. 1 \in 1 .. N + 1 /\ 1 - 1 = 0
      BY <1>1
    <2> QED BY <1>3, <2>1
  <1>8. ASSUME NEW i \in 0 .. N PROVE q[i] \in Nat
    <2>1. 1 \in 0 .. N + 1 /\ i + 1 \in 0 .. N + 1 /\ 1 <= i + 1
      BY <1>1
    <2>2. p[1] <= p[i + 1] /\ p[i + 1] \in Nat
      BY <1>2, <1>4, <2>1
    <2> QED BY <1>6, <1>7, <2>2
  <1>9. q \in [0 .. N -> Nat]
    <2>1. q = [i \in 0 .. N |-> q[i]]
      BY <1>5, <1>6
    <2> QED BY <1>8, <2>1
  <1>10. q[0] = 0
    BY <1>1, <1>6, <1>7
  <1>11. ASSUME NEW i \in 1 .. N
         PROVE  q[i] = q[i - 1] + (IF On(ns[i], j) THEN 1 ELSE 0)
    <2>1. i + 1 \in 1 .. N + 1 /\ (i + 1) - 1 = i /\ i - 1 \in 0 .. N /\ (i - 1) + 1 = i /\ i \in 0 .. N + 1
      BY <1>1
    <2>2. p[i + 1] = p[i] + (IF On(ms[i + 1], j) THEN 1 ELSE 0) /\ p[i] \in Nat
      BY <1>2, <1>3, <2>1
    <2>3. q[i] = p[i + 1] - one /\ q[i - 1] = p[i] - one
      BY <1>6, <2>1
    <2>4. On(ns[i], j) <=> On(ms[i + 1], j)
      BY DEF Returned, N
    <2> QED BY <2>2, <2>3, <2>4
  <1>12. ASSUME NEW i \in 0 .. N, NEW k \in 0 .. N, i <= k
         PROVE  q[i] <= q[k] /\ q[k] <= q[i] + (k - i)
    <2>1. i + 1 \in 0 .. N + 1 /\ k + 1 \in 0 .. N + 1 /\ i + 1 <= k + 1
      BY <1>1, <1>12
    <2>2. /\ p[i + 1] <= p[k + 1] /\ p[k + 1] <= p[i + 1] + ((k + 1) - (i + 1))
          /\ p[i + 1] \in Nat /\ p[k + 1] \in Nat
      BY <1>2, <1>4, <2>1
    <2> QED BY <1>6, <2>2
  <1> QED BY <1>9, <1>10, <1>11, <1>12 DEF Counts, q, N

-----------------------------------------------------------------------------
(* What happens to one variable. *)

\* It keeps its value, is set, or is deleted where nothing is below it.
Written(v, w, marked) ==
    \/ w = v
    \/ Len(v) = 1 /\ w = <<>>
    \/ /\ Len(w) = (IF v = <<>> THEN 1 ELSE Len(v))
       /\ \A k \in 2 .. Len(v) : w[k] = v[k]
       /\ w[1].inherit = TRUE => marked \/ (v # <<>> /\ v[1].inherit = TRUE)
PushVar(v) == IF v = <<>> THEN v ELSE <<[content |-> v[1].content, inherit |-> FALSE]>> \o v
PopVar(v) == IF Len(v) > 1 THEN PopLevel(v) ELSE IF v # <<>> /\ ~v[1].inherit THEN <<>> ELSE v
Value1(v) == IF v = <<>> THEN NoValue ELSE v[1].content

LEMMA HidesKept ==
    ASSUME NEW ms \in Seq(Macro), NEW ns \in Seq(Macro), NEW j, Kept(ms, ns, j),
           NEW p, Counts(p, ms, j), NEW n, NEW v, Hides(v, n, ms, p, j)
    PROVE  Hides(v, n, ns, p, j)
  <1>1. Len(v) <= p[Len(ns)] + 1
    BY DEF Kept, Hides
  <1>2. ASSUME NEW i \in 1 .. Len(ns), On(ns[i], j)
        PROVE  /\ p[i] < Len(v) => ns[i].found[n] = v[p[i] + 1].content
               /\ p[i] >= Len(v) => ns[i].found[n] = NoValue
               /\ p[i] <= Len(v) /\ v[p[i]].inherit = TRUE => Inherited(n, ns, i)
    <2>1. i \in 1 .. Len(ms) /\ On(ms[i], j) /\ ns[i].found = ms[i].found
      BY <1>2 DEF Kept
    <2>2. /\ p[i] < Len(v) => ms[i].found[n] = v[p[i] + 1].content
          /\ p[i] >= Len(v) => ms[i].found[n] = NoValue
          /\ p[i] <= Len(v) /\ v[p[i]].inherit = TRUE => Inherited(n, ms, i)
      BY <2>1 DEF Hides
    <2> QED BY <2>1, <2>2, InheritedKept
  <1> QED BY <1>1, <1>2 DEF Hides

LEMMA HidesWritten ==
    ASSUME NEW ms \in Seq(Macro), NEW j, NEW p, Counts(p, ms, j),
           NEW n, NEW v \in Seq(Level), NEW w \in Seq(Level), Hides(v, n, ms, p, j),
           NEW marked \in BOOLEAN, Written(v, w, marked),
           marked /\ ms # <<>> => n \in ms[1].inherited
    PROVE  Hides(w, n, ms, p, j)
  <1>0. Len(v) \in Nat /\ Len(w) \in Nat /\ Len(ms) \in Nat /\ p[Len(ms)] \in Nat /\ (v = <<>> <=> Len(v) = 0)
    BY DEF Counts
  <1>1. Len(w) <= p[Len(ms)] + 1
    <2>1. Len(v) <= p[Len(ms)] + 1
      BY DEF Hides
    <2>2. Len(w) = 0 \/ Len(w) = 1 \/ Len(w) = Len(v)
      BY <1>0 DEF Written
    <2> DEFINE a == Len(v)
               b == Len(w)
               c == p[Len(ms)]
    <2>3. a \in Nat /\ b \in Nat /\ c \in Nat /\ a <= c + 1 /\ (b = 0 \/ b = 1 \/ b = a)
      BY <1>0, <2>1, <2>2
    <2> HIDE DEF a, b, c
    <2>4. b <= c + 1
      BY <2>3
    <2> QED BY <2>4 DEF b, c
  <1>2. ASSUME NEW i \in 1 .. Len(ms), On(ms[i], j)
        PROVE  /\ p[i] < Len(w) => ms[i].found[n] = w[p[i] + 1].content
               /\ p[i] >= Len(w) => ms[i].found[n] = NoValue
               /\ p[i] <= Len(w) /\ w[p[i]].inherit = TRUE => Inherited(n, ms, i)
    <2>1. /\ p[i] < Len(v) => ms[i].found[n] = v[p[i] + 1].content
          /\ p[i] >= Len(v) => ms[i].found[n] = NoValue
          /\ p[i] <= Len(v) /\ v[p[i]].inherit = TRUE => Inherited(n, ms, i)
      BY <1>2 DEF Hides
    <2>2. p[i] \in Nat /\ p[i] >= 1
      BY <1>2, CountsOn
    <2>3. CASE w = v
      BY <2>1, <2>3
    <2>4. CASE Len(v) = 1 /\ w = <<>>
      <3>1. Len(w) = 0
        BY <2>4
      <3> QED BY <2>1, <2>2, <2>4, <3>1
    <2>5. CASE /\ Len(w) = (IF v = <<>> THEN 1 ELSE Len(v))
               /\ \A k \in 2 .. Len(v) : w[k] = v[k]
               /\ w[1].inherit = TRUE => marked \/ (v # <<>> /\ v[1].inherit = TRUE)
      <3>1. p[i] < Len(w) => p[i] < Len(v) /\ p[i] + 1 \in 2 .. Len(v)
        BY <1>0, <2>2, <2>5
      <3>2. p[i] >= Len(w) => p[i] >= Len(v)
        BY <1>0, <2>2, <2>5
      <3>3. ASSUME p[i] <= Len(w), w[p[i]].inherit = TRUE
            PROVE  Inherited(n, ms, i)
        <4>1. CASE p[i] = 1
          <5>1. CASE marked
            <6>1. 1 \in 1 .. i /\ ms # <<>>
              BY <1>0
            <6> QED BY <5>1, <6>1 DEF Inherited
          <5>2. CASE ~marked
            <6>1. v # <<>> /\ v[1].inherit = TRUE
              BY <2>5, <3>3, <4>1, <5>2
            <6> QED BY <1>0, <2>1, <4>1, <6>1
          <5> QED BY <5>1, <5>2
        <4>2. CASE p[i] # 1
          <5>1. p[i] \in 2 .. Len(v)
            BY <1>0, <2>2, <2>5, <3>3, <4>2
          <5>2. w[p[i]] = v[p[i]] /\ p[i] <= Len(v)
            BY <1>0, <2>5, <5>1
          <5> QED BY <2>1, <3>3, <5>2
        <4> QED BY <4>1, <4>2
      <3> QED BY <2>1, <2>5, <3>1, <3>2, <3>3
    <2> QED BY <2>3, <2>4, <2>5 DEF Written
  <1> QED BY <1>1, <1>2 DEF Hides

LEMMA PushVarFacts ==
    ASSUME NEW v \in Seq(Level)
    PROVE  /\ PushVar(v) \in Seq(Level)
           /\ v = <<>> => PushVar(v) = <<>>
           /\ v # <<>> => /\ Len(PushVar(v)) = Len(v) + 1
                          /\ PushVar(v)[1].inherit = FALSE
                          /\ \A k \in 1 .. Len(v) : PushVar(v)[k + 1] = v[k]
  <1>1. CASE v = <<>>
    BY <1>1 DEF PushVar
  <1>2. CASE v # <<>>
    <2> DEFINE x == [content |-> v[1].content, inherit |-> FALSE]
    <2>1. v[1] \in Level
      BY <1>2
    <2>2. x \in Level /\ x.inherit = FALSE
      BY <2>1 DEF Level
    <2>3. PushVar(v) = <<x>> \o v
      BY <1>2 DEF PushVar
    <2> HIDE DEF x
    <2>4. /\ <<x>> \o v \in Seq(Level) /\ Len(<<x>> \o v) = Len(v) + 1 /\ (<<x>> \o v)[1] = x
          /\ \A k \in 1 .. Len(v) : (<<x>> \o v)[k + 1] = v[k]
      BY <2>2
    <2> QED BY <1>2, <2>2, <2>3, <2>4
  <1> QED BY <1>1, <1>2

LEMMA HidesCalled ==
    ASSUME NEW ms \in Seq(Macro), NEW ns \in Seq(Macro), NEW m, Called(ms, ns, m),
           NEW j, NEW p, Counts(p, ms, j), On(m, j),
           NEW n, NEW v \in Seq(Level), Hides(v, n, ms, p, j), m.found[n] = Value1(v)
    PROVE  Hides(PushVar(v), n, ns, CountsCall(p, ms, 1), j)
  <1> DEFINE w == PushVar(v)
             q == CountsCall(p, ms, 1)
             L == Len(v)
             N == Len(ms)
  <1>1. L \in Nat /\ N \in Nat /\ (v = <<>> <=> L = 0) /\ Len(ns) = N + 1
    BY DEF Called
  <1>2. /\ L = 0 => Len(w) = 0
        /\ L # 0 => Len(w) = L + 1 /\ w[1].inherit = FALSE /\ \A k \in 1 .. L : w[k + 1] = v[k]
    BY <1>1, PushVarFacts
  <1>3. \A i \in 0 .. N : q[i + 1] = p[i] + 1 /\ p[i] \in Nat
    <2>1. q = [i \in 0 .. N + 1 |-> IF i = 0 THEN 0 ELSE p[i - 1] + 1]
      BY DEF CountsCall
    <2>2. \A i \in 0 .. N : i + 1 \in 0 .. N + 1 /\ i + 1 # 0 /\ (i + 1) - 1 = i
      BY <1>1
    <2> QED BY <2>1, <2>2 DEF Counts
  <1>4. L <= p[N] + 1 /\ p[0] = 0
    BY DEF Hides, Counts
  <1> HIDE DEF w, q, L, N
  <1>5. Len(w) <= q[N + 1] + 1
    <2>1. q[N + 1] = p[N] + 1 /\ p[N] \in Nat
      BY <1>1, <1>3
    <2> QED BY <1>1, <1>2, <1>4, <2>1
  <1>6. ASSUME NEW i \in 1 .. N + 1, On(ns[i], j)
        PROVE  /\ q[i] < Len(w) => ns[i].found[n] = w[q[i] + 1].content
               /\ q[i] >= Len(w) => ns[i].found[n] = NoValue
               /\ q[i] <= Len(w) /\ w[q[i]].inherit = TRUE => Inherited(n, ns, i)
    <2>1. CASE i = 1
      <3>1. q[i] = 1 /\ ns[i] = m
        BY <1>1, <1>3, <1>4, <2>1 DEF Called
      <3>2. CASE L = 0
        BY <1>1, <1>2, <3>1, <3>2 DEF Value1
      <3>3. CASE L # 0
        <4>1. w[1 + 1] = v[1] /\ Len(w) = L + 1 /\ w[1].inherit = FALSE
          BY <1>1, <1>2, <3>3
        <4>2. m.found[n] = v[1].content
          BY <1>1, <3>3 DEF Value1
        <4> QED BY <1>1, <3>1, <3>3, <4>1, <4>2
      <3> QED BY <3>2, <3>3
    <2>2. CASE i # 1
      <3>1. PICK k \in 1 .. N : i = k + 1
        BY <1>1, <2>2
      <3>2. ns[i] = ms[k] /\ On(ms[k], j) /\ q[i] = p[k] + 1
        BY <1>1, <1>3, <1>6, <3>1 DEF Called, N
      <3>3. /\ p[k] < L => ms[k].found[n] = v[p[k] + 1].content
            /\ p[k] >= L => ms[k].found[n] = NoValue
            /\ p[k] <= L /\ v[p[k]].inherit = TRUE => Inherited(n, ms, k)
        BY <3>2 DEF Hides, L, N
      <3>4. p[k] \in Nat /\ p[k] >= 1
        BY <3>2, CountsOn DEF N
      <3>5. Inherited(n, ms, k) => Inherited(n, ns, i)
        BY <3>1, InheritedCalled DEF N
      <3>6. CASE L = 0
        BY <1>1, <1>2, <3>2, <3>3, <3>4, <3>6
      <3>7. CASE L # 0
        <4>1. Len(w) = L + 1
          BY <1>2, <3>7
        <4>2. p[k] < L => w[(p[k] + 1) + 1] = v[p[k] + 1]
          BY <1>1, <1>2, <3>4, <3>7
        <4>3. p[k] <= L => w[p[k] + 1] = v[p[k]]
          BY <1>1, <1>2, <3>4, <3>7
        <4>4. q[i] < Len(w) => ns[i].found[n] = w[q[i] + 1].content
          <5>1. q[i] < Len(w) => p[k] < L
            BY <1>1, <3>2, <3>4, <4>1
          <5> QED BY <3>2, <3>3, <4>2, <5>1
        <4>5. q[i] >= Len(w) => ns[i].found[n] = NoValue
          <5>1. q[i] >= Len(w) => p[k] >= L
            BY <1>1, <3>2, <3>4, <4>1
          <5> QED BY <3>2, <3>3, <5>1
        <4>6. q[i] <= Len(w) => p[k] <= L
          BY <1>1, <3>2, <3>4, <4>1
        <4> QED BY <3>2, <3>3, <3>5, <4>3, <4>4, <4>5, <4>6
      <3> QED BY <3>6, <3>7
    <2> QED BY <2>1, <2>2
  <1> QED BY <1>1, <1>5, <1>6 DEF Hides, w, q

\* In the other scopes, a call and a return change nothing.
LEMMA HidesCalledAbove ==
    ASSUME NEW ms \in Seq(Macro), NEW ns \in Seq(Macro), NEW m, Called(ms, ns, m),
           NEW j, NEW p, Counts(p, ms, j), ~On(m, j),
           NEW n, NEW v \in Seq(Level), Hides(v, n, ms, p, j)
    PROVE  Hides(v, n, ns, CountsCall(p, ms, 0), j)
  <1> DEFINE q == CountsCall(p, ms, 0)
             N == Len(ms)
  <1>1. N \in Nat /\ Len(ns) = N + 1
    BY DEF Called
  <1>2. \A i \in 0 .. N : q[i + 1] = p[i] /\ p[i] \in Nat
    BY <1>1 DEF CountsCall, Counts
  <1>3. Len(v) <= p[N] + 1
    BY DEF Hides
  <1> HIDE DEF q, N
  <1>4. Len(v) <= q[N + 1] + 1
    BY <1>1, <1>2, <1>3
  <1>5. ASSUME NEW i \in 1 .. N + 1, On(ns[i], j)
        PROVE  /\ q[i] < Len(v) => ns[i].found[n] = v[q[i] + 1].content
               /\ q[i] >= Len(v) => ns[i].found[n] = NoValue
               /\ q[i] <= Len(v) /\ v[q[i]].inherit = TRUE => Inherited(n, ns, i)
    <2>1. i # 1
      BY <1>5 DEF Called
    <2>2. PICK k \in 1 .. N : i = k + 1
      BY <1>1, <2>1
    <2>3. ns[i] = ms[k] /\ On(ms[k], j) /\ q[i] = p[k]
      BY <1>1, <1>2, <1>5, <2>2 DEF Called, N
    <2>4. /\ p[k] < Len(v) => ms[k].found[n] = v[p[k] + 1].content
          /\ p[k] >= Len(v) => ms[k].found[n] = NoValue
          /\ p[k] <= Len(v) /\ v[p[k]].inherit = TRUE => Inherited(n, ms, k)
      BY <2>3 DEF Hides, N
    <2>5. Inherited(n, ms, k) => Inherited(n, ns, i)
      BY <2>2, InheritedCalled DEF N
    <2> QED BY <2>3, <2>4, <2>5
  <1> QED BY <1>1, <1>4, <1>5 DEF Hides, q

LEMMA PopVarFacts ==
    ASSUME NEW v \in Seq(Level)
    PROVE  LET w == PopVar(v)
           IN  /\ w \in Seq(Level)
               /\ Len(v) = 0 => w = v
               /\ Len(v) = 1 => IF v[1].inherit = TRUE THEN w = v ELSE w = <<>>
               /\ Len(v) > 1 => /\ Len(w) = Len(v) - 1
                                /\ w[1] = IF v[1].inherit = TRUE THEN v[1] ELSE v[2]
                                /\ \A k \in 2 .. Len(v) - 1 : w[k] = v[k + 1]
  <1> DEFINE w == PopVar(v)
             s == SubSeq(v, 3, Len(v))
  <1>1. Len(v) \in Nat /\ (v = <<>> <=> Len(v) = 0)
    OBVIOUS
  <1>2. ASSUME NEW k \in 1 .. Len(v) PROVE v[k] \in Level /\ v[k].inherit \in BOOLEAN
    <2>1. v[k] \in Level
      OBVIOUS
    <2> QED BY <2>1 DEF Level
  <1>3. CASE Len(v) = 0
    BY <1>1, <1>3 DEF PopVar
  <1>4. CASE Len(v) = 1
    <2>1. v[1].inherit \in BOOLEAN
      BY <1>2, <1>4
    <2>2. w = IF ~v[1].inherit THEN <<>> ELSE v
      BY <1>1, <1>4 DEF PopVar
    <2>3. <<>> \in Seq(Level)
      OBVIOUS
    <2> QED BY <1>4, <2>1, <2>2, <2>3
  <1>5. CASE Len(v) > 1
    <2>1. v[1].inherit \in BOOLEAN /\ v[1] \in Level
      BY <1>1, <1>2, <1>5
    <2>2. w = IF v[1].inherit THEN <<v[1]>> \o s ELSE Tail(v)
      BY <1>5 DEF PopVar, PopLevel
    <2>3. /\ s \in Seq(Level) /\ Len(s) = Len(v) - 2
          /\ \A k \in 1 .. Len(v) - 2 : s[k] = v[k + 2]
      <3>1. 3 \in 1 .. Len(v) + 1 /\ \A k \in 3 .. Len(v) : k \in DOMAIN v
        BY <1>1, <1>5
      <3>2. /\ Len(s) = (IF 3 <= Len(v) THEN Len(v) - 3 + 1 ELSE 0)
            /\ s \in Seq(Level) 
            /\ \A k \in 1 .. Len(v) - 3 + 1 : s[k] = v[3 + k - 1]
        BY <1>1, <1>5, <3>1, SubSeqProperties
      <3>3. ASSUME NEW k \in 1 .. Len(v) - 2 PROVE s[k] = v[k + 2]
        <4>1. 3 + k - 1 = k + 2 /\ k \in 1 .. Len(v) - 3 + 1
          BY <1>1, <3>3
        <4> QED BY <3>2, <4>1
      <3>4. Len(s) = Len(v) - 2
        <4> DEFINE a == Len(v)
                   b == Len(s)
        <4>1. a \in Nat /\ a > 1 /\ b = (IF 3 <= a THEN a - 3 + 1 ELSE 0)
          BY <1>1, <1>5, <3>2
        <4> HIDE DEF a, b
        <4>2. b = a - 2
          BY <4>1
        <4> QED BY <4>2 DEF a, b
      <3> QED BY <3>2, <3>3, <3>4
    <2> DEFINE Popped == /\ w \in Seq(Level) /\ Len(w) = Len(v) - 1
                         /\ w[1] = (IF v[1].inherit = TRUE THEN v[1] ELSE v[2])
                         /\ \A k \in 2 .. Len(v) - 1 : w[k] = v[k + 1]
    <2> HIDE DEF w, s
    <2>4. ASSUME v[1].inherit = TRUE PROVE Popped
      <3>1. w = <<v[1]>> \o s
        BY <2>2, <2>4
      <3>2. /\ w \in Seq(Level) /\ Len(w) = Len(s) + 1 /\ w[1] = v[1]
            /\ \A k \in 1 .. Len(s) : w[k + 1] = s[k]
        BY <2>1, <2>3, <3>1
      <3>3. ASSUME NEW k \in 2 .. Len(v) - 1 PROVE w[k] = v[k + 1]
        <4>1. k - 1 \in 1 .. Len(v) - 2 /\ (k - 1) + 1 = k /\ (k - 1) + 2 = k + 1
          BY <1>1, <3>3
        <4> QED BY <2>3, <3>2, <4>1
      <3>4. Len(w) = Len(v) - 1
        <4> DEFINE a == Len(v)
                   b == Len(s)
                   c == Len(w)
        <4>1. a \in Nat /\ b = a - 2 /\ c = b + 1
          BY <1>1, <2>3, <3>2
        <4> HIDE DEF a, b, c
        <4>2. c = a - 1
          BY <4>1
        <4> QED BY <4>2 DEF a, c
      <3> QED BY <2>4, <3>2, <3>3, <3>4
    <2>5. ASSUME v[1].inherit = FALSE PROVE Popped
      <3>1. w = Tail(v)
        BY <2>2, <2>5
      <3>2. w \in Seq(Level) /\ Len(w) = Len(v) - 1 /\ \A k \in 1 .. Len(v) - 1 : w[k] = v[k + 1]
        BY <1>1, <1>5, <3>1
      <3>3. w[1] = v[2] /\ \A k \in 2 .. Len(v) - 1 : w[k] = v[k + 1]
        <4>1. 1 \in 1 .. Len(v) - 1 /\ 1 + 1 = 2 /\ \A k \in 2 .. Len(v) - 1 : k \in 1 .. Len(v) - 1
          BY <1>1, <1>5
        <4> QED BY <3>2, <4>1
      <3>4. v[1].inherit # TRUE
        BY <2>5
      <3> QED BY <3>2, <3>3, <3>4
    <2>6. Popped
      BY <2>1, <2>4, <2>5
    <2> HIDE DEF Popped
    <2> DEFINE n == Len(v)
    <2>7. n > 1 /\ n \in Nat
      BY <1>1, <1>5
    <2> HIDE DEF n
    <2>8. n # 0 /\ n # 1
      BY <2>7
    <2> QED BY <1>5, <2>6, <2>8 DEF w, n, Popped
  <1>6. Len(v) = 0 \/ Len(v) = 1 \/ Len(v) > 1
    BY <1>1
  <1> QED BY <1>3, <1>4, <1>5, <1>6

LEMMA HidesReturned ==
    ASSUME NEW ms \in Seq(Macro), NEW ns \in Seq(Macro), NEW j, Returned(ms, ns, j),
           NEW p, Counts(p, ms, j), On(ms[1], j),
           NEW n, NEW v \in Seq(Level), Hides(v, n, ms, p, j)
    PROVE  Hides(PopVar(v), n, ns, CountsReturn(p, ms, 1), j)
  <1> DEFINE w == PopVar(v)
             q == CountsReturn(p, ms, 1)
             L == Len(v)
             N == Len(ns)
  <1>1. L \in Nat /\ N \in Nat /\ Len(ms) = N + 1
    BY DEF Returned
  <1>2. /\ L = 0 => w = v
        /\ L = 1 => IF v[1].inherit = TRUE THEN w = v ELSE w = <<>>
        /\ L > 1 => /\ Len(w) = L - 1
                    /\ w[1] = IF v[1].inherit = TRUE THEN v[1] ELSE v[2]
                    /\ \A k \in 2 .. L - 1 : w[k] = v[k + 1]
    BY PopVarFacts
  <1>3. \A i \in 0 .. N : q[i] = p[i + 1] - 1 /\ p[i + 1] \in Nat
    <2>1. q = [i \in 0 .. N |-> p[i + 1] - 1]
      BY <1>1 DEF CountsReturn
    <2>2. \A i \in 0 .. N : i + 1 \in 0 .. N + 1
      BY <1>1
    <2> QED BY <1>1, <2>1, <2>2 DEF Counts
  <1>4. L <= p[N + 1] + 1
    BY <1>1 DEF Hides
  <1>5. p[1] = 1
    <2>1. 1 \in 1 .. Len(ms) /\ 1 - 1 = 0
      BY <1>1
    <2>2. p[1] = p[1 - 1] + (IF On(ms[1], j) THEN 1 ELSE 0) /\ p[0] = 0
      BY <2>1 DEF Counts
    <2> QED BY <2>1, <2>2
  <1>6. Len(<<>>) = 0 /\ Len(v) = L
    OBVIOUS
  <1>7. L >= 1 /\ v[1].inherit = TRUE => Inherited(n, ms, 1)
    <2>1. 1 \in 1 .. Len(ms)
      BY <1>1
    <2>2. p[1] <= Len(v) /\ v[p[1]].inherit = TRUE => Inherited(n, ms, 1)
      BY <2>1 DEF Hides
    <2> QED BY <1>1, <1>5, <2>2
  <1> HIDE DEF w, q, L, N
  <1>8. Len(w) <= q[N] + 1
    <2>1. q[N] = p[N + 1] - 1 /\ p[N + 1] \in Nat /\ p[N + 1] >= 1
      <3>1. p[1] <= p[N + 1]
        BY <1>1 DEF Counts
      <3> QED BY <1>1, <1>3, <1>5, <3>1
    <2>2. Len(w) = 0 \/ (L = 1 /\ Len(w) = 1) \/ (L > 1 /\ Len(w) = L - 1)
      <3>1. CASE L = 0
        BY <1>2, <1>6, <3>1
      <3>2. CASE L = 1
        BY <1>2, <1>6, <3>2
      <3>3. CASE L > 1
        BY <1>2, <3>3
      <3> QED BY <1>1, <3>1, <3>2, <3>3
    <2> DEFINE a == p[N + 1]
               b == Len(w)
    <2>3. a \in Nat /\ a >= 1 /\ L <= a + 1 /\ q[N] = a - 1 /\ (b = 0 \/ (L = 1 /\ b = 1) \/ (L > 1 /\ b = L - 1))
      BY <1>4, <2>1, <2>2
    <2> HIDE DEF a, b
    <2>4. b <= q[N] + 1
      BY <1>1, <2>3
    <2> QED BY <2>4 DEF b
  <1>9. ASSUME NEW i \in 1 .. N, On(ns[i], j)
        PROVE  /\ q[i] < Len(w) => ns[i].found[n] = w[q[i] + 1].content
               /\ q[i] >= Len(w) => ns[i].found[n] = NoValue
               /\ q[i] <= Len(w) /\ w[q[i]].inherit = TRUE => Inherited(n, ns, i)
    <2> DEFINE k == i + 1
               a == p[i + 1]
    <2>1. k \in 1 .. N + 1 /\ k \in 1 .. Len(ms) /\ i \in 0 .. N /\ i - 1 \in 0 .. N /\ (i - 1) + 1 = i
      BY <1>1
    <2>2. On(ms[k], j) /\ ns[i].found = ms[k].found
      BY <1>9 DEF Returned, N
    <2>3. q[i] = a - 1 /\ a \in Nat
      BY <1>3, <2>1
    <2>4. a >= 2
      <3>1. p[k] = p[k - 1] + (IF On(ms[k], j) THEN 1 ELSE 0)
        BY <2>1 DEF Counts
      <3>2. k - 1 = i /\ p[1] <= p[i] /\ p[i] \in Nat
        <4>1. 1 \in 0 .. Len(ms) /\ i \in 0 .. Len(ms) /\ 1 <= i
          BY <1>1
        <4>2. p[1] <= p[i] /\ p[i] \in Nat
          BY <4>1 DEF Counts
        <4> QED BY <4>2 DEF k
      <3> QED BY <1>5, <2>2, <3>1, <3>2
    <2>5. /\ a < L => ms[k].found[n] = v[a + 1].content
          /\ a >= L => ms[k].found[n] = NoValue
          /\ a <= L /\ v[a].inherit = TRUE => Inherited(n, ms, k)
      BY <2>1, <2>2 DEF Hides, L
    <2>6. Inherited(n, ms, k) => Inherited(n, ns, i)
      BY InheritedReturned DEF N
    <2>7. Inherited(n, ms, 1) => Inherited(n, ms, k)
      BY <2>1 DEF Inherited
    <2> HIDE DEF a, k
    <2>8. CASE L = 0
      BY <1>2, <1>6, <2>2, <2>3, <2>4, <2>5, <2>8
    <2>9. CASE L = 1
      <3>1. Len(w) = 0 \/ (Len(w) = 1 /\ w = v /\ v[1].inherit = TRUE)
        BY <1>2, <1>6, <2>9
      <3>2. q[i] >= 1 /\ a >= L
        BY <2>3, <2>4, <2>9
      <3>3. q[i] <= Len(w) => Inherited(n, ns, i)
        BY <1>7, <2>3, <2>6, <2>7, <2>9, <3>1, <3>2
      <3>4. ~(q[i] < Len(w))
        BY <2>3, <3>1, <3>2
      <3> QED BY <2>2, <2>5, <3>2, <3>3, <3>4
    <2>10. CASE L > 1
      <3>1. Len(w) = L - 1
        BY <1>2, <2>10
      <3>2. q[i] < Len(w) => a < L /\ a \in 2 .. L - 1 /\ q[i] + 1 = a
        BY <1>1, <2>3, <2>4, <2>10, <3>1
      <3>3. q[i] >= Len(w) => a >= L
        BY <1>1, <2>3, <2>4, <2>10, <3>1
      <3>4. a \in 2 .. L - 1 => w[a] = v[a + 1]
        BY <1>2, <2>10
      <3>5. ASSUME q[i] <= Len(w), w[q[i]].inherit = TRUE
            PROVE  Inherited(n, ns, i)
        <4>1. a <= L
          BY <1>1, <2>3, <3>1, <3>5
        <4>2. CASE a = 2
          <5>1. w[1].inherit = TRUE /\ q[i] = 1
            BY <2>3, <3>5, <4>2
          <5>2. v[1].inherit = TRUE \/ v[a].inherit = TRUE
            BY <1>2, <2>10, <4>2, <5>1
          <5> QED BY <1>1, <1>7, <2>5, <2>6, <2>7, <2>10, <4>1, <5>2
        <4>3. CASE a # 2
          <5>1. q[i] \in 2 .. L - 1 /\ q[i] + 1 = a
            BY <1>1, <2>3, <2>4, <2>10, <4>1, <4>3
          <5>2. w[q[i]] = v[a]
            BY <1>2, <2>10, <5>1
          <5> QED BY <2>5, <2>6, <3>5, <4>1, <5>2
        <4> QED BY <4>2, <4>3
      <3> QED BY <2>2, <2>5, <3>2, <3>3, <3>4, <3>5
    <2>11. L = 0 \/ L = 1 \/ L > 1
      BY <1>1
    <2> QED BY <2>8, <2>9, <2>10, <2>11
  <1> QED BY <1>8, <1>9 DEF Hides, w, q, N

LEMMA HidesReturnedAbove ==
    ASSUME NEW ms \in Seq(Macro), NEW ns \in Seq(Macro), NEW j, Returned(ms, ns, j),
           NEW p, Counts(p, ms, j), ~On(ms[1], j),
           NEW n, NEW v \in Seq(Level), Hides(v, n, ms, p, j)
    PROVE  Hides(v, n, ns, CountsReturn(p, ms, 0), j)
  <1> DEFINE q == CountsReturn(p, ms, 0)
             N == Len(ns)
  <1>1. N \in Nat /\ Len(ms) = N + 1
    BY DEF Returned
  <1>2. \A i \in 0 .. N : q[i] = p[i + 1] /\ p[i + 1] \in Nat
    <2>1. q = [i \in 0 .. N |-> p[i + 1] - 0]
      BY <1>1 DEF CountsReturn
    <2>2. \A i \in 0 .. N : i + 1 \in 0 .. N + 1
      BY <1>1
    <2> QED BY <1>1, <2>1, <2>2 DEF Counts
  <1>3. Len(v) <= p[N + 1] + 1
    BY <1>1 DEF Hides
  <1> HIDE DEF q, N
  <1>4. Len(v) <= q[N] + 1
    BY <1>1, <1>2, <1>3
  <1>5. ASSUME NEW i \in 1 .. N, On(ns[i], j)
        PROVE  /\ q[i] < Len(v) => ns[i].found[n] = v[q[i] + 1].content
               /\ q[i] >= Len(v) => ns[i].found[n] = NoValue
               /\ q[i] <= Len(v) /\ v[q[i]].inherit = TRUE => Inherited(n, ns, i)
    <2>1. i + 1 \in 1 .. Len(ms) /\ i \in 0 .. N
      BY <1>1
    <2>2. On(ms[i + 1], j) /\ ns[i].found = ms[i + 1].found
      BY <1>5 DEF Returned, N
    <2>3. q[i] = p[i + 1]
      BY <1>2, <2>1
    <2>4. /\ p[i + 1] < Len(v) => ms[i + 1].found[n] = v[p[i + 1] + 1].content
          /\ p[i + 1] >= Len(v) => ms[i + 1].found[n] = NoValue
          /\ p[i + 1] <= Len(v) /\ v[p[i + 1]].inherit = TRUE => Inherited(n, ms, i + 1)
      BY <2>1, <2>2 DEF Hides
    <2>5. Inherited(n, ms, i + 1) => Inherited(n, ns, i)
      BY InheritedReturned DEF N
    <2> QED BY <2>2, <2>3, <2>4, <2>5
  <1> QED BY <1>4, <1>5 DEF Hides, q, N

-----------------------------------------------------------------------------
(* What happens to the levels of one scope. *)

LEMMA LocalNames == Locals \subseteq Names
  BY NamesAssumption

LEMMA LevelKept ==
    ASSUME NEW ms \in Seq(Macro), NEW ns \in Seq(Macro), NEW j, Kept(ms, ns, j),
           NEW e, LevelOK(e, ms, j)
    PROVE  LevelOK(e, ns, j)
  <1>1. PICK p : Counts(p, ms, j) /\ \A n \in Locals : Hides(e.var[n], n, ms, p, j)
    BY DEF LevelOK
  <1>2. Counts(p, ns, j)
    BY <1>1, CountsKept
  <1>3. \A n \in Locals : Hides(e.var[n], n, ns, p, j)
    BY <1>1, HidesKept
  <1> QED BY <1>2, <1>3 DEF LevelOK

LEMMA LevelWritten ==
    ASSUME NEW ms \in Seq(Macro), NEW j, NEW e, NEW g, LevelOK(e, ms, j),
           e.var \in Vars, g.var \in Vars, NEW n \in Names,
           \A m \in Names \ {n} : g.var[m] = e.var[m],
           NEW marked \in BOOLEAN, Written(e.var[n], g.var[n], marked),
           marked /\ ms # <<>> => n \in ms[1].inherited
    PROVE  LevelOK(g, ms, j)
  <1>1. PICK p : Counts(p, ms, j) /\ \A m \in Locals : Hides(e.var[m], m, ms, p, j)
    BY DEF LevelOK
  <1>2. ASSUME NEW m \in Locals PROVE Hides(g.var[m], m, ms, p, j)
    <2>1. m \in Names /\ e.var[m] \in Seq(Level) /\ g.var[m] \in Seq(Level)
      BY LocalNames DEF Vars
    <2>2. CASE m = n
      BY <1>1, <2>1, <2>2, HidesWritten
    <2>3. CASE m # n
      BY <1>1, <2>1, <2>3
    <2> QED BY <2>2, <2>3
  <1> QED BY <1>1, <1>2 DEF LevelOK

LEMMA LevelCalled ==
    ASSUME NEW ms \in Seq(Macro), NEW ns \in Seq(Macro), NEW m, Called(ms, ns, m),
           NEW j, On(m, j), NEW e, NEW g, LevelOK(e, ms, j), e.var \in Vars,
           \A n \in Locals : g.var[n] = PushVar(e.var[n]) /\ m.found[n] = Value1(e.var[n])
    PROVE  LevelOK(g, ns, j)
  <1>1. PICK p : Counts(p, ms, j) /\ \A n \in Locals : Hides(e.var[n], n, ms, p, j)
    BY DEF LevelOK
  <1>2. Counts(CountsCall(p, ms, 1), ns, j)
    BY <1>1, CountsCalled
  <1>3. ASSUME NEW n \in Locals PROVE Hides(g.var[n], n, ns, CountsCall(p, ms, 1), j)
    <2>1. e.var[n] \in Seq(Level)
      BY LocalNames DEF Vars
    <2> QED BY <1>1, <2>1, HidesCalled
  <1> QED BY <1>2, <1>3 DEF LevelOK

LEMMA LevelCalledAbove ==
    ASSUME NEW ms \in Seq(Macro), NEW ns \in Seq(Macro), NEW m, Called(ms, ns, m),
           NEW j, ~On(m, j), NEW e, LevelOK(e, ms, j), e.var \in Vars
    PROVE  LevelOK(e, ns, j)
  <1>1. PICK p : Counts(p, ms, j) /\ \A n \in Locals : Hides(e.var[n], n, ms, p, j)
    BY DEF LevelOK
  <1>2. Counts(CountsCall(p, ms, 0), ns, j)
    BY <1>1, CountsCalled
  <1>3. ASSUME NEW n \in Locals PROVE Hides(e.var[n], n, ns, CountsCall(p, ms, 0), j)
    <2>1. e.var[n] \in Seq(Level)
      BY LocalNames DEF Vars
    <2> QED BY <1>1, <2>1, HidesCalledAbove
  <1> QED BY <1>2, <1>3 DEF LevelOK

LEMMA LevelReturned ==
    ASSUME NEW ms \in Seq(Macro), NEW ns \in Seq(Macro), NEW j, Returned(ms, ns, j),
           On(ms[1], j), NEW e, NEW g, LevelOK(e, ms, j), e.var \in Vars,
           \A n \in Locals : g.var[n] = PopVar(e.var[n])
    PROVE  LevelOK(g, ns, j)
  <1>1. PICK p : Counts(p, ms, j) /\ \A n \in Locals : Hides(e.var[n], n, ms, p, j)
    BY DEF LevelOK
  <1>2. Counts(CountsReturn(p, ms, 1), ns, j)
    BY <1>1, CountsReturned
  <1>3. ASSUME NEW n \in Locals PROVE Hides(g.var[n], n, ns, CountsReturn(p, ms, 1), j)
    <2>1. e.var[n] \in Seq(Level)
      BY LocalNames DEF Vars
    <2> QED BY <1>1, <2>1, HidesReturned
  <1> QED BY <1>2, <1>3 DEF LevelOK

LEMMA LevelReturnedAbove ==
    ASSUME NEW ms \in Seq(Macro), NEW ns \in Seq(Macro), NEW j, Returned(ms, ns, j),
           ~On(ms[1], j), NEW e, LevelOK(e, ms, j), e.var \in Vars
    PROVE  LevelOK(e, ns, j)
  <1>1. PICK p : Counts(p, ms, j) /\ \A n \in Locals : Hides(e.var[n], n, ms, p, j)
    BY DEF LevelOK
  <1>2. Counts(CountsReturn(p, ms, 0), ns, j)
    BY <1>1, CountsReturned
  <1>3. ASSUME NEW n \in Locals PROVE Hides(e.var[n], n, ns, CountsReturn(p, ms, 0), j)
    <2>1. e.var[n] \in Seq(Level)
      BY LocalNames DEF Vars
    <2> QED BY <1>1, <2>1, HidesReturnedAbove
  <1> QED BY <1>2, <1>3 DEF LevelOK

\* A scope that no macro was called in.
LEMMA LevelNew ==
    ASSUME NEW ms \in Seq(Macro), NEW j, \A i \in 1 .. Len(ms) : ~On(ms[i], j),
           NEW e, e.var \in Vars, \A n \in Locals : Len(e.var[n]) <= 1
    PROVE  LevelOK(e, ms, j)
  <1> DEFINE p == [i \in 0 .. Len(ms) |-> 0]
  <1>1. Len(ms) \in Nat /\ p \in [0 .. Len(ms) -> Nat] /\ \A i \in 0 .. Len(ms) : p[i] = 0
    OBVIOUS
  <1> HIDE DEF p
  <1>2. \A i \in 1 .. Len(ms) : i - 1 \in 0 .. Len(ms) /\ i \in 0 .. Len(ms)
    OBVIOUS
  <1>3. Counts(p, ms, j)
    BY <1>1, <1>2 DEF Counts
  <1>4. \A n \in Locals : Hides(e.var[n], n, ms, p, j)
    BY <1>1 DEF Hides
  <1> QED BY <1>3, <1>4 DEF LevelOK

-----------------------------------------------------------------------------
(* What the operations on the array do to its variables. *)

LEMMA HasLevels ==
    ASSUME NEW e, e.var \in Vars, NEW n \in Names
    PROVE  /\ e.var[n] \in Seq(Level) /\ Len(e.var[n]) \in Nat
           /\ Has(e, n) <=> Len(e.var[n]) # 0
           /\ Has(e, n) => /\ Head(e.var[n]) = e.var[n][1] /\ e.var[n][1] \in Level
                           /\ e.var[n][1].inherit \in BOOLEAN
           /\ GetEnv(e, n) = Value1(e.var[n])
  <1>1. e.var[n] \in Seq(Level)
    BY DEF Vars
  <1>2. Has(e, n) => Head(e.var[n]) = e.var[n][1] /\ e.var[n][1] \in Level
    BY <1>1 DEF Has, NoVar
  <1>3. Has(e, n) => e.var[n][1].inherit \in BOOLEAN
    BY <1>2 DEF Level
  <1>4. Has(e, n) <=> Len(e.var[n]) # 0
    BY <1>1 DEF Has, NoVar
  <1>5. GetEnv(e, n) = Value1(e.var[n])
    BY <1>2 DEF GetEnv, Value1, Has, NoVar
  <1> QED BY <1>1, <1>2, <1>3, <1>4, <1>5

Flagged(e, n) == ~Has(e, n) /\ NullSlot(e) # 0 /\ e.nulls[NullSlot(e)]

LEMMA SetEnvExVars ==
    ASSUME NEW e, IsEnv(e), e.var \in Vars, NEW n \in Names, NEW c \in Contents,
           NEW inherit \in BOOLEAN
    PROVE  LET g == SetEnvEx(e, n, c, inherit)
           IN  /\ g.var \in Vars
               /\ \A m \in Names \ {n} : g.var[m] = e.var[m]
               /\ ~Flagged(e, n) => Written(e.var[n], g.var[n], inherit)
  <1> DEFINE g == SetEnvEx(e, n, c, inherit)
             v == e.var[n]
  <1>0. e = [var |-> e.var, nulls |-> e.nulls]
    BY DEF IsEnv
  <1>1. \E x \in Level : /\ g.var = [e.var EXCEPT ![n] = IF Has(e, n) THEN <<x>> \o Tail(v) ELSE <<x>>]
                         /\ ~Flagged(e, n) /\ x.inherit = TRUE => inherit \/ (Has(e, n) /\ v[1].inherit = TRUE)
    <2>1. CASE Has(e, n)
      <3> DEFINE x == [content |-> c, inherit |-> Head(v).inherit \/ inherit]
      <3>1. g = [e EXCEPT !.var[n] = <<x>> \o Tail(v)]
        BY <2>1 DEF SetEnvEx
      <3>2. x \in Level
        BY DEF Level
      <3>3. x.inherit = TRUE => inherit \/ v[1].inherit = TRUE
        BY <2>1, HasLevels
      <3> HIDE DEF x
      <3>4. g.var = [e.var EXCEPT ![n] = <<x>> \o Tail(v)]
        BY <1>0, <3>1
      <3> QED BY <2>1, <3>2, <3>3, <3>4
    <2>2. CASE ~Has(e, n) /\ NullSlot(e) = 0
      <3> DEFINE x == [content |-> c, inherit |-> inherit]
      <3>1. g = [e EXCEPT !.var[n] = <<x>>]
        BY <2>2 DEF SetEnvEx
      <3>2. x \in Level /\ x.inherit = inherit
        BY DEF Level
      <3> HIDE DEF x
      <3>3. g.var = [e.var EXCEPT ![n] = <<x>>]
        BY <1>0, <3>1
      <3> QED BY <2>2, <3>2, <3>3
    <2>3. CASE ~Has(e, n) /\ NullSlot(e) # 0
      <3> DEFINE k == NullSlot(e)
                 x == [content |-> c, inherit |-> e.nulls[k] \/ inherit]
                 nulls == RemoveAt(e.nulls, k)
      <3>1. g = [e EXCEPT !.var[n] = <<x>>, !.nulls = nulls]
        BY <2>3 DEF SetEnvEx
      <3>2. x \in Level
        BY DEF Level
      <3>3. ~Flagged(e, n) /\ x.inherit = TRUE => inherit
        BY <2>3 DEF Flagged
      <3> HIDE DEF x, nulls
      <3>4. g.var = [e.var EXCEPT ![n] = <<x>>]
        BY <1>0, <3>1
      <3> QED BY <2>3, <3>2, <3>3, <3>4
    <2> QED BY <2>1, <2>2, <2>3
  <1>2. PICK x \in Level :
            /\ g.var = [e.var EXCEPT ![n] = IF Has(e, n) THEN <<x>> \o Tail(v) ELSE <<x>>]
            /\ ~Flagged(e, n) /\ x.inherit = TRUE => inherit \/ (Has(e, n) /\ v[1].inherit = TRUE)
    BY <1>1
  <1> DEFINE w == IF Has(e, n) THEN <<x>> \o Tail(v) ELSE <<x>>
  <1>3. v \in Seq(Level) /\ (Has(e, n) <=> v # <<>>)
    BY HasLevels DEF Has, NoVar
  <1>4. /\ w \in Seq(Level) /\ w[1] = x
        /\ Len(w) = (IF v = <<>> THEN 1 ELSE Len(v))
        /\ \A k \in 2 .. Len(v) : w[k] = v[k]
    <2>1. CASE v = <<>>
      <3>1. w = <<x>> /\ Len(v) = 0
        BY <1>3, <2>1
      <3> QED BY <2>1, <3>1
    <2>2. CASE v # <<>>
      <3>1. w = <<x>> \o Tail(v)
        BY <1>3, <2>2
      <3>2. Tail(v) \in Seq(Level) /\ Len(Tail(v)) = Len(v) - 1 /\ Len(v) \in Nat
        BY <1>3, <2>2
      <3>3. \A i \in 1 .. Len(v) - 1 : Tail(v)[i] = v[i + 1]
        BY <1>3, <2>2
      <3> DEFINE t == Tail(v)
      <3> HIDE DEF t
      <3>4. /\ <<x>> \o t \in Seq(Level) /\ Len(<<x>> \o t) = Len(t) + 1 /\ (<<x>> \o t)[1] = x
            /\ \A i \in 1 .. Len(t) : (<<x>> \o t)[i + 1] = t[i]
        BY <3>2 DEF t
      <3>5. ASSUME NEW k \in 2 .. Len(v) PROVE w[k] = v[k]
        <4>1. k - 1 \in 1 .. Len(v) - 1 /\ (k - 1) + 1 = k
          BY <3>2
        <4> QED BY <3>1, <3>2, <3>3, <3>4, <4>1 DEF t
      <3>6. Len(w) = Len(v)
        BY <3>1, <3>2, <3>4 DEF t
      <3> QED BY <2>2, <3>1, <3>4, <3>5, <3>6 DEF t
    <2> QED BY <2>1, <2>2
  <1>5. g.var = [e.var EXCEPT ![n] = w]
    BY <1>2
  <1>6. ~Flagged(e, n) /\ w[1].inherit = TRUE => inherit \/ (v # <<>> /\ v[1].inherit = TRUE)
    BY <1>2, <1>3, <1>4
  <1> HIDE DEF g, w
  <1>7. g.var \in Vars /\ g.var[n] = w /\ \A m \in Names \ {n} : g.var[m] = e.var[m]
    BY <1>4, <1>5 DEF Vars
  <1>8. ~Flagged(e, n) => Written(v, w, inherit)
    BY <1>4, <1>6 DEF Written
  <1> QED BY <1>7, <1>8 DEF g

LEMMA DeleteVars ==
    ASSUME NEW e, e.var \in Vars, NEW S
    PROVE  /\ Delete(e, S).var \in Vars
           /\ \A m \in Names : Delete(e, S).var[m] = IF m \in S THEN <<>> ELSE e.var[m]
  <1>1. Delete(e, S).var = [m \in Names |-> IF m \in S THEN NoVar ELSE e.var[m]]
    BY DEF Delete
  <1>2. <<>> \in Seq(Level)
    OBVIOUS
  <1> QED BY <1>1, <1>2 DEF Vars, NoVar

LEMMA UnSetEnvVars ==
    ASSUME NEW e, e.var \in Vars, NEW n \in Names, NEW blank
    PROVE  LET g == UnSetEnv(e, n, blank)
           IN  /\ g.var \in Vars
               /\ \A m \in Names \ {n} : g.var[m] = e.var[m]
               /\ Written(e.var[n], g.var[n], FALSE)
  <1>1. CASE ~blank /\ Len(e.var[n]) = 1
    <2>1. UnSetEnv(e, n, blank) = Delete(e, {n})
      BY <1>1 DEF UnSetEnv
    <2>2. Delete(e, {n}).var[n] = <<>>
      BY DeleteVars
    <2> QED BY <1>1, <2>1, <2>2, DeleteVars DEF Written
  <1>2. CASE ~(~blank /\ Len(e.var[n]) = 1)
    BY <1>2 DEF UnSetEnv, Written
  <1> QED BY <1>1, <1>2

LEMMA EnvDupVars ==
    ASSUME NEW e, e.var \in Vars
    PROVE  /\ EnvDup(e).var \in Vars
           /\ \A n \in Names : Len(EnvDup(e).var[n]) <= 1
  <1> DEFINE x(n) == [content |-> GetEnv(e, n), inherit |-> FALSE]
             w(n) == IF Has(e, n) THEN <<x(n)>> ELSE NoVar
  <1>1. EnvDup(e).var = [n \in Names |-> w(n)]
    BY DEF EnvDup
  <1>2. ASSUME NEW n \in Names PROVE w(n) \in Seq(Level) /\ Len(w(n)) <= 1
    <2>1. CASE Has(e, n)
      <3>1. e.var[n][1].content \in Contents /\ GetEnv(e, n) = e.var[n][1].content
        BY <2>1, HasLevels DEF Level, GetEnv
      <3>2. x(n) \in Level
        BY <3>1 DEF Level
      <3> HIDE DEF x
      <3> QED BY <2>1, <3>2
    <2>2. CASE ~Has(e, n)
      BY <2>2 DEF NoVar
    <2> QED BY <2>1, <2>2
  <1> HIDE DEF w
  <1> QED BY <1>1, <1>2 DEF Vars

\* A search that misses no local variable lets all of them be pushed, or popped.
LEMMA PushEnvLocalsVars ==
    ASSUME NEW e, IsEnv(e), e.var \in Vars
    PROVE  /\ PushEnvLocals(e).var \in Vars
           /\ ~Misses(e) => \A n \in Locals : PushEnvLocals(e).var[n] = PushVar(e.var[n])
  <1> DEFINE w(n) == IF n \in Locals /\ Has(e, n)
                     THEN <<[content |-> GetEnv(e, n), inherit |-> FALSE]>> \o e.var[n]
                     ELSE e.var[n]
  <1>0. e = [var |-> e.var, nulls |-> e.nulls]
    BY DEF IsEnv
  <1>1. ASSUME NEW n \in Names
        PROVE  w(n) = IF n \in Locals THEN PushVar(e.var[n]) ELSE e.var[n]
    <2>1. CASE n \in Locals /\ Has(e, n)
      <3>1. GetEnv(e, n) = e.var[n][1].content /\ e.var[n] # <<>>
        BY <2>1, HasLevels DEF GetEnv, Has, NoVar
      <3> QED BY <2>1, <3>1 DEF PushVar
    <2>2. CASE ~(n \in Locals /\ Has(e, n))
      BY <2>2 DEF PushVar, Has, NoVar
    <2> QED BY <2>1, <2>2
  <1>2. CASE FindsLocals(e)
    <2>1. PushEnvLocals(e) = [e EXCEPT !.var = [n \in Names |-> w(n)]]
      BY <1>2 DEF PushEnvLocals
    <2> HIDE DEF w
    <2>2. PushEnvLocals(e).var = [n \in Names |-> w(n)]
      BY <1>0, <2>1
    <2>3. ASSUME NEW n \in Names PROVE w(n) \in Seq(Level)
      <3>1. e.var[n] \in Seq(Level)
        BY DEF Vars
      <3> QED BY <1>1, <3>1, PushVarFacts
    <2>4. PushEnvLocals(e).var \in Vars
      BY <2>2, <2>3 DEF Vars
    <2>5. \A n \in Locals : PushEnvLocals(e).var[n] = PushVar(e.var[n])
      BY <1>1, <2>2, LocalNames
    <2> QED BY <2>4, <2>5
  <1>3. CASE ~FindsLocals(e)
    <2>1. PushEnvLocals(e) = e
      BY <1>3 DEF PushEnvLocals
    <2>2. ~Misses(e) => \A n \in Locals : e.var[n] = <<>>
      BY <1>3 DEF Misses, Has, NoVar
    <2> QED BY <2>1, <2>2 DEF PushVar
  <1> QED BY <1>2, <1>3

LEMMA PopEnvLocalsVars ==
    ASSUME NEW e, IsEnv(e), e.var \in Vars
    PROVE  /\ PopEnvLocals(e).var \in Vars
           /\ ~Misses(e) => \A n \in Locals : PopEnvLocals(e).var[n] = PopVar(e.var[n])
  <1> DEFINE mine == {n \in Locals : Has(e, n)}
             gone == {n \in mine : Len(e.var[n]) = 1 /\ ~e.var[n][1].inherit}
             w(n) == IF n \in mine /\ Len(e.var[n]) > 1 THEN PopLevel(e.var[n]) ELSE e.var[n]
             popped == [e EXCEPT !.var = [n \in Names |-> w(n)]]
  <1>0. e = [var |-> e.var, nulls |-> e.nulls]
    BY DEF IsEnv
  <1>1. CASE FindsLocals(e)
    <2>1. PopEnvLocals(e) = Delete(popped, gone)
      BY <1>1 DEF PopEnvLocals
    <2>2. popped.var = [n \in Names |-> w(n)]
      BY <1>0
    <2>3. ASSUME NEW n \in Names PROVE w(n) \in Seq(Level)
      <3>1. e.var[n] \in Seq(Level)
        BY DEF Vars
      <3>2. PopVar(e.var[n]) \in Seq(Level)
        BY <3>1, PopVarFacts
      <3>3. Len(e.var[n]) > 1 => PopVar(e.var[n]) = PopLevel(e.var[n])
        BY DEF PopVar
      <3> QED BY <3>1, <3>2, <3>3
    <2>4. \A n \in Locals : (IF n \in gone THEN <<>> ELSE w(n)) = PopVar(e.var[n])
      <3> TAKE n \in Locals
      <3>1. n \in Names
        BY LocalNames
      <3>2. Has(e, n) <=> e.var[n] # <<>>
        BY DEF Has, NoVar
      <3>3. Len(e.var[n]) \in Nat /\ (e.var[n] # <<>> <=> Len(e.var[n]) # 0)
        BY <3>1, <3>2, HasLevels
      <3>4. CASE ~Has(e, n)
        BY <3>2, <3>3, <3>4 DEF PopVar
      <3>5. CASE Has(e, n) /\ Len(e.var[n]) = 1
        <4>1. n \in mine /\ ~(Len(e.var[n]) > 1) /\ w(n) = e.var[n]
          BY <3>5
        <4>2. n \in gone <=> ~e.var[n][1].inherit
          BY <3>5, <4>1
        <4>3. PopVar(e.var[n]) = IF ~e.var[n][1].inherit THEN <<>> ELSE e.var[n]
          BY <3>2, <3>5, <4>1 DEF PopVar
        <4> HIDE DEF w, gone, mine
        <4> QED BY <4>1, <4>2, <4>3
      <3>6. CASE Has(e, n) /\ Len(e.var[n]) > 1
        <4>0. Len(e.var[n]) # 1
          <5> DEFINE a == Len(e.var[n])
          <5>1. a > 1 /\ a \in Nat
            BY <3>3, <3>6
          <5> HIDE DEF a
          <5>2. a # 1
            BY <5>1
          <5> QED BY <5>2 DEF a
        <4>1. n \in mine /\ Len(e.var[n]) # 1 /\ w(n) = PopLevel(e.var[n])
          BY <3>6, <4>0
        <4>2. n \notin gone
          BY <4>1
        <4> HIDE DEF w, gone, mine
        <4> QED BY <3>6, <4>1, <4>2 DEF PopVar
      <3>7. Len(e.var[n]) = 0 \/ Len(e.var[n]) = 1 \/ Len(e.var[n]) > 1
        <4> DEFINE a == Len(e.var[n])
        <4>1. a \in Nat
          BY <3>3
        <4> HIDE DEF a
        <4>2. a = 0 \/ a = 1 \/ a > 1
          BY <4>1
        <4> QED BY <4>2 DEF a
      <3> QED BY <3>2, <3>3, <3>4, <3>5, <3>6, <3>7
    <2> HIDE DEF w, gone, popped, mine
    <2>5. popped.var \in Vars
      BY <2>2, <2>3 DEF Vars
    <2>6. Delete(popped, gone).var \in Vars
      BY <2>5, DeleteVars
    <2>7. \A n \in Locals : Delete(popped, gone).var[n] = (IF n \in gone THEN <<>> ELSE w(n))
      <3> TAKE n \in Locals
      <3>1. n \in Names
        BY LocalNames
      <3>2. popped.var[n] = w(n)
        BY <2>2, <3>1
      <3>3. Delete(popped, gone).var[n] = (IF n \in gone THEN <<>> ELSE popped.var[n])
        BY <2>5, <3>1, DeleteVars
      <3> QED BY <3>2, <3>3
    <2> QED BY <2>1, <2>4, <2>6, <2>7
  <1>2. CASE ~FindsLocals(e)
    <2>1. PopEnvLocals(e) = e
      BY <1>2 DEF PopEnvLocals
    <2>2. ~Misses(e) => \A n \in Locals : e.var[n] = <<>>
      BY <1>2 DEF Misses, Has, NoVar
    <2>3. PopVar(<<>>) = <<>>
      BY DEF PopVar
    <2> QED BY <2>1, <2>2, <2>3
  <1> QED BY <1>1, <1>2

-----------------------------------------------------------------------------
(* The steps. *)

\* What a step on the current scope must do.
LEMMA CurrentStep ==
    ASSUME IInv, RInv, saved' = saved, env'.var \in Vars, macros' \in Seq(Macro), ~unsure' => ~unsure,
           ~unsure' => /\ \A i \in 1 .. Len(macros') : macros'[i].balanced => macros'[i].depth <= Len(saved)
                       /\ LevelOK(env', macros', Len(saved))
                       /\ \A j \in 0 .. Len(saved) - 1 : \A e :
                             e.var \in Vars /\ LevelOK(e, macros, j) => LevelOK(e, macros', j)
    PROVE  RInv'
  <1>1. \A i \in 1 .. Len(saved') : saved'[i].env.var \in Vars
    BY DEF RInv
  <1>2. ASSUME ~unsure', NEW j \in 0 .. Len(saved) PROVE LevelOK(EnvAt(j)', macros', j)
    <2>1. CASE j = Len(saved)
      <3>1. EnvAt(j)' = env'
        BY <2>1 DEF EnvAt
      <3> QED BY <1>2, <2>1, <3>1
    <2>2. CASE j # Len(saved)
      <3>1. j \in 0 .. Len(saved) - 1 /\ Len(saved) - j \in 1 .. Len(saved)
        BY <2>2 DEF IInv
      <3>2. EnvAt(j)' = saved[Len(saved) - j].env /\ EnvAt(j) = saved[Len(saved) - j].env
        BY <2>2 DEF EnvAt
      <3>3. LevelOK(EnvAt(j), macros, j) /\ EnvAt(j).var \in Vars
        BY <1>2, <3>1, <3>2 DEF RInv
      <3> QED BY <1>2, <3>1, <3>2, <3>3
    <2> QED BY <2>1, <2>2
  <1>3. ~unsure' => \A j \in 0 .. Len(saved)' : LevelOK(EnvAt(j), macros, j)'
    BY <1>2
  <1> QED BY <1>1, <1>3 DEF RInv

LEMMA RInvInit == Init => RInv
  <1> SUFFICES ASSUME Init
               PROVE  RInv
    OBVIOUS
  <1>1. PICK S \in SUBSET Names, c \in Contents : env = InitEnv(S, c)
    BY DEF Init
  <1>2. env.var = [n \in Names |-> IF n \in S THEN <<[content |-> c, inherit |-> FALSE]>> ELSE NoVar]
    BY <1>1 DEF InitEnv
  <1>3. [content |-> c, inherit |-> FALSE] \in Level
    BY DEF Level
  <1> DEFINE x == [content |-> c, inherit |-> FALSE]
  <1> HIDE DEF x
  <1>4. <<x>> \in Seq(Level) /\ NoVar \in Seq(Level) /\ Len(<<x>>) = 1 /\ Len(NoVar) = 0
    BY <1>3 DEF x, NoVar
  <1>5. env.var \in Vars /\ \A n \in Names : Len(env.var[n]) <= 1
    BY <1>2, <1>4 DEF Vars, x
  <1>6. saved = <<>> /\ macros = <<>> /\ Len(saved) = 0 /\ Len(macros) = 0 /\ macros \in Seq(Macro)
    BY DEF Init
  <1>7. LevelOK(env, macros, 0)
    <2>1. (\A n \in Locals : Len(env.var[n]) <= 1) /\ \A i \in 1 .. Len(macros) : ~On(macros[i], 0)
      BY <1>5, <1>6, LocalNames
    <2> QED BY <1>5, <1>6, <2>1, LevelNew
  <1>8. EnvAt(0) = env
    BY <1>6 DEF EnvAt
  <1> QED BY <1>5, <1>6, <1>7, <1>8 DEF RInv

LEMMA MacroMarked ==
    ASSUME NEW ms \in Seq(Macro), ms # <<>>, NEW S \in SUBSET Names
    PROVE  LET ns == [ms EXCEPT ![1].inherited = @ \cup S]
           IN  /\ ns \in Seq(Macro) /\ Len(ns) = Len(ms) /\ S \subseteq ns[1].inherited
               /\ \A i \in 1 .. Len(ms) : /\ ns[i].balanced = ms[i].balanced /\ ns[i].depth = ms[i].depth
                                          /\ ns[i].found = ms[i].found
                                          /\ ms[i].inherited \subseteq ns[i].inherited
  <1> DEFINE x == [ms[1] EXCEPT !.inherited = @ \cup S]
             ns == [ms EXCEPT ![1].inherited = @ \cup S]
  <1>1. 1 \in 1 .. Len(ms) /\ ms[1] \in Macro /\ Len(ms) \in Nat
    OBVIOUS
  <1>2. x \in Macro /\ x.balanced = ms[1].balanced /\ x.depth = ms[1].depth /\ x.found = ms[1].found
        /\ x.inherited = ms[1].inherited \cup S
    BY <1>1 DEF Macro
  <1>3. ns = [ms EXCEPT ![1] = x]
    OBVIOUS
  <1> HIDE DEF x, ns
  <1>4. ns \in Seq(Macro) /\ Len(ns) = Len(ms) /\ ns[1] = x /\ \A i \in 1 .. Len(ms) : i # 1 => ns[i] = ms[i]
    BY <1>1, <1>2, <1>3
  <1>5. S \subseteq ns[1].inherited
    BY <1>2, <1>4
  <1>6. ASSUME NEW i \in 1 .. Len(ms)
        PROVE  /\ ns[i].balanced = ms[i].balanced /\ ns[i].depth = ms[i].depth
               /\ ns[i].found = ms[i].found
               /\ ms[i].inherited \subseteq ns[i].inherited
    BY <1>2, <1>4
  <1> QED BY <1>4, <1>5, <1>6 DEF ns

LEMMA CmdSetRestores ==
    ASSUME IInv, RInv, NEW n \in Names, NEW c \in Contents, NEW inherit \in BOOLEAN,
           CmdSet(n, c, inherit)
    PROVE  RInv'
  <1>1. /\ env' = SetEnvEx(env, n, c, inherit) /\ saved' = saved
        /\ macros' = (IF inherit /\ macros # <<>>
                      THEN [macros EXCEPT ![1].inherited = @ \cup {n}] ELSE macros)
        /\ ~unsure' => ~unsure /\ ~Flagged(env, n)
    BY DEF CmdSet, Flagged
  <1>2. IsEnv(env) /\ env.var \in Vars /\ macros \in Seq(Macro)
    BY DEF IInv, RInv
  <1>3. /\ env'.var \in Vars /\ \A m \in Names \ {n} : env'.var[m] = env.var[m]
        /\ ~Flagged(env, n) => Written(env.var[n], env'.var[n], inherit)
    BY <1>1, <1>2, SetEnvExVars
  <1>4. /\ macros' \in Seq(Macro) /\ Len(macros') = Len(macros)
        /\ inherit /\ macros' # <<>> => n \in macros'[1].inherited
        /\ \A i \in 1 .. Len(macros) : /\ macros'[i].balanced = macros[i].balanced
                                       /\ macros'[i].depth = macros[i].depth
                                       /\ macros'[i].found = macros[i].found
                                       /\ macros[i].inherited \subseteq macros'[i].inherited
    <2>1. CASE inherit /\ macros # <<>>
      <3>1. macros' = [macros EXCEPT ![1].inherited = @ \cup {n}]
        BY <1>1, <2>1
      <3>2. {n} \in SUBSET Names
        OBVIOUS
      <3>3. /\ macros' \in Seq(Macro) /\ Len(macros') = Len(macros) /\ {n} \subseteq macros'[1].inherited
            /\ \A i \in 1 .. Len(macros) : /\ macros'[i].balanced = macros[i].balanced
                                           /\ macros'[i].depth = macros[i].depth
                                           /\ macros'[i].found = macros[i].found
                                           /\ macros[i].inherited \subseteq macros'[i].inherited
        BY <1>2, <2>1, <3>1, <3>2, MacroMarked
      <3> QED BY <3>3
    <2>2. CASE ~(inherit /\ macros # <<>>)
      BY <1>1, <1>2, <2>2
    <2> QED BY <2>1, <2>2
  <1>5. \A j : Kept(macros, macros', j)
    BY <1>4 DEF Kept, On
  <1>6. ASSUME NEW j, NEW e, LevelOK(e, macros, j) PROVE LevelOK(e, macros', j)
    BY <1>2, <1>4, <1>5, <1>6, LevelKept
  <1>7. ASSUME ~unsure' PROVE LevelOK(env', macros', Len(saved))
    <2>1. EnvAt(Len(saved)) = env /\ Len(saved) \in 0 .. Len(saved)
      BY DEF EnvAt, IInv
    <2>2. LevelOK(env, macros, Len(saved))
      BY <1>1, <1>7, <2>1 DEF RInv
    <2>3. LevelOK(env, macros', Len(saved))
      BY <1>6, <2>2
    <2> QED BY <1>1, <1>2, <1>3, <1>4, <1>7, <2>3, LevelWritten
  <1>8. ~unsure' => \A i \in 1 .. Len(macros') : macros'[i].balanced => macros'[i].depth <= Len(saved)
    BY <1>1, <1>4 DEF RInv
  <1>9. ~unsure' => ~unsure
    BY <1>1
  <1> QED BY <1>1, <1>3, <1>4, <1>6, <1>7, <1>8, <1>9, CurrentStep

LEMMA CmdUnSetRestores ==
    ASSUME IInv, RInv, NEW n \in Names, NEW blank, CmdUnSet(n, blank)
    PROVE  RInv'
  <1>1. env' = UnSetEnv(env, n, blank) /\ saved' = saved /\ macros' = macros /\ unsure' = unsure
    BY DEF CmdUnSet
  <1>2. env.var \in Vars /\ macros \in Seq(Macro)
    BY DEF RInv
  <1>3. /\ env'.var \in Vars /\ \A m \in Names \ {n} : env'.var[m] = env.var[m]
        /\ Written(env.var[n], env'.var[n], FALSE)
    BY <1>1, <1>2, UnSetEnvVars
  <1>4. ASSUME ~unsure' PROVE LevelOK(env', macros', Len(saved))
    <2>1. EnvAt(Len(saved)) = env /\ Len(saved) \in 0 .. Len(saved)
      BY DEF EnvAt, IInv
    <2>2. LevelOK(env, macros, Len(saved))
      BY <1>1, <1>4, <2>1 DEF RInv
    <2> QED BY <1>1, <1>2, <1>3, <2>2, LevelWritten
  <1>5. ~unsure' => \A i \in 1 .. Len(macros') : macros'[i].balanced => macros'[i].depth <= Len(saved)
    BY <1>1 DEF RInv
  <1> QED BY <1>1, <1>2, <1>3, <1>4, <1>5, CurrentStep

LEMMA CmdSetLocalRestores ==
    ASSUME IInv, RInv, NEW o, NEW push, CmdSetLocal(o, push)
    PROVE  RInv'
  <1>1. macros' = macros /\ unsure' = unsure
    BY DEF CmdSetLocal
  <1>2. CASE ~push
    <2>1. saved' = saved /\ env' = env
      BY <1>2 DEF CmdSetLocal
    <2>2. \A j : EnvAt(j)' = EnvAt(j)
      BY <2>1 DEF EnvAt
    <2> QED BY <1>1, <2>1, <2>2 DEF RInv
  <1>3. CASE push
    <2> DEFINE x == [env |-> env, opts |-> o]
               D == Len(saved)
    <2>1. saved' = <<x>> \o saved /\ env' = EnvDup(env)
      BY <1>3 DEF CmdSetLocal, PushEnvStack
    <2>2. x.env = env
      OBVIOUS
    <2> HIDE DEF x
    <2>3. /\ Len(saved') = D + 1 /\ D \in Nat
          /\ \A i \in 1 .. D + 1 : saved'[i] = IF i = 1 THEN x ELSE saved[i - 1]
      BY <2>1, Stack DEF IInv
    <2>4. env.var \in Vars /\ macros \in Seq(Macro) /\ \A i \in 1 .. D : saved[i].env.var \in Vars
      BY DEF RInv
    <2>5. env'.var \in Vars /\ \A n \in Locals : Len(env'.var[n]) <= 1
      BY <2>1, <2>4, EnvDupVars, LocalNames
    <2>6. ASSUME NEW j \in 0 .. D PROVE EnvAt(j)' = EnvAt(j)
      <3>1. EnvAt(j)' = saved'[(D + 1) - j].env /\ (D + 1) - j \in 1 .. D + 1
        BY <2>3 DEF EnvAt
      <3>2. CASE j = D
        <4>1. (D + 1) - j = 1
          BY <2>3, <3>2
        <4> QED BY <2>2, <2>3, <3>1, <3>2, <4>1 DEF EnvAt
      <3>3. CASE j # D
        <4>1. (D + 1) - j # 1 /\ ((D + 1) - j) - 1 = D - j
          BY <2>3, <3>3
        <4> QED BY <2>3, <3>1, <3>3, <4>1 DEF EnvAt
      <3> QED BY <3>2, <3>3
    <2>7. \A j : j = D + 1 => EnvAt(j)' = env'
      BY <2>3 DEF EnvAt
    <2>8. ASSUME NEW i \in 1 .. D + 1 PROVE saved'[i].env.var \in Vars
      <3>1. CASE i = 1
        BY <2>2, <2>3, <2>4, <3>1
      <3>2. CASE i # 1
        <4>1. i - 1 \in 1 .. D
          BY <2>3, <3>2
        <4> QED BY <2>3, <2>4, <3>2, <4>1
      <3> QED BY <3>1, <3>2
    <2>9. ASSUME ~unsure
          PROVE  /\ \A i \in 1 .. Len(macros) : macros[i].balanced => macros[i].depth <= D + 1
                 /\ \A j \in 0 .. D + 1 : LevelOK(EnvAt(j)', macros, j)
      <3>1. \A i \in 1 .. Len(macros) : macros[i].balanced => macros[i].depth <= D
        BY <2>9 DEF RInv
      <3>2. ASSUME NEW i \in 1 .. Len(macros) PROVE macros[i].depth \in Nat
        <4>1. macros[i] \in Macro
          BY <2>4
        <4> QED BY <4>1 DEF Macro
      <3>3. \A i \in 1 .. Len(macros) : ~On(macros[i], D + 1)
        BY <2>3, <3>1, <3>2 DEF On
      <3>4. LevelOK(env', macros, D + 1)
        BY <2>4, <2>5, <3>3, LevelNew
      <3>5. ASSUME NEW j \in 0 .. D + 1 PROVE LevelOK(EnvAt(j)', macros, j)
        <4>1. CASE j = D + 1
          BY <2>7, <3>4, <4>1
        <4>2. CASE j # D + 1
          <5>1. j \in 0 .. D
            BY <2>3, <4>2
          <5>2. LevelOK(EnvAt(j), macros, j)
            BY <2>9, <5>1 DEF RInv
          <5> QED BY <2>6, <5>1, <5>2
        <4> QED BY <4>1, <4>2
      <3>6. \A i \in 1 .. Len(macros) : macros[i].balanced => macros[i].depth <= D + 1
        BY <2>3, <3>1, <3>2
      <3> QED BY <3>5, <3>6
    <2> HIDE DEF D
    <2> QED BY <1>1, <2>3, <2>4, <2>5, <2>8, <2>9 DEF RInv
  <1> QED BY <1>2, <1>3

LEMMA CmdEndLocalRestores ==
    ASSUME IInv, RInv, CmdEndLocal
    PROVE  RInv'
  <1> DEFINE D == Len(saved)
  <1>1. /\ saved # <<>> /\ env' = Head(saved).env /\ saved' = Tail(saved) /\ unsure' = unsure
        /\ macros' = [i \in DOMAIN macros |-> [macros[i] EXCEPT !.balanced = @ /\ D > macros[i].depth]]
    BY DEF CmdEndLocal, PopEnvStack
  <1>2. /\ D \in Nat /\ D > 0 /\ Head(saved) = saved[1] /\ Len(saved') = D - 1
        /\ \A i \in 1 .. D - 1 : saved'[i] = saved[i + 1]
    BY <1>1, Stack DEF IInv
  <1>3. env.var \in Vars /\ macros \in Seq(Macro) /\ \A i \in 1 .. D : saved[i].env.var \in Vars
    BY DEF RInv
  <1>4. /\ macros' \in Seq(Macro) /\ Len(macros') = Len(macros)
        /\ \A i \in 1 .. Len(macros) :
              /\ macros'[i].balanced <=> macros[i].balanced /\ D > macros[i].depth
              /\ macros'[i].depth = macros[i].depth /\ macros[i].depth \in Nat
              /\ macros'[i].found = macros[i].found
              /\ macros[i].inherited = macros'[i].inherited
    <2> DEFINE x(i) == [macros[i] EXCEPT !.balanced = @ /\ D > macros[i].depth]
    <2>1. ASSUME NEW i \in 1 .. Len(macros)
          PROVE  /\ x(i) \in Macro
                 /\ x(i).balanced <=> macros[i].balanced /\ D > macros[i].depth
                 /\ x(i).depth = macros[i].depth /\ macros[i].depth \in Nat
                 /\ x(i).found = macros[i].found /\ x(i).inherited = macros[i].inherited
      <3>1. macros[i] \in Macro
        BY <1>3
      <3> QED BY <3>1 DEF Macro
    <2>2. macros' = [i \in 1 .. Len(macros) |-> x(i)] /\ Len(macros) \in Nat
      BY <1>1, <1>3
    <2> HIDE DEF x
    <2>3. macros' \in [1 .. Len(macros) -> Macro] /\ \A i \in 1 .. Len(macros) : macros'[i] = x(i)
      <3>1. \A i \in 1 .. Len(macros) : x(i) \in Macro
        BY <2>1
      <3> QED BY <2>2, <3>1, Zenon
    <2>4. macros' \in Seq(Macro) /\ Len(macros') = Len(macros)
      BY <2>2, <2>3, SeqDef
    <2> QED BY <2>1, <2>3, <2>4
  <1>5. ASSUME NEW j \in 0 .. D - 1 PROVE EnvAt(j)' = EnvAt(j) /\ EnvAt(j).var \in Vars
    <2>1. EnvAt(j) = saved[D - j].env /\ D - j \in 1 .. D
      BY <1>2 DEF EnvAt
    <2>2. CASE j = D - 1
      <3>1. D - j = 1 /\ EnvAt(j)' = env'
        BY <1>2, <2>2 DEF EnvAt
      <3> QED BY <1>1, <1>2, <1>3, <2>1, <3>1
    <2>3. CASE j # D - 1
      <3>1. (D - 1) - j \in 1 .. D - 1 /\ ((D - 1) - j) + 1 = D - j
        BY <1>2, <2>3
      <3>2. EnvAt(j)' = saved'[(D - 1) - j].env
        BY <1>2, <2>3 DEF EnvAt
      <3> QED BY <1>2, <1>3, <2>1, <3>1, <3>2
    <2> QED BY <2>2, <2>3
  <1>6. ASSUME NEW j \in 0 .. D - 1 PROVE Kept(macros, macros', j)
    <2>1. \A i \in 1 .. Len(macros) : macros[i].depth = j => D > macros[i].depth
      BY <1>2
    <2> QED BY <1>4, <2>1 DEF Kept, On
  <1>7. ASSUME ~unsure
        PROVE  /\ \A i \in 1 .. Len(macros) : macros'[i].balanced => macros'[i].depth <= D - 1
               /\ \A j \in 0 .. D - 1 : LevelOK(EnvAt(j)', macros', j)
    <2>1. ASSUME NEW j \in 0 .. D - 1 PROVE LevelOK(EnvAt(j)', macros', j)
      <3>1. j \in 0 .. D
        BY <1>2
      <3>2. LevelOK(EnvAt(j), macros, j)
        BY <1>7, <3>1 DEF RInv
      <3> QED BY <1>3, <1>4, <1>5, <1>6, <3>2, LevelKept
    <2>2. \A i \in 1 .. Len(macros) : macros'[i].balanced => macros'[i].depth <= D - 1
      BY <1>2, <1>4
    <2> QED BY <2>1, <2>2
  <1>8. env'.var \in Vars /\ \A i \in 1 .. D - 1 : saved'[i].env.var \in Vars
    <2>1. ASSUME NEW i \in 1 .. D - 1 PROVE saved'[i].env.var \in Vars
      <3>1. i + 1 \in 1 .. D
        BY <1>2
      <3> QED BY <1>2, <1>3, <3>1
    <2>2. 1 \in 1 .. D
      BY <1>2
    <2> QED BY <1>1, <1>2, <1>3, <2>1, <2>2
  <1> HIDE DEF D
  <1> QED BY <1>1, <1>2, <1>4, <1>7, <1>8 DEF RInv

LEMMA CallDefRestores ==
    ASSUME IInv, RInv, CallDef
    PROVE  RInv'
  <1> DEFINE m == [depth |-> Len(saved), balanced |-> TRUE, inherited |-> {},
                   found |-> [n \in Locals |-> GetEnv(env, n)]]
             D == Len(saved)
  <1>1. /\ env' = PushEnvLocals(env) /\ saved' = saved /\ macros' = <<m>> \o macros
        /\ ~unsure' => ~unsure /\ ~Misses(env)
    BY DEF CallDef
  <1>2. IsEnv(env) /\ env.var \in Vars /\ macros \in Seq(Macro) /\ D \in Nat
    BY DEF IInv, RInv
  <1>3. \A n \in Locals : GetEnv(env, n) = Value1(env.var[n]) /\ GetEnv(env, n) \in Contents \cup {NoValue}
    <2> TAKE n \in Locals
    <2>1. n \in Names
      BY LocalNames
    <2>2. GetEnv(env, n) = Value1(env.var[n])
      BY <1>2, <2>1, HasLevels
    <2>3. Has(env, n) => Head(env.var[n]) \in Level
      BY <1>2, <2>1, HasLevels
    <2> QED BY <2>2, <2>3 DEF GetEnv, Level
  <1>4. /\ m \in Macro /\ On(m, D) /\ m.depth = D
        /\ \A n \in Locals : m.found[n] = Value1(env.var[n])
    <2>1. [n \in Locals |-> GetEnv(env, n)] \in [Locals -> Contents \cup {NoValue}]
      BY <1>3
    <2>2. m.found = [n \in Locals |-> GetEnv(env, n)] /\ m.depth = D /\ m.balanced = TRUE
      OBVIOUS
    <2>3. m \in Macro
      BY <1>2, <2>1 DEF Macro
    <2> QED BY <1>3, <2>2, <2>3 DEF On
  <1> HIDE DEF m
  <1>5. macros' \in Seq(Macro) /\ Called(macros, macros', m)
    <2>1. /\ <<m>> \o macros \in Seq(Macro) /\ Len(<<m>> \o macros) = Len(macros) + 1
          /\ (<<m>> \o macros)[1] = m /\ \A i \in 1 .. Len(macros) : (<<m>> \o macros)[i + 1] = macros[i]
      BY <1>2, <1>4
    <2> QED BY <1>1, <2>1 DEF Called
  <1>6. /\ env'.var \in Vars
        /\ ~Misses(env) => \A n \in Locals : env'.var[n] = PushVar(env.var[n])
    BY <1>1, <1>2, PushEnvLocalsVars
  <1>7. ASSUME ~unsure' PROVE LevelOK(env', macros', D)
    <2>1. EnvAt(D) = env /\ D \in 0 .. D
      BY <1>2 DEF EnvAt
    <2>2. LevelOK(env, macros, D)
      BY <1>1, <1>7, <2>1 DEF RInv
    <2>3. \A n \in Locals : env'.var[n] = PushVar(env.var[n]) /\ m.found[n] = Value1(env.var[n])
      BY <1>1, <1>4, <1>6, <1>7
    <2> HIDE DEF D
    <2> QED BY <1>2, <1>4, <1>5, <2>2, <2>3, LevelCalled
  <1>8. ASSUME NEW j \in 0 .. D - 1, NEW e, e.var \in Vars, LevelOK(e, macros, j)
        PROVE  LevelOK(e, macros', j)
    <2>1. ~On(m, j)
      BY <1>2, <1>4 DEF On
    <2> QED BY <1>2, <1>5, <1>8, <2>1, LevelCalledAbove
  <1>9. ASSUME ~unsure', NEW i \in 1 .. Len(macros'), macros'[i].balanced PROVE macros'[i].depth <= D
    <2>1. Len(macros') = Len(macros) + 1 /\ Len(macros) \in Nat
      BY <1>2, <1>5 DEF Called
    <2>2. CASE i = 1
      BY <1>2, <1>4, <1>5, <2>2 DEF Called
    <2>3. CASE i # 1
      <3>1. PICK k \in 1 .. Len(macros) : i = k + 1
        BY <2>1, <2>3
      <3>2. macros'[i] = macros[k]
        BY <1>5, <3>1 DEF Called
      <3> QED BY <1>1, <1>9, <3>1, <3>2 DEF RInv
    <2> QED BY <2>2, <2>3
  <1>10. ~unsure' => ~unsure
    BY <1>1
  <1> QED BY <1>1, <1>5, <1>6, <1>7, <1>8, <1>9, <1>10, CurrentStep

LEMMA ReturnDefMacros ==
    ASSUME RInv, ReturnDef, NEW j
    PROVE  macros' \in Seq(Macro) /\ Returned(macros, macros', j)
  <1> DEFINE outer == Tail(macros)
             S == macros[1].inherited
  <1>1. /\ macros \in Seq(Macro) /\ macros # <<>> /\ Head(macros) = macros[1]
        /\ macros' = IF outer = <<>> THEN <<>>
                     ELSE [outer EXCEPT ![1].inherited = @ \cup Head(macros).inherited]
    BY DEF ReturnDef, RInv
  <1>2. /\ outer \in Seq(Macro) /\ Len(macros) = Len(outer) + 1 /\ Len(outer) \in Nat
        /\ \A i \in 1 .. Len(outer) : outer[i] = macros[i + 1]
    BY <1>1
  <1>3. S \in SUBSET Names
    <2>1. macros[1] \in Macro
      BY <1>1
    <2> QED BY <2>1 DEF Macro
  <1> HIDE DEF outer, S
  <1>4. CASE outer = <<>>
    BY <1>1, <1>2, <1>4 DEF Returned
  <1>5. CASE outer # <<>>
    <2>1. macros' = [outer EXCEPT ![1].inherited = @ \cup S]
      BY <1>1, <1>5 DEF S
    <2>2. /\ macros' \in Seq(Macro) /\ Len(macros') = Len(outer) /\ S \subseteq macros'[1].inherited
          /\ \A i \in 1 .. Len(outer) : /\ macros'[i].balanced = outer[i].balanced
                                        /\ macros'[i].depth = outer[i].depth
                                        /\ macros'[i].found = outer[i].found
                                        /\ outer[i].inherited \subseteq macros'[i].inherited
      BY <1>2, <1>3, <1>5, <2>1, MacroMarked
    <2> QED BY <1>2, <2>2 DEF Returned, On, S
  <1> QED BY <1>4, <1>5

LEMMA ReturnDefSure ==
    ASSUME RInv, ReturnDef, ~unsure'
    PROVE  /\ ~unsure /\ ~Misses(env) /\ On(macros[1], Len(saved))
           /\ macros \in Seq(Macro) /\ 1 \in 1 .. Len(macros)
  <1>1. macros \in Seq(Macro) /\ macros # <<>> /\ Head(macros) = macros[1]
    BY DEF ReturnDef, RInv
  <1>2. ~unsure /\ ~Misses(env) /\ Head(macros).balanced /\ Head(macros).depth = Len(saved)
    BY DEF ReturnDef
  <1> QED BY <1>1, <1>2 DEF On

LEMMA ReturnDefRestores ==
    ASSUME IInv, RInv, ReturnDef
    PROVE  RInv'
  <1> DEFINE D == Len(saved)
  <1>1. env' = PopEnvLocals(env) /\ saved' = saved
    BY DEF ReturnDef
  <1>2. IsEnv(env) /\ env.var \in Vars /\ macros \in Seq(Macro) /\ D \in Nat
    BY DEF IInv, RInv
  <1>3. macros' \in Seq(Macro) /\ \A j : Returned(macros, macros', j)
    BY ReturnDefMacros
  <1>4. /\ env'.var \in Vars
        /\ ~Misses(env) => \A n \in Locals : env'.var[n] = PopVar(env.var[n])
    BY <1>1, <1>2, PopEnvLocalsVars
  <1>5. ASSUME ~unsure' PROVE LevelOK(env', macros', D)
    <2>1. EnvAt(D) = env /\ D \in 0 .. D
      BY <1>2 DEF EnvAt
    <2>2. ~unsure /\ ~Misses(env) /\ On(macros[1], D)
      BY <1>5, ReturnDefSure
    <2>3. LevelOK(env, macros, D)
      BY <2>1, <2>2 DEF RInv
    <2> QED BY <1>2, <1>3, <1>4, <2>2, <2>3, LevelReturned
  <1>6. ASSUME ~unsure', NEW j \in 0 .. D - 1, NEW e, e.var \in Vars, LevelOK(e, macros, j)
        PROVE  LevelOK(e, macros', j)
    <2>1. ~On(macros[1], j)
      <3>1. macros[1].depth = D
        BY <1>6, ReturnDefSure DEF On
      <3> QED BY <1>2, <3>1 DEF On
    <2> QED BY <1>2, <1>3, <1>6, <2>1, LevelReturnedAbove
  <1>7. ASSUME ~unsure', NEW i \in 1 .. Len(macros'), macros'[i].balanced PROVE macros'[i].depth <= D
    <2>1. Returned(macros, macros', macros'[i].depth) /\ On(macros'[i], macros'[i].depth)
      BY <1>3, <1>7 DEF On
    <2>2. On(macros[i + 1], macros'[i].depth) /\ i + 1 \in 1 .. Len(macros)
      BY <1>2, <2>1 DEF Returned
    <2>3. macros[i + 1].depth <= D
      BY <1>7, <2>2, ReturnDefSure DEF RInv, On
    <2> QED BY <2>2, <2>3 DEF On
  <1>8. ~unsure' => ~unsure
    BY ReturnDefSure
  <1> QED BY <1>1, <1>3, <1>4, <1>5, <1>6, <1>7, <1>8, CurrentStep

LEMMA RInvStep == IInv /\ RInv /\ [Next]_vars => RInv'
  <1> SUFFICES ASSUME IInv, RInv, [Next]_vars
               PROVE  RInv'
    OBVIOUS
  <1>1. ASSUME NEW n \in Names, NEW c \in Contents, NEW inherit \in BOOLEAN, CmdSet(n, c, inherit)
        PROVE  RInv'
    BY <1>1, CmdSetRestores
  <1>2. ASSUME NEW n \in Names, NEW answer \in Contents \cup {NoValue}, CmdSetP(n, answer)
        PROVE  RInv'
    <2>1. CASE answer = NoValue
      BY <1>2, <2>1, CmdUnSetRestores DEF CmdSetP
    <2>2. CASE answer # NoValue
      BY <1>2, <2>2, CmdSetRestores DEF CmdSetP
    <2> QED BY <2>1, <2>2
  <1>3. ASSUME NEW n \in Names, NEW blank \in BOOLEAN, CmdUnSet(n, blank)
        PROVE  RInv'
    BY <1>3, CmdUnSetRestores
  <1>4. ASSUME NEW o \in Options, NEW push \in BOOLEAN, CmdSetLocal(o, push)
        PROVE  RInv'
    BY <1>4, CmdSetLocalRestores
  <1>5. CASE CmdEndLocal
    BY <1>5, CmdEndLocalRestores
  <1>6. CASE CallDef
    BY <1>6, CallDefRestores
  <1>7. CASE ReturnDef
    BY <1>7, ReturnDefRestores
  <1>8. CASE UNCHANGED vars
    <2>1. \A j : EnvAt(j)' = EnvAt(j)
      BY <1>8 DEF EnvAt, vars
    <2> QED BY <1>8, <2>1 DEF RInv, vars
  <1> QED BY <1>1, <1>2, <1>3, <1>4, <1>5, <1>6, <1>7, <1>8 DEF Next

LEMMA RInvNoStale == IInv /\ RInv => NoStaleLevels
  <1> SUFFICES ASSUME IInv, RInv, ~unsure, NEW n \in Names
               PROVE  Len(env.var[n]) <= 1 + (IF n \in Locals THEN Len(macros) ELSE 0)
    BY DEF NoStaleLevels
  <1>1. CASE n \in Locals
    <2>1. EnvAt(Len(saved)) = env /\ Len(saved) \in 0 .. Len(saved)
      BY DEF EnvAt, IInv
    <2>2. PICK p : Counts(p, macros, Len(saved)) /\ Hides(env.var[n], n, macros, p, Len(saved))
      BY <1>1, <2>1 DEF RInv, LevelOK
    <2>3. /\ Len(env.var[n]) <= p[Len(macros)] + 1 /\ p[Len(macros)] \in Nat
          /\ p[Len(macros)] <= Len(macros) /\ Len(macros) \in Nat /\ Len(env.var[n]) \in Nat
      <3>1. macros \in Seq(Macro) /\ env.var[n] \in Seq(Level)
        BY DEF RInv, Vars
      <3>2. Len(macros) \in Nat /\ 0 \in 0 .. Len(macros) /\ Len(macros) \in 0 .. Len(macros) /\ 0 <= Len(macros)
        BY <3>1
      <3>3. /\ p[0] = 0 /\ p[Len(macros)] \in Nat
            /\ p[Len(macros)] <= p[0] + (Len(macros) - 0)
        BY <2>2, <3>2 DEF Counts
      <3> QED BY <2>2, <3>1, <3>2, <3>3 DEF Hides
    <2> DEFINE a == Len(env.var[n])
               b == p[Len(macros)]
               c == Len(macros)
    <2>4. a \in Nat /\ b \in Nat /\ c \in Nat /\ a <= b + 1 /\ b <= c
      BY <2>3
    <2> HIDE DEF a, b, c
    <2>5. a <= 1 + c
      BY <2>4
    <2> QED BY <1>1, <2>5 DEF a, c
  <1>2. CASE n \notin Locals
    <2>1. Flat(env.var[n])
      BY <1>2 DEF IInv, IsEnv, Plain
    <2>2. env.var[n] = <<>> \/ env.var[n] = <<Head(env.var[n])>>
      BY <2>1 DEF Flat, NoVar
    <2>3. Len(<<>>) = 0 /\ \A x : Len(<<x>>) = 1
      OBVIOUS
    <2>4. Len(env.var[n]) = 0 \/ Len(env.var[n]) = 1
      BY <2>2, <2>3
    <2> DEFINE a == Len(env.var[n])
    <2> HIDE DEF a
    <2>5. a = 0 \/ a = 1 => a <= 1 + 0
      OBVIOUS
    <2> QED BY <1>2, <2>4, <2>5 DEF a
  <1> QED BY <1>1, <1>2

\* What the caller of a macro finds.
FoundAgain(n) ==
    \/ GetEnv(env, n)' = Head(macros).found[n]
    \/ n \in Head(macros).inherited /\ GetEnv(env, n)' = GetEnv(env, n)

LEMMA ReturnDefKeeps ==
    ASSUME IInv, RInv, ReturnDef, ~unsure', NEW n \in Locals
    PROVE  FoundAgain(n)
  <1> DEFINE D == Len(saved)
             v == env.var[n]
             w == env'.var[n]
  <1>1. /\ IsEnv(env) /\ env.var \in Vars /\ n \in Names /\ v \in Seq(Level) /\ env'.var \in Vars
        /\ macros \in Seq(Macro) /\ Head(macros) = macros[1] /\ 1 \in 1 .. Len(macros)
        /\ env' = PopEnvLocals(env)
    <2>1. IsEnv(env) /\ env.var \in Vars /\ n \in Names
      BY LocalNames DEF IInv, RInv
    <2>2. macros \in Seq(Macro) /\ macros # <<>> /\ env' = PopEnvLocals(env)
      BY DEF RInv, ReturnDef
    <2>3. env'.var \in Vars
      BY <2>1, <2>2, PopEnvLocalsVars
    <2> QED BY <2>1, <2>2, <2>3 DEF Vars
  <1>2. ~unsure /\ ~Misses(env) /\ On(macros[1], D)
    BY ReturnDefSure
  <1>3. w = PopVar(v)
    BY <1>1, <1>2, PopEnvLocalsVars
  <1>4. PICK p : Counts(p, macros, D) /\ Hides(v, n, macros, p, D)
    <2>1. EnvAt(D) = env /\ D \in 0 .. D
      BY DEF EnvAt, IInv
    <2> QED BY <1>2, <2>1 DEF RInv, LevelOK
  <1>5. p[1] = 1
    <2>1. 1 - 1 = 0
      OBVIOUS
    <2>2. p[1] = p[1 - 1] + (IF On(macros[1], D) THEN 1 ELSE 0) /\ p[0] = 0
      BY <1>1, <1>4 DEF Counts
    <2> QED BY <1>2, <2>1, <2>2
  <1>6. /\ 1 < Len(v) => macros[1].found[n] = v[1 + 1].content
        /\ 1 >= Len(v) => macros[1].found[n] = NoValue
        /\ 1 <= Len(v) /\ v[1].inherit = TRUE => Inherited(n, macros, 1)
    BY <1>1, <1>2, <1>4, <1>5 DEF Hides
  <1>7. Inherited(n, macros, 1) => n \in macros[1].inherited
    BY DEF Inherited
  <1>8. GetEnv(env, n) = Value1(v) /\ GetEnv(env, n)' = Value1(w)
    <2>1. GetEnv(env', n) = Value1(w)
      BY <1>1, HasLevels
    <2>2. GetEnv(env, n)' = GetEnv(env', n)
      BY DEF GetEnv, Has
    <2> QED BY <1>1, <2>1, <2>2, HasLevels
  <1>9. /\ Len(v) = 0 => w = v
        /\ Len(v) = 1 => IF v[1].inherit = TRUE THEN w = v ELSE w = <<>>
        /\ Len(v) > 1 => /\ Len(w) = Len(v) - 1
                         /\ w[1] = IF v[1].inherit = TRUE THEN v[1] ELSE v[2]
    BY <1>1, <1>3, PopVarFacts
  <1>10. Len(v) \in Nat /\ (v = <<>> <=> Len(v) = 0)
    BY <1>1
  <1>11. w \in Seq(Level) /\ (w = <<>> <=> Len(w) = 0)
    BY <1>1 DEF Vars
  <1> DEFINE L == Len(v)
  <1> HIDE DEF v, w
  <1>12. Head(macros) = macros[1]
    BY <1>1
  <1>13. Value1(w) = macros[1].found[n] => FoundAgain(n)
    <2>1. Value1(w) = macros[1].found[n] => GetEnv(env, n)' = Head(macros).found[n]
      BY <1>8, <1>12
    <2> QED BY <2>1 DEF FoundAgain
  <1>14. n \in macros[1].inherited /\ Value1(w) = Value1(v) => FoundAgain(n)
    <2>1. n \in macros[1].inherited /\ Value1(w) = Value1(v) =>
             n \in Head(macros).inherited /\ GetEnv(env, n)' = GetEnv(env, n)
      BY <1>8, <1>12
    <2> QED BY <2>1 DEF FoundAgain
  <1>15. CASE Len(v) = 0
    <2>1. Value1(w) = NoValue
      BY <1>9, <1>10, <1>15 DEF Value1
    <2>2. macros[1].found[n] = NoValue
      BY <1>6, <1>15
    <2> QED BY <1>13, <2>1, <2>2
  <1>16. CASE Len(v) = 1
    <2>1. macros[1].found[n] = NoValue
      BY <1>6, <1>16
    <2>2. CASE v[1].inherit = TRUE
      <3>1. n \in macros[1].inherited
        BY <1>6, <1>7, <1>16, <2>2
      <3>2. w = v
        BY <1>9, <1>16, <2>2
      <3> QED BY <1>14, <3>1, <3>2
    <2>3. CASE v[1].inherit # TRUE
      <3>1. w = <<>>
        BY <1>9, <1>16, <2>3
      <3>2. Value1(w) = NoValue
        BY <3>1 DEF Value1
      <3> QED BY <1>13, <2>1, <3>2
    <2> QED BY <2>2, <2>3
  <1>17. CASE Len(v) > 1
    <2>1. L \in Nat /\ L > 1 /\ Len(w) = L - 1
      BY <1>9, <1>10, <1>17
    <2>2. v # <<>> /\ w # <<>>
      <3> HIDE DEF L
      <3>1. L # 0 /\ L - 1 # 0 /\ 1 < L /\ 1 <= L
        BY <2>1
      <3> QED BY <1>10, <1>11, <2>1, <3>1 DEF L
    <2>3. Value1(v) = v[1].content /\ Value1(w) = w[1].content
      BY <2>2 DEF Value1
    <2>4. CASE v[1].inherit = TRUE
      <3>1. 1 <= Len(v)
        <4> HIDE DEF L
        <4>1. 1 <= L
          BY <2>1
        <4> QED BY <4>1 DEF L
      <3>2. n \in macros[1].inherited
        BY <1>6, <1>7, <2>4, <3>1
      <3>3. w[1] = v[1]
        BY <1>9, <1>17, <2>4
      <3> QED BY <1>14, <2>3, <3>2, <3>3
    <2>5. CASE v[1].inherit # TRUE
      <3>1. w[1] = v[2]
        BY <1>9, <1>17, <2>5
      <3>2. 1 < Len(v)
        <4> HIDE DEF L
        <4>1. 1 < L
          BY <2>1
        <4> QED BY <4>1 DEF L
      <3>3. macros[1].found[n] = v[2].content
        BY <1>6, <3>2
      <3> QED BY <1>13, <2>3, <3>1, <3>3
    <2> QED BY <2>4, <2>5
  <1>18. Len(v) = 0 \/ Len(v) = 1 \/ Len(v) > 1
    <2> HIDE DEF L
    <2>1. L \in Nat => L = 0 \/ L = 1 \/ L > 1
      OBVIOUS
    <2> QED BY <1>10, <2>1 DEF L
  <1> QED BY <1>15, <1>16, <1>17, <1>18

\* Whatever macros call each other, whatever they set, delete or mark with /X, and
\* whatever scopes they open and close: a macro that ends the scopes it opened leaves
\* its caller the local variables it had, but for those that were marked, and no value
\* outlives the macro that hid it, unless a search missed a local variable.
THEOREM RestoresHolds == Spec => Restores
  <1>1. Spec => []IInv
    BY InitScoped, NextScoped, PTL DEF Spec
  <1>2. Spec => []RInv
    BY RInvInit, RInvStep, <1>1, PTL DEF Spec
  <1>3. IInv /\ RInv /\ [Next]_vars =>
          [ReturnDef /\ ~unsure' => \A n \in Locals :
            \/ GetEnv(env, n)' = Head(macros).found[n]
            \/ n \in Head(macros).inherited /\ GetEnv(env, n)' = GetEnv(env, n)]_vars
    BY ReturnDefKeeps DEF FoundAgain
  <1> QED BY <1>1, <1>2, <1>3, RInvNoStale, PTL DEF Spec, Restores, MacroRestores

-----------------------------------------------------------------------------
(* What bsearch finds in a sorted array. *)

Less == {p \in Nat \X Nat : p[1] < p[2]}

LEMMA LeastOf ==
    ASSUME NEW S \in SUBSET Nat, S # {}
    PROVE  \E n \in S : \A m \in S : n <= m
  <1>0. IsWellFoundedOn(Less, Nat)
    BY NatLessThanWellFounded, Zenon DEF OpToRel, Less
  <1>1. PICK n \in S : \A m \in S : <<m, n>> \notin Less
    BY <1>0, WFMin, Zenon
  <1>2. ASSUME NEW m \in S, m < n PROVE FALSE
    <2>1. <<m, n>> \in Less
      BY <1>2 DEF Less
    <2> QED BY <2>1, <1>1
  <1>3. \A m \in S : m \in Nat /\ n \in Nat /\ ~(m < n)
    BY <1>2
  <1> QED BY <1>3

\* f is what the loop has narrowed the search to, after each of n turns.
Searches(dir, n, f) == f = [k \in 0..n |-> IF k = 0 THEN Everything(dir) ELSE Narrow(dir, f[k - 1])]

LEMMA SearchIsDone ==
    ASSUME NEW dir, Len(dir) \in Nat
    PROVE  \E f : /\ BSearch(dir) = f[Len(dir)].at
                  /\ f[0] = Everything(dir)
                  /\ \A k \in 1..Len(dir) : f[k] = Narrow(dir, f[k - 1])
  <1> DEFINE first == Everything(dir)
  <1>1. ASSUME NEW n \in Nat PROVE \E f : Searches(dir, n, f)
    <2> DEFINE Without == {l \in Nat : ~ \E f : Searches(dir, l, f)}
    <2>1. SUFFICES ASSUME Without # {} PROVE FALSE
      OBVIOUS
    <2>2. PICK m \in Without : \A l \in Without : m <= l
      <3>1. Without \in SUBSET Nat
        OBVIOUS
      <3> HIDE DEF Without
      <3> QED BY <2>1, <3>1, LeastOf
    <2>3. CASE m = 0
      <3> DEFINE f == [k \in 0..0 |-> first]
      <3>1. f = [k \in 0..0 |-> IF k = 0 THEN first ELSE Narrow(dir, f[k - 1])]
        OBVIOUS
      <3>2. Searches(dir, 0, f)
        BY <3>1 DEF Searches
      <3> QED BY <2>3, <3>2
    <2>4. CASE m # 0
      <3>1. m \in Nat /\ m - 1 \in Nat /\ m - 1 \notin Without
        BY <2>2, <2>4
      <3>2. PICK g : Searches(dir, m - 1, g)
        BY <3>1
      <3> DEFINE f == [k \in 0..m |-> IF k < m THEN g[k] ELSE Narrow(dir, g[m - 1])]
                 e == [k \in 0..m |-> IF k = 0 THEN first ELSE Narrow(dir, f[k - 1])]
      <3>3. \A k \in 0..(m - 1) : g[k] = IF k = 0 THEN first ELSE Narrow(dir, g[k - 1])
        BY <3>1, <3>2 DEF Searches
      <3>4. ASSUME NEW k \in 0..m PROVE f[k] = e[k]
        <4>1. CASE k = 0
          BY <4>1, <3>1, <3>3, <2>4
        <4>2. CASE k # 0
          <5>1. k - 1 \in 0..m /\ k - 1 < m /\ m \in Nat
            BY <4>2, <3>1
          <5>2. f[k - 1] = g[k - 1] /\ e[k] = Narrow(dir, f[k - 1])
            BY <5>1, <4>2
          <5>3. CASE k < m
            BY <5>1, <5>2, <5>3, <4>2, <3>3
          <5>4. CASE k = m
            BY <5>1, <5>2, <5>4
          <5> QED BY <5>1, <5>3, <5>4
        <4> QED BY <4>1, <4>2
      <3>5. f = e
        BY <3>4
      <3>6. Searches(dir, m, f)
        BY <3>5 DEF Searches
      <3> QED BY <2>2, <3>6
    <2> QED BY <2>3, <2>4
  <1>2. \E f : Searches(dir, Len(dir), f)
    BY <1>1
  <1> DEFINE look == CHOOSE f : Searches(dir, Len(dir), f)
  <1>3. Searches(dir, Len(dir), look)
    BY <1>2
  <1>4. BSearch(dir) = look[Len(dir)].at
    BY DEF BSearch, Searches
  <1> HIDE DEF look
  <1>5. \A k \in 0..Len(dir) : look[k] = IF k = 0 THEN first ELSE Narrow(dir, look[k - 1])
    BY <1>3 DEF Searches
  <1>6. look[0] = first /\ \A k \in 1..Len(dir) : look[k] = Narrow(dir, look[k - 1])
    BY <1>5
  <1> QED BY <1>4, <1>6

\* The elements behind the key send the search down, those before it up.
Direction == {"left", "here", "right"}
InOrder(dir) == \A i, j \in 1..Len(dir) : i < j => /\ dir[i] = "left" => dir[j] = "left"
                                                   /\ dir[j] = "right" => dir[i] = "right"

\* What k turns of the loop leave: an element found, or, in a sorted array, all of those that may be the key.
Window(dir, k, w) ==
    /\ w = [from |-> w.from, upto |-> w.upto, at |-> w.at]
    /\ w.from \in Nat /\ w.upto \in Nat /\ w.from <= w.upto /\ w.upto <= Len(dir)
    /\ \/ w.at \in 1..Len(dir) /\ dir[w.at] = "here"
       \/ /\ w.at = 0 /\ w.upto - w.from <= Len(dir) - k
          /\ InOrder(dir) => \A i \in 1..Len(dir) : dir[i] = "here" => w.from < i /\ i <= w.upto

LEMMA NarrowFacts ==
    ASSUME NEW dir \in Seq(Direction), NEW k \in 1..Len(dir), NEW w, Window(dir, k - 1, w)
    PROVE  Window(dir, k, Narrow(dir, w))
  <1> DEFINE n == Len(dir)
             m == (w.from + w.upto) \div 2
             j == m + 1
  <1>0. n \in Nat /\ k \in Nat /\ k <= n /\ w.from \in Nat /\ w.upto \in Nat /\ w.from <= w.upto /\ w.upto <= n
    BY DEF Window
  <1>1. CASE w.at # 0 \/ w.from >= w.upto
    <2>1. Narrow(dir, w) = w
      BY <1>1 DEF Narrow
    <2>2. w.at = 0 => w.upto - w.from <= n - k
      BY <1>0, <1>1
    <2> QED BY <2>1, <2>2, <1>0 DEF Window
  <1>2. CASE w.at = 0 /\ w.from < w.upto
    <2>0. ~(w.at # 0 \/ w.from >= w.upto)
      BY <1>0, <1>2
    <2>4. Narrow(dir, w) = CASE dir[j] = "here"  -> [w EXCEPT !.at = j]
                             [] dir[j] = "left"  -> [w EXCEPT !.upto = m]
                             [] dir[j] = "right" -> [w EXCEPT !.from = j]
      BY <2>0, Zenon DEF Narrow
    <2>1. m \in Nat /\ w.from <= m /\ m < w.upto
      BY <1>0, <1>2
    <2> HIDE DEF m
    <2>2. j \in 1..n /\ j = m + 1
      BY <1>0, <2>1
    <2>3. dir[j] \in Direction
      BY <2>2
    <2>5. w = [from |-> w.from, upto |-> w.upto, at |-> 0]
      BY <1>2 DEF Window
    <2>6. InOrder(dir) => \A i \in 1..n : dir[i] = "here" => w.from < i /\ i <= w.upto
      BY <1>2, <2>2 DEF Window
    <2>7. w.upto - w.from <= n - k + 1
      <3>1. w.upto - w.from <= n - (k - 1)
        BY <1>2, <2>2 DEF Window
      <3> QED BY <3>1, <1>0
    <2> HIDE DEF j
    <2>8. CASE dir[j] = "here"
      <3>1. Narrow(dir, w) = [from |-> w.from, upto |-> w.upto, at |-> j]
        BY <2>4, <2>5, <2>8
      <3> QED BY <3>1, <1>0, <2>2, <2>8 DEF Window
    <2>9. CASE dir[j] = "left"
      <3>1. Narrow(dir, w) = [from |-> w.from, upto |-> m, at |-> 0]
        BY <2>4, <2>5, <2>9
      <3>2. InOrder(dir) => \A i \in 1..n : dir[i] = "here" => w.from < i /\ i <= m
        <4>1. SUFFICES ASSUME InOrder(dir), NEW i \in 1..n, dir[i] = "here" PROVE w.from < i /\ i <= m
          OBVIOUS
        <4>2. w.from < i /\ i <= w.upto
          BY <4>1, <2>6
        <4>3. i # j
          BY <4>1, <2>9
        <4>4. ~(j < i)
          BY <4>1, <2>2, <2>9 DEF InOrder
        <4> QED BY <4>2, <4>3, <4>4, <2>1, <2>2
      <3>3. m - w.from <= n - k
        BY <2>7, <2>1, <1>0
      <3> QED BY <3>1, <3>2, <3>3, <1>0, <2>1 DEF Window
    <2>10. CASE dir[j] = "right"
      <3>1. Narrow(dir, w) = [from |-> j, upto |-> w.upto, at |-> 0]
        BY <2>4, <2>5, <2>10
      <3>2. InOrder(dir) => \A i \in 1..n : dir[i] = "here" => j < i /\ i <= w.upto
        <4>1. SUFFICES ASSUME InOrder(dir), NEW i \in 1..n, dir[i] = "here" PROVE j < i /\ i <= w.upto
          OBVIOUS
        <4>2. w.from < i /\ i <= w.upto
          BY <4>1, <2>6
        <4>3. i # j
          BY <4>1, <2>10
        <4>4. ~(i < j)
          BY <4>1, <2>2, <2>10 DEF InOrder
        <4> QED BY <4>2, <4>3, <4>4, <2>1, <2>2
      <3>3. w.upto - j <= n - k /\ j \in Nat /\ j <= w.upto
        BY <2>7, <2>1, <2>2, <1>0
      <3> QED BY <3>1, <3>2, <3>3, <1>0 DEF Window
    <2> QED BY <2>3, <2>8, <2>9, <2>10 DEF Direction
  <1> QED BY <1>0, <1>1, <1>2

\* bsearch returns an element that is the key, and in a sorted array misses none.
LEMMA BSearchFacts ==
    ASSUME NEW dir \in Seq(Direction)
    PROVE  /\ BSearch(dir) \in 0..Len(dir)
           /\ BSearch(dir) # 0 => dir[BSearch(dir)] = "here"
           /\ InOrder(dir) /\ BSearch(dir) = 0 => \A i \in 1..Len(dir) : dir[i] # "here"
  <1> DEFINE n == Len(dir)
  <1>0. n \in Nat
    OBVIOUS
  <1>1. PICK f : /\ BSearch(dir) = f[n].at
                 /\ f[0] = Everything(dir)
                 /\ \A k \in 1..n : f[k] = Narrow(dir, f[k - 1])
    BY <1>0, SearchIsDone
  <1>2. \A k \in 0..n : Window(dir, k, f[k])
    <2> DEFINE Wrong == {k \in 0..n : ~ Window(dir, k, f[k])}
    <2>1. SUFFICES ASSUME Wrong # {} PROVE FALSE
      OBVIOUS
    <2>2. PICK m \in Wrong : \A l \in Wrong : m <= l
      <3>1. Wrong \in SUBSET Nat
        BY <1>0
      <3> HIDE DEF Wrong
      <3> QED BY <2>1, <3>1, LeastOf
    <2>3. m \in 0..n /\ ~Window(dir, m, f[m])
      BY <2>2
    <2>4. CASE m = 0
      <3>1. Window(dir, 0, Everything(dir))
        BY <1>0 DEF Window, Everything
      <3> QED BY <3>1, <2>3, <2>4, <1>1
    <2>5. CASE m # 0
      <3>1. m \in 1..n /\ m - 1 \in 0..n /\ m - 1 < m
        BY <2>3, <2>5, <1>0
      <3>2. Window(dir, m - 1, f[m - 1])
        BY <3>1, <2>2
      <3> QED BY <3>1, <3>2, <2>3, <1>1, NarrowFacts
    <2> QED BY <2>4, <2>5
  <1>3. Window(dir, n, f[n])
    BY <1>0, <1>2
  <1> DEFINE w == f[n]
  <1>4. Window(dir, n, w) /\ BSearch(dir) = w.at
    BY <1>1, <1>3
  <1> HIDE DEF w
  <1>5. CASE w.at \in 1..n /\ dir[w.at] = "here"
    BY <1>0, <1>4, <1>5
  <1>6. CASE ~(w.at \in 1..n /\ dir[w.at] = "here")
    <2>1. w.at = 0 /\ w.from \in Nat /\ w.upto \in Nat /\ w.upto - w.from <= n - n
      BY <1>4, <1>6 DEF Window
    <2>2. InOrder(dir) => \A i \in 1..n : dir[i] = "here" => w.from < i /\ i <= w.upto
      BY <1>4, <1>6 DEF Window
    <2>3. w.upto <= w.from
      BY <2>1, <1>0
    <2> QED BY <2>1, <2>2, <2>3, <1>0, <1>4
  <1> QED BY <1>5, <1>6

-----------------------------------------------------------------------------
(* The names, as stricmp sorts them. *)

LEMMA PlaceFacts ==
    /\ Len(Order) \in Nat /\ DOMAIN Order = 1..Len(Order)
    /\ \A n \in Names : Place(n) \in 1..Len(Order) /\ Order[Place(n)] = n
  <1>1. Len(Order) \in Nat /\ DOMAIN Order = 1..Len(Order)
    BY OrderAssumption
  <1>2. ASSUME NEW n \in Names PROVE Place(n) \in DOMAIN Order /\ Order[Place(n)] = n
    <2>1. \E i \in DOMAIN Order : Order[i] = n
      BY DEF Names
    <2> QED BY <2>1 DEF Place
  <1> QED BY <1>1, <1>2

LEMMA NamesAreFew ==
    IsFiniteSet(Names) /\ Cardinality(Names) \in Nat /\ Cardinality(Names) <= Len(Order)
  <1> DEFINE D == 1..Len(Order)
  <1>1. Len(Order) \in Nat /\ DOMAIN Order = D
    BY PlaceFacts
  <1>2. IsFiniteSet(D) /\ Cardinality(D) = Len(Order)
    <2>1. \A l \in Nat : 1 \in Int /\ l \in Int /\ (IF 1 > l THEN 0 ELSE l - 1 + 1) = l
      OBVIOUS
    <2> QED BY <1>1, <2>1, FS_Interval
  <1>3. Order \in [D -> Names]
    BY OrderAssumption, <1>1
  <1>4. \A n \in Names : \E i \in D : Order[i] = n
    BY <1>1 DEF Names
  <1>5. Order \in Surjection(D, Names)
    BY <1>3, <1>4 DEF Surjection
  <1> HIDE DEF D
  <1>6. IsFiniteSet(Names) /\ Cardinality(Names) <= Cardinality(D)
    BY <1>2, <1>5, FS_Surjection
  <1> QED BY <1>2, <1>6, FS_CardinalityType

\* A set of names has as many elements as there are places in its order, and each of them is one of the set.
LEMMA SortedFacts ==
    ASSUME NEW S \in SUBSET Names
    PROVE  /\ Cardinality(S) \in Nat
           /\ \A i \in 1..Cardinality(S) : Sorted(S)[i] \in S
  <1> DEFINE c == Cardinality(S)
             Before(n) == {m \in S : Place(m) < Place(n)}
             rank == [n \in S |-> Cardinality(Before(n))]
             T == 0..(c - 1)
  <1>1. IsFiniteSet(S) /\ c \in Nat
    BY NamesAreFew, FS_Subset, FS_CardinalityType
  <1>2. \A n \in S : Place(n) \in Nat
    BY PlaceFacts
  <1>3. ASSUME NEW n \in S PROVE IsFiniteSet(Before(n)) /\ Cardinality(Before(n)) \in T
    <2>1. Before(n) \in SUBSET (S \ {n})
      BY <1>2
    <2>2. IsFiniteSet(S \ {n}) /\ Cardinality(S \ {n}) = c - 1
      BY <1>1, FS_RemoveElement
    <2> HIDE DEF Before
    <2>3. IsFiniteSet(Before(n)) /\ Cardinality(Before(n)) <= c - 1
      BY <2>1, <2>2, FS_Subset
    <2>4. Cardinality(Before(n)) \in Nat
      BY <2>3, FS_CardinalityType
    <2> QED BY <2>3, <2>4, <1>1
  <1>4. ASSUME NEW n \in S, NEW m \in S, Place(m) < Place(n)
        PROVE  Cardinality(Before(m)) # Cardinality(Before(n))
    <2>1. Before(m) \in SUBSET Before(n)
      BY <1>2, <1>4
    <2>2. m \in Before(n) /\ m \notin Before(m)
      BY <1>2, <1>4
    <2> HIDE DEF Before
    <2>3. Cardinality(Before(n)) = Cardinality(Before(m)) => Before(n) = Before(m)
      BY <2>1, <1>3, FS_Subset
    <2> QED BY <2>2, <2>3
  <1>5. \A n, m \in S : n # m => Place(n) # Place(m)
    BY PlaceFacts
  <1>6. \A n, m \in S : Cardinality(Before(n)) = Cardinality(Before(m)) => n = m
    <2> HIDE DEF Before
    <2>1. \A n, m \in S : n # m => Place(m) < Place(n) \/ Place(n) < Place(m)
      BY <1>2, <1>5
    <2> QED BY <2>1, <1>4
  <1>7. rank \in Injection(S, T)
    <2> HIDE DEF Before, T
    <2>1. rank \in [S -> T]
      BY <1>3
    <2>2. IsInjective(rank)
      BY <1>6 DEF IsInjective
    <2> HIDE DEF rank
    <2> QED BY <2>1, <2>2 DEF Injection
  <1>8. IsFiniteSet(T) /\ Cardinality(T) = c
    BY <1>1, FS_Interval
  <1>9. \A n \in S : rank[n] = Cardinality(Before(n))
    OBVIOUS
  <1> HIDE DEF T, rank
  <1>10. rank \in Surjection(S, T)
    BY <1>7, <1>8, FS_Injection
  <1>11. \A t \in T : \E n \in S : rank[n] = t
    BY <1>10 DEF Surjection
  <1>12. ASSUME NEW i \in 1..c PROVE Sorted(S)[i] \in S
    <2>1. i - 1 \in T
      BY <1>1 DEF T
    <2>2. \E n \in S : Cardinality(Before(n)) = i - 1
      BY <2>1, <1>11, <1>9
    <2>3. Sorted(S)[i] = CHOOSE n \in S : Cardinality(Before(n)) = i - 1
      BY DEF Sorted
    <2> HIDE DEF Before
    <2> QED BY <2>2, <2>3
  <1> QED BY <1>1, <1>12

-----------------------------------------------------------------------------
(* The type invariant: the environment in force and the saved ones keep    *)
(* their types, and none has more slots than there are names.              *)

Fits == {e \in Env : Slots(e) <= Len(Order)}
TInv ==
    /\ env \in Fits
    /\ saved \in Seq([env: Fits, opts: Options])
    /\ opts \in Options
    /\ nullsFirst \in BOOLEAN /\ unsure \in BOOLEAN

LEMMA PresentFacts ==
    ASSUME NEW e
    PROVE  /\ Present(e) \in SUBSET Names
           /\ IsFiniteSet(Present(e)) /\ Cardinality(Present(e)) \in Nat
           /\ Cardinality(Present(e)) <= Cardinality(Names)
  <1>1. Present(e) \in SUBSET Names
    BY DEF Present
  <1> QED BY <1>1, NamesAreFew, FS_Subset, FS_CardinalityType

LEMMA EnvIs ==
    ASSUME NEW e \in Env
    PROVE  /\ e = [var |-> e.var, nulls |-> e.nulls]
           /\ e.var \in [Names -> Seq(Level)] /\ e.nulls \in Seq(BOOLEAN) /\ Len(e.nulls) \in Nat
           /\ \A n \in Names : n \in Present(e) <=> e.var[n] # <<>>
  BY DEF Env, Present, Has, NoVar

LEMMA KeptIs ==
    ASSUME NEW V \in [Names -> Seq(Level)], NEW w \in Seq(BOOLEAN),
           NEW S \in SUBSET Names, \A n \in Names : n \in S <=> V[n] # <<>>,
           Len(w) + Cardinality(S) <= Len(Order)
    PROVE  [var |-> V, nulls |-> w] \in Fits
  <1> DEFINE g == [var |-> V, nulls |-> w]
  <1>1. g \in Env
    BY DEF Env
  <1>2. g.var = V /\ g.nulls = w
    OBVIOUS
  <1> HIDE DEF g
  <1>3. Present(g) = S
    BY <1>2 DEF Present, Has, NoVar
  <1> QED BY <1>1, <1>2, <1>3 DEF Fits, Slots, g

\* A slot without a name is found whenever there is one, wherever the heap puts them.
LEMMA NullSlotFacts ==
    ASSUME NEW e \in Env, nullsFirst \in BOOLEAN
    PROVE  /\ NullSlot(e) \in 0..Len(e.nulls)
           /\ NullSlot(e) = 0 => e.nulls = <<>>
  <1> DEFINE p == Cardinality(Present(e))
             l == Len(e.nulls)
             side == IF nullsFirst THEN "left" ELSE "right"
             names == [i \in 1..p |-> side]
             nulls == [i \in 1..l |-> "here"]
             dir == IF nullsFirst THEN nulls \o names ELSE names \o nulls
  <1>1. p \in Nat /\ l \in Nat /\ DOMAIN e.nulls = 1..l
    BY PresentFacts, EnvIs
  <1>2. Directions(e, CompNull, "here") = dir
    <2> DEFINE Name(i) == Sorted(Present(e))[i]
               found == [i \in 1..p |-> CompNull(Name(i))]
               empty == [i \in DOMAIN e.nulls |-> "here"]
    <2>1. Directions(e, CompNull, "here") = IF nullsFirst THEN empty \o found ELSE found \o empty
      BY Zenon DEF Directions
    <2>2. \A n : CompNull(n) = side
      BY DEF CompNull
    <2>3. found = names
      <3> HIDE DEF Name, side
      <3> QED BY <2>2
    <2>4. empty = nulls
      BY <1>1
    <2> HIDE DEF found, empty, names, nulls
    <2> QED BY <2>1, <2>3, <2>4
  <1>3. NullSlot(e) = IF BSearch(dir) = 0 \/ nullsFirst THEN BSearch(dir) ELSE BSearch(dir) - p
    <2> DEFINE at == BSearch(Directions(e, CompNull, "here"))
    <2>1. NullSlot(e) = IF at = 0 \/ nullsFirst THEN at ELSE at - Cardinality(Present(e))
      BY DEF NullSlot
    <2>2. at = BSearch(dir)
      BY <1>2
    <2> HIDE DEF at, dir
    <2> QED BY <2>1, <2>2
  <1>4. /\ names \in Seq(Direction) /\ Len(names) = p
        /\ nulls \in Seq(Direction) /\ Len(nulls) = l
    <2>1. side \in Direction /\ "here" \in Direction
      BY DEF Direction
    <2> HIDE DEF side
    <2> QED BY <1>1, <2>1
  <1>5. \A i \in 1..p : names[i] = side
    OBVIOUS
  <1>6. \A i \in 1..l : nulls[i] = "here"
    OBVIOUS
  <1> HIDE DEF p, l, names, nulls
  <1>7. CASE nullsFirst
    <2>1. side = "left"
      BY <1>7
    <2> HIDE DEF side
    <2> DEFINE d == nulls \o names
    <2>2. /\ d \in Seq(Direction) /\ Len(d) = l + p
          /\ \A i \in 1..(l + p) : d[i] = IF i <= l THEN nulls[i] ELSE names[i - l]
      BY <1>1, <1>4, ConcatProperties, Zenon
    <2>3. NullSlot(e) = BSearch(d)
      BY <1>3, <1>7
    <2> HIDE DEF d
    <2>4. \A i \in 1..(l + p) : d[i] = IF i <= l THEN "here" ELSE "left"
      <3>1. ASSUME NEW i \in 1..(l + p) PROVE d[i] = IF i <= l THEN "here" ELSE "left"
        <4>1. i <= l => i \in 1..l
          BY <1>1
        <4>2. ~(i <= l) => i - l \in 1..p
          BY <1>1
        <4> QED BY <4>1, <4>2, <2>1, <2>2, <1>5, <1>6
      <3> QED BY <3>1
    <2>5. InOrder(d)
      BY <1>1, <2>2, <2>4 DEF InOrder
    <2>6. /\ BSearch(d) \in 0..(l + p)
          /\ BSearch(d) # 0 => d[BSearch(d)] = "here"
          /\ BSearch(d) = 0 => \A i \in 1..(l + p) : d[i] # "here"
      BY <2>2, <2>5, BSearchFacts
    <2>7. BSearch(d) \in 0..l
      BY <1>1, <2>4, <2>6
    <2>8. BSearch(d) = 0 => l = 0
      <3>1. l # 0 => 1 \in 1..(l + p) /\ 1 <= l
        BY <1>1
      <3> QED BY <3>1, <2>4, <2>6
    <2> QED BY <2>3, <2>7, <2>8, EnvIs DEF l
  <1>8. CASE ~nullsFirst
    <2>1. side = "right"
      BY <1>8
    <2> HIDE DEF side
    <2> DEFINE d == names \o nulls
    <2>2. /\ d \in Seq(Direction) /\ Len(d) = p + l
          /\ \A i \in 1..(p + l) : d[i] = IF i <= p THEN names[i] ELSE nulls[i - p]
      BY <1>1, <1>4, ConcatProperties, Zenon
    <2>3. NullSlot(e) = IF BSearch(d) = 0 THEN 0 ELSE BSearch(d) - p
      BY <1>3, <1>8
    <2> HIDE DEF d
    <2>4. \A i \in 1..(p + l) : d[i] = IF i <= p THEN "right" ELSE "here"
      <3>1. ASSUME NEW i \in 1..(p + l) PROVE d[i] = IF i <= p THEN "right" ELSE "here"
        <4>1. i <= p => i \in 1..p
          BY <1>1
        <4>2. ~(i <= p) => i - p \in 1..l
          BY <1>1
        <4> QED BY <4>1, <4>2, <2>1, <2>2, <1>5, <1>6
      <3> QED BY <3>1
    <2>5. InOrder(d)
      BY <1>1, <2>2, <2>4 DEF InOrder
    <2>6. /\ BSearch(d) \in 0..(p + l)
          /\ BSearch(d) # 0 => d[BSearch(d)] = "here"
          /\ BSearch(d) = 0 => \A i \in 1..(p + l) : d[i] # "here"
      BY <2>2, <2>5, BSearchFacts
    <2>7. BSearch(d) # 0 => BSearch(d) - p \in 1..l
      BY <1>1, <2>4, <2>6
    <2>8. BSearch(d) = 0 => l = 0
      <3>1. l # 0 => p + 1 \in 1..(p + l) /\ ~(p + 1 <= p)
        BY <1>1
      <3> QED BY <3>1, <2>4, <2>6
    <2>9. NullSlot(e) \in 0..l /\ (NullSlot(e) = 0 => l = 0)
      BY <2>3, <2>7, <2>8, <1>1
    <2> QED BY <2>9, EnvIs DEF l
  <1> QED BY <1>7, <1>8

-----------------------------------------------------------------------------
(* What the operations on the array keep. *)

LEMMA SetEnvExKeeps ==
    ASSUME NEW e \in Fits, nullsFirst \in BOOLEAN,
           NEW n \in Names, NEW c \in Contents, NEW inherit \in BOOLEAN
    PROVE  SetEnvEx(e, n, c, inherit) \in Fits
  <1> DEFINE P == Present(e)
  <1>0. /\ e = [var |-> e.var, nulls |-> e.nulls]
        /\ e.var \in [Names -> Seq(Level)] /\ e.nulls \in Seq(BOOLEAN) /\ Len(e.nulls) \in Nat
        /\ \A m \in Names : m \in P <=> e.var[m] # <<>>
    BY EnvIs DEF Fits
  <1>1. /\ P \in SUBSET Names /\ IsFiniteSet(P) /\ Cardinality(P) \in Nat
        /\ Len(e.nulls) + Cardinality(P) <= Len(Order)
    BY PresentFacts DEF Fits, Slots
  <1> HIDE DEF P
  <1>2. CASE Has(e, n)
    <2> DEFINE x == [content |-> c, inherit |-> Head(e.var[n]).inherit \/ inherit]
               v == <<x>> \o Tail(e.var[n])
               V == [e.var EXCEPT ![n] = v]
    <2>1. SetEnvEx(e, n, c, inherit) = [e EXCEPT !.var[n] = v]
      BY <1>2 DEF SetEnvEx
    <2>2. x \in Level
      BY DEF Level
    <2> HIDE DEF x
    <2>3. e.var[n] \in Seq(Level) /\ e.var[n] # <<>>
      BY <1>0, <1>2 DEF Has, NoVar
    <2>4. v \in Seq(Level) /\ v # <<>>
      <3>1. Tail(e.var[n]) \in Seq(Level)
        BY <2>3
      <3>2. <<x>> \in Seq(Level) /\ Len(<<x>>) = 1
        BY <2>2
      <3>3. v \in Seq(Level) /\ Len(v) = 1 + Len(Tail(e.var[n]))
        BY <3>1, <3>2, ConcatProperties
      <3>4. Len(Tail(e.var[n])) \in Nat /\ Len(<<>>) = 0
        BY <3>1
      <3> HIDE DEF v
      <3>5. Len(v) # 0
        BY <3>3, <3>4
      <3> QED BY <3>3, <3>4, <3>5
    <2> HIDE DEF v
    <2>5. SetEnvEx(e, n, c, inherit) = [var |-> V, nulls |-> e.nulls]
      BY <1>0, <2>1
    <2>6. V \in [Names -> Seq(Level)] /\ \A m \in Names : V[m] = IF m = n THEN v ELSE e.var[m]
      BY <1>0, <2>4
    <2> HIDE DEF V
    <2>7. \A m \in Names : m \in P <=> V[m] # <<>>
      BY <1>0, <2>3, <2>4, <2>6
    <2> QED BY <1>0, <1>1, <2>5, <2>6, <2>7, KeptIs
  <1>3. CASE ~Has(e, n)
    <2> DEFINE k == NullSlot(e)
               x == [content |-> c, inherit |-> IF k = 0 THEN inherit ELSE e.nulls[k] \/ inherit]
               w == IF k = 0 THEN e.nulls ELSE RemoveAt(e.nulls, k)
               V == [e.var EXCEPT ![n] = <<x>>]
    <2>1. k \in 0..Len(e.nulls) /\ (k = 0 => e.nulls = <<>>)
      BY NullSlotFacts DEF Fits
    <2>2. SetEnvEx(e, n, c, inherit) = [var |-> V, nulls |-> w]
      <3>1. CASE k = 0
        <4>1. SetEnvEx(e, n, c, inherit) = [e EXCEPT !.var[n] = <<x>>]
          BY <1>3, <3>1 DEF SetEnvEx
        <4>2. w = e.nulls
          BY <3>1
        <4> HIDE DEF x, w
        <4> QED BY <4>1, <4>2, <1>0
      <3>2. CASE k # 0
        <4>1. SetEnvEx(e, n, c, inherit) = [e EXCEPT !.var[n] = <<x>>, !.nulls = w]
          BY <1>3, <3>2 DEF SetEnvEx
        <4> HIDE DEF x, w
        <4> QED BY <4>1, <1>0
      <3> QED BY <3>1, <3>2
    <2>3. x \in Level
      <3>1. (IF k = 0 THEN inherit ELSE e.nulls[k] \/ inherit) \in BOOLEAN
        OBVIOUS
      <3> QED BY <3>1 DEF Level
    <2> HIDE DEF x
    <2>4. <<x>> \in Seq(Level) /\ <<x>> # <<>>
      BY <2>3
    <2>5. V \in [Names -> Seq(Level)] /\ \A m \in Names : V[m] = IF m = n THEN <<x>> ELSE e.var[m]
      BY <1>0, <2>4
    <2> HIDE DEF V
    <2>6. n \notin P
      BY <1>0, <1>3 DEF Has, NoVar
    <2>7. \A m \in Names : m \in P \cup {n} <=> V[m] # <<>>
      BY <1>0, <2>4, <2>5
    <2>8. /\ Cardinality(P \cup {n}) = Cardinality(P) + 1
          /\ P \cup {n} \in SUBSET Names /\ Cardinality(P \cup {n}) <= Cardinality(Names)
      BY <1>1, <2>6, NamesAreFew, FS_AddElement, FS_Subset
    <2>9. w \in Seq(BOOLEAN) /\ Len(w) + Cardinality(P \cup {n}) <= Len(Order)
      <3>1. CASE k = 0
        <4>1. w = <<>>
          BY <2>1, <3>1
        <4> HIDE DEF w
        <4>2. Len(w) = 0 /\ w \in Seq(BOOLEAN)
          BY <4>1
        <4> QED BY <4>2, <2>8, <1>1, NamesAreFew, PlaceFacts
      <3>2. CASE k # 0
        <4>0. w = RemoveAt(e.nulls, k)
          BY <3>2
        <4> HIDE DEF w, k
        <4> DEFINE low == SubSeq(e.nulls, 1, k - 1)
                   high == SubSeq(e.nulls, k + 1, Len(e.nulls))
        <4>1. k \in 1..Len(e.nulls) /\ w = low \o high
          BY <4>0, <2>1, <3>2, <1>0 DEF RemoveAt
        <4>2. low \in Seq(BOOLEAN) /\ high \in Seq(BOOLEAN) /\ Len(low) = k - 1 /\ Len(high) = Len(e.nulls) - k
          BY <4>1, <1>0
        <4> HIDE DEF low, high
        <4>3. w \in Seq(BOOLEAN) /\ Len(w) = Len(low) + Len(high)
          BY <4>1, <4>2, ConcatProperties, Zenon
        <4>4. Len(w) = Len(e.nulls) - 1
          BY <4>1, <4>2, <4>3, <1>0
        <4> QED BY <4>3, <4>4, <2>8, <1>0, <1>1, PlaceFacts
      <3> QED BY <3>1, <3>2
    <2> HIDE DEF w
    <2> QED BY <2>2, <2>5, <2>7, <2>8, <2>9, KeptIs
  <1> QED BY <1>2, <1>3

\* A deleted variable leaves its slot behind.
LEMMA DeleteKeeps ==
    ASSUME NEW e \in Fits, NEW S \in SUBSET Present(e)
    PROVE  Delete(e, S) \in Fits
  <1> DEFINE P == Present(e)
             c == Cardinality(S)
             freed == [i \in 1..c |-> Head(e.var[Sorted(S)[i]]).inherit]
             V == [n \in Names |-> IF n \in S THEN NoVar ELSE e.var[n]]
             w == IF nullsFirst THEN e.nulls \o freed ELSE freed \o e.nulls
  <1>0. /\ e.var \in [Names -> Seq(Level)] /\ e.nulls \in Seq(BOOLEAN) /\ Len(e.nulls) \in Nat
        /\ \A m \in Names : m \in P <=> e.var[m] # <<>>
    BY EnvIs DEF Fits
  <1>1. /\ P \in SUBSET Names /\ IsFiniteSet(P) /\ Cardinality(P) \in Nat
        /\ Len(e.nulls) + Cardinality(P) <= Len(Order)
    BY PresentFacts DEF Fits, Slots
  <1>2. Delete(e, S) = [var |-> V, nulls |-> w]
    BY DEF Delete
  <1>3. S \in SUBSET Names /\ S \in SUBSET P
    BY <1>1
  <1>4. c \in Nat /\ \A i \in 1..c : Sorted(S)[i] \in S
    BY <1>3, SortedFacts
  <1> HIDE DEF P, c
  <1>5. freed \in Seq(BOOLEAN) /\ Len(freed) = c
    <2>1. ASSUME NEW i \in 1..c PROVE Head(e.var[Sorted(S)[i]]).inherit \in BOOLEAN
      <3>1. PICK n \in S : n = Sorted(S)[i]
        BY <1>4
      <3>2. e.var[n] \in Seq(Level) /\ e.var[n] # <<>>
        BY <1>0, <1>3
      <3>3. Head(e.var[n]) \in Level
        BY <3>2
      <3>4. Head(e.var[n]).inherit \in BOOLEAN
        BY <3>3 DEF Level
      <3> QED BY <3>1, <3>4
    <2>2. freed \in [1..c -> BOOLEAN]
      BY <2>1
    <2> HIDE DEF freed
    <2> QED BY <1>4, <2>2
  <1> HIDE DEF freed
  <1>6. w \in Seq(BOOLEAN) /\ Len(w) = Len(e.nulls) + c
    <2>1. /\ e.nulls \o freed \in Seq(BOOLEAN) /\ Len(e.nulls \o freed) = Len(e.nulls) + c
          /\ freed \o e.nulls \in Seq(BOOLEAN) /\ Len(freed \o e.nulls) = c + Len(e.nulls)
      BY <1>0, <1>5, ConcatProperties, Zenon
    <2>2. c + Len(e.nulls) = Len(e.nulls) + c
      BY <1>0, <1>4
    <2> QED BY <2>1, <2>2, Zenon
  <1>7. V \in [Names -> Seq(Level)] /\ \A m \in Names : V[m] = IF m \in S THEN <<>> ELSE e.var[m]
    BY <1>0 DEF NoVar
  <1>8. \A m \in Names : m \in P \ S <=> V[m] # <<>>
    BY <1>0, <1>7
  <1>9. P \ S \in SUBSET Names /\ Cardinality(P \ S) = Cardinality(P) - c
    <2>1. P \cap S = S
      BY <1>3
    <2>2. Cardinality(P \ S) = Cardinality(P) - Cardinality(P \cap S)
      BY <1>1, FS_Difference
    <2> QED BY <2>1, <2>2, <1>1 DEF c
  <1> HIDE DEF V, w
  <1>10. Len(w) + Cardinality(P \ S) <= Len(Order)
    BY <1>0, <1>1, <1>4, <1>6, <1>9, PlaceFacts
  <1> QED BY <1>2, <1>6, <1>7, <1>8, <1>9, <1>10, KeptIs

\* What a step does to the values of the variables alone.
LEMMA SameVariables ==
    ASSUME NEW e \in Fits, NEW V \in [Names -> Seq(Level)],
           \A m \in Names : V[m] # <<>> <=> e.var[m] # <<>>
    PROVE  /\ \A w \in Seq(BOOLEAN) : Len(w) = Len(e.nulls) => [var |-> V, nulls |-> w] \in Fits
           /\ [e EXCEPT !.var = V] \in Fits
           /\ [e EXCEPT !.var = V].var = V
  <1>0. /\ e = [var |-> e.var, nulls |-> e.nulls]
        /\ e.nulls \in Seq(BOOLEAN)
        /\ \A m \in Names : m \in Present(e) <=> e.var[m] # <<>>
    BY EnvIs DEF Fits
  <1>1. Present(e) \in SUBSET Names /\ Len(e.nulls) + Cardinality(Present(e)) <= Len(Order)
    BY PresentFacts DEF Fits, Slots
  <1>2. \A w \in Seq(BOOLEAN) : Len(w) = Len(e.nulls) => [var |-> V, nulls |-> w] \in Fits
    BY <1>0, <1>1, KeptIs
  <1>3. [e EXCEPT !.var = V] = [var |-> V, nulls |-> e.nulls]
    BY <1>0
  <1> QED BY <1>0, <1>2, <1>3

LEMMA EnvDupKeeps ==
    ASSUME NEW e \in Fits
    PROVE  EnvDup(e) \in Fits
  <1> DEFINE x(n) == [content |-> GetEnv(e, n), inherit |-> FALSE]
             V == [n \in Names |-> IF Has(e, n) THEN <<x(n)>> ELSE NoVar]
             w == [i \in DOMAIN e.nulls |-> FALSE]
  <1>0. /\ e.var \in [Names -> Seq(Level)] /\ e.nulls \in Seq(BOOLEAN)
        /\ Len(e.nulls) \in Nat /\ DOMAIN e.nulls = 1..Len(e.nulls)
    BY EnvIs DEF Fits
  <1>1. EnvDup(e) = [var |-> V, nulls |-> w]
    BY DEF EnvDup
  <1>2. w \in Seq(BOOLEAN) /\ Len(w) = Len(e.nulls)
    <2>1. w \in [1..Len(e.nulls) -> BOOLEAN]
      BY <1>0
    <2> HIDE DEF w
    <2> QED BY <1>0, <2>1
  <1>3. ASSUME NEW n \in Names, Has(e, n) PROVE x(n) \in Level
    <2>1. e.var[n] \in Seq(Level) /\ e.var[n] # <<>>
      BY <1>0, <1>3 DEF Has, NoVar
    <2>2. Head(e.var[n]) \in Level
      BY <2>1
    <2>3. Head(e.var[n]).content \in Contents
      BY <2>2 DEF Level
    <2> QED BY <1>3, <2>3 DEF GetEnv, Level
  <1> HIDE DEF x, w
  <1>4. \A n \in Names : Has(e, n) => <<x(n)>> \in Seq(Level) /\ <<x(n)>> # <<>>
    BY <1>3
  <1>5. V \in [Names -> Seq(Level)]
    BY <1>4 DEF NoVar
  <1>6. \A m \in Names : V[m] # <<>> <=> e.var[m] # <<>>
    BY <1>4 DEF Has, NoVar
  <1> HIDE DEF V
  <1>7. \A u \in Seq(BOOLEAN) : Len(u) = Len(e.nulls) => [var |-> V, nulls |-> u] \in Fits
    BY <1>5, <1>6, SameVariables
  <1> QED BY <1>1, <1>2, <1>7

LEMMA PushEnvLocalsKeeps ==
    ASSUME NEW e \in Fits
    PROVE  PushEnvLocals(e) \in Fits
  <1> DEFINE x(n) == [content |-> GetEnv(e, n), inherit |-> FALSE]
             pushed(n) == <<x(n)>> \o e.var[n]
             V == [n \in Names |-> IF n \in Locals /\ Has(e, n) THEN pushed(n) ELSE e.var[n]]
  <1>0. e.var \in [Names -> Seq(Level)]
    BY EnvIs DEF Fits
  <1>1. PushEnvLocals(e) = IF FindsLocals(e) THEN [e EXCEPT !.var = V] ELSE e
    BY DEF PushEnvLocals
  <1>2. ASSUME NEW n \in Names, Has(e, n) PROVE pushed(n) \in Seq(Level) /\ pushed(n) # <<>>
    <2>1. e.var[n] \in Seq(Level) /\ e.var[n] # <<>>
      BY <1>0, <1>2 DEF Has, NoVar
    <2>2. Head(e.var[n]).content \in Contents
      <3>1. Head(e.var[n]) \in Level
        BY <2>1
      <3> QED BY <3>1 DEF Level
    <2>3. x(n) \in Level
      BY <1>2, <2>2 DEF GetEnv, Level
    <2> HIDE DEF x
    <2>4. <<x(n)>> \in Seq(Level) /\ Len(<<x(n)>>) = 1
      BY <2>3
    <2>5. pushed(n) \in Seq(Level) /\ Len(pushed(n)) = 1 + Len(e.var[n])
      BY <2>1, <2>4, ConcatProperties
    <2>6. Len(e.var[n]) \in Nat /\ Len(<<>>) = 0
      BY <2>1
    <2> HIDE DEF pushed
    <2>7. Len(pushed(n)) # 0
      BY <2>5, <2>6
    <2> QED BY <2>5, <2>6, <2>7
  <1> HIDE DEF pushed
  <1>3. V \in [Names -> Seq(Level)]
    BY <1>0, <1>2
  <1>4. \A m \in Names : V[m] # <<>> <=> e.var[m] # <<>>
    BY <1>2 DEF Has, NoVar
  <1> HIDE DEF V
  <1> QED BY <1>1, <1>3, <1>4, SameVariables

LEMMA PopLevelKeeps ==
    ASSUME NEW v \in Seq(Level), Len(v) > 1
    PROVE  PopLevel(v) \in Seq(Level) /\ PopLevel(v) # <<>>
  <1> DEFINE l == Len(v)
  <1>0. l \in Nat /\ l > 1 /\ v[1] \in Level
    <2>1. l \in Nat /\ l > 1
      OBVIOUS
    <2> HIDE DEF l
    <2>2. 1 \in 1..l
      BY <2>1
    <2> QED BY <2>1, <2>2 DEF l
  <1>1. /\ Tail(v) \in Seq(Level) /\ Len(Tail(v)) = l - 1
        /\ SubSeq(v, 3, l) \in Seq(Level) /\ Len(SubSeq(v, 3, l)) \in Nat
    <2>1. v # <<>>
      BY <1>0
    <2>2. Tail(v) \in Seq(Level) /\ Len(Tail(v)) = l - 1
      BY <2>1
    <2>3. SubSeq(v, 3, l) \in Seq(Level)
      BY <1>0
    <2> QED BY <2>2, <2>3
  <1> DEFINE outer == SubSeq(v, 3, l)
  <1>2. outer \in Seq(Level) /\ Len(outer) \in Nat
    BY <1>1
  <1>3. Len(<<>>) = 0
    OBVIOUS
  <1>4. CASE v[1].inherit
    <2> DEFINE top == <<v[1]>>
    <2>1. PopLevel(v) = top \o outer
      BY <1>4 DEF PopLevel
    <2>2. top \in Seq(Level) /\ Len(top) = 1
      BY <1>0
    <2> HIDE DEF top, outer
    <2>3. PopLevel(v) \in Seq(Level) /\ Len(PopLevel(v)) = 1 + Len(outer)
      BY <1>2, <2>1, <2>2, ConcatProperties, Zenon
    <2>4. Len(PopLevel(v)) # 0
      BY <1>2, <2>3
    <2> QED BY <2>3, <2>4, <1>3
  <1>5. CASE ~v[1].inherit
    <2>1. PopLevel(v) = Tail(v)
      BY <1>5 DEF PopLevel
    <2> HIDE DEF l
    <2>2. l - 1 # 0
      BY <1>0
    <2> QED BY <1>1, <1>3, <2>1, <2>2
  <1> QED BY <1>4, <1>5

LEMMA PopEnvLocalsKeeps ==
    ASSUME NEW e \in Fits
    PROVE  PopEnvLocals(e) \in Fits
  <1> DEFINE mine == {n \in Locals : Has(e, n)}
             gone == {n \in mine : Len(e.var[n]) = 1 /\ ~e.var[n][1].inherit}
             hides(n) == n \in mine /\ Len(e.var[n]) > 1
             V == [n \in Names |-> IF hides(n) THEN PopLevel(e.var[n]) ELSE e.var[n]]
             popped == [e EXCEPT !.var = V]
  <1>0. e.var \in [Names -> Seq(Level)]
    BY EnvIs DEF Fits
  <1>1. PopEnvLocals(e) = IF FindsLocals(e) THEN Delete(popped, gone) ELSE e
    BY DEF PopEnvLocals
  <1>2. gone \in SUBSET Names /\ \A n \in gone : e.var[n] # <<>>
    BY NamesAssumption DEF Has, NoVar
  <1>3. ASSUME NEW n \in Names, hides(n)
        PROVE  PopLevel(e.var[n]) \in Seq(Level) /\ PopLevel(e.var[n]) # <<>> /\ e.var[n] # <<>>
    <2>1. e.var[n] \in Seq(Level) /\ Len(e.var[n]) > 1 /\ Has(e, n)
      BY <1>0, <1>3
    <2> QED BY <2>1, PopLevelKeeps DEF Has, NoVar
  <1> HIDE DEF hides, gone
  <1>4. V \in [Names -> Seq(Level)]
    BY <1>0, <1>3
  <1>5. \A m \in Names : V[m] # <<>> <=> e.var[m] # <<>>
    BY <1>3
  <1> HIDE DEF V
  <1>6. popped \in Fits /\ popped.var = V
    BY <1>4, <1>5, SameVariables
  <1> HIDE DEF popped
  <1>7. gone \in SUBSET Present(popped)
    BY <1>2, <1>5, <1>6 DEF Present, Has, NoVar
  <1> QED BY <1>1, <1>6, <1>7, DeleteKeeps

-----------------------------------------------------------------------------
LEMMA TInvInit == Init => TInv
  <1> SUFFICES ASSUME Init PROVE TInv
    OBVIOUS
  <1>1. PICK S \in SUBSET Names, c \in Contents : env = InitEnv(S, c)
    BY DEF Init
  <1> DEFINE x == [content |-> c, inherit |-> FALSE]
             V == [n \in Names |-> IF n \in S THEN <<x>> ELSE NoVar]
  <1>2. env = [var |-> V, nulls |-> <<>>]
    BY <1>1 DEF InitEnv
  <1>3. x \in Level
    BY DEF Level
  <1> HIDE DEF x
  <1>4. <<x>> \in Seq(Level) /\ <<x>> # <<>>
    BY <1>3
  <1>5. V \in [Names -> Seq(Level)] /\ \A n \in Names : n \in S <=> V[n] # <<>>
    BY <1>4 DEF NoVar
  <1>6. Cardinality(S) \in Nat /\ Cardinality(S) <= Cardinality(Names)
    BY NamesAreFew, FS_Subset, FS_CardinalityType
  <1>7. <<>> \in Seq(BOOLEAN) /\ Len(<<>>) + Cardinality(S) <= Len(Order)
    BY <1>6, NamesAreFew, PlaceFacts
  <1> HIDE DEF V
  <1>8. env \in Fits
    BY <1>2, <1>5, <1>7, KeptIs
  <1>9. saved \in Seq([env: Fits, opts: Options])
    BY DEF Init
  <1> QED BY <1>8, <1>9 DEF Init, TInv

LEMMA TInvStep == TInv /\ [Next]_vars => TInv'
  <1> DEFINE Scope == [env: Fits, opts: Options]
  <1> SUFFICES ASSUME TInv, [Next]_vars PROVE TInv'
    OBVIOUS
  <1>0. /\ env \in Fits /\ saved \in Seq(Scope) /\ opts \in Options
        /\ nullsFirst \in BOOLEAN /\ unsure \in BOOLEAN
    BY DEF TInv
  <1>a. Fits' = Fits
    BY DEF Fits, Slots, Present, Has, Env, Level, NoVar
  <1>1. ASSUME NEW n \in Names, NEW c \in Contents, NEW inherit \in BOOLEAN, CmdSet(n, c, inherit)
        PROVE  TInv'
    <2>1. env' \in Fits
      BY <1>0, <1>1, SetEnvExKeeps DEF CmdSet
    <2>2. unsure' \in BOOLEAN
      BY <1>1 DEF CmdSet
    <2> QED BY <1>0, <1>1, <2>1, <2>2 DEF CmdSet, TInv
  <1>2. ASSUME NEW n \in Names, NEW blank \in BOOLEAN, CmdUnSet(n, blank)
        PROVE  TInv'
    <2>1. env' = UnSetEnv(env, n, blank)
      BY <1>2 DEF CmdUnSet
    <2>2. CASE ~blank /\ Len(env.var[n]) = 1
      <3>0. Len(<<>>) = 0
        OBVIOUS
      <3>1. env.var[n] # <<>>
        <4>1. env.var[n] = <<>> => Len(env.var[n]) = Len(<<>>)
          BY Zenon
        <4>2. Len(env.var[n]) = 1
          BY <2>2
        <4> QED BY <4>1, <4>2, <3>0
      <3>2. {n} \in SUBSET Present(env)
        BY <3>1 DEF Present, Has, NoVar
      <3>3. env' = Delete(env, {n})
        BY <2>1, <2>2 DEF UnSetEnv
      <3>4. env' \in Fits
        BY <1>0, <3>2, <3>3, DeleteKeeps
      <3> QED BY <1>0, <1>2, <3>4 DEF CmdUnSet, TInv
    <2>3. CASE ~(~blank /\ Len(env.var[n]) = 1)
      <3>1. env' = env
        BY <2>1, <2>3 DEF UnSetEnv
      <3> QED BY <1>0, <1>2, <3>1 DEF CmdUnSet, TInv
    <2> QED BY <2>2, <2>3
  <1>3. ASSUME NEW n \in Names, NEW answer \in Contents \cup {NoValue}, CmdSetP(n, answer)
        PROVE  TInv'
    BY <1>1, <1>2, <1>3 DEF CmdSetP
  <1>4. ASSUME NEW o \in Options, NEW push \in BOOLEAN, CmdSetLocal(o, push)
        PROVE  TInv'
    <2>1. CASE push
      <3> DEFINE s == [env |-> env, opts |-> o]
      <3>1. env' = EnvDup(env) /\ saved' = <<s>> \o saved /\ opts' = o
        BY <1>4, <2>1 DEF CmdSetLocal, PushEnvStack
      <3>2. env' \in Fits
        BY <1>0, <3>1, EnvDupKeeps
      <3>3. s \in Scope
        BY <1>0
      <3> HIDE DEF s, Scope
      <3>4. saved' \in Seq(Scope)
        BY <1>0, <3>1, <3>3
      <3> QED BY <1>0, <1>4, <3>1, <3>2, <3>4 DEF CmdSetLocal, TInv, Scope
    <2>2. CASE ~push
      BY <1>0, <1>4, <2>2 DEF CmdSetLocal, TInv
    <2> QED BY <2>1, <2>2
  <1>5. ASSUME CmdEndLocal PROVE TInv'
    <2>1. saved # <<>> /\ env' = Head(saved).env /\ opts' = Head(saved).opts /\ saved' = Tail(saved)
      BY <1>5 DEF CmdEndLocal, PopEnvStack
    <2>2. Head(saved) \in Scope /\ Tail(saved) \in Seq(Scope)
      <3> HIDE DEF Scope
      <3> QED BY <1>0, <2>1
    <2> QED BY <1>0, <1>5, <2>1, <2>2 DEF CmdEndLocal, TInv
  <1>6. ASSUME CallDef PROVE TInv'
    <2>1. env' \in Fits
      BY <1>0, <1>6, PushEnvLocalsKeeps DEF CallDef
    <2>2. unsure' \in BOOLEAN
      BY <1>6 DEF CallDef
    <2> QED BY <1>0, <1>6, <2>1, <2>2 DEF CallDef, TInv
  <1>7. ASSUME ReturnDef PROVE TInv'
    <2>1. env' \in Fits
      BY <1>0, <1>7, PopEnvLocalsKeeps DEF ReturnDef
    <2>2. unsure' \in BOOLEAN
      BY <1>7 DEF ReturnDef
    <2> QED BY <1>0, <1>7, <2>1, <2>2 DEF ReturnDef, TInv
  <1>8. CASE UNCHANGED vars
    BY <1>0, <1>8 DEF vars, TInv
  <1> QED BY <1>1, <1>2, <1>3, <1>4, <1>5, <1>6, <1>7, <1>8 DEF Next

LEMMA TInvTypes == TInv => TypeOK
  <1> SUFFICES ASSUME TInv PROVE TypeOK
    OBVIOUS
  <1>1. [env: Fits, opts: Options] \in SUBSET [env: Env, opts: Options]
    BY DEF Fits
  <1>2. saved \in Seq([env: Env, opts: Options])
    <2>1. \A S, T : S \in SUBSET T => Seq(S) \subseteq Seq(T)
      OBVIOUS
    <2> QED BY <1>1, <2>1 DEF TInv
  <1> QED BY <1>2 DEF TInv, TypeOK, Fits

\* Whatever is set, deleted, saved and brought back, and wherever the heap sorts the
\* slots without a name: bsearch finds one of them for every new variable, and so
\* there are never more slots than names, nor a flag that is none.
THEOREM TypeCorrect == Spec => []TypeOK
  BY TInvInit, TInvStep, TInvTypes, PTL DEF Spec
=============================================================================
