---------------------------- MODULE InterpProofs ----------------------------
(***************************************************************************)
(* Theorems about Interp, for every value of its constants: every script,  *)
(* of any length and nesting, and any number of handles.                   *)
(***************************************************************************)
EXTENDS Interp, TLAPS, FiniteSetTheorems, FunctionTheorems, WellFoundedInduction

-----------------------------------------------------------------------------
(* The inductive invariant.  TypeOK alone is not inductive: an action that *)
(* frees the list of a line, goes to the next node of one or returns to    *)
(* its caller must know that there is one.                                 *)

\* The calls that hold a pointer to a node of a line they are going to use.
NeedsNode(f) ==
    \/ f.fn = "RunParsedLine" /\ f.pc # "pop"
    \/ f.fn \in {"CmdIf", "CmdFor"}

FrameOK(f, ls) ==
    /\ f \in Frame
    /\ f.list <= Len(ls)
    /\ NeedsNode(f) => f.list \in DOMAIN ls /\ f.pos \in DOMAIN ls[f.list]
    /\ f.own => f.list \in DOMAIN ls
    /\ f.fn = "RunParsedLine" => f.list \in DOMAIN ls

\* A call that has started another one waits for it, a list outlives the calls
\* made since it was, and IF and FOR are called by RunParsedLine.
StackOK(fs, ls) ==
    /\ fs \in Seq(Frame)
    /\ \A i \in DOMAIN fs : FrameOK(fs[i], ls)
    /\ \A i \in DOMAIN fs : i > 1 => fs[i].pc \in {"ran", "pop"}
    /\ \A i, j \in DOMAIN fs : fs[i].own /\ i < j => fs[j].list < fs[i].list
    /\ \A i \in DOMAIN fs : fs[i].fn \in {"CmdIf", "CmdFor"} =>
         /\ i + 1 \in DOMAIN fs
         /\ fs[i + 1].fn = "RunParsedLine" /\ fs[i + 1].pc = "pop"

LinesOK == lines \in Seq(Seq(Node) \ {<<>>})

StreamsOK ==
    /\ stack \in Seq(Item)
    /\ cur \in [Channels -> Handles]
    /\ open \subseteq Handles
    /\ lost \in BOOLEAN

ControlOK ==
    /\ abort \in {"no", "line_end", "level"}
    /\ raised \in Nat
    /\ err \in {0, 1}
    /\ phase \in {"auto", "switch", "main", "exit"}

Inv == StreamsOK /\ ControlOK /\ LinesOK /\ StackOK(frames, lines)

LEMMA InvTypeOK == Inv => TypeOK
  <1> SUFFICES ASSUME Inv PROVE TypeOK
    OBVIOUS
  <1>1. lines \in Seq(Seq(Node))
    BY DEF Inv, LinesOK
  <1> QED BY <1>1 DEF Inv, TypeOK, StreamsOK, ControlOK, StackOK

-----------------------------------------------------------------------------
(* Lemmas on StackOK: what the changes of the call stack preserve. *)

LEMMA ReplaceTop ==
    ASSUME NEW fs, NEW ls, StackOK(fs, ls), fs # <<>>,
           NEW g, FrameOK(g, ls), g.own = fs[1].own, g.list = fs[1].list, g.fn = fs[1].fn
    PROVE  StackOK([fs EXCEPT ![1] = g], ls)
  <1> DEFINE new == [fs EXCEPT ![1] = g]
  <1>1. /\ fs \in Seq(Frame) /\ g \in Frame /\ 1 \in DOMAIN fs
        /\ new \in Seq(Frame) /\ DOMAIN new = DOMAIN fs
        /\ new[1] = g /\ \A i \in DOMAIN fs : i # 1 => new[i] = fs[i]
        /\ DOMAIN fs = 1 .. Len(fs) /\ Len(fs) \in Nat
    BY DEF StackOK, FrameOK
  <1>2. \A i \in DOMAIN new : FrameOK(new[i], ls)
    BY <1>1 DEF StackOK
  <1>3. \A i \in DOMAIN new : i > 1 => new[i].pc \in {"ran", "pop"}
    BY <1>1 DEF StackOK
  <1>4. \A i \in DOMAIN new : new[i].own = fs[i].own /\ new[i].list = fs[i].list
                                 /\ new[i].fn = fs[i].fn
    BY <1>1
  <1>5. \A i, j \in DOMAIN new : new[i].own /\ i < j => new[j].list < new[i].list
    BY <1>1, <1>4 DEF StackOK
  <1>6. \A i \in DOMAIN new : new[i].fn \in {"CmdIf", "CmdFor"} =>
         /\ i + 1 \in DOMAIN new
         /\ new[i + 1].fn = "RunParsedLine" /\ new[i + 1].pc = "pop"
    BY <1>1, <1>4 DEF StackOK
  <1> QED BY <1>1, <1>2, <1>3, <1>5, <1>6 DEF StackOK

LEMMA PushFrame ==
    ASSUME NEW fs, NEW ls, StackOK(fs, ls), fs # <<>>, fs[1].pc \in {"ran", "pop"},
           NEW g, FrameOK(g, ls),
           g.own => \A i \in DOMAIN fs : fs[i].list < g.list,
           g.fn \in {"CmdIf", "CmdFor"} => fs[1].fn = "RunParsedLine" /\ fs[1].pc = "pop"
    PROVE  StackOK(<<g>> \o fs, ls) /\ <<g>> \o fs # <<>> /\ (<<g>> \o fs)[1] = g
  <1> DEFINE new == <<g>> \o fs
  <1>1. /\ fs \in Seq(Frame) /\ g \in Frame /\ Len(fs) \in Nat /\ 1 \in DOMAIN fs
        /\ new \in Seq(Frame) /\ DOMAIN new = 1 .. (Len(fs) + 1)
        /\ new[1] = g /\ \A i \in DOMAIN new : i # 1 => i - 1 \in DOMAIN fs /\ new[i] = fs[i - 1]
        /\ DOMAIN fs = 1 .. Len(fs)
    BY DEF StackOK, FrameOK
  <1>2. \A i \in DOMAIN new : FrameOK(new[i], ls)
    BY <1>1 DEF StackOK
  <1>3. \A i \in DOMAIN new : i > 1 => new[i].pc \in {"ran", "pop"}
    <2> TAKE i \in DOMAIN new
    <2> HAVE i > 1
    <2>1. i - 1 \in DOMAIN fs /\ new[i] = fs[i - 1] /\ i \in Nat
      BY <1>1
    <2>2. CASE i = 2
      BY <2>1, <2>2
    <2>3. CASE i # 2
      <3>1. i - 1 > 1 BY <2>1, <2>3, <1>1
      <3> QED BY <3>1, <2>1 DEF StackOK
    <2> QED BY <2>2, <2>3
  <1>4. \A i, j \in DOMAIN new : new[i].own /\ i < j => new[j].list < new[i].list
    <2> TAKE i, j \in DOMAIN new
    <2> HAVE new[i].own /\ i < j
    <2>1. j - 1 \in DOMAIN fs /\ new[j] = fs[j - 1] /\ i \in Nat /\ j \in Nat /\ i >= 1
      BY <1>1
    <2>2. CASE i = 1
      BY <2>1, <2>2, <1>1
    <2>3. CASE i # 1
      <3>1. i - 1 \in DOMAIN fs /\ new[i] = fs[i - 1] /\ i - 1 < j - 1
        BY <2>1, <2>3, <1>1
      <3> QED BY <3>1, <2>1 DEF StackOK
    <2> QED BY <2>2, <2>3
  <1>5. \A i \in DOMAIN new : new[i].fn \in {"CmdIf", "CmdFor"} =>
         /\ i + 1 \in DOMAIN new
         /\ new[i + 1].fn = "RunParsedLine" /\ new[i + 1].pc = "pop"
    <2> TAKE i \in DOMAIN new
    <2> HAVE new[i].fn \in {"CmdIf", "CmdFor"}
    <2>1. CASE i = 1
      BY <2>1, <1>1
    <2>2. CASE i # 1
      <3>1. i - 1 \in DOMAIN fs /\ new[i] = fs[i - 1] /\ i \in Nat BY <2>2, <1>1
      <3>2. i \in DOMAIN fs /\ fs[i].fn = "RunParsedLine" /\ fs[i].pc = "pop"
        <4>1. (i - 1) + 1 = i BY <3>1
        <4> QED BY <3>1, <4>1 DEF StackOK
      <3>3. i \in 1 .. Len(fs) /\ (i + 1) - 1 = i /\ i + 1 # 1
        BY <3>1, <3>2, <1>1
      <3>4. i + 1 \in DOMAIN new
        <4>1. i + 1 \in 1 .. (Len(fs) + 1) BY <3>3, <1>1
        <4> QED BY <4>1, <1>1
      <3>5. new[i + 1] = fs[i]
        BY <3>3, <3>4, <1>1
      <3> QED BY <3>2, <3>4, <3>5
    <2> QED BY <2>1, <2>2
  <1> QED BY <1>1, <1>2, <1>3, <1>4, <1>5 DEF StackOK

LEMMA PopFrame ==
    ASSUME NEW fs, NEW ls, StackOK(fs, ls), fs # <<>>
    PROVE  /\ StackOK(Tail(fs), ls)
           /\ fs[1].own => \A i \in DOMAIN Tail(fs) : Tail(fs)[i].list < fs[1].list
  <1> DEFINE new == Tail(fs)
  <1>1. /\ fs \in Seq(Frame) /\ Len(fs) \in Nat /\ DOMAIN fs = 1 .. Len(fs) /\ 1 \in DOMAIN fs
        /\ new \in Seq(Frame) /\ DOMAIN new = 1 .. (Len(fs) - 1)
        /\ \A i \in DOMAIN new : i \in Nat /\ i + 1 \in DOMAIN fs /\ new[i] = fs[i + 1] /\ 1 < i + 1
    BY DEF StackOK
  <1>2. \A i \in DOMAIN new : FrameOK(new[i], ls) /\ new[i].pc \in {"ran", "pop"}
    BY <1>1 DEF StackOK
  <1>3. \A i, j \in DOMAIN new : new[i].own /\ i < j => new[j].list < new[i].list
    <2> TAKE i, j \in DOMAIN new
    <2> HAVE new[i].own /\ i < j
    <2>1. i + 1 < j + 1 BY <1>1
    <2> QED BY <1>1, <2>1 DEF StackOK
  <1>4. \A i \in DOMAIN new : new[i].fn \in {"CmdIf", "CmdFor"} =>
         /\ i + 1 \in DOMAIN new
         /\ new[i + 1].fn = "RunParsedLine" /\ new[i + 1].pc = "pop"
    <2> TAKE i \in DOMAIN new
    <2> HAVE new[i].fn \in {"CmdIf", "CmdFor"}
    <2>1. /\ (i + 1) + 1 \in DOMAIN fs
          /\ fs[(i + 1) + 1].fn = "RunParsedLine" /\ fs[(i + 1) + 1].pc = "pop"
      BY <1>1 DEF StackOK
    <2>2. i + 1 \in DOMAIN new /\ new[i + 1] = fs[(i + 1) + 1]
      BY <2>1, <1>1
    <2> QED BY <2>1, <2>2
  <1>5. fs[1].own => \A i \in DOMAIN new : new[i].list < fs[1].list
    BY <1>1 DEF StackOK
  <1> QED BY <1>1, <1>2, <1>3, <1>4, <1>5 DEF StackOK

\* A line list can be replaced by another that keeps, for the calls that are
\* left, the nodes they point to.
LEMMA ChangeLines ==
    ASSUME NEW fs, NEW ls, StackOK(fs, ls), NEW new,
           \A i \in DOMAIN fs :
               /\ fs[i].list <= Len(new)
               /\ fs[i].list \in DOMAIN ls =>
                    /\ fs[i].list \in DOMAIN new
                    /\ DOMAIN new[fs[i].list] = DOMAIN ls[fs[i].list]
    PROVE  StackOK(fs, new)
  <1>1. \A i \in DOMAIN fs : FrameOK(fs[i], new)
    <2> TAKE i \in DOMAIN fs
    <2>1. FrameOK(fs[i], ls) BY DEF StackOK
    <2> QED BY <2>1 DEF FrameOK
  <1> QED BY <1>1 DEF StackOK

-----------------------------------------------------------------------------
(* Lemmas on the streams. *)

LEMMA LockType ==
    ASSUME NEW s \in Seq(Item), NEW b \in BOOLEAN
    PROVE  SetLock(s, b) \in Seq(Item) /\ Locked(s) \in BOOLEAN
  <1>1. CASE s = <<>>
    BY <1>1 DEF SetLock, Locked
  <1>2. CASE s # <<>>
    <2>1. Head(s) = s[1] /\ s[1] \in Item /\ 1 \in DOMAIN s
      BY <1>2
    <2>2. [s[1] EXCEPT !.locked = b] \in Item /\ s[1].locked \in BOOLEAN
      BY <2>1 DEF Item
    <2>3. SetLock(s, b) = [s EXCEPT ![1] = [s[1] EXCEPT !.locked = b]]
      BY <1>2, <2>1 DEF SetLock
    <2>4. SetLock(s, b) \in Seq(Item)
      BY <2>1, <2>2, <2>3
    <2> QED BY <1>2, <2>1, <2>2, <2>4 DEF Locked
  <1> QED BY <1>1, <1>2

LEMMA OpenType ==
    ASSUME StreamsOK, NEW s \in Seq(Item), NEW ch \in Channels, NEW subst,
           OpenOutputF(s, ch, subst)
    PROVE  StreamsOK'
  <1>1. NewHandle \in Handles
    BY DEF OpenOutputF, NoHandle, NewHandle
  <1>2. stack' \in Seq(Item)
    <2> DEFINE it == [chan |-> ch, old |-> cur[ch], locked |-> FALSE,
                      sub |-> IF CopiesToErr(ch, subst) THEN cur["err"] ELSE NoFile]
    <2>1. it \in Item
      BY DEF StreamsOK, Item, Channels
    <2>2. <<it>> \o s \in Seq(Item)
      BY <2>1
    <2> QED BY <2>2 DEF OpenOutputF, PushItem
  <1>3. cur' \in [Channels -> Handles]
    BY <1>1 DEF OpenOutputF, Redirected, StreamsOK
  <1> QED BY <1>1, <1>2, <1>3 DEF OpenOutputF, StreamsOK

LEMMA PopStreamType ==
    ASSUME StreamsOK, stack # <<>>, PopStreamStack
    PROVE  StreamsOK'
  <1>1. Head(stack) \in Item /\ Tail(stack) \in Seq(Item)
    BY DEF StreamsOK
  <1>2. Undone(Head(stack)) \in [Channels -> Handles]
    BY <1>1 DEF Undone, StreamsOK, Item
  <1> QED BY <1>1, <1>2 DEF PopStreamStack, StreamsOK, Closed

LEMMA CallType ==
    ASSUME StreamsOK, NEW fn \in Functions, NEW pc \in Points, NEW list \in Nat, NEW pos \in Nat
    PROVE  Call(fn, pc, list, pos) \in Frame
  <1>1. Locked(stack) \in BOOLEAN
    BY LockType DEF StreamsOK
  <1> QED BY <1>1 DEF Call, Frame, StreamsOK

LEMMA BatchLevelType ==
    ASSUME StackOK(frames, lines)
    PROVE  BatchLevel \in Nat
  <1> DEFINE batches == {i \in DOMAIN frames : frames[i].fn = "RunBatch"}
  <1>1. DOMAIN frames = 1 .. Len(frames) /\ Len(frames) \in Nat
    BY DEF StackOK
  <1>2. IsFiniteSet(1 .. Len(frames))
    BY <1>1, FS_Interval
  <1>3. IsFiniteSet(batches)
    BY <1>1, <1>2, FS_Subset
  <1> QED BY <1>3, FS_CardinalityType DEF BatchLevel

\* ExecOperators finds the end of every pipe it starts.
LEMMA PipeEndType ==
    ASSUME Inv, Running("RunParsedLine", "ops")
    PROVE  PipeEnd \in Top.pos .. Len(Nodes)
  <1> DEFINE ends == {k \in Top.pos .. Len(Nodes) :
                        k = Len(Nodes) \/ Nodes[k + 1].link # "pipe"}
  <1>1. Top.list \in DOMAIN lines /\ Top.pos \in 1 .. Len(Nodes) /\ Len(Nodes) \in Nat
    <2>1. Top = frames[1] /\ 1 \in DOMAIN frames
      BY DEF Running, Top, Inv, StackOK
    <2>2. FrameOK(Top, lines) /\ NeedsNode(Top)
      BY <2>1 DEF Inv, StackOK, Running, NeedsNode, Top
    <2>3. Nodes \in Seq(Node) /\ Top.list \in DOMAIN lines
      BY <2>2 DEF Inv, LinesOK, FrameOK, Nodes
    <2> QED BY <2>2, <2>3 DEF FrameOK, Nodes
  <1>2. Len(Nodes) \in ends
    BY <1>1
  <1>3. PICK k \in ends : \A j \in ends : ~(j < k)
    <2>1. ends \subseteq Nat /\ ends # {}
      BY <1>1, <1>2
    <2>2. PICK k \in ends : \A j \in ends : <<j, k>> \notin OpToRel(<, Nat)
      BY <2>1, NatLessThanWellFounded, WFMin
    <2> QED BY <2>1, <2>2 DEF OpToRel
  <1>4. \A i \in (Top.pos + 1) .. k : Nodes[i].link = "pipe"
    <2> TAKE i \in (Top.pos + 1) .. k
    <2>1. /\ i - 1 \in Top.pos .. Len(Nodes) /\ i - 1 < k /\ i - 1 # Len(Nodes)
          /\ (i - 1) + 1 = i
      BY <1>1
    <2> QED BY <2>1, <1>3
  <1> QED BY <1>3, <1>4 DEF PipeEnd

-----------------------------------------------------------------------------
(* Lemmas on the top of the stack and on the lines. *)

LEMMA TopFacts ==
    ASSUME Inv, frames # <<>>
    PROVE  /\ Top = frames[1] /\ 1 \in DOMAIN frames
           /\ Top \in Frame /\ FrameOK(Top, lines)
           /\ NeedsNode(Top) => Current \in Node /\ Nodes \in Seq(Node) /\ Top.pos \in 1 .. Len(Nodes)
  <1>1. Top = frames[1] /\ 1 \in DOMAIN frames
    BY DEF Top, Inv, StackOK
  <1>2. FrameOK(Top, lines) /\ Top \in Frame
    BY <1>1 DEF Inv, StackOK, FrameOK
  <1>3. NeedsNode(Top) => Nodes \in Seq(Node) /\ Top.pos \in DOMAIN Nodes
    BY <1>2 DEF FrameOK, Inv, LinesOK, Nodes
  <1> QED BY <1>1, <1>2, <1>3 DEF Current

\* The call at the top goes to another point of its function.
LEMMA AtOK ==
    ASSUME Inv, frames # <<>>, NEW pc \in Points,
           pc = "pop" \/ NeedsNode(Top) \/ Top.fn # "RunParsedLine"
    PROVE  /\ StackOK(At(pc), lines) /\ At(pc) # <<>>
           /\ At(pc)[1] = [Top EXCEPT !.pc = pc]
           /\ \A i \in DOMAIN At(pc) : At(pc)[i].list <= Len(lines)
  <1> DEFINE g == [Top EXCEPT !.pc = pc]
  <1>1. /\ Top = frames[1] /\ 1 \in DOMAIN frames /\ Top \in Frame /\ FrameOK(Top, lines)
        /\ frames \in Seq(Frame) /\ StackOK(frames, lines)
    BY TopFacts DEF Inv, StackOK
  <1>2. At(pc) = [frames EXCEPT ![1] = g]
    BY <1>1 DEF At
  <1>3. /\ g \in Frame /\ g.own = Top.own /\ g.list = Top.list /\ g.fn = Top.fn
        /\ g.pos = Top.pos /\ g.pc = pc
    BY <1>1 DEF Frame
  <1>4. FrameOK(g, lines)
    BY <1>1, <1>3 DEF FrameOK, NeedsNode
  <1>5. StackOK(At(pc), lines)
    <2> HIDE DEF g
    <2>1. StackOK([frames EXCEPT ![1] = g], lines)
      BY <1>1, <1>3, <1>4, ReplaceTop
    <2> QED BY <2>1, <1>2
  <1>6. At(pc) # <<>> /\ At(pc)[1] = g
    BY <1>1, <1>2
  <1>7. \A i \in DOMAIN At(pc) : At(pc)[i].list <= Len(lines)
    BY <1>5 DEF StackOK, FrameOK
  <1> QED BY <1>5, <1>6, <1>7

\* RunLine frees the list it made after the calls that used it.
LEMMA ShrinkLines ==
    ASSUME NEW fs, StackOK(fs, lines), LinesOK, NEW n \in DOMAIN lines,
           \A i \in DOMAIN fs : fs[i].list < n
    PROVE  /\ SubSeq(lines, 1, n - 1) \in Seq(Seq(Node) \ {<<>>})
           /\ StackOK(fs, SubSeq(lines, 1, n - 1))
  <1> DEFINE new == SubSeq(lines, 1, n - 1)
  <1>1. /\ new \in Seq(Seq(Node) \ {<<>>}) /\ Len(new) = n - 1 /\ n \in Nat /\ n > 0
        /\ DOMAIN new = 1 .. (n - 1) /\ \A i \in 1 .. (n - 1) : new[i] = lines[i]
        /\ DOMAIN lines = 1 .. Len(lines)
    BY DEF LinesOK
  <1> HIDE DEF new
  <1>2. ASSUME NEW i \in DOMAIN fs
        PROVE  /\ fs[i].list <= Len(new)
               /\ fs[i].list \in DOMAIN lines =>
                    /\ fs[i].list \in DOMAIN new
                    /\ DOMAIN new[fs[i].list] = DOMAIN lines[fs[i].list]
    <2>1. fs[i] \in Frame /\ fs[i].list < n
      BY DEF StackOK, FrameOK
    <2>2. fs[i].list \in Nat
      BY <2>1 DEF Frame
    <2>3. fs[i].list <= n - 1
      BY <2>1, <2>2, <1>1
    <2>4. fs[i].list \in DOMAIN lines => fs[i].list \in 1 .. (n - 1)
      BY <2>2, <2>3, <1>1
    <2> QED BY <2>3, <2>4, <1>1
  <1>3. StackOK(fs, new)
    BY <1>2, ChangeLines
  <1> QED BY <1>1, <1>3 DEF new

LEMMA AppendLine ==
    ASSUME NEW fs, StackOK(fs, lines), LinesOK, NEW l \in Seq(Node) \ {<<>>}
    PROVE  /\ Append(lines, l) \in Seq(Seq(Node) \ {<<>>})
           /\ Len(Append(lines, l)) = Len(lines) + 1
           /\ Append(lines, l)[Len(lines) + 1] = l
           /\ StackOK(fs, Append(lines, l))
  <1> DEFINE new == Append(lines, l)
  <1>1. /\ new \in Seq(Seq(Node) \ {<<>>}) /\ Len(new) = Len(lines) + 1 /\ Len(lines) \in Nat
        /\ new[Len(lines) + 1] = l /\ \A i \in DOMAIN lines : i \in DOMAIN new /\ new[i] = lines[i]
    BY DEF LinesOK
  <1> HIDE DEF new
  <1>2. ASSUME NEW i \in DOMAIN fs
        PROVE  /\ fs[i].list <= Len(new)
               /\ fs[i].list \in DOMAIN lines =>
                    /\ fs[i].list \in DOMAIN new
                    /\ DOMAIN new[fs[i].list] = DOMAIN lines[fs[i].list]
    <2>1. fs[i] \in Frame /\ fs[i].list <= Len(lines)
      BY DEF StackOK, FrameOK
    <2>2. fs[i].list \in Nat
      BY <2>1 DEF Frame
    <2> QED BY <2>1, <2>2, <1>1
  <1>3. StackOK(fs, new)
    BY <1>2, ChangeLines
  <1> QED BY <1>1, <1>3 DEF new

LEMMA LookaheadLines ==
    ASSUME Inv, frames # <<>>, NeedsNode(Top), NEW fs, StackOK(fs, lines)
    PROVE  /\ MakeLookahead \in Seq(Seq(Node) \ {<<>>})
           /\ StackOK(fs, MakeLookahead)
           /\ Len(MakeLookahead) = Len(lines)
           /\ Top.list \in DOMAIN MakeLookahead
           /\ Top.pos \in DOMAIN MakeLookahead[Top.list]
  <1> DEFINE l == Top.list
             nodes == [lines[l] EXCEPT ![Top.pos] = [Current EXCEPT !.cmd = "block"]]
  <1>1. /\ l \in DOMAIN lines /\ Top.pos \in DOMAIN lines[l] /\ Current \in Node
        /\ lines \in Seq(Seq(Node) \ {<<>>}) /\ Current = lines[l][Top.pos]
    BY TopFacts DEF FrameOK, Inv, LinesOK, Current, Nodes
  <1>2. MakeLookahead = [lines EXCEPT ![l] = nodes]
    BY <1>1 DEF MakeLookahead
  <1>3. [Current EXCEPT !.cmd = "block"] \in Node
    BY <1>1 DEF Node, Commands
  <1>4. nodes \in Seq(Node) \ {<<>>} /\ DOMAIN nodes = DOMAIN lines[l]
    BY <1>1, <1>3
  <1>5. /\ MakeLookahead \in Seq(Seq(Node) \ {<<>>}) /\ Len(MakeLookahead) = Len(lines)
        /\ DOMAIN MakeLookahead = DOMAIN lines
        /\ \A i \in DOMAIN lines : DOMAIN MakeLookahead[i] = DOMAIN lines[i]
    BY <1>1, <1>2, <1>4
  <1>6. StackOK(fs, MakeLookahead)
    <2>1. \A i \in DOMAIN fs : fs[i].list <= Len(lines)
      BY DEF StackOK, FrameOK
    <2>2. ASSUME NEW i \in DOMAIN fs
          PROVE  /\ fs[i].list <= Len(MakeLookahead)
                 /\ fs[i].list \in DOMAIN lines =>
                      /\ fs[i].list \in DOMAIN MakeLookahead
                      /\ DOMAIN MakeLookahead[fs[i].list] = DOMAIN lines[fs[i].list]
      BY <1>5, <2>1
    <2> QED BY <2>2, ChangeLines
  <1> QED BY <1>1, <1>5, <1>6

-----------------------------------------------------------------------------
(* Lemmas on the calls that are made. *)

LEMMA FirstFrame ==
    ASSUME NEW g, NEW ls, FrameOK(g, ls), g.fn \notin {"CmdIf", "CmdFor"}
    PROVE  StackOK(<<g>>, ls)
  <1>1. g \in Frame
    BY DEF FrameOK
  <1>2. <<g>> \in Seq(Frame) /\ DOMAIN <<g>> = {1} /\ <<g>>[1] = g
    BY <1>1
  <1> QED BY <1>2 DEF StackOK

LEMMA PlainCallOK ==
    ASSUME StreamsOK, LinesOK, NEW fn \in {"RunBatch", "RunBlock", "CmdCallFile"}, NEW pc \in Points
    PROVE  /\ FrameOK(PlainCall(fn, pc), lines)
           /\ ~PlainCall(fn, pc).own /\ PlainCall(fn, pc).fn = fn /\ PlainCall(fn, pc).pc = pc
  <1>1. PlainCall(fn, pc) \in Frame
    BY CallType DEF PlainCall, Functions
  <1>2. /\ PlainCall(fn, pc).fn = fn /\ ~PlainCall(fn, pc).own
        /\ PlainCall(fn, pc).list = 0 /\ PlainCall(fn, pc).pc = pc
    BY DEF PlainCall, Call
  <1>3. Len(lines) \in Nat
    BY DEF LinesOK
  <1> QED BY <1>1, <1>2, <1>3 DEF FrameOK, NeedsNode

LEMMA LookaheadCallOK ==
    ASSUME Inv, frames # <<>>, NeedsNode(Top),
           NEW fn \in {"CmdIf", "CmdFor", "RunParsedLine"}, NEW pc \in Points
    PROVE  /\ FrameOK(LookaheadCall(fn, pc), lines) /\ ~LookaheadCall(fn, pc).own
           /\ LookaheadCall(fn, pc).fn = fn /\ LookaheadCall(fn, pc).pc = pc
  <1>1. Top \in Frame /\ FrameOK(Top, lines)
    BY TopFacts
  <1>2. Top.list \in Nat /\ Top.pos \in Nat
    BY <1>1 DEF Frame
  <1>3. LookaheadCall(fn, pc) \in Frame
    BY <1>2, CallType DEF LookaheadCall, Functions, Inv
  <1>4. /\ LookaheadCall(fn, pc).fn = fn /\ ~LookaheadCall(fn, pc).own
        /\ LookaheadCall(fn, pc).list = Top.list /\ LookaheadCall(fn, pc).pos = Top.pos
        /\ LookaheadCall(fn, pc).pc = pc
    BY DEF LookaheadCall, Call
  <1>5. Top.list \in DOMAIN lines /\ Top.pos \in DOMAIN lines[Top.list] /\ Top.list <= Len(lines)
    BY <1>1 DEF FrameOK
  <1> QED BY <1>3, <1>4, <1>5 DEF FrameOK

\* RunLine makes a list and runs it, whatever was running before.
LEMMA LineCallOK ==
    ASSUME StreamsOK, LinesOK, NEW l \in Seq(Node) \ {<<>>}
    PROVE  /\ FrameOK(LineCall, Append(lines, l))
           /\ LineCall.own /\ LineCall.fn = "RunParsedLine" /\ LineCall.list = Len(lines) + 1
  <1> DEFINE new == Append(lines, l)
  <1>1. Len(lines) \in Nat /\ Len(new) = Len(lines) + 1 /\ new[Len(lines) + 1] = l
        /\ Len(lines) + 1 \in DOMAIN new /\ 1 \in DOMAIN l
    BY DEF LinesOK
  <1>2. Call("RunParsedLine", "ops", Len(lines) + 1, 1) \in Frame
    BY <1>1, CallType DEF Functions, Points
  <1>3. /\ LineCall \in Frame /\ LineCall.own /\ LineCall.fn = "RunParsedLine"
        /\ LineCall.list = Len(lines) + 1 /\ LineCall.pos = 1
    BY <1>2 DEF LineCall, Frame, Call
  <1> HIDE DEF new
  <1>4. FrameOK(LineCall, new)
    BY <1>1, <1>3 DEF FrameOK
  <1> QED BY <1>3, <1>4 DEF new

LEMMA PushLine ==
    ASSUME StreamsOK, LinesOK, NEW fs, StackOK(fs, lines), fs # <<>>,
           fs[1].pc \in {"ran", "pop"}, NEW l \in Seq(Node) \ {<<>>}
    PROVE  StackOK(<<LineCall>> \o fs, Append(lines, l))
  <1>1. StackOK(fs, Append(lines, l))
    BY AppendLine
  <1>2. \A i \in DOMAIN fs : fs[i].list < Len(lines) + 1
    <2> TAKE i \in DOMAIN fs
    <2>1. fs[i].list \in Nat /\ fs[i].list <= Len(lines) /\ Len(lines) \in Nat
      BY DEF StackOK, FrameOK, Frame, LinesOK
    <2> QED BY <2>1
  <1> QED BY <1>1, <1>2, LineCallOK, PushFrame

-----------------------------------------------------------------------------
(* Every step preserves the part of the invariant about the streams. *)

KeepsStreams ==
    \/ GetLine \/ EndOfBatch \/ BatchLineRan
    \/ PipeFails \/ StartCommand
    \/ RunProc \/ CmdGoto \/ CmdGotoNoLabel \/ CmdGotoEof \/ CmdExitB \/ CmdExit
    \/ RunBlockLine \/ BlockLineRan
    \/ CmdIfTrue \/ CmdIfElse \/ CmdIfNothing \/ CmdIfBadOperator \/ CmdIfRan
    \/ CmdFor \/ CmdForError \/ CmdForBadInput \/ ForIterate \/ ForIterated \/ EndOfFor
    \/ CmdFails
    \/ RunSwitchLine \/ RunScript \/ MainEnds \/ Exited

MovesLock ==
    \/ ExecOperators \/ FinishNode
    \/ CmdBlock \/ EndOfBlock
    \/ CmdCallFile \/ CallReturns

LEMMA KeepsStreamsOK == KeepsStreams => UNCHANGED streamVars
    BY DEF KeepsStreams, vars, streamVars, GetLine, RunLine, EndOfBatch, BatchLineRan, PipeFails,
           StartCommand, RunProc, CmdGoto, CmdGotoNoLabel, CmdGotoEof, CmdExitB, CmdExit, Raise,
           RunBlockLine, BlockLineRan, CmdIfTrue, CmdIfElse, CmdIfNothing, CmdIfBadOperator,
           CmdIfRan, CmdFor, CmdForError, CmdForBadInput, ForIterate, ForIterated, EndOfFor,
           CmdFails,
           RunSwitchLine, RunScript, MainEnds, Exited

LEMMA MovesLockOK ==
    ASSUME Inv, MovesLock
    PROVE  /\ \E b \in BOOLEAN : stack' = SetLock(stack, b)
           /\ UNCHANGED <<cur, open, lost>>
  <1>1. frames # <<>>
    BY DEF MovesLock, ExecOperators, FinishNode, CmdBlock, EndOfBlock, CmdCallFile, CallReturns,
           Command, Running
  <1>2. Top.lock \in BOOLEAN
    BY <1>1, TopFacts DEF Frame
  <1>3. stack' = SetLock(stack, TRUE) \/ stack' = SetLock(stack, Top.lock)
    BY DEF MovesLock, ExecOperators, FinishNode, CmdBlock, EndOfBlock, CmdCallFile, CallReturns
  <1>4. UNCHANGED <<cur, open, lost>>
    BY DEF MovesLock, ExecOperators, FinishNode, CmdBlock, EndOfBlock, CmdCallFile, CallReturns
  <1> QED BY <1>2, <1>3, <1>4

LEMMA NextChannelType ==
    ASSUME Inv, frames # <<>>, Top.todo # {}
    PROVE  NextChannel \in Channels
  <1>1. Top.todo \subseteq Channels
    BY TopFacts DEF Frame
  <1>2. \E c \in Top.todo : \/ c = "in"
                            \/ c = "out" /\ "in" \notin Top.todo
                            \/ Top.todo = {c}
    BY <1>1 DEF Channels
  <1> QED BY <1>1, <1>2 DEF NextChannel

LEMMA StreamsStep ==
    ASSUME Inv, Next
    PROVE  StreamsOK'
  <1>0. StreamsOK
    BY DEF Inv
  <1>1. CASE KeepsStreams
    BY <1>0, <1>1, KeepsStreamsOK DEF streamVars, StreamsOK
  <1>2. CASE MovesLock
    BY <1>0, <1>2, MovesLockOK, LockType DEF StreamsOK
  <1>3. CASE LaunchPipe
    <2>1. SetLock(stack, TRUE) \in Seq(Item)
      BY <1>0, LockType DEF StreamsOK
    <2>2. "in" \in Channels
      BY DEF Channels
    <2>3. OpenOutputF(SetLock(stack, TRUE), "in", "none")
      BY <1>3 DEF LaunchPipe
    <2> QED BY <1>0, <2>1, <2>2, <2>3, OpenType
  <1>4. CASE ExecOutput
    <2>1. CASE OpenOutputF(stack, NextChannel, Current.subst)
      <3>1. NextChannel \in Channels
        BY <1>4, NextChannelType DEF ExecOutput, Running
      <3>2. stack \in Seq(Item)
        BY <1>0 DEF StreamsOK
      <3> QED BY <1>0, <2>1, <3>1, <3>2, OpenType
    <2>2. CASE OpenOutputFails
      BY <1>0, <2>2 DEF OpenOutputFails, StreamsOK
    <2> QED BY <1>4, <2>1, <2>2 DEF ExecOutput
  <1>5. CASE PopUntilLock
    <2>1. stack # <<>> /\ PopStreamStack
      BY <1>5 DEF PopUntilLock, Locked
    <2> QED BY <1>0, <2>1, PopStreamType
  <1>6. CASE FreeStreamStack
    BY <1>0, <1>6, PopStreamType DEF FreeStreamStack
  <1> QED BY <1>1, <1>2, <1>3, <1>4, <1>5, <1>6 DEF Next, KeepsStreams, MovesLock

-----------------------------------------------------------------------------
(* Every step preserves the part of the invariant about the control. *)

LEMMA RaiseType ==
    ASSUME Inv, NEW kind \in {"line_end", "level"}, Raise(kind), Current.cmd \in Commands
    PROVE  /\ abort' \in {"no", "line_end", "level"}
           /\ raised' \in Nat
           /\ phase' = phase
  <1>1. BatchLevel \in Nat
    BY BatchLevelType DEF Inv
  <1> QED BY <1>1 DEF Raise

LEMMA ControlStep ==
    ASSUME Inv, Next
    PROVE  ControlOK'
  <1>0. ControlOK
    BY DEF Inv
  <1>1. CASE CmdGoto
    BY <1>0, <1>1, RaiseType DEF CmdGoto, Command, ControlOK, Commands, Simple
  <1>2. CASE CmdGotoEof
    BY <1>0, <1>2, RaiseType DEF CmdGotoEof, Command, ControlOK, Commands, Simple
  <1>3. CASE CmdExitB
    BY <1>0, <1>3, RaiseType DEF CmdExitB, Command, ControlOK, Commands, Simple
  <1>4. CASE \/ BatchLineRan \/ BlockLineRan \/ CallReturns
    BY <1>0, <1>4 DEF ControlOK, BatchLineRan, BlockLineRan, CallReturns
  <1>5. CASE \/ RunProc \/ CmdGotoNoLabel \/ CmdIfNothing \/ CmdIfBadOperator \/ CmdIfRan
             \/ CmdForError \/ CmdForBadInput \/ EndOfFor \/ CmdFails
    BY <1>0, <1>5 DEF ControlOK, abortVars, RunProc, CmdGotoNoLabel, CmdIfNothing,
           CmdIfBadOperator, CmdIfRan, CmdForError, CmdForBadInput, EndOfFor, CmdFails
  <1>6. CASE \/ GetLine \/ EndOfBatch
             \/ ExecOperators \/ LaunchPipe \/ PipeFails \/ ExecOutput \/ StartCommand
             \/ PopUntilLock \/ FinishNode
             \/ CmdExit \/ CmdBlock \/ RunBlockLine \/ EndOfBlock
             \/ CmdIfTrue \/ CmdIfElse \/ CmdFor \/ ForIterate \/ ForIterated
             \/ CmdCallFile \/ RunSwitchLine \/ RunScript \/ MainEnds \/ FreeStreamStack \/ Exited
    BY <1>0, <1>6 DEF ControlOK, abortVars, vars, GetLine, RunLine, EndOfBatch, ExecOperators,
           LaunchPipe, PipeFails, ExecOutput, StartCommand, PopUntilLock, FinishNode, CmdExit,
           CmdBlock, RunBlockLine, EndOfBlock, CmdIfTrue, CmdIfElse, CmdFor, ForIterate,
           ForIterated, CmdCallFile, RunSwitchLine, RunScript, MainEnds, FreeStreamStack, Exited
  <1> QED BY <1>1, <1>2, <1>3, <1>4, <1>5, <1>6 DEF Next

-----------------------------------------------------------------------------
(* Every step preserves the part of the invariant about the calls and the  *)
(* lines.  One lemma for each way of changing the call stack.              *)

CallsOK == LinesOK /\ StackOK(frames, lines)

LEMMA StepRunLine ==
    ASSUME Inv, frames # <<>>, Top.fn # "RunParsedLine", RunLine
    PROVE  CallsOK'
  <1>1. PICK l \in Lines : frames' = <<LineCall>> \o At("ran") /\ lines' = Append(lines, l)
    BY DEF RunLine, Allowed
  <1>2. l \in Seq(Node) \ {<<>>}
    BY LinesAssumption
  <1>3. StackOK(At("ran"), lines) /\ At("ran") # <<>> /\ At("ran")[1].pc = "ran"
    <2>1. Top \in Frame
      BY TopFacts
    <2> QED BY <2>1, AtOK DEF Points, Frame
  <1>4. StackOK(<<LineCall>> \o At("ran"), Append(lines, l))
    BY <1>2, <1>3, PushLine DEF Inv
  <1>5. Append(lines, l) \in Seq(Seq(Node) \ {<<>>})
    BY <1>2, AppendLine DEF Inv
  <1> QED BY <1>1, <1>4, <1>5 DEF CallsOK, LinesOK

\* The call returns.
LEMMA StepReturn ==
    ASSUME Inv, frames # <<>>, frames' = Tail(frames), UNCHANGED lines
    PROVE  CallsOK'
  <1>1. StackOK(Tail(frames), lines)
    BY PopFrame DEF Inv
  <1> QED BY <1>1 DEF CallsOK, Inv, LinesOK

\* The call goes on at another point.
LEMMA StepAt ==
    ASSUME Inv, frames # <<>>, NEW pc \in Points,
           pc = "pop" \/ NeedsNode(Top) \/ Top.fn # "RunParsedLine",
           frames' = At(pc), UNCHANGED lines
    PROVE  CallsOK'
  <1>1. StackOK(At(pc), lines)
    BY AtOK
  <1> QED BY <1>1 DEF CallsOK, Inv, LinesOK

\* The call goes on with other values of its local variables.
LEMMA StepTop ==
    ASSUME Inv, frames # <<>>, NEW g, FrameOK(g, lines),
           g.own = Top.own, g.list = Top.list, g.fn = Top.fn,
           frames' = [frames EXCEPT ![1] = g], UNCHANGED lines
    PROVE  CallsOK'
  <1>1. StackOK([frames EXCEPT ![1] = g], lines)
    BY TopFacts, ReplaceTop DEF Inv
  <1> QED BY <1>1 DEF CallsOK, Inv, LinesOK

\* IF and FOR return to a RunParsedLine, whose "line" they leave NULL.
LEMMA StepReturnLookahead ==
    ASSUME Inv, frames # <<>>, Top.fn \in {"CmdIf", "CmdFor"}, ReturnLookahead, UNCHANGED lines
    PROVE  CallsOK'
  <1> DEFINE fs == Tail(frames)
             g == [fs[1] EXCEPT !.pos = 0]
  <1>1. frames \in Seq(Frame) /\ Top = frames[1] /\ 1 \in DOMAIN frames
        /\ StackOK(frames, lines)
    BY TopFacts DEF Inv, StackOK
  <1>2. 2 \in DOMAIN frames /\ frames[2].fn = "RunParsedLine" /\ frames[2].pc = "pop"
    <2>1. /\ 1 + 1 \in DOMAIN frames
          /\ frames[1 + 1].fn = "RunParsedLine" /\ frames[1 + 1].pc = "pop"
      BY <1>1 DEF StackOK
    <2>2. 1 + 1 = 2
      OBVIOUS
    <2> QED BY <2>1, <2>2
  <1>3. fs \in Seq(Frame) /\ fs # <<>> /\ fs[1] = frames[2]
    <2>1. Len(frames) \in Nat /\ Len(frames) >= 2
      BY <1>1, <1>2
    <2>2. fs \in Seq(Frame) /\ Len(fs) = Len(frames) - 1
      BY <1>1, <2>1
    <2>3. 1 \in 1 .. Len(fs) /\ fs[1] = frames[1 + 1] /\ 1 + 1 = 2
      BY <1>1, <2>1, <2>2
    <2>4. fs # <<>>
      <3>1. Len(fs) # 0
        BY <2>1, <2>2
      <3> HIDE DEF fs
      <3> QED BY <3>1
    <2> QED BY <2>2, <2>3, <2>4
  <1>4. FrameOK(frames[2], lines) /\ frames[2] \in Frame
    BY <1>1, <1>2 DEF StackOK, FrameOK
  <1>5. /\ g \in Frame /\ g.fn = fs[1].fn /\ g.own = fs[1].own /\ g.list = fs[1].list
        /\ g.pc = fs[1].pc
    BY <1>3, <1>4 DEF Frame
  <1>6. FrameOK(g, lines)
    BY <1>2, <1>3, <1>4, <1>5 DEF FrameOK, NeedsNode
  <1>7. frames' = [fs EXCEPT ![1] = g]
    BY <1>3 DEF ReturnLookahead
  <1> HIDE DEF fs, g
  <1>8. StackOK(fs, lines)
    BY <1>1, PopFrame DEF fs, Running
  <1>9. StackOK([fs EXCEPT ![1] = g], lines)
    BY <1>3, <1>5, <1>6, <1>8, ReplaceTop
  <1> QED BY <1>7, <1>9 DEF CallsOK, Inv, LinesOK

\* A command that calls and waits at "pop".
LEMMA CommandFacts ==
    ASSUME Inv, NEW cmds, Command(cmds)
    PROVE  /\ frames # <<>> /\ Top.fn = "RunParsedLine" /\ NeedsNode(Top) /\ Current \in Node
           /\ Top \in Frame
           /\ StackOK(At("pop"), lines) /\ At("pop") # <<>>
           /\ At("pop")[1].pc = "pop" /\ At("pop")[1].fn = "RunParsedLine"
  <1>1. frames # <<>> /\ Top.fn = "RunParsedLine" /\ Top.pc = "cmd"
    BY DEF Command, Running, Top
  <1>2. NeedsNode(Top) /\ Top \in Frame /\ Current \in Node
    BY <1>1, TopFacts DEF NeedsNode
  <1>3. /\ StackOK(At("pop"), lines) /\ At("pop") # <<>>
        /\ At("pop")[1] = [Top EXCEPT !.pc = "pop"]
    BY <1>1, AtOK DEF Points
  <1>4. At("pop")[1].pc = "pop" /\ At("pop")[1].fn = "RunParsedLine"
    BY <1>1, <1>2, <1>3 DEF Frame
  <1> QED BY <1>1, <1>2, <1>3, <1>4

\* IF calls RunParsedLine on the current node, made a block.
LEMMA StepIf ==
    ASSUME Inv, NEW cmds, Command(cmds)
    PROVE  LET if == <<LookaheadCall("CmdIf", "ran")>> \o At("pop") IN
           /\ StackOK(if, lines) /\ if # <<>> /\ if[1].pc = "ran"
           /\ StackOK(<<BodyCall>> \o if, MakeLookahead)
           /\ MakeLookahead \in Seq(Seq(Node) \ {<<>>})
  <1> DEFINE if == <<LookaheadCall("CmdIf", "ran")>> \o At("pop")
             g == LookaheadCall("CmdIf", "ran")
  <1>1. /\ FrameOK(g, lines) /\ ~g.own /\ g.pc = "ran"
        /\ FrameOK(BodyCall, lines) /\ ~BodyCall.own /\ BodyCall.fn = "RunParsedLine"
    BY CommandFacts, LookaheadCallOK DEF BodyCall, Points
  <1> HIDE DEF g
  <1>2. StackOK(if, lines) /\ if # <<>> /\ if[1] = g
    BY <1>1, CommandFacts, PushFrame DEF g
  <1> HIDE DEF if
  <1>3. StackOK(<<BodyCall>> \o if, lines)
    BY <1>1, <1>2, PushFrame
  <1>4. /\ StackOK(<<BodyCall>> \o if, MakeLookahead)
        /\ MakeLookahead \in Seq(Seq(Node) \ {<<>>})
    BY <1>3, CommandFacts, LookaheadLines
  <1> QED BY <1>1, <1>2, <1>4 DEF if

LEMMA StepFinishNode ==
    ASSUME Inv, FinishNode
    PROVE  CallsOK'
  <1>1. frames # <<>> /\ Top.fn = "RunParsedLine"
    BY DEF FinishNode, Running, Top
  <1>2. /\ Top = frames[1] /\ Top \in Frame /\ FrameOK(Top, lines)
        /\ LinesOK /\ StackOK(frames, lines)
    BY <1>1, TopFacts DEF Inv
  <1>3. CASE frames' = Tail(frames) /\ Top.own /\ lines' = SubSeq(lines, 1, Top.list - 1)
    <2>1. StackOK(Tail(frames), lines)
          /\ \A i \in DOMAIN Tail(frames) : Tail(frames)[i].list < Top.list
      BY <1>1, <1>2, <1>3, PopFrame
    <2>2. Top.list \in DOMAIN lines
      BY <1>2, <1>3 DEF FrameOK
    <2>3. /\ SubSeq(lines, 1, Top.list - 1) \in Seq(Seq(Node) \ {<<>>})
          /\ StackOK(Tail(frames), SubSeq(lines, 1, Top.list - 1))
      BY <1>2, <2>1, <2>2, ShrinkLines
    <2> QED BY <1>3, <2>3 DEF CallsOK, LinesOK
  <1>4. CASE frames' = Tail(frames) /\ UNCHANGED lines
    BY <1>1, <1>4, StepReturn
  <1>5. CASE /\ NextPos # 0 /\ UNCHANGED lines
             /\ frames' = [frames EXCEPT ![1].pos = NextPos, ![1].pc = "ops"]
    <2> DEFINE g == [Top EXCEPT !.pos = NextPos, !.pc = "ops"]
    <2>1. Nodes = lines[Top.list] /\ Nodes \in Seq(Node) /\ Top.list \in DOMAIN lines
      BY <1>1, <1>2 DEF FrameOK, LinesOK, Nodes
    <2>2. NextPos \in DOMAIN Nodes /\ NextPos \in Nat
      BY <1>5, <2>1 DEF NextPos
    <2>3. /\ g \in Frame /\ g.fn = Top.fn /\ g.own = Top.own /\ g.list = Top.list
          /\ g.pos = NextPos
      BY <1>2, <2>2 DEF Frame, Points
    <2>4. frames' = [frames EXCEPT ![1] = g]
      BY <1>2, <1>5 DEF StackOK
    <2> HIDE DEF g
    <2>5. FrameOK(g, lines)
      BY <1>2, <2>1, <2>2, <2>3 DEF FrameOK
    <2> QED BY <1>1, <1>5, <2>3, <2>4, <2>5, StepTop
  <1> QED BY <1>3, <1>4, <1>5 DEF FinishNode

LEMMA StepOperators ==
    ASSUME Inv, Running("RunParsedLine", "ops"), NEW k \in Top.pos .. Len(Nodes),
           frames' = AfterOperators(k), UNCHANGED lines
    PROVE  CallsOK'
  <1>1. frames # <<>> /\ Top.fn = "RunParsedLine" /\ NeedsNode(Top)
    BY DEF Running, Top, NeedsNode
  <1>2. /\ Top = frames[1] /\ Top \in Frame /\ FrameOK(Top, lines)
        /\ Nodes \in Seq(Node) /\ Top.pos \in 1 .. Len(Nodes)
        /\ frames \in Seq(Frame) /\ 1 \in DOMAIN frames
    BY <1>1, TopFacts DEF Inv, StackOK
  <1>3. k \in DOMAIN Nodes /\ k \in Nat /\ Nodes[k].redir \subseteq Channels
    <2>1. k \in DOMAIN Nodes /\ k \in Nat
      BY <1>2
    <2>2. Nodes[k] \in Node
      BY <1>2, <2>1
    <2> QED BY <2>1, <2>2 DEF Node
  <1> DEFINE look == Current.cmd \in Lookahead
             todo == IF look THEN {} ELSE Nodes[k].redir
             pc == IF Dropped THEN "drop" ELSE "redir"
             g == [Top EXCEPT !.pos = k, !.lock = Locked(stack), !.look = look,
                              !.todo = todo, !.pc = pc]
  <1>4. look \in BOOLEAN /\ todo \subseteq Channels /\ pc \in Points
    BY <1>3 DEF Points
  <1>5. Locked(stack) \in BOOLEAN
    BY LockType DEF Inv, StreamsOK
  <1>6. frames' = [frames EXCEPT ![1] = g]
    BY <1>2 DEF AfterOperators
  <1> HIDE DEF look, todo, pc
  <1>7. /\ g \in Frame /\ g.fn = Top.fn /\ g.own = Top.own /\ g.list = Top.list
        /\ g.pos = k
    BY <1>2, <1>3, <1>4, <1>5 DEF Frame
  <1> HIDE DEF g
  <1>8. FrameOK(g, lines)
    BY <1>1, <1>2, <1>3, <1>7 DEF FrameOK, Nodes
  <1> QED BY <1>1, <1>6, <1>7, <1>8, StepTop

LEMMA CallsStep ==
    ASSUME Inv, Next
    PROVE  CallsOK'
  <1>0. LinesOK /\ StackOK(frames, lines) /\ StreamsOK
    BY DEF Inv
  <1>1. CASE GetLine
    <2>1. frames # <<>> /\ Top.fn = "RunBatch" /\ RunLine
      BY <1>1 DEF GetLine, Running, Top
    <2> QED BY <2>1, StepRunLine
  <1>2. CASE RunBlockLine
    <2>1. frames # <<>> /\ Top.fn = "RunBlock" /\ RunLine
      BY <1>2 DEF RunBlockLine, Running, Top
    <2> QED BY <2>1, StepRunLine
  <1>3. CASE \/ EndOfBatch \/ EndOfBlock \/ CallReturns
             \/ BatchLineRan /\ frames' = Tail(frames)
    BY <1>3, StepReturn DEF EndOfBatch, EndOfBlock, CallReturns, BatchLineRan, Running
  <1>4. CASE BatchLineRan /\ frames' = At("loop")
    <2>1. frames # <<>> /\ Top.fn = "RunBatch" /\ UNCHANGED lines
      BY <1>4 DEF BatchLineRan, Running, Top
    <2> QED BY <1>4, <2>1, StepAt DEF Points
  <1>5. CASE BlockLineRan
    <2>1. frames # <<>> /\ Top.fn = "RunBlock" /\ frames' = At("loop") /\ UNCHANGED lines
      BY <1>5 DEF BlockLineRan, Running, Top
    <2> QED BY <2>1, StepAt DEF Points
  <1>6. CASE ForIterated
    <2>1. frames # <<>> /\ Top.fn = "CmdFor" /\ frames' = At("loop") /\ UNCHANGED lines
      BY <1>6 DEF ForIterated, Running, Top
    <2> QED BY <2>1, StepAt DEF Points
  <1>7. CASE ExecOperators
    <2>1. Running("RunParsedLine", "ops") /\ frames' = AfterOperators(Top.pos) /\ UNCHANGED lines
      BY <1>7 DEF ExecOperators
    <2>2. Top.pos \in Top.pos .. Len(Nodes)
      <3>1. frames # <<>> /\ NeedsNode(Top)
        BY <2>1 DEF Running, Top, NeedsNode
      <3> QED BY <3>1, TopFacts
    <2> QED BY <2>1, <2>2, StepOperators
  <1>8. CASE LaunchPipe
    <2>1. Running("RunParsedLine", "ops") /\ frames' = AfterOperators(PipeEnd) /\ UNCHANGED lines
      BY <1>8 DEF LaunchPipe
    <2> QED BY <2>1, PipeEndType, StepOperators
  <1>9. CASE PipeFails \/ CmdExit
    <2>1. frames' = <<>> /\ lines' = <<>>
      BY <1>9 DEF PipeFails, CmdExit
    <2>2. /\ <<>> \in Seq(Frame) /\ DOMAIN <<>> = {}
          /\ <<>> \in Seq(Seq(Node) \ {<<>>})
      OBVIOUS
    <2>3. StackOK(<<>>, <<>>)
      BY <2>2 DEF StackOK
    <2> QED BY <2>1, <2>2, <2>3 DEF CallsOK, LinesOK
  <1>10. CASE ExecOutput
    <2> DEFINE todo == Top.todo \ {NextChannel}
               g == [Top EXCEPT !.todo = todo]
    <2>1. /\ frames # <<>> /\ Top.fn = "RunParsedLine" /\ UNCHANGED lines
          /\ frames' = [frames EXCEPT ![1].todo = @ \ {NextChannel}]
      BY <1>10 DEF ExecOutput, Running, Top
    <2>2. Top = frames[1] /\ 1 \in DOMAIN frames /\ Top \in Frame /\ FrameOK(Top, lines)
      BY <2>1, TopFacts
    <2>3. frames' = [frames EXCEPT ![1] = g]
      BY <1>0, <2>1, <2>2 DEF StackOK
    <2>4. todo \subseteq Channels
      BY <2>2 DEF Frame
    <2> HIDE DEF todo
    <2>5. /\ g \in Frame /\ g.fn = Top.fn /\ g.own = Top.own /\ g.list = Top.list
          /\ g.pos = Top.pos /\ g.pc = Top.pc
      BY <2>2, <2>4 DEF Frame
    <2> HIDE DEF g
    <2>6. FrameOK(g, lines)
      BY <2>2, <2>5 DEF FrameOK, NeedsNode
    <2> QED BY <2>1, <2>3, <2>5, <2>6, StepTop
  <1>11. CASE StartCommand
    <2>1. frames # <<>> /\ NeedsNode(Top) /\ frames' = At("cmd") /\ UNCHANGED lines
      BY <1>11 DEF StartCommand, Running, Top, NeedsNode
    <2> QED BY <2>1, StepAt DEF Points
  <1>12. CASE FinishNode
    BY <1>12, StepFinishNode
  <1>13. CASE \/ RunProc \/ CmdGoto \/ CmdGotoNoLabel \/ CmdGotoEof \/ CmdExitB
              \/ CmdIfBadOperator \/ CmdFails
    <2>1. frames # <<>> /\ frames' = At("pop") /\ UNCHANGED lines
      BY <1>13 DEF RunProc, CmdGoto, CmdGotoNoLabel, CmdGotoEof, CmdExitB, Raise,
             CmdIfBadOperator, CmdFails, Command, Running
    <2> QED BY <2>1, StepAt DEF Points
  <1>14. CASE CmdIfNothing \/ CmdForError \/ CmdForBadInput
    <2> DEFINE g == [Top EXCEPT !.pc = "pop", !.pos = 0]
    <2>1. /\ frames # <<>> /\ Top.fn = "RunParsedLine"
          /\ UNCHANGED lines \/ (Command({"for"}) /\ lines' = MakeLookahead)
          /\ frames' = [frames EXCEPT ![1].pc = "pop", ![1].pos = 0]
      BY <1>14 DEF CmdIfNothing, CmdForError, CmdForBadInput, Command, Running, Top
    <2>2. Top = frames[1] /\ 1 \in DOMAIN frames /\ Top \in Frame /\ FrameOK(Top, lines)
      BY <2>1, TopFacts
    <2>3. frames' = [frames EXCEPT ![1] = g]
      BY <1>0, <2>1, <2>2 DEF StackOK
    <2>4. /\ g \in Frame /\ g.fn = Top.fn /\ g.own = Top.own /\ g.list = Top.list
          /\ g.pc = "pop"
      BY <2>2 DEF Frame, Points
    <2> HIDE DEF g
    <2>5. FrameOK(g, lines)
      BY <2>1, <2>2, <2>4 DEF FrameOK, NeedsNode
    <2>6. StackOK([frames EXCEPT ![1] = g], lines)
      BY <1>0, <2>1, <2>2, <2>4, <2>5, ReplaceTop
    <2>7. Command({"for"}) =>
            /\ StackOK([frames EXCEPT ![1] = g], MakeLookahead)
            /\ MakeLookahead \in Seq(Seq(Node) \ {<<>>})
      BY <2>6, CommandFacts, LookaheadLines
    <2> QED BY <1>0, <2>1, <2>3, <2>6, <2>7 DEF CallsOK, LinesOK
  <1>15. CASE CmdBlock
    <2> DEFINE g == PlainCall("RunBlock", "loop")
    <2>1. Command({"block"}) /\ frames' = <<g>> \o At("pop") /\ UNCHANGED lines
      BY <1>15 DEF CmdBlock
    <2>2. FrameOK(g, lines) /\ ~g.own /\ g.fn = "RunBlock"
      BY <1>0, PlainCallOK DEF Points
    <2> HIDE DEF g
    <2>3. StackOK(<<g>> \o At("pop"), lines)
      BY <2>1, <2>2, CommandFacts, PushFrame
    <2> QED BY <1>0, <2>1, <2>3 DEF CallsOK, LinesOK
  <1>16. CASE CmdIfTrue
    <2> DEFINE if == <<LookaheadCall("CmdIf", "ran")>> \o At("pop")
    <2>1. Command({"if", "ifelse"})
      BY <1>16 DEF CmdIfTrue
    <2>2. /\ StackOK(if, lines) /\ if # <<>> /\ if[1].pc = "ran"
          /\ StackOK(<<BodyCall>> \o if, MakeLookahead)
          /\ MakeLookahead \in Seq(Seq(Node) \ {<<>>})
      BY <2>1, StepIf
    <2>3. \/ frames' = <<LineCall>> \o if /\ lines' = Append(lines, <<FreshBlock>>)
          \/ frames' = <<BodyCall>> \o if /\ lines' = MakeLookahead
      BY <1>16 DEF CmdIfTrue
    <2>4. <<FreshBlock>> \in Seq(Node) \ {<<>>}
      <3>1. Current \in Node
        BY <2>1, CommandFacts
      <3>2. FreshBlock \in Node
        BY <3>1 DEF FreshBlock, Node, Links, Commands
      <3> QED BY <3>2
    <2> HIDE DEF if
    <2>5. /\ StackOK(<<LineCall>> \o if, Append(lines, <<FreshBlock>>))
          /\ Append(lines, <<FreshBlock>>) \in Seq(Seq(Node) \ {<<>>})
      BY <1>0, <2>2, <2>4, PushLine, AppendLine
    <2> QED BY <2>2, <2>3, <2>5 DEF CallsOK, LinesOK
  <1>17. CASE CmdIfElse
    <2>1. /\ Command({"ifelse"}) /\ lines' = MakeLookahead
          /\ frames' = <<BodyCall>> \o (<<LookaheadCall("CmdIf", "ran")>> \o At("pop"))
      BY <1>17 DEF CmdIfElse
    <2> QED BY <2>1, StepIf DEF CallsOK, LinesOK
  <1>18. CASE CmdIfRan
    <2>1. frames # <<>> /\ Top.fn = "CmdIf" /\ ReturnLookahead /\ UNCHANGED lines
      BY <1>18 DEF CmdIfRan, Running, Top
    <2> QED BY <2>1, StepReturnLookahead
  <1>19. CASE CmdFor
    <2> DEFINE g == LookaheadCall("CmdFor", "loop")
    <2>1. Command({"for"}) /\ frames' = <<g>> \o At("pop") /\ lines' = MakeLookahead
      BY <1>19 DEF CmdFor
    <2>2. FrameOK(g, lines) /\ ~g.own /\ g.fn = "CmdFor"
      BY <2>1, CommandFacts, LookaheadCallOK DEF Points
    <2> HIDE DEF g
    <2>3. StackOK(<<g>> \o At("pop"), lines)
      BY <2>1, <2>2, CommandFacts, PushFrame
    <2>4. /\ StackOK(<<g>> \o At("pop"), MakeLookahead)
          /\ MakeLookahead \in Seq(Seq(Node) \ {<<>>})
      BY <2>1, <2>3, CommandFacts, LookaheadLines
    <2> QED BY <2>1, <2>4 DEF CallsOK, LinesOK
  <1>20. CASE ForIterate
    <2>1. /\ frames # <<>> /\ Top.fn = "CmdFor" /\ NeedsNode(Top)
          /\ frames' = <<BodyCall>> \o At("ran") /\ UNCHANGED lines
      BY <1>20 DEF ForIterate, Running, Top, NeedsNode
    <2>2. FrameOK(BodyCall, lines) /\ ~BodyCall.own /\ BodyCall.fn = "RunParsedLine"
      BY <2>1, LookaheadCallOK DEF BodyCall, Points
    <2>3. StackOK(At("ran"), lines) /\ At("ran") # <<>> /\ At("ran")[1].pc = "ran"
      <3>1. Top \in Frame
        BY <2>1, TopFacts
      <3> QED BY <2>1, <3>1, AtOK DEF Points, Frame
    <2>4. StackOK(<<BodyCall>> \o At("ran"), lines)
      BY <2>2, <2>3, PushFrame
    <2> QED BY <1>0, <2>1, <2>4 DEF CallsOK, LinesOK
  <1>21. CASE EndOfFor
    <2>1. frames # <<>> /\ Top.fn = "CmdFor" /\ ReturnLookahead /\ UNCHANGED lines
      BY <1>21 DEF EndOfFor, Running, Top
    <2> QED BY <2>1, StepReturnLookahead
  <1>22. CASE CmdCallFile
    <2> DEFINE g == PlainCall("CmdCallFile", "ran")
               b == PlainCall("RunBatch", "loop")
    <2>1. /\ Command({"call"}) /\ frames' = <<b>> \o (<<g>> \o At("pop"))
          /\ UNCHANGED lines
      BY <1>22 DEF CmdCallFile
    <2>2. /\ FrameOK(g, lines) /\ ~g.own /\ g.fn = "CmdCallFile" /\ g.pc = "ran"
          /\ FrameOK(b, lines) /\ ~b.own /\ b.fn = "RunBatch"
      BY <1>0, PlainCallOK DEF Points
    <2> HIDE DEF g, b
    <2>3. /\ StackOK(<<g>> \o At("pop"), lines) /\ <<g>> \o At("pop") # <<>>
          /\ (<<g>> \o At("pop"))[1] = g
      BY <2>1, <2>2, CommandFacts, PushFrame
    <2>4. StackOK(<<b>> \o (<<g>> \o At("pop")), lines)
      BY <2>2, <2>3, PushFrame
    <2> QED BY <1>0, <2>1, <2>4 DEF CallsOK, LinesOK
  <1>23. CASE RunSwitchLine
    <2>1. PICK l \in Lines : frames' = <<LineCall>> /\ lines' = Append(lines, l)
      BY <1>23 DEF RunSwitchLine
    <2>2. l \in Seq(Node) \ {<<>>}
      BY LinesAssumption
    <2>3. StackOK(<<LineCall>>, Append(lines, l))
      BY <1>0, <2>2, LineCallOK, FirstFrame
    <2>4. Append(lines, l) \in Seq(Seq(Node) \ {<<>>})
      BY <1>0, <2>2, AppendLine
    <2> QED BY <2>1, <2>3, <2>4 DEF CallsOK, LinesOK
  <1>24. CASE RunScript
    <2>1. frames' = <<PlainCall("RunBatch", "loop")>> /\ UNCHANGED lines
      BY <1>24 DEF RunScript
    <2>2. StackOK(<<PlainCall("RunBatch", "loop")>>, lines)
      BY <1>0, PlainCallOK, FirstFrame DEF Points
    <2> QED BY <1>0, <2>1, <2>2 DEF CallsOK, LinesOK
  <1>25. CASE PopUntilLock \/ MainEnds \/ FreeStreamStack \/ Exited
    BY <1>0, <1>25 DEF PopUntilLock, MainEnds, FreeStreamStack, Exited, vars, CallsOK, LinesOK
  <1>26. BatchLineRan => frames' = Tail(frames) \/ frames' = At("loop")
    BY DEF BatchLineRan
  <1> QED BY <1>1, <1>2, <1>3, <1>4, <1>5, <1>6, <1>7, <1>8, <1>9, <1>10, <1>11, <1>12, <1>13,
             <1>14, <1>15, <1>16, <1>17, <1>18, <1>19, <1>20, <1>21, <1>22, <1>23, <1>24,
             <1>25, <1>26 DEF Next

-----------------------------------------------------------------------------

LEMMA InitInv == Init => Inv
  <1> SUFFICES ASSUME Init PROVE Inv
    OBVIOUS
  <1>1. StreamsOK
    <2>1. stack \in Seq(Item) /\ lost \in BOOLEAN
      <3>1. stack = <<>> /\ lost = FALSE
        BY DEF Init
      <3>2. <<>> \in Seq(Item)
        OBVIOUS
      <3> QED BY <3>1, <3>2
    <2>2. open \subseteq Handles
      BY HandlesAssumption DEF Init
    <2>3. cur \in [Channels -> Handles]
      <3>1. Stdin \in Handles /\ Stdout \in Handles /\ Stderr \in Handles
        BY HandlesAssumption
      <3> QED BY <3>1 DEF Init
    <2> QED BY <2>1, <2>2, <2>3 DEF StreamsOK
  <1>2. ControlOK
    BY DEF Init, ControlOK, Commands, Simple
  <1>3. LinesOK
    BY DEF Init, LinesOK
  <1>4. StackOK(frames, lines)
    <2>1. frames = <<PlainCall("RunBatch", "loop")>>
      BY DEF Init
    <2> QED BY <1>1, <1>3, <2>1, PlainCallOK, FirstFrame DEF Points
  <1> QED BY <1>1, <1>2, <1>3, <1>4 DEF Inv

LEMMA NextInv == Inv /\ [Next]_vars => Inv'
  <1> SUFFICES ASSUME Inv, [Next]_vars PROVE Inv'
    OBVIOUS
  <1>1. CASE Next
    BY <1>1, StreamsStep, ControlStep, CallsStep DEF Inv, CallsOK
  <1>2. CASE UNCHANGED vars
    BY <1>2 DEF vars, Inv, StreamsOK, ControlOK, LinesOK
  <1> QED BY <1>1, <1>2

THEOREM SpecInv == Spec => []Inv
  BY InitInv, NextInv, PTL DEF Spec

\* For every script, the C stack of the interpreter, its lines, its stream
\* stack and its globals keep their types: in particular no function uses a
\* line after RunLine has freed it, or a node past the end of one.
THEOREM TypeCorrect == Spec => []TypeOK
  BY SpecInv, InvTypeOK, PTL

-----------------------------------------------------------------------------
(* QuietAbort.  The only way to "redir" is from ExecOperators when it finds *)
(* bAbortCommand clear, and a call returns to "ran" or "pop".  A loop that   *)
(* some other call is waiting for goes on only when it has found the flag    *)
(* clear; the one loop entered with the flag set is that of a script main()  *)
(* starts after a pBat_Auto.bat or a /C that was left by EXIT /B.            *)

NotBusy(fs) == fs # <<>> => Head(fs).pc \notin {"redir", "cmd"}
NotLooping(fs) == fs # <<>> /\ Head(fs).pc = "loop" => Len(fs) = 1

Halted == abort # "no" => NotBusy(frames) /\ NotLooping(frames)

LEMMA QuietTail ==
    ASSUME Inv, frames # <<>>
    PROVE  NotBusy(Tail(frames))
  <1>1. StackOK(frames, lines) /\ frames \in Seq(Frame)
    BY DEF Inv, StackOK
  <1>2. Tail(frames) # <<>> => 2 \in DOMAIN frames /\ Head(Tail(frames)) = frames[2]
    BY <1>1
  <1>3. 2 \in DOMAIN frames => frames[2].pc \in {"ran", "pop"}
    BY <1>1 DEF StackOK
  <1> QED BY <1>2, <1>3 DEF NotBusy

LEMMA QuietAt ==
    ASSUME Inv, frames # <<>>, NEW pc \in {"loop", "ran", "pop"}
    PROVE  NotBusy(At(pc))
  <1>1. Top = frames[1] /\ 1 \in DOMAIN frames /\ Top \in Frame /\ frames \in Seq(Frame)
    BY TopFacts DEF Inv, StackOK
  <1>2. Head(At(pc)) = [Top EXCEPT !.pc = pc]
    BY <1>1 DEF At
  <1>3. [Top EXCEPT !.pc = pc].pc = pc
    BY <1>1 DEF Frame
  <1> QED BY <1>2, <1>3 DEF NotBusy

LEMMA QuietPush ==
    ASSUME NEW fs \in Seq(Frame), NEW g, g \in Frame, g.pc \notin {"redir", "cmd"}
    PROVE  NotBusy(<<g>> \o fs)
  <1>1. Head(<<g>> \o fs) = g
    OBVIOUS
  <1> QED BY <1>1 DEF NotBusy

\* The calls that are made start at "ops" or at "loop".
LEMMA QuietCalls ==
    ASSUME Inv, Next, frames' # <<>>,
           \/ GetLine \/ RunBlockLine \/ CmdBlock \/ CmdIfTrue \/ CmdIfElse \/ CmdFor
           \/ ForIterate \/ CmdCallFile \/ RunSwitchLine \/ RunScript
    PROVE  NotBusy(frames')
  <1>1. \E g \in {LineCall, BodyCall, PlainCall("RunBlock", "loop"), PlainCall("RunBatch", "loop"),
                  LookaheadCall("CmdFor", "loop")} : Head(frames') = g
    <2>1. ASSUME NEW g, NEW fs, frames' = <<g>> \o fs, fs \in Seq(Frame)
          PROVE  Head(frames') = g
      BY <2>1
    <2>2. frames # <<>> => \A pc \in Points : At(pc) \in Seq(Frame)
      <3> SUFFICES ASSUME frames # <<>>, NEW pc \in Points PROVE At(pc) \in Seq(Frame)
        OBVIOUS
      <3>1. Top = frames[1] /\ Top \in Frame /\ frames \in Seq(Frame) /\ 1 \in DOMAIN frames
        BY TopFacts DEF Inv, StackOK
      <3>2. At(pc) = [frames EXCEPT ![1] = [Top EXCEPT !.pc = pc]]
        BY <3>1 DEF At
      <3>3. [Top EXCEPT !.pc = pc] \in Frame
        BY <3>1 DEF Frame
      <3> QED BY <3>1, <3>2, <3>3
    <2>3. CASE GetLine \/ RunBlockLine
      <3>1. frames' = <<LineCall>> \o At("ran") /\ frames # <<>>
        BY <2>3 DEF GetLine, RunBlockLine, RunLine, Running
      <3> QED BY <2>1, <2>2, <3>1 DEF Points
    <2>4. CASE CmdBlock
      <3>1. frames' = <<PlainCall("RunBlock", "loop")>> \o At("pop") /\ frames # <<>>
        BY <2>4 DEF CmdBlock, Command, Running
      <3> QED BY <2>1, <2>2, <3>1 DEF Points
    <2>5. CASE CmdIfTrue \/ CmdIfElse
      <3> DEFINE if == <<LookaheadCall("CmdIf", "ran")>> \o At("pop")
      <3>1. PICK cmds : Command(cmds)
        BY <2>5 DEF CmdIfTrue, CmdIfElse
      <3>2. if \in Seq(Frame)
        BY <3>1, StepIf DEF StackOK
      <3>3. frames' = <<LineCall>> \o if \/ frames' = <<BodyCall>> \o if
        BY <2>5 DEF CmdIfTrue, CmdIfElse
      <3> HIDE DEF if
      <3> QED BY <2>1, <3>2, <3>3
    <2>6. CASE CmdFor
      <3>1. frames' = <<LookaheadCall("CmdFor", "loop")>> \o At("pop") /\ frames # <<>>
        BY <2>6 DEF CmdFor, Command, Running
      <3> QED BY <2>1, <2>2, <3>1 DEF Points
    <2>7. CASE ForIterate
      <3>1. frames' = <<BodyCall>> \o At("ran") /\ frames # <<>>
        BY <2>7 DEF ForIterate, Running
      <3> QED BY <2>1, <2>2, <3>1 DEF Points
    <2>8. CASE CmdCallFile
      <3> DEFINE g == PlainCall("CmdCallFile", "ran")
                 fs == <<g>> \o At("pop")
      <3>1. /\ frames' = <<PlainCall("RunBatch", "loop")>> \o fs
            /\ frames # <<>>
        BY <2>8 DEF CmdCallFile, Command, Running
      <3>2. fs \in Seq(Frame)
        <4>1. g \in Frame
          BY PlainCallOK DEF Inv, Points, FrameOK
        <4>2. At("pop") \in Seq(Frame)
          BY <2>2, <3>1 DEF Points
        <4> HIDE DEF g
        <4> QED BY <4>1, <4>2
      <3> HIDE DEF fs
      <3> QED BY <2>1, <3>1, <3>2
    <2>9. CASE RunSwitchLine \/ RunScript
      BY <2>9 DEF RunSwitchLine, RunScript
    <2> QED BY <2>3, <2>4, <2>5, <2>6, <2>7, <2>8, <2>9
  <1>2. \A g \in {LineCall, BodyCall, PlainCall("RunBlock", "loop"), PlainCall("RunBatch", "loop"),
                  LookaheadCall("CmdFor", "loop")} : g.pc \in {"ops", "loop"}
    BY DEF LineCall, BodyCall, PlainCall, LookaheadCall, Call
  <1> QED BY <1>1, <1>2 DEF NotBusy

LEMMA QuietStep ==
    ASSUME Inv, Halted, [Next]_vars, abort # "no" \/ abort' # "no"
    PROVE  NotBusy(frames')
  <1> SUFFICES ASSUME frames' # <<>> PROVE NotBusy(frames')
    BY DEF NotBusy
  <1>1. CASE \/ EndOfBatch \/ EndOfBlock \/ CallReturns \/ BatchLineRan
             \/ FinishNode /\ frames' = Tail(frames)
    <2>1. frames # <<>> /\ (frames' = Tail(frames) \/ frames' = At("loop"))
      BY <1>1 DEF EndOfBatch, EndOfBlock, CallReturns, BatchLineRan, FinishNode, Running
    <2> QED BY <2>1, QuietTail, QuietAt
  <1>2. CASE \/ BlockLineRan \/ ForIterated
             \/ RunProc \/ CmdGoto \/ CmdGotoNoLabel \/ CmdGotoEof \/ CmdExitB
             \/ CmdIfBadOperator \/ CmdFails
    <2>1. frames # <<>> /\ (frames' = At("loop") \/ frames' = At("pop"))
      BY <1>2 DEF BlockLineRan, ForIterated, RunProc, CmdGoto, CmdGotoNoLabel, CmdGotoEof,
             CmdExitB, Raise, CmdIfBadOperator, CmdFails, Command, Running
    <2> QED BY <2>1, QuietAt
  <1>3. CASE \/ GetLine \/ RunBlockLine \/ CmdBlock \/ CmdIfTrue \/ CmdIfElse \/ CmdFor
             \/ ForIterate \/ CmdCallFile \/ RunSwitchLine \/ RunScript
    BY <1>3, QuietCalls DEF Next
  <1>4. CASE PipeFails \/ CmdExit
    BY <1>4 DEF PipeFails, CmdExit
  <1>5. CASE ExecOperators \/ LaunchPipe
    <2>1. PICK k : frames' = AfterOperators(k) /\ frames # <<>> /\ abort' = abort
      BY <1>5 DEF ExecOperators, LaunchPipe, Running, abortVars
    <2>2. frames \in Seq(Frame) /\ 1 \in DOMAIN frames /\ Top = frames[1] /\ Top \in Frame
      BY <2>1, TopFacts DEF Inv, StackOK
    <2>3. Dropped
      BY <2>1 DEF Dropped
    <2> DEFINE look == Current.cmd \in Lookahead
               todo == IF look THEN {} ELSE Nodes[k].redir
               g == [Top EXCEPT !.pos = k, !.lock = Locked(stack), !.look = look,
                                !.todo = todo, !.pc = "drop"]
    <2>4. frames' = [frames EXCEPT ![1] = g]
      BY <2>1, <2>2, <2>3 DEF AfterOperators
    <2> HIDE DEF look, todo
    <2>5. g.pc = "drop"
      BY <2>2 DEF Frame
    <2> HIDE DEF g
    <2>6. Head(frames') = g
      BY <2>2, <2>4
    <2> QED BY <2>5, <2>6 DEF NotBusy
  <1>6. CASE ExecOutput \/ StartCommand
    BY <1>6 DEF ExecOutput, StartCommand, Running, Halted, NotBusy, abortVars
  <1>7. CASE PopUntilLock \/ MainEnds \/ FreeStreamStack \/ Exited \/ UNCHANGED vars
    BY <1>7 DEF PopUntilLock, MainEnds, FreeStreamStack, Exited, vars, abortVars, NotBusy,
           Halted, Running
  <1>8. CASE FinishNode /\ frames' # Tail(frames)
    <2>1. frames' = [frames EXCEPT ![1].pos = NextPos, ![1].pc = "ops"] /\ frames # <<>>
      BY <1>8 DEF FinishNode, Running
    <2>2. frames \in Seq(Frame) /\ 1 \in DOMAIN frames /\ Top = frames[1] /\ Top \in Frame
      BY <2>1, TopFacts DEF Inv, StackOK
    <2> DEFINE g == [Top EXCEPT !.pos = NextPos, !.pc = "ops"]
    <2>3. frames' = [frames EXCEPT ![1] = g]
      BY <2>1, <2>2
    <2>4. g.pc = "ops"
      BY <2>2 DEF Frame
    <2> HIDE DEF g
    <2>5. Head(frames') = g
      BY <2>2, <2>3
    <2> QED BY <2>4, <2>5 DEF NotBusy
  <1>9. CASE CmdIfNothing \/ CmdForError \/ CmdForBadInput
    <2>1. frames' = [frames EXCEPT ![1].pc = "pop", ![1].pos = 0] /\ frames # <<>>
      BY <1>9 DEF CmdIfNothing, CmdForError, CmdForBadInput, Command, Running
    <2>2. frames \in Seq(Frame) /\ 1 \in DOMAIN frames /\ Top = frames[1] /\ Top \in Frame
      BY <2>1, TopFacts DEF Inv, StackOK
    <2>3. Head(frames').pc = "pop"
      BY <2>1, <2>2 DEF Frame
    <2> QED BY <2>3 DEF NotBusy
  <1>10. CASE CmdIfRan \/ EndOfFor
    <2>1. /\ frames' = [Tail(frames) EXCEPT ![1].pos = 0] /\ frames # <<>>
          /\ Top.fn \in {"CmdIf", "CmdFor"}
      BY <1>10 DEF CmdIfRan, EndOfFor, ReturnLookahead, Running, Top
    <2>2. frames \in Seq(Frame) /\ 1 \in DOMAIN frames /\ Top = frames[1]
          /\ StackOK(frames, lines)
      BY <2>1, TopFacts DEF Inv, StackOK
    <2>3. 1 + 1 \in DOMAIN frames /\ frames[1 + 1].pc = "pop" /\ frames[1 + 1] \in Frame
      BY <2>1, <2>2 DEF StackOK
    <2>4. Head(frames').pc = frames[1 + 1].pc
      <3>1. 1 \in DOMAIN Tail(frames) /\ Tail(frames)[1] = frames[1 + 1]
        BY <2>2, <2>3
      <3>2. Head(frames') = [Tail(frames)[1] EXCEPT !.pos = 0]
        BY <2>1, <2>2, <3>1
      <3> QED BY <2>3, <3>1, <3>2 DEF Frame
    <2> QED BY <2>3, <2>4 DEF NotBusy
  <1> QED BY <1>1, <1>2, <1>3, <1>4, <1>5, <1>6, <1>7, <1>8, <1>9, <1>10 DEF Next

\* A call that returns leaves a shorter stack, whose top is not at a loop.
LEMMA TailWaits ==
    ASSUME Inv, frames # <<>>
    PROVE  /\ Len(Tail(frames)) = Len(frames) - 1 /\ Len(frames) \in Nat
           /\ Tail(frames) # <<>> => Head(Tail(frames)).pc \in {"ran", "pop"}
  <1>1. StackOK(frames, lines) /\ frames \in Seq(Frame)
    BY DEF Inv, StackOK
  <1>2. Tail(frames) # <<>> => 2 \in DOMAIN frames /\ Head(Tail(frames)) = frames[2]
    BY <1>1
  <1>3. 2 \in DOMAIN frames => frames[2].pc \in {"ran", "pop"}
    BY <1>1 DEF StackOK
  <1> QED BY <1>1, <1>2, <1>3

\* A call that goes on at another point leaves a stack of the same length.
LEMMA TopGoesOn ==
    ASSUME Inv, frames # <<>>, NEW g \in Frame, frames' = [frames EXCEPT ![1] = g]
    PROVE  Len(frames') = Len(frames) /\ Len(frames) \in Nat /\ frames' # <<>> /\ Head(frames') = g
  <1>1. frames \in Seq(Frame) /\ 1 \in DOMAIN frames
    BY TopFacts DEF Inv, StackOK
  <1> QED BY <1>1

LEMMA AtGoesOn ==
    ASSUME Inv, frames # <<>>, NEW pc \in Points, frames' = At(pc)
    PROVE  /\ Len(frames') = Len(frames) /\ Len(frames) \in Nat
           /\ frames' # <<>> /\ Head(frames').pc = pc
  <1> DEFINE g == [Top EXCEPT !.pc = pc]
  <1>1. Top = frames[1] /\ Top \in Frame
    BY TopFacts
  <1>2. g \in Frame /\ g.pc = pc
    BY <1>1 DEF Frame
  <1>3. frames' = [frames EXCEPT ![1] = g]
    BY <1>1 DEF At
  <1> HIDE DEF g
  <1> QED BY <1>2, <1>3, TopGoesOn

\* IF and FOR return to the RunParsedLine that called them.
LEMMA LookaheadReturns ==
    ASSUME Inv, frames # <<>>, Top.fn \in {"CmdIf", "CmdFor"}, ReturnLookahead
    PROVE  /\ Len(frames') = Len(frames) - 1 /\ Len(frames) \in Nat
           /\ frames' # <<>> /\ Head(frames').pc = "pop"
  <1>1. frames \in Seq(Frame) /\ 1 \in DOMAIN frames /\ Top = frames[1] /\ StackOK(frames, lines)
    BY TopFacts DEF Inv, StackOK
  <1>2. 1 + 1 \in DOMAIN frames /\ frames[1 + 1].pc = "pop" /\ frames[1 + 1] \in Frame
    BY <1>1 DEF StackOK
  <1>3. 1 \in DOMAIN Tail(frames) /\ Tail(frames)[1] = frames[1 + 1]
    BY <1>1, <1>2
  <1>4. frames' = [Tail(frames) EXCEPT ![1].pos = 0]
    BY DEF ReturnLookahead
  <1>5. Head(frames') = [Tail(frames)[1] EXCEPT !.pos = 0] /\ Len(frames') = Len(frames) - 1
    BY <1>1, <1>2, <1>3, <1>4
  <1>6. Tail(frames)[1] \in Frame /\ Tail(frames)[1].pc = "pop"
    BY <1>2, <1>3
  <1>7. [Tail(frames)[1] EXCEPT !.pos = 0].pc = "pop"
    BY <1>6 DEF Frame
  <1>8. Len(frames) \in Nat /\ Len(frames) >= 2 /\ frames' # <<>>
    BY <1>1, <1>2, <1>5
  <1> QED BY <1>5, <1>7, <1>8

\* While the flag is set, what ExecOperators finds is dropped.
LEMMA OperatorsDrop ==
    ASSUME Inv, frames # <<>>, abort # "no", NEW k, frames' = AfterOperators(k)
    PROVE  Len(frames') = Len(frames) /\ Len(frames) \in Nat /\ Head(frames').pc = "drop"
  <1>1. frames \in Seq(Frame) /\ 1 \in DOMAIN frames /\ Top = frames[1] /\ Top \in Frame
    BY TopFacts DEF Inv, StackOK
  <1> DEFINE look == Current.cmd \in Lookahead
             todo == IF look THEN {} ELSE Nodes[k].redir
             g == [Top EXCEPT !.pos = k, !.lock = Locked(stack), !.look = look,
                              !.todo = todo, !.pc = "drop"]
  <1>2. frames' = [frames EXCEPT ![1] = g]
    BY <1>1 DEF AfterOperators, Dropped
  <1> HIDE DEF look, todo
  <1>3. g.pc = "drop"
    BY <1>1 DEF Frame
  <1> HIDE DEF g
  <1> QED BY <1>1, <1>2, <1>3

LEMMA LoopStep ==
    ASSUME Inv, Halted, [Next]_vars, abort' # "no"
    PROVE  NotLooping(frames')
  <1> SUFFICES ASSUME frames' # <<>>, Head(frames').pc = "loop" PROVE Len(frames') = 1
    BY DEF NotLooping
  <1>1. CASE \/ EndOfBatch \/ EndOfBlock \/ CallReturns
             \/ FinishNode /\ frames' = Tail(frames)
    <2>1. frames # <<>> /\ frames' = Tail(frames)
      BY <1>1 DEF EndOfBatch, EndOfBlock, CallReturns, FinishNode, Running
    <2> QED BY <2>1, TailWaits
  <1>2. CASE BatchLineRan
    <2>1. frames # <<>> /\ frames' = Tail(frames)
      BY <1>2 DEF BatchLineRan, Running
    <2> QED BY <2>1, TailWaits
  <1>3. CASE BlockLineRan
    BY <1>3 DEF BlockLineRan
  <1>4. CASE ForIterated
    BY <1>4 DEF ForIterated, ForStops, abortVars
  <1>5. CASE \/ RunProc \/ CmdGoto \/ CmdGotoNoLabel \/ CmdGotoEof \/ CmdExitB
             \/ CmdIfBadOperator \/ CmdFails
    <2>1. frames # <<>> /\ frames' = At("pop")
      BY <1>5 DEF RunProc, CmdGoto, CmdGotoNoLabel, CmdGotoEof,
             CmdExitB, Raise, CmdIfBadOperator, CmdFails, Command, Running
    <2> QED BY <2>1, AtGoesOn DEF Points
  <1>6. CASE CmdBlock \/ CmdIfTrue \/ CmdIfElse \/ CmdFor \/ CmdCallFile
    <2>1. frames # <<>> /\ Top.pc = "cmd" /\ abort' = abort
      BY <1>6 DEF CmdBlock, CmdIfTrue, CmdIfElse, CmdFor, CmdCallFile, Command, Running,
             Top, abortVars
    <2> QED BY <2>1 DEF Halted, NotBusy, Top
  <1>7. CASE GetLine \/ RunBlockLine \/ ForIterate
    <2>1. PICK g : frames' = <<g>> \o At("ran") /\ g \in {LineCall, BodyCall} /\ frames # <<>>
      BY <1>7 DEF GetLine, RunBlockLine, RunLine, ForIterate, Running
    <2>2. g.pc = "ops"
      BY <2>1 DEF LineCall, BodyCall, LookaheadCall, Call
    <2>3. At("ran") \in Seq(Frame)
      <3>1. Top = frames[1] /\ Top \in Frame /\ frames \in Seq(Frame) /\ 1 \in DOMAIN frames
        BY <2>1, TopFacts DEF Inv, StackOK
      <3>2. At("ran") = [frames EXCEPT ![1] = [Top EXCEPT !.pc = "ran"]]
        BY <3>1 DEF At
      <3>3. [Top EXCEPT !.pc = "ran"] \in Frame
        BY <3>1 DEF Frame, Points
      <3> QED BY <3>1, <3>2, <3>3
    <2>4. Head(frames') = g
      BY <2>1, <2>3
    <2> QED BY <2>2, <2>4
  <1>8. CASE RunSwitchLine \/ RunScript
    <2>1. PICK g : frames' = <<g>>
      BY <1>8 DEF RunSwitchLine, RunScript
    <2> QED BY <2>1
  <1>9. CASE PipeFails \/ CmdExit
    BY <1>9 DEF PipeFails, CmdExit
  <1>10. CASE ExecOperators \/ LaunchPipe
    <2>1. PICK k : frames' = AfterOperators(k) /\ frames # <<>> /\ abort' = abort
      BY <1>10 DEF ExecOperators, LaunchPipe, Running, abortVars
    <2> QED BY <2>1, OperatorsDrop
  <1>11. CASE ExecOutput \/ StartCommand
    BY <1>11 DEF ExecOutput, StartCommand, Running, Halted, NotBusy, abortVars
  <1>12. CASE PopUntilLock \/ MainEnds \/ FreeStreamStack \/ Exited \/ UNCHANGED vars
    BY <1>12 DEF PopUntilLock, MainEnds, FreeStreamStack, Exited, vars, abortVars, Halted,
           NotLooping
  <1>13. CASE FinishNode /\ frames' # Tail(frames)
    <2>1. frames' = [frames EXCEPT ![1].pos = NextPos, ![1].pc = "ops"] /\ frames # <<>>
      BY <1>13 DEF FinishNode, Running
    <2>2. frames \in Seq(Frame) /\ 1 \in DOMAIN frames /\ Top = frames[1] /\ Top \in Frame
      BY <2>1, TopFacts DEF Inv, StackOK
    <2> DEFINE g == [Top EXCEPT !.pos = NextPos, !.pc = "ops"]
    <2>3. frames' = [frames EXCEPT ![1] = g]
      BY <2>1, <2>2
    <2>4. g.pc = "ops"
      BY <2>2 DEF Frame
    <2> HIDE DEF g
    <2>5. Head(frames') = g
      BY <2>2, <2>3
    <2> QED BY <2>4, <2>5
  <1>14. CASE CmdIfNothing \/ CmdForError \/ CmdForBadInput
    <2>1. frames' = [frames EXCEPT ![1].pc = "pop", ![1].pos = 0] /\ frames # <<>>
      BY <1>14 DEF CmdIfNothing, CmdForError, CmdForBadInput, Command, Running
    <2>2. frames \in Seq(Frame) /\ 1 \in DOMAIN frames /\ frames[1] \in Frame
      BY <2>1, TopFacts DEF Inv, StackOK
    <2>3. Head(frames').pc = "pop"
      BY <2>1, <2>2 DEF Frame
    <2> QED BY <2>3
  <1>15. CASE CmdIfRan \/ EndOfFor
    <2>1. ReturnLookahead /\ frames # <<>> /\ Top.fn \in {"CmdIf", "CmdFor"}
      BY <1>15 DEF CmdIfRan, EndOfFor, Running, Top
    <2> QED BY <2>1, LookaheadReturns
  <1> QED BY <1>1, <1>2, <1>3, <1>4, <1>5, <1>6, <1>7, <1>8, <1>9, <1>10, <1>11, <1>12,
             <1>13, <1>14, <1>15 DEF Next

LEMMA HaltedHolds == Spec => []Halted
  <1>1. Init => Halted
    BY DEF Init, Halted
  <1>2. Inv /\ Halted /\ [Next]_vars => Halted'
    <2> SUFFICES ASSUME Inv, Halted, [Next]_vars, abort' # "no"
                 PROVE  NotBusy(frames') /\ NotLooping(frames')
      BY DEF Halted, NotBusy, NotLooping
    <2> QED BY QuietStep, LoopStep
  <1> QED BY <1>1, <1>2, SpecInv, PTL DEF Spec

\* What a step may do while the flag is set, beside starting no command.
LEMMA UnwindStep ==
    ASSUME Inv, Halted, Next, abort # "no"
    PROVE  /\ Len(frames) > 1 => Len(frames') <= Len(frames)
           /\ Running("RunParsedLine", "drop") /\ frames' # <<>> => Head(frames').pc # "ops"
           /\ open' \subseteq open \/ (LaunchPipe /\ Head(frames').pc = "drop")
  <1> DEFINE Shorter == Len(frames) > 1 => Len(frames') <= Len(frames)
             Left == Running("RunParsedLine", "drop") /\ frames' # <<>> => Head(frames').pc # "ops"
             Closing == open' \subseteq open \/ (LaunchPipe /\ Head(frames').pc = "drop")
  <1>1. CASE \/ EndOfBatch \/ EndOfBlock \/ CallReturns
             \/ FinishNode /\ frames' = Tail(frames)
             \/ BatchLineRan /\ frames' = Tail(frames)
    <2>1. frames # <<>> /\ frames' = Tail(frames) /\ open' = open
      BY <1>1 DEF EndOfBatch, EndOfBlock, CallReturns, FinishNode, BatchLineRan, Running, streamVars
    <2> QED BY <2>1, TailWaits
  <1>2. CASE \/ BatchLineRan /\ frames' # Tail(frames)
             \/ BlockLineRan \/ ForIterated
    <2>1. frames # <<>> /\ frames' = At("loop") /\ open' = open
      BY <1>2 DEF BatchLineRan, BlockLineRan, ForIterated, Running, streamVars
    <2> QED BY <2>1, AtGoesOn DEF Points
  <1>3. CASE \/ RunProc \/ CmdGoto \/ CmdGotoNoLabel \/ CmdGotoEof \/ CmdExitB \/ CmdExit
             \/ CmdIfBadOperator \/ CmdFails \/ CmdBlock \/ CmdIfTrue \/ CmdIfElse \/ CmdFor
             \/ CmdCallFile \/ CmdIfNothing \/ CmdForError \/ CmdForBadInput
             \/ ExecOutput \/ StartCommand
    <2>1. frames # <<>> /\ Head(frames).pc \in {"redir", "cmd"}
      BY <1>3 DEF RunProc, CmdGoto, CmdGotoNoLabel, CmdGotoEof, CmdExitB, CmdExit,
             CmdIfBadOperator, CmdFails, CmdBlock, CmdIfTrue, CmdIfElse, CmdFor, CmdCallFile,
             CmdIfNothing, CmdForError, CmdForBadInput, ExecOutput, StartCommand, Command, Running
    <2> QED BY <2>1 DEF Halted, NotBusy
  <1>4. CASE GetLine \/ RunBlockLine \/ ForIterate
    <2>1. frames # <<>> /\ Head(frames).pc = "loop" /\ open' = open
      BY <1>4 DEF GetLine, RunBlockLine, RunLine, ForIterate, Running, streamVars
    <2>2. Len(frames) = 1
      BY <2>1 DEF Halted, NotLooping
    <2> QED BY <2>1, <2>2 DEF Running
  <1>5. CASE RunSwitchLine \/ RunScript
    <2>1. frames = <<>> /\ open' = open
      BY <1>5 DEF RunSwitchLine, RunScript, streamVars
    <2> QED BY <2>1 DEF Running
  <1>6. CASE PipeFails
    <2>1. frames' = <<>> /\ open' = open
      BY <1>6 DEF PipeFails, streamVars
    <2>2. frames \in Seq(Frame)
      BY DEF Inv, StackOK
    <2> QED BY <2>1, <2>2
  <1>7. CASE ExecOperators \/ LaunchPipe
    <2>1. PICK k : frames' = AfterOperators(k) /\ frames # <<>> /\ Head(frames).pc = "ops"
                   /\ (LaunchPipe \/ open' = open)
      BY <1>7 DEF ExecOperators, LaunchPipe, Running
    <2>2. Len(frames') = Len(frames) /\ Len(frames) \in Nat /\ Head(frames').pc = "drop"
      BY <2>1, OperatorsDrop
    <2> QED BY <2>1, <2>2 DEF Running
  <1>8. CASE PopUntilLock \/ MainEnds \/ FreeStreamStack \/ Exited
    <2>1. frames' = frames /\ open' \subseteq open
      BY <1>8 DEF PopUntilLock, MainEnds, FreeStreamStack, Exited, PopStreamStack, Closed,
             streamVars, vars
    <2>2. frames \in Seq(Frame)
      BY DEF Inv, StackOK
    <2> QED BY <2>1, <2>2 DEF Running
  <1>9. CASE FinishNode /\ frames' # Tail(frames)
    <2>1. /\ frames' = [frames EXCEPT ![1].pos = NextPos, ![1].pc = "ops"] /\ frames # <<>>
          /\ Head(frames).pc # "drop" /\ open' = open
      BY <1>9 DEF FinishNode, Running, Top
    <2>2. frames \in Seq(Frame)
      BY DEF Inv, StackOK
    <2> QED BY <2>1, <2>2 DEF Running
  <1>10. CASE CmdIfRan \/ EndOfFor
    <2>1. /\ ReturnLookahead /\ frames # <<>> /\ Top.fn \in {"CmdIf", "CmdFor"} /\ open' = open
      BY <1>10 DEF CmdIfRan, EndOfFor, Running, Top, streamVars
    <2> QED BY <2>1, LookaheadReturns
  <1> QED BY <1>1, <1>2, <1>3, <1>4, <1>5, <1>6, <1>7, <1>8, <1>9, <1>10 DEF Next

\* Whatever the script, from the step that sets bAbortCommand to the one that
\* clears it no redirection is made, no command is run by this thread and no
\* function is called but by the script that main() starts; and no file is
\* opened but the pipe behind the operator a RunParsedLine is at, which that
\* RunParsedLine then leaves.
THEOREM QuietAbortHolds == Spec => QuietAbort
  <1>1. Inv /\ Halted /\ [Next]_vars => [abort # "no" => Quiet]_vars
    <2> SUFFICES ASSUME Inv, Halted, Next, abort # "no" PROVE Quiet
      OBVIOUS
    <2>1. NotBusy(frames')
      BY QuietStep
    <2> QED BY <2>1, UnwindStep DEF Quiet, NotBusy
  <1> QED BY <1>1, SpecInv, HaltedHolds, PTL DEF Spec, QuietAbort

-----------------------------------------------------------------------------
(* NoDangling.  The strengthening says what the stack is for: there is a    *)
(* sequence v of views, the current streams and then those that popping     *)
(* one, two... items gives back, such that the FILE* an item opened is in   *)
(* none of the views below it.                                              *)

Opened(v, s, i) == v[i][s[i].chan]

View(v, s) ==
    /\ v \in Seq([Channels -> Handles])
    /\ Len(v) = Len(s) + 1
    /\ \A i \in DOMAIN s :
        /\ s[i].old = v[i + 1][s[i].chan]
        /\ s[i].sub # NoFile => s[i].sub = v[i + 1]["err"]
        /\ \A c \in Channels : c # s[i].chan /\ (c # "err" \/ s[i].sub = NoFile)
                                  => v[i][c] = v[i + 1][c]
        /\ \A j \in DOMAIN v : j > i => \A c \in Channels : v[j][c] # Opened(v, s, i)

\* v are the views of the stack s under the streams st, all of them open.
Viewed(v, s, st, op) ==
    /\ View(v, s) /\ v[1] = st
    /\ \A k \in DOMAIN v : \A c \in Channels : v[k][c] \in op

Views == \E v : Viewed(v, stack, cur, open)

LEMMA ViewsNoDangling ==
    ASSUME StreamsOK, Views
    PROVE  NoDangling
  <1>1. PICK v : /\ View(v, stack) /\ v[1] = cur
                 /\ \A k \in DOMAIN v : \A c \in Channels : v[k][c] \in open
    BY DEF Views, Viewed
  <1>2. DOMAIN v = 1 .. (Len(stack) + 1) /\ DOMAIN stack = 1 .. Len(stack) /\ Len(stack) \in Nat
    BY <1>1 DEF View, StreamsOK
  <1>3. \A c \in Channels : cur[c] \in open
    BY <1>1, <1>2
  <1>4. ASSUME NEW i \in DOMAIN stack
        PROVE  stack[i].old \in open /\ stack[i].sub \in open \cup {NoFile}
    <2>1. i + 1 \in DOMAIN v /\ stack[i].chan \in Channels /\ "err" \in Channels
      <3>1. i + 1 \in DOMAIN v
        BY <1>2
      <3>2. stack[i] \in Item
        BY DEF StreamsOK
      <3> QED BY <3>1, <3>2 DEF Item, Channels
    <2>2. stack[i].old = v[i + 1][stack[i].chan]
          /\ (stack[i].sub # NoFile => stack[i].sub = v[i + 1]["err"])
      BY <1>1 DEF View
    <2> QED BY <1>1, <2>1, <2>2
  <1> QED BY <1>3, <1>4 DEF NoDangling

LEMMA ViewLock ==
    ASSUME NEW s \in Seq(Item), NEW b \in BOOLEAN, NEW v, View(v, s)
    PROVE  View(v, SetLock(s, b))
  <1>1. CASE s = <<>>
    BY <1>1 DEF SetLock
  <1>2. CASE s # <<>>
    <2> DEFINE t == SetLock(s, b)
    <2>1. /\ Len(t) = Len(s) /\ DOMAIN t = DOMAIN s
          /\ \A i \in DOMAIN s : /\ t[i].chan = s[i].chan /\ t[i].old = s[i].old
                                 /\ t[i].sub = s[i].sub
      <3>1. 1 \in DOMAIN s /\ s[1] \in Item
        BY <1>2
      <3>2. t = [s EXCEPT ![1] = [s[1] EXCEPT !.locked = b]]
        BY <1>2, <3>1 DEF SetLock
      <3> DEFINE x == [s[1] EXCEPT !.locked = b]
      <3>3. x.chan = s[1].chan /\ x.old = s[1].old /\ x.sub = s[1].sub
        BY <3>1 DEF Item
      <3> HIDE DEF x
      <3>4. Len([s EXCEPT ![1] = x]) = Len(s) /\ DOMAIN [s EXCEPT ![1] = x] = DOMAIN s
            /\ [s EXCEPT ![1] = x][1] = x
            /\ \A i \in DOMAIN s : i # 1 => [s EXCEPT ![1] = x][i] = s[i]
        BY <3>1
      <3> QED BY <3>2, <3>3, <3>4 DEF x
    <2> HIDE DEF t
    <2>2. View(v, t)
      BY <2>1 DEF View, Opened
    <2> QED BY <2>2 DEF t
  <1> QED BY <1>1, <1>2

LEMMA ViewPush ==
    ASSUME StreamsOK, NEW v, Viewed(v, stack, cur, open),
           NEW b \in BOOLEAN, NEW s \in Seq(Item), s = SetLock(stack, b) \/ s = stack,
           NEW ch \in Channels, NEW subst, OpenOutputF(s, ch, subst)
    PROVE  Viewed(<<cur'>> \o v, stack', cur', open')
  <1>1. /\ View(v, stack) /\ v[1] = cur
        /\ \A k \in DOMAIN v : \A c \in Channels : v[k][c] \in open
    BY DEF Viewed
  <1>2. View(v, s)
    BY <1>1, ViewLock DEF StreamsOK
  <1> DEFINE w == <<cur'>> \o v
             it == [chan |-> ch, old |-> cur[ch], locked |-> FALSE,
                    sub |-> IF CopiesToErr(ch, subst) THEN cur["err"] ELSE NoFile]
  <1>3. stack' = <<it>> \o s /\ open' = open \cup {NewHandle} /\ NewHandle \in Handles \ open
        /\ cur' = Redirected(ch, subst, NewHandle)
    BY DEF OpenOutputF, PushItem, NoHandle, NewHandle
  <1>4. cur' \in [Channels -> Handles] /\ "err" \in Channels
    BY <1>3 DEF Redirected, StreamsOK, Channels
  <1>5. /\ it.chan = ch /\ it.old = cur[ch]
        /\ it.sub # NoFile => it.sub = cur["err"]
        /\ it.sub = NoFile <=> ~CopiesToErr(ch, subst)
    BY HandlesAssumption, <1>4 DEF StreamsOK
  <1>6. /\ cur'[ch] = NewHandle
        /\ \A c \in Channels : c # ch /\ (c # "err" \/ it.sub = NoFile) => cur'[c] = cur[c]
        /\ \A c \in Channels : cur'[c] \in {NewHandle, cur[c]}
    BY <1>3, <1>5 DEF Redirected
  <1> HIDE DEF it
  <1>7. /\ v \in Seq([Channels -> Handles]) /\ Len(s) \in Nat /\ Len(v) = Len(s) + 1
        /\ DOMAIN v = 1 .. (Len(s) + 1) /\ DOMAIN s = 1 .. Len(s)
    BY <1>2 DEF View
  <1>8. /\ w \in Seq([Channels -> Handles]) /\ Len(w) = Len(s) + 2 /\ w[1] = cur'
        /\ DOMAIN w = 1 .. (Len(s) + 2)
        /\ \A k \in DOMAIN w : k # 1 => k - 1 \in DOMAIN v /\ w[k] = v[k - 1]
    BY <1>4, <1>7
  <1>9. /\ Len(stack') = Len(s) + 1 /\ DOMAIN stack' = 1 .. (Len(s) + 1) /\ stack'[1] = it
        /\ \A i \in DOMAIN stack' : i # 1 => i - 1 \in DOMAIN s /\ stack'[i] = s[i - 1]
    BY <1>3, <1>7
  <1> HIDE DEF w
  <1>10. \A c \in Channels : cur[c] \in open
    <2>1. 1 \in DOMAIN v
      BY <1>7
    <2> QED BY <1>1, <2>1
  <1>11. \A k \in DOMAIN w : \A c \in Channels : w[k][c] \in open'
    <2> TAKE k \in DOMAIN w
    <2> TAKE c \in Channels
    <2>1. CASE k = 1
      <3>1. cur[c] \in open
        BY <1>10
      <3>2. w[k][c] \in {NewHandle, cur[c]}
        BY <1>6, <1>8, <2>1
      <3> QED BY <1>3, <3>1, <3>2
    <2>2. CASE k # 1
      <3>1. k - 1 \in DOMAIN v /\ w[k] = v[k - 1]
        BY <1>8, <2>2
      <3> QED BY <1>1, <1>3, <3>1
    <2> QED BY <2>1, <2>2
  <1>12. ASSUME NEW i \in DOMAIN stack'
         PROVE  /\ stack'[i].old = w[i + 1][stack'[i].chan]
                /\ stack'[i].sub # NoFile => stack'[i].sub = w[i + 1]["err"]
                /\ \A c \in Channels :
                     c # stack'[i].chan /\ (c # "err" \/ stack'[i].sub = NoFile)
                       => w[i][c] = w[i + 1][c]
                /\ \A j \in DOMAIN w : j > i =>
                     \A c \in Channels : w[j][c] # Opened(w, stack', i)
    <2>1. CASE i = 1
      <3>1. 2 \in DOMAIN w /\ w[2] = cur /\ i + 1 = 2
        <4>1. 2 \in DOMAIN w /\ 2 - 1 = 1 /\ i + 1 = 2
          BY <1>7, <1>8, <2>1
        <4>2. w[2] = v[2 - 1]
          BY <1>8, <4>1
        <4> QED BY <1>1, <4>1, <4>2
      <3>2. Opened(w, stack', i) = NewHandle
        BY <1>5, <1>6, <1>8, <1>9, <2>1 DEF Opened
      <3>3. \A j \in DOMAIN w : j > i => \A c \in Channels : w[j][c] # NewHandle
        <4> TAKE j \in DOMAIN w
        <4> HAVE j > i
        <4>1. j - 1 \in DOMAIN v /\ w[j] = v[j - 1]
          BY <1>8, <2>1
        <4> QED BY <1>1, <1>3, <4>1
      <3> QED BY <1>5, <1>6, <1>8, <1>9, <2>1, <3>1, <3>2, <3>3
    <2>2. CASE i # 1
      <3> DEFINE m == i - 1
      <3>1. m \in DOMAIN s /\ stack'[i] = s[m] /\ m + 1 = i /\ m \in Nat
        BY <1>7, <1>9, <2>2
      <3>2. i \in DOMAIN w /\ i + 1 \in DOMAIN w
        BY <1>8, <1>9
      <3>3. w[i] = v[m] /\ w[i + 1] = v[m + 1]
        <4>1. (i + 1) - 1 = m + 1 /\ i + 1 # 1
          BY <3>1
        <4> QED BY <1>8, <2>2, <3>2, <4>1
      <3>4. Opened(w, stack', i) = Opened(v, s, m)
        BY <3>1, <3>3 DEF Opened
      <3>5. \A j \in DOMAIN w : j > i => \A c \in Channels : w[j][c] # Opened(v, s, m)
        <4> TAKE j \in DOMAIN w
        <4> HAVE j > i
        <4>1. j - 1 \in DOMAIN v /\ w[j] = v[j - 1] /\ j - 1 > m
          BY <1>8, <1>9, <3>1
        <4> QED BY <1>2, <3>1, <4>1 DEF View
      <3> HIDE DEF m
      <3> QED BY <1>2, <3>1, <3>3, <3>4, <3>5 DEF View
    <2> QED BY <2>1, <2>2
  <1>13. View(w, stack')
    <2>1. Len(w) = Len(stack') + 1
      BY <1>7, <1>8, <1>9
    <2> QED BY <1>8, <1>12, <2>1 DEF View
  <1> QED BY <1>8, <1>11, <1>13 DEF Viewed, w

LEMMA ViewPop ==
    ASSUME StreamsOK, NEW v, Viewed(v, stack, cur, open), stack # <<>>, PopStreamStack
    PROVE  Viewed(Tail(v), stack', cur', open')
  <1>1. /\ View(v, stack) /\ v[1] = cur
        /\ \A k \in DOMAIN v : \A c \in Channels : v[k][c] \in open
    BY DEF Viewed
  <1> DEFINE w == Tail(v)
             top == stack[1]
  <1>2. /\ stack \in Seq(Item) /\ Len(stack) \in Nat /\ Len(stack) > 0
        /\ 1 \in DOMAIN stack /\ DOMAIN stack = 1 .. Len(stack)
        /\ Head(stack) = top
    BY DEF StreamsOK
  <1>3. top.chan \in Channels
    <2>1. top \in Item
      BY <1>2
    <2> HIDE DEF top
    <2> QED BY <2>1 DEF Item
  <1>4. /\ v \in Seq([Channels -> Handles]) /\ Len(v) = Len(stack) + 1
        /\ DOMAIN v = 1 .. (Len(stack) + 1)
    BY <1>1, <1>2 DEF View
  <1>5. /\ w \in Seq([Channels -> Handles]) /\ Len(w) = Len(stack)
        /\ DOMAIN w = 1 .. Len(stack)
        /\ \A k \in DOMAIN w : k + 1 \in DOMAIN v /\ k + 1 > 1 /\ w[k] = v[k + 1]
    BY <1>2, <1>4
  <1>6. /\ stack' = Tail(stack) /\ Len(stack') = Len(stack) - 1
        /\ DOMAIN stack' = 1 .. (Len(stack) - 1)
        /\ \A k \in DOMAIN stack' : k + 1 \in DOMAIN stack /\ stack'[k] = stack[k + 1]
    <2>1. stack' = Tail(stack)
      BY DEF PopStreamStack
    <2> QED BY <1>2, <2>1
  <1> HIDE DEF w
  <1>7. w[1] = v[2] /\ 2 \in DOMAIN v /\ v[2] \in [Channels -> Handles]
    <2>1. 1 \in DOMAIN w /\ 1 + 1 = 2
      BY <1>2, <1>5
    <2>2. w[1] = v[1 + 1] /\ 1 + 1 \in DOMAIN v
      BY <1>5, <2>1
    <2> QED BY <1>4, <2>1, <2>2
  <1>8. cur' = v[2]
    <2>1. /\ top.old = v[1 + 1][top.chan]
          /\ top.sub # NoFile => top.sub = v[1 + 1]["err"]
          /\ \A c \in Channels : c # top.chan /\ (c # "err" \/ top.sub = NoFile)
                                    => v[1][c] = v[1 + 1][c]
      BY <1>1, <1>2 DEF View
    <2>2. 1 + 1 = 2
      OBVIOUS
    <2>3. cur' = Undone(top)
      BY <1>2 DEF PopStreamStack
    <2> HIDE DEF top
    <2>4. ASSUME NEW c \in Channels
          PROVE  Undone(top)[c] = v[2][c]
      BY <1>1, <2>1, <2>2 DEF Undone
    <2> QED BY <1>7, <2>3, <2>4 DEF Undone
  <1>9. open' = open \ {Opened(v, stack, 1)}
    BY <1>1, <1>2 DEF PopStreamStack, Closed, Opened
  <1>10. \A k \in DOMAIN w : \A c \in Channels : w[k][c] \in open'
    <2> TAKE k \in DOMAIN w
    <2> TAKE c \in Channels
    <2>1. k + 1 \in DOMAIN v /\ k + 1 > 1 /\ w[k] = v[k + 1]
      BY <1>5
    <2>2. v[k + 1][c] # Opened(v, stack, 1)
      BY <1>1, <1>2, <2>1 DEF View
    <2> QED BY <1>1, <1>9, <2>1, <2>2
  <1>11. ASSUME NEW i \in DOMAIN stack'
         PROVE  /\ stack'[i].old = w[i + 1][stack'[i].chan]
                /\ stack'[i].sub # NoFile => stack'[i].sub = w[i + 1]["err"]
                /\ \A c \in Channels :
                     c # stack'[i].chan /\ (c # "err" \/ stack'[i].sub = NoFile)
                       => w[i][c] = w[i + 1][c]
                /\ \A j \in DOMAIN w : j > i =>
                     \A c \in Channels : w[j][c] # Opened(w, stack', i)
    <2> DEFINE m == i + 1
    <2>1. m \in DOMAIN stack /\ stack'[i] = stack[m]
      BY <1>6
    <2>2. i \in DOMAIN w /\ i + 1 \in DOMAIN w /\ i \in Nat
      BY <1>5, <1>6
    <2>3. w[i] = v[m] /\ w[i + 1] = v[m + 1]
      BY <1>5, <2>2
    <2>4. Opened(w, stack', i) = Opened(v, stack, m)
      BY <2>1, <2>3 DEF Opened
    <2>5. \A j \in DOMAIN w : j > i => \A c \in Channels : w[j][c] # Opened(v, stack, m)
      <3> TAKE j \in DOMAIN w
      <3> HAVE j > i
      <3>1. j + 1 \in DOMAIN v /\ w[j] = v[j + 1] /\ j + 1 > m
        BY <1>5, <2>2
      <3> QED BY <1>1, <2>1, <3>1 DEF View
    <2> HIDE DEF m
    <2> QED BY <1>1, <2>1, <2>3, <2>4, <2>5 DEF View
  <1>12. View(w, stack')
    <2>1. Len(w) = Len(stack') + 1
      BY <1>2, <1>5, <1>6
    <2> QED BY <1>5, <1>11, <2>1 DEF View
  <1> QED BY <1>7, <1>8, <1>10, <1>12 DEF Viewed, w

\* OpenOutput drops the stack: nothing of it will be closed or restored.
LEMMA ViewDrop ==
    ASSUME StreamsOK, Views, OpenOutputFails
    PROVE  Views'
  <1>1. \A c \in Channels : cur[c] \in open
    BY ViewsNoDangling DEF NoDangling
  <1> DEFINE w == <<cur>>
  <1>2. /\ w \in Seq([Channels -> Handles]) /\ Len(w) = 1 /\ DOMAIN w = {1} /\ w[1] = cur
    BY DEF StreamsOK
  <1>3. stack' = <<>> /\ cur' = cur /\ open' = open
    BY DEF OpenOutputFails
  <1> HIDE DEF w
  <1>4. View(w, <<>>)
    BY <1>2 DEF View
  <1> QED BY <1>1, <1>2, <1>3, <1>4 DEF Views, Viewed

LEMMA ViewsStep == Inv /\ Views /\ [Next]_vars => Views'
  <1> SUFFICES ASSUME Inv, Views, [Next]_vars PROVE Views'
    OBVIOUS
  <1>0. StreamsOK
    BY DEF Inv
  <1>1. CASE KeepsStreams \/ UNCHANGED vars
    <2>1. UNCHANGED <<stack, cur, open>>
      BY <1>1, KeepsStreamsOK DEF streamVars, vars
    <2> QED BY <2>1 DEF Views
  <1>2. CASE MovesLock
    <2>1. PICK b \in BOOLEAN : stack' = SetLock(stack, b) /\ UNCHANGED <<cur, open>>
      BY <1>2, MovesLockOK
    <2>2. PICK v : Viewed(v, stack, cur, open)
      BY DEF Views
    <2>3. View(v, stack')
      BY <1>0, <2>1, <2>2, ViewLock DEF StreamsOK, Viewed
    <2> QED BY <2>1, <2>2, <2>3 DEF Views, Viewed
  <1>3. CASE LaunchPipe
    <2>1. SetLock(stack, TRUE) \in Seq(Item) /\ "in" \in Channels
      BY <1>0, LockType DEF StreamsOK, Channels
    <2>2. OpenOutputF(SetLock(stack, TRUE), "in", "none")
      BY <1>3 DEF LaunchPipe
    <2> QED BY <1>0, <2>1, <2>2, ViewPush DEF Views
  <1>4. CASE ExecOutput
    <2>1. CASE OpenOutputF(stack, NextChannel, Current.subst)
      <3>1. NextChannel \in Channels /\ stack \in Seq(Item)
        BY <1>0, <1>4, NextChannelType DEF ExecOutput, Running, StreamsOK
      <3> QED BY <1>0, <2>1, <3>1, ViewPush DEF Views
    <2>2. CASE OpenOutputFails
      BY <1>0, <2>2, ViewDrop
    <2> QED BY <1>4, <2>1, <2>2 DEF ExecOutput
  <1>5. CASE PopUntilLock
    <2>1. stack # <<>> /\ PopStreamStack
      BY <1>5 DEF PopUntilLock, Locked
    <2> QED BY <1>0, <2>1, ViewPop DEF Views
  <1>6. CASE FreeStreamStack
    BY <1>0, <1>6, ViewPop DEF FreeStreamStack, Views
  <1> QED BY <1>1, <1>2, <1>3, <1>4, <1>5, <1>6 DEF Next, KeepsStreams, MovesLock

LEMMA ViewsInit == Init => Views
  <1> SUFFICES ASSUME Init PROVE Views
    OBVIOUS
  <1>1. /\ stack = <<>> /\ \A c \in Channels : cur[c] \in open
        /\ cur \in [Channels -> Handles]
    <2>1. stack = <<>> /\ open = {Stdin, Stdout, Stderr}
      BY DEF Init
    <2>2. cur \in [Channels -> Handles]
      BY InitInv DEF Inv, StreamsOK
    <2>3. \A c \in Channels : cur[c] \in open
      BY <2>1 DEF Init
    <2> QED BY <2>1, <2>2, <2>3
  <1> DEFINE w == <<cur>>
  <1>2. /\ w \in Seq([Channels -> Handles]) /\ Len(w) = 1 /\ DOMAIN w = {1} /\ w[1] = cur
    BY <1>1
  <1> HIDE DEF w
  <1>3. View(w, <<>>)
    BY <1>2 DEF View
  <1> QED BY <1>1, <1>2, <1>3 DEF Views, Viewed

\* Whatever the script, however its redirections nest, and whichever of them
\* fail: no FILE* that can still be used or restored has been closed.
THEOREM NoDanglingHolds == Spec => []NoDangling
  <1>1. Inv /\ Views => NoDangling
    BY ViewsNoDangling DEF Inv
  <1> QED BY <1>1, ViewsInit, ViewsStep, SpecInv, PTL DEF Spec

-----------------------------------------------------------------------------
(* NoLeak.  Besides the standard streams, which are the bottom view, the    *)
(* open FILE* are those that an item of the stack opened, each one another. *)

Standard == {Stdin, Stdout, Stderr}
Accounted(v, s, op) ==
    /\ {v[Len(v)][c] : c \in Channels} = Standard
    /\ op = Standard \cup {Opened(v, s, i) : i \in DOMAIN s}

LeakInv == ~lost => \E v : Viewed(v, stack, cur, open) /\ Accounted(v, stack, open)

LEMMA LockFacts ==
    ASSUME NEW s \in Seq(Item), NEW b \in BOOLEAN
    PROVE  /\ Len(SetLock(s, b)) = Len(s) /\ DOMAIN SetLock(s, b) = DOMAIN s
           /\ \A i \in DOMAIN s : SetLock(s, b)[i].chan = s[i].chan
  <1>1. CASE s = <<>>
    BY <1>1 DEF SetLock
  <1>2. CASE s # <<>>
    <2>1. 1 \in DOMAIN s /\ s[1] \in Item
      BY <1>2
    <2> DEFINE x == [s[1] EXCEPT !.locked = b]
    <2>2. SetLock(s, b) = [s EXCEPT ![1] = x] /\ x.chan = s[1].chan
      BY <1>2, <2>1 DEF SetLock, Item
    <2> HIDE DEF x
    <2>3. Len([s EXCEPT ![1] = x]) = Len(s) /\ DOMAIN [s EXCEPT ![1] = x] = DOMAIN s
          /\ [s EXCEPT ![1] = x][1] = x
          /\ \A i \in DOMAIN s : i # 1 => [s EXCEPT ![1] = x][i] = s[i]
      BY <2>1
    <2> QED BY <2>2, <2>3
  <1> QED BY <1>1, <1>2

LEMMA AccountedLock ==
    ASSUME NEW s \in Seq(Item), NEW b \in BOOLEAN, NEW v, NEW op, Accounted(v, s, op)
    PROVE  Accounted(v, SetLock(s, b), op)
  <1> DEFINE t == SetLock(s, b)
  <1>1. DOMAIN t = DOMAIN s /\ \A i \in DOMAIN s : t[i].chan = s[i].chan
    BY LockFacts
  <1> HIDE DEF t
  <1>2. Accounted(v, t, op)
    BY <1>1 DEF Accounted, Opened
  <1> QED BY <1>2 DEF t

LEMMA AccountedPush ==
    ASSUME NEW v, View(v, stack), stack \in Seq(Item),
           NEW s \in Seq(Item), Accounted(v, s, open), Len(s) = Len(stack),
           NEW ch \in Channels, NEW subst, OpenOutputF(s, ch, subst)
    PROVE  Accounted(<<cur'>> \o v, stack', open')
  <1> DEFINE w == <<cur'>> \o v
             it == [chan |-> ch, old |-> cur[ch], locked |-> FALSE,
                    sub |-> IF CopiesToErr(ch, subst) THEN cur["err"] ELSE NoFile]
             h == NewHandle
  <1>1. stack' = <<it>> \o s /\ open' = open \cup {h}
    BY DEF OpenOutputF, PushItem
  <1>2. cur'[ch] = h /\ it.chan = ch
    BY DEF OpenOutputF, Redirected
  <1> HIDE DEF it, h
  <1>3. Len(v) = Len(s) + 1 /\ Len(s) \in Nat /\ DOMAIN s = 1 .. Len(s)
        /\ v \in Seq([Channels -> Handles])
    BY DEF View
  <1>4. /\ Len(w) = Len(v) + 1 /\ w[1] = cur'
        /\ \A k \in 1 .. Len(v) : w[k + 1] = v[k]
    BY <1>3
  <1>5. /\ DOMAIN stack' = 1 .. Len(s) + 1 /\ stack'[1] = it
        /\ \A i \in DOMAIN s : stack'[i + 1] = s[i]
    BY <1>1, <1>3
  <1> HIDE DEF w
  <1>6. w[Len(w)] = v[Len(v)]
    BY <1>3, <1>4
  <1>7. Opened(w, stack', 1) = h
    BY <1>2, <1>4, <1>5 DEF Opened
  <1>8. \A i \in DOMAIN s : Opened(w, stack', i + 1) = Opened(v, s, i)
    BY <1>3, <1>4, <1>5 DEF Opened
  <1>9. {Opened(w, stack', i) : i \in DOMAIN stack'} = {Opened(v, s, i) : i \in DOMAIN s} \cup {h}
    <2>1. ASSUME NEW i \in DOMAIN stack', i # 1
          PROVE  Opened(w, stack', i) \in {Opened(v, s, k) : k \in DOMAIN s}
      <3>1. i - 1 \in DOMAIN s /\ (i - 1) + 1 = i
        BY <1>3, <1>5, <2>1
      <3>2. Opened(w, stack', (i - 1) + 1) = Opened(v, s, i - 1)
        BY <1>8, <3>1
      <3> QED BY <3>1, <3>2
    <2>2. \A i \in DOMAIN s : i + 1 \in DOMAIN stack'
      BY <1>3, <1>5
    <2>3. 1 \in DOMAIN stack'
      BY <1>3, <1>5
    <2> QED BY <1>7, <1>8, <2>1, <2>2, <2>3
  <1>10. {w[Len(w)][c] : c \in Channels} = Standard
    BY <1>6 DEF Accounted
  <1>11. open' = Standard \cup {Opened(w, stack', i) : i \in DOMAIN stack'}
    BY <1>1, <1>9 DEF Accounted
  <1> QED BY <1>10, <1>11 DEF Accounted, w

LEMMA AccountedPop ==
    ASSUME NEW v, Viewed(v, stack, cur, open), Accounted(v, stack, open),
           stack \in Seq(Item), stack # <<>>, PopStreamStack
    PROVE  Accounted(Tail(v), stack', open')
  <1> DEFINE w == Tail(v)
  <1>1. /\ Len(stack) \in Nat /\ Len(stack) > 0 /\ DOMAIN stack = 1 .. Len(stack)
        /\ Len(v) = Len(stack) + 1 /\ v \in Seq([Channels -> Handles])
        /\ DOMAIN v = 1 .. Len(stack) + 1 /\ v[1] = cur
    BY DEF View, Viewed
  <1>2. Len(w) = Len(stack) /\ \A k \in 1 .. Len(stack) : w[k] = v[k + 1]
    BY <1>1
  <1>3. /\ DOMAIN stack' = 1 .. (Len(stack) - 1)
        /\ \A i \in 1 .. (Len(stack) - 1) : stack'[i] = stack[i + 1]
    BY <1>1 DEF PopStreamStack
  <1> HIDE DEF w
  <1>4. w[Len(w)] = v[Len(v)]
    BY <1>1, <1>2
  <1> DEFINE h == Opened(v, stack, 1)
  <1>5. open' = open \ {h}
    BY <1>1 DEF PopStreamStack, Closed, Opened
  <1>6. \A j \in DOMAIN v : j > 1 => \A c \in Channels : v[j][c] # h
    <2>1. 1 \in DOMAIN stack
      BY <1>1
    <2> QED BY <2>1 DEF View, Viewed
  <1>7. \A i \in DOMAIN stack' : i + 1 \in DOMAIN stack /\ Opened(w, stack', i) = Opened(v, stack, i + 1)
    <2> TAKE i \in DOMAIN stack'
    <2>1. i \in 1 .. (Len(stack) - 1) /\ i \in 1 .. Len(stack) /\ i + 1 \in DOMAIN stack
      BY <1>1, <1>3
    <2>2. stack'[i] = stack[i + 1] /\ w[i] = v[i + 1]
      BY <1>2, <1>3, <2>1
    <2> QED BY <2>1, <2>2 DEF Opened
  <1>8. ASSUME NEW i \in DOMAIN stack, i # 1
        PROVE  Opened(v, stack, i) # h
    <2>1. stack[i] \in Item
      BY <1>1
    <2>2. stack[i].chan \in Channels
      BY <2>1 DEF Item
    <2>3. i \in DOMAIN v /\ i > 1
      BY <1>1, <1>8
    <2> QED BY <1>6, <2>2, <2>3 DEF Opened
  <1>9. h \notin Standard
    <2>1. Len(v) \in DOMAIN v /\ Len(v) > 1
      BY <1>1
    <2>2. \A c \in Channels : v[Len(v)][c] # h
      BY <1>6, <2>1
    <2>3. \A x \in {v[Len(v)][c] : c \in Channels} : x # h
      BY <2>2
    <2> QED BY <2>3 DEF Accounted
  <1>10. ASSUME NEW i \in DOMAIN stack, i # 1
         PROVE  i - 1 \in DOMAIN stack' /\ Opened(w, stack', i - 1) = Opened(v, stack, i)
    <2>1. i - 1 \in DOMAIN stack' /\ (i - 1) + 1 = i
      BY <1>1, <1>3, <1>10
    <2>2. Opened(w, stack', i - 1) = Opened(v, stack, (i - 1) + 1)
      BY <1>7, <2>1
    <2> QED BY <2>1, <2>2
  <1>11. \A i \in DOMAIN stack' : i + 1 # 1
    BY <1>3
  <1>12. {Opened(w, stack', i) : i \in DOMAIN stack'} = {Opened(v, stack, i) : i \in DOMAIN stack} \ {h}
    <2> HIDE DEF h
    <2>1. ASSUME NEW i \in DOMAIN stack'
          PROVE  Opened(w, stack', i) \in {Opened(v, stack, k) : k \in DOMAIN stack} \ {h}
      BY <1>7, <1>8, <1>11
    <2>2. ASSUME NEW i \in DOMAIN stack, Opened(v, stack, i) # h
          PROVE  Opened(v, stack, i) \in {Opened(w, stack', k) : k \in DOMAIN stack'}
      <3>1. i # 1
        BY <2>2 DEF h
      <3> QED BY <1>10, <3>1
    <2> QED BY <2>1, <2>2
  <1> HIDE DEF h
  <1>13. {w[Len(w)][c] : c \in Channels} = Standard
    BY <1>4 DEF Accounted
  <1>14. open' = Standard \cup {Opened(w, stack', i) : i \in DOMAIN stack'}
    BY <1>5, <1>9, <1>12 DEF Accounted
  <1> QED BY <1>13, <1>14 DEF Accounted, w

LEMMA LeakStep == Inv /\ LeakInv /\ [Next]_vars => LeakInv'
  <1> SUFFICES ASSUME Inv, LeakInv, [Next]_vars, ~lost'
               PROVE  \E w : Viewed(w, stack', cur', open') /\ Accounted(w, stack', open')
    BY DEF LeakInv
  <1>0. StreamsOK /\ stack \in Seq(Item)
    BY DEF Inv, StreamsOK
  <1>1. CASE KeepsStreams \/ UNCHANGED vars
    <2>1. UNCHANGED <<stack, cur, open, lost>>
      BY <1>1, KeepsStreamsOK DEF streamVars, vars
    <2> QED BY <2>1 DEF LeakInv
  <1>2. CASE MovesLock
    <2>1. PICK b \in BOOLEAN : stack' = SetLock(stack, b) /\ UNCHANGED <<cur, open, lost>>
      BY <1>2, MovesLockOK
    <2>2. PICK v : Viewed(v, stack, cur, open) /\ Accounted(v, stack, open)
      BY <2>1 DEF LeakInv
    <2>3. View(v, stack')
      BY <1>0, <2>1, <2>2, ViewLock DEF Viewed
    <2>4. Accounted(v, stack', open)
      BY <1>0, <2>1, <2>2, AccountedLock
    <2> QED BY <2>1, <2>2, <2>3, <2>4 DEF Viewed
  <1>3. CASE LaunchPipe
    <2> DEFINE s == SetLock(stack, TRUE)
    <2>1. s \in Seq(Item) /\ "in" \in Channels
      BY <1>0, LockType DEF Channels
    <2>2. OpenOutputF(s, "in", "none")
      BY <1>3 DEF LaunchPipe
    <2>3. PICK v : Viewed(v, stack, cur, open) /\ Accounted(v, stack, open)
      BY <2>2 DEF LeakInv, OpenOutputF
    <2>4. Accounted(v, s, open) /\ Len(s) = Len(stack)
      BY <1>0, <2>3, AccountedLock, LockFacts
    <2>5. Viewed(<<cur'>> \o v, stack', cur', open')
      BY <1>0, <2>1, <2>2, <2>3, ViewPush
    <2>6. Accounted(<<cur'>> \o v, stack', open')
      <3>1. View(v, stack)
        BY <2>3 DEF Viewed
      <3> HIDE DEF s
      <3> QED BY <1>0, <2>1, <2>2, <2>4, <3>1, AccountedPush
    <2> QED BY <2>5, <2>6
  <1>4. CASE ExecOutput
    <2>1. CASE OpenOutputF(stack, NextChannel, Current.subst)
      <3>1. NextChannel \in Channels
        BY <1>4, NextChannelType DEF ExecOutput, Running
      <3>2. PICK v : Viewed(v, stack, cur, open) /\ Accounted(v, stack, open)
        BY <2>1 DEF LeakInv, OpenOutputF
      <3>3. Viewed(<<cur'>> \o v, stack', cur', open')
        BY <1>0, <2>1, <3>1, <3>2, ViewPush
      <3>4. Accounted(<<cur'>> \o v, stack', open')
        <4>1. View(v, stack)
          BY <3>2 DEF Viewed
        <4> QED BY <1>0, <2>1, <3>1, <3>2, <4>1, AccountedPush
      <3> QED BY <3>3, <3>4
    <2>2. CASE OpenOutputFails
      <3>1. ~lost /\ UNCHANGED <<stack, cur, open>>
        BY <2>2 DEF OpenOutputFails
      <3> QED BY <3>1 DEF LeakInv
    <2> QED BY <1>4, <2>1, <2>2 DEF ExecOutput
  <1>5. CASE PopUntilLock \/ FreeStreamStack
    <2>1. stack # <<>> /\ PopStreamStack
      BY <1>5 DEF PopUntilLock, FreeStreamStack, Locked
    <2>2. PICK v : Viewed(v, stack, cur, open) /\ Accounted(v, stack, open)
      BY <2>1 DEF LeakInv, PopStreamStack
    <2>3. Viewed(Tail(v), stack', cur', open')
      BY <1>0, <2>1, <2>2, ViewPop
    <2>4. Accounted(Tail(v), stack', open')
      BY <1>0, <2>1, <2>2, AccountedPop
    <2> QED BY <2>3, <2>4
  <1> QED BY <1>1, <1>2, <1>3, <1>4, <1>5 DEF Next, KeepsStreams, MovesLock

LEMMA LeakInit == Init => LeakInv
  <1> SUFFICES ASSUME Init PROVE LeakInv
    OBVIOUS
  <1>1. PICK v : Viewed(v, stack, cur, open)
    BY ViewsInit DEF Views
  <1>2. stack = <<>> /\ open = Standard
    BY DEF Init, Standard
  <1>3. Len(v) = 1 /\ v[1] = cur
    BY <1>1, <1>2 DEF Viewed, View
  <1>4. {cur[c] : c \in Channels} = Standard
    <2>1. cur["in"] = Stdin /\ cur["out"] = Stdout /\ cur["err"] = Stderr
      BY DEF Init, Channels
    <2>2. {cur[c] : c \in Channels} = {cur["in"], cur["out"], cur["err"]}
      BY DEF Channels
    <2> QED BY <2>1, <2>2 DEF Standard
  <1>5. Accounted(v, stack, open)
    BY <1>2, <1>3, <1>4 DEF Accounted
  <1> QED BY <1>1, <1>5 DEF LeakInv

\* When the process has unwound its redirections it has closed every FILE* that
\* one of them opened, unless a redirection that failed dropped the stack.
THEOREM NoLeakHolds == Spec => []NoLeak
  <1>1. LeakInv => NoLeak
    <2> SUFFICES ASSUME LeakInv, ~lost, stack = <<>> PROVE open = {Stdin, Stdout, Stderr}
      BY DEF NoLeak
    <2>1. PICK v : Accounted(v, stack, open)
      BY DEF LeakInv
    <2>2. DOMAIN stack = {}
      OBVIOUS
    <2> QED BY <2>1, <2>2 DEF Accounted, Standard
  <1> QED BY <1>1, LeakInit, LeakStep, SpecInv, PTL DEF Spec

-----------------------------------------------------------------------------
(* What the calls find when those they made return, normally or because of GOTO or EXIT. *)

(* The four ways in which an action changes the call stack. *)

\* The top call goes on as g, its function and the streams it was given being the same.
Same(g) == g \in Frame /\ g.fn = Top.fn /\ g.was = Top.was /\ g.lock = Top.lock
Now(g) == [frames EXCEPT ![1] = g]
GoTo(pc, pos) == [frames EXCEPT ![1].pc = pc, ![1].pos = pos]

LEMMA AtShape ==
    ASSUME Inv, frames # <<>>, NEW pc \in Points
    PROVE  \E g : Same(g) /\ g.pc = pc /\ At(pc) = Now(g)
  <1> DEFINE g == [Top EXCEPT !.pc = pc]
  <1>1. Top = frames[1] /\ 1 \in DOMAIN frames /\ Top \in Frame /\ frames \in Seq(Frame)
    BY TopFacts DEF Inv, StackOK
  <1>2. At(pc) = Now(g)
    BY <1>1 DEF At, Now
  <1>3. Same(g) /\ g.pc = pc
    BY <1>1 DEF Frame, Same
  <1> QED BY <1>2, <1>3

LEMMA PosShape ==
    ASSUME Inv, frames # <<>>, NEW pc \in Points, NEW pos \in Nat
    PROVE  /\ \E g : Same(g) /\ g.pc = pc /\ GoTo(pc, pos) = Now(g)
           /\ [frames EXCEPT ![1].pos = pos, ![1].pc = pc] = GoTo(pc, pos)
  <1> DEFINE g == [Top EXCEPT !.pc = pc, !.pos = pos]
  <1>1. Top = frames[1] /\ 1 \in DOMAIN frames /\ Top \in Frame /\ frames \in Seq(Frame)
    BY TopFacts DEF Inv, StackOK
  <1>2. GoTo(pc, pos) = Now(g)
    BY <1>1 DEF Now, GoTo
  <1>3. [frames EXCEPT ![1].pos = pos, ![1].pc = pc] = Now(g)
    BY <1>1 DEF Now
  <1>4. Same(g) /\ g.pc = pc
    BY <1>1 DEF Frame, Same
  <1> QED BY <1>2, <1>3, <1>4

\* IF and FOR return to a call that waits at "pop".
LEMMA LookaheadShape ==
    ASSUME Inv, frames # <<>>, Top.fn \in {"CmdIf", "CmdFor"}, ReturnLookahead
    PROVE  /\ Tail(frames) \in Seq(Frame) /\ 1 \in DOMAIN Tail(frames)
           /\ \E g \in Frame : LET f == Tail(frames)[1] IN
                /\ frames' = [Tail(frames) EXCEPT ![1] = g]
                /\ g.fn = f.fn /\ g.was = f.was /\ g.lock = f.lock /\ g.pc = f.pc
                /\ f.fn = "RunParsedLine" /\ f.pc = "pop"
  <1> DEFINE f == Tail(frames)[1]
             g == [f EXCEPT !.pos = 0]
  <1>1. frames \in Seq(Frame) /\ Top = frames[1] /\ 1 \in DOMAIN frames
        /\ StackOK(frames, lines)
    BY TopFacts DEF Inv, StackOK
  <1>2. 1 + 1 \in DOMAIN frames /\ frames[1 + 1].fn = "RunParsedLine" /\ frames[1 + 1].pc = "pop"
    BY <1>1 DEF StackOK
  <1>3. /\ Tail(frames) \in Seq(Frame) /\ 1 \in DOMAIN Tail(frames)
        /\ f = frames[1 + 1] /\ f \in Frame
    BY <1>1, <1>2
  <1>4. frames' = [Tail(frames) EXCEPT ![1] = g]
    BY <1>3 DEF ReturnLookahead
  <1> HIDE DEF f
  <1>5. g \in Frame /\ g.fn = f.fn /\ g.was = f.was /\ g.lock = f.lock /\ g.pc = f.pc
    BY <1>3 DEF Frame
  <1> QED BY <1>2, <1>3, <1>4, <1>5 DEF f

\* ExecOperators moves along the line and saves the lock.
LEMMA OperatorsShape ==
    ASSUME Inv, Running("RunParsedLine", "ops"), NEW k \in Nat,
           k \in Top.pos .. Len(Nodes)
    PROVE  \E g \in Frame : /\ AfterOperators(k) = Now(g)
                            /\ g.fn = Top.fn /\ g.was = Top.was /\ g.lock = Locked(stack)
                            /\ g.pc \in {"drop", "redir"}
  <1>1. frames # <<>> /\ NeedsNode(Top)
    BY DEF Running, Top, NeedsNode
  <1>2. /\ Top = frames[1] /\ Top \in Frame /\ 1 \in DOMAIN frames /\ frames \in Seq(Frame)
        /\ Nodes \in Seq(Node) /\ Top.pos \in 1 .. Len(Nodes)
    BY <1>1, TopFacts DEF Inv, StackOK
  <1>3. k \in DOMAIN Nodes /\ Nodes[k] \in Node
    BY <1>2
  <1> DEFINE look == Current.cmd \in Lookahead
             todo == IF look THEN {} ELSE Nodes[k].redir
             pc == IF Dropped THEN "drop" ELSE "redir"
             g == [Top EXCEPT !.pos = k, !.lock = Locked(stack), !.look = look,
                              !.todo = todo, !.pc = pc]
  <1>4. look \in BOOLEAN /\ todo \subseteq Channels /\ pc \in Points /\ pc \in {"drop", "redir"}
    BY <1>3 DEF Points, Node
  <1>5. Locked(stack) \in BOOLEAN
    BY LockType DEF Inv, StreamsOK
  <1>6. AfterOperators(k) = Now(g)
    BY <1>2 DEF AfterOperators, Now
  <1> HIDE DEF look, todo, pc
  <1>7. g \in Frame /\ g.fn = Top.fn /\ g.was = Top.was /\ g.lock = Locked(stack) /\ g.pc = pc
    BY <1>2, <1>4, <1>5 DEF Frame
  <1> QED BY <1>4, <1>6, <1>7

-----------------------------------------------------------------------------
(* AbortLevel.  A batch file that ends because of EXIT /B returns to the    *)
(* CALL that started it, and no batch file starts while bAbortCommand is    *)
(* set, but for the script after an EXIT /B in pBat_Auto.bat or a GOTO in   *)
(* the command of /C, which were raised in no batch file that goes on.      *)

Chained(fs) ==
    \A i \in DOMAIN fs : fs[i].fn = "RunBatch" /\ i + 1 \in DOMAIN fs
        => fs[i + 1].fn = "CmdCallFile" /\ fs[i + 1].pc = "ran"

Starts(fs) == fs # <<>> /\ Head(fs).fn = "RunBatch" /\ Head(fs).pc = "loop"
Returned(fs) == fs # <<>> /\ Head(fs).fn = "CmdCallFile" /\ Head(fs).pc = "ran"

Batches(fs) == {i \in DOMAIN fs : fs[i].fn = "RunBatch"}
Level(fs) == Cardinality(Batches(fs))

LevelOK(fs) ==
    /\ abort = "line_end" /\ raised > 0 => Level(fs) = raised
    /\ abort = "level" /\ raised > 1 =>
         Level(fs) = raised \/ (Level(fs) = raised - 1 /\ Returned(fs))
    /\ Starts(fs) => ~(abort = "line_end" /\ raised > 0) /\ ~(abort = "level" /\ raised > 1)

LevelInv == Chained(frames) /\ (phase # "exit" => LevelOK(frames))

LEMMA BatchesFinite ==
    ASSUME NEW fs \in Seq(Frame)
    PROVE  IsFiniteSet(Batches(fs)) /\ Level(fs) \in Nat
  <1>1. DOMAIN fs = 1 .. Len(fs) /\ Len(fs) \in Nat
    OBVIOUS
  <1>2. IsFiniteSet(1 .. Len(fs))
    BY <1>1, FS_Interval
  <1>3. Batches(fs) \subseteq 1 .. Len(fs)
    BY <1>1 DEF Batches
  <1>4. IsFiniteSet(Batches(fs))
    BY <1>2, <1>3, FS_Subset
  <1> QED BY <1>4, FS_CardinalityType DEF Level

LEMMA LevelPush ==
    ASSUME NEW fs \in Seq(Frame), NEW g \in Frame
    PROVE  Level(<<g>> \o fs) = Level(fs) + (IF g.fn = "RunBatch" THEN 1 ELSE 0)
  <1> DEFINE new == <<g>> \o fs
             S == Batches(fs)
             T == Batches(new)
             f == [i \in S |-> i + 1]
  <1>1. /\ new \in Seq(Frame) /\ DOMAIN new = 1 .. (Len(fs) + 1) /\ Len(fs) \in Nat
        /\ DOMAIN fs = 1 .. Len(fs) /\ new[1] = g
        /\ \A i \in DOMAIN fs : new[i + 1] = fs[i]
    OBVIOUS
  <1> HIDE DEF new
  <1>2. IsFiniteSet(S) /\ IsFiniteSet(T)
    BY <1>1, BatchesFinite
  <1>3. \A i \in S : i \in 1 .. Len(fs) /\ i + 1 \in T /\ i + 1 # 1
    BY <1>1 DEF Batches
  <1>4. f \in [S -> T \ {1}]
    BY <1>3
  <1>5. \A i, j \in S : f[i] = f[j] => i = j
    BY <1>3
  <1>6. ASSUME NEW t \in T \ {1}
        PROVE  \E i \in S : f[i] = t
    <2>1. t \in 1 .. (Len(fs) + 1) /\ t # 1 /\ new[t].fn = "RunBatch"
      BY <1>1 DEF Batches
    <2>2. t - 1 \in DOMAIN fs /\ (t - 1) + 1 = t
      BY <1>1, <2>1
    <2>3. fs[t - 1] = new[t]
      BY <1>1, <2>2
    <2>4. t - 1 \in S
      BY <2>1, <2>2, <2>3 DEF Batches
    <2>5. f[t - 1] = t
      BY <2>2, <2>4
    <2> QED BY <2>4, <2>5
  <1> HIDE DEF S, T
  <1>7. f \in Bijection(S, T \ {1})
    BY <1>4, <1>5, <1>6, Fun_IsBij
  <1>8. Cardinality(T \ {1}) = Cardinality(S)
    BY <1>2, <1>7, FS_Bijection DEF ExistsBijection
  <1>9. Cardinality(T \ {1}) = IF 1 \in T THEN Cardinality(T) - 1 ELSE Cardinality(T)
    BY <1>2, FS_RemoveElement
  <1>10. Cardinality(S) \in Nat /\ Cardinality(T) \in Nat
    BY <1>2, FS_CardinalityType
  <1>11. 1 \in T <=> g.fn = "RunBatch"
    BY <1>1 DEF T, Batches
  <1>12. Cardinality(T) = Cardinality(S) + (IF g.fn = "RunBatch" THEN 1 ELSE 0)
    BY <1>8, <1>9, <1>10, <1>11
  <1> QED BY <1>12 DEF S, T, new, Level

LEMMA LevelTail ==
    ASSUME NEW fs \in Seq(Frame), fs # <<>>
    PROVE  Level(fs) = Level(Tail(fs)) + (IF fs[1].fn = "RunBatch" THEN 1 ELSE 0)
  <1>1. fs = <<Head(fs)>> \o Tail(fs) /\ Tail(fs) \in Seq(Frame) /\ Head(fs) \in Frame
        /\ Head(fs) = fs[1]
    OBVIOUS
  <1> DEFINE tl == Tail(fs)
             hd == Head(fs)
  <1> HIDE DEF tl, hd
  <1>2. Level(<<hd>> \o tl) = Level(tl) + (IF hd.fn = "RunBatch" THEN 1 ELSE 0)
    BY <1>1, LevelPush DEF tl, hd
  <1> QED BY <1>1, <1>2 DEF tl, hd

LEMMA LevelTop ==
    ASSUME NEW fs \in Seq(Frame), 1 \in DOMAIN fs, NEW g \in Frame, g.fn = fs[1].fn
    PROVE  /\ Level([fs EXCEPT ![1] = g]) = Level(fs)
           /\ [fs EXCEPT ![1] = g] \in Seq(Frame) /\ [fs EXCEPT ![1] = g] # <<>>
           /\ Head([fs EXCEPT ![1] = g]) = g
  <1> DEFINE new == [fs EXCEPT ![1] = g]
  <1>1. /\ new \in Seq(Frame) /\ DOMAIN new = DOMAIN fs /\ new[1] = g
        /\ \A i \in DOMAIN fs : i # 1 => new[i] = fs[i]
    OBVIOUS
  <1>2. new # <<>> /\ Head(new) = g
    BY <1>1
  <1> HIDE DEF new
  <1>3. Batches(new) = Batches(fs)
    BY <1>1 DEF Batches
  <1> QED BY <1>1, <1>2, <1>3 DEF Level, new

LEMMA LevelEmpty == Level(<<>>) = 0
  <1>1. Batches(<<>>) = {}
    BY DEF Batches
  <1> QED BY <1>1, FS_EmptySet DEF Level

LEMMA ChainedTop ==
    ASSUME NEW fs \in Seq(Frame), 1 \in DOMAIN fs, NEW g, g.fn = fs[1].fn, Chained(fs)
    PROVE  Chained([fs EXCEPT ![1] = g])
  <1> DEFINE new == [fs EXCEPT ![1] = g]
  <1>1. /\ DOMAIN new = DOMAIN fs /\ new[1] = g /\ DOMAIN fs = 1 .. Len(fs)
        /\ \A i \in DOMAIN fs : i # 1 => new[i] = fs[i]
    OBVIOUS
  <1> HIDE DEF new
  <1>2. ASSUME NEW i \in DOMAIN new, new[i].fn = "RunBatch", i + 1 \in DOMAIN new
        PROVE  new[i + 1].fn = "CmdCallFile" /\ new[i + 1].pc = "ran"
    <2>1. fs[i].fn = "RunBatch" /\ i \in DOMAIN fs /\ i + 1 \in DOMAIN fs
      BY <1>1, <1>2
    <2>2. i + 1 # 1 /\ new[i + 1] = fs[i + 1]
      BY <1>1, <2>1
    <2> QED BY <2>1, <2>2 DEF Chained
  <1> QED BY <1>2 DEF Chained, new

LEMMA ChainedPush ==
    ASSUME NEW fs \in Seq(Frame), Chained(fs), NEW g \in Frame,
           g.fn = "RunBatch" /\ fs # <<>> => fs[1].fn = "CmdCallFile" /\ fs[1].pc = "ran"
    PROVE  Chained(<<g>> \o fs)
  <1> DEFINE new == <<g>> \o fs
  <1>1. /\ DOMAIN new = 1 .. (Len(fs) + 1) /\ Len(fs) \in Nat
        /\ DOMAIN fs = 1 .. Len(fs) /\ new[1] = g
        /\ \A i \in DOMAIN fs : new[i + 1] = fs[i]
    OBVIOUS
  <1> HIDE DEF new
  <1>2. ASSUME NEW i \in DOMAIN new, new[i].fn = "RunBatch", i + 1 \in DOMAIN new
        PROVE  new[i + 1].fn = "CmdCallFile" /\ new[i + 1].pc = "ran"
    <2>1. CASE i = 1
      <3>1. 1 \in DOMAIN fs /\ new[1 + 1] = fs[1]
        BY <1>1, <1>2, <2>1
      <3>2. fs # <<>>
        BY <3>1
      <3> QED BY <1>1, <1>2, <2>1, <3>1, <3>2
    <2>2. CASE i # 1
      <3> DEFINE k == i - 1
      <3>1. k \in DOMAIN fs /\ k + 1 = i /\ k + 1 \in DOMAIN fs
        BY <1>1, <1>2, <2>2
      <3>2. new[i] = fs[k] /\ new[i + 1] = fs[k + 1]
        BY <1>1, <3>1
      <3> HIDE DEF k
      <3> QED BY <1>2, <3>1, <3>2 DEF Chained
    <2> QED BY <2>1, <2>2
  <1> QED BY <1>2 DEF Chained, new

LEMMA ChainedTail ==
    ASSUME NEW fs \in Seq(Frame), fs # <<>>, Chained(fs)
    PROVE  Chained(Tail(fs)) /\ Tail(fs) \in Seq(Frame)
  <1> DEFINE new == Tail(fs)
  <1>1. /\ new \in Seq(Frame) /\ DOMAIN new = 1 .. (Len(fs) - 1) /\ DOMAIN fs = 1 .. Len(fs)
        /\ Len(fs) \in Nat /\ \A i \in DOMAIN new : new[i] = fs[i + 1]
    OBVIOUS
  <1> HIDE DEF new
  <1>2. ASSUME NEW i \in DOMAIN new, new[i].fn = "RunBatch", i + 1 \in DOMAIN new
        PROVE  new[i + 1].fn = "CmdCallFile" /\ new[i + 1].pc = "ran"
    <2> DEFINE k == i + 1
    <2>1. k \in DOMAIN fs /\ k + 1 \in DOMAIN fs /\ new[i] = fs[k] /\ new[i + 1] = fs[k + 1]
      BY <1>1, <1>2
    <2> HIDE DEF k
    <2> QED BY <1>2, <2>1 DEF Chained
  <1> QED BY <1>1, <1>2 DEF Chained, new

\* While no batch file starts or ends, nothing changes.
Kept(fs) == fs \in Seq(Frame) /\ Level(fs) = Level(frames) /\ Chained(fs) /\ ~Starts(fs)

LEMMA LevelKept ==
    ASSUME LevelInv, ~Returned(frames), Kept(frames'), UNCHANGED <<abort, raised, phase>>
    PROVE  LevelInv'
  BY DEF LevelInv, LevelOK, Kept

LEMMA KeptTop ==
    ASSUME Inv, LevelInv, frames # <<>>, NEW g \in Frame, g.fn = Top.fn,
           ~(g.fn = "RunBatch" /\ g.pc = "loop")
    PROVE  Kept(Now(g)) /\ Now(g) # <<>> /\ Now(g)[1] = g
  <1>1. Top = frames[1] /\ 1 \in DOMAIN frames /\ frames \in Seq(Frame)
    BY TopFacts DEF Inv, StackOK
  <1>2. /\ Level(Now(g)) = Level(frames) /\ Now(g) \in Seq(Frame)
        /\ Now(g) # <<>> /\ Head(Now(g)) = g
    BY <1>1, LevelTop DEF Now
  <1>3. Chained(Now(g))
    BY <1>1, ChainedTop DEF Now, LevelInv
  <1>4. Now(g)[1] = g
    BY <1>1 DEF Now
  <1> QED BY <1>2, <1>3, <1>4 DEF Kept, Starts

LEMMA KeptPush ==
    ASSUME NEW fs, Kept(fs), NEW f \in Frame, f.fn # "RunBatch"
    PROVE  Kept(<<f>> \o fs) /\ <<f>> \o fs # <<>>
  <1>1. Level(fs) \in Nat
    BY BatchesFinite DEF Kept
  <1>2. Level(<<f>> \o fs) = Level(fs) /\ Chained(<<f>> \o fs)
    BY <1>1, LevelPush, ChainedPush DEF Kept
  <1>3. <<f>> \o fs \in Seq(Frame) /\ <<f>> \o fs # <<>> /\ Head(<<f>> \o fs) = f
    BY DEF Kept
  <1> QED BY <1>2, <1>3 DEF Kept, Starts

\* A call returns to one that waits.
LEMMA KeptTail ==
    ASSUME Inv, LevelInv, frames # <<>>, Top.fn # "RunBatch"
    PROVE  Kept(Tail(frames))
  <1>1. /\ Top = frames[1] /\ 1 \in DOMAIN frames /\ frames \in Seq(Frame)
        /\ StackOK(frames, lines)
    BY TopFacts DEF Inv, StackOK
  <1>2. Tail(frames) \in Seq(Frame) /\ Chained(Tail(frames))
    BY <1>1, ChainedTail DEF LevelInv
  <1>3. Level(Tail(frames)) = Level(frames)
    <2>1. Level(Tail(frames)) \in Nat
      BY <1>2, BatchesFinite
    <2>2. Level(frames) = Level(Tail(frames)) + (IF frames[1].fn = "RunBatch" THEN 1 ELSE 0)
      BY <1>1, LevelTail
    <2> QED BY <1>1, <2>1, <2>2
  <1>4. ~Starts(Tail(frames))
    <2>1. Tail(frames) # <<>> => 1 + 1 \in DOMAIN frames /\ Head(Tail(frames)) = frames[1 + 1]
      BY <1>1
    <2>2. 1 + 1 \in DOMAIN frames => frames[1 + 1].pc \in {"ran", "pop"}
      BY <1>1 DEF StackOK
    <2> QED BY <2>1, <2>2 DEF Starts
  <1> QED BY <1>2, <1>3, <1>4 DEF Kept

\* The calls that an action makes.
LEMMA CallFrames ==
    ASSUME Inv
    PROVE  /\ LineCall \in Frame /\ LineCall.fn = "RunParsedLine" /\ LineCall.pc = "ops"
           /\ LineCall.was = cur
           /\ \A fn \in {"RunBatch", "RunBlock", "CmdCallFile"}, pc \in Points :
                /\ PlainCall(fn, pc) \in Frame /\ PlainCall(fn, pc).fn = fn
                /\ PlainCall(fn, pc).pc = pc /\ PlainCall(fn, pc).was = cur
                /\ PlainCall(fn, pc).lock = Locked(stack)
           /\ frames # <<>> /\ NeedsNode(Top) =>
                \A fn \in {"CmdIf", "CmdFor", "RunParsedLine"}, pc \in Points :
                /\ LookaheadCall(fn, pc) \in Frame /\ LookaheadCall(fn, pc).fn = fn
                /\ LookaheadCall(fn, pc).pc = pc /\ LookaheadCall(fn, pc).was = cur
  <1>1. StreamsOK /\ LinesOK /\ Len(lines) \in Nat
    BY DEF Inv, LinesOK
  <1> DEFINE c == Call("RunParsedLine", "ops", Len(lines) + 1, 1)
  <1>2. c \in Frame /\ c.fn = "RunParsedLine" /\ c.pc = "ops" /\ c.was = cur
    BY <1>1, CallType DEF Functions, Points, Call
  <1> HIDE DEF c
  <1>3. /\ LineCall \in Frame /\ LineCall.fn = "RunParsedLine" /\ LineCall.pc = "ops"
        /\ LineCall.was = cur
    BY <1>2 DEF LineCall, Frame, c
  <1>4. ASSUME NEW fn \in {"RunBatch", "RunBlock", "CmdCallFile"}, NEW pc \in Points
        PROVE  /\ PlainCall(fn, pc) \in Frame /\ PlainCall(fn, pc).fn = fn
               /\ PlainCall(fn, pc).pc = pc /\ PlainCall(fn, pc).was = cur
               /\ PlainCall(fn, pc).lock = Locked(stack)
    BY <1>1, CallType DEF PlainCall, Functions, Call
  <1>5. ASSUME frames # <<>>, NeedsNode(Top),
               NEW fn \in {"CmdIf", "CmdFor", "RunParsedLine"}, NEW pc \in Points
        PROVE  /\ LookaheadCall(fn, pc) \in Frame /\ LookaheadCall(fn, pc).fn = fn
               /\ LookaheadCall(fn, pc).pc = pc /\ LookaheadCall(fn, pc).was = cur
    <2>1. LookaheadCall(fn, pc) \in Frame
      BY <1>5, LookaheadCallOK DEF FrameOK
    <2> QED BY <2>1 DEF LookaheadCall, Call
  <1> QED BY <1>3, <1>4, <1>5

\* Actions that go on at another point of the same call.
Moving ==
    \/ ExecOperators \/ LaunchPipe \/ ExecOutput \/ StartCommand
    \/ FinishNode /\ frames' # Tail(frames)
    \/ RunProc \/ CmdGotoNoLabel \/ CmdFails
    \/ CmdIfNothing \/ CmdIfBadOperator \/ CmdForError \/ CmdForBadInput
    \/ BlockLineRan \/ ForIterated

LEMMA OperatorsMove ==
    ASSUME Inv, ExecOperators \/ LaunchPipe
    PROVE  /\ Running("RunParsedLine", "ops")
           /\ \E g \in Frame : /\ frames' = Now(g)
                               /\ g.fn = Top.fn /\ g.was = Top.was /\ g.lock = Locked(stack)
                               /\ g.pc \in {"drop", "redir"}
  <1>1. Running("RunParsedLine", "ops")
    BY DEF ExecOperators, LaunchPipe
  <1>2. frames # <<>> /\ NeedsNode(Top)
    BY <1>1 DEF Running, Top, NeedsNode
  <1>3. Top.pos \in 1 .. Len(Nodes) /\ Nodes \in Seq(Node)
    BY <1>2, TopFacts
  <1>4. Top.pos \in Top.pos .. Len(Nodes) /\ Top.pos \in Nat
    BY <1>3
  <1>5. PipeEnd \in Top.pos .. Len(Nodes) /\ PipeEnd \in Nat
    BY <1>1, <1>3, PipeEndType
  <1>6. frames' = AfterOperators(Top.pos) \/ frames' = AfterOperators(PipeEnd)
    BY DEF ExecOperators, LaunchPipe
  <1> QED BY <1>1, <1>4, <1>5, <1>6, OperatorsShape

LEMMA OutputMove ==
    ASSUME Inv, ExecOutput
    PROVE  \E g : Same(g) /\ g.pc = Top.pc /\ frames' = Now(g)
  <1>1. frames # <<>>
    BY DEF ExecOutput, Running
  <1>2. Top = frames[1] /\ 1 \in DOMAIN frames /\ Top \in Frame /\ frames \in Seq(Frame)
    BY <1>1, TopFacts DEF Inv, StackOK
  <1> DEFINE g == [Top EXCEPT !.todo = @ \ {NextChannel}]
  <1>3. frames' = Now(g)
    BY <1>2 DEF ExecOutput, Now
  <1>4. Same(g) /\ g.pc = Top.pc
    BY <1>2 DEF Same, Frame
  <1> QED BY <1>3, <1>4

\* The function of the call and the point it goes to.
LEMMA FinishMove ==
    ASSUME Inv, FinishNode, frames' # Tail(frames)
    PROVE  \E g : Same(g) /\ g.pc = "ops" /\ frames' = Now(g)
  <1>1. frames # <<>> /\ Top.fn = "RunParsedLine"
    BY DEF FinishNode, Running, Top
  <1>2. Top \in Frame /\ FrameOK(Top, lines)
    BY <1>1, TopFacts
  <1>3. Nodes \in Seq(Node)
    BY <1>1, <1>2 DEF FrameOK, Inv, LinesOK, Nodes
  <1>4. NextPos \in Nat
    BY <1>3 DEF NextPos
  <1>5. frames' = [frames EXCEPT ![1].pos = NextPos, ![1].pc = "ops"]
    BY DEF FinishNode
  <1> DEFINE pos == NextPos
  <1> HIDE DEF pos
  <1>6. pos \in Nat /\ frames' = [frames EXCEPT ![1].pos = pos, ![1].pc = "ops"] /\ "ops" \in Points
    BY <1>4, <1>5 DEF pos, Points
  <1>7. /\ \E g : Same(g) /\ g.pc = "ops" /\ GoTo("ops", pos) = Now(g)
        /\ [frames EXCEPT ![1].pos = pos, ![1].pc = "ops"] = GoTo("ops", pos)
    BY <1>1, <1>6, PosShape
  <1> QED BY <1>6, <1>7

LEMMA PointMove ==
    ASSUME Inv,
           \/ StartCommand \/ RunProc \/ CmdGoto \/ CmdGotoNoLabel \/ CmdGotoEof \/ CmdExitB
           \/ CmdFails \/ CmdIfNothing \/ CmdIfBadOperator \/ CmdForError \/ CmdForBadInput
    PROVE  /\ frames # <<>> /\ Top.fn = "RunParsedLine" /\ Top.pc \in {"redir", "cmd"}
           /\ \E g : Same(g) /\ g.pc \in {"cmd", "pop"} /\ frames' = Now(g)
  <1>1. frames # <<>> /\ Top.fn = "RunParsedLine" /\ Top.pc \in {"redir", "cmd"}
    BY DEF StartCommand, RunProc, CmdGoto, CmdGotoNoLabel, CmdGotoEof, CmdExitB, CmdFails,
           CmdIfNothing, CmdIfBadOperator, CmdForError, CmdForBadInput, Command, Running, Top
  <1>2. \/ frames' = At("cmd") \/ frames' = At("pop")
        \/ frames' = [frames EXCEPT ![1].pc = "pop", ![1].pos = 0]
    BY DEF StartCommand, RunProc, CmdGoto, CmdGotoNoLabel, CmdGotoEof, CmdExitB, Raise, CmdFails,
           CmdIfNothing, CmdIfBadOperator, CmdForError, CmdForBadInput
  <1>3. "pop" \in Points /\ "cmd" \in Points /\ 0 \in Nat
    BY DEF Points
  <1>4. CASE frames' = At("cmd")
    BY <1>1, <1>3, <1>4, AtShape
  <1>5. CASE frames' = At("pop")
    BY <1>1, <1>3, <1>5, AtShape
  <1>6. CASE frames' = [frames EXCEPT ![1].pc = "pop", ![1].pos = 0]
    <2>1. \E g : Same(g) /\ g.pc = "pop" /\ GoTo("pop", 0) = Now(g)
      BY <1>1, <1>3, PosShape
    <2>2. frames' = GoTo("pop", 0)
      BY <1>6 DEF GoTo
    <2> QED BY <1>1, <2>1, <2>2
  <1> QED BY <1>1, <1>2, <1>4, <1>5, <1>6

\* Loops that go on after a line.
Looping == BlockLineRan \/ ForIterated \/ (BatchLineRan /\ ~EndsBatch)

LEMMA LoopMove ==
    ASSUME Inv, Looping
    PROVE  /\ frames # <<>> /\ Top.fn \in {"RunBlock", "CmdFor", "RunBatch"} /\ Top.pc = "ran"
           /\ \E g : Same(g) /\ g.pc = "loop" /\ frames' = Now(g)
           /\ Top.fn = "RunBatch" => BatchLineRan
  <1>1. /\ frames # <<>> /\ Top.fn \in {"RunBlock", "CmdFor", "RunBatch"} /\ Top.pc = "ran"
        /\ Top.fn = "RunBatch" => BatchLineRan
    BY DEF Looping, BlockLineRan, ForIterated, BatchLineRan, Running, Top
  <1>2. frames' = At("loop")
    BY DEF Looping, BlockLineRan, ForIterated, BatchLineRan
  <1>3. \E g : Same(g) /\ g.pc = "loop" /\ At("loop") = Now(g)
    <2>1. "loop" \in Points
      BY DEF Points
    <2> QED BY <1>1, <2>1, AtShape
  <1> QED BY <1>1, <1>2, <1>3

LEMMA LevelMoving ==
    ASSUME Inv, LevelInv, Moving
    PROVE  LevelInv'
  <1>1. UNCHANGED <<raised, phase>> /\ (abort' = abort \/ abort' = "no")
    BY DEF Moving, ExecOperators, LaunchPipe, ExecOutput, StartCommand, FinishNode, RunProc,
           CmdGotoNoLabel, CmdFails, CmdIfNothing, CmdIfBadOperator, CmdForError,
           CmdForBadInput, BlockLineRan, ForIterated, abortVars
  <1>2. /\ frames # <<>> /\ Top.fn \in {"RunParsedLine", "RunBlock", "CmdFor"}
        /\ \E g \in Frame : g.fn = Top.fn /\ frames' = Now(g)
    <2>1. CASE ExecOperators \/ LaunchPipe
      BY <2>1, OperatorsMove DEF Running, Top
    <2>2. CASE ExecOutput
      BY <2>2, OutputMove DEF ExecOutput, Running, Top, Same
    <2>3. CASE FinishNode /\ frames' # Tail(frames)
      BY <2>3, FinishMove DEF FinishNode, Running, Top, Same
    <2>4. CASE BlockLineRan \/ ForIterated
      <3>1. Top.fn # "RunBatch"
        BY <2>4 DEF BlockLineRan, ForIterated, Running, Top
      <3>2. /\ frames # <<>> /\ Top.fn \in {"RunBlock", "CmdFor", "RunBatch"}
            /\ \E g : Same(g) /\ g.pc = "loop" /\ frames' = Now(g)
        BY <2>4, LoopMove DEF Looping
      <3> QED BY <3>1, <3>2 DEF Same
    <2>5. CASE \/ StartCommand \/ RunProc \/ CmdGotoNoLabel \/ CmdFails
               \/ CmdIfNothing \/ CmdIfBadOperator \/ CmdForError \/ CmdForBadInput
      BY <2>5, PointMove DEF Same
    <2> QED BY <2>1, <2>2, <2>3, <2>4, <2>5 DEF Moving
  <1>3. PICK g \in Frame : g.fn = Top.fn /\ frames' = Now(g)
    BY <1>2
  <1>4. Kept(frames')
    BY <1>2, <1>3, KeptTop
  <1>5. ~Returned(frames)
    BY <1>2 DEF Returned, Top
  <1>6. CASE abort' = abort
    BY <1>1, <1>4, <1>5, <1>6, LevelKept
  <1>7. CASE abort' = "no"
    BY <1>1, <1>4, <1>7 DEF LevelInv, LevelOK, Kept
  <1> QED BY <1>1, <1>6, <1>7

\* Actions that run a line or a body: the caller goes to "ran".
RunsLine == GetLine \/ RunBlockLine \/ ForIterate

LEMMA LineShape ==
    ASSUME Inv, RunsLine
    PROVE  /\ frames # <<>> /\ Top.fn \in {"RunBatch", "RunBlock", "CmdFor"} /\ Top.pc = "loop"
           /\ \E g, f \in Frame : /\ Same(g) /\ g.pc = "ran" /\ frames' = <<f>> \o Now(g)
                                 /\ f.fn = "RunParsedLine" /\ f.pc = "ops" /\ f.was = cur
  <1>1. frames # <<>> /\ Top.fn \in {"RunBatch", "RunBlock", "CmdFor"} /\ Top.pc = "loop"
    BY DEF RunsLine, GetLine, RunBlockLine, ForIterate, Running, Top
  <1>2. "ran" \in Points /\ "ops" \in Points
    BY DEF Points
  <1>3. PICK g : Same(g) /\ g.pc = "ran" /\ At("ran") = Now(g)
    BY <1>1, <1>2, AtShape
  <1>4. g \in Frame
    BY <1>3 DEF Same
  <1>5. CASE GetLine \/ RunBlockLine
    <2>1. frames' = <<LineCall>> \o At("ran")
      BY <1>5 DEF GetLine, RunBlockLine, RunLine
    <2>2. /\ LineCall \in Frame /\ LineCall.fn = "RunParsedLine" /\ LineCall.pc = "ops"
          /\ LineCall.was = cur
      BY CallFrames
    <2> QED BY <1>1, <1>3, <1>4, <2>1, <2>2
  <1>6. CASE ForIterate
    <2>1. frames' = <<BodyCall>> \o At("ran") /\ NeedsNode(Top)
      BY <1>6 DEF ForIterate, Running, Top, NeedsNode
    <2>2. /\ BodyCall \in Frame /\ BodyCall.fn = "RunParsedLine" /\ BodyCall.pc = "ops"
          /\ BodyCall.was = cur
      BY <1>1, <1>2, <2>1, CallFrames DEF BodyCall
    <2> QED BY <1>1, <1>3, <1>4, <2>1, <2>2
  <1> QED BY <1>5, <1>6 DEF RunsLine

\* Commands that call something: RunParsedLine goes to "pop".
CallsOne == CmdBlock \/ CmdFor
CallsTwo == CmdIfTrue \/ CmdIfElse \/ CmdCallFile

LEMMA CommandShape ==
    ASSUME Inv, CallsOne \/ CallsTwo
    PROVE  /\ frames # <<>> /\ Top.fn = "RunParsedLine" /\ Top.pc = "cmd" /\ NeedsNode(Top)
           /\ \E g \in Frame : Same(g) /\ g.pc = "pop" /\ At("pop") = Now(g)
  <1>1. frames # <<>> /\ Top.fn = "RunParsedLine" /\ Top.pc = "cmd"
    BY DEF CallsOne, CallsTwo, CmdBlock, CmdFor, CmdIfTrue, CmdIfElse, CmdCallFile, Command,
           Running, Top
  <1>2. NeedsNode(Top)
    BY <1>1 DEF NeedsNode
  <1>3. \E g : Same(g) /\ g.pc = "pop" /\ At("pop") = Now(g)
    <2>1. "pop" \in Points
      BY DEF Points
    <2> QED BY <1>1, <2>1, AtShape
  <1> QED BY <1>1, <1>2, <1>3 DEF Same

LEMMA BlockShape ==
    ASSUME Inv, CmdBlock
    PROVE  \E g, f \in Frame : /\ Same(g) /\ g.pc = "pop" /\ frames' = <<f>> \o Now(g)
                             /\ f.fn = "RunBlock" /\ f.pc = "loop" /\ f.was = cur
                             /\ f.lock = Locked(stack)
  <1> DEFINE f == PlainCall("RunBlock", "loop")
  <1>1. PICK g \in Frame : Same(g) /\ g.pc = "pop" /\ At("pop") = Now(g)
    BY CommandShape DEF CallsOne
  <1>2. frames' = <<f>> \o At("pop")
    BY DEF CmdBlock
  <1>3. f \in Frame /\ f.fn = "RunBlock" /\ f.pc = "loop" /\ f.was = cur /\ f.lock = Locked(stack)
    BY CallFrames DEF Points
  <1> HIDE DEF f
  <1> QED BY <1>1, <1>2, <1>3

LEMMA ForShape ==
    ASSUME Inv, CmdFor
    PROVE  \E g, f \in Frame : /\ Same(g) /\ g.pc = "pop" /\ frames' = <<f>> \o Now(g)
                             /\ f.fn = "CmdFor" /\ f.pc = "loop" /\ f.was = cur
  <1> DEFINE f == LookaheadCall("CmdFor", "loop")
  <1>1. PICK g \in Frame : Same(g) /\ g.pc = "pop" /\ At("pop") = Now(g)
    BY CommandShape DEF CallsOne
  <1>2. frames' = <<f>> \o At("pop")
    BY DEF CmdFor
  <1>3. frames # <<>> /\ NeedsNode(Top)
    BY CommandShape DEF CallsOne
  <1>4. f \in Frame /\ f.fn = "CmdFor" /\ f.pc = "loop" /\ f.was = cur
    BY <1>3, CallFrames DEF Points
  <1> HIDE DEF f
  <1> QED BY <1>1, <1>2, <1>4

LEMMA IfShape ==
    ASSUME Inv, CmdIfTrue \/ CmdIfElse
    PROVE  \E g, f, h \in Frame :
              /\ Same(g) /\ g.pc = "pop" /\ frames' = <<h>> \o (<<f>> \o Now(g))
              /\ f.fn = "CmdIf" /\ f.pc = "ran" /\ f.was = cur
              /\ h.fn = "RunParsedLine" /\ h.pc = "ops" /\ h.was = cur
  <1> DEFINE f == LookaheadCall("CmdIf", "ran")
  <1>1. PICK g \in Frame : Same(g) /\ g.pc = "pop" /\ At("pop") = Now(g)
    BY CommandShape DEF CallsTwo
  <1>2. frames' = <<LineCall>> \o (<<f>> \o At("pop")) \/ frames' = <<BodyCall>> \o (<<f>> \o At("pop"))
    BY DEF CmdIfTrue, CmdIfElse
  <1>3. frames # <<>> /\ NeedsNode(Top)
    BY CommandShape DEF CallsTwo
  <1>4. f \in Frame /\ f.fn = "CmdIf" /\ f.pc = "ran" /\ f.was = cur
    BY <1>3, CallFrames DEF Points
  <1>5. /\ LineCall \in Frame /\ LineCall.fn = "RunParsedLine" /\ LineCall.pc = "ops"
        /\ LineCall.was = cur
    BY CallFrames
  <1>6. /\ BodyCall \in Frame /\ BodyCall.fn = "RunParsedLine" /\ BodyCall.pc = "ops"
        /\ BodyCall.was = cur
    BY <1>3, CallFrames DEF BodyCall, Points
  <1> HIDE DEF f
  <1> QED BY <1>1, <1>2, <1>4, <1>5, <1>6

LEMMA CallFileShape ==
    ASSUME Inv, CmdCallFile
    PROVE  \E g, f, h \in Frame :
              /\ Same(g) /\ g.pc = "pop" /\ frames' = <<h>> \o (<<f>> \o Now(g))
              /\ f.fn = "CmdCallFile" /\ f.pc = "ran" /\ f.was = cur /\ f.lock = Locked(stack)
              /\ h.fn = "RunBatch" /\ h.pc = "loop" /\ h.was = cur
  <1> DEFINE f == PlainCall("CmdCallFile", "ran")
             h == PlainCall("RunBatch", "loop")
  <1>1. PICK g \in Frame : Same(g) /\ g.pc = "pop" /\ At("pop") = Now(g)
    BY CommandShape DEF CallsTwo
  <1>2. frames' = <<h>> \o (<<f>> \o At("pop"))
    BY DEF CmdCallFile
  <1>3. /\ f \in Frame /\ f.fn = "CmdCallFile" /\ f.pc = "ran" /\ f.was = cur
        /\ f.lock = Locked(stack)
    BY CallFrames DEF Points
  <1>4. h \in Frame /\ h.fn = "RunBatch" /\ h.pc = "loop" /\ h.was = cur
    BY CallFrames DEF Points
  <1> HIDE DEF f, h
  <1> QED BY <1>1, <1>2, <1>3, <1>4

LEMMA LevelCalling ==
    ASSUME Inv, LevelInv, RunsLine \/ CmdBlock \/ CmdFor \/ CmdIfTrue \/ CmdIfElse
    PROVE  LevelInv'
  <1>1. UNCHANGED <<abort, raised, phase>>
    BY DEF RunsLine, GetLine, RunBlockLine, RunLine, ForIterate, CmdBlock, CmdFor, CmdIfTrue,
           CmdIfElse, abortVars
  <1>2. /\ frames # <<>> /\ Top.fn # "CmdCallFile"
        /\ \E g, f \in Frame : /\ Same(g) /\ g.pc # "loop" /\ f.fn # "RunBatch"
             /\ \/ frames' = <<f>> \o Now(g)
                \/ \E h \in Frame : h.fn # "RunBatch" /\ frames' = <<h>> \o (<<f>> \o Now(g))
    <2>1. CASE RunsLine
      BY <2>1, LineShape
    <2>2. CASE CmdBlock
      BY <2>2, CommandShape, BlockShape DEF CallsOne
    <2>3. CASE CmdFor
      BY <2>3, CommandShape, ForShape DEF CallsOne
    <2>4. CASE CmdIfTrue \/ CmdIfElse
      <3>1. frames # <<>> /\ Top.fn = "RunParsedLine"
        BY <2>4, CommandShape DEF CallsTwo
      <3>2. PICK g, f, h \in Frame :
              /\ Same(g) /\ g.pc = "pop" /\ frames' = <<h>> \o (<<f>> \o Now(g))
              /\ f.fn = "CmdIf" /\ f.pc = "ran" /\ f.was = cur
              /\ h.fn = "RunParsedLine" /\ h.pc = "ops" /\ h.was = cur
        BY <2>4, IfShape
      <3> QED BY <3>1, <3>2
    <2> QED BY <2>1, <2>2, <2>3, <2>4
  <1>3. PICK g, f \in Frame : /\ Same(g) /\ g.pc # "loop" /\ f.fn # "RunBatch"
             /\ \/ frames' = <<f>> \o Now(g)
                \/ \E h \in Frame : h.fn # "RunBatch" /\ frames' = <<h>> \o (<<f>> \o Now(g))
    BY <1>2
  <1>4. Kept(Now(g))
    BY <1>2, <1>3, KeptTop DEF Same
  <1>5. Kept(<<f>> \o Now(g))
    BY <1>3, <1>4, KeptPush
  <1>6. Kept(frames')
    BY <1>3, <1>5, KeptPush
  <1>7. ~Returned(frames)
    BY <1>2 DEF Returned, Top
  <1> QED BY <1>1, <1>6, <1>7, LevelKept

\* CALL finds bAbortCommand clear.
LEMMA LevelCallFile ==
    ASSUME Inv, Halted, LevelInv, CmdCallFile
    PROVE  LevelInv'
  <1>1. abort = "no" /\ abort' = "no"
    BY DEF Halted, NotBusy, Running, CmdCallFile, Command, abortVars
  <1>2. frames # <<>> /\ Top.fn = "RunParsedLine"
    BY CommandShape DEF CallsTwo
  <1>3. PICK g, f, h \in Frame :
              /\ Same(g) /\ g.pc = "pop" /\ frames' = <<h>> \o (<<f>> \o Now(g))
              /\ f.fn = "CmdCallFile" /\ f.pc = "ran" /\ f.was = cur /\ f.lock = Locked(stack)
              /\ h.fn = "RunBatch" /\ h.pc = "loop" /\ h.was = cur
    BY CallFileShape
  <1>4. Kept(Now(g))
    BY <1>2, <1>3, KeptTop DEF Same
  <1>5. Kept(<<f>> \o Now(g)) /\ <<f>> \o Now(g) # <<>>
    BY <1>3, <1>4, KeptPush
  <1>6. (<<f>> \o Now(g))[1] = f
    BY <1>4 DEF Kept
  <1> DEFINE fs == <<f>> \o Now(g)
  <1> HIDE DEF fs
  <1>7. fs \in Seq(Frame) /\ Chained(fs) /\ fs # <<>> /\ fs[1] = f
    BY <1>5, <1>6 DEF Kept, fs
  <1>8. Chained(<<h>> \o fs)
    BY <1>3, <1>7, ChainedPush
  <1> QED BY <1>1, <1>3, <1>8 DEF LevelInv, LevelOK, fs

LEMMA LevelRaising ==
    ASSUME Inv, LevelInv, CmdGoto \/ CmdGotoEof \/ CmdExitB
    PROVE  LevelInv'
  <1>1. frames # <<>> /\ Top.fn = "RunParsedLine"
        /\ \E g : Same(g) /\ g.pc \in {"cmd", "pop"} /\ frames' = Now(g)
    BY PointMove
  <1>2. Kept(frames')
    BY <1>1, KeptTop DEF Same
  <1>3. raised' = Level(frames) /\ UNCHANGED phase
    BY DEF CmdGoto, CmdGotoEof, CmdExitB, Raise, BatchLevel, Level, Batches
  <1> QED BY <1>2, <1>3 DEF LevelInv, LevelOK, Kept

\* A call that is not a batch file returns.
LEMMA LevelReturning ==
    ASSUME Inv, LevelInv,
           \/ FinishNode /\ frames' = Tail(frames)
           \/ EndOfBlock \/ CallReturns \/ CmdIfRan \/ EndOfFor
    PROVE  LevelInv'
  <1>1. CASE \/ FinishNode /\ frames' = Tail(frames)
             \/ EndOfBlock \/ CallReturns
    <2>1. /\ frames # <<>> /\ Top.fn \in {"RunParsedLine", "RunBlock", "CmdCallFile"}
          /\ Top.fn = "CmdCallFile" => abort' = "no"
          /\ frames' = Tail(frames) /\ UNCHANGED <<raised, phase>>
          /\ abort' = abort \/ abort' = "no"
      BY <1>1 DEF FinishNode, EndOfBlock, CallReturns, Running, Top, abortVars
    <2>2. Kept(frames')
      BY <2>1, KeptTail
    <2>3. CASE abort' = "no"
      BY <2>1, <2>2, <2>3 DEF LevelInv, LevelOK, Kept
    <2>4. CASE abort' = abort /\ Top.fn # "CmdCallFile"
      <3>1. ~Returned(frames)
        BY <2>4 DEF Returned, Top
      <3> QED BY <2>1, <2>2, <2>4, <3>1, LevelKept
    <2> QED BY <2>1, <2>3, <2>4
  <1>2. CASE CmdIfRan \/ EndOfFor
    <2>1. /\ frames # <<>> /\ Top.fn \in {"CmdIf", "CmdFor"} /\ ReturnLookahead
          /\ UNCHANGED <<abort, raised, phase>>
      BY <1>2 DEF CmdIfRan, EndOfFor, Running, Top, abortVars
    <2>2. Kept(Tail(frames))
      BY <2>1, KeptTail
    <2>3. /\ Tail(frames) \in Seq(Frame) /\ 1 \in DOMAIN Tail(frames)
          /\ \E g \in Frame : LET f == Tail(frames)[1] IN
                /\ frames' = [Tail(frames) EXCEPT ![1] = g]
                /\ g.fn = f.fn /\ g.was = f.was /\ g.lock = f.lock /\ g.pc = f.pc
                /\ f.fn = "RunParsedLine" /\ f.pc = "pop"
      BY <2>1, LookaheadShape
    <2> DEFINE fs == Tail(frames)
    <2> HIDE DEF fs
    <2>4. PICK g \in Frame : frames' = [fs EXCEPT ![1] = g] /\ g.fn = fs[1].fn /\ g.pc = "pop"
      BY <2>3 DEF fs
    <2>5. fs \in Seq(Frame) /\ 1 \in DOMAIN fs /\ Kept(fs)
      BY <2>2, <2>3 DEF fs
    <2>6. /\ Level(frames') = Level(fs) /\ frames' \in Seq(Frame) /\ frames' # <<>>
          /\ Head(frames') = g
      BY <2>4, <2>5, LevelTop
    <2>7. Chained(frames')
      BY <2>4, <2>5, ChainedTop DEF Kept
    <2>8. Kept(frames')
      BY <2>4, <2>5, <2>6, <2>7 DEF Kept, Starts
    <2>9. ~Returned(frames)
      BY <2>1 DEF Returned, Top
    <2> QED BY <2>1, <2>8, <2>9, LevelKept
  <1> QED BY <1>1, <1>2

LEMMA LevelBatch ==
    ASSUME Inv, LevelInv, EndOfBatch \/ BatchLineRan
    PROVE  LevelInv'
  <1>1. frames # <<>> /\ Top.fn = "RunBatch" /\ UNCHANGED <<raised, phase>>
    BY DEF EndOfBatch, BatchLineRan, Running, Top, abortVars
  <1>2. /\ Top = frames[1] /\ 1 \in DOMAIN frames /\ frames \in Seq(Frame)
        /\ StackOK(frames, lines) /\ raised \in Nat
    BY <1>1, TopFacts DEF Inv, StackOK, ControlOK
  <1>3. CASE (BatchLineRan /\ EndsBatch) \/ EndOfBatch
    <2> DEFINE fs == Tail(frames)
    <2>1. fs \in Seq(Frame) /\ Chained(fs)
      BY <1>1, <1>2, ChainedTail DEF LevelInv
    <2>2. Level(frames) = Level(fs) + (IF frames[1].fn = "RunBatch" THEN 1 ELSE 0)
          /\ Level(fs) \in Nat
      BY <1>1, <1>2, <2>1, LevelTail, BatchesFinite
    <2>3. fs # <<>> => 1 + 1 \in DOMAIN frames /\ Head(fs) = frames[1 + 1]
      BY <1>2
    <2>4. ~Starts(fs)
      <3>1. 1 + 1 \in DOMAIN frames => frames[1 + 1].pc \in {"ran", "pop"}
        BY <1>2 DEF StackOK
      <3> QED BY <2>3, <3>1 DEF Starts
    <2>5. fs # <<>> => Returned(fs)
      <3>1. 1 + 1 \in DOMAIN frames =>
              frames[1 + 1].fn = "CmdCallFile" /\ frames[1 + 1].pc = "ran"
        BY <1>1, <1>2 DEF LevelInv, Chained
      <3> QED BY <2>3, <3>1 DEF Returned
    <2>6. fs = <<>> => Level(fs) = 0
      BY LevelEmpty
    <2>0. frames' = fs /\ abort' = abort
      BY <1>3 DEF BatchLineRan, EndOfBatch, abortVars
    <2> HIDE DEF fs
    <2>7. ~Returned(frames)
      BY <1>1 DEF Returned, Top
    <2>8. EndOfBatch => Starts(frames)
      BY DEF EndOfBatch, Running, Starts
    <2>9. ASSUME phase # "exit" PROVE LevelOK(frames)'
      <3>1. LevelOK(frames)
        BY <2>9 DEF LevelInv
      <3>2. CASE EndOfBatch
        BY <1>1, <2>0, <2>4, <2>8, <3>1, <3>2 DEF LevelOK
      <3>3. CASE abort = "level"
        BY <1>1, <1>2, <2>0, <2>2, <2>4, <2>5, <2>6, <2>7, <3>1, <3>3 DEF LevelOK
      <3> QED BY <1>3, <3>2, <3>3 DEF EndsBatch
    <2> QED BY <1>1, <2>0, <2>1, <2>9 DEF LevelInv
  <1>4. CASE BatchLineRan /\ ~EndsBatch
    <2>1. abort' = "no"
      BY <1>4 DEF BatchLineRan
    <2>2. PICK g : Same(g) /\ g.pc = "loop" /\ frames' = Now(g)
      BY <1>4, LoopMove DEF Looping
    <2>3. Chained(frames')
      BY <1>2, <2>2, ChainedTop DEF LevelInv, Now, Same
    <2> QED BY <2>1, <2>3 DEF LevelInv, LevelOK
  <1> QED BY <1>3, <1>4

\* What main() starts.
LEMMA LevelMain ==
    ASSUME Inv, LevelInv, RunSwitchLine \/ RunScript
    PROVE  LevelInv'
  <1>1. frames = <<>> /\ phase # "exit" /\ UNCHANGED <<abort, raised>>
    BY DEF RunSwitchLine, RunScript, abortVars
  <1>2. raised \in Nat
    BY DEF Inv, ControlOK
  <1>3. ~(abort = "line_end" /\ raised > 0) /\ ~(abort = "level" /\ raised > 1)
    BY <1>1, <1>2, LevelEmpty DEF LevelInv, LevelOK, Returned
  <1>4. frames' = <<LineCall>> \/ frames' = <<PlainCall("RunBatch", "loop")>>
    BY DEF RunSwitchLine, RunScript
  <1>5. DOMAIN frames' = {1}
    BY <1>4
  <1>6. Chained(frames')
    BY <1>5 DEF Chained
  <1> QED BY <1>1, <1>3, <1>6 DEF LevelInv, LevelOK

LEMMA LevelStep == Inv /\ Halted /\ LevelInv /\ [Next]_vars => LevelInv'
  <1> SUFFICES ASSUME Inv, Halted, LevelInv, [Next]_vars PROVE LevelInv'
    OBVIOUS
  <1>1. CASE Moving
    BY <1>1, LevelMoving
  <1>2. CASE RunsLine \/ CmdBlock \/ CmdFor \/ CmdIfTrue \/ CmdIfElse
    BY <1>2, LevelCalling
  <1>3. CASE CmdCallFile
    BY <1>3, LevelCallFile
  <1>4. CASE CmdGoto \/ CmdGotoEof \/ CmdExitB
    BY <1>4, LevelRaising
  <1>5. CASE \/ FinishNode /\ frames' = Tail(frames)
             \/ EndOfBlock \/ CallReturns \/ CmdIfRan \/ EndOfFor
    BY <1>5, LevelReturning
  <1>6. CASE EndOfBatch \/ BatchLineRan
    BY <1>6, LevelBatch
  <1>7. CASE RunSwitchLine \/ RunScript
    BY <1>7, LevelMain
  <1>8. CASE PipeFails \/ CmdExit \/ MainEnds
    <2>1. phase' = "exit" /\ frames' = <<>>
      BY <1>8 DEF PipeFails, CmdExit, MainEnds
    <2>2. Chained(frames')
      BY <2>1 DEF Chained
    <2> QED BY <2>1, <2>2 DEF LevelInv
  <1>9. CASE PopUntilLock \/ FreeStreamStack \/ Exited \/ UNCHANGED vars
    <2>1. UNCHANGED <<frames, abort, raised, phase>>
      BY <1>9 DEF PopUntilLock, FreeStreamStack, Exited, vars, abortVars
    <2> QED BY <2>1 DEF LevelInv, LevelOK
  <1> QED BY <1>1, <1>2, <1>3, <1>4, <1>5, <1>6, <1>7, <1>8, <1>9
          DEF Next, Moving, RunsLine

LEMMA LevelAbort == LevelInv => AbortLevel
  <1> SUFFICES ASSUME LevelInv PROVE AbortLevel
    OBVIOUS
  <1>1. BatchLevel = Level(frames)
    BY DEF BatchLevel, Level, Batches
  <1>2. Returned(frames) => Running("CmdCallFile", "ran")
    BY DEF Returned, Running
  <1> QED BY <1>1, <1>2 DEF LevelInv, LevelOK, AbortLevel

\* Whatever the script: GOTO ends every block, loop and condition up to the batch
\* file it is in, and EXIT /B and GOTO :EOF that batch file and no other.
THEOREM AbortLevelHolds == Spec => []AbortLevel
  <1>1. Init => LevelInv
    <2> SUFFICES ASSUME Init PROVE LevelInv
      OBVIOUS
    <2>1. frames = <<PlainCall("RunBatch", "loop")>> /\ abort = "no"
      BY DEF Init
    <2>2. DOMAIN frames = {1}
      BY <2>1
    <2> QED BY <2>1, <2>2 DEF LevelInv, LevelOK, Chained
  <1> QED BY <1>1, LevelStep, LevelAbort, SpecInv, HaltedHolds, PTL DEF Spec

-----------------------------------------------------------------------------
(* The invariant gives each call the height b of the stream stack at the    *)
(* call, as the views of the proof of NoDangling give each height its       *)
(* streams.  It relates the lock bits of the items to the calls that are to *)
(* clear them: the item at a height is locked exactly while a call of that  *)
(* height has set its lock, and what the call saved is whether a call       *)
(* further out had set it before.  That is why a pop of one call stops at   *)
(* the items of the next one.                                               *)

\* The calls that have locked the item at their height.
Holder(f) ==
    \/ f.fn \in {"RunBlock", "CmdCallFile"}
    \/ f.fn = "RunParsedLine" /\ f.pc # "ops"
Settled == {"loop", "ran", "ops"}

LockedSet(s) == {d \in 1 .. Len(s) : s[Len(s) + 1 - d].locked = TRUE}
HolderSet(b, fs, i) == {b[j] : j \in {k \in DOMAIN fs : k > i /\ Holder(fs[k])}}

Depths(b, fs, s) ==
    /\ b \in Seq(Nat) /\ Len(b) = Len(fs)
    /\ \A i \in DOMAIN fs : b[i] <= Len(s)
    /\ \A i, j \in DOMAIN fs : i <= j => b[j] <= b[i]
    /\ \A i \in DOMAIN fs : i + 1 \in DOMAIN fs /\ fs[i + 1].pc = "ran" => b[i] = b[i + 1]
    /\ fs # <<>> /\ fs[1].pc \in Settled => b[1] = Len(s)

Locks(b, fs, s) ==
    /\ LockedSet(s) = HolderSet(b, fs, 0) \ {0}
    /\ \A i \in DOMAIN fs : Holder(fs[i]) /\ b[i] > 0 =>
         (fs[i].lock = TRUE <=> b[i] \in HolderSet(b, fs, i))

Given(b, fs, v) == \A i \in DOMAIN fs : fs[i].was = v[Len(v) - b[i]]

Balanced(b, fs, s, v) ==
    /\ fs \in Seq(Frame) /\ s \in Seq(Item) /\ v \in Seq([Channels -> Handles])
    /\ Len(v) = Len(s) + 1
    /\ Depths(b, fs, s) /\ Locks(b, fs, s) /\ Given(b, fs, v)

RestoredInv ==
    /\ phase = "exit" => frames = <<>>
    /\ ~lost /\ phase # "exit" =>
         \E v, b : Viewed(v, stack, cur, open) /\ Balanced(b, frames, stack, v)

-----------------------------------------------------------------------------
(* The items that are locked. *)

LEMMA LockedSetEmpty == LockedSet(<<>>) = {}
  BY DEF LockedSet

LEMMA LockedSetTop ==
    ASSUME NEW s \in Seq(Item)
    PROVE  /\ Len(s) \in Nat /\ (s = <<>> <=> Len(s) = 0)
           /\ s # <<>> => (Locked(s) = TRUE <=> Len(s) \in LockedSet(s))
           /\ s # <<>> => Locked(s) \in BOOLEAN
           /\ s = <<>> => Locked(s) = TRUE
  <1>1. Len(s) \in Nat /\ (s = <<>> <=> Len(s) = 0)
    OBVIOUS
  <1>2. ASSUME s # <<>>
        PROVE  /\ Locked(s) = TRUE <=> Len(s) \in LockedSet(s)
               /\ Locked(s) \in BOOLEAN
    <2>1. Head(s) = s[1] /\ s[1] \in Item /\ Len(s) \in 1 .. Len(s) /\ Len(s) + 1 - Len(s) = 1
      BY <1>1, <1>2
    <2>2. Locked(s) = s[1].locked /\ s[1].locked \in BOOLEAN
      BY <1>2, <2>1 DEF Locked, Item
    <2>3. Len(s) \in LockedSet(s) <=> s[Len(s) + 1 - Len(s)].locked = TRUE
      BY <2>1 DEF LockedSet
    <2> QED BY <2>1, <2>2, <2>3
  <1> QED BY <1>1, <1>2 DEF Locked

LEMMA LockedSetLock ==
    ASSUME NEW s \in Seq(Item)
    PROVE  /\ \A b \in BOOLEAN : SetLock(s, b) \in Seq(Item) /\ Len(SetLock(s, b)) = Len(s)
           /\ s # <<>> => LockedSet(SetLock(s, TRUE)) = LockedSet(s) \cup {Len(s)}
           /\ s # <<>> => LockedSet(SetLock(s, FALSE)) = LockedSet(s) \ {Len(s)}
           /\ s = <<>> => \A b \in BOOLEAN : SetLock(s, b) = s
  <1>1. \A b \in BOOLEAN : SetLock(s, b) \in Seq(Item) /\ Len(SetLock(s, b)) = Len(s)
    BY LockType, LockFacts
  <1>2. s = <<>> => \A b \in BOOLEAN : SetLock(s, b) = s
    BY DEF SetLock
  <1>3. ASSUME s # <<>>, NEW b \in BOOLEAN
        PROVE  \A d \in 1 .. Len(s) : d \in LockedSet(SetLock(s, b)) <=>
                    IF d = Len(s) THEN b = TRUE ELSE d \in LockedSet(s)
    <2>1. 1 \in DOMAIN s /\ s[1] \in Item /\ Len(s) \in Nat /\ DOMAIN s = 1 .. Len(s)
      BY <1>3
    <2> DEFINE x == [s[1] EXCEPT !.locked = b]
    <2>2. SetLock(s, b) = [s EXCEPT ![1] = x] /\ x.locked = b
      BY <1>3, <2>1 DEF SetLock, Item
    <2> HIDE DEF x
    <2> DEFINE t == SetLock(s, b)
    <2>3. Len(t) = Len(s) /\ t[1] = x /\ \A i \in DOMAIN s : i # 1 => t[i] = s[i]
      BY <2>1, <2>2
    <2> HIDE DEF t
    <2>4. ASSUME NEW d \in 1 .. Len(s)
          PROVE  d \in LockedSet(t) <=> IF d = Len(s) THEN b = TRUE ELSE d \in LockedSet(s)
      <3>1. d \in LockedSet(t) <=> t[Len(s) + 1 - d].locked = TRUE
        BY <2>3 DEF LockedSet
      <3>2. CASE d = Len(s)
        <4>1. Len(s) + 1 - d = 1
          BY <2>1, <3>2
        <4> QED BY <2>2, <2>3, <3>1, <3>2, <4>1
      <3>3. CASE d # Len(s)
        <4>0. \A n \in Nat : \A e \in 1 .. n : e # n => n + 1 - e \in 1 .. n /\ n + 1 - e # 1
          OBVIOUS
        <4>1. Len(s) + 1 - d \in DOMAIN s /\ Len(s) + 1 - d # 1
          BY <2>1, <3>3, <4>0
        <4>2. t[Len(s) + 1 - d] = s[Len(s) + 1 - d]
          BY <2>3, <4>1
        <4> QED BY <3>1, <3>3, <4>2 DEF LockedSet
      <3> QED BY <3>2, <3>3
    <2> QED BY <2>4 DEF t
  <1>4. \A b \in BOOLEAN : LockedSet(SetLock(s, b)) \subseteq 1 .. Len(s)
    BY <1>1 DEF LockedSet
  <1>5. LockedSet(s) \subseteq 1 .. Len(s)
    BY DEF LockedSet
  <1>6. s # <<>> => Len(s) \in 1 .. Len(s)
    OBVIOUS
  <1>7. s # <<>> => LockedSet(SetLock(s, TRUE)) = LockedSet(s) \cup {Len(s)}
    BY <1>3, <1>4, <1>5, <1>6
  <1>8. s # <<>> => LockedSet(SetLock(s, FALSE)) = LockedSet(s) \ {Len(s)}
    BY <1>3, <1>4, <1>5, <1>6
  <1> QED BY <1>1, <1>2, <1>7, <1>8

LEMMA LockedSetPush ==
    ASSUME NEW s \in Seq(Item), NEW it \in Item, it.locked = FALSE
    PROVE  LockedSet(<<it>> \o s) = LockedSet(s)
  <1> DEFINE t == <<it>> \o s
  <1>1. /\ Len(s) \in Nat /\ Len(t) = Len(s) + 1 /\ t[1] = it
        /\ \A i \in 1 .. Len(s) : t[i + 1] = s[i]
    OBVIOUS
  <1> HIDE DEF t
  <1>2. ASSUME NEW d \in 1 .. Len(s)
        PROVE  t[Len(t) + 1 - d] = s[Len(s) + 1 - d]
    <2>1. Len(s) + 1 - d \in 1 .. Len(s) /\ (Len(s) + 1 - d) + 1 = Len(t) + 1 - d
      BY <1>1
    <2> QED BY <1>1, <2>1
  <1>3. t[Len(t) + 1 - (Len(s) + 1)].locked # TRUE
    <2>1. Len(t) + 1 - (Len(s) + 1) = 1
      BY <1>1
    <2>2. t[1].locked = FALSE
      BY <1>1
    <2> QED BY <2>1, <2>2
  <1>4. 1 .. Len(t) = (1 .. Len(s)) \cup {Len(s) + 1}
    BY <1>1
  <1>5. LockedSet(t) = LockedSet(s)
    BY <1>2, <1>3, <1>4 DEF LockedSet
  <1> QED BY <1>5 DEF t

LEMMA LockedSetPop ==
    ASSUME NEW s \in Seq(Item), s # <<>>
    PROVE  LockedSet(Tail(s)) = LockedSet(s) \ {Len(s)}
  <1> DEFINE t == Tail(s)
  <1>1. /\ Len(s) \in Nat /\ Len(s) > 0 /\ Len(t) = Len(s) - 1
        /\ \A i \in 1 .. Len(t) : t[i] = s[i + 1]
    OBVIOUS
  <1> HIDE DEF t
  <1>2. ASSUME NEW d \in 1 .. Len(t)
        PROVE  t[Len(t) + 1 - d] = s[Len(s) + 1 - d]
    <2>1. Len(t) + 1 - d \in 1 .. Len(t) /\ (Len(t) + 1 - d) + 1 = Len(s) + 1 - d
      BY <1>1
    <2> QED BY <1>1, <2>1
  <1>3. 1 .. Len(t) = (1 .. Len(s)) \ {Len(s)}
    BY <1>1
  <1>4. LockedSet(t) = LockedSet(s) \ {Len(s)}
    BY <1>2, <1>3 DEF LockedSet
  <1> QED BY <1>4 DEF t

-----------------------------------------------------------------------------
(* The calls that hold a lock. *)

LEMMA HolderSetTop ==
    ASSUME NEW fs \in Seq(Frame), fs # <<>>, NEW b \in Seq(Nat), Len(b) = Len(fs)
    PROVE  /\ Holder(fs[1]) => HolderSet(b, fs, 0) = HolderSet(b, fs, 1) \cup {b[1]}
           /\ ~Holder(fs[1]) => HolderSet(b, fs, 0) = HolderSet(b, fs, 1)
  <1>1. DOMAIN fs = 1 .. Len(fs) /\ Len(fs) \in Nat /\ 1 \in DOMAIN fs
    OBVIOUS
  <1>2. \A k \in DOMAIN fs : k > 0 <=> k = 1 \/ k > 1
    BY <1>1
  <1> QED BY <1>1, <1>2 DEF HolderSet

Replaced(fs, g) == [fs EXCEPT ![1] = g]

LEMMA HolderSetReplace ==
    ASSUME NEW fs \in Seq(Frame), fs # <<>>, NEW b, NEW g, NEW i \in Nat, i > 0
    PROVE  HolderSet(b, Replaced(fs, g), i) = HolderSet(b, fs, i)
  <1> DEFINE new == Replaced(fs, g)
  <1>1. DOMAIN fs = 1 .. Len(fs) /\ DOMAIN new = DOMAIN fs
        /\ \A k \in DOMAIN fs : k > i => new[k] = fs[k]
    BY DEF Replaced
  <1> HIDE DEF new
  <1>2. HolderSet(b, new, i) = HolderSet(b, fs, i)
    BY <1>1 DEF HolderSet
  <1> QED BY <1>2 DEF new

LEMMA HolderSetPush ==
    ASSUME NEW fs \in Seq(Frame), NEW b \in Seq(Nat), Len(b) = Len(fs),
           NEW f \in Frame, NEW x \in Nat, NEW i \in Nat
    PROVE  HolderSet(<<x>> \o b, <<f>> \o fs, i + 1) = HolderSet(b, fs, i)
  <1> DEFINE c == <<x>> \o b
             gs == <<f>> \o fs
  <1>1. /\ DOMAIN fs = 1 .. Len(fs) /\ Len(fs) \in Nat /\ DOMAIN gs = 1 .. (Len(fs) + 1)
        /\ \A k \in DOMAIN fs : gs[k + 1] = fs[k] /\ c[k + 1] = b[k]
    OBVIOUS
  <1> HIDE DEF c, gs
  <1>2. ASSUME NEW k \in DOMAIN fs, k > i, Holder(fs[k])
        PROVE  b[k] \in HolderSet(c, gs, i + 1)
    <2>1. k + 1 \in DOMAIN gs /\ k + 1 > i + 1 /\ gs[k + 1] = fs[k] /\ c[k + 1] = b[k]
      BY <1>1, <1>2
    <2> QED BY <1>2, <2>1 DEF HolderSet
  <1>3. ASSUME NEW k \in DOMAIN gs, k > i + 1, Holder(gs[k])
        PROVE  c[k] \in HolderSet(b, fs, i)
    <2>1. k - 1 \in DOMAIN fs /\ k - 1 > i /\ (k - 1) + 1 = k
      BY <1>1, <1>3
    <2>2. gs[k] = fs[k - 1] /\ c[k] = b[k - 1]
      BY <1>1, <2>1
    <2> QED BY <1>3, <2>1, <2>2 DEF HolderSet
  <1>4. HolderSet(c, gs, i + 1) = HolderSet(b, fs, i)
    BY <1>2, <1>3 DEF HolderSet
  <1> QED BY <1>4 DEF c, gs

LEMMA HolderSetTail ==
    ASSUME NEW fs \in Seq(Frame), fs # <<>>, NEW b \in Seq(Nat), Len(b) = Len(fs), NEW i \in Nat
    PROVE  HolderSet(Tail(b), Tail(fs), i) = HolderSet(b, fs, i + 1)
  <1> DEFINE c == Tail(b)
             gs == Tail(fs)
             x == Head(b)
             f == Head(fs)
  <1>1. /\ c \in Seq(Nat) /\ gs \in Seq(Frame) /\ Len(c) = Len(gs) /\ x \in Nat /\ f \in Frame
        /\ b = <<x>> \o c /\ fs = <<f>> \o gs
    OBVIOUS
  <1> HIDE DEF c, gs, x, f
  <1>2. HolderSet(<<x>> \o c, <<f>> \o gs, i + 1) = HolderSet(c, gs, i)
    BY <1>1, HolderSetPush
  <1> QED BY <1>1, <1>2 DEF c, gs

LEMMA HolderSetBound ==
    ASSUME NEW fs \in Seq(Frame), NEW b, NEW s, Depths(b, fs, s), NEW i \in Nat
    PROVE  \A d \in HolderSet(b, fs, i) :
              /\ d \in Nat /\ d <= Len(s) /\ fs # <<>> /\ d <= b[1]
  <1>1. DOMAIN fs = 1 .. Len(fs) /\ Len(fs) \in Nat /\ b \in Seq(Nat) /\ Len(b) = Len(fs)
    BY DEF Depths
  <1>2. ASSUME NEW j \in DOMAIN fs
        PROVE  b[j] \in Nat /\ b[j] <= Len(s) /\ fs # <<>> /\ b[j] <= b[1]
    <2>1. j \in 1 .. Len(fs) /\ 1 \in DOMAIN fs /\ 1 <= j
      BY <1>1
    <2>2. b[j] <= Len(s) /\ b[j] <= b[1]
      BY <2>1 DEF Depths
    <2> QED BY <1>1, <2>1, <2>2
  <1> QED BY <1>2 DEF HolderSet

-----------------------------------------------------------------------------
(* What the changes of the call stack and of the stream stack preserve. *)

LEMMA BalancedTypes ==
    ASSUME NEW b, NEW fs, NEW s, NEW v, Balanced(b, fs, s, v)
    PROVE  /\ fs \in Seq(Frame) /\ s \in Seq(Item) /\ v \in Seq([Channels -> Handles])
           /\ b \in Seq(Nat) /\ Len(b) = Len(fs) /\ Len(v) = Len(s) + 1
           /\ Len(fs) \in Nat /\ Len(s) \in Nat /\ Len(v) \in Nat
           /\ DOMAIN fs = 1 .. Len(fs) /\ DOMAIN b = 1 .. Len(fs) /\ DOMAIN v = 1 .. Len(v)
           /\ \A i \in DOMAIN fs : fs[i] \in Frame /\ b[i] \in Nat /\ b[i] <= Len(s)
           /\ fs # <<>> => 1 \in DOMAIN fs
  <1>1. /\ fs \in Seq(Frame) /\ s \in Seq(Item) /\ v \in Seq([Channels -> Handles])
        /\ b \in Seq(Nat) /\ Len(b) = Len(fs) /\ Len(v) = Len(s) + 1
        /\ \A i \in DOMAIN fs : b[i] <= Len(s)
    BY DEF Balanced, Depths
  <1> QED BY <1>1

\* The top call goes on, and the lock bits follow it.
LEMMA BalancedTop ==
    ASSUME NEW b, NEW fs, NEW s, NEW v, Balanced(b, fs, s, v), fs # <<>>,
           NEW g \in Frame, g.was = fs[1].was, g.pc \in Settled => b[1] = Len(s),
           NEW t \in Seq(Item), Len(t) = Len(s), Locks(b, Replaced(fs, g), t)
    PROVE  Balanced(b, Replaced(fs, g), t, v)
  <1> DEFINE new == Replaced(fs, g)
  <1>1. /\ fs \in Seq(Frame) /\ Len(fs) \in Nat /\ DOMAIN fs = 1 .. Len(fs) /\ 1 \in DOMAIN fs
    BY BalancedTypes
  <1>2. /\ new \in Seq(Frame) /\ Len(new) = Len(fs) /\ DOMAIN new = DOMAIN fs /\ new[1] = g
        /\ \A i \in DOMAIN fs : i # 1 => new[i] = fs[i]
        /\ \A i \in DOMAIN fs : i + 1 # 1
    BY <1>1 DEF Replaced
  <1> HIDE DEF new
  <1>3. Depths(b, new, t)
    BY <1>1, <1>2 DEF Balanced, Depths
  <1>4. Given(b, new, v)
    BY <1>1, <1>2 DEF Balanced, Given
  <1> QED BY <1>2, <1>3, <1>4 DEF Balanced, new

\* The calls that hold locks further out are the same.
LEMMA HoldersAfter ==
    ASSUME NEW b, NEW fs, NEW s, NEW v, Balanced(b, fs, s, v), fs # <<>>, NEW g \in Frame
    PROVE  /\ Holder(g) => HolderSet(b, Replaced(fs, g), 0) = HolderSet(b, fs, 1) \cup {b[1]}
           /\ ~Holder(g) => HolderSet(b, Replaced(fs, g), 0) = HolderSet(b, fs, 1)
           /\ \A i \in DOMAIN fs :
                HolderSet(b, Replaced(fs, g), i) = HolderSet(b, fs, i)
           /\ DOMAIN Replaced(fs, g) = DOMAIN fs /\ Replaced(fs, g)[1] = g
           /\ \A i \in DOMAIN fs : i # 1 => Replaced(fs, g)[i] = fs[i]
  <1> DEFINE new == Replaced(fs, g)
  <1>1. /\ fs \in Seq(Frame) /\ Len(fs) \in Nat /\ DOMAIN fs = 1 .. Len(fs) /\ 1 \in DOMAIN fs
        /\ b \in Seq(Nat) /\ Len(b) = Len(fs)
    BY BalancedTypes
  <1>2. /\ new \in Seq(Frame) /\ new # <<>> /\ Len(new) = Len(fs) /\ DOMAIN new = DOMAIN fs
        /\ new[1] = g /\ \A i \in DOMAIN fs : i # 1 => new[i] = fs[i]
    BY <1>1 DEF Replaced
  <1>3. ASSUME NEW i \in DOMAIN fs PROVE HolderSet(b, new, i) = HolderSet(b, fs, i)
    <2>1. i \in Nat /\ i > 0
      BY <1>1
    <2> QED BY <1>1, <2>1, HolderSetReplace
  <1> HIDE DEF new
  <1>4. /\ Holder(new[1]) => HolderSet(b, new, 0) = HolderSet(b, new, 1) \cup {b[1]}
        /\ ~Holder(new[1]) => HolderSet(b, new, 0) = HolderSet(b, new, 1)
    BY <1>1, <1>2, HolderSetTop
  <1>5. HolderSet(b, new, 1) = HolderSet(b, fs, 1)
    BY <1>1, <1>3
  <1>6. /\ Holder(g) => HolderSet(b, new, 0) = HolderSet(b, fs, 1) \cup {b[1]}
        /\ ~Holder(g) => HolderSet(b, new, 0) = HolderSet(b, fs, 1)
    BY <1>2, <1>4, <1>5
  <1> QED BY <1>2, <1>3, <1>6 DEF new

LEMMA TopSame ==
    ASSUME NEW b, NEW fs, NEW s, NEW v, Balanced(b, fs, s, v), fs # <<>>,
           NEW g \in Frame, g.was = fs[1].was, g.lock = fs[1].lock,
           Holder(g) <=> Holder(fs[1]), g.pc \in Settled => b[1] = Len(s)
    PROVE  Balanced(b, Replaced(fs, g), s, v)
  <1> DEFINE new == Replaced(fs, g)
  <1>1. /\ fs \in Seq(Frame) /\ s \in Seq(Item) /\ b \in Seq(Nat) /\ Len(b) = Len(fs)
        /\ 1 \in DOMAIN fs
    BY BalancedTypes
  <1>2. /\ Holder(fs[1]) => HolderSet(b, fs, 0) = HolderSet(b, fs, 1) \cup {b[1]}
        /\ ~Holder(fs[1]) => HolderSet(b, fs, 0) = HolderSet(b, fs, 1)
    BY <1>1, HolderSetTop
  <1>3. /\ Holder(g) => HolderSet(b, new, 0) = HolderSet(b, fs, 1) \cup {b[1]}
        /\ ~Holder(g) => HolderSet(b, new, 0) = HolderSet(b, fs, 1)
        /\ \A i \in DOMAIN fs : HolderSet(b, new, i) = HolderSet(b, fs, i)
        /\ DOMAIN new = DOMAIN fs /\ new[1] = g
        /\ \A i \in DOMAIN fs : i # 1 => new[i] = fs[i]
    BY HoldersAfter
  <1> HIDE DEF new
  <1>4. HolderSet(b, new, 0) = HolderSet(b, fs, 0)
    BY <1>2, <1>3
  <1>5. \A i \in DOMAIN fs : (Holder(new[i]) <=> Holder(fs[i])) /\ new[i].lock = fs[i].lock
    BY <1>3
  <1>6. Locks(b, fs, s)
    BY DEF Balanced
  <1>7. LockedSet(s) = HolderSet(b, new, 0) \ {0}
    BY <1>4, <1>6 DEF Locks
  <1>8. ASSUME NEW i \in DOMAIN new, Holder(new[i]), b[i] > 0
        PROVE  new[i].lock = TRUE <=> b[i] \in HolderSet(b, new, i)
    <2>1. i \in DOMAIN fs /\ Holder(fs[i]) /\ new[i].lock = fs[i].lock
          /\ HolderSet(b, new, i) = HolderSet(b, fs, i)
      BY <1>3, <1>5, <1>8
    <2>2. fs[i].lock = TRUE <=> b[i] \in HolderSet(b, fs, i)
      BY <1>6, <1>8, <2>1 DEF Locks
    <2> QED BY <2>1, <2>2
  <1>9. Locks(b, new, s)
    BY <1>7, <1>8 DEF Locks
  <1> QED BY <1>1, <1>9, BalancedTop DEF new

\* The top call locks the item it finds on top.
LEMMA HoldTop ==
    ASSUME NEW b, NEW fs, NEW s, NEW v, Balanced(b, fs, s, v), fs # <<>>,
           NEW g \in Frame, g.was = fs[1].was, g.lock = Locked(s),
           Holder(g), ~Holder(fs[1]), b[1] = Len(s)
    PROVE  Balanced(b, Replaced(fs, g), SetLock(s, TRUE), v)
  <1> DEFINE new == Replaced(fs, g)
             t == SetLock(s, TRUE)
  <1>1. /\ fs \in Seq(Frame) /\ s \in Seq(Item) /\ b \in Seq(Nat) /\ Len(b) = Len(fs)
        /\ 1 \in DOMAIN fs /\ DOMAIN fs = 1 .. Len(fs) /\ Len(s) \in Nat
    BY BalancedTypes
  <1>2. HolderSet(b, fs, 0) = HolderSet(b, fs, 1)
    BY <1>1, HolderSetTop
  <1>3. /\ HolderSet(b, new, 0) = HolderSet(b, fs, 1) \cup {b[1]}
        /\ \A i \in DOMAIN fs : HolderSet(b, new, i) = HolderSet(b, fs, i)
        /\ DOMAIN new = DOMAIN fs /\ new[1] = g
        /\ \A i \in DOMAIN fs : i # 1 => new[i] = fs[i]
    BY HoldersAfter
  <1> HIDE DEF new
  <1>4. LockedSet(s) = HolderSet(b, fs, 0) \ {0}
    BY DEF Balanced, Locks
  <1>5. t \in Seq(Item) /\ Len(t) = Len(s)
    BY <1>1, LockedSetLock
  <1>6. LockedSet(t) = HolderSet(b, new, 0) \ {0}
    <2>1. CASE s = <<>>
      <3>1. t = s /\ Len(s) = 0
        BY <1>1, <2>1, LockedSetLock
      <3> QED BY <1>2, <1>3, <1>4, <3>1
    <2>2. CASE s # <<>>
      <3>1. LockedSet(t) = LockedSet(s) \cup {Len(s)}
        BY <1>1, <2>2, LockedSetLock
      <3>2. Len(s) # 0
        BY <1>1, <2>2
      <3> QED BY <1>1, <1>2, <1>3, <1>4, <3>1, <3>2
    <2> QED BY <2>1, <2>2
  <1> HIDE DEF t
  <1>7. ASSUME NEW i \in DOMAIN new, Holder(new[i]), b[i] > 0
        PROVE  new[i].lock = TRUE <=> b[i] \in HolderSet(b, new, i)
    <2>1. CASE i = 1
      <3>1. s # <<>> /\ Len(s) # 0
        BY <1>1, <1>7, <2>1
      <3>2. Locked(s) = TRUE <=> Len(s) \in LockedSet(s)
        BY <1>1, <3>1, LockedSetTop
      <3>3. Len(s) \in LockedSet(s) <=> Len(s) \in HolderSet(b, new, 1)
        BY <1>1, <1>2, <1>3, <1>4, <3>1
      <3> QED BY <1>3, <2>1, <3>2, <3>3
    <2>2. CASE i # 1
      <3>1. i \in DOMAIN fs /\ new[i] = fs[i] /\ HolderSet(b, new, i) = HolderSet(b, fs, i)
        BY <1>3, <2>2
      <3> QED BY <1>7, <3>1 DEF Balanced, Locks
    <2> QED BY <2>1, <2>2
  <1>8. Locks(b, new, t)
    BY <1>6, <1>7 DEF Locks
  <1> QED BY <1>5, <1>8, BalancedTop DEF new, t

\* The top call gives the item its lock back.
LEMMA ReleaseTop ==
    ASSUME NEW b, NEW fs, NEW s, NEW v, Balanced(b, fs, s, v), fs # <<>>,
           NEW g \in Frame, g.was = fs[1].was,
           ~Holder(g), Holder(fs[1]), b[1] = Len(s)
    PROVE  Balanced(b, Replaced(fs, g), SetLock(s, fs[1].lock), v)
  <1> DEFINE new == Replaced(fs, g)
             t == SetLock(s, fs[1].lock)
  <1>1. /\ fs \in Seq(Frame) /\ s \in Seq(Item) /\ b \in Seq(Nat) /\ Len(b) = Len(fs)
        /\ 1 \in DOMAIN fs /\ DOMAIN fs = 1 .. Len(fs) /\ Len(s) \in Nat /\ fs[1] \in Frame
    BY BalancedTypes
  <1>0. fs[1].lock \in BOOLEAN
    BY <1>1 DEF Frame
  <1>2. HolderSet(b, fs, 0) = HolderSet(b, fs, 1) \cup {Len(s)}
    BY <1>1, HolderSetTop
  <1>3. /\ HolderSet(b, new, 0) = HolderSet(b, fs, 1)
        /\ \A i \in DOMAIN fs : HolderSet(b, new, i) = HolderSet(b, fs, i)
        /\ DOMAIN new = DOMAIN fs /\ new[1] = g
        /\ \A i \in DOMAIN fs : i # 1 => new[i] = fs[i]
    BY HoldersAfter
  <1> HIDE DEF new
  <1>4. /\ LockedSet(s) = HolderSet(b, fs, 0) \ {0}
        /\ Len(s) > 0 => (fs[1].lock = TRUE <=> Len(s) \in HolderSet(b, fs, 1))
    BY <1>1 DEF Balanced, Locks
  <1>5. t \in Seq(Item) /\ Len(t) = Len(s)
    BY <1>0, <1>1, LockedSetLock
  <1>6. LockedSet(t) = HolderSet(b, new, 0) \ {0}
    <2>1. CASE s = <<>>
      <3>1. t = s /\ Len(s) = 0
        BY <1>0, <1>1, <2>1, LockedSetLock
      <3> QED BY <1>2, <1>3, <1>4, <3>1
    <2>2. CASE s # <<>>
      <3>1. Len(s) # 0 /\ Len(s) > 0
        BY <1>1, <2>2
      <3>2. CASE fs[1].lock = TRUE
        <4>1. LockedSet(t) = LockedSet(s) \cup {Len(s)}
          BY <1>1, <2>2, <3>2, LockedSetLock
        <4>2. Len(s) \in HolderSet(b, fs, 1)
          BY <1>4, <3>1, <3>2
        <4> QED BY <1>2, <1>3, <1>4, <3>1, <4>1, <4>2
      <3>3. CASE fs[1].lock = FALSE
        <4>1. LockedSet(t) = LockedSet(s) \ {Len(s)}
          BY <1>1, <2>2, <3>3, LockedSetLock
        <4>2. Len(s) \notin HolderSet(b, fs, 1)
          BY <1>4, <3>1, <3>3
        <4> QED BY <1>2, <1>3, <1>4, <3>1, <4>1, <4>2
      <3> QED BY <1>0, <3>2, <3>3
    <2> QED BY <2>1, <2>2
  <1> HIDE DEF t
  <1>7. ASSUME NEW i \in DOMAIN new, Holder(new[i]), b[i] > 0
        PROVE  new[i].lock = TRUE <=> b[i] \in HolderSet(b, new, i)
    <2>1. i # 1
      BY <1>3, <1>7
    <2>2. i \in DOMAIN fs /\ new[i] = fs[i] /\ HolderSet(b, new, i) = HolderSet(b, fs, i)
      BY <1>3, <2>1
    <2> QED BY <1>7, <2>2 DEF Balanced, Locks
  <1>8. Locks(b, new, t)
    BY <1>6, <1>7 DEF Locks
  <1> QED BY <1>5, <1>8, BalancedTop DEF new, t

\* A call is made, and returns.
LEMMA PushCall ==
    ASSUME NEW b, NEW fs, NEW s, NEW v, Balanced(b, fs, s, v),
           NEW f \in Frame, f.was = v[1], ~Holder(f)
    PROVE  Balanced(<<Len(s)>> \o b, <<f>> \o fs, s, v)
  <1> DEFINE c == <<Len(s)>> \o b
             gs == <<f>> \o fs
  <1>1. /\ fs \in Seq(Frame) /\ s \in Seq(Item) /\ b \in Seq(Nat) /\ Len(b) = Len(fs)
        /\ DOMAIN fs = 1 .. Len(fs) /\ Len(s) \in Nat /\ Len(fs) \in Nat
        /\ Len(v) = Len(s) + 1 /\ v \in Seq([Channels -> Handles])
        /\ \A i \in DOMAIN fs : b[i] \in Nat /\ b[i] <= Len(s)
    BY BalancedTypes
  <1>2. /\ gs \in Seq(Frame) /\ gs # <<>> /\ c \in Seq(Nat) /\ Len(c) = Len(gs)
        /\ DOMAIN gs = 1 .. (Len(fs) + 1) /\ gs[1] = f /\ c[1] = Len(s)
        /\ \A i \in DOMAIN gs : i = 1 \/ (i - 1 \in DOMAIN fs /\ gs[i] = fs[i - 1] /\ c[i] = b[i - 1])
    BY <1>1
  <1>3. ASSUME NEW i \in Nat PROVE HolderSet(c, gs, i + 1) = HolderSet(b, fs, i)
    BY <1>1, <1>3, HolderSetPush
  <1> HIDE DEF c, gs
  <1>4. HolderSet(c, gs, 0) = HolderSet(b, fs, 0)
    <2>1. HolderSet(c, gs, 0) = HolderSet(c, gs, 1)
      BY <1>2, HolderSetTop
    <2>2. HolderSet(c, gs, 0 + 1) = HolderSet(b, fs, 0)
      BY <1>3
    <2> QED BY <2>1, <2>2
  <1>5. Depths(c, gs, s)
    <2>1. ASSUME NEW i \in DOMAIN gs PROVE c[i] <= Len(s)
      <3>1. i = 1 \/ (i - 1 \in DOMAIN fs /\ c[i] = b[i - 1])
        BY <1>2
      <3>2. Len(s) <= Len(s)
        BY <1>1
      <3> QED BY <1>1, <1>2, <3>1, <3>2
    <2>2. ASSUME NEW i \in DOMAIN gs, NEW j \in DOMAIN gs, i <= j PROVE c[j] <= c[i]
      <3>1. CASE i = 1
        BY <1>2, <2>1, <3>1
      <3>2. CASE i # 1
        <4>1. j # 1 /\ i - 1 <= j - 1
          BY <1>1, <1>2, <2>2, <3>2
        <4>2. i - 1 \in DOMAIN fs /\ j - 1 \in DOMAIN fs /\ c[i] = b[i - 1] /\ c[j] = b[j - 1]
          BY <1>2, <3>2, <4>1
        <4> QED BY <4>1, <4>2 DEF Balanced, Depths
      <3> QED BY <3>1, <3>2
    <2>3. ASSUME NEW i \in DOMAIN gs, i + 1 \in DOMAIN gs, gs[i + 1].pc = "ran"
          PROVE  c[i] = c[i + 1]
      <3>1. (i + 1) - 1 = i /\ i + 1 # 1
        BY <1>1, <1>2
      <3>2. i \in DOMAIN fs /\ gs[i + 1] = fs[i] /\ c[i + 1] = b[i]
        BY <1>2, <2>3, <3>1
      <3>3. CASE i = 1
        <4>1. fs # <<>> /\ fs[1].pc \in Settled
          BY <1>1, <2>3, <3>2, <3>3 DEF Settled
        <4>2. b[1] = Len(s)
          BY <4>1 DEF Balanced, Depths
        <4> QED BY <1>2, <3>2, <3>3, <4>2
      <3>4. CASE i # 1
        <4>1. i - 1 \in DOMAIN fs /\ (i - 1) + 1 = i /\ c[i] = b[i - 1]
          BY <1>1, <1>2, <3>4
        <4> DEFINE k == i - 1
        <4>2. k \in DOMAIN fs /\ k + 1 \in DOMAIN fs /\ fs[k + 1].pc = "ran"
          BY <2>3, <3>2, <4>1
        <4> HIDE DEF k
        <4>3. b[k] = b[k + 1]
          BY <4>2 DEF Balanced, Depths
        <4> QED BY <3>2, <4>1, <4>3 DEF k
      <3> QED BY <3>3, <3>4
    <2> QED BY <1>2, <2>1, <2>2, <2>3 DEF Depths
  <1>6. Locks(c, gs, s)
    <2>1. LockedSet(s) = HolderSet(c, gs, 0) \ {0}
      BY <1>4 DEF Balanced, Locks
    <2>2. ASSUME NEW i \in DOMAIN gs, Holder(gs[i]), c[i] > 0
          PROVE  gs[i].lock = TRUE <=> c[i] \in HolderSet(c, gs, i)
      <3>1. i # 1
        BY <1>2, <2>2
      <3> DEFINE k == i - 1
      <3>2a. i \in 1 .. (Len(fs) + 1) /\ Len(fs) \in Nat
        BY <1>1, <1>2
      <3>2b. k \in Nat /\ k + 1 = i
        BY <3>2a, <3>1
      <3>2c. k \in DOMAIN fs /\ gs[i] = fs[k] /\ c[i] = b[k]
        BY <1>2, <3>1
      <3> HIDE DEF k
      <3>2. k \in DOMAIN fs /\ k \in Nat /\ k + 1 = i /\ gs[i] = fs[k] /\ c[i] = b[k]
        BY <3>2b, <3>2c
      <3>3. HolderSet(c, gs, k + 1) = HolderSet(b, fs, k)
        BY <1>3, <3>2
      <3>4. fs[k].lock = TRUE <=> b[k] \in HolderSet(b, fs, k)
        BY <2>2, <3>2 DEF Balanced, Locks
      <3> QED BY <3>2, <3>3, <3>4
    <2> QED BY <2>1, <2>2 DEF Locks
  <1>7. ASSUME NEW i \in DOMAIN gs PROVE gs[i].was = v[Len(v) - c[i]]
    <2>1. CASE i = 1
      <3>1. Len(v) - c[i] = 1
        BY <1>1, <1>2, <2>1
      <3> QED BY <1>2, <2>1, <3>1
    <2>2. CASE i # 1
      BY <1>2, <2>2 DEF Balanced, Given
    <2> QED BY <2>1, <2>2
  <1> QED BY <1>1, <1>2, <1>5, <1>6, <1>7 DEF Balanced, Given, c, gs

LEMMA PopCall ==
    ASSUME NEW b, NEW fs, NEW s, NEW v, Balanced(b, fs, s, v), fs # <<>>,
           ~Holder(fs[1]), b[1] = Len(s),
           1 + 1 \in DOMAIN fs => fs[1 + 1].pc \in {"ran", "pop"}
    PROVE  Balanced(Tail(b), Tail(fs), s, v)
  <1> DEFINE c == Tail(b)
             gs == Tail(fs)
  <1>1. /\ fs \in Seq(Frame) /\ s \in Seq(Item) /\ b \in Seq(Nat) /\ Len(b) = Len(fs)
        /\ DOMAIN fs = 1 .. Len(fs) /\ Len(s) \in Nat /\ Len(fs) \in Nat /\ 1 \in DOMAIN fs
        /\ Len(v) = Len(s) + 1 /\ v \in Seq([Channels -> Handles])
    BY BalancedTypes
  <1>2. /\ gs \in Seq(Frame) /\ c \in Seq(Nat) /\ Len(c) = Len(gs)
        /\ DOMAIN gs = 1 .. (Len(fs) - 1)
        /\ \A i \in DOMAIN gs : /\ i \in Nat /\ i \in DOMAIN fs /\ i + 1 \in DOMAIN fs
                                /\ gs[i] = fs[i + 1] /\ c[i] = b[i + 1]
    BY <1>1
  <1>3. ASSUME NEW i \in Nat PROVE HolderSet(c, gs, i) = HolderSet(b, fs, i + 1)
    BY <1>1, <1>3, HolderSetTail
  <1> HIDE DEF c, gs
  <1>4. HolderSet(c, gs, 0) = HolderSet(b, fs, 0)
    <2>1. HolderSet(b, fs, 0) = HolderSet(b, fs, 1)
      BY <1>1, HolderSetTop
    <2>2. HolderSet(c, gs, 0) = HolderSet(b, fs, 0 + 1)
      BY <1>3
    <2> QED BY <2>1, <2>2
  <1>5. Depths(c, gs, s)
    <2>1. \A i \in DOMAIN gs : c[i] <= Len(s)
      BY <1>2 DEF Balanced, Depths
    <2>2. ASSUME NEW i \in DOMAIN gs, NEW j \in DOMAIN gs, i <= j PROVE c[j] <= c[i]
      <3>1. i + 1 <= j + 1
        BY <1>2, <2>2
      <3>2. b[j + 1] <= b[i + 1]
        BY <1>2, <3>1 DEF Balanced, Depths
      <3> QED BY <1>2, <3>2
    <2>3. ASSUME NEW i \in DOMAIN gs, i + 1 \in DOMAIN gs, gs[i + 1].pc = "ran"
          PROVE  c[i] = c[i + 1]
      <3> DEFINE k == i + 1
      <3>1. k \in DOMAIN fs /\ k + 1 \in DOMAIN fs /\ fs[k + 1].pc = "ran"
            /\ c[i] = b[k] /\ c[k] = b[k + 1]
        BY <1>2, <2>3
      <3> HIDE DEF k
      <3>2. b[k] = b[k + 1]
        BY <3>1 DEF Balanced, Depths
      <3> QED BY <3>1, <3>2 DEF k
    <2>4. ASSUME gs # <<>>, gs[1].pc \in Settled PROVE c[1] = Len(s)
      <3>1. 1 \in DOMAIN gs
        BY <1>2, <2>4
      <3>2. 1 + 1 \in DOMAIN fs /\ gs[1] = fs[1 + 1] /\ c[1] = b[1 + 1]
        BY <1>2, <3>1
      <3>3. fs[1 + 1].pc = "ran"
        BY <2>4, <3>2 DEF Settled
      <3>4. b[1] = b[1 + 1]
        BY <1>1, <3>2, <3>3 DEF Balanced, Depths
      <3> QED BY <3>2, <3>4
    <2> QED BY <1>2, <2>1, <2>2, <2>3, <2>4 DEF Depths
  <1>6. Locks(c, gs, s)
    <2>1. LockedSet(s) = HolderSet(c, gs, 0) \ {0}
      BY <1>4 DEF Balanced, Locks
    <2>2. ASSUME NEW i \in DOMAIN gs, Holder(gs[i]), c[i] > 0
          PROVE  gs[i].lock = TRUE <=> c[i] \in HolderSet(c, gs, i)
      <3>1. i \in Nat /\ i + 1 \in DOMAIN fs /\ gs[i] = fs[i + 1] /\ c[i] = b[i + 1]
        BY <1>2
      <3>2. HolderSet(c, gs, i) = HolderSet(b, fs, i + 1)
        BY <1>3, <3>1
      <3>3. fs[i + 1].lock = TRUE <=> b[i + 1] \in HolderSet(b, fs, i + 1)
        BY <2>2, <3>1 DEF Balanced, Locks
      <3> QED BY <3>1, <3>2, <3>3
    <2> QED BY <2>1, <2>2 DEF Locks
  <1>7. \A i \in DOMAIN gs : gs[i].was = v[Len(v) - c[i]]
    BY <1>2 DEF Balanced, Given
  <1> QED BY <1>1, <1>2, <1>5, <1>6, <1>7 DEF Balanced, Given, c, gs

\* A stream is redirected below a call that is not settled, and restored.
LEMMA PushItemBelow ==
    ASSUME NEW b, NEW fs, NEW s, NEW v, Balanced(b, fs, s, v), fs # <<>>,
           fs[1].pc \notin Settled, NEW it \in Item, it.locked = FALSE,
           NEW x \in [Channels -> Handles]
    PROVE  Balanced(b, fs, <<it>> \o s, <<x>> \o v)
  <1> DEFINE t == <<it>> \o s
             w == <<x>> \o v
  <1>1. /\ fs \in Seq(Frame) /\ s \in Seq(Item) /\ Len(s) \in Nat
        /\ Len(v) = Len(s) + 1 /\ v \in Seq([Channels -> Handles])
        /\ \A i \in DOMAIN fs : b[i] \in Nat /\ b[i] <= Len(s)
    BY BalancedTypes
  <1>2. /\ t \in Seq(Item) /\ Len(t) = Len(s) + 1
        /\ w \in Seq([Channels -> Handles]) /\ Len(w) = Len(t) + 1
        /\ \A i \in 1 .. Len(v) : w[i + 1] = v[i]
    BY <1>1
  <1>3. LockedSet(t) = LockedSet(s)
    BY <1>1, LockedSetPush
  <1> HIDE DEF t, w
  <1>4. Depths(b, fs, t)
    <2>1. \A i \in DOMAIN fs : b[i] <= Len(t)
      BY <1>1, <1>2
    <2> QED BY <2>1 DEF Balanced, Depths
  <1>5. Locks(b, fs, t)
    BY <1>3 DEF Balanced, Locks
  <1>6. ASSUME NEW i \in DOMAIN fs PROVE fs[i].was = w[Len(w) - b[i]]
    <2>1. Len(v) - b[i] \in 1 .. Len(v) /\ (Len(v) - b[i]) + 1 = Len(w) - b[i]
      BY <1>1, <1>2
    <2>2. w[(Len(v) - b[i]) + 1] = v[Len(v) - b[i]]
      BY <1>2, <2>1
    <2> QED BY <2>1, <2>2 DEF Balanced, Given
  <1> QED BY <1>1, <1>2, <1>4, <1>5, <1>6 DEF Balanced, Given, t, w

LEMMA PopItemBelow ==
    ASSUME NEW b, NEW fs, NEW s, NEW v, Balanced(b, fs, s, v), fs # <<>>, s # <<>>,
           fs[1].pc \notin Settled, b[1] # Len(s)
    PROVE  Balanced(b, fs, Tail(s), Tail(v))
  <1> DEFINE t == Tail(s)
             w == Tail(v)
  <1>1. /\ fs \in Seq(Frame) /\ s \in Seq(Item) /\ Len(s) \in Nat /\ Len(s) > 0
        /\ Len(v) = Len(s) + 1 /\ v \in Seq([Channels -> Handles])
        /\ \A i \in DOMAIN fs : b[i] \in Nat /\ b[i] <= Len(s)
        /\ 1 \in DOMAIN fs /\ DOMAIN fs = 1 .. Len(fs)
    <2>1. /\ fs \in Seq(Frame) /\ s \in Seq(Item) /\ Len(s) \in Nat
          /\ Len(v) = Len(s) + 1 /\ v \in Seq([Channels -> Handles])
          /\ \A i \in DOMAIN fs : b[i] \in Nat /\ b[i] <= Len(s)
          /\ 1 \in DOMAIN fs /\ DOMAIN fs = 1 .. Len(fs)
      BY BalancedTypes
    <2>2. Len(s) > 0
      BY <2>1
    <2> QED BY <2>1, <2>2
  <1>2. /\ t \in Seq(Item) /\ Len(t) = Len(s) - 1
        /\ w \in Seq([Channels -> Handles]) /\ Len(w) = Len(t) + 1
        /\ \A i \in 1 .. Len(w) : w[i] = v[i + 1]
    BY <1>1
  <1>3. LockedSet(t) = LockedSet(s) \ {Len(s)}
    BY <1>1, LockedSetPop
  <1> HIDE DEF t, w
  <1>4. ASSUME NEW i \in DOMAIN fs PROVE b[i] <= Len(t) /\ b[i] < Len(s)
    <2>0. 1 <= i
      BY <1>1
    <2>1. b[i] <= b[1]
      BY <1>1, <2>0 DEF Balanced, Depths
    <2>2. b[1] \in Nat /\ b[1] <= Len(s) /\ b[i] \in Nat
      BY <1>1
    <2>3. b[1] < Len(s)
      BY <1>1, <2>2
    <2>4. b[i] < Len(s)
      BY <1>1, <2>1, <2>2, <2>3
    <2> QED BY <1>1, <1>2, <2>2, <2>4
  <1>5. Depths(b, fs, t)
    BY <1>4 DEF Balanced, Depths
  <1>6. Locks(b, fs, t)
    <2>1. Len(s) \notin HolderSet(b, fs, 0)
      BY <1>1, <1>4 DEF HolderSet
    <2> QED BY <1>3, <2>1 DEF Balanced, Locks
  <1>7. ASSUME NEW i \in DOMAIN fs PROVE fs[i].was = w[Len(w) - b[i]]
    <2>1. Len(w) - b[i] \in 1 .. Len(w) /\ (Len(w) - b[i]) + 1 = Len(v) - b[i]
      BY <1>1, <1>2, <1>4
    <2>2. w[Len(w) - b[i]] = v[(Len(w) - b[i]) + 1]
      BY <1>2, <2>1
    <2> QED BY <2>1, <2>2 DEF Balanced, Given
  <1> QED BY <1>1, <1>2, <1>5, <1>6, <1>7 DEF Balanced, Given, t, w

\* A call that has locked the item at its height stops there.
LEMMA LockedTop ==
    ASSUME NEW b, NEW fs, NEW s, NEW v, Balanced(b, fs, s, v), fs # <<>>, Holder(fs[1])
    PROVE  Locked(s) = TRUE <=> b[1] = Len(s)
  <1>1. /\ fs \in Seq(Frame) /\ s \in Seq(Item) /\ b \in Seq(Nat) /\ Len(b) = Len(fs)
        /\ Len(s) \in Nat /\ 1 \in DOMAIN fs /\ b[1] \in Nat /\ b[1] <= Len(s)
    BY BalancedTypes
  <1>2. HolderSet(b, fs, 0) = HolderSet(b, fs, 1) \cup {b[1]}
    BY <1>1, HolderSetTop
  <1>3. CASE s = <<>>
    <2>1. Locked(s) = TRUE
      BY <1>3 DEF Locked
    <2>2. b[1] = Len(s)
      BY <1>1, <1>3
    <2> QED BY <2>1, <2>2
  <1>4. CASE s # <<>>
    <2>1. Locked(s) = TRUE <=> Len(s) \in HolderSet(b, fs, 0) \ {0}
      BY <1>1, <1>4, LockedSetTop DEF Balanced, Locks
    <2>2. Len(s) # 0
      BY <1>1, <1>4
    <2>3. \A d \in HolderSet(b, fs, 0) : d <= b[1]
      BY <1>1, HolderSetBound DEF Balanced
    <2> QED BY <1>1, <1>2, <2>1, <2>2, <2>3
  <1> QED BY <1>3, <1>4

-----------------------------------------------------------------------------
(* Every step, seen from the calls: v gives the streams at each height. *)

BalancedNow(v, b) == v[1] = cur /\ Balanced(b, frames, stack, v)
BalancedNext(v) == \E c : Balanced(c, frames', stack', v)

LEMMA BalancedFacts ==
    ASSUME Inv, NEW v, NEW b, BalancedNow(v, b), frames # <<>>
    PROVE  /\ Top = frames[1] /\ Top \in Frame /\ frames \in Seq(Frame)
           /\ Top.pc \in Settled => b[1] = Len(stack)
           /\ 1 + 1 \in DOMAIN frames => frames[1 + 1].pc \in {"ran", "pop"}
           /\ \A g : Now(g) = Replaced(frames, g)
           /\ \A g \in Frame : Now(g) # <<>> /\ Now(g)[1] = g
  <1>1. Top = frames[1] /\ Top \in Frame /\ 1 \in DOMAIN frames /\ StackOK(frames, lines)
        /\ frames \in Seq(Frame)
    BY TopFacts DEF Inv, StackOK
  <1>2. Top.pc \in Settled => b[1] = Len(stack)
    BY <1>1 DEF BalancedNow, Balanced, Depths
  <1>3. 1 + 1 \in DOMAIN frames => frames[1 + 1].pc \in {"ran", "pop"}
    BY <1>1 DEF StackOK
  <1>4. \A g \in Frame : Now(g) # <<>> /\ Now(g)[1] = g
    BY <1>1 DEF Now
  <1> QED BY <1>1, <1>2, <1>3, <1>4 DEF Now, Replaced

\* The top call goes on.
LEMMA BalancedMoves ==
    ASSUME Inv, NEW v, NEW b, BalancedNow(v, b), frames # <<>>, NEW g, Same(g),
           Holder(g) <=> Holder(Top), g.pc \in Settled => b[1] = Len(stack)
    PROVE  Balanced(b, Now(g), stack, v) /\ Now(g) # <<>> /\ Now(g)[1] = g
  <1>1. /\ Top = frames[1] /\ Now(g) = Replaced(frames, g)
        /\ \A h \in Frame : Now(h) # <<>> /\ Now(h)[1] = h
    BY BalancedFacts
  <1>2. g \in Frame /\ g.was = frames[1].was /\ g.lock = frames[1].lock
    BY <1>1 DEF Same
  <1>3. Balanced(b, frames, stack, v)
    BY DEF BalancedNow
  <1>4. Balanced(b, Replaced(frames, g), stack, v)
    BY <1>1, <1>2, <1>3, TopSame
  <1> QED BY <1>1, <1>2, <1>4

LEMMA BalancedPoints ==
    ASSUME Inv, NEW v, NEW b, BalancedNow(v, b), stack' = stack,
           \/ StartCommand \/ RunProc \/ CmdGoto \/ CmdGotoNoLabel \/ CmdGotoEof \/ CmdExitB
           \/ CmdFails \/ CmdIfNothing \/ CmdIfBadOperator \/ CmdForError \/ CmdForBadInput
           \/ Looping
    PROVE  BalancedNext(v)
  <1>1. CASE Looping
    <2>1. frames # <<>> /\ Top.fn \in {"RunBlock", "CmdFor", "RunBatch"} /\ Top.pc = "ran"
      BY <1>1, LoopMove
    <2>2. PICK g : Same(g) /\ g.pc = "loop" /\ frames' = Now(g)
      BY <1>1, LoopMove
    <2>3. (Holder(g) <=> Holder(Top)) /\ b[1] = Len(stack)
      BY <2>1, <2>2, BalancedFacts DEF Holder, Same, Settled
    <2>4. Balanced(b, Now(g), stack, v)
      BY <2>1, <2>2, <2>3, BalancedMoves
    <2> QED BY <2>2, <2>4 DEF BalancedNext
  <1>2. CASE ~Looping
    <2>1. frames # <<>> /\ Top.fn = "RunParsedLine" /\ Top.pc \in {"redir", "cmd"}
      BY <1>2, PointMove
    <2>2. PICK g : Same(g) /\ g.pc \in {"cmd", "pop"} /\ frames' = Now(g)
      BY <1>2, PointMove
    <2>3. (Holder(g) <=> Holder(Top)) /\ g.pc \notin Settled
      BY <2>1, <2>2 DEF Holder, Same, Settled
    <2>4. Balanced(b, Now(g), stack, v)
      BY <2>1, <2>2, <2>3, BalancedMoves
    <2> QED BY <2>2, <2>4 DEF BalancedNext
  <1> QED BY <1>1, <1>2

\* A loop runs a line, IF and FOR what they are given.
LEMMA BalancedRuns ==
    ASSUME Inv, NEW v, NEW b, BalancedNow(v, b), stack' = stack,
           RunsLine \/ CmdFor \/ CmdIfTrue \/ CmdIfElse
    PROVE  BalancedNext(v)
  <1>1. CASE RunsLine
    <2>1. frames # <<>> /\ Top.fn \in {"RunBatch", "RunBlock", "CmdFor"} /\ Top.pc = "loop"
      BY <1>1, LineShape
    <2>2. PICK g, f \in Frame : /\ Same(g) /\ g.pc = "ran" /\ frames' = <<f>> \o Now(g)
                                /\ f.fn = "RunParsedLine" /\ f.pc = "ops" /\ f.was = cur
      BY <1>1, LineShape
    <2>3. (Holder(g) <=> Holder(Top)) /\ b[1] = Len(stack) /\ ~Holder(f) /\ f.was = v[1]
      BY <2>1, <2>2, BalancedFacts DEF Holder, Same, Settled, BalancedNow
    <2>4. Balanced(b, Now(g), stack, v)
      BY <2>1, <2>2, <2>3, BalancedMoves
    <2>5. Balanced(<<Len(stack)>> \o b, <<f>> \o Now(g), stack, v)
      BY <2>2, <2>3, <2>4, PushCall
    <2> QED BY <2>2, <2>5 DEF BalancedNext
  <1>2. CASE CmdFor
    <2>1. frames # <<>> /\ Top.fn = "RunParsedLine" /\ Top.pc = "cmd"
      BY <1>2, CommandShape DEF CallsOne
    <2>2. PICK g, f \in Frame : /\ Same(g) /\ g.pc = "pop" /\ frames' = <<f>> \o Now(g)
                                /\ f.fn = "CmdFor" /\ f.pc = "loop" /\ f.was = cur
      BY <1>2, ForShape
    <2>3. /\ Holder(g) <=> Holder(Top)
          /\ g.pc \notin Settled /\ ~Holder(f) /\ f.was = v[1]
      BY <2>1, <2>2 DEF Holder, Same, Settled, BalancedNow
    <2>4. Balanced(b, Now(g), stack, v)
      BY <2>1, <2>2, <2>3, BalancedMoves
    <2>5. Balanced(<<Len(stack)>> \o b, <<f>> \o Now(g), stack, v)
      BY <2>2, <2>3, <2>4, PushCall
    <2> QED BY <2>2, <2>5 DEF BalancedNext
  <1>3. CASE CmdIfTrue \/ CmdIfElse
    <2>1. frames # <<>> /\ Top.fn = "RunParsedLine" /\ Top.pc = "cmd"
      BY <1>3, CommandShape DEF CallsTwo
    <2>2. PICK g, f, h \in Frame :
              /\ Same(g) /\ g.pc = "pop" /\ frames' = <<h>> \o (<<f>> \o Now(g))
              /\ f.fn = "CmdIf" /\ f.pc = "ran" /\ f.was = cur
              /\ h.fn = "RunParsedLine" /\ h.pc = "ops" /\ h.was = cur
      BY <1>3, IfShape
    <2>3. /\ Holder(g) <=> Holder(Top)
          /\ g.pc \notin Settled /\ ~Holder(f) /\ f.was = v[1] /\ ~Holder(h) /\ h.was = v[1]
      BY <2>1, <2>2 DEF Holder, Same, Settled, BalancedNow
    <2>4. Balanced(b, Now(g), stack, v)
      BY <2>1, <2>2, <2>3, BalancedMoves
    <2>5. Balanced(<<Len(stack)>> \o b, <<f>> \o Now(g), stack, v)
      BY <2>2, <2>3, <2>4, PushCall
    <2> DEFINE c == <<Len(stack)>> \o b
               fs == <<f>> \o Now(g)
    <2>6. Balanced(c, fs, stack, v) /\ frames' = <<h>> \o fs
      BY <2>2, <2>5
    <2> HIDE DEF c, fs
    <2>7. Balanced(<<Len(stack)>> \o c, <<h>> \o fs, stack, v)
      BY <2>2, <2>3, <2>6, PushCall
    <2> QED BY <2>6, <2>7 DEF BalancedNext
  <1> QED BY <1>1, <1>2, <1>3

\* A call that holds no lock returns.
LEMMA BalancedReturns ==
    ASSUME Inv, NEW v, NEW b, BalancedNow(v, b), stack' = stack,
           EndOfBatch \/ (BatchLineRan /\ EndsBatch) \/ CmdIfRan \/ EndOfFor
    PROVE  BalancedNext(v)
  <1>1. frames # <<>> /\ Top.fn \in {"RunBatch", "CmdIf", "CmdFor"} /\ Top.pc \in {"loop", "ran"}
    BY DEF EndOfBatch, BatchLineRan, CmdIfRan, EndOfFor, Running, Top
  <1>2. /\ Top = frames[1] /\ ~Holder(frames[1]) /\ b[1] = Len(stack)
        /\ 1 + 1 \in DOMAIN frames => frames[1 + 1].pc \in {"ran", "pop"}
    BY <1>1, BalancedFacts DEF Holder, Settled
  <1>3. Balanced(Tail(b), Tail(frames), stack, v)
    BY <1>1, <1>2, PopCall DEF BalancedNow
  <1>4. CASE EndOfBatch \/ (BatchLineRan /\ EndsBatch)
    <2>1. frames' = Tail(frames)
      BY <1>4 DEF EndOfBatch, BatchLineRan
    <2> QED BY <1>3, <2>1 DEF BalancedNext
  <1>5. CASE CmdIfRan \/ EndOfFor
    <2>1. Top.fn \in {"CmdIf", "CmdFor"} /\ ReturnLookahead
      BY <1>5 DEF CmdIfRan, EndOfFor, Running, Top
    <2>2. /\ Tail(frames) \in Seq(Frame) /\ 1 \in DOMAIN Tail(frames)
          /\ \E g \in Frame : LET f == Tail(frames)[1] IN
                /\ frames' = [Tail(frames) EXCEPT ![1] = g]
                /\ g.fn = f.fn /\ g.was = f.was /\ g.lock = f.lock /\ g.pc = f.pc
                /\ f.fn = "RunParsedLine" /\ f.pc = "pop"
      BY <1>1, <2>1, LookaheadShape
    <2> DEFINE fs == Tail(frames)
               c == Tail(b)
    <2>3. PICK g \in Frame :
            /\ frames' = [fs EXCEPT ![1] = g]
            /\ g.fn = fs[1].fn /\ g.was = fs[1].was /\ g.lock = fs[1].lock /\ g.pc = fs[1].pc
            /\ g.pc = "pop"
      BY <2>2
    <2>4. Balanced(c, fs, stack, v)
      BY <1>3
    <2>0. 1 \in DOMAIN fs
      BY <2>2
    <2> HIDE DEF fs, c
    <2>9. fs # <<>>
      BY <2>0
    <2>5. (Holder(g) <=> Holder(fs[1])) /\ g.pc \notin Settled
      BY <2>3 DEF Holder, Settled
    <2>6. Balanced(c, Replaced(fs, g), stack, v)
      BY <2>3, <2>4, <2>5, <2>9, TopSame
    <2> QED BY <2>3, <2>6 DEF BalancedNext, Replaced
  <1> QED BY <1>4, <1>5

\* A block or a batch file is run under the lock of the item on top.
LEMMA BalancedHolds ==
    ASSUME NEW b, NEW fs, NEW v, Balanced(b, fs, stack, v), Inv,
           NEW f \in Frame, f.fn \in {"RunBlock", "CmdCallFile"},
           f.was = v[1], f.lock = Locked(stack)
    PROVE  Balanced(<<Len(stack)>> \o b, <<f>> \o fs, SetLock(stack, TRUE), v)
  <1> DEFINE e == [f EXCEPT !.fn = "RunBatch"]
             c == <<Len(stack)>> \o b
             gs == <<e>> \o fs
  <1>1. e \in Frame /\ e.fn = "RunBatch" /\ e.was = v[1]
    BY DEF Frame, Functions
  <1> HIDE DEF e
  <1>2. ~Holder(e) /\ Holder(f)
    BY <1>1 DEF Holder
  <1>3. Balanced(c, gs, stack, v)
    BY <1>1, <1>2, PushCall
  <1>4. fs \in Seq(Frame) /\ b \in Seq(Nat) /\ Len(stack) \in Nat
    BY BalancedTypes
  <1>5. gs # <<>> /\ gs[1] = e /\ c[1] = Len(stack) /\ Replaced(gs, f) = <<f>> \o fs
    <2>1. gs # <<>> /\ gs[1] = e /\ c[1] = Len(stack)
      BY <1>1, <1>4
    <2> DEFINE hs == <<f>> \o fs
               ks == Replaced(gs, f)
    <2>2. /\ hs \in Seq(Frame) /\ hs[1] = f /\ Len(hs) = Len(fs) + 1 /\ Len(fs) \in Nat
          /\ \A i \in 1 .. Len(fs) + 1 : i # 1 => hs[i] = fs[i - 1]
      BY <1>4
    <2>3. /\ gs \in Seq(Frame) /\ Len(gs) = Len(fs) + 1
          /\ \A i \in 1 .. Len(fs) + 1 : i # 1 => gs[i] = fs[i - 1]
      BY <1>1, <1>4
    <2> HIDE DEF hs, gs
    <2>4. /\ ks \in Seq(Frame) /\ ks[1] = f /\ Len(ks) = Len(fs) + 1
          /\ \A i \in 1 .. Len(fs) + 1 : i # 1 => ks[i] = gs[i]
      BY <2>2, <2>3 DEF Replaced
    <2> HIDE DEF ks
    <2>5. \A i \in 1 .. Len(ks) : ks[i] = hs[i]
      BY <2>2, <2>3, <2>4
    <2>6. ks = hs
      BY <2>2, <2>4, <2>5
    <2> QED BY <2>1, <2>6 DEF hs, ks
  <1> HIDE DEF c, gs
  <1>6. Balanced(c, Replaced(gs, f), SetLock(stack, TRUE), v)
    BY <1>1, <1>2, <1>3, <1>5, HoldTop
  <1> QED BY <1>5, <1>6 DEF c

LEMMA BalancedCalls ==
    ASSUME Inv, NEW v, NEW b, BalancedNow(v, b), CmdBlock \/ CmdCallFile
    PROVE  BalancedNext(v)
  <1>1. frames # <<>> /\ Top.fn = "RunParsedLine" /\ Top.pc = "cmd"
    BY CommandShape DEF CallsOne, CallsTwo
  <1>2. stack' = SetLock(stack, TRUE)
    BY DEF CmdBlock, CmdCallFile
  <1>3. ASSUME NEW g \in Frame, Same(g), g.pc = "pop"
        PROVE  Balanced(b, Now(g), stack, v)
    <2>1. (Holder(g) <=> Holder(Top)) /\ g.pc \notin Settled
      BY <1>1, <1>3 DEF Holder, Same, Settled
    <2> QED BY <1>1, <1>3, <2>1, BalancedMoves
  <1>4. CASE CmdBlock
    <2>1. PICK g, f \in Frame : /\ Same(g) /\ g.pc = "pop" /\ frames' = <<f>> \o Now(g)
                             /\ f.fn = "RunBlock" /\ f.pc = "loop" /\ f.was = cur
                             /\ f.lock = Locked(stack)
      BY <1>4, BlockShape
    <2>2. Balanced(b, Now(g), stack, v) /\ f.was = v[1]
      BY <1>3, <2>1 DEF BalancedNow
    <2>3. Balanced(<<Len(stack)>> \o b, <<f>> \o Now(g), SetLock(stack, TRUE), v)
      BY <2>1, <2>2, BalancedHolds
    <2> QED BY <1>2, <2>1, <2>3 DEF BalancedNext
  <1>5. CASE CmdCallFile
    <2>1. PICK g, f, h \in Frame :
              /\ Same(g) /\ g.pc = "pop" /\ frames' = <<h>> \o (<<f>> \o Now(g))
              /\ f.fn = "CmdCallFile" /\ f.pc = "ran" /\ f.was = cur /\ f.lock = Locked(stack)
              /\ h.fn = "RunBatch" /\ h.pc = "loop" /\ h.was = cur
      BY <1>5, CallFileShape
    <2>2. Balanced(b, Now(g), stack, v) /\ f.was = v[1] /\ h.was = v[1] /\ ~Holder(h)
      BY <1>3, <2>1 DEF BalancedNow, Holder
    <2> DEFINE c == <<Len(stack)>> \o b
               fs == <<f>> \o Now(g)
               s == SetLock(stack, TRUE)
    <2>3. Balanced(c, fs, s, v)
      BY <2>1, <2>2, BalancedHolds
    <2>4. frames' = <<h>> \o fs /\ stack' = s
      BY <1>2, <2>1
    <2> HIDE DEF c, fs, s
    <2>5. Balanced(<<Len(s)>> \o c, <<h>> \o fs, s, v)
      BY <2>1, <2>2, <2>3, PushCall
    <2> QED BY <2>4, <2>5 DEF BalancedNext
  <1> QED BY <1>4, <1>5

\* A call that holds a lock gives it back, and goes on or returns.
LEMMA BalancedReleases ==
    ASSUME Inv, NEW v, NEW b, BalancedNow(v, b), FinishNode \/ EndOfBlock \/ CallReturns
    PROVE  BalancedNext(v)
  <1>1. /\ frames # <<>> /\ Top.fn \in {"RunParsedLine", "RunBlock", "CmdCallFile"}
        /\ Top.fn = "RunParsedLine" => Top.pc \in {"pop", "drop"} /\ Locked(stack) = TRUE
        /\ Top.fn # "RunParsedLine" => Top.pc \in {"loop", "ran"}
        /\ stack' = SetLock(stack, Top.lock)
    <2>1. Locked(stack) \in BOOLEAN
      BY LockType DEF Inv, StreamsOK
    <2> QED BY <2>1 DEF FinishNode, EndOfBlock, CallReturns, Running, Top
  <1>2. /\ Top = frames[1] /\ Top \in Frame /\ frames \in Seq(Frame)
        /\ Top.pc \in Settled => b[1] = Len(stack)
        /\ 1 + 1 \in DOMAIN frames => frames[1 + 1].pc \in {"ran", "pop"}
        /\ \A g : Now(g) = Replaced(frames, g)
    BY <1>1, BalancedFacts
  <1>3. Holder(Top)
    BY <1>1 DEF Holder
  <1>4. b[1] = Len(stack)
    <2>1. CASE Top.fn = "RunParsedLine"
      BY <1>1, <1>2, <1>3, <2>1, LockedTop DEF BalancedNow
    <2>2. CASE Top.fn # "RunParsedLine"
      BY <1>1, <1>2, <2>2 DEF Settled
    <2> QED BY <2>1, <2>2
  <1>5. ASSUME NEW g \in Frame, g.was = Top.was, ~Holder(g)
        PROVE  Balanced(b, Now(g), stack', v)
    <2>1. Balanced(b, Replaced(frames, g), SetLock(stack, frames[1].lock), v)
      BY <1>1, <1>2, <1>3, <1>4, <1>5, ReleaseTop DEF BalancedNow
    <2> QED BY <1>1, <1>2, <2>1
  <1>6. CASE frames' = Tail(frames)
    <2> DEFINE g == [Top EXCEPT !.fn = "RunBatch"]
               fs == Now(g)
    <2>1. g \in Frame /\ g.was = Top.was /\ g.fn = "RunBatch"
      BY <1>2 DEF Frame, Functions
    <2> HIDE DEF g
    <2>2. ~Holder(g)
      BY <2>1 DEF Holder
    <2>3. Balanced(b, fs, stack', v)
      BY <1>5, <2>1, <2>2
    <2>4. /\ fs # <<>> /\ fs[1] = g /\ DOMAIN fs = DOMAIN frames /\ Tail(fs) = Tail(frames)
          /\ 1 + 1 \in DOMAIN frames => fs[1 + 1] = frames[1 + 1]
      BY <1>1, <1>2, <2>1 DEF Now
    <2>5. stack \in Seq(Item) /\ Top.lock \in BOOLEAN
      BY <1>2 DEF Frame, Inv, StreamsOK
    <2>6. Len(stack') = Len(stack)
      BY <1>1, <2>5, LockedSetLock
    <2> HIDE DEF fs
    <2>7. Balanced(Tail(b), Tail(fs), stack', v)
      BY <1>2, <1>4, <2>2, <2>3, <2>4, <2>6, PopCall
    <2> QED BY <1>6, <2>4, <2>7 DEF BalancedNext
  <1>7. CASE frames' # Tail(frames)
    <2>1. FinishNode
      BY <1>7 DEF EndOfBlock, CallReturns
    <2>2. PICK g : Same(g) /\ g.pc = "ops" /\ frames' = Now(g)
      BY <1>7, <2>1, FinishMove
    <2>3. Top.fn = "RunParsedLine"
      BY <2>1 DEF FinishNode, Running, Top
    <2>4. g \in Frame /\ g.was = Top.was /\ ~Holder(g)
      BY <2>2, <2>3 DEF Same, Holder
    <2>5. Balanced(b, Now(g), stack', v)
      BY <1>5, <2>4
    <2> QED BY <2>2, <2>5 DEF BalancedNext
  <1> QED BY <1>6, <1>7

\* RunParsedLine locks the item it finds on top.
LEMMA BalancedOperators ==
    ASSUME Inv, NEW v, NEW b, BalancedNow(v, b), ExecOperators \/ LaunchPipe
    PROVE  \E g \in Frame : /\ frames' = Now(g) /\ g.pc \in {"drop", "redir"}
                            /\ Now(g) # <<>> /\ Now(g)[1] = g
                            /\ Balanced(b, Now(g), SetLock(stack, TRUE), v)
  <1>1. Running("RunParsedLine", "ops")
    BY OperatorsMove
  <1>2. frames # <<>> /\ Top.fn = "RunParsedLine" /\ Top.pc = "ops"
    BY <1>1 DEF Running, Top
  <1>3. PICK g \in Frame : /\ frames' = Now(g)
                           /\ g.fn = Top.fn /\ g.was = Top.was /\ g.lock = Locked(stack)
                           /\ g.pc \in {"drop", "redir"}
    BY OperatorsMove
  <1>4. /\ Top = frames[1] /\ b[1] = Len(stack)
        /\ Now(g) = Replaced(frames, g) /\ Now(g) # <<>> /\ Now(g)[1] = g
    BY <1>2, BalancedFacts DEF Settled
  <1>5. Holder(g) /\ ~Holder(Top)
    BY <1>2, <1>3 DEF Holder
  <1>6. Balanced(b, Replaced(frames, g), SetLock(stack, TRUE), v)
    BY <1>2, <1>3, <1>4, <1>5, HoldTop DEF BalancedNow
  <1> QED BY <1>3, <1>4, <1>6

\* OpenOutput saves the streams below a call that will restore them.
LEMMA BalancedOpens ==
    ASSUME Inv, NEW b, NEW fs, NEW s, NEW v, Balanced(b, fs, s, v), fs # <<>>,
           fs[1].pc \notin Settled, NEW ch \in Channels, NEW subst, OpenOutputF(s, ch, subst)
    PROVE  Balanced(b, fs, stack', <<cur'>> \o v)
  <1> DEFINE it == [chan |-> ch, old |-> cur[ch], locked |-> FALSE,
                    sub |-> IF CopiesToErr(ch, subst) THEN cur["err"] ELSE NoFile]
  <1>1. it \in Item /\ it.locked = FALSE
    BY DEF Inv, StreamsOK, Item, Channels
  <1>2. stack' = <<it>> \o s
    BY DEF OpenOutputF, PushItem
  <1>3. s \in Seq(Item)
    BY BalancedTypes
  <1>4. cur' \in [Channels -> Handles]
    BY <1>3, OpenType DEF Inv, StreamsOK
  <1> HIDE DEF it
  <1> QED BY <1>1, <1>2, <1>4, PushItemBelow

-----------------------------------------------------------------------------
(* The invariant. *)

\* What neither opens nor restores a stream.
LEMMA RestoredCalls ==
    ASSUME Inv, RestoredInv, phase' # "exit", KeepsStreams \/ MovesLock, ~lost', Next
    PROVE  \E v, b : Viewed(v, stack', cur', open') /\ Balanced(b, frames', stack', v)
  <1>1. UNCHANGED <<cur, open, lost>>
    BY KeepsStreamsOK, MovesLockOK DEF streamVars
  <1>2. phase # "exit"
    <2>1. CASE frames # <<>>
      BY <2>1 DEF RestoredInv
    <2>2. CASE frames = <<>>
      BY <2>2 DEF KeepsStreams, MovesLock, GetLine, EndOfBatch, BatchLineRan, PipeFails,
           StartCommand, RunProc, CmdGoto, CmdGotoNoLabel, CmdGotoEof, CmdExitB, CmdExit,
           RunBlockLine, BlockLineRan, CmdIfTrue, CmdIfElse, CmdIfNothing, CmdIfBadOperator,
           CmdIfRan, CmdFor, CmdForError, CmdForBadInput, ForIterate, ForIterated, EndOfFor,
           CmdFails, RunSwitchLine, RunScript, MainEnds, Exited, ExecOperators, FinishNode,
           CmdBlock, EndOfBlock, CmdCallFile, CallReturns, Command, Running, vars
    <2> QED BY <2>1, <2>2
  <1>3. PICK v, b : Viewed(v, stack, cur, open) /\ Balanced(b, frames, stack, v)
    BY <1>1, <1>2 DEF RestoredInv
  <1>4. BalancedNow(v, b)
    BY <1>3 DEF BalancedNow, Viewed
  <1>5. BalancedNext(v)
    <2>1. CASE MovesLock /\ ~ExecOperators
      BY <1>4, <2>1, BalancedCalls, BalancedReleases DEF MovesLock
    <2>2. CASE ExecOperators
      <3>1. stack' = SetLock(stack, TRUE)
        BY <2>2 DEF ExecOperators
      <3>2. PICK g \in Frame : frames' = Now(g) /\ Balanced(b, Now(g), SetLock(stack, TRUE), v)
        BY <1>4, <2>2, BalancedOperators
      <3> QED BY <3>1, <3>2 DEF BalancedNext
    <2>3. CASE KeepsStreams
      <3>1. stack' = stack
        BY <2>3, KeepsStreamsOK DEF streamVars
      <3>2. CASE \/ StartCommand \/ RunProc \/ CmdGoto \/ CmdGotoNoLabel \/ CmdGotoEof
                 \/ CmdExitB \/ CmdFails \/ CmdIfNothing \/ CmdIfBadOperator \/ CmdForError
                 \/ CmdForBadInput \/ Looping
        BY <1>4, <3>1, <3>2, BalancedPoints
      <3>3. CASE RunsLine \/ CmdFor \/ CmdIfTrue \/ CmdIfElse
        BY <1>4, <3>1, <3>3, BalancedRuns
      <3>4. CASE EndOfBatch \/ (BatchLineRan /\ EndsBatch) \/ CmdIfRan \/ EndOfFor
        BY <1>4, <3>1, <3>4, BalancedReturns
      <3>5. CASE RunSwitchLine \/ RunScript
        <4>1. frames = <<>> /\ (frames' = <<LineCall>> \/ frames' = <<PlainCall("RunBatch", "loop")>>)
          BY <3>5 DEF RunSwitchLine, RunScript
        <4>2. PICK f \in Frame : frames' = <<f>> /\ f.was = cur /\ ~Holder(f)
          <5>1. /\ LineCall \in Frame /\ LineCall.fn = "RunParsedLine" /\ LineCall.pc = "ops"
                /\ LineCall.was = cur
            BY CallFrames
          <5>2. /\ PlainCall("RunBatch", "loop") \in Frame
                /\ PlainCall("RunBatch", "loop").fn = "RunBatch"
                /\ PlainCall("RunBatch", "loop").was = cur
            BY CallFrames DEF Points
          <5>3. ~Holder(LineCall)
            BY <5>1 DEF Holder
          <5>4. ~Holder(PlainCall("RunBatch", "loop"))
            BY <5>2 DEF Holder
          <5> QED BY <4>1, <5>1, <5>2, <5>3, <5>4
        <4>3. Balanced(<<Len(stack)>> \o b, <<f>> \o frames, stack, v)
          BY <1>4, <4>2, PushCall DEF BalancedNow
        <4>4. <<f>> \o frames = <<f>>
          BY <4>1
        <4> QED BY <3>1, <4>2, <4>3, <4>4 DEF BalancedNext
      <3>6. CASE PipeFails \/ CmdExit \/ MainEnds \/ Exited
        BY <1>2, <3>6 DEF PipeFails, CmdExit, MainEnds, Exited
      <3> QED BY <2>3, <3>2, <3>3, <3>4, <3>5, <3>6 DEF KeepsStreams, Looping, RunsLine
    <2> QED BY <2>1, <2>2, <2>3
  <1>6. Viewed(v, stack', cur', open')
    <2>1. stack' = stack \/ \E x \in BOOLEAN : stack' = SetLock(stack, x)
      BY KeepsStreamsOK, MovesLockOK DEF streamVars
    <2> QED BY <1>1, <1>3, <2>1, ViewLock DEF Viewed, Inv, StreamsOK
  <1> QED BY <1>5, <1>6 DEF BalancedNext

\* What opens or restores one.
LEMMA RestoredStreams ==
    ASSUME Inv, RestoredInv, LaunchPipe \/ ExecOutput \/ PopUntilLock, ~lost'
    PROVE  \E v, b : Viewed(v, stack', cur', open') /\ Balanced(b, frames', stack', v)
  <1>1. frames # <<>> /\ Top.fn = "RunParsedLine" /\ Top.pc \in {"ops", "redir", "pop", "drop"}
    BY DEF LaunchPipe, ExecOutput, PopUntilLock, Running, Top
  <1>2. ~lost /\ phase # "exit"
    <2>1. phase # "exit"
      BY <1>1 DEF RestoredInv
    <2>2. ~lost
      BY ZenonT(30) DEF LaunchPipe, ExecOutput, PopUntilLock, OpenOutputF, OpenOutputFails,
         PopStreamStack
    <2> QED BY <2>1, <2>2
  <1>3. PICK v, b : Viewed(v, stack, cur, open) /\ Balanced(b, frames, stack, v)
    BY <1>2 DEF RestoredInv
  <1>4. BalancedNow(v, b) /\ StreamsOK
    BY <1>3 DEF BalancedNow, Viewed, Inv
  <1>5. CASE LaunchPipe
    <2> DEFINE s == SetLock(stack, TRUE)
    <2>1. s \in Seq(Item) /\ "in" \in Channels /\ OpenOutputF(s, "in", "none")
      BY <1>4, <1>5, LockType DEF Channels, LaunchPipe, StreamsOK
    <2>2. Viewed(<<cur'>> \o v, stack', cur', open')
      BY <1>3, <1>4, <2>1, ViewPush
    <2>3. PICK g \in Frame : /\ frames' = Now(g) /\ g.pc \in {"drop", "redir"}
                             /\ Now(g) # <<>> /\ Now(g)[1] = g
                             /\ Balanced(b, Now(g), s, v)
      BY <1>4, <1>5, BalancedOperators
    <2> HIDE DEF s
    <2> DEFINE fs == Now(g)
    <2>4. /\ frames' = fs /\ fs # <<>> /\ fs[1].pc \notin Settled /\ Balanced(b, fs, s, v)
      BY <2>3 DEF Settled
    <2> HIDE DEF fs
    <2>5. Balanced(b, fs, stack', <<cur'>> \o v)
      BY <2>1, <2>4, BalancedOpens
    <2> QED BY <2>2, <2>4, <2>5
  <1>6. CASE ExecOutput
    <2>1. PICK g : Same(g) /\ g.pc = Top.pc /\ frames' = Now(g)
      BY <1>6, OutputMove
    <2>2. Top.pc = "redir"
      BY <1>6 DEF ExecOutput, Running, Top
    <2>3. (Holder(g) <=> Holder(Top)) /\ g.pc \notin Settled
      BY <1>1, <2>1, <2>2 DEF Holder, Same, Settled
    <2> DEFINE fs == Now(g)
    <2>4. /\ frames' = fs /\ fs # <<>> /\ fs[1].pc \notin Settled /\ Balanced(b, fs, stack, v)
      BY <1>1, <1>4, <2>1, <2>3, BalancedMoves
    <2> HIDE DEF fs
    <2>5. CASE OpenOutputF(stack, NextChannel, Current.subst)
      <3>1. NextChannel \in Channels /\ stack \in Seq(Item)
        BY <1>1, <1>4, <1>6, NextChannelType DEF ExecOutput, StreamsOK
      <3>2. Viewed(<<cur'>> \o v, stack', cur', open')
        BY <1>3, <1>4, <2>5, <3>1, ViewPush
      <3>3. Balanced(b, fs, stack', <<cur'>> \o v)
        BY <2>4, <2>5, <3>1, BalancedOpens
      <3> QED BY <2>4, <3>2, <3>3
    <2>6. CASE OpenOutputFails
      <3>1. UNCHANGED <<stack, cur, open>>
        BY <2>6 DEF OpenOutputFails
      <3> QED BY <1>3, <2>4, <3>1
    <2> QED BY <1>6, <2>5, <2>6 DEF ExecOutput
  <1>7. CASE PopUntilLock
    <2>1. Top.pc \in {"pop", "drop"} /\ ~Locked(stack) /\ PopStreamStack /\ frames' = frames
      BY <1>7 DEF PopUntilLock, Running, Top
    <2>2. stack # <<>>
      BY <2>1 DEF Locked
    <2>3. Holder(Top) /\ Top.pc \notin Settled /\ Top = frames[1]
      BY <1>1, <1>4, <2>1, BalancedFacts DEF Holder, Settled
    <2>4. b[1] # Len(stack)
      BY <1>1, <1>3, <2>1, <2>3, LockedTop
    <2>5. Balanced(b, frames, Tail(stack), Tail(v))
      BY <1>1, <1>3, <2>2, <2>3, <2>4, PopItemBelow
    <2>6. Viewed(Tail(v), stack', cur', open')
      BY <1>3, <1>4, <2>1, <2>2, ViewPop
    <2>7. stack' = Tail(stack)
      BY <2>1 DEF PopStreamStack
    <2> QED BY <2>1, <2>5, <2>6, <2>7
  <1> QED BY <1>5, <1>6, <1>7

LEMMA RestoredStep == Inv /\ RestoredInv /\ [Next]_vars => RestoredInv'
  <1> SUFFICES ASSUME Inv, RestoredInv, [Next]_vars PROVE RestoredInv'
    OBVIOUS
  <1>1. CASE UNCHANGED vars
    BY <1>1 DEF vars, RestoredInv
  <1>2. CASE Next
    <2>1. ASSUME phase' = "exit" PROVE frames' = <<>>
      <3>1. CASE phase = "exit"
        <4>1. frames = <<>>
          BY <3>1 DEF RestoredInv
        <4> QED BY <1>2, <2>1, <3>1, <4>1
            DEF Next, GetLine, EndOfBatch, BatchLineRan, PipeFails, LaunchPipe, ExecOutput,
                PopUntilLock, StartCommand, RunProc, CmdGoto, CmdGotoNoLabel, CmdGotoEof, CmdExitB,
                CmdExit, RunBlockLine, BlockLineRan, CmdIfTrue, CmdIfElse, CmdIfNothing,
                CmdIfBadOperator, CmdIfRan, CmdFor, CmdForError, CmdForBadInput, ForIterate,
                ForIterated, EndOfFor, CmdFails, RunSwitchLine, RunScript, MainEnds, Exited,
                FreeStreamStack, ExecOperators, FinishNode, CmdBlock, EndOfBlock, CmdCallFile,
                CallReturns, Command, Running, vars
      <3>2. CASE phase # "exit"
        BY <1>2, <2>1, <3>2
            DEF Next, GetLine, RunLine, EndOfBatch, BatchLineRan, PipeFails, LaunchPipe, ExecOutput,
                PopUntilLock, StartCommand, RunProc, CmdGoto, CmdGotoNoLabel, CmdGotoEof, CmdExitB,
                Raise, CmdExit, RunBlockLine, BlockLineRan, CmdIfTrue, CmdIfElse, CmdIfNothing,
                CmdIfBadOperator, CmdIfRan, CmdFor, CmdForError, CmdForBadInput, ForIterate,
                ForIterated, EndOfFor, CmdFails, RunSwitchLine, RunScript, MainEnds, Exited,
                FreeStreamStack, ExecOperators, FinishNode, CmdBlock, EndOfBlock, CmdCallFile,
                CallReturns, vars
      <3> QED BY <3>1, <3>2
    <2>2. ASSUME ~lost', phase' # "exit"
          PROVE  \E v, b : Viewed(v, stack', cur', open') /\ Balanced(b, frames', stack', v)
      <3>1. CASE KeepsStreams \/ MovesLock
        BY <1>2, <2>2, <3>1, RestoredCalls
      <3>2. CASE LaunchPipe \/ ExecOutput \/ PopUntilLock
        BY <2>2, <3>2, RestoredStreams
      <3>3. CASE FreeStreamStack
        BY <2>2, <3>3 DEF FreeStreamStack
      <3> QED BY <1>2, <3>1, <3>2, <3>3 DEF Next, KeepsStreams, MovesLock
    <2> QED BY <2>1, <2>2 DEF RestoredInv
  <1> QED BY <1>1, <1>2

LEMMA RestoredInit == Init => RestoredInv
  <1> SUFFICES ASSUME Init PROVE RestoredInv
    OBVIOUS
  <1>1. PICK v : Viewed(v, stack, cur, open)
    BY ViewsInit DEF Views
  <1>2. Inv /\ stack = <<>> /\ phase = "auto"
    BY InitInv DEF Init
  <1>3. v \in Seq([Channels -> Handles]) /\ Len(v) = 1 /\ v[1] = cur
    BY <1>1, <1>2 DEF Viewed, View
  <1>4. Balanced(<<>>, <<>>, <<>>, v)
    <2>1. Depths(<<>>, <<>>, <<>>)
      BY DEF Depths
    <2>2. HolderSet(<<>>, <<>>, 0) = {}
      BY DEF HolderSet
    <2>3. Locks(<<>>, <<>>, <<>>)
      BY <2>2, LockedSetEmpty DEF Locks
    <2> QED BY <1>3, <2>1, <2>3 DEF Balanced, Given
  <1> DEFINE f == PlainCall("RunBatch", "loop")
  <1>5. f \in Frame /\ f.fn = "RunBatch" /\ f.was = cur
    BY <1>2, CallFrames DEF Points
  <1>6. frames = <<f>>
    BY DEF Init
  <1> HIDE DEF f
  <1>7. ~Holder(f)
    BY <1>5 DEF Holder
  <1>8. Balanced(<<Len(<<>>)>> \o <<>>, <<f>> \o <<>>, <<>>, v)
    BY <1>3, <1>4, <1>5, <1>7, PushCall
  <1>9. <<f>> \o <<>> = <<f>>
    OBVIOUS
  <1> QED BY <1>1, <1>2, <1>6, <1>8, <1>9 DEF RestoredInv

\* Whatever a line redirected, and however it ended: the loop that ran it has the
\* streams it was called with, unless a redirection that failed dropped the stack.
THEOREM StreamsRestoredHolds == Spec => []StreamsRestored
  <1>1. Inv /\ RestoredInv => StreamsRestored
    <2> SUFFICES ASSUME Inv, RestoredInv, ~lost, frames # <<>>, Top.pc \in {"loop", "ran"}
                 PROVE  cur = Top.was
      BY DEF StreamsRestored, Restored
    <2>1. PICK v, b : Viewed(v, stack, cur, open) /\ Balanced(b, frames, stack, v)
      BY DEF RestoredInv
    <2>2. BalancedNow(v, b)
      BY <2>1 DEF BalancedNow, Viewed
    <2>3. Top = frames[1] /\ b[1] = Len(stack) /\ 1 \in DOMAIN frames
      BY <2>2, BalancedFacts, TopFacts DEF Settled
    <2>4. Len(v) = Len(stack) + 1 /\ Len(stack) \in Nat
      BY <2>1, BalancedTypes
    <2>5. frames[1].was = v[Len(v) - b[1]] /\ Len(v) - b[1] = 1
      BY <2>1, <2>3, <2>4 DEF Balanced, Given
    <2> QED BY <2>2, <2>3, <2>5 DEF BalancedNow
  <1> QED BY <1>1, RestoredInit, RestoredStep, SpecInv, PTL DEF Spec
=============================================================================
