-------------------------- MODULE StatisticProofs --------------------------
(***************************************************************************)
(* What ManagedStatic and Statistic guarantee, for every number of         *)
(* threads, statics and statistics.  The first part is about the statics   *)
(* alone; the steps of Statistic are steps of ManagedStatic or leave the   *)
(* statics alone, so that the second part builds on the first.             *)
(***************************************************************************)
EXTENDS Statistic, SequenceTheorems, FiniteSetTheorems, TLAPS

-----------------------------------------------------------------------------
(***************************************************************************)
(* What ManagedStatic guarantees for every number of threads and statics,  *)
(* and whatever creators and deleters use, as long as no creator uses its  *)
(* own static through others.                                              *)
(*                                                                         *)
(* The inductive invariant.  Shape: which places a stack of calls can be   *)
(* at.  LockCounted: the depth of the recursive lock is the number of its  *)
(* owner's calls that are inside it, so that two threads are never inside. *)
(* FramesOK and PairsOK: what a call knows of the pointer and of the       *)
(* object it creates or deletes, and that the calls of a stack create      *)
(* different statics, because ranks fall.  PointersOK, ListOK,             *)
(* ObjectsAccounted and PointersAccounted: each object and each pointer is *)
(* accounted for by the list or by one call.                               *)
(*                                                                         *)
(* The order of destruction needs two more parts.  NestedOK: what a call   *)
(* inside another creates is what the outer one's creator uses.            *)
(* UsesFollow: an object that another uses is behind it in the list.       *)
(***************************************************************************)

Frame == [of : Statics, at : Places, obj : Nat, todo : Seq(Statics)]
Object == [of : Statics, maker : Threads, life : {"raw", "built", "dead"}, uses : SUBSET Nat]

Typed ==
  /\ multithreaded_mode \in BOOLEAN
  /\ shutdown \in BOOLEAN
  /\ ptr \in [Statics -> Nat]
  /\ staticList \in Seq(Statics)
  /\ objects \in Seq(Object)
  /\ published \subseteq Nat
  /\ lock \in [owner : Threads \cup {None}, depth : Nat]
  /\ stack \in [Threads -> Seq(Frame)]

(* A witness of CreatorsAcyclic. *)
Rank == CHOOSE rank \in [Statics -> 0..Cardinality(Statics)] :
          \A s \in Statics : \A k \in DOMAIN CreatorUses[s] : rank[CreatorUses[s][k]] < rank[s]

(* How many calls each thread is in. *)
Depth == [t \in Threads |-> Len(stack[t])]

Shape ==
  /\ \A t \in Threads : \A k \in 1..Depth[t] :
       /\ k > 1 => stack[t][k].at \in {"construct", "delete"}
       /\ stack[t][k].at = "delete" => shutdown /\ t = Main /\ k = Depth[t]
       /\ stack[t][k].at \in {"check", "unlock"} => multithreaded_mode
  /\ shutdown /\ Depth[Main] > 0 => stack[Main][Depth[Main]].at = "delete"
  /\ \A t \in Threads \ {Main} : shutdown \/ ~multithreaded_mode => Depth[t] = 0

(* How many calls of t are inside the lock. *)
Held(t) ==
  IF ~multithreaded_mode \/ Depth[t] = 0 THEN 0
  ELSE Depth[t] - (IF stack[t][Depth[t]].at = "delete" THEN 1 ELSE 0)
                - (IF stack[t][1].at \in {"read", "register", "use"} THEN 1 ELSE 0)

LockCounted ==
  /\ lock.owner = None => lock.depth = 0
  /\ \A t \in Threads : Held(t) = IF lock.owner = t THEN lock.depth ELSE 0
  /\ lock.owner # None => lock.depth > 0

InList == {staticList[k] : k \in 1..Len(staticList)}

FrameOK(f) ==
  /\ f.at \in {"create", "construct", "publish"} => ptr[f.of] = 0
  /\ f.at = "register" /\ ~multithreaded_mode => ptr[f.of] = 0
  /\ f.at \in {"construct", "publish"} =>
       /\ f.obj \in 1..Len(objects)
       /\ objects[f.obj].of = f.of
       /\ objects[f.obj].life = IF f.at = "construct" THEN "raw" ELSE "built"
  /\ f.at \in {"link", "unlock", "use"} => ptr[f.of] # 0
  /\ f.at = "delete" => ptr[f.of] # 0 /\ f.obj = ptr[f.of]
  /\ f.at \in {"link", "delete"} => f.of \notin InList
  /\ f.at = "construct" => \A m \in 1..Len(f.todo) : Rank[f.todo[m]] < Rank[f.of]

FramesOK == \A t \in Threads : \A k \in 1..Depth[t] : FrameOK(stack[t][k])

(* A call and the calls inside it. *)
PairsOK ==
  \A t \in Threads : \A k \in 1..Depth[t] : \A l \in 1..(k - 1) :
    /\ stack[t][k].at = "construct" => Rank[stack[t][l].of] < Rank[stack[t][k].of]
    /\ stack[t][k].at = "delete" /\ stack[t][l].at = "link" => stack[t][l].of # stack[t][k].of

PointersOK ==
  \A s \in Statics : ptr[s] # 0 =>
    /\ ptr[s] \in 1..Len(objects)
    /\ objects[ptr[s]].of = s
    /\ objects[ptr[s]].life = "built"
    /\ ptr[s] \in published

ListOK ==
  /\ \A k, l \in 1..Len(staticList) : staticList[k] = staticList[l] => k = l
  /\ \A k \in 1..Len(staticList) : ptr[staticList[k]] # 0

(* An object that lives belongs to a pointer or is being created. *)
ObjectsAccounted ==
  \A o \in 1..Len(objects) : objects[o].life # "dead" =>
    \/ ptr[objects[o].of] = o
    \/ \E t \in Threads : \E k \in 1..Depth[t] :
         stack[t][k].at \in {"construct", "publish"} /\ stack[t][k].obj = o

(* A pointer is in the list, or about to enter it, or has just left it. *)
PointersAccounted ==
  \A s \in Statics : ptr[s] # 0 =>
    \/ s \in InList
    \/ \E t \in Threads : \E k \in 1..Depth[t] :
         stack[t][k].at \in {"link", "delete"} /\ stack[t][k].of = s

IInv ==
  /\ Typed
  /\ Shape
  /\ LockCounted
  /\ FramesOK
  /\ PairsOK
  /\ PointersOK
  /\ ListOK
  /\ ObjectsAccounted
  /\ PointersAccounted

-----------------------------------------------------------------------------
(* Constants *)

LEMMA RankFalls ==
  /\ Rank \in [Statics -> Nat]
  /\ \A s \in Statics : \A k \in 1..Len(CreatorUses[s]) : Rank[CreatorUses[s][k]] < Rank[s]
<1>1. /\ Rank \in [Statics -> 0..Cardinality(Statics)]
      /\ \A s \in Statics : \A k \in DOMAIN CreatorUses[s] : Rank[CreatorUses[s][k]] < Rank[s]
  BY CreatorsAcyclic DEF Rank
<1>2. Cardinality(Statics) \in Nat
  BY ManagedStaticAssumption, FS_CardinalityType
<1>3. \A s \in Statics : DOMAIN CreatorUses[s] = 1..Len(CreatorUses[s])
  BY ManagedStaticAssumption
<1> QED
  BY <1>1, <1>2, <1>3

-----------------------------------------------------------------------------
(* What the steps do to a stack: its top changes, a call is pushed on it   *)
(* by the call below, a first call is made, or the last call returns.      *)

OthersKept(t) == \A u \in Threads \ {t} : stack'[u] = stack[u]

TopChanged(t, f) ==
  /\ stack' \in [Threads -> Seq(Frame)]
  /\ OthersKept(t)
  /\ Depth'[t] = Depth[t] /\ Depth[t] > 0
  /\ stack'[t][1] = f
  /\ \A k \in 2..Depth[t] : stack'[t][k] = stack[t][k]

Pushed(t) ==
  LET f == stack[t][1]
  IN /\ stack' \in [Threads -> Seq(Frame)]
     /\ OthersKept(t)
     /\ Depth'[t] = Depth[t] + 1 /\ Depth[t] > 0
     /\ stack'[t][1] = Call(f.todo[1])
     /\ stack'[t][2] = [f EXCEPT !.todo = Tail(@)]
     /\ \A k \in 2..Depth[t] : stack'[t][k + 1] = stack[t][k]

Popped(t) ==
  /\ stack' \in [Threads -> Seq(Frame)]
  /\ OthersKept(t)
  /\ Depth'[t] = Depth[t] - 1 /\ Depth[t] > 0
  /\ \A k \in 1..(Depth[t] - 1) : stack'[t][k] = stack[t][k + 1]

Started(t, f) ==
  /\ stack' \in [Threads -> Seq(Frame)]
  /\ OthersKept(t)
  /\ Depth[t] = 0 /\ Depth'[t] = 1
  /\ stack'[t][1] = f

LEMMA TopStep ==
  ASSUME Typed, NEW t \in Threads, ~Idle(t), NEW f \in Frame,
         stack' = [stack EXCEPT ![t] = [@ EXCEPT ![1] = f]]
  PROVE  TopChanged(t, f)
<1>1. stack[t] \in Seq(Frame) /\ stack[t] # <<>> /\ Len(stack[t]) \in Nat /\ 1 \in 1..Len(stack[t])
  BY DEF Typed, Idle
<1>2. /\ [stack[t] EXCEPT ![1] = f] \in Seq(Frame)
      /\ Len([stack[t] EXCEPT ![1] = f]) = Len(stack[t])
      /\ \A j \in 1..Len(stack[t]) : [stack[t] EXCEPT ![1] = f][j] = IF j = 1 THEN f ELSE stack[t][j]
  BY <1>1, ExceptSeq
<1>3. stack'[t] = [stack[t] EXCEPT ![1] = f]
  BY DEF Typed
<1> QED
  BY <1>1, <1>2, <1>3 DEF Typed, TopChanged, OthersKept, Depth

LEMMA GotoStep ==
  ASSUME Typed, NEW t \in Threads, ~Idle(t), NEW place \in Places, Goto(t, place)
  PROVE  TopChanged(t, [stack[t][1] EXCEPT !.at = place])
<1>1. stack[t][1] \in Frame
  BY DEF Typed, Idle
<1>2. [stack[t][1] EXCEPT !.at = place] \in Frame
  BY <1>1 DEF Frame
<1> QED
  BY <1>2, TopStep DEF Goto

(* The same, call by call. *)
OthersStay(t) ==
  /\ \A u \in Threads : Depth'[u] = Depth[u]
  /\ Depth[t] > 0
  /\ \A u \in Threads : \A k \in 1..Depth[u] : u # t \/ k # 1 => stack'[u][k] = stack[u][k]

Moved(t, place) ==
  /\ OthersStay(t)
  /\ stack'[t][1].at = place
  /\ stack'[t][1].of = stack[t][1].of
  /\ stack'[t][1].obj = stack[t][1].obj
  /\ stack'[t][1].todo = stack[t][1].todo

LEMMA TopStays ==
  ASSUME Typed, NEW t \in Threads, NEW f, TopChanged(t, f)
  PROVE  OthersStay(t)
<1>1. \A u \in Threads : Depth[u] \in Nat
  BY DEF Depth, Typed
<1>2. \A u \in Threads : u # t => stack'[u] = stack[u]
  BY DEF TopChanged, OthersKept
<1>3. \A u \in Threads : Depth'[u] = Depth[u]
  BY <1>2 DEF TopChanged, Depth
<1>4. \A k \in 1..Depth[t] : k = 1 \/ k \in 2..Depth[t]
  BY <1>1
<1> QED
  BY <1>2, <1>3, <1>4 DEF TopChanged, OthersStay

LEMMA GotoMoves ==
  ASSUME Typed, NEW t \in Threads, ~Idle(t), NEW place \in Places, Goto(t, place)
  PROVE  Moved(t, place) /\ stack' \in [Threads -> Seq(Frame)]
<1> DEFINE f == [stack[t][1] EXCEPT !.at = place]
<1>1. TopChanged(t, f)
  BY GotoStep
<1>2. stack[t][1] \in Frame
  BY DEF Typed, Idle
<1>3. /\ f.at = place /\ f.of = stack[t][1].of
      /\ f.obj = stack[t][1].obj /\ f.todo = stack[t][1].todo
  BY <1>2 DEF Frame
<1>4. stack'[t][1] = f
  BY <1>1 DEF TopChanged
<1>5. OthersStay(t) /\ stack' \in [Threads -> Seq(Frame)]
  BY <1>1, TopStays DEF TopChanged
<1> QED
  BY <1>3, <1>4, <1>5 DEF Moved

LEMMA CallStep ==
  ASSUME Typed, NEW t \in Threads, ~Idle(t), Head(stack[t]).todo # <<>>, CallNext(t)
  PROVE  Pushed(t)
<1> DEFINE f == stack[t][1]
           g == [f EXCEPT !.todo = Tail(@)]
<1>1. /\ stack[t] \in Seq(Frame) /\ stack[t] # <<>>
      /\ f \in Frame /\ Head(stack[t]) = f
  BY DEF Typed, Idle
<1>2. f.todo \in Seq(Statics) /\ f.todo # <<>> /\ Head(f.todo) = f.todo[1] /\ f.todo[1] \in Statics
  BY <1>1 DEF Frame
<1>3. Call(f.todo[1]) \in Frame
  BY <1>2, EmptySeq DEF Call, Frame, Places
<1>4. g \in Frame
  BY <1>1, <1>2, HeadTailProperties DEF Frame
<1>5. stack'[t] = <<Call(f.todo[1]), g>> \o Tail(stack[t])
  BY <1>1, <1>2 DEF CallNext, Typed
<1>6. /\ Tail(stack[t]) \in Seq(Frame) /\ Len(Tail(stack[t])) = Len(stack[t]) - 1
      /\ \A i \in 1..Len(Tail(stack[t])) : Tail(stack[t])[i] = stack[t][i + 1]
  BY <1>1, HeadTailProperties
<1> DEFINE h == Call(f.todo[1])
<1> HIDE DEF g, h
<1>7. /\ <<h, g>> \in Seq(Frame) /\ Len(<<h, g>>) = 2 /\ <<h, g>>[1] = h /\ <<h, g>>[2] = g
  BY <1>3, <1>4 DEF h
<1>8. /\ <<h, g>> \o Tail(stack[t]) \in Seq(Frame)
      /\ Len(<<h, g>> \o Tail(stack[t])) = 2 + Len(Tail(stack[t]))
      /\ \A i \in 1..(2 + Len(Tail(stack[t]))) : (<<h, g>> \o Tail(stack[t]))[i] =
           IF i <= 2 THEN <<h, g>>[i] ELSE Tail(stack[t])[i - 2]
  BY <1>6, <1>7, ConcatProperties
<1>9. Len(stack[t]) \in Nat /\ Len(stack[t]) > 0
  BY <1>1
<1>10. stack' \in [Threads -> Seq(Frame)] /\ OthersKept(t)
  BY <1>5, <1>8 DEF CallNext, Typed, OthersKept, h
<1>11. stack'[t][1] = h /\ stack'[t][2] = g
  BY <1>5, <1>6, <1>7, <1>8, <1>9 DEF h
<1>12. \A k \in 2..Len(stack[t]) : stack'[t][k + 1] = stack[t][k]
  <2> TAKE k \in 2..Len(stack[t])
  <2>1. k + 1 \in 1..(2 + Len(Tail(stack[t]))) /\ ~(k + 1 <= 2) /\ (k + 1) - 2 \in 1..Len(Tail(stack[t]))
    BY <1>6, <1>9
  <2>2. ((k + 1) - 2) + 1 = k
    BY <1>9
  <2> QED
    BY <2>1, <2>2, <1>5, <1>6, <1>8 DEF h
<1>13. Len(stack'[t]) = Len(stack[t]) + 1
  BY <1>5, <1>6, <1>8, <1>9 DEF h
<1> QED
  BY <1>9, <1>10, <1>11, <1>12, <1>13 DEF Pushed, Depth, g, h

LEMMA ReturnStep ==
  ASSUME Typed, NEW t \in Threads, ~Idle(t), Return(t)
  PROVE  Popped(t)
<1>1. stack[t] \in Seq(Frame) /\ stack[t] # <<>> /\ Len(stack[t]) \in Nat \ {0}
  BY DEF Typed, Idle
<1>2. /\ Tail(stack[t]) \in Seq(Frame) /\ Len(Tail(stack[t])) = Len(stack[t]) - 1
      /\ \A i \in 1..Len(Tail(stack[t])) : Tail(stack[t])[i] = stack[t][i + 1]
  BY <1>1, HeadTailProperties
<1>3. stack'[t] = Tail(stack[t])
  BY DEF Return, Typed
<1> QED
  BY <1>1, <1>2, <1>3 DEF Popped, OthersKept, Depth, Return, Typed

LEMMA StartStep ==
  ASSUME Typed, NEW t \in Threads, Idle(t), NEW f \in Frame, stack' = [stack EXCEPT ![t] = <<f>>]
  PROVE  Started(t, f)
<1>1. <<f>> \in Seq(Frame) /\ Len(<<f>>) = 1 /\ <<f>>[1] = f
  OBVIOUS
<1> QED
  BY <1>1 DEF Started, OthersKept, Depth, Typed, Idle

-----------------------------------------------------------------------------
(* Consequences of the invariant *)

LEMMA FrameTypes ==
  ASSUME Typed, NEW t \in Threads
  PROVE  /\ Depth[t] \in Nat
         /\ Idle(t) <=> Depth[t] = 0
         /\ Depth[t] > 0 => Head(stack[t]) = stack[t][1]
         /\ \A k \in 1..Depth[t] :
              /\ stack[t][k] \in Frame
              /\ stack[t][k].of \in Statics /\ stack[t][k].at \in Places
              /\ stack[t][k].obj \in Nat /\ stack[t][k].todo \in Seq(Statics)
<1>1. stack[t] \in Seq(Frame)
  BY DEF Typed
<1>2. \A k \in 1..Len(stack[t]) : stack[t][k] \in Frame
  BY <1>1, ElementOfSeq
<1> QED
  BY <1>1, <1>2, EmptySeq DEF Depth, Idle, Frame

LEMMA ObjectTypes ==
  ASSUME Typed, NEW o \in 1..Len(objects)
  PROVE  objects[o] \in Object /\ objects[o].of \in Statics /\ o # 0
<1>1. objects \in Seq(Object)
  BY DEF Typed
<1>2. objects[o] \in Object
  BY <1>1, ElementOfSeq
<1> QED
  BY <1>1, <1>2 DEF Object

(* The calls that are inside the lock, or would be if there were threads. *)
InLock == {"check", "create", "construct", "publish", "link", "unlock"}

(* Two threads are never inside. *)
LEMMA Exclusion ==
  ASSUME IInv, NEW t \in Threads, NEW u \in Threads, NEW k \in 1..Depth[t], NEW l \in 1..Depth[u],
         stack[t][k].at \in InLock, stack[u][l].at \in InLock
  PROVE  t = u
<1>1. ASSUME NEW v \in Threads, NEW m \in 1..Depth[v], stack[v][m].at \in InLock, multithreaded_mode
      PROVE  Held(v) > 0
  <2>1. Depth[v] \in Nat /\ Depth[v] > 0
    BY <1>1, FrameTypes DEF IInv
  <2>2. CASE m = 1
    BY <2>1, <2>2, <1>1 DEF IInv, Shape, Held, InLock
  <2>3. CASE m > 1
    BY <2>1, <2>3, <1>1 DEF IInv, Shape, Held, InLock
  <2> QED
    BY <2>1, <2>2, <2>3
<1>2. CASE multithreaded_mode
  <2>1. lock.owner = t /\ lock.owner = u
    BY <1>1, <1>2 DEF IInv, LockCounted
  <2> QED
    BY <2>1
<1>3. CASE ~multithreaded_mode
  BY <1>3, FrameTypes DEF IInv, Shape
<1> QED
  BY <1>2, <1>3 DEF IInv, Typed

(* No other call creates what the innermost call of a thread creates.      *)
Creating == {"create", "construct", "publish"}

LEMMA CreatesAlone ==
  ASSUME IInv, NEW t \in Threads, Depth[t] > 0, stack[t][1].at \in Creating,
         NEW u \in Threads, NEW k \in 1..Depth[u], u # t \/ k # 1, stack[u][k].at \in Creating
  PROVE  stack[u][k].of # stack[t][1].of
<1>1. Depth[t] \in Nat /\ Depth[u] \in Nat /\ 1 \in 1..Depth[t]
  BY FrameTypes DEF IInv
<1>2. u = t
  BY <1>1, Exclusion DEF InLock, Creating
<1>3. k > 1 /\ 1 \in 1..(k - 1) /\ stack[t][k].at = "construct"
  BY <1>1, <1>2 DEF IInv, Shape, Creating
<1>4. Rank[stack[t][1].of] < Rank[stack[t][k].of]
  BY <1>2, <1>3 DEF IInv, PairsOK
<1>5. stack[t][1].of \in Statics
  BY <1>1, FrameTypes DEF IInv
<1> QED
  BY <1>2, <1>4, <1>5, RankFalls

-----------------------------------------------------------------------------
(* What a step keeps that moves the innermost call of a thread to another  *)
(* place: first for any such step, then for one that changes nothing else. *)

Moves(t) == OthersStay(t) /\ stack'[t][1].of = stack[t][1].of

Outside == {"read", "register", "use"}

LEMMA ShapeMoves ==
  ASSUME IInv, NEW t \in Threads, Moves(t), UNCHANGED <<multithreaded_mode, shutdown>>,
         stack[t][1].at # "delete", stack'[t][1].at # "delete",
         stack'[t][1].at \in {"check", "unlock"} => multithreaded_mode
  PROVE  Shape'
<1>1. Main \in Threads /\ \A u \in Threads : Depth[u] \in Nat
  BY FrameTypes, ManagedStaticAssumption DEF IInv
<1> QED
  BY <1>1 DEF IInv, Shape, Moves, OthersStay

LEMMA HeldMoves ==
  ASSUME IInv, NEW t \in Threads, Moves(t), UNCHANGED multithreaded_mode,
         stack[t][1].at # "delete", stack'[t][1].at # "delete"
  PROVE  /\ \A u \in Threads \ {t} : Held(u)' = Held(u)
         /\ Held(t) \in Int
         /\ multithreaded_mode =>
              Held(t)' = Held(t) + (IF stack[t][1].at \in Outside THEN 1 ELSE 0)
                                 - (IF stack'[t][1].at \in Outside THEN 1 ELSE 0)
         /\ ~multithreaded_mode => Held(t)' = Held(t)
<1>1. \A u \in Threads : Depth'[u] = Depth[u] /\ Depth[u] \in Nat /\ (Depth[u] > 0 => 1 \in 1..Depth[u] /\ Depth[u] \in 1..Depth[u])
  BY FrameTypes DEF Moves, OthersStay, IInv
<1>2. ASSUME NEW u \in Threads \ {t}
      PROVE  Held(u)' = Held(u)
  <2>1. Depth[u] > 0 => stack'[u][Depth[u]] = stack[u][Depth[u]] /\ stack'[u][1] = stack[u][1]
    BY <1>1, <1>2 DEF Moves, OthersStay
  <2> QED
    BY <1>1, <2>1 DEF Held
<1>3. stack'[t][Depth[t]].at = "delete" <=> stack[t][Depth[t]].at = "delete"
  BY <1>1 DEF Moves, OthersStay
<1>4. Depth[t] > 0
  BY DEF Moves, OthersStay
<1>5. Held(t) \in Int
  BY <1>1 DEF Held
<1>6. multithreaded_mode =>
        /\ Held(t) = Depth[t] - (IF stack[t][Depth[t]].at = "delete" THEN 1 ELSE 0) - (IF stack[t][1].at \in Outside THEN 1 ELSE 0)
        /\ Held(t)' = Depth[t] - (IF stack[t][Depth[t]].at = "delete" THEN 1 ELSE 0) - (IF stack'[t][1].at \in Outside THEN 1 ELSE 0)
  BY <1>1, <1>3, <1>4 DEF Held, Outside
<1>7. ~multithreaded_mode => Held(t) = 0 /\ Held(t)' = 0
  BY DEF Held
<1> QED
  BY <1>1, <1>2, <1>5, <1>6, <1>7

LEMMA LockMoves ==
  ASSUME IInv, NEW t \in Threads, Moves(t), UNCHANGED <<multithreaded_mode, lock>>,
         stack[t][1].at # "delete", stack'[t][1].at # "delete",
         multithreaded_mode => (stack[t][1].at \in Outside <=> stack'[t][1].at \in Outside)
  PROVE  LockCounted'
<1>1. \A u \in Threads : Held(u)' = Held(u)
  BY HeldMoves
<1> QED
  BY <1>1 DEF IInv, LockCounted

LEMMA PairsMoves ==
  ASSUME IInv, NEW t \in Threads, Moves(t),
         stack'[t][1].at = "link" =>
           \A k \in 2..Depth[t] : stack[t][k].at = "delete" => stack[t][k].of # stack[t][1].of
  PROVE  PairsOK'
<1> SUFFICES ASSUME NEW u \in Threads, NEW k \in 1..Depth[u], NEW l \in 1..(k - 1)
             PROVE  /\ stack'[u][k].at = "construct" => Rank[stack'[u][l].of] < Rank[stack'[u][k].of]
                    /\ stack'[u][k].at = "delete" /\ stack'[u][l].at = "link" =>
                         stack'[u][l].of # stack'[u][k].of
  BY DEF PairsOK, Moves, OthersStay
<1>1. Depth[u] \in Nat
  BY FrameTypes DEF IInv
<1>2. k \in 2..Depth[u] /\ l \in 1..Depth[u] /\ k # 1
  BY <1>1
<1>3. stack'[u][k] = stack[u][k] /\ stack'[u][l].of = stack[u][l].of
  BY <1>2 DEF Moves, OthersStay
<1>4. stack'[u][l].at = stack[u][l].at \/ (u = t /\ l = 1)
  BY <1>2 DEF Moves, OthersStay
<1> QED
  BY <1>2, <1>3, <1>4 DEF IInv, PairsOK

LEMMA FramesMove ==
  ASSUME IInv, NEW t \in Threads, Moves(t),
         UNCHANGED <<multithreaded_mode, ptr, staticList, objects>>, FrameOK(stack[t][1])'
  PROVE  FramesOK'
<1> SUFFICES ASSUME NEW u \in Threads, NEW k \in 1..Depth[u] PROVE FrameOK(stack[u][k])'
  BY DEF FramesOK, Moves, OthersStay
<1>1. CASE u # t \/ k # 1
  <2>1. stack'[u][k] = stack[u][k] /\ FrameOK(stack[u][k])
    BY <1>1 DEF IInv, FramesOK, Moves, OthersStay
  <2> QED
    BY <2>1 DEF FrameOK, InList
<1> QED
  BY <1>1

LEMMA ObjectsMove ==
  ASSUME IInv, NEW t \in Threads, Moves(t), UNCHANGED <<ptr, objects>>,
         stack[t][1].at \notin {"construct", "publish"}
  PROVE  ObjectsAccounted'
<1> QED
  BY DEF IInv, ObjectsAccounted, Moves, OthersStay

LEMMA PointersMove ==
  ASSUME IInv, NEW t \in Threads, Moves(t), UNCHANGED <<ptr, staticList>>,
         stack[t][1].at # "link", stack[t][1].at # "delete"
  PROVE  PointersAccounted'
<1> QED
  BY DEF IInv, PointersAccounted, Moves, OthersStay, InList

LEMMA RestStays ==
  ASSUME IInv, UNCHANGED <<ptr, staticList, objects>>, published \subseteq published'
  PROVE  PointersOK' /\ ListOK'
<1> QED
  BY DEF IInv, PointersOK, ListOK

LEMMA GotoIs ==
  ASSUME IInv, NEW t \in Threads, ~Idle(t), NEW place \in Places, Goto(t, place)
  PROVE  /\ Moves(t)
         /\ stack'[t][1].at = place
         /\ stack'[t][1].of = stack[t][1].of
         /\ stack'[t][1].obj = stack[t][1].obj
         /\ stack'[t][1].todo = stack[t][1].todo
         /\ stack' \in [Threads -> Seq(Frame)]
<1> QED
  BY GotoMoves DEF IInv, Moved, Moves, OthersStay

LEMMA TopOK ==
  ASSUME IInv, NEW t \in Threads, ~Idle(t)
  PROVE  /\ Depth[t] \in Nat /\ Depth[t] > 0 /\ 1 \in 1..Depth[t]
         /\ Head(stack[t]) = stack[t][1]
         /\ FrameOK(stack[t][1])
         /\ stack[t][1] \in Frame
         /\ stack[t][1].of \in Statics /\ stack[t][1].obj \in Nat /\ stack[t][1].todo \in Seq(Statics)
<1>1. Depth[t] \in Nat /\ Depth[t] > 0 /\ 1 \in 1..Depth[t]
  BY FrameTypes DEF IInv
<1> QED
  BY <1>1, FrameTypes DEF IInv, FramesOK

-----------------------------------------------------------------------------
(* One lemma for each action *)

LEMMA ReadPtrIInv == ASSUME IInv, NEW t \in Threads, ReadPtr(t) PROVE IInv'
<1> DEFINE f == stack[t][1]
           place == IF ptr[f.of] = 0 THEN "register" ELSE "use"
<1>1. ~Idle(t) /\ Head(stack[t]) = f /\ f.at = "read" /\ Goto(t, place)
  BY TopOK DEF ReadPtr, At
<1>2. /\ place \in {"register", "use"}
      /\ place = "use" <=> ptr[f.of] # 0
  OBVIOUS
<1>3. /\ Moves(t) /\ stack'[t][1].at = place /\ stack'[t][1].of = f.of
      /\ stack' \in [Threads -> Seq(Frame)]
  BY <1>1, <1>2, GotoIs DEF Places
<1> HIDE DEF f, place
<1>4. UNCHANGED <<multithreaded_mode, ptr, staticList, objects, published, lock, shutdown>>
  BY DEF ReadPtr
<1>5. Typed'
  BY <1>3, <1>4 DEF IInv, Typed
<1>6. Shape' /\ LockCounted'
  BY <1>1, <1>2, <1>3, <1>4, ShapeMoves, LockMoves DEF f, Outside
<1>7. PairsOK'
  BY <1>2, <1>3, PairsMoves
<1>8. FrameOK(stack[t][1])'
  BY <1>2, <1>3, <1>4 DEF FrameOK
<1>9. FramesOK' /\ ObjectsAccounted' /\ PointersAccounted'
  BY <1>1, <1>3, <1>4, <1>8, FramesMove, ObjectsMove, PointersMove DEF f
<1> QED
  BY <1>4, <1>5, <1>6, <1>7, <1>9, RestStays DEF IInv

LEMMA RegisterIInv == ASSUME IInv, NEW t \in Threads, Register(t) PROVE IInv'
<1> DEFINE f == stack[t][1]
           place == IF multithreaded_mode THEN "check" ELSE "create"
<1>1. ~Idle(t) /\ Head(stack[t]) = f /\ f.at = "register" /\ Goto(t, place) /\ FrameOK(f)
  BY TopOK DEF Register, At
<1>2. place \in {"check", "create"} /\ (place = "check" <=> multithreaded_mode)
  OBVIOUS
<1>3. /\ Moves(t) /\ stack'[t][1].at = place /\ stack'[t][1].of = f.of
      /\ stack' \in [Threads -> Seq(Frame)]
  BY <1>1, <1>2, GotoIs DEF Places
<1> HIDE DEF f, place
<1>4. UNCHANGED <<multithreaded_mode, ptr, staticList, objects, published, shutdown>>
  BY DEF Register
<1>5. /\ lock' \in [owner : Threads \cup {None}, depth : Nat]
      /\ ~multithreaded_mode => lock' = lock
      /\ multithreaded_mode =>
           lock.owner \in {None, t} /\ lock'.owner = t /\ lock'.depth = lock.depth + 1
  BY DEF Register, Acquire, IInv, Typed
<1>6. Typed'
  BY <1>3, <1>4, <1>5 DEF IInv, Typed
<1>7. Shape'
  BY <1>1, <1>2, <1>3, <1>4, ShapeMoves DEF f
<1>8. LockCounted'
  <2>1. /\ \A u \in Threads \ {t} : Held(u)' = Held(u)
        /\ Held(t)' = IF multithreaded_mode THEN Held(t) + 1 ELSE Held(t)
    BY <1>1, <1>2, <1>3, <1>4, HeldMoves DEF f, Outside
  <2>2. /\ lock.depth \in Nat /\ t # None /\ (lock.owner = None => lock.depth = 0)
        /\ \A u \in Threads : Held(u) = IF lock.owner = u THEN lock.depth ELSE 0
        /\ lock.owner # None => lock.depth > 0
    BY ManagedStaticAssumption DEF IInv, Typed, LockCounted
  <2>3. CASE multithreaded_mode
    BY <1>5, <2>1, <2>2, <2>3 DEF LockCounted
  <2>4. CASE ~multithreaded_mode
    BY <1>5, <2>1, <2>2, <2>4 DEF LockCounted
  <2> QED
    BY <2>3, <2>4 DEF IInv, Typed
<1>9. PairsOK'
  BY <1>2, <1>3, PairsMoves
<1>10. FrameOK(stack[t][1])'
  BY <1>1, <1>2, <1>3, <1>4 DEF FrameOK
<1>11. FramesOK' /\ ObjectsAccounted' /\ PointersAccounted'
  BY <1>1, <1>3, <1>4, <1>10, FramesMove, ObjectsMove, PointersMove DEF f
<1> QED
  BY <1>4, <1>6, <1>7, <1>8, <1>9, <1>11, RestStays DEF IInv

LEMMA CheckAgainIInv == ASSUME IInv, NEW t \in Threads, CheckAgain(t) PROVE IInv'
<1> DEFINE f == stack[t][1]
           place == IF ptr[f.of] = 0 THEN "create" ELSE "unlock"
<1>1. ~Idle(t) /\ Head(stack[t]) = f /\ f.at = "check" /\ Goto(t, place) /\ 1 \in 1..Depth[t]
  BY TopOK DEF CheckAgain, At
<1>2. place \in {"create", "unlock"} /\ (place = "create" <=> ptr[f.of] = 0)
  OBVIOUS
<1>3. /\ Moves(t) /\ stack'[t][1].at = place /\ stack'[t][1].of = f.of
      /\ stack' \in [Threads -> Seq(Frame)]
  BY <1>1, <1>2, GotoIs DEF Places
<1> HIDE DEF f, place
<1>4. UNCHANGED <<multithreaded_mode, ptr, staticList, objects, published, lock, shutdown>>
  BY DEF CheckAgain
<1>5. Typed'
  BY <1>3, <1>4 DEF IInv, Typed
<1>6. multithreaded_mode
  BY <1>1 DEF IInv, Shape, f
<1>7. Shape' /\ LockCounted'
  BY <1>1, <1>2, <1>3, <1>4, <1>6, ShapeMoves, LockMoves DEF f, Outside
<1>8. PairsOK'
  BY <1>2, <1>3, PairsMoves
<1>9. FrameOK(stack[t][1])'
  BY <1>2, <1>3, <1>4 DEF FrameOK
<1>10. FramesOK' /\ ObjectsAccounted' /\ PointersAccounted'
  BY <1>1, <1>3, <1>4, <1>9, FramesMove, ObjectsMove, PointersMove DEF f
<1> QED
  BY <1>4, <1>5, <1>7, <1>8, <1>10, RestStays DEF IInv

LEMMA UnlockIInv == ASSUME IInv, NEW t \in Threads, Unlock(t) PROVE IInv'
<1> DEFINE f == stack[t][1]
<1>1. ~Idle(t) /\ Head(stack[t]) = f /\ f.at = "unlock" /\ Goto(t, "use") /\ 1 \in 1..Depth[t] /\ FrameOK(f)
  BY TopOK DEF Unlock, At
<1>2. /\ Moves(t) /\ stack'[t][1].at = "use" /\ stack'[t][1].of = f.of
      /\ stack' \in [Threads -> Seq(Frame)]
  BY <1>1, GotoIs DEF Places
<1> HIDE DEF f
<1>3. UNCHANGED <<multithreaded_mode, ptr, staticList, objects, shutdown>>
  BY DEF Unlock
<1>4. multithreaded_mode
  BY <1>1 DEF IInv, Shape, f
<1>5. /\ \A u \in Threads \ {t} : Held(u)' = Held(u)
      /\ Held(t)' = Held(t) - 1
  BY <1>1, <1>2, <1>3, <1>4, HeldMoves DEF f, Outside
<1>6. /\ lock.depth \in Nat /\ t # None
      /\ lock.owner = None => lock.depth = 0
      /\ \A u \in Threads : Held(u) = IF lock.owner = u THEN lock.depth ELSE 0
      /\ lock.owner # None => lock.depth > 0
  BY ManagedStaticAssumption DEF IInv, Typed, LockCounted
<1>7. lock.owner = t
  <2>1. Held(t) > 0
    <3>1. Depth[t] \in Nat /\ Depth[t] > 0
      BY <1>1, TopOK
    <3>2. stack[t][Depth[t]].at = "delete" => Depth[t] > 1
      BY <1>1, <3>1 DEF f
    <3> QED
      BY <1>1, <1>4, <3>1, <3>2 DEF Held, f
  <2> QED
    BY <1>6, <2>1
<1>8. /\ lock' \in [owner : Threads \cup {None}, depth : Nat]
      /\ lock.depth = 1 => lock'.owner = None /\ lock'.depth = 0
      /\ lock.depth # 1 => lock'.owner = t /\ lock'.depth = lock.depth - 1
  BY <1>6, <1>7 DEF Unlock, Release, IInv, Typed
<1>9. LockCounted'
  BY <1>5, <1>6, <1>7, <1>8, ManagedStaticAssumption DEF LockCounted
<1>10. published \subseteq published' /\ published' \subseteq Nat
  <2>1. Len(objects) \in Nat /\ published \subseteq Nat
    BY DEF IInv, Typed
  <2>2. {o \in Objects : objects[o].maker = t /\ objects[o].life = "built"} \subseteq Nat
    BY <2>1 DEF Objects
  <2> QED
    BY <2>1, <2>2 DEF Unlock
<1>11. Typed'
  BY <1>2, <1>3, <1>8, <1>10 DEF IInv, Typed
<1>12. Shape' /\ PairsOK'
  BY <1>1, <1>2, <1>3, ShapeMoves, PairsMoves DEF f
<1>13. FrameOK(stack[t][1])'
  BY <1>1, <1>2, <1>3 DEF FrameOK
<1>14. FramesOK' /\ ObjectsAccounted' /\ PointersAccounted'
  BY <1>1, <1>2, <1>3, <1>13, FramesMove, ObjectsMove, PointersMove DEF f
<1> QED
  BY <1>3, <1>9, <1>10, <1>11, <1>12, <1>14, RestStays DEF IInv

(* The constructor has nothing left to use: the object is complete.        *)
LEMMA BuiltIInv ==
  ASSUME IInv, NEW t \in Threads, Construct(t), Head(stack[t]).todo = <<>>
  PROVE  IInv'
<1> DEFINE f == stack[t][1]
<1>1. /\ ~Idle(t) /\ Head(stack[t]) = f /\ f.at = "construct" /\ Goto(t, "publish")
      /\ 1 \in 1..Depth[t] /\ FrameOK(f) /\ f.of \in Statics /\ f.obj \in Nat
      /\ objects' = [objects EXCEPT ![f.obj].life = "built"]
  BY TopOK DEF Construct, At
<1>2. /\ Moves(t) /\ stack'[t][1].at = "publish" /\ stack'[t][1].of = f.of /\ stack'[t][1].obj = f.obj
      /\ stack' \in [Threads -> Seq(Frame)]
  BY <1>1, GotoIs DEF Places
<1> HIDE DEF f
<1>3. UNCHANGED <<multithreaded_mode, ptr, staticList, published, lock, shutdown>>
  BY DEF Construct
<1>4. /\ f.obj \in 1..Len(objects) /\ objects[f.obj].of = f.of /\ objects[f.obj].life = "raw"
      /\ ptr[f.of] = 0
  BY <1>1 DEF FrameOK
<1>5. objects \in Seq(Object) /\ objects[f.obj] \in Object
  BY <1>4 DEF IInv, Typed
<1> DEFINE g == [objects[f.obj] EXCEPT !.life = "built"]
<1>6. g \in Object /\ g.of = f.of /\ g.life = "built"
  BY <1>4, <1>5 DEF Object
<1>7. objects' = [objects EXCEPT ![f.obj] = g]
  BY <1>1, <1>4, <1>5
<1> HIDE DEF g
<1>8. objects' \in Seq(Object) /\ Len(objects') = Len(objects)
      /\ \A o \in 1..Len(objects) : objects'[o] = IF o = f.obj THEN g ELSE objects[o]
  BY <1>4, <1>5, <1>6, <1>7, ExceptSeq
<1>9. Typed'
  BY <1>2, <1>3, <1>8 DEF IInv, Typed
<1>10. Shape' /\ LockCounted' /\ PairsOK'
  BY <1>1, <1>2, <1>3, ShapeMoves, LockMoves, PairsMoves DEF f, Outside
<1>11. FramesOK'
  <2> SUFFICES ASSUME NEW u \in Threads, NEW k \in 1..Depth[u] PROVE FrameOK(stack[u][k])'
    BY <1>2 DEF FramesOK, Moves, OthersStay
  <2>1. CASE u = t /\ k = 1
    BY <1>2, <1>3, <1>4, <1>6, <1>8, <2>1 DEF FrameOK
  <2>2. CASE u # t \/ k # 1
    <3>1. stack'[u][k] = stack[u][k] /\ FrameOK(stack[u][k])
      BY <1>2, <2>2 DEF IInv, FramesOK, Moves, OthersStay
    <3>2. stack[u][k].at \in Creating => stack[u][k].of # f.of
      BY <1>1, <2>2, CreatesAlone, TopOK DEF f, Creating
    <3>3. stack[u][k].at \in {"construct", "publish"} => stack[u][k].obj # f.obj
      BY <1>4, <3>1, <3>2 DEF FrameOK, Creating
    <3> QED
      BY <1>3, <1>8, <3>1, <3>3 DEF FrameOK, InList
  <2> QED
    BY <2>1, <2>2
<1>12. PointersOK' /\ ListOK'
  BY <1>3, <1>4, <1>6, <1>8 DEF IInv, PointersOK, ListOK
<1>13. ObjectsAccounted'
  <2> SUFFICES ASSUME NEW o \in 1..Len(objects), objects'[o].life # "dead"
               PROVE  \/ ptr[objects'[o].of] = o
                      \/ \E u \in Threads : \E k \in 1..Depth'[u] :
                           stack'[u][k].at \in {"construct", "publish"} /\ stack'[u][k].obj = o
    BY <1>3, <1>8 DEF ObjectsAccounted
  <2>1. CASE o = f.obj
    BY <1>1, <1>2, <2>1 DEF Moves, OthersStay
  <2>2. CASE o # f.obj
    <3>1. objects'[o] = objects[o]
      BY <1>8, <2>2
    <3>2. CASE ptr[objects[o].of] = o
      BY <3>1, <3>2
    <3>3. CASE \E u \in Threads : \E k \in 1..Depth[u] :
                 stack[u][k].at \in {"construct", "publish"} /\ stack[u][k].obj = o
      <4>0. PICK u \in Threads : \E k \in 1..Depth[u] :
              stack[u][k].at \in {"construct", "publish"} /\ stack[u][k].obj = o
        BY <3>3
      <4>1. PICK k \in 1..Depth[u] : stack[u][k].at \in {"construct", "publish"} /\ stack[u][k].obj = o
        BY <4>0
      <4>2. k \in 1..Depth'[u] /\ stack'[u][k] = stack[u][k]
        BY <1>2, <2>2, <4>1 DEF Moves, OthersStay, f
      <4> QED
        BY <4>1, <4>2
    <3> QED
      BY <2>2, <3>1, <3>2, <3>3 DEF IInv, ObjectsAccounted
  <2> QED
    BY <2>1, <2>2
<1>14. PointersAccounted'
  BY <1>1, <1>2, <1>3, PointersMove DEF f
<1> QED
  BY <1>9, <1>10, <1>11, <1>12, <1>13, <1>14 DEF IInv

LEMMA PublishIInv == ASSUME IInv, NEW t \in Threads, Publish(t) PROVE IInv'
<1> DEFINE f == stack[t][1]
<1>1. /\ ~Idle(t) /\ Head(stack[t]) = f /\ f.at = "publish" /\ Goto(t, "link")
      /\ 1 \in 1..Depth[t] /\ FrameOK(f) /\ f.of \in Statics /\ f.obj \in Nat
      /\ ptr' = [ptr EXCEPT ![f.of] = f.obj]
      /\ published' = published \cup {f.obj}
  BY TopOK DEF Publish, At
<1>2. /\ Moves(t) /\ stack'[t][1].at = "link" /\ stack'[t][1].of = f.of
      /\ stack' \in [Threads -> Seq(Frame)]
  BY <1>1, GotoIs DEF Places
<1> HIDE DEF f
<1>3. UNCHANGED <<multithreaded_mode, staticList, objects, lock, shutdown>>
  BY DEF Publish
<1>4. /\ f.obj \in 1..Len(objects) /\ objects[f.obj].of = f.of /\ objects[f.obj].life = "built"
      /\ ptr[f.of] = 0
  BY <1>1 DEF FrameOK
<1>5. /\ ptr' \in [Statics -> Nat]
      /\ \A s \in Statics : ptr'[s] = IF s = f.of THEN f.obj ELSE ptr[s]
      /\ f.obj # 0
  BY <1>1, <1>4 DEF IInv, Typed
<1>6. Typed'
  BY <1>1, <1>2, <1>3, <1>5 DEF IInv, Typed
<1>7. Shape' /\ LockCounted'
  BY <1>1, <1>2, <1>3, ShapeMoves, LockMoves DEF f, Outside
<1>8. \A u \in Threads : \A k \in 1..Depth[u] : stack[u][k].at = "delete" => stack[u][k].of # f.of
  BY <1>4 DEF IInv, FramesOK, FrameOK
<1>9. PairsOK'
  <2>1. \A k \in 2..Depth[t] : k \in 1..Depth[t]
    BY TopOK, <1>1
  <2> QED
    BY <1>2, <1>8, <2>1, PairsMoves DEF f
<1>10. f.of \notin InList
  BY <1>4 DEF IInv, ListOK, InList
<1>11. FramesOK'
  <2> SUFFICES ASSUME NEW u \in Threads, NEW k \in 1..Depth[u] PROVE FrameOK(stack[u][k])'
    BY <1>2 DEF FramesOK, Moves, OthersStay
  <2>1. CASE u = t /\ k = 1
    BY <1>1, <1>2, <1>3, <1>5, <1>10, <2>1 DEF FrameOK, InList
  <2>2. CASE u # t \/ k # 1
    <3>1. stack'[u][k] = stack[u][k] /\ FrameOK(stack[u][k]) /\ stack[u][k].of \in Statics
      BY <1>2, <2>2, FrameTypes DEF IInv, FramesOK, Moves, OthersStay
    <3>2. stack[u][k].at \in Creating => stack[u][k].of # f.of
      BY <1>1, <2>2, CreatesAlone, TopOK DEF f, Creating
    <3>3. stack[u][k].at = "register" => multithreaded_mode
      <4>1. CASE ~multithreaded_mode /\ stack[u][k].at = "register"
        <5>1. u = t
          BY <1>1, <4>1, TopOK, FrameTypes DEF IInv, Shape
        <5> QED
          BY <4>1, <5>1, <2>2, FrameTypes DEF IInv, Shape
      <4> QED
        BY <4>1
    <3> QED
      BY <1>3, <1>5, <1>8, <3>1, <3>2, <3>3 DEF FrameOK, InList, Creating
  <2> QED
    BY <2>1, <2>2
<1>12. PointersOK'
  BY <1>1, <1>3, <1>4, <1>5 DEF IInv, PointersOK
<1>13. ListOK'
  <2>1. \A k \in 1..Len(staticList) : staticList[k] \in Statics
    BY DEF IInv, Typed
  <2> QED
    BY <1>3, <1>5, <2>1 DEF IInv, ListOK
<1>14. ObjectsAccounted'
  <2> SUFFICES ASSUME NEW o \in 1..Len(objects), objects[o].life # "dead"
               PROVE  \/ ptr'[objects[o].of] = o
                      \/ \E u \in Threads : \E k \in 1..Depth'[u] :
                           stack'[u][k].at \in {"construct", "publish"} /\ stack'[u][k].obj = o
    BY <1>3 DEF ObjectsAccounted
  <2>1. objects[o].of \in Statics /\ o # 0
    BY ObjectTypes DEF IInv
  <2>2. CASE o = f.obj
    BY <1>1, <1>4, <1>5, <2>2
  <2>3. CASE ptr[objects[o].of] = o
    BY <1>4, <1>5, <2>1, <2>3
  <2>4. CASE o # f.obj /\ \E u \in Threads : \E k \in 1..Depth[u] :
               stack[u][k].at \in {"construct", "publish"} /\ stack[u][k].obj = o
    <3>0. PICK u \in Threads : \E k \in 1..Depth[u] :
            stack[u][k].at \in {"construct", "publish"} /\ stack[u][k].obj = o
      BY <2>4
    <3>1. PICK k \in 1..Depth[u] : stack[u][k].at \in {"construct", "publish"} /\ stack[u][k].obj = o
      BY <3>0
    <3>2. k \in 1..Depth'[u] /\ stack'[u][k] = stack[u][k]
      BY <1>2, <2>4, <3>1 DEF Moves, OthersStay, f
    <3> QED
      BY <3>1, <3>2
  <2> QED
    BY <2>2, <2>3, <2>4 DEF IInv, ObjectsAccounted
<1>15. PointersAccounted'
  <2> SUFFICES ASSUME NEW s \in Statics, ptr'[s] # 0
               PROVE  \/ s \in InList
                      \/ \E u \in Threads : \E k \in 1..Depth'[u] :
                           stack'[u][k].at \in {"link", "delete"} /\ stack'[u][k].of = s
    BY <1>3 DEF PointersAccounted, InList
  <2>1. CASE s = f.of
    BY <1>1, <1>2, <2>1 DEF Moves, OthersStay
  <2>2. CASE s # f.of
    <3>1. \/ s \in InList
          \/ \E u \in Threads : \E k \in 1..Depth[u] :
               stack[u][k].at \in {"link", "delete"} /\ stack[u][k].of = s
      BY <1>5, <2>2 DEF IInv, PointersAccounted
    <3> QED
      BY <1>1, <1>2, <3>1 DEF Moves, OthersStay, f
  <2> QED
    BY <2>1, <2>2
<1> QED
  BY <1>6, <1>7, <1>9, <1>11, <1>12, <1>13, <1>14, <1>15 DEF IInv

LEMMA LinkIInv == ASSUME IInv, NEW t \in Threads, Link(t) PROVE IInv'
<1> DEFINE f == stack[t][1]
           place == IF multithreaded_mode THEN "unlock" ELSE "use"
<1>1. /\ ~Idle(t) /\ Head(stack[t]) = f /\ f.at = "link" /\ Goto(t, place)
      /\ 1 \in 1..Depth[t] /\ FrameOK(f) /\ f.of \in Statics
      /\ staticList' = <<f.of>> \o staticList
  BY TopOK DEF Link, At
<1>2. place \in {"unlock", "use"} /\ (place = "unlock" <=> multithreaded_mode)
  OBVIOUS
<1>3. /\ Moves(t) /\ stack'[t][1].at = place /\ stack'[t][1].of = f.of
      /\ stack' \in [Threads -> Seq(Frame)]
  BY <1>1, <1>2, GotoIs DEF Places
<1> HIDE DEF f, place
<1>4. UNCHANGED <<multithreaded_mode, ptr, objects, published, lock, shutdown>>
  BY DEF Link
<1>5. ptr[f.of] # 0 /\ f.of \notin InList
  BY <1>1 DEF FrameOK
<1>6. staticList \in Seq(Statics) /\ Len(staticList) \in Nat
  BY DEF IInv, Typed
<1>7. /\ staticList' \in Seq(Statics)
      /\ Len(staticList') = Len(staticList) + 1
      /\ staticList'[1] = f.of
      /\ \A k \in 2..(Len(staticList) + 1) : k - 1 \in 1..Len(staticList) /\ staticList'[k] = staticList[k - 1]
  <2>1. /\ <<f.of>> \in Seq(Statics) /\ Len(<<f.of>>) = 1 /\ <<f.of>>[1] = f.of
    BY <1>1
  <2>2. /\ staticList' \in Seq(Statics)
        /\ Len(staticList') = 1 + Len(staticList)
        /\ \A k \in 1..(1 + Len(staticList)) : staticList'[k] =
             IF k <= 1 THEN <<f.of>>[k] ELSE staticList[k - 1]
    BY <1>1, <1>6, <2>1, ConcatProperties
  <2> QED
    BY <1>6, <2>1, <2>2
<1>8. InList' = InList \cup {f.of}
  <2>1. InList' \subseteq InList \cup {f.of}
    BY <1>6, <1>7 DEF InList
  <2>2. ASSUME NEW k \in 1..Len(staticList) PROVE staticList[k] \in InList'
    <3>1. k + 1 \in 2..(Len(staticList) + 1) /\ (k + 1) - 1 = k
      BY <1>6
    <3>2. k + 1 \in 1..Len(staticList') /\ staticList'[k + 1] = staticList[k]
      BY <1>6, <1>7, <3>1
    <3> QED
      BY <3>2 DEF InList
  <2>3. f.of \in InList'
    BY <1>6, <1>7 DEF InList
  <2> QED
    BY <2>1, <2>2, <2>3 DEF InList
<1>9. Typed'
  BY <1>3, <1>4, <1>7 DEF IInv, Typed
<1>10. Shape' /\ LockCounted' /\ PairsOK'
  BY <1>1, <1>2, <1>3, <1>4, ShapeMoves, LockMoves, PairsMoves DEF f, Outside
<1>11. FramesOK'
  <2> SUFFICES ASSUME NEW u \in Threads, NEW k \in 1..Depth[u] PROVE FrameOK(stack[u][k])'
    BY <1>3 DEF FramesOK, Moves, OthersStay
  <2>1. CASE u = t /\ k = 1
    BY <1>2, <1>3, <1>4, <1>5, <2>1 DEF FrameOK
  <2>2. CASE u # t \/ k # 1
    <3>1. /\ stack'[u][k] = stack[u][k] /\ FrameOK(stack[u][k])
          /\ Depth[u] \in Nat
      BY <1>3, <2>2, FrameTypes DEF IInv, FramesOK, Moves, OthersStay
    <3>2. stack[u][k].at # "link"
      <4>1. CASE u # t
        BY <1>1, <4>1, Exclusion DEF f, InLock
      <4>2. CASE k # 1
        <5>1. stack[u][k].at \in {"construct", "delete"}
          BY <4>2, <3>1 DEF IInv, Shape
        <5> QED
          BY <5>1
      <4> QED
        BY <2>2, <4>1, <4>2
    <3>3. stack[u][k].at = "delete" => stack[u][k].of # f.of
      <4>1. CASE stack[u][k].at = "delete"
        <5>1. u = t /\ 1 \in 1..(k - 1)
          <6>1. shutdown /\ u = Main /\ Depth[t] > 0
            BY <1>1, <4>1, TopOK DEF IInv, Shape
          <6>2. u = t
            BY <6>1 DEF IInv, Shape
          <6> QED
            BY <2>2, <3>1, <6>2
        <5> QED
          BY <1>1, <4>1, <5>1 DEF IInv, PairsOK, f
      <4> QED
        BY <4>1
    <3> QED
      BY <1>4, <1>8, <3>1, <3>2, <3>3 DEF FrameOK
  <2> QED
    BY <2>1, <2>2
<1>12. PointersOK'
  BY <1>4 DEF IInv, PointersOK
<1>13. ListOK'
  <2> SUFFICES ASSUME NEW k \in 1..(Len(staticList) + 1)
               PROVE  /\ \A l \in 1..(Len(staticList) + 1) : staticList'[k] = staticList'[l] => k = l
                      /\ ptr[staticList'[k]] # 0
    BY <1>4, <1>7 DEF ListOK
  <2>1. ASSUME NEW l \in 1..(Len(staticList) + 1), l # 1
        PROVE  l \in 2..(Len(staticList) + 1) /\ l - 1 \in 1..Len(staticList) /\ staticList'[l] \in InList
    <3>1. l \in 2..(Len(staticList) + 1)
      BY <1>6, <2>1
    <3>2. l - 1 \in 1..Len(staticList) /\ staticList'[l] = staticList[l - 1]
      BY <1>7, <3>1
    <3> QED
      BY <3>1, <3>2 DEF InList
  <2>2. ASSUME NEW l \in 1..(Len(staticList) + 1), staticList'[k] = staticList'[l] PROVE k = l
    <3>1. CASE k = 1
      BY <1>5, <1>7, <2>1, <2>2, <3>1
    <3>2. CASE l = 1
      BY <1>5, <1>7, <2>1, <2>2, <3>2
    <3>3. CASE k # 1 /\ l # 1
      <4>1. /\ k - 1 \in 1..Len(staticList) /\ l - 1 \in 1..Len(staticList)
            /\ staticList[k - 1] = staticList[l - 1]
        BY <1>6, <1>7, <2>2, <3>3
      <4>2. k - 1 = l - 1
        BY <4>1 DEF IInv, ListOK
      <4> QED
        BY <1>6, <4>2
    <3> QED
      BY <3>1, <3>2, <3>3
  <2>3. ptr[staticList'[k]] # 0
    BY <1>5, <1>7, <2>1 DEF IInv, ListOK
  <2> QED
    BY <2>2, <2>3
<1>14. ObjectsAccounted'
  BY <1>1, <1>3, <1>4, ObjectsMove DEF f
<1>15. PointersAccounted'
  <2> SUFFICES ASSUME NEW s \in Statics, ptr[s] # 0, s \notin InList, s # f.of
               PROVE  \E u \in Threads : \E k \in 1..Depth'[u] :
                           stack'[u][k].at \in {"link", "delete"} /\ stack'[u][k].of = s
    BY <1>4, <1>8 DEF PointersAccounted
  <2>1. PICK u \in Threads : \E k \in 1..Depth[u] :
          stack[u][k].at \in {"link", "delete"} /\ stack[u][k].of = s
    BY DEF IInv, PointersAccounted
  <2>2. PICK k \in 1..Depth[u] : stack[u][k].at \in {"link", "delete"} /\ stack[u][k].of = s
    BY <2>1
  <2>3. k \in 1..Depth'[u] /\ stack'[u][k] = stack[u][k]
    BY <1>3, <2>2 DEF Moves, OthersStay, f
  <2> QED
    BY <2>2, <2>3
<1> QED
  BY <1>9, <1>10, <1>11, <1>12, <1>13, <1>14, <1>15 DEF IInv

LEMMA CreateIInv == ASSUME IInv, NEW t \in Threads, Create(t) PROVE IInv'
<1> DEFINE f == stack[t][1]
           g == [f EXCEPT !.at = "construct", !.obj = Len(objects) + 1, !.todo = CreatorUses[f.of]]
           new == [of |-> f.of, maker |-> t, life |-> "raw", uses |-> {}]
<1>1. /\ ~Idle(t) /\ Head(stack[t]) = f /\ f.at = "create"
      /\ 1 \in 1..Depth[t] /\ FrameOK(f) /\ f \in Frame /\ f.of \in Statics
      /\ stack' = [stack EXCEPT ![t] = [@ EXCEPT ![1] = g]]
      /\ objects' = Append(objects, new)
  BY TopOK DEF Create, At
<1>2. objects \in Seq(Object) /\ Len(objects) \in Nat /\ new \in Object /\ CreatorUses[f.of] \in Seq(Statics)
  BY <1>1, ManagedStaticAssumption DEF IInv, Typed, Object
<1>3. /\ g \in Frame /\ g.at = "construct" /\ g.of = f.of /\ g.obj = Len(objects) + 1
      /\ g.todo = CreatorUses[f.of]
  <2>1. f \in Frame /\ CreatorUses[f.of] \in Seq(Statics) /\ Len(objects) + 1 \in Nat /\ "construct" \in Places
    BY <1>1, <1>2 DEF Places
  <2> DEFINE uses == CreatorUses[f.of]
             n == Len(objects) + 1
  <2> HIDE DEF uses, n, f
  <2>2. /\ [f EXCEPT !.at = "construct", !.obj = n, !.todo = uses] \in Frame
        /\ [f EXCEPT !.at = "construct", !.obj = n, !.todo = uses].at = "construct"
        /\ [f EXCEPT !.at = "construct", !.obj = n, !.todo = uses].of = f.of
        /\ [f EXCEPT !.at = "construct", !.obj = n, !.todo = uses].obj = n
        /\ [f EXCEPT !.at = "construct", !.obj = n, !.todo = uses].todo = uses
    BY <2>1 DEF Frame, uses, n
  <2> QED
    BY <2>2 DEF uses, n
<1>4. new.of = f.of /\ new.life = "raw"
  OBVIOUS
<1> HIDE DEF g, new
<1>5. TopChanged(t, g)
  BY <1>1, <1>3, TopStep DEF IInv
<1>6. /\ Moves(t) /\ stack'[t][1].at = "construct" /\ stack'[t][1].of = f.of
      /\ stack'[t][1].obj = Len(objects) + 1 /\ stack'[t][1].todo = CreatorUses[f.of]
      /\ stack' \in [Threads -> Seq(Frame)]
  BY <1>3, <1>5, TopStays DEF TopChanged, Moves, IInv
<1> HIDE DEF f
<1>7. UNCHANGED <<multithreaded_mode, ptr, staticList, published, lock, shutdown>>
  BY DEF Create
<1>8. /\ objects' \in Seq(Object)
      /\ Len(objects') = Len(objects) + 1
      /\ objects'[Len(objects) + 1] = new
      /\ \A o \in 1..Len(objects) : objects'[o] = objects[o]
  BY <1>1, <1>2, AppendProperties
<1>9. Typed'
  BY <1>6, <1>7, <1>8 DEF IInv, Typed
<1>10. Shape' /\ LockCounted' /\ PairsOK'
  BY <1>1, <1>6, <1>7, ShapeMoves, LockMoves, PairsMoves DEF f, Outside
<1>11. ptr[f.of] = 0
  BY <1>1 DEF FrameOK
<1>12. FramesOK'
  <2> SUFFICES ASSUME NEW u \in Threads, NEW k \in 1..Depth[u] PROVE FrameOK(stack[u][k])'
    BY <1>6 DEF FramesOK, Moves, OthersStay
  <2>1. CASE u = t /\ k = 1
    <3>1. /\ Len(objects) + 1 \in 1..Len(objects')
          /\ objects'[Len(objects) + 1].of = f.of /\ objects'[Len(objects) + 1].life = "raw"
      BY <1>2, <1>4, <1>8
    <3>2. \A m \in 1..Len(CreatorUses[f.of]) : Rank[CreatorUses[f.of][m]] < Rank[f.of]
      BY <1>1, RankFalls
    <3> QED
      BY <1>6, <1>7, <1>11, <2>1, <3>1, <3>2 DEF FrameOK
  <2>2. CASE u # t \/ k # 1
    <3>1. stack'[u][k] = stack[u][k] /\ FrameOK(stack[u][k])
      BY <1>6, <2>2 DEF IInv, FramesOK, Moves, OthersStay
    <3>2. \A o \in 1..Len(objects) : o \in 1..Len(objects') /\ objects'[o] = objects[o]
      BY <1>2, <1>8
    <3> QED
      BY <1>7, <3>1, <3>2 DEF FrameOK, InList
  <2> QED
    BY <2>1, <2>2
<1>13. PointersOK' /\ ListOK'
  <2>1. \A o \in 1..Len(objects) : o \in 1..Len(objects') /\ objects'[o] = objects[o]
    BY <1>2, <1>8
  <2> QED
    BY <1>7, <2>1 DEF IInv, PointersOK, ListOK
<1>14. ObjectsAccounted'
  <2> SUFFICES ASSUME NEW o \in 1..(Len(objects) + 1), objects'[o].life # "dead"
               PROVE  \/ ptr[objects'[o].of] = o
                      \/ \E u \in Threads : \E k \in 1..Depth'[u] :
                           stack'[u][k].at \in {"construct", "publish"} /\ stack'[u][k].obj = o
    BY <1>7, <1>8 DEF ObjectsAccounted
  <2>1. CASE o = Len(objects) + 1
    BY <1>1, <1>6, <2>1 DEF Moves, OthersStay
  <2>2. CASE o \in 1..Len(objects)
    <3>1. objects'[o] = objects[o]
      BY <1>8, <2>2
    <3>2. CASE \E u \in Threads : \E k \in 1..Depth[u] :
                 stack[u][k].at \in {"construct", "publish"} /\ stack[u][k].obj = o
      <4>1. PICK u \in Threads : \E k \in 1..Depth[u] :
              stack[u][k].at \in {"construct", "publish"} /\ stack[u][k].obj = o
        BY <3>2
      <4>2. PICK k \in 1..Depth[u] : stack[u][k].at \in {"construct", "publish"} /\ stack[u][k].obj = o
        BY <4>1
      <4>3. k \in 1..Depth'[u] /\ stack'[u][k] = stack[u][k]
        BY <1>1, <1>6, <4>2 DEF Moves, OthersStay, f
      <4> QED
        BY <4>2, <4>3
    <3> QED
      BY <2>2, <3>1, <3>2 DEF IInv, ObjectsAccounted
  <2> QED
    BY <1>2, <2>1, <2>2
<1>15. PointersAccounted'
  BY <1>1, <1>6, <1>7, PointersMove DEF f
<1> QED
  BY <1>9, <1>10, <1>12, <1>13, <1>14, <1>15 DEF IInv

(* Two calls that are at the same place with the same static and object.   *)
Alike(f, g) == f.at = g.at /\ f.of = g.of /\ f.obj = g.obj

(* A creator or a deleter uses a static: a call is pushed.                 *)
LEMMA CallIInv ==
  ASSUME IInv, NEW t \in Threads, ~Idle(t), stack[t][1].at \in {"construct", "delete"},
         Head(stack[t]).todo # <<>>, CallNext(t),
         UNCHANGED <<multithreaded_mode, ptr, staticList, objects, published, lock, shutdown>>
  PROVE  IInv'
<1> DEFINE f == stack[t][1]
           s == f.todo[1]
<1>1. /\ 1 \in 1..Depth[t] /\ Depth[t] \in Nat /\ Depth[t] > 0 /\ FrameOK(f) /\ f \in Frame /\ Head(stack[t]) = f
      /\ f.todo \in Seq(Statics) /\ f.todo # <<>>
  BY TopOK
<1>2. /\ 1 \in 1..Len(f.todo) /\ s \in Statics /\ Len(f.todo) \in Nat
      /\ Len(Tail(f.todo)) = Len(f.todo) - 1
      /\ \A m \in 1..(Len(f.todo) - 1) : m + 1 \in 1..Len(f.todo) /\ Tail(f.todo)[m] = f.todo[m + 1]
  BY <1>1, HeadTailProperties
<1>3. Pushed(t)
  BY CallStep DEF IInv
<1>4. /\ \A u \in Threads : Depth'[u] = IF u = t THEN Depth[t] + 1 ELSE Depth[u]
      /\ \A u \in Threads : u # t => stack'[u] = stack[u]
  BY <1>3 DEF Pushed, OthersKept, Depth
<1>5. stack'[t][1].at = "read" /\ stack'[t][1].of = s
  BY <1>3 DEF Pushed, Call
<1>6. Alike(stack'[t][2], f) /\ stack'[t][2].todo = Tail(f.todo)
  BY <1>1, <1>3 DEF Pushed, Frame, Alike
<1>7. \A k \in 2..Depth[t] : stack'[t][k + 1] = stack[t][k]
  BY <1>3 DEF Pushed
<1> HIDE DEF f, s
<1>8. ASSUME NEW k \in 1..Depth[t]
      PROVE  k + 1 \in 1..(Depth[t] + 1) /\ Alike(stack'[t][k + 1], stack[t][k])
  <2>1. CASE k = 1
    BY <1>1, <1>6, <2>1 DEF f
  <2>2. CASE k \in 2..Depth[t]
    BY <1>1, <1>7, <2>2 DEF Alike
  <2> QED
    BY <1>1, <2>1, <2>2
<1>9. ASSUME NEW j \in 1..(Depth[t] + 1), j # 1
      PROVE  j - 1 \in 1..Depth[t] /\ Alike(stack'[t][j], stack[t][j - 1])
  <2>1. j - 1 \in 1..Depth[t] /\ (j - 1) + 1 = j
    BY <1>1, <1>9
  <2> QED
    BY <1>8, <2>1
<1>10. Main \in Threads /\ \A u \in Threads : Depth[u] \in Nat
  BY ManagedStaticAssumption, FrameTypes DEF IInv
<1>11. Typed'
  BY <1>3 DEF Pushed, IInv, Typed
<1>12. Shape'
  <2>1. ASSUME NEW u \in Threads, NEW j \in 1..Depth'[u]
        PROVE  /\ j > 1 => stack'[u][j].at \in {"construct", "delete"}
               /\ stack'[u][j].at = "delete" => shutdown /\ u = Main /\ j = Depth'[u]
               /\ stack'[u][j].at \in {"check", "unlock"} => multithreaded_mode
    <3>1. CASE u # t
      BY <1>4, <3>1 DEF IInv, Shape
    <3>2. CASE u = t /\ j = 1
      BY <1>5, <3>2
    <3>3. CASE u = t /\ j # 1
      <4>1. j - 1 \in 1..Depth[t] /\ Alike(stack'[t][j], stack[t][j - 1]) /\ j \in 1..(Depth[t] + 1)
        BY <1>4, <1>9, <3>3
      <4>2. stack[t][j - 1].at \in {"construct", "delete"}
        BY <1>1, <4>1 DEF IInv, Shape
      <4>3. stack[t][j - 1].at = "delete" => shutdown /\ t = Main /\ j - 1 = Depth[t]
        BY <4>1 DEF IInv, Shape
      <4> QED
        BY <1>4, <1>10, <3>3, <4>1, <4>2, <4>3 DEF Alike
    <3> QED
      BY <3>1, <3>2, <3>3
  <2>2. shutdown /\ Depth'[Main] > 0 => stack'[Main][Depth'[Main]].at = "delete"
    <3>1. CASE Main # t
      BY <1>4, <1>10, <3>1 DEF IInv, Shape
    <3>2. CASE Main = t
      <4>1. Depth[t] \in 1..Depth[t]
        BY <1>1
      <4>2. Alike(stack'[t][Depth[t] + 1], stack[t][Depth[t]])
        BY <1>8, <4>1
      <4> QED
        BY <1>1, <1>4, <3>2, <4>2 DEF IInv, Shape, Alike
    <3> QED
      BY <3>1, <3>2
  <2>3. \A u \in Threads \ {Main} : shutdown \/ ~multithreaded_mode => Depth'[u] = 0
    BY <1>1, <1>4 DEF IInv, Shape
  <2> QED
    BY <2>1, <2>2, <2>3 DEF Shape
<1>13. LockCounted'
  <2>1. ASSUME NEW u \in Threads PROVE Held(u)' = Held(u)
    <3>1. CASE u # t
      BY <1>4, <3>1 DEF Held
    <3>2. CASE u = t
      <4>1. Depth[t] \in 1..Depth[t]
        BY <1>1
      <4>2. Alike(stack'[t][Depth[t] + 1], stack[t][Depth[t]])
        BY <1>8, <4>1
      <4>3. Depth'[t] = Depth[t] + 1
        BY <1>4
      <4> QED
        BY <1>1, <1>5, <3>2, <4>2, <4>3 DEF Held, Alike, f
    <3> QED
      BY <3>1, <3>2
  <2> QED
    BY <2>1 DEF IInv, LockCounted
<1>14. FramesOK'
  <2> SUFFICES ASSUME NEW u \in Threads, NEW j \in 1..Depth'[u] PROVE FrameOK(stack[u][j])'
    BY DEF FramesOK
  <2>1. CASE u # t
    <3>1. stack'[u][j] = stack[u][j] /\ FrameOK(stack[u][j])
      BY <1>4, <2>1 DEF IInv, FramesOK
    <3> QED
      BY <3>1 DEF FrameOK, InList
  <2>2. CASE u = t /\ j = 1
    BY <1>5, <2>2 DEF FrameOK
  <2>3. CASE u = t /\ j = 2
    <3>1. PICK g : g = stack'[t][2]
      OBVIOUS
    <3>2. g.at = f.at /\ g.of = f.of /\ g.obj = f.obj /\ g.todo = Tail(f.todo)
      BY <1>6, <3>1 DEF Alike
    <3>3. f.at = "construct" => \A m \in 1..Len(g.todo) : Rank[g.todo[m]] < Rank[g.of]
      <4> SUFFICES ASSUME f.at = "construct", NEW m \in 1..(Len(f.todo) - 1)
                   PROVE  Rank[Tail(f.todo)[m]] < Rank[f.of]
        BY <1>2, <3>2
      <4>1. \A i \in 1..Len(f.todo) : Rank[f.todo[i]] < Rank[f.of]
        BY <1>1 DEF FrameOK
      <4> QED
        BY <1>2, <4>1
    <3>4. FrameOK(g)'
      BY <1>1, <3>2, <3>3 DEF FrameOK, InList
    <3> QED
      BY <2>3, <3>1, <3>4
  <2>4. CASE u = t /\ j # 1 /\ j # 2
    <3>1. j \in 1..(Depth[t] + 1) /\ j - 1 \in 2..Depth[t] /\ (j - 1) + 1 = j
      BY <1>1, <1>4, <2>4
    <3>2. stack'[t][j] = stack[t][j - 1] /\ FrameOK(stack[t][j - 1])
      BY <1>1, <1>7, <3>1 DEF IInv, FramesOK
    <3> QED
      BY <2>4, <3>2 DEF FrameOK, InList
  <2> QED
    BY <2>1, <2>2, <2>3, <2>4
<1>15. PairsOK'
  <2> SUFFICES ASSUME NEW u \in Threads, NEW k \in 1..Depth'[u], NEW l \in 1..(k - 1)
               PROVE  /\ stack'[u][k].at = "construct" => Rank[stack'[u][l].of] < Rank[stack'[u][k].of]
                      /\ stack'[u][k].at = "delete" /\ stack'[u][l].at = "link" =>
                           stack'[u][l].of # stack'[u][k].of
    BY DEF PairsOK
  <2>1. CASE u # t
    BY <1>4, <2>1 DEF IInv, PairsOK
  <2>2. CASE u = t
    <3>1. /\ k \in 1..(Depth[t] + 1) /\ l \in 1..(Depth[t] + 1) /\ k # 1
          /\ k - 1 \in 1..Depth[t] /\ Alike(stack'[t][k], stack[t][k - 1])
      BY <1>1, <1>4, <1>9, <2>2
    <3>2. CASE l # 1
      <4>1. l - 1 \in 1..((k - 1) - 1) /\ Alike(stack'[t][l], stack[t][l - 1])
        BY <1>9, <3>1, <3>2
      <4> QED
        BY <2>2, <3>1, <4>1 DEF IInv, PairsOK, Alike
    <3>3. CASE l = 1 /\ stack'[t][k].at = "construct"
      <4>1. stack[t][k - 1].at = "construct"
        BY <3>1, <3>3 DEF Alike
      <4>2. f.at = "construct"
        <5>1. CASE f.at = "delete"
          BY <1>1, <3>1, <4>1, <5>1 DEF IInv, Shape, f
        <5> QED
          BY <5>1 DEF f
      <4>3. Rank[s] < Rank[f.of]
        BY <1>1, <1>2, <4>2 DEF FrameOK, s
      <4>4. k - 1 = 1 \/ Rank[f.of] < Rank[stack[t][k - 1].of]
        <5>1. k - 1 # 1 => 1 \in 1..((k - 1) - 1)
          BY <3>1
        <5> QED
          BY <3>1, <4>1, <5>1 DEF IInv, PairsOK, f
      <4>5. f.of \in Statics /\ stack[t][k - 1].of \in Statics
        BY <1>1, <3>1, FrameTypes DEF IInv, f
      <4>6. Rank[s] < Rank[stack[t][k - 1].of]
        BY <1>2, <4>3, <4>4, <4>5, RankFalls DEF f
      <4> QED
        BY <1>5, <2>2, <3>1, <3>3, <4>6 DEF Alike
    <3> QED
      BY <1>5, <2>2, <3>2, <3>3
  <2> QED
    BY <2>1, <2>2
<1>16. PointersOK' /\ ListOK'
  BY RestStays
<1>17. ASSUME NEW u \in Threads, NEW k \in 1..Depth[u]
       PROVE  \E j \in 1..Depth'[u] : Alike(stack'[u][j], stack[u][k])
  BY <1>4, <1>8 DEF Alike
<1>18. ObjectsAccounted'
  <2> SUFFICES ASSUME NEW o \in 1..Len(objects), objects[o].life # "dead", ptr[objects[o].of] # o
               PROVE  \E u \in Threads : \E j \in 1..Depth'[u] :
                        stack'[u][j].at \in {"construct", "publish"} /\ stack'[u][j].obj = o
    BY DEF ObjectsAccounted
  <2>1. PICK u \in Threads : \E k \in 1..Depth[u] :
          stack[u][k].at \in {"construct", "publish"} /\ stack[u][k].obj = o
    BY DEF IInv, ObjectsAccounted
  <2>2. PICK k \in 1..Depth[u] :
          stack[u][k].at \in {"construct", "publish"} /\ stack[u][k].obj = o
    BY <2>1
  <2>3. PICK j \in 1..Depth'[u] : Alike(stack'[u][j], stack[u][k])
    BY <1>17
  <2> QED
    BY <2>2, <2>3 DEF Alike
<1>19. PointersAccounted'
  BY <1>17 DEF IInv, PointersAccounted, InList, Alike
<1> QED
  BY <1>11, <1>12, <1>13, <1>14, <1>15, <1>16, <1>18, <1>19 DEF IInv

LEMMA ConstructIInv == ASSUME IInv, NEW t \in Threads, Construct(t) PROVE IInv'
<1>1. ~Idle(t) /\ Head(stack[t]) = stack[t][1] /\ stack[t][1].at = "construct"
  BY TopOK DEF Construct, At
<1>2. CASE Head(stack[t]).todo = <<>>
  BY <1>2, BuiltIInv
<1>3. CASE Head(stack[t]).todo # <<>>
  BY <1>1, <1>3, CallIInv DEF Construct
<1> QED
  BY <1>2, <1>3

(* The object that a creator has used is noted; nothing else of any object *)
(* changes.                                                                *)
LEMMA UseNotes ==
  ASSUME IInv, NEW t \in Threads, Use(t)
  PROVE  /\ objects' \in Seq(Object)
         /\ Len(objects') = Len(objects)
         /\ \A o \in 1..Len(objects) :
              objects'[o].of = objects[o].of /\ objects'[o].life = objects[o].life
<1> DEFINE f == stack[t][1]
           caller == IF Len(stack[t]) > 1 THEN stack[t][2] ELSE f
           used == ptr[f.of]
           g == [objects[caller.obj] EXCEPT !.uses = @ \cup ({used} \ {0})]
<1>1. /\ ~Idle(t) /\ Head(stack[t]) = f /\ f.at = "use" /\ f.of \in Statics
      /\ Depth[t] \in Nat /\ Depth[t] = Len(stack[t]) /\ used \in Nat /\ objects \in Seq(Object)
  BY TopOK DEF Use, At, Depth, IInv, Typed
<1>2. objects' = IF caller.at = "construct"
                 THEN [objects EXCEPT ![caller.obj].uses = @ \cup ({used} \ {0})]
                 ELSE objects
  BY <1>1 DEF Use
<1>3. CASE caller.at # "construct"
  BY <1>1, <1>2, <1>3
<1>4. CASE caller.at = "construct"
  <2>1. Depth[t] > 1 /\ caller = stack[t][2] /\ 2 \in 1..Depth[t]
    BY <1>1, <1>4
  <2>2. caller.obj \in 1..Len(objects)
    BY <1>4, <2>1 DEF IInv, FramesOK, FrameOK
  <2>3. objects[caller.obj] \in Object
    BY <2>2, ObjectTypes DEF IInv
  <2> HIDE DEF caller, used
  <2>4. g \in Object /\ g.of = objects[caller.obj].of /\ g.life = objects[caller.obj].life
    BY <1>1, <2>3 DEF Object
  <2>5. objects' = [objects EXCEPT ![caller.obj] = g]
    BY <1>1, <1>2, <1>4, <2>2
  <2> HIDE DEF g
  <2>6. /\ objects' \in Seq(Object) /\ Len(objects') = Len(objects)
        /\ \A o \in 1..Len(objects) : objects'[o] = IF o = caller.obj THEN g ELSE objects[o]
    BY <1>1, <2>2, <2>4, <2>5, ExceptSeq
  <2> QED
    BY <2>4, <2>6
<1> QED
  BY <1>3, <1>4

LEMMA UseIInv == ASSUME IInv, NEW t \in Threads, Use(t) PROVE IInv'
<1> DEFINE f == stack[t][1]
<1>1. /\ ~Idle(t) /\ f.at = "use" /\ 1 \in 1..Depth[t] /\ Depth[t] \in Nat /\ Depth[t] > 0
  BY TopOK DEF Use, At
<1>2. Popped(t)
  BY <1>1, ReturnStep DEF Use, IInv
<1>3. /\ \A u \in Threads : Depth'[u] = IF u = t THEN Depth[t] - 1 ELSE Depth[u]
      /\ \A u \in Threads : u # t => stack'[u] = stack[u]
      /\ \A k \in 1..(Depth[t] - 1) : k + 1 \in 1..Depth[t] /\ stack'[t][k] = stack[t][k + 1]
  <2>1. /\ \A u \in Threads : u # t => stack'[u] = stack[u]
        /\ Len(stack'[t]) = Depth[t] - 1
        /\ \A k \in 1..(Depth[t] - 1) : stack'[t][k] = stack[t][k + 1]
    BY <1>1, <1>2 DEF Popped, OthersKept, Depth
  <2>2. \A u \in Threads : Depth'[u] = IF u = t THEN Depth[t] - 1 ELSE Depth[u]
    BY <2>1 DEF Depth
  <2>3. \A k \in 1..(Depth[t] - 1) : k + 1 \in 1..Depth[t]
    BY <1>1
  <2> QED
    BY <2>1, <2>2, <2>3
<1>4. UNCHANGED <<multithreaded_mode, ptr, staticList, published, lock, shutdown>>
  BY DEF Use
<1>5. /\ objects' \in Seq(Object)
      /\ Len(objects') = Len(objects)
      /\ \A o \in 1..Len(objects) :
           objects'[o].of = objects[o].of /\ objects'[o].life = objects[o].life
  BY UseNotes
<1> HIDE DEF f
<1>6. Main \in Threads /\ \A u \in Threads : Depth[u] \in Nat
  BY ManagedStaticAssumption, FrameTypes DEF IInv
<1>7. ASSUME NEW u \in Threads, NEW k \in 1..Depth[u], u # t \/ k # 1
      PROVE  \E j \in 1..Depth'[u] : stack'[u][j] = stack[u][k]
  <2>1. CASE u # t
    BY <1>3, <2>1
  <2>2. CASE u = t
    <3>1. k - 1 \in 1..(Depth[t] - 1) /\ (k - 1) + 1 = k
      BY <1>1, <1>7, <2>2
    <3> QED
      BY <1>3, <2>2, <3>1
  <2> QED
    BY <2>1, <2>2
<1>8. Typed'
  BY <1>2, <1>4, <1>5 DEF Popped, IInv, Typed
<1>9. Shape'
  <2>1. ASSUME NEW u \in Threads, NEW j \in 1..Depth'[u]
        PROVE  /\ j > 1 => stack'[u][j].at \in {"construct", "delete"}
               /\ stack'[u][j].at = "delete" => shutdown /\ u = Main /\ j = Depth'[u]
               /\ stack'[u][j].at \in {"check", "unlock"} => multithreaded_mode
    <3>1. CASE u # t
      BY <1>3, <3>1 DEF IInv, Shape
    <3>2. CASE u = t
      <4>1. j \in Nat /\ j + 1 \in 1..Depth[t] /\ stack'[t][j] = stack[t][j + 1] /\ j + 1 > 1
        BY <1>1, <1>3, <3>2
      <4>2. stack[t][j + 1].at \in {"construct", "delete"}
        BY <4>1 DEF IInv, Shape
      <4>3. stack[t][j + 1].at = "delete" => shutdown /\ t = Main /\ j + 1 = Depth[t]
        BY <4>1 DEF IInv, Shape
      <4> QED
        BY <1>1, <1>3, <3>2, <4>1, <4>2, <4>3
    <3> QED
      BY <3>1, <3>2
  <2>2. shutdown /\ Depth'[Main] > 0 => stack'[Main][Depth'[Main]].at = "delete"
    <3>1. CASE Main # t
      BY <1>3, <1>6, <3>1 DEF IInv, Shape
    <3>2. CASE Main = t /\ Depth'[Main] > 0
      <4>1. Depth[t] - 1 \in 1..(Depth[t] - 1) /\ (Depth[t] - 1) + 1 = Depth[t] /\ Depth'[t] = Depth[t] - 1
        BY <1>1, <1>3, <1>6, <3>2
      <4>2. stack'[t][Depth[t] - 1] = stack[t][Depth[t]]
        BY <1>3, <4>1
      <4> QED
        BY <1>1, <3>2, <4>1, <4>2 DEF IInv, Shape
    <3> QED
      BY <3>1, <3>2
  <2>3. \A u \in Threads \ {Main} : shutdown \/ ~multithreaded_mode => Depth'[u] = 0
    BY <1>1, <1>3 DEF IInv, Shape
  <2> QED
    BY <1>4, <2>1, <2>2, <2>3 DEF Shape
<1>10. LockCounted'
  <2>1. ASSUME NEW u \in Threads PROVE Held(u)' = Held(u)
    <3>1. CASE u # t
      BY <1>3, <1>4, <3>1 DEF Held
    <3>2. CASE u = t /\ Depth[t] = 1
      BY <1>1, <1>3, <1>4, <3>2 DEF Held, f
    <3>3. CASE u = t /\ Depth[t] > 1
      <4>1. /\ Depth'[t] = Depth[t] - 1 /\ Depth'[t] > 0
            /\ stack'[t][1] = stack[t][2] /\ 2 \in 1..Depth[t]
        BY <1>1, <1>3, <3>3
      <4>2. stack'[t][Depth[t] - 1] = stack[t][Depth[t]]
        <5>1. Depth[t] - 1 \in 1..(Depth[t] - 1) /\ (Depth[t] - 1) + 1 = Depth[t]
          BY <1>1, <3>3
        <5> QED
          BY <1>3, <5>1
      <4>3. stack[t][2].at \in {"construct", "delete"}
        BY <4>1 DEF IInv, Shape
      <4> QED
        BY <1>1, <1>4, <3>3, <4>1, <4>2, <4>3 DEF Held, f
    <3> QED
      BY <1>1, <3>1, <3>2, <3>3
  <2> QED
    BY <1>4, <2>1 DEF IInv, LockCounted
<1>11. FramesOK'
  <2> SUFFICES ASSUME NEW u \in Threads, NEW j \in 1..Depth'[u] PROVE FrameOK(stack[u][j])'
    BY DEF FramesOK
  <2>1. PICK k \in 1..Depth[u] : stack'[u][j] = stack[u][k]
    BY <1>3
  <2>2. FrameOK(stack[u][k])
    BY DEF IInv, FramesOK
  <2> QED
    BY <1>4, <1>5, <2>1, <2>2 DEF FrameOK, InList
<1>12. PairsOK'
  <2> SUFFICES ASSUME NEW u \in Threads, NEW k \in 1..Depth'[u], NEW l \in 1..(k - 1)
               PROVE  /\ stack'[u][k].at = "construct" => Rank[stack'[u][l].of] < Rank[stack'[u][k].of]
                      /\ stack'[u][k].at = "delete" /\ stack'[u][l].at = "link" =>
                           stack'[u][l].of # stack'[u][k].of
    BY DEF PairsOK
  <2>1. CASE u # t
    BY <1>3, <2>1 DEF IInv, PairsOK
  <2>2. CASE u = t
    <3>1. /\ k + 1 \in 1..Depth[t] /\ l + 1 \in 1..((k + 1) - 1)
          /\ stack'[t][k] = stack[t][k + 1] /\ stack'[t][l] = stack[t][l + 1]
      BY <1>1, <1>3, <2>2
    <3> QED
      BY <2>2, <3>1 DEF IInv, PairsOK
  <2> QED
    BY <2>1, <2>2
<1>13. PointersOK' /\ ListOK'
  BY <1>4, <1>5 DEF IInv, PointersOK, ListOK
<1>14. ObjectsAccounted'
  <2> SUFFICES ASSUME NEW o \in 1..Len(objects), objects[o].life # "dead", ptr[objects[o].of] # o
               PROVE  \E u \in Threads : \E j \in 1..Depth'[u] :
                           stack'[u][j].at \in {"construct", "publish"} /\ stack'[u][j].obj = o
    BY <1>4, <1>5 DEF ObjectsAccounted
  <2>1. PICK u \in Threads : \E k \in 1..Depth[u] :
          stack[u][k].at \in {"construct", "publish"} /\ stack[u][k].obj = o
    BY DEF IInv, ObjectsAccounted
  <2>2. PICK k \in 1..Depth[u] : stack[u][k].at \in {"construct", "publish"} /\ stack[u][k].obj = o
    BY <2>1
  <2>3. u # t \/ k # 1
    BY <1>1, <2>2 DEF f
  <2> QED
    BY <1>7, <2>2, <2>3
<1>15. PointersAccounted'
  <2> SUFFICES ASSUME NEW s \in Statics, ptr[s] # 0, s \notin InList
               PROVE  \E u \in Threads : \E j \in 1..Depth'[u] :
                           stack'[u][j].at \in {"link", "delete"} /\ stack'[u][j].of = s
    BY <1>4 DEF PointersAccounted, InList
  <2>1. PICK u \in Threads : \E k \in 1..Depth[u] :
          stack[u][k].at \in {"link", "delete"} /\ stack[u][k].of = s
    BY DEF IInv, PointersAccounted
  <2>2. PICK k \in 1..Depth[u] : stack[u][k].at \in {"link", "delete"} /\ stack[u][k].of = s
    BY <2>1
  <2>3. u # t \/ k # 1
    BY <1>1, <2>2 DEF f
  <2> QED
    BY <1>7, <2>2, <2>3
<1> QED
  BY <1>8, <1>9, <1>10, <1>11, <1>12, <1>13, <1>14, <1>15 DEF IInv

LEMMA AccessIInv == ASSUME IInv, NEW t \in Threads, NEW s \in Statics, Access(t, s) PROVE IInv'
<1>1. Idle(t) /\ ~shutdown /\ (t = Main \/ multithreaded_mode) /\ stack' = [stack EXCEPT ![t] = <<Call(s)>>]
  BY DEF Access
<1>2. Call(s) \in Frame /\ Call(s).at = "read" /\ Call(s).of = s
  BY EmptySeq DEF Call, Frame, Places
<1>3. Started(t, Call(s))
  BY <1>1, <1>2, StartStep DEF IInv
<1>4. /\ \A u \in Threads : Depth'[u] = IF u = t THEN 1 ELSE Depth[u]
      /\ \A u \in Threads : u # t => stack'[u] = stack[u]
      /\ stack'[t][1].at = "read"
      /\ Depth[t] = 0
  BY <1>2, <1>3 DEF Started, OthersKept, Depth
<1>5. UNCHANGED <<multithreaded_mode, ptr, staticList, objects, published, lock, shutdown>>
  BY DEF Access
<1>6. Main \in Threads /\ \A u \in Threads : Depth[u] \in Nat
  BY ManagedStaticAssumption, FrameTypes DEF IInv
<1>7. Typed'
  BY <1>3, <1>5 DEF Started, IInv, Typed
<1>8. Shape'
  BY <1>1, <1>4, <1>5, <1>6 DEF IInv, Shape
<1>9. LockCounted'
  <2>1. ASSUME NEW u \in Threads PROVE Held(u)' = Held(u)
    BY <1>4, <1>5 DEF Held
  <2> QED
    BY <1>5, <2>1 DEF IInv, LockCounted
<1>10. FramesOK'
  <2> SUFFICES ASSUME NEW u \in Threads, NEW j \in 1..Depth'[u] PROVE FrameOK(stack[u][j])'
    BY DEF FramesOK
  <2>1. CASE u = t
    BY <1>4, <2>1 DEF FrameOK
  <2>2. CASE u # t
    <3>1. stack'[u][j] = stack[u][j] /\ FrameOK(stack[u][j])
      BY <1>4, <2>2 DEF IInv, FramesOK
    <3> QED
      BY <1>5, <3>1 DEF FrameOK, InList
  <2> QED
    BY <2>1, <2>2
<1>11. PairsOK'
  BY <1>4, <1>6 DEF IInv, PairsOK
<1>12. PointersOK' /\ ListOK'
  BY <1>5, RestStays
<1>13. ASSUME NEW u \in Threads, NEW k \in 1..Depth[u] PROVE k \in 1..Depth'[u] /\ stack'[u][k] = stack[u][k]
  BY <1>4
<1>14. ObjectsAccounted'
  BY <1>5, <1>13 DEF IInv, ObjectsAccounted
<1>15. PointersAccounted'
  BY <1>5, <1>13 DEF IInv, PointersAccounted, InList
<1> QED
  BY <1>7, <1>8, <1>9, <1>10, <1>11, <1>12, <1>14, <1>15 DEF IInv

(* While llvm_shutdown runs, only the main thread can be in a call.        *)
LEMMA OnlyMain ==
  ASSUME IInv, shutdown, NEW u \in Threads, u # Main
  PROVE  Depth[u] = 0 /\ Held(u) = 0
<1> QED
  BY DEF IInv, Shape, Held

LEMMA NobodyHolds ==
  ASSUME IInv, \A u \in Threads : Held(u) = 0
  PROVE  lock.owner = None /\ lock.depth = 0
<1> QED
  BY DEF IInv, Typed, LockCounted

LEMMA DestroyIInv == ASSUME IInv, Destroy PROVE IInv'
<1> DEFINE s == staticList[1]
           f == [of |-> s, at |-> "delete", obj |-> ptr[s], todo |-> DeleterUses[s]]
<1>1. /\ shutdown /\ Idle(Main) /\ staticList # <<>> /\ Head(staticList) = s
      /\ stack' = [stack EXCEPT ![Main] = <<f>>] /\ staticList' = Tail(staticList)
      /\ Main \in Threads /\ Depth[Main] = 0
  BY ManagedStaticAssumption, FrameTypes DEF Destroy, IInv, Typed
<1>2. /\ staticList \in Seq(Statics) /\ Len(staticList) \in Nat /\ Len(staticList) > 0
      /\ 1 \in 1..Len(staticList) /\ s \in Statics /\ ptr[s] \in Nat
      /\ ptr[s] # 0
  BY <1>1 DEF IInv, Typed, ListOK
<1>3. /\ staticList' \in Seq(Statics) /\ Len(staticList') = Len(staticList) - 1
      /\ \A k \in 1..(Len(staticList) - 1) :
           staticList'[k] = staticList[k + 1] /\ k + 1 \in 1..Len(staticList) /\ k + 1 # 1
  BY <1>1, <1>2, HeadTailProperties
<1>4. f \in Frame /\ f.of = s /\ f.at = "delete" /\ f.obj = ptr[s]
  BY <1>2, ManagedStaticAssumption DEF Frame, Places
<1>5. Started(Main, f)
  BY <1>1, <1>4, StartStep DEF IInv
<1> HIDE DEF f, s
<1>6. /\ \A u \in Threads : Depth'[u] = IF u = Main THEN 1 ELSE 0
      /\ stack'[Main][1] = f
  BY <1>1, <1>5, OnlyMain DEF Started, OthersKept, Depth
<1>7. UNCHANGED <<multithreaded_mode, ptr, objects, published, lock, shutdown>>
  BY DEF Destroy
<1>8. InList' \subseteq InList /\ s \notin InList' /\ InList \subseteq InList' \cup {s}
  <2>1. InList' \subseteq InList
    BY <1>3 DEF InList
  <2>2. s \notin InList'
    BY <1>2, <1>3 DEF InList, IInv, ListOK, s
  <2>3. ASSUME NEW k \in 1..Len(staticList), k # 1 PROVE staticList[k] \in InList'
    <3>1. k - 1 \in 1..Len(staticList') /\ (k - 1) + 1 = k
      BY <1>2, <1>3, <2>3
    <3>2. staticList'[k - 1] = staticList[k]
      BY <1>3, <3>1
    <3> QED
      BY <3>1, <3>2 DEF InList
  <2> QED
    BY <2>1, <2>2, <2>3 DEF InList, s
<1>9. Typed'
  BY <1>3, <1>5, <1>7 DEF Started, IInv, Typed
<1>10. Shape'
  BY <1>1, <1>4, <1>6, <1>7 DEF Shape
<1>11. LockCounted'
  <2>1. ASSUME NEW u \in Threads PROVE Held(u)' = 0 /\ Held(u) = 0
    <3>1. Depth[u] = 0
      BY <1>1, OnlyMain
    <3>2. Held(u)' = 0
      BY <1>4, <1>6 DEF Held
    <3> QED
      BY <3>1, <3>2 DEF Held
  <2> QED
    BY <1>7, <2>1 DEF IInv, LockCounted
<1>12. FramesOK'
  BY <1>2, <1>4, <1>6, <1>7, <1>8 DEF FramesOK, FrameOK
<1>13. PairsOK'
  BY <1>6 DEF PairsOK
<1>14. PointersOK'
  BY <1>7 DEF IInv, PointersOK
<1>15. ListOK'
  <2> SUFFICES ASSUME NEW k \in 1..(Len(staticList) - 1)
               PROVE  /\ \A l \in 1..(Len(staticList) - 1) : staticList'[k] = staticList'[l] => k = l
                      /\ ptr[staticList'[k]] # 0
    BY <1>3, <1>7 DEF ListOK
  <2>1. \A l \in 1..(Len(staticList) - 1) : staticList'[k] = staticList'[l] => k = l
    BY <1>2, <1>3 DEF IInv, ListOK
  <2>2. ptr[staticList'[k]] # 0
    BY <1>3 DEF IInv, ListOK
  <2> QED
    BY <2>1, <2>2
<1>16. \A u \in Threads : Depth[u] = 0
  BY <1>1, OnlyMain
<1>17. ObjectsAccounted'
  BY <1>7, <1>16 DEF IInv, ObjectsAccounted
<1>18. PointersAccounted'
  <2> SUFFICES ASSUME NEW r \in Statics, ptr[r] # 0, r \notin InList'
               PROVE  \E u \in Threads : \E j \in 1..Depth'[u] :
                           stack'[u][j].at \in {"link", "delete"} /\ stack'[u][j].of = r
    BY <1>7 DEF PointersAccounted
  <2>1. r \in InList
    BY <1>16 DEF IInv, PointersAccounted
  <2>2. r = s /\ 1 \in 1..Depth'[Main]
    BY <1>1, <1>6, <1>8, <2>1
  <2> QED
    BY <1>1, <1>4, <1>6, <2>2
<1> QED
  BY <1>9, <1>10, <1>11, <1>12, <1>13, <1>14, <1>15, <1>17, <1>18 DEF IInv

(* The deleter has nothing left to use: the object is gone.                *)
LEMMA DeletedIInv ==
  ASSUME IInv, NEW t \in Threads, Delete(t), Head(stack[t]).todo = <<>>
  PROVE  IInv'
<1> DEFINE f == stack[t][1]
           g == [objects[f.obj] EXCEPT !.life = "dead"]
<1>1. /\ ~Idle(t) /\ f.at = "delete" /\ 1 \in 1..Depth[t] /\ Depth[t] \in Nat /\ FrameOK(f)
      /\ f.of \in Statics /\ Head(stack[t]) = f /\ Return(t)
      /\ objects' = [objects EXCEPT ![f.obj].life = "dead"]
      /\ ptr' = [ptr EXCEPT ![f.of] = 0]
  BY TopOK DEF Delete, At
<1>2. UNCHANGED <<multithreaded_mode, staticList, published, lock, shutdown>>
  BY DEF Delete
<1>3. shutdown /\ t = Main /\ Depth[t] = 1
  BY <1>1 DEF IInv, Shape
<1>4. \A u \in Threads : Depth[u] = (IF u = t THEN 1 ELSE 0) /\ Depth'[u] = 0
  <2>1. Popped(t)
    BY <1>1, ReturnStep DEF IInv
  <2> QED
    BY <1>3, <2>1, OnlyMain DEF Popped, OthersKept, Depth
<1>5. Popped(t)
  BY <1>1, ReturnStep DEF IInv
<1> HIDE DEF f
<1>6. /\ ptr[f.of] # 0 /\ f.obj = ptr[f.of] /\ f.of \notin InList
      /\ f.obj \in 1..Len(objects) /\ objects[f.obj].of = f.of
  BY <1>1 DEF FrameOK, IInv, PointersOK
<1>7. g \in Object /\ g.of = f.of /\ g.life = "dead"
  <2>1. objects[f.obj] \in Object
    BY <1>6, ObjectTypes DEF IInv
  <2> QED
    BY <1>6, <2>1 DEF Object
<1>8. objects \in Seq(Object) /\ objects' = [objects EXCEPT ![f.obj] = g]
  BY <1>1, <1>6 DEF IInv, Typed
<1> HIDE DEF g
<1>9. /\ objects' \in Seq(Object) /\ Len(objects') = Len(objects)
      /\ \A o \in 1..Len(objects) : objects'[o] = IF o = f.obj THEN g ELSE objects[o]
  BY <1>6, <1>7, <1>8, ExceptSeq
<1>10. /\ ptr' \in [Statics -> Nat]
       /\ \A s \in Statics : ptr'[s] = IF s = f.of THEN 0 ELSE ptr[s]
  BY <1>1 DEF IInv, Typed
<1>11. Typed'
  BY <1>2, <1>5, <1>9, <1>10 DEF Popped, IInv, Typed
<1>12. Shape'
  BY <1>4, ManagedStaticAssumption DEF Shape
<1>13. LockCounted'
  <2>1. ASSUME NEW u \in Threads PROVE Held(u)' = 0 /\ Held(u) = 0
    <3>1. Held(u) = 0
      BY <1>1, <1>3, <1>4 DEF Held, f
    <3>2. Held(u)' = 0
      BY <1>4 DEF Held
    <3> QED
      BY <3>1, <3>2
  <2> QED
    BY <1>2, <2>1 DEF IInv, LockCounted
<1>14. FramesOK' /\ PairsOK'
  BY <1>4 DEF FramesOK, PairsOK
<1>15. PointersOK'
  BY <1>2, <1>6, <1>9, <1>10 DEF IInv, PointersOK
<1>16. ListOK'
  <2>1. \A k \in 1..Len(staticList) : staticList[k] \in InList /\ staticList[k] \in Statics
    BY DEF InList, IInv, Typed
  <2> QED
    BY <1>2, <1>6, <1>10, <2>1 DEF IInv, ListOK
<1>17. ObjectsAccounted'
  <2> SUFFICES ASSUME NEW o \in 1..Len(objects), objects'[o].life # "dead"
               PROVE  ptr'[objects'[o].of] = o
    BY <1>9 DEF ObjectsAccounted
  <2>1. o # f.obj /\ objects'[o] = objects[o]
    BY <1>7, <1>9
  <2>2. \A u \in Threads : \A k \in 1..Depth[u] : u = t /\ k = 1
    BY <1>4
  <2>3. ptr[objects[o].of] = o
    BY <1>1, <2>1, <2>2 DEF IInv, ObjectsAccounted, f
  <2>4. objects[o].of \in Statics /\ objects[o].of # f.of
    BY <1>6, <2>1, <2>3, ObjectTypes DEF IInv
  <2> QED
    BY <1>10, <2>1, <2>3, <2>4
<1>18. PointersAccounted'
  <2> SUFFICES ASSUME NEW s \in Statics, ptr'[s] # 0
               PROVE  s \in InList
    BY <1>2 DEF PointersAccounted, InList
  <2>1. s # f.of /\ ptr[s] # 0
    BY <1>10
  <2>2. \A u \in Threads : \A k \in 1..Depth[u] : u = t /\ k = 1
    BY <1>4
  <2> QED
    BY <2>1, <2>2 DEF IInv, PointersAccounted, f
<1> QED
  BY <1>11, <1>12, <1>13, <1>14, <1>15, <1>16, <1>17, <1>18 DEF IInv

LEMMA DeleteIInv == ASSUME IInv, NEW t \in Threads, Delete(t) PROVE IInv'
<1>1. ~Idle(t) /\ Head(stack[t]) = stack[t][1] /\ stack[t][1].at = "delete"
  BY TopOK DEF Delete, At
<1>2. CASE Head(stack[t]).todo = <<>>
  BY <1>2, DeletedIInv
<1>3. CASE Head(stack[t]).todo # <<>>
  BY <1>1, <1>3, CallIInv DEF Delete
<1> QED
  BY <1>2, <1>3

(* The modes change while no thread is in a call.                          *)
LEMMA ModesIInv ==
  ASSUME IInv, \A u \in Threads : Depth[u] = 0,
         UNCHANGED <<ptr, staticList, objects, published, lock, stack>>,
         multithreaded_mode' \in BOOLEAN, shutdown' \in BOOLEAN
  PROVE  IInv'
<1>1. \A u \in Threads : Depth'[u] = 0
  BY DEF Depth
<1>2. Typed'
  BY DEF IInv, Typed
<1>3. Shape' /\ FramesOK' /\ PairsOK'
  BY <1>1, ManagedStaticAssumption DEF Shape, FramesOK, PairsOK
<1>4. LockCounted'
  <2>1. ASSUME NEW u \in Threads PROVE Held(u)' = 0 /\ Held(u) = 0
    BY <1>1 DEF Held
  <2> QED
    BY <2>1 DEF IInv, LockCounted
<1>5. PointersOK' /\ ListOK'
  BY RestStays
<1>6. ObjectsAccounted' /\ PointersAccounted'
  BY DEF IInv, ObjectsAccounted, PointersAccounted, InList
<1> QED
  BY <1>2, <1>3, <1>4, <1>5, <1>6 DEF IInv

LEMMA AllIdle ==
  ASSUME IInv, Idle(Main), shutdown \/ ~multithreaded_mode
  PROVE  \A u \in Threads : Depth[u] = 0
<1>1. Depth[Main] = 0
  BY ManagedStaticAssumption, FrameTypes DEF IInv
<1> QED
  BY <1>1 DEF IInv, Shape

-----------------------------------------------------------------------------
(* The theorems *)

LEMMA InitIInv == Init => IInv
<1> SUFFICES ASSUME Init PROVE IInv
  OBVIOUS
<1>1. \A u \in Threads : Depth[u] = 0
  BY EmptySeq DEF Init, Depth
<1>2. Len(objects) = 0 /\ Len(staticList) = 0
  BY DEF Init
<1>3. Typed
  <2>1. <<>> \in Seq(Frame) /\ <<>> \in Seq(Object) /\ <<>> \in Seq(Statics)
    OBVIOUS
  <2>2. lock \in [owner : Threads \cup {None}, depth : Nat]
    BY DEF Init
  <2>3. stack \in [Threads -> Seq(Frame)] /\ ptr \in [Statics -> Nat]
    BY <2>1 DEF Init
  <2> QED
    BY <2>1, <2>2, <2>3 DEF Init, Typed
<1>4. Shape /\ FramesOK /\ PairsOK
  BY <1>1, ManagedStaticAssumption DEF Init, Shape, FramesOK, PairsOK
<1>5. LockCounted
  BY <1>1, ManagedStaticAssumption DEF Init, LockCounted, Held
<1>6. PointersOK /\ ListOK /\ ObjectsAccounted /\ PointersAccounted
  BY <1>2 DEF Init, PointersOK, ListOK, ObjectsAccounted, PointersAccounted
<1> QED
  BY <1>3, <1>4, <1>5, <1>6 DEF IInv

LEMMA StepIInv == IInv /\ [Next]_vars => IInv'
<1> SUFFICES ASSUME IInv, [Next]_vars PROVE IInv'
  OBVIOUS
<1>1. ASSUME NEW t \in Threads, Step(t) PROVE IInv'
  BY <1>1, ReadPtrIInv, RegisterIInv, CheckAgainIInv, CreateIInv, ConstructIInv, PublishIInv, LinkIInv,
     UnlockIInv, UseIInv, DeleteIInv DEF Step
<1>2. ASSUME NEW t \in Threads, NEW s \in Statics, Access(t, s) PROVE IInv'
  BY <1>2, AccessIInv
<1>3. CASE StartMultithreaded
  BY <1>3, AllIdle, ModesIInv DEF StartMultithreaded, IInv, Typed
<1>4. CASE Shutdown
  BY <1>4, AllIdle, ModesIInv, FrameTypes DEF Shutdown, IInv, Typed
<1>5. CASE Destroy
  BY <1>5, DestroyIInv
<1>6. CASE ShutdownEnds
  BY <1>6, AllIdle, ModesIInv DEF ShutdownEnds
<1>7. CASE UNCHANGED vars
  <2>1. UNCHANGED <<multithreaded_mode, ptr, staticList, objects, published, lock, stack, shutdown>> /\ Depth' = Depth
    BY <1>7 DEF vars, Depth
  <2>2. Typed' /\ Shape' /\ PairsOK'
    BY <2>1 DEF IInv, Typed, Shape, PairsOK
  <2>3. LockCounted'
    BY <2>1 DEF IInv, LockCounted, Held
  <2>4. FramesOK'
    BY <2>1 DEF IInv, FramesOK, FrameOK, InList
  <2>5. PointersOK' /\ ListOK' /\ ObjectsAccounted' /\ PointersAccounted'
    BY <2>1 DEF IInv, PointersOK, ListOK, ObjectsAccounted, PointersAccounted, InList
  <2> QED
    BY <2>2, <2>3, <2>4, <2>5 DEF IInv
<1> QED
  BY <1>1, <1>2, <1>3, <1>4, <1>5, <1>6, <1>7 DEF Next

(* The invariant holds in every state of every behaviour, with or without  *)
(* fairness.                                                               *)
THEOREM Invariant == Init /\ [][Next]_vars => []IInv
<1> QED
  BY InitIInv, StepIInv, PTL

LEMMA IInvOneObject == IInv => OneObject
<1> SUFFICES ASSUME IInv, NEW o \in 1..Len(objects), NEW q \in 1..Len(objects),
                    objects[o].life # "dead", objects[q].life # "dead", objects[o].of = objects[q].of
             PROVE  o = q
  BY DEF OneObject, Alive, Objects
<1> DEFINE s == objects[o].of
           Made(t, k, p) == stack[t][k].at \in {"construct", "publish"} /\ stack[t][k].obj = p
<1>1. s \in Statics /\ o # 0 /\ q # 0
  BY ObjectTypes DEF IInv
<1>2. ASSUME NEW t \in Threads, NEW k \in 1..Depth[t], NEW p \in {o, q}, Made(t, k, p)
      PROVE  ptr[s] = 0 /\ stack[t][k].of = s /\ stack[t][k].at \in InLock
  BY <1>2 DEF IInv, FramesOK, FrameOK, InLock
<1>3. ASSUME NEW t \in Threads, NEW k \in 1..Depth[t], Made(t, k, o),
             NEW u \in Threads, NEW l \in 1..Depth[u], Made(u, l, q)
      PROVE  o = q
  <2>1. /\ stack[t][k].of = s /\ stack[t][k].at \in InLock
        /\ stack[u][l].of = s /\ stack[u][l].at \in InLock
    BY <1>2, <1>3
  <2>2. t = u
    BY <2>1, Exclusion
  <2>3. Rank[s] \in Nat /\ Depth[t] \in Nat
    BY <1>1, RankFalls, FrameTypes DEF IInv
  <2>4. ASSUME NEW i \in 1..Depth[t], NEW j \in 1..Depth[t], j < i,
               stack[t][i].at \in {"construct", "publish"}, stack[t][i].of = s, stack[t][j].of = s
        PROVE  FALSE
    <3>1. i > 1 /\ j \in 1..(i - 1)
      BY <2>3, <2>4
    <3>2. stack[t][i].at = "construct"
      BY <2>4, <3>1 DEF IInv, Shape
    <3>3. Rank[s] < Rank[s]
      BY <2>4, <3>1, <3>2 DEF IInv, PairsOK
    <3> QED
      BY <2>3, <3>3
  <2>5. k = l
    BY <1>3, <2>1, <2>2, <2>3, <2>4
  <2> QED
    BY <1>3, <2>2, <2>5
<1>4. /\ ptr[s] = o \/ \E t \in Threads : \E k \in 1..Depth[t] : Made(t, k, o)
      /\ ptr[s] = q \/ \E t \in Threads : \E k \in 1..Depth[t] : Made(t, k, q)
  BY DEF IInv, ObjectsAccounted
<1> HIDE DEF Made
<1> QED
  BY <1>1, <1>2, <1>3, <1>4

LEMMA IInvComplete == IInv => CompleteWhenUsed
<1> SUFFICES ASSUME IInv, NEW t \in Threads, At(t, "use")
             PROVE  LET o == ptr[Head(stack[t]).of]
                    IN o # 0 /\ objects[o].life = "built" /\ o \in published
  BY DEF CompleteWhenUsed
<1>1. Head(stack[t]) = stack[t][1] /\ stack[t][1].at = "use" /\ FrameOK(stack[t][1]) /\ stack[t][1].of \in Statics
  BY TopOK DEF At
<1> QED
  BY <1>1 DEF FrameOK, IInv, PointersOK

LEMMA IInvList == IInv => ListFaithful
<1> SUFFICES ASSUME IInv, \A t \in Threads : Idle(t) PROVE ListFaithful
  BY DEF ListFaithful
<1>1. \A t \in Threads : Depth[t] = 0
  BY FrameTypes DEF IInv
<1>2. staticList \in Seq(Statics) /\ ToSet(staticList) = InList
  <2>1. staticList \in Seq(Statics)
    BY DEF IInv, Typed
  <2> QED
    BY <2>1 DEF ToSet, InList
<1>3. \A s \in Statics : ptr[s] # 0 <=> s \in InList
  BY <1>1 DEF IInv, PointersAccounted, ListOK, InList
<1>4. \A o \in 1..Len(objects) : objects[o].life # "dead" => ptr[objects[o].of] = o
  BY <1>1 DEF IInv, ObjectsAccounted
<1> QED
  BY <1>2, <1>3, <1>4 DEF ListFaithful, Alive, Objects

(* However many threads use a static for the first time at once, and       *)
(* whatever its creator and the deleters of others use, there is one       *)
(* object of it (RegisterManagedStatic under the lock).                    *)
THEOREM OneObjectEver == Init /\ [][Next]_vars => []OneObject
<1> QED
  BY Invariant, IInvOneObject, PTL

(* An accessor, which may take no lock, returns an object whose            *)
(* constructor has ended before the fence, and that nobody has destroyed.  *)
THEOREM AlwaysCompleteWhenUsed == Init /\ [][Next]_vars => []CompleteWhenUsed
<1> QED
  BY Invariant, IInvComplete, PTL

(* Between calls StaticList holds exactly the statics that have an object, *)
(* and every object that lives is the one its static points to.            *)
THEOREM ListAlwaysFaithful == Init /\ [][Next]_vars => []ListFaithful
<1> QED
  BY Invariant, IInvList, PTL

(* When llvm_shutdown ends, no object is left, even if deleters used       *)
(* statics that were destroyed before.                                     *)
THEOREM ShutdownLeavesNothing == Init /\ [][Next]_vars => NothingLeft
<1>1. IInv /\ [Next]_vars => [shutdown /\ ~shutdown' => \A o \in Objects : ~Alive(o)]_vars
  <2> SUFFICES ASSUME IInv, Next, shutdown, ~shutdown'
               PROVE  \A o \in Objects : ~Alive(o)
    OBVIOUS
  <2>1. ShutdownEnds
    BY DEF Next, Step, ReadPtr, Register, CheckAgain, Create, Construct, Publish, Link, Unlock, Use, Delete,
       Access, StartMultithreaded, Shutdown, Destroy
  <2>2. (\A t \in Threads : Depth[t] = 0) /\ staticList = <<>>
    BY <2>1, AllIdle DEF ShutdownEnds
  <2>3. \A s \in Statics : ptr[s] = 0
    BY <2>2 DEF IInv, PointersAccounted, InList
  <2> QED
    BY <2>2, <2>3, ObjectTypes DEF IInv, ObjectsAccounted, Objects, Alive
<1> QED
  BY <1>1, Invariant, PTL DEF NothingLeft

-----------------------------------------------------------------------------
(* The order of destruction *)

(* The statics that may be created again while the deleter of s runs:      *)
(* what it uses, and what the creators of those use.                       *)
Reaches(s, R) ==
  /\ \A m \in 1..Len(DeleterUses[s]) : DeleterUses[s][m] \in R
  /\ \A r \in R : \A m \in 1..Len(CreatorUses[r]) : CreatorUses[r][m] \in R \ {s}

(* No deleter uses, directly or not, a static whose creator uses the one   *)
(* that is being deleted.                                                  *)
DeletersApart == \A s \in Statics : \E R \in SUBSET Statics : Reaches(s, R)

Reborn(s) == CHOOSE R \in SUBSET Statics : Reaches(s, R)

(* What the creator or the deleter that runs in a call uses.               *)
UsedBy(f) ==
  {s \in Statics :
     \/ f.at = "construct" /\ \E m \in 1..Len(CreatorUses[f.of]) : s = CreatorUses[f.of][m]
     \/ f.at = "delete" /\ \E m \in 1..Len(DeleterUses[f.of]) : s = DeleterUses[f.of][m]}

TodoOK(f) == f.at \in {"construct", "delete"} => \A m \in 1..Len(f.todo) : f.todo[m] \in UsedBy(f)

(* Calls are nested as the creators and deleters use one another.          *)
Nested(t, k, l) ==
  /\ k = l + 1 => stack[t][l].of \in UsedBy(stack[t][k])
  /\ stack[t][k].at = "delete" => stack[t][l].of \in Reborn(stack[t][k].of)

NestedOK ==
  \A t \in Threads : \A k \in 1..Depth[t] :
    /\ TodoOK(stack[t][k])
    /\ \A l \in 1..Depth[t] : l < k => Nested(t, k, l)

(* The list holds the static of object q, behind its first k elements.     *)
ListedAfter(k, q) == \E l \in 1..Len(staticList) : l > k /\ ptr[staticList[l]] = q

(* What the creator of an object used is in the list, and behind it.       *)
UsesFollow ==
  \A o \in 1..Len(objects) : objects[o].life # "dead" =>
    \A q \in objects[o].uses :
      /\ ListedAfter(0, q)
      /\ \A k \in 1..Len(staticList) : ptr[staticList[k]] = o => ListedAfter(k, q)

OrderInv == NestedOK /\ UsesFollow

LEMMA RebornIs ==
  ASSUME DeletersApart, NEW s \in Statics
  PROVE  /\ Reborn(s) \subseteq Statics
         /\ \A m \in 1..Len(DeleterUses[s]) : DeleterUses[s][m] \in Reborn(s)
         /\ \A r \in Reborn(s) : \A m \in 1..Len(CreatorUses[r]) :
              CreatorUses[r][m] \in Reborn(s) /\ CreatorUses[r][m] # s
<1>1. \E R \in SUBSET Statics : Reaches(s, R)
  BY DEF DeletersApart
<1>2. Reborn(s) \in SUBSET Statics /\ Reaches(s, Reborn(s))
  BY <1>1 DEF Reborn
<1> QED
  BY <1>2 DEF Reaches

LEMMA ListFacts ==
  ASSUME IInv
  PROVE  /\ Len(staticList) \in Nat
         /\ \A k \in 1..Len(staticList) :
              /\ staticList[k] \in Statics /\ staticList[k] \in InList
              /\ ptr[staticList[k]] \in 1..Len(objects)
              /\ objects[ptr[staticList[k]]].of = staticList[k]
              /\ objects[ptr[staticList[k]]].life = "built"
<1>1. staticList \in Seq(Statics)
  BY DEF IInv, Typed
<1>2. \A k \in 1..Len(staticList) : staticList[k] \in Statics
  BY <1>1, ElementOfSeq
<1> QED
  BY <1>1, <1>2 DEF IInv, PointersOK, ListOK, InList

(* How the nesting changes with the innermost call.                        *)

LEMMA NestedSame ==
  ASSUME NestedOK, NEW u \in Threads, stack'[u] = stack[u], Depth'[u] = Depth[u],
         NEW k \in 1..Depth'[u]
  PROVE  TodoOK(stack'[u][k]) /\ \A l \in 1..Depth'[u] : l < k => Nested(u, k, l)'
<1>1. k \in 1..Depth[u] /\ stack'[u][k] = stack[u][k]
  OBVIOUS
<1>2. TodoOK(stack[u][k]) /\ \A l \in 1..Depth[u] : l < k => Nested(u, k, l)
  BY <1>1 DEF NestedOK
<1>3. ASSUME NEW l \in 1..Depth[u], l < k PROVE Nested(u, k, l)'
  <2>1. Nested(u, k, l) /\ stack'[u][l] = stack[u][l]
    BY <1>2, <1>3
  <2> QED
    BY <1>1, <2>1 DEF Nested, UsedBy
<1> QED
  BY <1>1, <1>2, <1>3

LEMMA NestedMoves ==
  ASSUME IInv, NestedOK, NEW t \in Threads, Moves(t), TodoOK(stack'[t][1])
  PROVE  NestedOK'
<1> SUFFICES ASSUME NEW u \in Threads, NEW k \in 1..Depth'[u]
             PROVE  TodoOK(stack'[u][k]) /\ \A l \in 1..Depth'[u] : l < k => Nested(u, k, l)'
  BY DEF NestedOK, TodoOK, UsedBy
<1>1. Depth[u] \in Nat /\ Depth'[u] = Depth[u] /\ k \in 1..Depth[u]
  BY FrameTypes DEF IInv, Moves, OthersStay
<1>2. TodoOK(stack'[u][k])
  BY <1>1 DEF NestedOK, Moves, OthersStay
<1>3. ASSUME NEW l \in 1..Depth'[u], l < k PROVE Nested(u, k, l)'
  <2>1. k # 1 /\ Nested(u, k, l)
    BY <1>1, <1>3 DEF NestedOK
  <2>2. stack'[u][k] = stack[u][k] /\ stack'[u][l].of = stack[u][l].of
    BY <1>1, <1>3, <2>1 DEF Moves, OthersStay
  <2> QED
    BY <2>1, <2>2 DEF Nested, UsedBy
<1> QED
  BY <1>2, <1>3

LEMMA NestedPush ==
  ASSUME DeletersApart, IInv, NestedOK, NEW t \in Threads, Pushed(t),
         stack[t][1].at \in {"construct", "delete"}, stack[t][1].todo # <<>>
  PROVE  NestedOK'
<1> DEFINE f == stack[t][1]
           g == [f EXCEPT !.todo = Tail(@)]
           s == f.todo[1]
<1>1. /\ \A u \in Threads : Depth[u] \in Nat
      /\ 1 \in 1..Depth[t] /\ f \in Frame /\ f.todo \in Seq(Statics) /\ f.of \in Statics
      /\ TodoOK(f)
  BY FrameTypes DEF Pushed, IInv, NestedOK
<1>2. /\ \A u \in Threads \ {t} : stack'[u] = stack[u] /\ Depth'[u] = Depth[u]
      /\ Depth'[t] = Depth[t] + 1 /\ stack'[t][1] = Call(s) /\ stack'[t][2] = g
      /\ \A k \in 2..Depth[t] : stack'[t][k + 1] = stack[t][k]
  BY DEF Pushed, OthersKept, Depth
<1>3. s \in UsedBy(f) /\ \A m \in 1..Len(Tail(f.todo)) : Tail(f.todo)[m] \in UsedBy(f)
  <2>1. /\ Len(f.todo) \in Nat /\ 1 \in 1..Len(f.todo) /\ Len(Tail(f.todo)) = Len(f.todo) - 1
        /\ \A m \in 1..Len(Tail(f.todo)) : Tail(f.todo)[m] = f.todo[m + 1]
    BY <1>1, HeadTailProperties
  <2>2. \A m \in 1..Len(Tail(f.todo)) : m + 1 \in 1..Len(f.todo)
    BY <2>1
  <2>3. \A m \in 1..Len(f.todo) : f.todo[m] \in UsedBy(f)
    BY <1>1 DEF TodoOK
  <2> QED
    BY <2>1, <2>2, <2>3
<1>4. g.at = f.at /\ g.of = f.of /\ g.todo = Tail(f.todo)
  BY <1>1 DEF Frame
<1>5. Call(s).at = "read" /\ Call(s).of = s
  BY DEF Call
<1> HIDE DEF f, g, s
<1>6. TodoOK(Call(s)) /\ TodoOK(g)
  BY <1>3, <1>4, <1>5 DEF TodoOK, UsedBy
<1>7. \A k \in 1..Depth[t] :
        /\ k + 1 \in 1..Depth'[t]
        /\ stack'[t][k + 1].at = stack[t][k].at /\ stack'[t][k + 1].of = stack[t][k].of
        /\ TodoOK(stack'[t][k + 1])
  <2> TAKE k \in 1..Depth[t]
  <2>1. CASE k = 1
    BY <1>1, <1>2, <1>4, <1>6, <2>1 DEF f
  <2>2. CASE k # 1
    <3>1. k \in 2..Depth[t] /\ k + 1 \in 1..Depth'[t]
      BY <1>1, <1>2, <2>2
    <3>2. stack'[t][k + 1] = stack[t][k] /\ TodoOK(stack[t][k])
      BY <1>2, <3>1 DEF NestedOK
    <3> QED
      BY <3>1, <3>2
  <2> QED
    BY <2>1, <2>2
<1>8. ASSUME NEW j \in 1..Depth'[t], j # 1 PROVE \E k \in 1..Depth[t] : j = k + 1
  <2>1. j - 1 \in 1..Depth[t] /\ j = (j - 1) + 1
    BY <1>1, <1>2, <1>8
  <2> QED
    BY <2>1
<1>9. ASSUME NEW j \in 1..Depth'[t] PROVE TodoOK(stack'[t][j])
  BY <1>2, <1>6, <1>7, <1>8
<1>10. ASSUME NEW k \in 1..Depth[t] PROVE Nested(t, k + 1, 1)'
  <2>1. CASE k = 1
    <3>1. s \in UsedBy(stack[t][1])
      BY <1>3 DEF f
    <3>2. s \in UsedBy(stack'[t][2])
      BY <1>1, <1>2, <1>4, <3>1 DEF UsedBy, f
    <3>3. f.at = "delete" => s \in Reborn(f.of)
      BY <1>1, <1>3, RebornIs DEF UsedBy
    <3> QED
      BY <1>2, <1>4, <1>5, <2>1, <3>2, <3>3 DEF Nested
  <2>2. CASE k # 1
    <3>1. k + 1 # 1 + 1 /\ 1 < k
      BY <1>1, <2>2
    <3>2. stack[t][k].at = "delete" => f.of \in Reborn(stack[t][k].of)
      BY <1>1, <3>1 DEF NestedOK, Nested, f
    <3>3. stack[t][k].at = "delete" => stack[t][1].at # "delete"
      BY <1>1, <2>2 DEF IInv, Shape
    <3>4. stack[t][k].at = "delete" => s \in Reborn(stack[t][k].of)
      <4> SUFFICES ASSUME stack[t][k].at = "delete" PROVE s \in Reborn(stack[t][k].of)
        OBVIOUS
      <4>1. f.at = "construct" /\ f.of \in Reborn(stack[t][k].of) /\ stack[t][k].of \in Statics
        BY <1>1, <3>2, <3>3, FrameTypes DEF f, IInv
      <4>2. \E m \in 1..Len(CreatorUses[f.of]) : s = CreatorUses[f.of][m]
        BY <1>3, <4>1 DEF UsedBy
      <4> QED
        BY <4>1, <4>2, RebornIs
    <3> QED
      BY <1>2, <1>5, <1>7, <3>1, <3>4 DEF Nested
  <2> QED
    BY <2>1, <2>2
<1>11. ASSUME NEW k \in 1..Depth[t], NEW l \in 1..Depth[t], l < k
       PROVE  Nested(t, k + 1, l + 1)'
  <2>1. Nested(t, k, l)
    BY <1>11 DEF NestedOK
  <2>2. k + 1 = (l + 1) + 1 => k = l + 1
    BY <1>1
  <2> QED
    BY <1>7, <2>1, <2>2 DEF Nested, UsedBy
<1>12. ASSUME NEW j \in 1..Depth'[t], NEW i \in 1..Depth'[t], i < j PROVE Nested(t, j, i)'
  <2>1. j # 1
    BY <1>1, <1>2, <1>12
  <2>2. PICK k \in 1..Depth[t] : j = k + 1
    BY <1>8, <2>1
  <2>3. CASE i = 1
    BY <1>10, <2>2, <2>3
  <2>4. CASE i # 1
    <3>1. PICK l \in 1..Depth[t] : i = l + 1
      BY <1>8, <2>4
    <3>2. l < k
      BY <1>1, <1>12, <2>2, <3>1
    <3> QED
      BY <1>11, <2>2, <3>1, <3>2
  <2> QED
    BY <2>3, <2>4
<1>13. ASSUME NEW u \in Threads \ {t}, NEW k \in 1..Depth'[u]
       PROVE  TodoOK(stack'[u][k]) /\ \A l \in 1..Depth'[u] : l < k => Nested(u, k, l)'
  BY <1>2, NestedSame
<1>14. ASSUME NEW u \in Threads, NEW k \in 1..Depth'[u]
       PROVE  TodoOK(stack'[u][k]) /\ \A l \in 1..Depth'[u] : l < k => Nested(u, k, l)'
  BY <1>9, <1>12, <1>13
<1> QED
  BY <1>14 DEF NestedOK, TodoOK, UsedBy

LEMMA NestedPop ==
  ASSUME IInv, NestedOK, NEW t \in Threads, Popped(t)
  PROVE  NestedOK'
<1>1. /\ \A u \in Threads : Depth[u] \in Nat
      /\ \A u \in Threads \ {t} : stack'[u] = stack[u] /\ Depth'[u] = Depth[u]
      /\ Depth'[t] = Depth[t] - 1
      /\ \A k \in 1..Depth'[t] : k + 1 \in 1..Depth[t] /\ stack'[t][k] = stack[t][k + 1]
  BY FrameTypes DEF Popped, OthersKept, Depth, IInv
<1>2. ASSUME NEW k \in 1..Depth'[t] PROVE TodoOK(stack'[t][k])
  BY <1>1 DEF NestedOK
<1>3. ASSUME NEW k \in 1..Depth'[t], NEW l \in 1..Depth'[t], l < k PROVE Nested(t, k, l)'
  <2>1. k + 1 \in 1..Depth[t] /\ l + 1 \in 1..Depth[t] /\ l + 1 < k + 1
    BY <1>1, <1>3
  <2>2. Nested(t, k + 1, l + 1)
    BY <2>1 DEF NestedOK
  <2>3. k = l + 1 => k + 1 = (l + 1) + 1
    BY <2>1
  <2>4. stack'[t][k] = stack[t][k + 1] /\ stack'[t][l] = stack[t][l + 1]
    BY <1>1
  <2> QED
    BY <2>2, <2>3, <2>4 DEF Nested, UsedBy
<1>4. ASSUME NEW u \in Threads \ {t}, NEW k \in 1..Depth'[u]
      PROVE  TodoOK(stack'[u][k]) /\ \A l \in 1..Depth'[u] : l < k => Nested(u, k, l)'
  BY <1>1, NestedSame
<1>5. ASSUME NEW u \in Threads, NEW k \in 1..Depth'[u]
      PROVE  TodoOK(stack'[u][k]) /\ \A l \in 1..Depth'[u] : l < k => Nested(u, k, l)'
  BY <1>2, <1>3, <1>4
<1> QED
  BY <1>5 DEF NestedOK, TodoOK, UsedBy

LEMMA NestedStart ==
  ASSUME IInv, NestedOK, NEW t \in Threads, NEW f, Started(t, f), TodoOK(f)
  PROVE  NestedOK'
<1>1. /\ \A u \in Threads \ {t} : stack'[u] = stack[u] /\ Depth'[u] = Depth[u]
      /\ Depth'[t] = 1 /\ stack'[t][1] = f
  BY DEF Started, OthersKept, Depth
<1>2. ASSUME NEW k \in 1..Depth'[t] PROVE TodoOK(stack'[t][k]) /\ \A l \in 1..Depth'[t] : ~(l < k)
  BY <1>1
<1>3. ASSUME NEW u \in Threads \ {t}, NEW k \in 1..Depth'[u]
      PROVE  TodoOK(stack'[u][k]) /\ \A l \in 1..Depth'[u] : l < k => Nested(u, k, l)'
  BY <1>1, NestedSame
<1>4. ASSUME NEW u \in Threads, NEW k \in 1..Depth'[u]
      PROVE  TodoOK(stack'[u][k]) /\ \A l \in 1..Depth'[u] : l < k => Nested(u, k, l)'
  BY <1>2, <1>3
<1> QED
  BY <1>4 DEF NestedOK, TodoOK, UsedBy

(* What the list holds changes only when a static is linked or unlinked.   *)

LEMMA UsesKept ==
  ASSUME IInv, UsesFollow, UNCHANGED staticList,
         \A k \in 1..Len(staticList) : ptr'[staticList[k]] = ptr[staticList[k]],
         \A o \in 1..Len(objects') : objects'[o].life # "dead" =>
           \/ objects'[o].uses = {}
           \/ /\ o \in 1..Len(objects) /\ objects[o].life # "dead"
              /\ objects'[o].uses = objects[o].uses
  PROVE  UsesFollow'
<1>1. \A k, q : ListedAfter(k, q) => ListedAfter(k, q)'
  BY DEF ListedAfter
<1> SUFFICES ASSUME NEW o \in 1..Len(objects'), objects'[o].life # "dead",
                    NEW q \in objects'[o].uses
             PROVE  /\ ListedAfter(0, q)'
                    /\ \A k \in 1..Len(staticList) :
                         ptr'[staticList[k]] = o => ListedAfter(k, q)'
  BY DEF UsesFollow
<1>2. o \in 1..Len(objects) /\ objects[o].life # "dead" /\ q \in objects[o].uses
  OBVIOUS
<1>3. /\ ListedAfter(0, q)
      /\ \A k \in 1..Len(staticList) : ptr[staticList[k]] = o => ListedAfter(k, q)
  BY <1>2 DEF UsesFollow
<1> QED
  BY <1>1, <1>3

LEMMA UsesStay ==
  ASSUME UsesFollow, UNCHANGED <<ptr, staticList, objects>>
  PROVE  UsesFollow'
<1> QED
  BY DEF UsesFollow, ListedAfter

(* A call that does not create, link or delete.                            *)
LEMMA MoveOrder ==
  ASSUME IInv, OrderInv, NEW t \in Threads, ~Idle(t), NEW place \in Places, Goto(t, place),
         place \notin {"construct", "delete"}, UNCHANGED <<ptr, staticList, objects>>
  PROVE  OrderInv'
<1>1. Moves(t) /\ stack'[t][1].at = place
  BY GotoIs
<1>2. TodoOK(stack'[t][1])
  BY <1>1 DEF TodoOK
<1> QED
  BY <1>1, <1>2, NestedMoves, UsesStay DEF OrderInv

LEMMA CallOrder ==
  ASSUME DeletersApart, IInv, OrderInv, NEW t \in Threads, ~Idle(t), CallNext(t),
         stack[t][1].at \in {"construct", "delete"}, Head(stack[t]).todo # <<>>,
         UNCHANGED <<ptr, staticList, objects>>
  PROVE  OrderInv'
<1>1. Pushed(t) /\ stack[t][1].todo # <<>>
  BY CallStep, TopOK DEF IInv
<1> QED
  BY <1>1, NestedPush, UsesStay DEF OrderInv

LEMMA CreateOrder ==
  ASSUME IInv, OrderInv, NEW t \in Threads, Create(t)
  PROVE  OrderInv'
<1> DEFINE f == stack[t][1]
           g == [f EXCEPT !.at = "construct", !.obj = Len(objects) + 1, !.todo = CreatorUses[f.of]]
           new == [of |-> f.of, maker |-> t, life |-> "raw", uses |-> {}]
<1>1. /\ ~Idle(t) /\ Head(stack[t]) = f /\ f \in Frame /\ f.of \in Statics
      /\ stack' = [stack EXCEPT ![t] = [@ EXCEPT ![1] = g]]
      /\ objects' = Append(objects, new) /\ UNCHANGED <<ptr, staticList>>
  BY TopOK DEF Create, At
<1>2. objects \in Seq(Object) /\ Len(objects) \in Nat /\ CreatorUses[f.of] \in Seq(Statics)
  BY <1>1, ManagedStaticAssumption DEF IInv, Typed
<1> DEFINE uses == CreatorUses[f.of]
           n == Len(objects) + 1
<1>3. uses \in Seq(Statics) /\ n \in Nat
  BY <1>2
<1> HIDE DEF uses, n, f
<1>4. /\ [f EXCEPT !.at = "construct", !.obj = n, !.todo = uses] \in Frame
      /\ [f EXCEPT !.at = "construct", !.obj = n, !.todo = uses].at = "construct"
      /\ [f EXCEPT !.at = "construct", !.obj = n, !.todo = uses].of = f.of
      /\ [f EXCEPT !.at = "construct", !.obj = n, !.todo = uses].todo = uses
  BY <1>1, <1>3 DEF Frame, Places
<1>5. g \in Frame /\ g.at = "construct" /\ g.of = f.of /\ g.todo = CreatorUses[f.of]
  BY <1>4 DEF uses, n
<1> HIDE DEF g
<1>6. TopChanged(t, g)
  BY <1>1, <1>5, TopStep DEF IInv
<1>7. Moves(t) /\ stack'[t][1] = g
  BY <1>1, <1>5, <1>6, TopStays DEF TopChanged, Moves, IInv, f
<1>8. TodoOK(g)
  <2>1. \A m \in 1..Len(CreatorUses[f.of]) : CreatorUses[f.of][m] \in Statics
    BY <1>2, ElementOfSeq
  <2> QED
    BY <1>5, <2>1 DEF TodoOK, UsedBy
<1>9. /\ Len(objects') = Len(objects) + 1
      /\ \A o \in 1..Len(objects) : objects'[o] = objects[o]
      /\ objects'[Len(objects) + 1] = new
  BY <1>1, <1>2, AppendProperties
<1>10. \A o \in 1..Len(objects') : o \in 1..Len(objects) \/ o = Len(objects) + 1
  BY <1>2, <1>9
<1>11. UsesFollow'
  BY <1>1, <1>9, <1>10, UsesKept DEF OrderInv
<1> QED
  BY <1>7, <1>8, <1>11, NestedMoves DEF OrderInv

(* The constructor has nothing left to use: the object is built.           *)
LEMMA BuiltOrder ==
  ASSUME IInv, OrderInv, NEW t \in Threads, Construct(t), Head(stack[t]).todo = <<>>
  PROVE  OrderInv'
<1> DEFINE f == stack[t][1]
           g == [objects[f.obj] EXCEPT !.life = "built"]
<1>1. /\ ~Idle(t) /\ Head(stack[t]) = f /\ f.at = "construct" /\ FrameOK(f)
      /\ Goto(t, "publish") /\ objects' = [objects EXCEPT ![f.obj].life = "built"]
      /\ UNCHANGED <<ptr, staticList>>
  BY TopOK DEF Construct, At
<1>2. /\ objects \in Seq(Object) /\ f.obj \in 1..Len(objects) /\ objects[f.obj] \in Object
      /\ objects[f.obj].life = "raw"
  BY <1>1, ObjectTypes DEF IInv, Typed, FrameOK
<1>3. g \in Object /\ g.uses = objects[f.obj].uses
  BY <1>2 DEF Object
<1>4. objects' = [objects EXCEPT ![f.obj] = g]
  BY <1>1, <1>2
<1> HIDE DEF f, g
<1>5. /\ Len(objects') = Len(objects)
      /\ \A o \in 1..Len(objects) : objects'[o] = IF o = f.obj THEN g ELSE objects[o]
  BY <1>2, <1>3, <1>4, ExceptSeq
<1>6. UsesFollow'
  BY <1>1, <1>2, <1>3, <1>5, UsesKept DEF OrderInv
<1>7. Moves(t) /\ stack'[t][1].at = "publish"
  BY <1>1, GotoIs DEF Places
<1>8. TodoOK(stack'[t][1])
  BY <1>7 DEF TodoOK
<1> QED
  BY <1>6, <1>7, <1>8, NestedMoves DEF OrderInv

LEMMA PublishOrder ==
  ASSUME IInv, OrderInv, NEW t \in Threads, Publish(t)
  PROVE  OrderInv'
<1> DEFINE f == stack[t][1]
<1>1. /\ ~Idle(t) /\ Head(stack[t]) = f /\ f.at = "publish" /\ FrameOK(f) /\ f.of \in Statics
      /\ Goto(t, "link") /\ ptr' = [ptr EXCEPT ![f.of] = f.obj]
      /\ UNCHANGED <<objects, staticList>>
  BY TopOK DEF Publish, At
<1>2. ptr[f.of] = 0 /\ ptr \in [Statics -> Nat]
  BY <1>1 DEF FrameOK, IInv, Typed
<1>3. \A k \in 1..Len(staticList) : staticList[k] \in Statics /\ ptr[staticList[k]] # 0
  BY ListFacts DEF IInv, ListOK
<1>4. \A k \in 1..Len(staticList) : ptr'[staticList[k]] = ptr[staticList[k]]
  BY <1>1, <1>2, <1>3
<1>5. UsesFollow'
  BY <1>1, <1>4, UsesKept DEF OrderInv
<1>6. Moves(t) /\ stack'[t][1].at = "link"
  BY <1>1, GotoIs DEF Places
<1>7. TodoOK(stack'[t][1])
  BY <1>6 DEF TodoOK
<1> QED
  BY <1>5, <1>6, <1>7, NestedMoves DEF OrderInv

(* The new static stands before everything that its creator used.          *)
LEMMA LinkOrder ==
  ASSUME IInv, OrderInv, NEW t \in Threads, Link(t)
  PROVE  OrderInv'
<1> DEFINE f == stack[t][1]
           place == IF multithreaded_mode THEN "unlock" ELSE "use"
<1>1. /\ ~Idle(t) /\ Head(stack[t]) = f /\ f.of \in Statics /\ Goto(t, place)
      /\ staticList' = <<f.of>> \o staticList /\ UNCHANGED <<ptr, objects>>
  BY TopOK DEF Link, At
<1>2. place \in Places /\ place \notin {"construct", "delete"}
  BY DEF Places
<1>3. Moves(t) /\ stack'[t][1].at = place
  BY <1>1, <1>2, GotoIs
<1> HIDE DEF f, place
<1>4. TodoOK(stack'[t][1])
  BY <1>2, <1>3 DEF TodoOK
<1>5. staticList \in Seq(Statics) /\ Len(staticList) \in Nat
  BY DEF IInv, Typed
<1>6. /\ Len(staticList') = Len(staticList) + 1
      /\ \A l \in 1..Len(staticList) : staticList'[l + 1] = staticList[l]
  <2>1. /\ <<f.of>> \in Seq(Statics) /\ Len(<<f.of>>) = 1 /\ <<f.of>>[1] = f.of
    BY <1>1
  <2>2. /\ Len(staticList') = 1 + Len(staticList)
        /\ \A k \in 1..(1 + Len(staticList)) : staticList'[k] =
             IF k <= 1 THEN <<f.of>>[k] ELSE staticList[k - 1]
    BY <1>1, <1>5, <2>1, ConcatProperties
  <2>3. \A l \in 1..Len(staticList) :
          l + 1 \in 1..(1 + Len(staticList)) /\ ~(l + 1 <= 1) /\ (l + 1) - 1 = l
    BY <1>5
  <2> QED
    BY <1>5, <2>2, <2>3
<1>7. ASSUME NEW k \in Nat, NEW q, ListedAfter(k, q) PROVE ListedAfter(k + 1, q)'
  <2>1. PICK l \in 1..Len(staticList) : l > k /\ ptr[staticList[l]] = q
    BY <1>7 DEF ListedAfter
  <2>2. l + 1 \in 1..Len(staticList') /\ l + 1 > k + 1
    BY <1>5, <1>6, <2>1
  <2>3. ptr'[staticList'[l + 1]] = q
    BY <1>1, <1>6, <2>1
  <2> QED
    BY <2>2, <2>3 DEF ListedAfter
<1>8. ASSUME NEW q, ListedAfter(1, q)' PROVE ListedAfter(0, q)'
  BY <1>5, <1>6, <1>8 DEF ListedAfter
<1>9. ASSUME NEW o \in 1..Len(objects), objects[o].life # "dead", NEW q \in objects[o].uses
      PROVE  /\ ListedAfter(0, q)'
             /\ \A j \in 1..Len(staticList') : ptr'[staticList'[j]] = o => ListedAfter(j, q)'
  <2>1. /\ ListedAfter(0, q)
        /\ \A k \in 1..Len(staticList) : ptr[staticList[k]] = o => ListedAfter(k, q)
    BY <1>9 DEF OrderInv, UsesFollow
  <2>2. ListedAfter(1, q)'
    BY <1>7, <2>1
  <2>3. ASSUME NEW j \in 1..Len(staticList'), ptr'[staticList'[j]] = o, j # 1
        PROVE  ListedAfter(j, q)'
    <3>1. PICK k \in 1..Len(staticList) : j = k + 1
      <4>1. j - 1 \in 1..Len(staticList) /\ j = (j - 1) + 1
        BY <1>5, <1>6, <2>3
      <4> QED
        BY <4>1
    <3>2. ListedAfter(k, q) /\ k \in Nat
      BY <1>1, <1>5, <1>6, <2>1, <2>3, <3>1
    <3> QED
      BY <1>7, <3>1, <3>2
  <2> QED
    BY <1>8, <2>2, <2>3
<1>10. UsesFollow'
  BY <1>1, <1>9 DEF UsesFollow
<1> QED
  BY <1>3, <1>4, <1>10, NestedMoves DEF OrderInv

(* What a creator uses is in the list: nobody is about to link it, because *)
(* the creator's thread holds the lock, and nobody deletes it, because no  *)
(* deleter leads to a creator that uses what it deletes.                   *)
LEMMA UsedIsListed ==
  ASSUME DeletersApart, IInv, NestedOK, NEW t \in Threads, Depth[t] > 1,
         stack[t][1].at = "use", stack[t][2].at = "construct"
  PROVE  ListedAfter(0, ptr[stack[t][1].of])
<1> DEFINE s == stack[t][1].of
<1>1. /\ \A u \in Threads : Depth[u] \in Nat
      /\ 1 \in 1..Depth[t] /\ 2 \in 1..Depth[t] /\ s \in Statics
      /\ stack[t][2].of \in Statics
  BY FrameTypes DEF IInv
<1>2. ptr[s] # 0
  BY <1>1 DEF IInv, FramesOK, FrameOK
<1>3. s \in UsedBy(stack[t][2])
  BY <1>1 DEF NestedOK, Nested
<1>4. PICK m \in 1..Len(CreatorUses[stack[t][2].of]) : s = CreatorUses[stack[t][2].of][m]
  BY <1>3 DEF UsedBy
<1>5. ASSUME NEW u \in Threads, NEW k \in 1..Depth[u], stack[u][k].at = "link" PROVE FALSE
  <2>1. u = t
    BY <1>1, <1>5, Exclusion DEF InLock
  <2>2. k = 1
    BY <1>1, <1>5 DEF IInv, Shape
  <2> QED
    BY <1>5, <2>1, <2>2
<1>6. ASSUME NEW u \in Threads, NEW k \in 1..Depth[u], stack[u][k].at = "delete",
             stack[u][k].of = s
      PROVE  FALSE
  <2>1. shutdown /\ u = Main
    BY <1>6 DEF IInv, Shape
  <2>2. t = Main
    BY <1>1, <2>1, OnlyMain
  <2>3. k \in 1..Depth[t] /\ k # 1 /\ k # 2
    BY <1>6, <2>1, <2>2
  <2>4. 2 < k
    BY <1>1, <2>3
  <2>5. stack[t][2].of \in Reborn(s)
    BY <1>1, <1>6, <2>1, <2>2, <2>3, <2>4 DEF NestedOK, Nested
  <2> QED
    BY <1>1, <1>4, <2>5, RebornIs
<1>7. s \in InList
  BY <1>1, <1>2, <1>5, <1>6 DEF IInv, PointersAccounted
<1>8. PICK l \in 1..Len(staticList) : staticList[l] = s
  BY <1>7 DEF InList
<1> QED
  BY <1>8 DEF ListedAfter

LEMMA UseOrder ==
  ASSUME DeletersApart, IInv, OrderInv, NEW t \in Threads, Use(t)
  PROVE  OrderInv'
<1> DEFINE f == stack[t][1]
           caller == IF Len(stack[t]) > 1 THEN stack[t][2] ELSE f
           used == ptr[f.of]
           g == [objects[caller.obj] EXCEPT !.uses = @ \cup ({used} \ {0})]
<1>1. /\ ~Idle(t) /\ Head(stack[t]) = f /\ f.at = "use" /\ f.of \in Statics
      /\ Depth[t] \in Nat /\ Depth[t] = Len(stack[t]) /\ used \in Nat /\ objects \in Seq(Object)
      /\ Return(t)
  BY TopOK DEF Use, At, Depth, IInv, Typed
<1>2. objects' = IF caller.at = "construct"
                 THEN [objects EXCEPT ![caller.obj].uses = @ \cup ({used} \ {0})]
                 ELSE objects
  BY <1>1 DEF Use
<1>3. UNCHANGED <<ptr, staticList>>
  BY DEF Use
<1>4. NestedOK'
  BY <1>1, ReturnStep, NestedPop DEF OrderInv, IInv
<1>5. CASE caller.at # "construct"
  <2>1. objects' = objects
    BY <1>2, <1>5
  <2> QED
    BY <1>3, <1>4, <2>1, UsesStay DEF OrderInv
<1>6. CASE caller.at = "construct"
  <2>1. Depth[t] > 1 /\ caller = stack[t][2] /\ 2 \in 1..Depth[t]
    BY <1>1, <1>6
  <2>2. ListedAfter(0, used)
    BY <1>1, <1>6, <2>1, UsedIsListed DEF OrderInv
  <2>3. FrameOK(caller)
    BY <2>1 DEF IInv, FramesOK
  <2>4. /\ caller.obj \in 1..Len(objects) /\ objects[caller.obj].of = caller.of
        /\ ptr[caller.of] = 0 /\ objects[caller.obj].life = "raw"
    BY <1>6, <2>3 DEF FrameOK
  <2>5. objects[caller.obj] \in Object
    BY <2>4, ObjectTypes DEF IInv
  <2> HIDE DEF caller, used
  <2>6. g \in Object /\ g.uses = objects[caller.obj].uses \cup ({used} \ {0})
    BY <1>1, <2>5 DEF Object
  <2>7. objects' = [objects EXCEPT ![caller.obj] = g]
    BY <1>1, <1>2, <1>6, <2>4
  <2> HIDE DEF g
  <2>8. /\ Len(objects') = Len(objects)
        /\ \A o \in 1..Len(objects) : objects'[o] = IF o = caller.obj THEN g ELSE objects[o]
    BY <1>1, <2>4, <2>6, <2>7, ExceptSeq
  <2>9. \A k \in 1..Len(staticList) : ptr[staticList[k]] # caller.obj
    BY <2>4, ListFacts
  <2>10. \A k, q : ListedAfter(k, q) => ListedAfter(k, q)'
    BY <1>3 DEF ListedAfter
  <2>11. ASSUME NEW o \in 1..Len(objects), objects'[o].life # "dead", NEW q \in objects'[o].uses
         PROVE  /\ ListedAfter(0, q)
                /\ \A k \in 1..Len(staticList) : ptr[staticList[k]] = o => ListedAfter(k, q)
    <3>1. CASE o # caller.obj
      BY <2>8, <2>11, <3>1 DEF OrderInv, UsesFollow
    <3>2. CASE o = caller.obj
      <4>1. q \in objects[o].uses \/ q = used
        BY <2>6, <2>8, <2>11, <3>2
      <4>2. objects[o].life # "dead"
        BY <2>4, <3>2
      <4>3. q \in objects[o].uses => ListedAfter(0, q)
        BY <2>11, <4>2 DEF OrderInv, UsesFollow
      <4> QED
        BY <2>2, <2>9, <3>2, <4>1, <4>3
    <3> QED
      BY <3>1, <3>2
  <2>12. UsesFollow'
    BY <1>3, <2>8, <2>10, <2>11 DEF UsesFollow
  <2> QED
    BY <1>4, <2>12 DEF OrderInv
<1> QED
  BY <1>5, <1>6

(* The first static of the list is used by no object that lives.           *)
LEMMA DestroyOrder ==
  ASSUME IInv, OrderInv, Destroy
  PROVE  OrderInv'
<1> DEFINE s == staticList[1]
           f == [of |-> s, at |-> "delete", obj |-> ptr[s], todo |-> DeleterUses[s]]
<1>1. /\ shutdown /\ Idle(Main) /\ staticList # <<>> /\ Head(staticList) = s
      /\ stack' = [stack EXCEPT ![Main] = <<f>>] /\ staticList' = Tail(staticList)
      /\ Main \in Threads /\ UNCHANGED <<ptr, objects>>
  BY ManagedStaticAssumption DEF Destroy, IInv, Typed
<1>2. /\ staticList \in Seq(Statics) /\ Len(staticList) \in Nat /\ Len(staticList) > 0
      /\ s \in Statics /\ ptr[s] \in Nat /\ DeleterUses[s] \in Seq(Statics)
  BY <1>1, ManagedStaticAssumption DEF IInv, Typed
<1>3. /\ Len(staticList') = Len(staticList) - 1
      /\ \A k \in 1..Len(staticList') : staticList'[k] = staticList[k + 1]
  BY <1>1, <1>2, HeadTailProperties
<1>4. f \in Frame /\ f.of = s /\ f.at = "delete" /\ f.todo = DeleterUses[s]
  BY <1>2 DEF Frame, Places
<1>5. Started(Main, f)
  BY <1>1, <1>4, StartStep DEF IInv
<1>6. TodoOK(f)
  <2>1. \A m \in 1..Len(DeleterUses[s]) : DeleterUses[s][m] \in Statics
    BY <1>2, ElementOfSeq
  <2> QED
    BY <1>4, <2>1 DEF TodoOK, UsedBy
<1> HIDE DEF f, s
<1>7. NestedOK'
  BY <1>1, <1>5, <1>6, NestedStart DEF OrderInv
<1>8. ASSUME NEW j \in Nat, NEW q, ListedAfter(j + 1, q) PROVE ListedAfter(j, q)'
  <2>1. PICK l \in 1..Len(staticList) : l > j + 1 /\ ptr[staticList[l]] = q
    BY <1>8 DEF ListedAfter
  <2>2. PICK m \in Nat : m = l - 1
    BY <1>2, <2>1
  <2>3. m \in 1..Len(staticList') /\ m > j /\ m + 1 = l
    BY <1>2, <1>3, <2>1, <2>2
  <2>4. ptr'[staticList'[m]] = q
    BY <1>1, <1>3, <2>1, <2>3
  <2> QED
    BY <2>3, <2>4 DEF ListedAfter
<1>9. \A u \in Threads : Depth[u] = 0
  BY <1>1, AllIdle
<1>10. ASSUME NEW o \in 1..Len(objects), objects[o].life # "dead"
       PROVE  \E k \in 1..Len(staticList) : ptr[staticList[k]] = o
  <2>1. ptr[objects[o].of] = o /\ o # 0 /\ objects[o].of \in Statics
    BY <1>9, <1>10, ObjectTypes DEF IInv, ObjectsAccounted
  <2>2. objects[o].of \in InList
    BY <1>9, <2>1 DEF IInv, PointersAccounted
  <2> QED
    BY <2>1, <2>2 DEF InList
<1>11. ASSUME NEW o \in 1..Len(objects), objects[o].life # "dead", NEW q \in objects[o].uses
       PROVE  /\ ListedAfter(0, q)'
              /\ \A j \in 1..Len(staticList') : ptr'[staticList'[j]] = o => ListedAfter(j, q)'
  <2>1. \A k \in 1..Len(staticList) : ptr[staticList[k]] = o => ListedAfter(k, q)
    BY <1>11 DEF OrderInv, UsesFollow
  <2>2. PICK k \in 1..Len(staticList) : ptr[staticList[k]] = o
    BY <1>10, <1>11
  <2>3. PICK i \in Nat : k = i + 1
    <3>1. k - 1 \in Nat /\ k = (k - 1) + 1
      BY <1>2, <2>2
    <3> QED
      BY <3>1
  <2>4. ListedAfter(i, q)'
    BY <1>8, <2>1, <2>2, <2>3
  <2>5. ListedAfter(0, q)'
    BY <1>2, <1>3, <2>3, <2>4 DEF ListedAfter
  <2>6. ASSUME NEW j \in 1..Len(staticList'), ptr'[staticList'[j]] = o PROVE ListedAfter(j, q)'
    <3>1. j \in Nat /\ j + 1 \in 1..Len(staticList)
      BY <1>2, <1>3
    <3>2. ptr[staticList[j + 1]] = o
      BY <1>1, <1>3, <2>6
    <3> QED
      BY <1>8, <2>1, <3>1, <3>2
  <2> QED
    BY <2>5, <2>6
<1>12. UsesFollow'
  BY <1>1, <1>11 DEF UsesFollow
<1> QED
  BY <1>7, <1>12 DEF OrderInv

LEMMA DeletedOrder ==
  ASSUME IInv, OrderInv, NEW t \in Threads, Delete(t), Head(stack[t]).todo = <<>>
  PROVE  OrderInv'
<1> DEFINE f == stack[t][1]
           g == [objects[f.obj] EXCEPT !.life = "dead"]
<1>1. /\ ~Idle(t) /\ f.at = "delete" /\ FrameOK(f) /\ f.of \in Statics
      /\ Head(stack[t]) = f /\ Return(t)
      /\ objects' = [objects EXCEPT ![f.obj].life = "dead"]
      /\ ptr' = [ptr EXCEPT ![f.of] = 0] /\ UNCHANGED staticList
  BY TopOK DEF Delete, At
<1>2. NestedOK'
  BY <1>1, ReturnStep, NestedPop DEF OrderInv, IInv
<1> HIDE DEF f
<1>3. f.of \notin InList /\ f.obj \in 1..Len(objects)
  BY <1>1 DEF FrameOK, IInv, PointersOK
<1>4. objects \in Seq(Object) /\ ptr \in [Statics -> Nat] /\ objects[f.obj] \in Object
  BY <1>3, ObjectTypes DEF IInv, Typed
<1>5. g \in Object /\ g.life = "dead"
  BY <1>4 DEF Object
<1>6. objects' = [objects EXCEPT ![f.obj] = g]
  BY <1>1, <1>3, <1>4
<1> HIDE DEF g
<1>7. /\ Len(objects') = Len(objects)
      /\ \A o \in 1..Len(objects) : objects'[o] = IF o = f.obj THEN g ELSE objects[o]
  BY <1>3, <1>4, <1>5, <1>6, ExceptSeq
<1>8. \A k \in 1..Len(staticList) : ptr'[staticList[k]] = ptr[staticList[k]]
  BY <1>1, <1>3, <1>4, ListFacts
<1>9. UsesFollow'
  BY <1>1, <1>5, <1>7, <1>8, UsesKept DEF OrderInv
<1> QED
  BY <1>2, <1>9 DEF OrderInv

LEMMA AccessOrder ==
  ASSUME IInv, OrderInv, NEW t \in Threads, NEW s \in Statics, Access(t, s)
  PROVE  OrderInv'
<1>1. Idle(t) /\ stack' = [stack EXCEPT ![t] = <<Call(s)>>] /\ UNCHANGED <<ptr, staticList, objects>>
  BY DEF Access
<1>2. Call(s) \in Frame /\ Call(s).at = "read"
  BY EmptySeq DEF Call, Frame, Places
<1>3. Started(t, Call(s)) /\ TodoOK(Call(s))
  BY <1>1, <1>2, StartStep DEF IInv, TodoOK
<1> QED
  BY <1>1, <1>3, NestedStart, UsesStay DEF OrderInv

LEMMA StillOrder ==
  ASSUME OrderInv, UNCHANGED <<ptr, staticList, objects, stack>>
  PROVE  OrderInv'
<1>1. Depth' = Depth
  BY DEF Depth
<1>2. NestedOK'
  <2>1. \A u \in Threads : \A k \in 1..Depth[u] : \A l \in 1..Depth[u] :
          l < k => Nested(u, k, l)'
    BY DEF OrderInv, NestedOK, Nested
  <2>2. \A u \in Threads : \A k \in 1..Depth[u] : TodoOK(stack'[u][k])
    BY DEF OrderInv, NestedOK
  <2> QED
    BY <1>1, <2>1, <2>2 DEF NestedOK
<1> QED
  BY <1>2, UsesStay DEF OrderInv

LEMMA StepOrder ==
  ASSUME DeletersApart, IInv, OrderInv, NEW t \in Threads, Step(t)
  PROVE  OrderInv'
<1>1. CASE ReadPtr(t) \/ Register(t) \/ CheckAgain(t) \/ Unlock(t)
  <2>1. /\ ~Idle(t) /\ UNCHANGED <<ptr, staticList, objects>>
        /\ \E place \in {"register", "use", "check", "create", "unlock"} : Goto(t, place)
    BY <1>1 DEF ReadPtr, Register, CheckAgain, Unlock, At
  <2> QED
    BY <2>1, MoveOrder DEF Places
<1>2. CASE Construct(t) \/ Delete(t)
  <2>1. ~Idle(t) /\ Head(stack[t]) = stack[t][1] /\ stack[t][1].at \in {"construct", "delete"}
    BY <1>2, TopOK DEF Construct, Delete, At
  <2>2. CASE Head(stack[t]).todo = <<>>
    BY <1>2, <2>2, BuiltOrder, DeletedOrder
  <2>3. CASE Head(stack[t]).todo # <<>>
    <3>1. CallNext(t) /\ UNCHANGED <<ptr, staticList, objects>>
      BY <1>2, <2>3 DEF Construct, Delete
    <3> QED
      BY <2>1, <2>3, <3>1, CallOrder
  <2> QED
    BY <2>2, <2>3
<1> QED
  BY <1>1, <1>2, CreateOrder, PublishOrder, LinkOrder, UseOrder DEF Step

LEMMA NextOrder ==
  ASSUME DeletersApart, IInv, OrderInv, [Next]_vars
  PROVE  OrderInv'
<1>1. CASE StartMultithreaded \/ Shutdown \/ ShutdownEnds \/ UNCHANGED vars
  <2>1. UNCHANGED <<ptr, staticList, objects, stack>>
    BY <1>1 DEF StartMultithreaded, Shutdown, ShutdownEnds, vars
  <2> QED
    BY <2>1, StillOrder
<1> QED
  BY <1>1, StepOrder, AccessOrder, DestroyOrder DEF Next

LEMMA InitOrder == Init => OrderInv
<1> SUFFICES ASSUME Init PROVE OrderInv
  OBVIOUS
<1>1. \A t \in Threads : Depth[t] = 0
  BY DEF Init, Depth
<1>2. Len(objects) = 0
  BY DEF Init
<1> QED
  BY <1>1, <1>2 DEF OrderInv, NestedOK, UsesFollow

(* Objects are destroyed in the reverse order of their creation: whatever  *)
(* the creator of an object used lives as long as the object, also when    *)
(* deleters use statics and so have them created again (StaticList, which  *)
(* Link extends and destroy() shortens at its head).                       *)
THEOREM UsersDieFirst ==
  ASSUME DeletersApart
  PROVE  Init /\ [][Next]_vars => []UsedOutlivesUser
<1>1. IInv /\ OrderInv => UsedOutlivesUser
  <2> SUFFICES ASSUME IInv, UsesFollow, NEW o \in 1..Len(objects), objects[o].life # "dead",
                      NEW q \in objects[o].uses
               PROVE  objects[q].life # "dead"
    BY DEF UsedOutlivesUser, Alive, Objects, OrderInv
  <2>1. ListedAfter(0, q)
    BY DEF UsesFollow
  <2>2. PICK l \in 1..Len(staticList) : ptr[staticList[l]] = q
    BY <2>1 DEF ListedAfter
  <2> QED
    BY <2>2, ListFacts
<1>2. IInv /\ OrderInv /\ [Next]_vars => OrderInv'
  BY NextOrder
<1> QED
  BY <1>1, <1>2, InitOrder, Invariant, PTL

-----------------------------------------------------------------------------
(***************************************************************************)
(* What Statistic guarantees for every number of threads and statistics.   *)
(* Its steps are steps of ManagedStatic or leave the statics alone, so     *)
(* that the theorems on ManagedStatic hold of the composition.             *)
(*                                                                         *)
(* The inductive invariant adds to the properties who owns the mutex: with *)
(* threads, the one that is between test and unlock; without, nobody, and  *)
(* then only the main thread has a job; while llvm_shutdown runs, none has.*)
(* What is printed needs PInv: Counted accounts for every statistic that   *)
(* was counted, and ListExists says that what was registered is in the     *)
(* list of a StatInfo that has not been destroyed.                         *)
(***************************************************************************)

Critical == {"test", "add", "set", "unlock"}

Job == [stat : Statistics, at : {"init", "lock"} \cup Critical] \cup {NoJob}

Owned ==
  /\ multithreaded_mode \in BOOLEAN /\ shutdown \in BOOLEAN
  /\ job \in [Threads -> Job]
  /\ mutex \in Threads \cup {None}
  /\ multithreaded_mode => \A t \in Threads : job[t].at \in Critical <=> mutex = t
  /\ ~multithreaded_mode => mutex = None /\ \A t \in Threads \ {Main} : job[t] = NoJob
  /\ shutdown => \A t \in Threads : job[t] = NoJob

Known == DOMAIN printed \cup {stats[k] : k \in 1..Len(stats)}

Registered ==
  /\ initialized \in [Statistics -> BOOLEAN]
  /\ stats \in Seq(Statistics)
  /\ \A k, l \in 1..Len(stats) : stats[k] = stats[l] => k = l
  /\ \A k \in 1..Len(stats) :
       initialized[stats[k]] \/ \E t \in Threads : job[t].at = "set" /\ job[t].stat = stats[k]
  /\ \A t \in Threads : job[t].at \in {"add", "set"} => ~initialized[job[t].stat]
  /\ enabled => \A t \in Threads : job[t].at = "set" => job[t].stat \in Known
  /\ enabled => \A s \in Statistics : initialized[s] => s \in Known

SInv == Owned /\ Registered

-----------------------------------------------------------------------------
(* The composition takes no step that ManagedStatic does not allow.        *)
LEMMA StatStepIsStaticStep == StatNext => [Next]_vars
<1> SUFFICES ASSUME StatNext PROVE [Next]_vars
  OBVIOUS
<1>1. ASSUME NEW t \in Threads, StatStep(t) PROVE [Next]_vars
  <2>1. StatLock \in Statics /\ StatInfo \in Statics
    BY StatisticAssumption
  <2> QED
    BY <1>1, <2>1 DEF StatStep, Initialize, LockStatistics, TestAgain, AddStatistic, SetInitialized,
       UnlockStatistics, StaticStep, PrintStatistics, Next, Step
<1>2. ASSUME NEW t \in Threads, NEW s \in Statistics, Count(t, s) PROVE [Next]_vars
  BY <1>2 DEF Count
<1>3. ASSUME NEW t \in Threads, NEW s \in Statics, UseStatic(t, s) PROVE [Next]_vars
  BY <1>3 DEF UseStatic, Next
<1>4. CASE Control
  BY <1>4 DEF Control, Next
<1> QED
  BY <1>1, <1>2, <1>3, <1>4 DEF StatNext

THEOREM StatisticUsesStatics == StatSpec => Init /\ [][Next]_vars
<1>1. [StatNext]_allVars => [Next]_vars
  BY StatStepIsStaticStep DEF allVars
<1> QED
  BY <1>1, PTL DEF StatSpec, StatInit

(* What is proved of the statics holds while threads count statistics: one *)
(* StatLock and one StatInfo ever exist at a time, complete when they are  *)
(* used, and llvm_shutdown leaves none.                                    *)
THEOREM StatisticStatics == StatSpec => []OneObject /\ []CompleteWhenUsed /\ NothingLeft
<1> QED
  BY StatisticUsesStatics, OneObjectEver, AlwaysCompleteWhenUsed, ShutdownLeavesNothing

-----------------------------------------------------------------------------
(* What the steps do to a job *)

LEMMA JobTypes ==
  ASSUME Owned, NEW t \in Threads
  PROVE  /\ job[t].at \in {"none", "init", "lock"} \cup Critical
         /\ job[t] = NoJob <=> job[t].at = "none"
         /\ job[t] # NoJob => job[t].stat \in Statistics
         /\ t # None
<1>1. job[t] \in Job
  BY DEF Owned
<1>2. NoJob.at = "none"
  BY DEF NoJob
<1>3. CASE job[t] = NoJob
  BY <1>2, <1>3, ManagedStaticAssumption
<1>4. CASE job[t] \in [stat : Statistics, at : {"init", "lock"} \cup Critical]
  BY <1>2, <1>4, ManagedStaticAssumption DEF Critical
<1> QED
  BY <1>1, <1>3, <1>4 DEF Job

JobNow(t, s, place) ==
  /\ job' \in [Threads -> Job]
  /\ job'[t].at = place /\ job'[t].stat = s
  /\ \A u \in Threads \ {t} : job'[u] = job[u]

LEMMA ThenStep ==
  ASSUME Owned, NEW t \in Threads, NEW place \in {"init", "lock"} \cup Critical,
         job[t] # NoJob, Then(t, place)
  PROVE  JobNow(t, job[t].stat, place)
<1>1. job[t] \in [stat : Statistics, at : {"init", "lock"} \cup Critical]
  BY DEF Owned, Job
<1>2. /\ [job[t] EXCEPT !.at = place] \in Job
      /\ [job[t] EXCEPT !.at = place].at = place
      /\ [job[t] EXCEPT !.at = place].stat = job[t].stat
  BY <1>1 DEF Job
<1>3. job' = [job EXCEPT ![t] = [job[t] EXCEPT !.at = place]]
  BY DEF Then
<1> QED
  BY <1>2, <1>3 DEF JobNow, Owned

LEMMA EndStep ==
  ASSUME Owned, NEW t \in Threads, job' = [job EXCEPT ![t] = NoJob]
  PROVE  JobNow(t, None, "none")
<1>1. NoJob \in Job /\ NoJob.at = "none" /\ NoJob.stat = None
  BY DEF Job, NoJob
<1> QED
  BY <1>1 DEF JobNow, Owned

-----------------------------------------------------------------------------
(* The owner of the mutex *)

LEMMA BusyMeans ==
  ASSUME Owned, NEW t \in Threads, job[t] # NoJob
  PROVE  ~shutdown /\ (multithreaded_mode \/ t = Main)
<1> QED
  BY DEF Owned

(* The job of a thread that is busy goes on, and the mutex with it.        *)
LEMMA JobOwned ==
  ASSUME Owned, NEW t \in Threads, NEW s, NEW place, job[t] # NoJob, JobNow(t, s, place),
         UNCHANGED <<multithreaded_mode, shutdown>>,
         \/ mutex' = mutex /\ (job[t].at \in Critical <=> place \in Critical)
         \/ /\ mutex \in {None, t} /\ mutex' = (IF multithreaded_mode THEN t ELSE None)
            /\ place \in Critical
         \/ job[t].at \in Critical /\ mutex' = None /\ place \notin Critical
  PROVE  Owned'
<1>1. ~shutdown /\ (multithreaded_mode \/ t = Main) /\ t # None
  BY BusyMeans, JobTypes
<1>2. job' \in [Threads -> Job] /\ job'[t].at = place /\ \A u \in Threads \ {t} : job'[u] = job[u]
  BY DEF JobNow
<1>3. mutex' \in Threads \cup {None}
  BY DEF Owned
<1>4. CASE multithreaded_mode
  <2>1. \A u \in Threads : u # None
    BY JobTypes
  <2>2. \A u \in Threads : job[u].at \in Critical <=> mutex = u
    BY <1>4 DEF Owned
  <2>3. \A u \in Threads : job'[u].at \in Critical <=> mutex' = u
    BY <1>1, <1>2, <1>4, <2>1, <2>2
  <2> QED
    BY <1>1, <1>2, <1>3, <1>4, <2>3 DEF Owned
<1>5. CASE ~multithreaded_mode
  <2>1. t = Main /\ mutex = None /\ mutex' = None /\ \A u \in Threads \ {Main} : job[u] = NoJob
    BY <1>1, <1>5 DEF Owned
  <2> QED
    BY <1>1, <1>2, <1>5, <2>1 DEF Owned
<1> QED
  BY <1>4, <1>5 DEF Owned

LEMMA NobodyOwns ==
  ASSUME Owned, \A t \in Threads : job[t] = NoJob
  PROVE  mutex = None
<1>1. \A t \in Threads : job[t].at \notin Critical
  BY DEF NoJob, Critical
<1> QED
  BY <1>1 DEF Owned

LEMMA StepOwned ==
  ASSUME Owned, NEW t \in Threads, StatStep(t)
  PROVE  Owned'
<1>1. CASE Initialize(t)
  <2>1. job[t] # NoJob /\ job[t].at = "init" /\ UNCHANGED <<multithreaded_mode, shutdown, mutex>>
    BY <1>1, JobTypes DEF Initialize, Doing, Access, vars
  <2>2. CASE job' = [job EXCEPT ![t] = NoJob]
    BY <2>1, <2>2, EndStep, JobOwned DEF Critical
  <2>3. CASE Then(t, "lock")
    BY <2>1, <2>3, ThenStep, JobOwned DEF Critical
  <2> QED
    BY <1>1, <2>2, <2>3 DEF Initialize
<1>2. CASE LockStatistics(t)
  <2>1. /\ job[t] # NoJob /\ UNCHANGED <<multithreaded_mode, shutdown>>
        /\ mutex \in {None, t} /\ mutex' = IF multithreaded_mode THEN t ELSE None
        /\ Then(t, "test")
    BY <1>2, JobTypes DEF LockStatistics, Doing, vars
  <2>2. JobNow(t, job[t].stat, "test")
    BY <2>1, ThenStep DEF Critical
  <2> QED
    BY <2>1, <2>2, JobOwned DEF Critical
<1>3. CASE TestAgain(t)
  <2>1. job[t] # NoJob /\ job[t].at = "test" /\ UNCHANGED <<multithreaded_mode, shutdown, mutex>>
    BY <1>3, JobTypes DEF TestAgain, Doing, Access, vars
  <2>2. \E place \in {"unlock", "add", "set"} : Then(t, place)
    BY <1>3 DEF TestAgain
  <2>3. PICK place \in {"unlock", "add", "set"} : Then(t, place)
    BY <2>2
  <2>4. JobNow(t, job[t].stat, place) /\ place \in Critical
    BY <2>1, <2>3, ThenStep DEF Critical
  <2> QED
    BY <2>1, <2>4, JobOwned DEF Critical
<1>4. CASE AddStatistic(t) \/ SetInitialized(t)
  <2>1. job[t] # NoJob /\ job[t].at \in {"add", "set"} /\ UNCHANGED <<multithreaded_mode, shutdown, mutex>>
    BY <1>4, JobTypes DEF AddStatistic, SetInitialized, Doing, vars
  <2>2. PICK place \in {"set", "unlock"} : Then(t, place)
    BY <1>4 DEF AddStatistic, SetInitialized
  <2>3. JobNow(t, job[t].stat, place) /\ place \in Critical
    BY <2>1, <2>2, ThenStep DEF Critical
  <2> QED
    BY <2>1, <2>3, JobOwned DEF Critical
<1>5. CASE UnlockStatistics(t)
  <2>1. /\ job[t] # NoJob /\ job[t].at = "unlock" /\ UNCHANGED <<multithreaded_mode, shutdown>>
        /\ mutex' = None /\ job' = [job EXCEPT ![t] = NoJob]
    BY <1>5, JobTypes DEF UnlockStatistics, Doing, vars
  <2> QED
    BY <2>1, EndStep, JobOwned DEF Critical
<1>6. CASE StaticStep(t)
  <2>1. UNCHANGED <<job, mutex, multithreaded_mode, shutdown>>
    BY <1>6 DEF StaticStep, statVars, PrintStatistics, ReadPtr, Register, CheckAgain, Create, Construct, Publish,
       Link, Unlock, Use, Delete
  <2> QED
    BY <2>1 DEF Owned
<1> QED
  BY <1>1, <1>2, <1>3, <1>4, <1>5, <1>6 DEF StatStep

LEMMA NextOwned == Owned /\ [StatNext]_allVars => Owned'
<1> SUFFICES ASSUME Owned, [StatNext]_allVars PROVE Owned'
  OBVIOUS
<1>1. ASSUME NEW t \in Threads, StatStep(t) PROVE Owned'
  BY <1>1, StepOwned
<1>2. ASSUME NEW t \in Threads, NEW s \in Statistics, Count(t, s) PROVE Owned'
  <2>1. /\ job[t] = NoJob /\ ~shutdown /\ (t = Main \/ multithreaded_mode)
        /\ job' = [job EXCEPT ![t] = [stat |-> s, at |-> "init"]]
        /\ UNCHANGED <<multithreaded_mode, shutdown, mutex>>
    BY <1>2 DEF Count, Busy, vars
  <2>2. [stat |-> s, at |-> "init"] \in Job /\ "init" \notin Critical /\ job[t].at \notin Critical
    BY <2>1 DEF Job, Critical, NoJob
  <2>3. job' \in [Threads -> Job] /\ job'[t].at = "init" /\ \A u \in Threads \ {t} : job'[u] = job[u]
    BY <2>1, <2>2 DEF Owned
  <2> QED
    BY <2>1, <2>2, <2>3 DEF Owned
<1>3. ASSUME NEW t \in Threads, NEW s \in Statics, UseStatic(t, s) PROVE Owned'
  BY <1>3 DEF UseStatic, Access, statVars, Owned
<1>4. CASE Control
  <2>1. UNCHANGED <<job, mutex>>
    BY <1>4 DEF Control, statVars
  <2>2. CASE StartMultithreaded /\ ~Busy(Main)
    <3>1. /\ \A t \in Threads : job[t] = NoJob
          /\ multithreaded_mode' = TRUE /\ shutdown' = shutdown
      BY <2>2 DEF StartMultithreaded, Busy, Owned
    <3>2. mutex = None /\ \A t \in Threads : t # None /\ job[t].at \notin Critical
      BY <3>1, NobodyOwns, JobTypes DEF Critical
    <3> QED
      BY <2>1, <3>1, <3>2 DEF Owned
  <2>3. CASE Shutdown /\ \A t \in Threads : ~Busy(t)
    BY <2>1, <2>3 DEF Shutdown, Busy, Owned
  <2>4. CASE Destroy
    BY <2>1, <2>4 DEF Destroy, Owned
  <2>5. CASE ShutdownEnds
    <3>1. \A t \in Threads : job[t] = NoJob
      BY <2>5 DEF ShutdownEnds, Owned
    <3>2. mutex = None
      BY <3>1, NobodyOwns
    <3> QED
      BY <2>1, <2>5, <3>1, <3>2 DEF ShutdownEnds, Owned
  <2> QED
    BY <1>4, <2>2, <2>3, <2>4, <2>5 DEF Control
<1>5. CASE UNCHANGED allVars
  BY <1>5 DEF allVars, vars, statVars, Owned
<1> QED
  BY <1>1, <1>2, <1>3, <1>4, <1>5 DEF StatNext

-----------------------------------------------------------------------------
(* The list of registered statistics *)

(* A thread that is between test and unlock is the only one.               *)
LEMMA CriticalAlone ==
  ASSUME Owned, NEW t \in Threads, NEW u \in Threads, job[t].at \in Critical, job[u].at \in Critical
  PROVE  t = u
<1>1. job[t] # NoJob /\ job[u] # NoJob
  BY JobTypes DEF Critical
<1> QED
  BY <1>1, BusyMeans DEF Owned

(* A step that does not touch the list, and takes a thread to a place from *)
(* which nothing follows.                                                  *)
LEMMA RegisteredStays ==
  ASSUME SInv, UNCHANGED <<initialized, stats, printed, enabled>>,
         NEW t \in Threads, NEW s, NEW place, JobNow(t, s, place),
         job[t].at # "set", place \notin {"add", "set"}
  PROVE  Registered'
<1>1. job'[t].at = place /\ job[t].at # "set" /\ \A u \in Threads \ {t} : job'[u] = job[u]
  BY DEF JobNow
<1> QED
  BY <1>1 DEF SInv, Registered, Known

LEMMA StepRegistered ==
  ASSUME SInv, NEW t \in Threads, StatStep(t)
  PROVE  Registered'
<1>0. Owned /\ Registered
  BY DEF SInv
<1>1. CASE Initialize(t)
  <2>1. job[t] # NoJob /\ job[t].at = "init" /\ UNCHANGED <<initialized, stats, printed, enabled>>
    BY <1>0, <1>1, JobTypes DEF Initialize, Doing
  <2>2. CASE job' = [job EXCEPT ![t] = NoJob]
    BY <1>0, <2>1, <2>2, EndStep, RegisteredStays
  <2>3. CASE Then(t, "lock")
    BY <1>0, <2>1, <2>3, ThenStep, RegisteredStays
  <2> QED
    BY <1>1, <2>2, <2>3 DEF Initialize
<1>2. CASE LockStatistics(t)
  <2>1. /\ job[t] # NoJob /\ job[t].at = "lock" /\ Then(t, "test")
        /\ UNCHANGED <<initialized, stats, printed, enabled>>
    BY <1>0, <1>2, JobTypes DEF LockStatistics, Doing
  <2>2. JobNow(t, job[t].stat, "test")
    BY <1>0, <2>1, ThenStep DEF Critical
  <2> QED
    BY <2>1, <2>2, RegisteredStays
<1>3. CASE TestAgain(t)
  <2>1. /\ job[t] # NoJob /\ job[t].at = "test" /\ job[t].stat \in Statistics
        /\ UNCHANGED <<initialized, stats, printed, enabled>>
    BY <1>0, <1>3, JobTypes DEF TestAgain, Doing
  <2>2. CASE initialized[job[t].stat]
    <3>1. Then(t, "unlock")
      BY <1>3, <2>2 DEF TestAgain
    <3>2. JobNow(t, job[t].stat, "unlock")
      BY <1>0, <2>1, <3>1, ThenStep DEF Critical
    <3> QED
      BY <2>1, <3>2, RegisteredStays
  <2>3. CASE ~initialized[job[t].stat]
    <3>1. PICK place \in {"add", "set"} : Then(t, place) /\ (place = "set" => ~enabled)
      BY <1>3, <2>3 DEF TestAgain
    <3>2. JobNow(t, job[t].stat, place)
      BY <1>0, <2>1, <3>1, ThenStep DEF Critical
    <3>3. /\ job'[t].at = place /\ job'[t].stat = job[t].stat
          /\ \A u \in Threads \ {t} : job'[u] = job[u]
      BY <3>2 DEF JobNow
    <3> QED
      BY <1>0, <2>1, <2>3, <3>1, <3>3 DEF Registered, Known
  <2> QED
    BY <2>2, <2>3
<1>4. CASE AddStatistic(t)
  <2> DEFINE s == job[t].stat
  <2>1. /\ job[t] # NoJob /\ job[t].at = "add" /\ s \in Statistics /\ Then(t, "set")
        /\ stats' = Append(stats, s) /\ UNCHANGED <<initialized, printed, enabled>>
    BY <1>0, <1>4, JobTypes DEF AddStatistic, Doing
  <2>2. JobNow(t, s, "set")
    BY <1>0, <2>1, ThenStep DEF Critical
  <2>3. job'[t].at = "set" /\ job'[t].stat = s /\ \A u \in Threads \ {t} : job'[u] = job[u]
    BY <2>2 DEF JobNow
  <2>4. ~initialized[s] /\ \A u \in Threads : job[u].at # "set"
    BY <1>0, <2>1, CriticalAlone DEF Critical, Registered
  <2>5. \A k \in 1..Len(stats) : stats[k] # s
    BY <1>0, <2>4 DEF Registered
  <2> HIDE DEF s
  <2>6. /\ stats' \in Seq(Statistics) /\ Len(stats') = Len(stats) + 1 /\ Len(stats) \in Nat
        /\ stats'[Len(stats) + 1] = s
        /\ \A k \in 1..Len(stats) : stats'[k] = stats[k] /\ k \in 1..Len(stats')
    BY <1>0, <2>1, AppendProperties DEF Registered
  <2>7. \A k, l \in 1..Len(stats') : stats'[k] = stats'[l] => k = l
    BY <1>0, <2>5, <2>6 DEF Registered
  <2>8. \A k \in 1..Len(stats') :
          initialized'[stats'[k]] \/ \E u \in Threads : job'[u].at = "set" /\ job'[u].stat = stats'[k]
    BY <1>0, <2>1, <2>3, <2>4, <2>6 DEF Registered
  <2>9. \A r \in Statistics : r \in Known => r \in Known'
    <3>1. \A k \in 1..Len(stats) : stats[k] \in Known'
      BY <2>6 DEF Known
    <3> QED
      BY <2>1, <3>1 DEF Known
  <2>10. s \in Known'
    <3>1. Len(stats) + 1 \in 1..Len(stats')
      BY <2>6
    <3> QED
      BY <2>6, <3>1 DEF Known
  <2>11. \A u \in Threads : job'[u].at \in {"add", "set"} => ~initialized'[job'[u].stat]
    BY <1>0, <2>1, <2>3, <2>4 DEF Registered
  <2>12. enabled' => \A u \in Threads : job'[u].at = "set" => job'[u].stat \in Known'
    BY <2>3, <2>4, <2>10
  <2>13. enabled' => \A r \in Statistics : initialized'[r] => r \in Known'
    BY <1>0, <2>1, <2>9 DEF Registered
  <2> QED
    BY <1>0, <2>1, <2>6, <2>7, <2>8, <2>11, <2>12, <2>13 DEF Registered
<1>5. CASE SetInitialized(t)
  <2> DEFINE s == job[t].stat
  <2>1. /\ job[t] # NoJob /\ job[t].at = "set" /\ s \in Statistics /\ Then(t, "unlock")
        /\ initialized' = [initialized EXCEPT ![s] = TRUE] /\ UNCHANGED <<stats, printed, enabled>>
    BY <1>0, <1>5, JobTypes DEF SetInitialized, Doing
  <2>2. JobNow(t, s, "unlock")
    BY <1>0, <2>1, ThenStep DEF Critical
  <2>3. job'[t].at = "unlock" /\ \A u \in Threads \ {t} : job'[u] = job[u]
    BY <2>2 DEF JobNow
  <2>4. \A u \in Threads \ {t} : job[u].at \notin Critical
    BY <1>0, <2>1, CriticalAlone DEF Critical
  <2>5. /\ initialized' \in [Statistics -> BOOLEAN]
        /\ \A r \in Statistics : initialized'[r] = IF r = s THEN TRUE ELSE initialized[r]
    BY <1>0, <2>1 DEF Registered
  <2>6. enabled => s \in Known
    BY <1>0, <2>1 DEF Registered
  <2> HIDE DEF s
  <2>7. \A k \in 1..Len(stats) : stats[k] \in Statistics
    BY <1>0 DEF Registered
  <2>8. \A k \in 1..Len(stats) : stats[k] = s \/ initialized[stats[k]]
    BY <1>0, <2>4 DEF Registered, Critical, s
  <2>9. \A u \in Threads : job'[u].at \notin {"add", "set"}
    BY <2>3, <2>4 DEF Critical
  <2> QED
    BY <1>0, <2>1, <2>5, <2>6, <2>7, <2>8, <2>9 DEF Registered, Known
<1>6. CASE UnlockStatistics(t)
  <2>1. /\ job[t].at = "unlock" /\ job' = [job EXCEPT ![t] = NoJob]
        /\ UNCHANGED <<initialized, stats, printed, enabled>>
    BY <1>6 DEF UnlockStatistics, Doing
  <2> QED
    BY <1>0, <2>1, EndStep, RegisteredStays
<1>7. CASE StaticStep(t)
  <2>1. UNCHANGED <<job, initialized, enabled>>
    BY <1>7 DEF StaticStep, statVars, PrintStatistics
  <2>2. CASE UNCHANGED <<stats, printed>>
    BY <1>0, <2>1, <2>2 DEF Registered, Known
  <2>3. CASE stats' = <<>> /\ DOMAIN printed' = ToSet(stats) \cup DOMAIN printed
    <3>1. Len(stats') = 0 /\ stats' \in Seq(Statistics)
      BY <2>3
    <3>2. \A s : s \in Known => s \in Known'
      BY <1>0, <2>3 DEF Known, ToSet, Registered
    <3> QED
      BY <1>0, <2>1, <3>1, <3>2 DEF Registered
  <2> QED
    BY <1>7, <2>2, <2>3 DEF StaticStep, statVars, PrintStatistics
<1> QED
  BY <1>1, <1>2, <1>3, <1>4, <1>5, <1>6, <1>7 DEF StatStep

LEMMA NextSInv == SInv /\ [StatNext]_allVars => SInv'
<1> SUFFICES ASSUME SInv, [StatNext]_allVars PROVE SInv'
  OBVIOUS
<1>1. Owned'
  BY NextOwned DEF SInv
<1>2. ASSUME NEW t \in Threads, StatStep(t) PROVE Registered'
  BY <1>2, StepRegistered
<1>3. ASSUME NEW t \in Threads, NEW s \in Statistics, Count(t, s) PROVE Registered'
  <2>1. /\ job[t] = NoJob /\ job' = [job EXCEPT ![t] = [stat |-> s, at |-> "init"]]
        /\ UNCHANGED <<initialized, stats, printed, enabled>>
    BY <1>3 DEF Count, Busy
  <2>2. [stat |-> s, at |-> "init"] \in Job
    BY DEF Job
  <2>3. JobNow(t, s, "init")
    <3>1. job \in [Threads -> Job]
      BY DEF SInv, Owned
    <3> QED
      BY <2>1, <2>2, <3>1 DEF JobNow
  <2>4. job[t].at # "set"
    BY <2>1 DEF NoJob
  <2> QED
    BY <2>1, <2>3, <2>4, RegisteredStays
<1>4. ASSUME (\E t \in Threads, s \in Statics : UseStatic(t, s)) \/ Control \/ UNCHANGED allVars
      PROVE  Registered'
  <2>1. UNCHANGED <<job, initialized, stats, printed, enabled>>
    BY <1>4 DEF UseStatic, Control, statVars, allVars
  <2>2. Registered
    BY DEF SInv
  <2> QED
    BY <2>1, <2>2 DEF Registered, Known
<1> QED
  BY <1>1, <1>2, <1>3, <1>4 DEF StatNext, SInv

LEMMA InitSInv == StatInit => SInv
<1> SUFFICES ASSUME StatInit PROVE SInv
  OBVIOUS
<1>1. NoJob \in Job /\ NoJob.at = "none"
  BY DEF Job, NoJob
<1>2. Owned
  BY <1>1, ManagedStaticAssumption DEF StatInit, Init, Owned, Critical
<1>3. Registered
  BY <1>1 DEF StatInit, Registered, Known
<1> QED
  BY <1>2, <1>3 DEF SInv

THEOREM StatisticInvariant == StatSpec => []SInv
<1> QED
  BY InitSInv, NextSInv, PTL DEF StatSpec

(* The mutex of StatLock works with or without threads: one thread at a    *)
(* time is between test and unlock, where Stats and Initialized change.    *)
THEOREM OneRegistrarEver == StatSpec => []OneRegistrar
<1>1. SInv => OneRegistrar
  BY CriticalAlone DEF SInv, OneRegistrar, Critical
<1> QED
  BY <1>1, StatisticInvariant, PTL

(* However many threads count a statistic for the first time at once, it   *)
(* is registered once, and before anybody sees Initialized.                *)
THEOREM EverRegisteredOnce == StatSpec => []RegisteredOnce
<1>1. SInv => RegisteredOnce
  <2> SUFFICES ASSUME SInv PROVE RegisteredOnce
    OBVIOUS
  <2>1. stats \in Seq(Statistics) /\ DOMAIN stats = 1..Len(stats)
    BY DEF SInv, Registered
  <2>2. IsInjective(stats)
    BY <2>1 DEF SInv, Registered, IsInjective
  <2>3. \A s : s \in Known => s \in ToSet(stats) \cup DOMAIN printed
    BY <2>1 DEF Known, ToSet
  <2> QED
    BY <2>2, <2>3 DEF SInv, Registered, RegisteredOnce
<1> QED
  BY <1>1, StatisticInvariant, PTL

-----------------------------------------------------------------------------
(* What is printed *)

(* A statistic that is counted is initialized or about to be; what is      *)
(* registered or printed has been counted, and is not counted any more     *)
(* once it has been printed.                                               *)
Counted ==
  /\ value \in [Statistics -> Nat]
  /\ printed = [s \in DOMAIN printed |-> value[s]]
  /\ \A s \in Known : s \in Statistics /\ value[s] > 0
  /\ \A t \in Threads : job[t] # NoJob => value[job[t].stat] > 0
  /\ \A s \in Statistics : value[s] > 0 =>
       initialized[s] \/ \E t \in Threads : job[t] # NoJob /\ job[t].stat = s
  /\ \A t \in Threads : job[t].at = "unlock" => initialized[job[t].stat]

(* The first call of t is an access to StatInfo. *)
Accessing(t) == Depth[t] > 0 /\ stack[t][Depth[t]].of = StatInfo

(* A statistic that t is about to add finds the list, or will.             *)
ListAtHand(t) == ptr[StatInfo] # 0 \/ Accessing(t)

(* The list of registered statistics is that of an object that exists.     *)
ListExists ==
  /\ stats # <<>> => ptr[StatInfo] # 0
  /\ \A t \in Threads : job[t].at = "add" => ListAtHand(t)

PInv == Counted /\ ListExists

LEMMA BottomStays ==
  ASSUME Typed, NEW t \in Threads, OthersStay(t), stack'[t][1].of = stack[t][1].of
  PROVE  \A u \in Threads : Accessing(u) => Accessing(u)'
<1> TAKE u \in Threads
<1>1. Depth[u] \in Nat /\ Depth'[u] = Depth[u]
  BY FrameTypes DEF OthersStay
<1>2. CASE Depth[u] > 0
  <2>1. Depth[u] \in 1..Depth[u]
    BY <1>1, <1>2
  <2>2. stack'[u][Depth[u]].of = stack[u][Depth[u]].of
    BY <2>1 DEF OthersStay
  <2> QED
    BY <1>1, <2>2 DEF Accessing
<1> QED
  BY <1>2 DEF Accessing

LEMMA BottomUnderCall ==
  ASSUME Typed, NEW t \in Threads, Pushed(t)
  PROVE  \A u \in Threads : Accessing(u) => Accessing(u)'
<1> TAKE u \in Threads
<1>1. CASE u # t
  <2>1. stack'[u] = stack[u] /\ Depth'[u] = Depth[u]
    BY <1>1 DEF Pushed, OthersKept, Depth
  <2> QED
    BY <2>1 DEF Accessing
<1>2. CASE u = t
  <2>1. Depth[t] \in Nat /\ Depth[t] > 0 /\ Depth'[t] = Depth[t] + 1 /\ stack[t][1] \in Frame
    <3>1. Depth[t] \in Nat /\ Depth[t] > 0 /\ Depth'[t] = Depth[t] + 1
      BY FrameTypes DEF Pushed
    <3>2. 1 \in 1..Depth[t]
      BY <3>1
    <3> QED
      BY <3>1, <3>2, FrameTypes
  <2>2. stack'[t][2].of = stack[t][1].of
    <3>1. stack'[t][2] = [stack[t][1] EXCEPT !.todo = Tail(@)]
      BY DEF Pushed
    <3> QED
      BY <2>1, <3>1 DEF Frame
  <2>3. stack'[t][Depth[t] + 1].of = stack[t][Depth[t]].of
    <3>1. CASE Depth[t] = 1
      BY <2>2, <3>1
    <3>2. CASE Depth[t] # 1
      <4>1. Depth[t] \in 2..Depth[t]
        BY <2>1, <3>2
      <4> QED
        BY <4>1 DEF Pushed
    <3> QED
      BY <3>1, <3>2
  <2> QED
    BY <1>2, <2>1, <2>3 DEF Accessing
<1> QED
  BY <1>1, <1>2

(* The accessor does not return without an object.                         *)
LEMMA BottomReturns ==
  ASSUME IInv, NEW t \in Threads, Use(t), NEW u \in Threads, Accessing(u)
  PROVE  ListAtHand(u)'
<1>0. Typed
  BY DEF IInv
<1>1. Popped(t) /\ ptr' = ptr /\ Head(stack[t]).at = "use" /\ ~Idle(t)
  BY <1>0, ReturnStep DEF Use, At
<1>2. CASE u # t
  <2>1. stack'[u] = stack[u] /\ Depth'[u] = Depth[u]
    BY <1>1, <1>2 DEF Popped, OthersKept, Depth
  <2> QED
    BY <2>1 DEF Accessing, ListAtHand
<1>3. CASE u = t
  <2>1. Depth[t] \in Nat /\ Depth[t] > 0 /\ Depth'[t] = Depth[t] - 1 /\ stack[t][1].at = "use"
    BY <1>0, <1>1, FrameTypes DEF Popped
  <2>2. CASE Depth[t] = 1
    <3>1. FrameOK(stack[t][1]) /\ stack[t][1].of = StatInfo
      BY <1>3, <2>2 DEF IInv, FramesOK, Accessing
    <3> QED
      BY <1>1, <2>1, <3>1 DEF FrameOK, ListAtHand
  <2>3. CASE Depth[t] # 1
    <3>1. PICK d \in Nat : d = Depth[t] - 1
      BY <2>1
    <3>2. d \in 1..(Depth[t] - 1) /\ d + 1 = Depth[t]
      BY <2>1, <2>3, <3>1
    <3>3. stack'[t][d] = stack[t][d + 1]
      BY <1>1, <3>2 DEF Popped
    <3> QED
      BY <1>3, <2>1, <3>1, <3>2, <3>3 DEF Accessing, ListAtHand
  <2> QED
    BY <2>2, <2>3
<1> QED
  BY <1>2, <1>3

LEMMA PtrsKept ==
  ASSUME IInv, NEW t \in Threads, ptr' = ptr \/ Publish(t), NEW s \in Statics, ptr[s] # 0
  PROVE  ptr'[s] # 0
<1>1. CASE Publish(t)
  <2>1. ~Idle(t) /\ stack[t][1].at = "publish" /\ ptr' = [ptr EXCEPT ![stack[t][1].of] = stack[t][1].obj]
    BY <1>1, FrameTypes DEF Publish, At, IInv
  <2>2. Depth[t] \in Nat /\ Depth[t] > 0
    BY <2>1, FrameTypes DEF IInv
  <2>3. FrameOK(stack[t][1])
    BY <2>2 DEF IInv, FramesOK
  <2>4. stack[t][1].obj \in 1..Len(objects) /\ Len(objects) \in Nat
    BY <2>1, <2>3 DEF FrameOK, IInv, Typed
  <2> QED
    BY <2>1, <2>4 DEF IInv, Typed
<1> QED
  BY <1>1

LEMMA StaticStepReaches ==
  ASSUME IInv, NEW t \in Threads,
         \/ ReadPtr(t) \/ Register(t) \/ CheckAgain(t) \/ Create(t) \/ Construct(t)
         \/ Publish(t) \/ Link(t) \/ Unlock(t) \/ Use(t)
  PROVE  /\ ptr[StatInfo] # 0 => ptr'[StatInfo] # 0
         /\ \A u \in Threads : ListAtHand(u) => ListAtHand(u)'
<1>0. Typed /\ ~Idle(t) /\ StatInfo \in Statics
  BY StatisticAssumption DEF IInv, ReadPtr, Register, CheckAgain, Create, Construct, Publish, Link, Unlock, Use, At
<1>1. ptr' = ptr \/ Publish(t)
  BY DEF ReadPtr, Register, CheckAgain, Create, Construct, Link, Unlock, Use
<1>2. ptr[StatInfo] # 0 => ptr'[StatInfo] # 0
  BY <1>0, <1>1, PtrsKept
<1>3. ASSUME NEW place \in Places, Goto(t, place)
      PROVE  \A u \in Threads : Accessing(u) => Accessing(u)'
  <2>1. Moved(t, place)
    BY <1>0, <1>3, GotoMoves
  <2> QED
    BY <1>0, <2>1, BottomStays DEF Moved
<1>4. CASE ReadPtr(t) \/ Register(t) \/ CheckAgain(t) \/ Publish(t) \/ Link(t) \/ Unlock(t)
  <2>1. \E place \in Places : Goto(t, place)
    BY <1>4 DEF ReadPtr, Register, CheckAgain, Publish, Link, Unlock, Places
  <2> QED
    BY <1>2, <1>3, <2>1 DEF ListAtHand
<1>5. CASE Create(t)
  <2> DEFINE f == stack[t][1]
             g == [f EXCEPT !.at = "construct", !.obj = Len(objects) + 1, !.todo = CreatorUses[f.of]]
  <2>1. /\ Head(stack[t]) = f /\ f \in Frame /\ f.of \in Statics
        /\ stack' = [stack EXCEPT ![t] = [@ EXCEPT ![1] = g]]
    BY <1>5, TopOK DEF Create, At
  <2>2. Len(objects) + 1 \in Nat /\ CreatorUses[f.of] \in Seq(Statics)
    BY <1>0, <2>1, ManagedStaticAssumption DEF Typed
  <2>3. g \in Frame /\ g.of = f.of
    <3> DEFINE uses == CreatorUses[f.of]
               n == Len(objects) + 1
    <3> HIDE DEF uses, n, f
    <3>1. n \in Nat /\ uses \in Seq(Statics) /\ "construct" \in Places
      BY <2>2 DEF uses, n, Places
    <3>2. /\ [f EXCEPT !.at = "construct", !.obj = n, !.todo = uses] \in Frame
          /\ [f EXCEPT !.at = "construct", !.obj = n, !.todo = uses].of = f.of
      BY <2>1, <3>1 DEF Frame
    <3> QED
      BY <3>2 DEF uses, n
  <2> HIDE DEF g
  <2>4. TopChanged(t, g)
    BY <1>0, <2>1, <2>3, TopStep
  <2>5. OthersStay(t) /\ stack'[t][1].of = stack[t][1].of
    BY <1>0, <2>2, <2>3, <2>4, TopStays DEF TopChanged
  <2> QED
    BY <1>0, <1>2, <2>5, BottomStays DEF ListAtHand
<1>6. CASE Construct(t)
  <2>1. CASE Head(stack[t]).todo # <<>>
    BY <1>0, <1>2, <1>6, <2>1, CallStep, BottomUnderCall DEF Construct, ListAtHand
  <2>2. CASE Head(stack[t]).todo = <<>>
    <3>1. Goto(t, "publish") /\ "publish" \in Places
      BY <1>6, <2>2 DEF Construct, Places
    <3> QED
      BY <1>2, <1>3, <3>1 DEF ListAtHand
  <2> QED
    BY <2>1, <2>2
<1>7. CASE Use(t)
  BY <1>2, <1>7, BottomReturns DEF ListAtHand
<1> QED
  BY <1>4, <1>5, <1>6, <1>7

LEMMA AccessReaches ==
  ASSUME IInv, NEW t \in Threads, NEW s \in Statics, Access(t, s)
  PROVE  /\ ptr' = ptr
         /\ \A u \in Threads : ListAtHand(u) => ListAtHand(u)'
         /\ s = StatInfo => Accessing(t)'
<1>0. Typed /\ Idle(t)
  BY DEF IInv, Access
<1>1. Call(s) \in Frame /\ Call(s).of = s
  BY EmptySeq DEF Call, Frame, Places
<1>2. Started(t, Call(s)) /\ ptr' = ptr
  BY <1>0, <1>1, StartStep DEF Access
<1>3. Depth'[t] = 1 /\ stack'[t][1].of = s /\ Depth[t] = 0
  BY <1>1, <1>2 DEF Started
<1>4. ASSUME NEW u \in Threads, ListAtHand(u) PROVE ListAtHand(u)'
  <2>1. CASE u = t
    BY <1>2, <1>3, <1>4, <2>1 DEF ListAtHand, Accessing
  <2>2. CASE u # t
    <3>1. stack'[u] = stack[u] /\ Depth'[u] = Depth[u]
      BY <1>2, <2>2 DEF Started, OthersKept, Depth
    <3> QED
      BY <1>2, <1>4, <3>1 DEF ListAtHand, Accessing
  <2> QED
    BY <2>1, <2>2
<1> QED
  BY <1>2, <1>3, <1>4 DEF Accessing

(* A step of t that goes on with its job, or ends it when its statistic    *)
(* is initialized, and neither counts, registers nor prints.               *)
LEMMA CountedStays ==
  ASSUME SInv, Counted, UNCHANGED <<value, stats, printed>>,
         NEW t \in Threads, NEW s, NEW place, job[t] # NoJob, JobNow(t, s, place),
         job'[t] # NoJob => s = job[t].stat,
         job'[t] = NoJob => initialized'[job[t].stat] /\ place = "none",
         \A r \in Statistics : initialized[r] => initialized'[r],
         place = "unlock" => initialized'[job[t].stat]
  PROVE  Counted'
<1>1. job'[t].at = place /\ job'[t].stat = s /\ \A u \in Threads \ {t} : job'[u] = job[u]
  BY DEF JobNow
<1>2. Known' = Known
  BY DEF Known
<1>3. \A u \in Threads : job[u] # NoJob => job[u].stat \in Statistics
  BY JobTypes DEF SInv
<1>4. \A u \in Threads : job'[u] # NoJob => value[job'[u].stat] > 0
  BY <1>1 DEF Counted
<1>5. ASSUME NEW r \in Statistics, value[r] > 0
      PROVE  initialized'[r] \/ \E u \in Threads : job'[u] # NoJob /\ job'[u].stat = r
  <2>1. CASE initialized[r]
    BY <2>1
  <2>2. CASE \E u \in Threads : job[u] # NoJob /\ job[u].stat = r
    BY <1>1, <2>2
  <2> QED
    BY <1>5, <2>1, <2>2 DEF Counted
<1>6. ASSUME NEW u \in Threads, job'[u].at = "unlock" PROVE initialized'[job'[u].stat]
  <2>1. CASE u = t
    <3>1. job'[t] # NoJob
      BY <1>6, <2>1 DEF NoJob
    <3> QED
      BY <1>1, <1>6, <2>1, <3>1
  <2>2. CASE u # t
    <3>1. job[u] # NoJob
      BY <1>1, <1>6, <2>2 DEF NoJob
    <3> QED
      BY <1>1, <1>3, <1>6, <2>2, <3>1 DEF Counted
  <2> QED
    BY <2>1, <2>2
<1> QED
  BY <1>2, <1>4, <1>5, <1>6 DEF Counted

LEMMA StepPInv ==
  ASSUME IInv, SInv, PInv, NEW t \in Threads, StatStep(t)
  PROVE  PInv'
<1>0. Owned /\ Registered /\ Counted /\ ListExists /\ StatInfo \in Statics /\ StatLock \in Statics
  BY StatisticAssumption DEF SInv, PInv
<1>1. ASSUME NEW place \in {"init", "lock"} \cup Critical, Then(t, place), job[t] # NoJob,
             UNCHANGED <<value, initialized, stats, printed>>,
             place = "unlock" => initialized[job[t].stat]
      PROVE  Counted'
  <2>1. JobNow(t, job[t].stat, place)
    BY <1>0, <1>1, ThenStep
  <2>2. job'[t] # NoJob
    BY <2>1 DEF JobNow, NoJob, Critical
  <2> QED
    BY <1>0, <1>1, <2>1, <2>2, CountedStays
<1>2. ASSUME NEW place \in ({"init", "lock"} \cup Critical) \ {"add"}, Then(t, place), job[t] # NoJob,
             stats' = stats, ptr' = ptr, \A u \in Threads : ListAtHand(u) => ListAtHand(u)'
      PROVE  ListExists'
  <2>1. JobNow(t, job[t].stat, place)
    BY <1>0, <1>2, ThenStep DEF Critical
  <2>2. \A u \in Threads : job'[u].at = "add" => job[u].at = "add"
    BY <2>1 DEF JobNow, Critical
  <2> QED
    BY <1>0, <1>2, <2>2 DEF ListExists
<1>3. ASSUME UNCHANGED vars
      PROVE  ptr' = ptr /\ \A u \in Threads : ListAtHand(u) <=> ListAtHand(u)'
  BY <1>3 DEF vars, ListAtHand, Accessing, Depth
<1>4. CASE Initialize(t)
  <2>1. job[t] # NoJob /\ UNCHANGED <<value, initialized, stats, printed>>
    BY <1>0, <1>4, JobTypes DEF Initialize, Doing
  <2>2. CASE initialized[job[t].stat]
    <3>1. job' = [job EXCEPT ![t] = NoJob] /\ UNCHANGED vars
      BY <1>4, <2>2 DEF Initialize
    <3>2. JobNow(t, None, "none") /\ job'[t] = NoJob
      BY <1>0, <3>1, EndStep DEF Owned
    <3>3. Counted'
      BY <1>0, <2>1, <2>2, <3>2, CountedStays
    <3>4. \A u \in Threads : job'[u].at = "add" => job[u].at = "add"
      BY <3>2 DEF JobNow
    <3> QED
      BY <1>0, <1>3, <2>1, <3>1, <3>3, <3>4 DEF PInv, ListExists
  <2>3. CASE ~initialized[job[t].stat]
    <3>1. Then(t, "lock") /\ Access(t, StatLock)
      BY <1>4, <2>3 DEF Initialize
    <3>2. ptr' = ptr /\ \A u \in Threads : ListAtHand(u) => ListAtHand(u)'
      BY <1>0, <3>1, AccessReaches
    <3> QED
      BY <1>1, <1>2, <2>1, <3>1, <3>2 DEF PInv
  <2> QED
    BY <2>2, <2>3
<1>5. CASE LockStatistics(t)
  <2>1. /\ job[t] # NoJob /\ UNCHANGED <<value, initialized, stats, printed>> /\ UNCHANGED vars
        /\ Then(t, "test") /\ "test" \in Critical
    BY <1>0, <1>5, JobTypes DEF LockStatistics, Doing, Critical
  <2> QED
    BY <1>1, <1>2, <1>3, <2>1 DEF PInv
<1>6. CASE TestAgain(t)
  <2>1. job[t] # NoJob /\ UNCHANGED <<value, initialized, stats, printed>>
    BY <1>0, <1>6, JobTypes DEF TestAgain, Doing
  <2>2. CASE initialized[job[t].stat]
    <3>1. Then(t, "unlock") /\ UNCHANGED vars /\ "unlock" \in Critical
      BY <1>6, <2>2 DEF TestAgain, Critical
    <3> QED
      BY <1>1, <1>2, <1>3, <2>1, <2>2, <3>1 DEF PInv
  <2>3. CASE ~initialized[job[t].stat] /\ ~enabled
    <3>1. Then(t, "set") /\ UNCHANGED vars /\ "set" \in Critical
      BY <1>6, <2>3 DEF TestAgain, Critical
    <3> QED
      BY <1>1, <1>2, <1>3, <2>1, <3>1 DEF PInv
  <2>4. CASE ~initialized[job[t].stat] /\ enabled
    <3>1. Then(t, "add") /\ Access(t, StatInfo) /\ "add" \in Critical
      BY <1>6, <2>4 DEF TestAgain, Critical
    <3>2. Counted'
      BY <1>1, <2>1, <3>1
    <3>3. /\ ptr' = ptr /\ \A u \in Threads : ListAtHand(u) => ListAtHand(u)'
          /\ ListAtHand(t)'
      BY <1>0, <3>1, AccessReaches DEF ListAtHand
    <3>4. \A u \in Threads \ {t} : job'[u] = job[u]
      BY <1>0, <2>1, <3>1, ThenStep DEF JobNow
    <3> QED
      BY <1>0, <2>1, <3>2, <3>3, <3>4 DEF PInv, ListExists
  <2> QED
    BY <2>2, <2>3, <2>4
<1>7. CASE AddStatistic(t)
  <2> DEFINE s == job[t].stat
  <2>1. /\ job[t] # NoJob /\ job[t].at = "add" /\ Idle(t) /\ s \in Statistics /\ Then(t, "set")
        /\ stats' = Append(stats, s) /\ UNCHANGED <<value, initialized, printed>> /\ UNCHANGED vars
    BY <1>0, <1>7, JobTypes DEF AddStatistic, Doing
  <2>2. JobNow(t, s, "set")
    BY <1>0, <2>1, ThenStep DEF Critical
  <2>3. job'[t].at = "set" /\ job'[t].stat = s /\ job'[t] # NoJob /\ \A u \in Threads \ {t} : job'[u] = job[u]
    BY <2>2 DEF JobNow, NoJob
  <2>4. ptr[StatInfo] # 0
    <3>1. ~Accessing(t)
      BY <1>0, <2>1, FrameTypes DEF Accessing, IInv
    <3> QED
      BY <1>0, <2>1, <3>1 DEF ListExists, ListAtHand
  <2>5. value[s] > 0
    BY <1>0, <2>1 DEF Counted
  <2> HIDE DEF s
  <2>6. \A k \in 1..Len(stats') : stats'[k] = s \/ \E l \in 1..Len(stats) : stats'[k] = stats[l]
    <3>1. /\ stats \in Seq(Statistics) /\ Len(stats) \in Nat
          /\ Len(stats') = Len(stats) + 1 /\ stats'[Len(stats) + 1] = s
          /\ \A l \in 1..Len(stats) : stats'[l] = stats[l]
      BY <1>0, <2>1, AppendProperties DEF Registered
    <3>2. \A k \in 1..Len(stats') : k \in 1..Len(stats) \/ k = Len(stats) + 1
      BY <3>1
    <3> QED
      BY <3>1, <3>2
  <2>7. \A r \in Known' : r \in Statistics /\ value'[r] > 0
    <3>1. \A r \in Known' : r \in Known \/ r = s
      BY <2>1, <2>6 DEF Known
    <3> QED
      BY <1>0, <2>1, <2>5, <3>1 DEF Counted
  <2>8. \A r \in Statistics : value'[r] > 0 =>
          initialized'[r] \/ \E u \in Threads : job'[u] # NoJob /\ job'[u].stat = r
    BY <1>0, <2>1, <2>3 DEF Counted, s
  <2>9. /\ \A u \in Threads : job'[u] # NoJob => value'[job'[u].stat] > 0
        /\ \A u \in Threads : job'[u].at = "unlock" => initialized'[job'[u].stat]
    BY <1>0, <2>1, <2>3, <2>5 DEF Counted
  <2>10. Counted'
    BY <1>0, <2>1, <2>7, <2>8, <2>9 DEF Counted
  <2>11. ListExists'
    BY <1>3, <2>1, <2>4 DEF ListExists, ListAtHand
  <2> QED
    BY <2>10, <2>11 DEF PInv
<1>8. CASE SetInitialized(t)
  <2>1. /\ job[t] # NoJob /\ UNCHANGED <<value, stats, printed>> /\ UNCHANGED vars
        /\ Then(t, "unlock") /\ "unlock" \in Critical /\ job[t].stat \in Statistics
        /\ initialized' = [initialized EXCEPT ![job[t].stat] = TRUE]
    BY <1>0, <1>8, JobTypes DEF SetInitialized, Doing, Critical
  <2>2. JobNow(t, job[t].stat, "unlock")
    BY <1>0, <2>1, ThenStep
  <2>3. job'[t] # NoJob
    BY <2>2 DEF JobNow, NoJob
  <2>4. initialized'[job[t].stat] /\ \A r \in Statistics : initialized[r] => initialized'[r]
    BY <1>0, <2>1 DEF Registered
  <2>5. Counted'
    BY <1>0, <2>1, <2>2, <2>3, <2>4, CountedStays
  <2> QED
    BY <1>2, <1>3, <2>1, <2>5 DEF PInv
<1>9. CASE UnlockStatistics(t)
  <2>1. /\ job[t] # NoJob /\ job[t].at = "unlock" /\ UNCHANGED <<value, initialized, stats, printed>>
        /\ UNCHANGED vars /\ job' = [job EXCEPT ![t] = NoJob]
    BY <1>0, <1>9, JobTypes DEF UnlockStatistics, Doing
  <2>2. JobNow(t, None, "none") /\ job'[t] = NoJob /\ initialized[job[t].stat]
    BY <1>0, <2>1, EndStep DEF Owned, Counted
  <2>3. Counted'
    BY <1>0, <2>1, <2>2, CountedStays
  <2>4. \A u \in Threads : job'[u].at = "add" => job[u].at = "add"
    BY <2>2 DEF JobNow
  <2> QED
    BY <1>0, <1>3, <2>1, <2>3, <2>4 DEF PInv, ListExists
<1>10. CASE StaticStep(t) /\ ~PrintStatistics(t)
  <2>1. /\ UNCHANGED statVars
        /\ \/ ReadPtr(t) \/ Register(t) \/ CheckAgain(t) \/ Create(t) \/ Construct(t)
           \/ Publish(t) \/ Link(t) \/ Unlock(t) \/ Use(t)
    BY <1>10 DEF StaticStep
  <2>2. Counted'
    BY <1>0, <2>1 DEF statVars, Counted, Known
  <2>3. /\ ptr[StatInfo] # 0 => ptr'[StatInfo] # 0
        /\ \A u \in Threads : ListAtHand(u) => ListAtHand(u)'
    BY <2>1, StaticStepReaches
  <2>4. ListExists'
    BY <1>0, <2>1, <2>3 DEF statVars, ListExists
  <2> QED
    BY <2>2, <2>4 DEF PInv
<1>11. CASE PrintStatistics(t)
  <2> DEFINE f == Head(stack[t])
  <2>1. /\ ~Idle(t) /\ f.at = "delete" /\ f = stack[t][1] /\ 1 \in 1..Depth[t] /\ f.of \in Statics
        /\ UNCHANGED <<value, initialized, job>>
    BY <1>11, TopOK DEF PrintStatistics, Delete, At
  <2>2. shutdown /\ \A u \in Threads : job[u] = NoJob
    BY <1>0, <2>1 DEF IInv, Shape, Owned
  <2>3. \A u \in Threads : job'[u].at # "add"
    BY <2>1, <2>2 DEF NoJob
  <2>4. stats \in Seq(Statistics) /\ ToSet(stats) = {stats[k] : k \in 1..Len(stats)}
    BY <1>0 DEF Registered, ToSet
  <2>5. CASE f.of = StatInfo /\ f.todo = <<>>
    <3>1. /\ stats' = <<>>
          /\ printed' = [s \in ToSet(stats) \cup DOMAIN printed |->
                           IF s \in ToSet(stats) THEN value[s] ELSE printed[s]]
      BY <1>11, <2>5 DEF PrintStatistics
    <3>2. \A s \in DOMAIN printed : printed[s] = value[s]
      BY <1>0 DEF Counted
    <3>3. DOMAIN printed' = Known /\ printed' = [s \in Known |-> value[s]]
      BY <2>4, <3>1, <3>2 DEF Known
    <3>4. Known' = Known
      BY <3>1, <3>3 DEF Known
    <3>5. Counted'
      BY <1>0, <2>1, <3>3, <3>4 DEF Counted
    <3> QED
      BY <2>3, <3>1, <3>5 DEF PInv, ListExists
  <2>6. CASE ~(f.of = StatInfo /\ f.todo = <<>>)
    <3>1. UNCHANGED <<stats, printed>>
      BY <1>11, <2>6 DEF PrintStatistics
    <3>2. ptr'[StatInfo] = ptr[StatInfo]
      <4>1. Delete(t)
        BY <1>11 DEF PrintStatistics
      <4> QED
        BY <1>0, <2>6, <4>1 DEF Delete, IInv, Typed
    <3>3. Counted'
      BY <1>0, <2>1, <3>1 DEF Counted, Known
    <3> QED
      BY <1>0, <2>3, <3>1, <3>2, <3>3 DEF PInv, ListExists
  <2> QED
    BY <2>5, <2>6
<1> QED
  BY <1>4, <1>5, <1>6, <1>7, <1>8, <1>9, <1>10, <1>11 DEF StatStep

LEMMA NextPInv == IInv /\ SInv /\ PInv /\ [StatNext]_allVars => PInv'
<1> SUFFICES ASSUME IInv, SInv, PInv, [StatNext]_allVars PROVE PInv'
  OBVIOUS
<1>0. Owned /\ Registered /\ Counted /\ ListExists
  BY DEF SInv, PInv
<1>1. ASSUME NEW t \in Threads, StatStep(t) PROVE PInv'
  BY <1>1, StepPInv
<1>2. ASSUME NEW t \in Threads, NEW s \in Statistics, Count(t, s) PROVE PInv'
  <2>1. /\ job[t] = NoJob /\ job' = [job EXCEPT ![t] = [stat |-> s, at |-> "init"]]
        /\ DOMAIN printed = {} /\ value' = [value EXCEPT ![s] = @ + 1]
        /\ UNCHANGED <<vars, initialized, stats, printed>>
    BY <1>2 DEF Count, Busy
  <2>2. /\ job'[t] = [stat |-> s, at |-> "init"] /\ job'[t] # NoJob
        /\ \A u \in Threads \ {t} : job'[u] = job[u]
    BY <1>0, <2>1 DEF Owned, NoJob
  <2>3. value' \in [Statistics -> Nat] /\ value'[s] > 0 /\ \A r \in Statistics : r # s => value'[r] = value[r]
    BY <1>0, <2>1 DEF Counted
  <2>4. \A r \in Statistics : value[r] > 0 => value'[r] > 0
    BY <2>3
  <2>5. printed' = [r \in DOMAIN printed' |-> value'[r]]
    <3>1. [r \in DOMAIN printed |-> value[r]] = [r \in DOMAIN printed |-> value'[r]]
      BY <2>1
    <3> QED
      BY <1>0, <2>1, <3>1 DEF Counted
  <2>6. \A r \in Known' : r \in Statistics /\ value'[r] > 0
    BY <1>0, <2>1, <2>4 DEF Counted, Known
  <2>7. \A u \in Threads : job[u] # NoJob => job[u].stat \in Statistics
    BY <1>0, JobTypes
  <2>8. \A u \in Threads : job'[u] # NoJob => value'[job'[u].stat] > 0
    BY <1>0, <2>2, <2>3, <2>4, <2>7 DEF Counted
  <2>9. \A r \in Statistics : value'[r] > 0 =>
          initialized'[r] \/ \E u \in Threads : job'[u] # NoJob /\ job'[u].stat = r
    BY <1>0, <2>1, <2>2, <2>3 DEF Counted
  <2>10. \A u \in Threads : job'[u].at = "unlock" => initialized'[job'[u].stat]
    BY <1>0, <2>1, <2>2 DEF Counted
  <2>11. Counted'
    BY <2>3, <2>5, <2>6, <2>8, <2>9, <2>10 DEF Counted
  <2>12. ListExists'
    BY <1>0, <2>1, <2>2 DEF vars, ListExists, ListAtHand, Accessing, Depth
  <2> QED
    BY <2>11, <2>12 DEF PInv
<1>3. ASSUME UNCHANGED statVars PROVE Counted'
  BY <1>0, <1>3 DEF statVars, Counted, Known
<1>4. ASSUME NEW t \in Threads, NEW s \in Statics, UseStatic(t, s) PROVE PInv'
  <2>1. Access(t, s) /\ UNCHANGED statVars
    BY <1>4 DEF UseStatic
  <2>2. ListExists'
    BY <1>0, <2>1, AccessReaches DEF statVars, ListExists
  <2> QED
    BY <1>3, <2>1, <2>2 DEF PInv
<1>5. CASE Control \/ UNCHANGED allVars
  <2>1. UNCHANGED statVars /\ ptr' = ptr
    BY <1>5 DEF Control, allVars, vars, StartMultithreaded, Shutdown, Destroy, ShutdownEnds
  <2>2. CASE stack' = stack
    BY <1>0, <1>3, <2>1, <2>2 DEF statVars, PInv, ListExists, ListAtHand, Accessing, Depth
  <2>3. CASE shutdown
    <3>1. \A t \in Threads : job[t].at # "add"
      BY <1>0, <2>3 DEF Owned, NoJob
    <3> QED
      BY <1>0, <1>3, <2>1, <3>1 DEF statVars, PInv, ListExists
  <2> QED
    BY <1>5, <2>2, <2>3 DEF Control, allVars, vars, StartMultithreaded, Shutdown, Destroy, ShutdownEnds
<1> QED
  BY <1>1, <1>2, <1>4, <1>5 DEF StatNext

LEMMA InitPInv == StatInit => PInv
<1> SUFFICES ASSUME StatInit PROVE PInv
  OBVIOUS
<1>1. NoJob.at = "none"
  BY DEF NoJob
<1>2. printed = <<>> /\ stats = <<>> /\ DOMAIN printed = {} /\ Known = {}
  BY DEF StatInit, Known
<1>3. printed = [s \in DOMAIN printed |-> value[s]]
  BY <1>2
<1>4. \A t \in Threads : job[t] = NoJob
  BY DEF StatInit
<1>5. value \in [Statistics -> Nat] /\ \A s \in Statistics : ~(value[s] > 0)
  BY DEF StatInit
<1> QED
  BY <1>1, <1>2, <1>3, <1>4, <1>5 DEF PInv, Counted, ListExists

(* llvm_shutdown prints every statistic that was ever counted, with its    *)
(* last value: none is missed because it was being registered, and the     *)
(* list survives until it is printed (RegisterStatistic, ~StatisticInfo).  *)
THEOREM CountedIsPrinted == StatSpec => AllPrinted
<1>1. IInv /\ SInv /\ PInv /\ [StatNext]_allVars =>
        [shutdown /\ ~shutdown' /\ enabled =>
           printed = [s \in {r \in Statistics : value[r] > 0} |-> value[s]]]_allVars
  <2> SUFFICES ASSUME IInv, SInv, PInv, StatNext, shutdown, ~shutdown', enabled
               PROVE  printed = [s \in {r \in Statistics : value[r] > 0} |-> value[s]]
    OBVIOUS
  <2>0. Owned /\ Registered /\ Counted /\ ListExists
    BY DEF SInv, PInv
  <2>1. Next
    <3>1. [Next]_vars
      BY StatStepIsStaticStep
    <3> QED
      BY <3>1 DEF vars
  <2>2. ShutdownEnds
    BY <2>1 DEF Next, Step, ReadPtr, Register, CheckAgain, Create, Construct, Publish, Link, Unlock, Use, Delete,
       Access, StartMultithreaded, Shutdown, Destroy
  <2>3. (\A t \in Threads : Depth[t] = 0) /\ staticList = <<>>
    BY <2>2, AllIdle DEF ShutdownEnds
  <2>4. ptr[StatInfo] = 0
    BY <2>3, StatisticAssumption DEF IInv, PointersAccounted, InList
  <2>5. Known = DOMAIN printed
    BY <2>0, <2>4 DEF ListExists, Known
  <2>6. \A s \in Statistics : value[s] > 0 => s \in Known
    BY <2>0 DEF Owned, Counted, Registered
  <2>7. {r \in Statistics : value[r] > 0} = DOMAIN printed
    BY <2>0, <2>5, <2>6 DEF Counted
  <2> QED
    BY <2>0, <2>7 DEF Counted
<1>2. StatSpec => []IInv
  BY StatisticUsesStatics, Invariant, PTL
<1> QED
  BY <1>1, <1>2, StatisticInvariant, InitPInv, NextPInv, PTL DEF StatSpec, AllPrinted
=============================================================================
