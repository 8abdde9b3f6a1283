-------------------------- MODULE FrameLayoutProofs --------------------------
(***************************************************************************)
(* What the frame layout guarantees for every number of objects, every     *)
(* size and alignment, and every position of the stack protector.          *)
(*                                                                         *)
(* The inductive invariant has three parts.  Bounds: what was placed lies  *)
(* between the local area's start and Offset.  Progress: which objects are *)
(* placed is determined by the loop and its index, so that no loop places  *)
(* an object again.  Order: whatever is placed next goes below -Offset,    *)
(* hence below everything placed before.  For the alignment, AlignedSoFar  *)
(* says that every offset given so far is a multiple of its alignment.     *)
(***************************************************************************)
EXTENDS FrameLayout, TLAPS

IndexBounds ==
    /\ phase = "fixed" => i \in -NumFixed .. 0
    /\ phase = "cs" => i \in mfi.firstCS .. NumObjects
    /\ phase \in {"large", "objects"} => i \in 0 .. NumObjects

ProtectorSet == {mfi.protector} \cap Index

\* The objects that the loops have placed, from the loop that runs.
Progress ==
    /\ phase = "fixed" => Placed = {}
    /\ phase = "cs" => Placed = mfi.firstCS .. i - 1
    /\ phase = "protector" => Placed = CSIndex
    /\ phase \in {"fixed", "cs", "protector"} => LargeStackObjs = {}
    /\ phase = "large" =>
        /\ mfi.protector # NoProtector
        /\ LargeStackObjs = {k \in 0 .. i - 1 : InLargeLoop(k)}
        /\ Placed = CSIndex \cup ProtectorSet \cup LargeStackObjs
    /\ phase \in {"objects", "done"} =>
        LargeStackObjs = {k \in Index : mfi.protector # NoProtector /\ InLargeLoop(k)}
    /\ phase = "objects" =>
        Placed = CSIndex \cup ProtectorSet \cup LargeStackObjs
                 \cup {k \in 0 .. i - 1 : InObjectLoop(k)}
    /\ phase = "done" =>
        Placed = CSIndex \cup ProtectorSet \cup LargeStackObjs
                 \cup {k \in Index : InObjectLoop(k)}

\* Where the protector's slot is relative to what is already placed.
Order ==
    mfi.protector \in Placed =>
        LET guard == objOffset[mfi.protector]
            Others == Placed \ (CSIndex \cup {mfi.protector})
        IN  /\ \A k \in CSIndex : guard + mfi.size[mfi.protector] <= objOffset[k]
            /\ \A k \in Others : objOffset[k] + mfi.size[k] <= guard
            /\ \A k \in LargeStackObjs, l \in Others \ LargeStackObjs :
                   objOffset[l] + mfi.size[l] <= objOffset[k]

Bounds ==
    /\ LocalAreaOffset <= Offset
    /\ InsideFrame

IInv ==
    /\ TypeOK
    /\ IndexBounds
    /\ Bounds
    /\ ObjectsDisjoint
    /\ Progress
    /\ Order
    /\ CallFrameReserved

-----------------------------------------------------------------------------
(***************************************************************************)
(* Arithmetic of RoundUp.                                                  *)
(***************************************************************************)

\* Integer division is Euclidean.
LEMMA DivMod ==
    ASSUME NEW y \in Nat, NEW a \in Nat \ {0}
    PROVE  /\ y \div a \in Int
           /\ (y \div a) * a + (y % a) = y
           /\ y % a \in 0 .. a - 1
  OBVIOUS

\* Rounding up to an alignment never gives back a smaller offset.
LEMMA RoundUpBound ==
    ASSUME NEW x \in Nat, NEW a \in Nat \ {0}
    PROVE  RoundUp(x, a) \in Nat /\ RoundUp(x, a) >= x
<1> DEFINE q == (x + a - 1) \div a
<1>1. /\ q \in Int
      /\ q * a + ((x + a - 1) % a) = x + a - 1
      /\ (x + a - 1) % a \in 0 .. a - 1
  BY DivMod
<1>2. q * a \in Int
  BY <1>1
<1>3. q * a >= x
  BY <1>1, <1>2
<1> QED
  BY <1>2, <1>3 DEF RoundUp

\* Placing object k moves Offset past it, puts it entirely between the old and
\* the new Offset, and leaves every other object where it was.
LEMMA PlaceStep ==
    ASSUME TypeOK, Bounds, NEW k \in Index, Place(k)
    PROVE  /\ Offset' \in Nat /\ Offset' >= Offset
           /\ objOffset' \in [Index -> Int]
           /\ objOffset'[k] = -Offset'
           /\ objOffset'[k] + mfi.size[k] <= -Offset
           /\ \A l \in Index \ {k} : objOffset'[l] = objOffset[l]
           /\ Placed' = Placed \cup {k}
<1> DEFINE o == RoundUp(Offset + mfi.size[k], mfi.align[k])
<1>1. /\ Offset \in Nat /\ LocalAreaOffset \in Nat \ {0} /\ Offset >= LocalAreaOffset
      /\ mfi.size[k] \in Nat /\ mfi.align[k] \in Nat \ {0}
      /\ objOffset \in [Index -> Int]
  BY LayoutAssumption DEF TypeOK, Bounds, MachineFrameInfo
<1>2. o \in Nat /\ o >= Offset + mfi.size[k]
  BY <1>1, RoundUpBound
<1>3. Offset' = o /\ objOffset' = [objOffset EXCEPT ![k] = -o]
  BY DEF Place
<1> HIDE DEF o
<1>4. /\ Offset' \in Nat /\ Offset' >= Offset
      /\ objOffset' \in [Index -> Int]
      /\ objOffset'[k] = -Offset'
      /\ objOffset'[k] + mfi.size[k] <= -Offset
      /\ \A l \in Index \ {k} : objOffset'[l] = objOffset[l]
  BY <1>1, <1>2, <1>3
<1>5. objOffset'[k] # Unassigned
  BY <1>1, <1>2, <1>3 DEF Unassigned
<1>6. Placed' = Placed \cup {k}
  BY <1>4, <1>5 DEF Placed
<1> QED
  BY <1>4, <1>6

\* An object placed below everything else keeps the frame disjoint and bounded.
LEMMA PlaceKeepsLayout ==
    ASSUME TypeOK, Bounds, ObjectsDisjoint, NEW k \in Index, Place(k), mfi' = mfi,
           k \notin Placed
    PROVE  Bounds' /\ ObjectsDisjoint'
<1>1. /\ Offset' \in Nat /\ Offset' >= Offset
      /\ objOffset' \in [Index -> Int]
      /\ objOffset'[k] = -Offset'
      /\ objOffset'[k] + mfi.size[k] <= -Offset
      /\ \A l \in Index \ {k} : objOffset'[l] = objOffset[l]
      /\ Placed' = Placed \cup {k}
  BY PlaceStep
<1>2. /\ Offset \in Nat /\ LocalAreaOffset \in Nat \ {0}
      /\ objOffset \in [Index -> Int] /\ mfi.size \in [Index -> Nat]
      /\ Placed \subseteq Index
  BY LayoutAssumption DEF TypeOK, MachineFrameInfo, Placed
<1>3. LocalAreaOffset <= Offset /\ InsideFrame
  BY DEF Bounds
<1>4. InsideFrame'
  BY <1>1, <1>2, <1>3 DEF InsideFrame
<1>5. Bounds'
  BY <1>1, <1>2, <1>3, <1>4 DEF Bounds
<1>6. ASSUME NEW l \in Placed
      PROVE  objOffset'[k] + mfi.size[k] <= objOffset'[l]
  BY <1>1, <1>2, <1>3 DEF InsideFrame
<1>7. ObjectsDisjoint'
  BY <1>1, <1>2, <1>6 DEF ObjectsDisjoint
<1> QED
  BY <1>5, <1>7
-----------------------------------------------------------------------------
(***************************************************************************)
(* The invariant, action by action.                                        *)
(***************************************************************************)

\* Nothing is placed in the initial state.
LEMMA InitInv == Init => IInv
<1> SUFFICES ASSUME Init PROVE IInv
  OBVIOUS
<1>1. mfi \in MachineFrameInfo /\ WellFormed(mfi)
  BY LayoutAssumption DEF Init
<1>2. Placed = {}
  BY DEF Init, Placed
<1>3. TypeOK
  BY <1>1, LayoutAssumption DEF Init, TypeOK, Phases, MachineFrameInfo, Unassigned
<1>4. IndexBounds
  BY LayoutAssumption DEF Init, IndexBounds
<1>5. Bounds /\ ObjectsDisjoint
  BY <1>2, LayoutAssumption DEF Init, Bounds, InsideFrame, ObjectsDisjoint
<1>6. Progress /\ Order /\ CallFrameReserved
  BY <1>2 DEF Init, Progress, Order, CallFrameReserved
<1> QED
  BY <1>3, <1>4, <1>5, <1>6 DEF IInv

\* The scan of the fixed objects can only enlarge Offset.
LEMMA ScanFixedObjectInv == IInv /\ ScanFixedObject => IInv'
<1> SUFFICES ASSUME IInv, ScanFixedObject PROVE IInv'
  OBVIOUS
<1> USE DEF IInv
<1>1. /\ Offset \in Nat /\ i \in FixedIndex /\ mfi.fixedOffset[i] \in Int
  BY LayoutAssumption
     DEF TypeOK, ScanFixedObject, MachineFrameInfo, IndexBounds, FixedIndex
<1>2. Offset' \in Nat /\ Offset' >= Offset
  BY <1>1 DEF ScanFixedObject, Larger
<1>3. Placed' = Placed /\ Placed = {} /\ phase = "fixed" /\ phase' = "fixed"
  BY DEF ScanFixedObject, Placed, Progress
<1>4. TypeOK'
  BY <1>1, <1>2, LayoutAssumption DEF TypeOK, ScanFixedObject, FixedIndex
<1>5. IndexBounds'
  BY <1>1, LayoutAssumption DEF IndexBounds, ScanFixedObject, FixedIndex
<1>6. Bounds' /\ ObjectsDisjoint'
  BY <1>1, <1>2, <1>3, LayoutAssumption DEF Bounds, InsideFrame, ObjectsDisjoint
<1>7. Progress'
  BY <1>3 DEF Progress, ScanFixedObject
<1>8. Order' /\ CallFrameReserved'
  BY <1>3 DEF Order, CallFrameReserved
<1> QED
  BY <1>4, <1>5, <1>6, <1>7, <1>8

\* A callee-saved slot is placed once, and the protector not yet.
LEMMA AssignCalleeSavedSlotInv == IInv /\ AssignCalleeSavedSlot => IInv'
<1> SUFFICES ASSUME IInv, AssignCalleeSavedSlot PROVE IInv'
  OBVIOUS
<1> USE DEF IInv
<1>1. /\ phase = "cs" /\ phase' = "cs" /\ mfi' = mfi /\ Place(i) /\ i' = i + 1
      /\ LargeStackObjs' = LargeStackObjs
      /\ NumObjects \in Nat /\ mfi.firstCS \in 0 .. NumObjects
      /\ i \in mfi.firstCS .. NumObjects - 1 /\ i \in Index
  BY LayoutAssumption
     DEF TypeOK, AssignCalleeSavedSlot, MachineFrameInfo, IndexBounds, Index
<1>2. Placed = mfi.firstCS .. i - 1 /\ i \notin Placed /\ LargeStackObjs = {}
  BY <1>1 DEF Progress
<1>3. Bounds' /\ ObjectsDisjoint'
  BY <1>1, <1>2, PlaceKeepsLayout
<1>4. /\ Offset' \in Nat /\ objOffset' \in [Index -> Int]
      /\ Placed' = Placed \cup {i}
  BY <1>1, PlaceStep
<1>5. TypeOK'
  BY <1>1, <1>4, LayoutAssumption DEF TypeOK, AssignCalleeSavedSlot
<1>6. IndexBounds'
  BY <1>1 DEF IndexBounds
<1>7. Placed' = mfi'.firstCS .. i' - 1
  BY <1>1, <1>2, <1>4
<1>8. Progress'
  BY <1>1, <1>2, <1>7 DEF Progress
<1>9. mfi.protector \notin Placed'
  BY <1>1, <1>7 DEF TypeOK, WellFormed, MachineFrameInfo
<1>10. Order' /\ CallFrameReserved'
  BY <1>1, <1>9 DEF Order, CallFrameReserved
<1> QED
  BY <1>3, <1>5, <1>6, <1>8, <1>10

\* The protector's slot goes below every callee-saved slot.
LEMMA AssignProtectorInv == IInv /\ AssignProtector => IInv'
<1> SUFFICES ASSUME IInv, AssignProtector PROVE IInv'
  OBVIOUS
<1> USE DEF IInv
<1>1. /\ phase = "protector" /\ mfi' = mfi /\ i' = 0
      /\ LargeStackObjs' = LargeStackObjs /\ LargeStackObjs = {}
      /\ Placed = CSIndex /\ NumObjects \in Nat /\ CSIndex \subseteq Index
  BY LayoutAssumption
     DEF AssignProtector, NextLoop, Progress, CSIndex, Index, TypeOK, MachineFrameInfo
<1>2. IndexBounds'
  BY <1>1 DEF AssignProtector, NextLoop, IndexBounds
<1>3. CSIndex' = CSIndex /\ ProtectorSet' = ProtectorSet
  BY <1>1 DEF CSIndex, ProtectorSet
<1>4. mfi.protector \notin CSIndex
  BY DEF TypeOK, WellFormed, CSIndex
<1>5. CASE mfi.protector # NoProtector
  <2>1. /\ mfi.protector \in Index /\ AdjustStackOffset(mfi.protector)
        /\ Place(mfi.protector) /\ phase' = "large"
        /\ ProtectorSet = {mfi.protector}
    BY <1>5 DEF AssignProtector, AdjustStackOffset, NextLoop, TypeOK,
                MachineFrameInfo, ProtectorSet
  <2>2. /\ Offset' \in Nat /\ objOffset' \in [Index -> Int]
        /\ objOffset'[mfi.protector] + mfi.size[mfi.protector] <= -Offset
        /\ \A l \in Index \ {mfi.protector} : objOffset'[l] = objOffset[l]
        /\ Placed' = Placed \cup {mfi.protector}
    BY <2>1, PlaceStep
  <2>3. Bounds' /\ ObjectsDisjoint'
    BY <1>1, <1>4, <2>1, PlaceKeepsLayout
  <2>4. MaxAlign' \in Nat \ {0}
    BY <2>1 DEF AdjustStackOffset, Larger, TypeOK, MachineFrameInfo
  <2>5. TypeOK'
    BY <1>1, <2>1, <2>2, <2>4, LayoutAssumption DEF TypeOK, AssignProtector, Phases
  <2>6. {k \in 0 .. i' - 1 : InLargeLoop(k)'} = {}
    BY <1>1
  <2>7. Progress'
    BY <1>1, <1>3, <1>5, <2>1, <2>2, <2>6 DEF Progress
  <2>8. \A k \in CSIndex :
          objOffset'[mfi.protector] + mfi.size[mfi.protector] <= objOffset'[k]
    <3>1. \A k \in CSIndex : -Offset <= objOffset[k] /\ objOffset'[k] = objOffset[k]
      BY <1>1, <1>4, <2>2 DEF Bounds, InsideFrame
    <3>2. /\ objOffset'[mfi.protector] \in Int /\ mfi.size[mfi.protector] \in Int
          /\ Offset \in Int /\ \A k \in CSIndex : objOffset[k] \in Int
      BY <1>1, <2>1, <2>2 DEF TypeOK, MachineFrameInfo
    <3> QED
      BY <2>2, <3>1, <3>2
  <2>9. Order'
    BY <1>1, <1>3, <2>2, <2>8 DEF Order
  <2>10. CallFrameReserved'
    BY <2>1 DEF CallFrameReserved
  <2> QED
    BY <1>2, <2>3, <2>5, <2>7, <2>9, <2>10
<1>6. CASE mfi.protector = NoProtector
  <2>1. /\ UNCHANGED <<Offset, MaxAlign, objOffset>> /\ phase' = "objects"
        /\ ProtectorSet = {} /\ mfi.protector \notin Index
    BY <1>6, LayoutAssumption
       DEF AssignProtector, NextLoop, ProtectorSet, NoProtector, Index
  <2>2. Placed' = Placed
    BY <2>1 DEF Placed
  <2>3. TypeOK'
    BY <1>1, <2>1, LayoutAssumption DEF TypeOK, AssignProtector, Phases
  <2>4. Bounds' /\ ObjectsDisjoint'
    BY <1>1, <2>1, <2>2 DEF Bounds, InsideFrame, ObjectsDisjoint
  <2>5. {k \in 0 .. i' - 1 : InObjectLoop(k)'} = {}
    BY <1>1
  <2>6. LargeStackObjs' = {k \in Index' : mfi'.protector # NoProtector /\ InLargeLoop(k)'}
    BY <1>1, <1>6
  <2>7. Progress'
    BY <1>1, <1>3, <2>1, <2>2, <2>5, <2>6 DEF Progress
  <2>8. Order' /\ CallFrameReserved'
    BY <1>1, <2>1, <2>2 DEF Order, CallFrameReserved
  <2> QED
    BY <1>2, <2>3, <2>4, <2>7, <2>8
<1> QED
  BY <1>5, <1>6

\* An array goes below the protector's slot and below the arrays before it.
LEMMA AssignLargeObjectInv == IInv /\ AssignLargeObject => IInv'
<1> SUFFICES ASSUME IInv, AssignLargeObject PROVE IInv'
  OBVIOUS
<1> USE DEF IInv
<1>1. /\ phase = "large" /\ phase' = "large" /\ mfi' = mfi /\ i' = i + 1
      /\ NumObjects \in Nat /\ i \in Index
      /\ LargeStackObjs = {k \in 0 .. i - 1 : InLargeLoop(k)}
      /\ Placed = CSIndex \cup ProtectorSet \cup LargeStackObjs
      /\ mfi.protector # NoProtector
  BY LayoutAssumption DEF AssignLargeObject, Progress, IndexBounds, Index
<1>0. mfi.protector \in Index /\ ProtectorSet = {mfi.protector}
  BY <1>1 DEF TypeOK, MachineFrameInfo, ProtectorSet
<1>2. IndexBounds'
  BY <1>1 DEF IndexBounds, Index
<1>3. CSIndex' = CSIndex /\ ProtectorSet' = ProtectorSet
  BY <1>1 DEF CSIndex, ProtectorSet
<1>4. /\ \A k : InLargeLoop(k)' <=> InLargeLoop(k)
      /\ 0 .. i' - 1 = (0 .. i - 1) \cup {i}
  BY <1>1, <1>3 DEF InLargeLoop, Skipped, Index
<1>5. CallFrameReserved'
  BY <1>1 DEF CallFrameReserved
<1>6. CASE InLargeLoop(i)
  <2>1. /\ Place(i) /\ LargeStackObjs' = LargeStackObjs \cup {i}
        /\ MaxAlign' \in Nat \ {0} /\ i \notin CSIndex /\ i # mfi.protector
    BY <1>1, <1>6
       DEF AssignLargeObject, AdjustStackOffset, Larger, TypeOK, MachineFrameInfo,
           InLargeLoop, Skipped
  <2>2. i \notin Placed
    BY <1>0, <1>1, <2>1
  <2>3. /\ Offset' \in Nat /\ objOffset' \in [Index -> Int]
        /\ objOffset'[i] + mfi.size[i] <= -Offset
        /\ \A l \in Index \ {i} : objOffset'[l] = objOffset[l]
        /\ Placed' = Placed \cup {i}
    BY <1>1, <2>1, PlaceStep
  <2>4. Bounds' /\ ObjectsDisjoint'
    BY <1>1, <2>1, <2>2, PlaceKeepsLayout
  <2>5. TypeOK'
    BY <1>1, <2>1, <2>3, LayoutAssumption DEF TypeOK, AssignLargeObject, Index
  <2>6. LargeStackObjs' = {k \in 0 .. i' - 1 : InLargeLoop(k)'}
    BY <1>1, <1>4, <1>6, <2>1
  <2>7. Progress'
    BY <1>1, <1>3, <2>1, <2>3, <2>6 DEF Progress
  <2>8. Order'
    <3>1. /\ CSIndex \subseteq Index /\ LargeStackObjs \subseteq Index
          /\ Placed \subseteq Index /\ Offset \in Nat
          /\ objOffset \in [Index -> Int] /\ mfi.size \in [Index -> Nat]
      BY <1>1, LayoutAssumption DEF TypeOK, MachineFrameInfo, Placed, CSIndex, Index
    <3>2. objOffset'[i] + mfi.size[i] <= objOffset[mfi.protector]
      <4>1. -Offset <= objOffset[mfi.protector]
        BY <1>0, <1>1 DEF Bounds, InsideFrame
      <4>2. /\ objOffset'[i] \in Int /\ mfi.size[i] \in Int
            /\ objOffset[mfi.protector] \in Int
        BY <1>0, <1>1, <2>3, <3>1
      <4> QED
        BY <2>3, <3>1, <4>1, <4>2
    <3>3. Placed' \ (CSIndex \cup {mfi.protector}) \subseteq LargeStackObjs'
      BY <1>0, <1>1, <2>1, <2>3
    <3> QED
      BY <1>0, <1>1, <1>3, <2>1, <2>3, <3>1, <3>2, <3>3 DEF Order
  <2> QED
    BY <1>2, <1>5, <2>4, <2>5, <2>7, <2>8
<1>7. CASE ~InLargeLoop(i)
  <2>1. UNCHANGED <<Offset, MaxAlign, objOffset, LargeStackObjs>>
    BY <1>7 DEF AssignLargeObject
  <2>2. Placed' = Placed
    BY <2>1 DEF Placed
  <2>3. TypeOK'
    BY <1>1, <2>1, LayoutAssumption DEF TypeOK, AssignLargeObject, Index
  <2>4. LargeStackObjs' = {k \in 0 .. i' - 1 : InLargeLoop(k)'}
    BY <1>1, <1>4, <1>7, <2>1
  <2>5. Progress'
    BY <1>1, <1>3, <2>1, <2>2, <2>4 DEF Progress
  <2>6. Bounds' /\ ObjectsDisjoint' /\ Order'
    BY <1>1, <1>3, <2>1, <2>2 DEF Bounds, InsideFrame, ObjectsDisjoint, Order
  <2> QED
    BY <1>2, <1>5, <2>3, <2>5, <2>6
<1> QED
  BY <1>6, <1>7

\* The last loop places what is left, below the arrays.
LEMMA AssignObjectInv == IInv /\ AssignObject => IInv'
<1> SUFFICES ASSUME IInv, AssignObject PROVE IInv'
  OBVIOUS
<1> USE DEF IInv
<1>1. /\ phase = "objects" /\ phase' = "objects" /\ mfi' = mfi /\ i' = i + 1
      /\ NumObjects \in Nat /\ i \in Index /\ LargeStackObjs' = LargeStackObjs
      /\ Placed = CSIndex \cup ProtectorSet \cup LargeStackObjs
                  \cup {k \in 0 .. i - 1 : InObjectLoop(k)}
  BY LayoutAssumption DEF AssignObject, Progress, IndexBounds, Index
<1>2. IndexBounds'
  BY <1>1 DEF IndexBounds, Index
<1>3. CSIndex' = CSIndex /\ ProtectorSet' = ProtectorSet
  BY <1>1 DEF CSIndex, ProtectorSet
<1>4. /\ \A k : InObjectLoop(k)' <=> InObjectLoop(k)
      /\ 0 .. i' - 1 = (0 .. i - 1) \cup {i}
  BY <1>1, <1>3 DEF InObjectLoop, Skipped, Index
<1>5. LargeStackObjs' = {k \in Index' : mfi'.protector # NoProtector /\ InLargeLoop(k)'}
  BY <1>1, <1>3 DEF Progress, InLargeLoop, Skipped
<1>6. CallFrameReserved'
  BY <1>1 DEF CallFrameReserved
<1>7. CASE InObjectLoop(i)
  <2>1. /\ Place(i) /\ MaxAlign' \in Nat \ {0}
        /\ i \notin CSIndex /\ i # mfi.protector /\ i \notin LargeStackObjs
    BY <1>1, <1>7
       DEF AssignObject, AdjustStackOffset, Larger, TypeOK, MachineFrameInfo,
           InObjectLoop, Skipped
  <2>2. i \notin Placed
    BY <1>1, <2>1 DEF Index, ProtectorSet
  <2>3. /\ Offset' \in Nat /\ objOffset' \in [Index -> Int]
        /\ objOffset'[i] + mfi.size[i] <= -Offset
        /\ \A l \in Index \ {i} : objOffset'[l] = objOffset[l]
        /\ Placed' = Placed \cup {i}
    BY <1>1, <2>1, PlaceStep
  <2>4. Bounds' /\ ObjectsDisjoint'
    BY <1>1, <2>1, <2>2, PlaceKeepsLayout
  <2>5. TypeOK'
    BY <1>1, <2>1, <2>3, LayoutAssumption DEF TypeOK, AssignObject, Index
  <2>6. {k \in 0 .. i' - 1 : InObjectLoop(k)'} = {k \in 0 .. i - 1 : InObjectLoop(k)} \cup {i}
    BY <1>4, <1>7
  <2>7. Progress'
    BY <1>1, <1>3, <1>5, <2>3, <2>6 DEF Progress
  <2>8. Order'
    <3>1. /\ CSIndex \subseteq Index /\ LargeStackObjs \subseteq Placed
          /\ Placed \subseteq Index /\ Offset \in Nat
          /\ objOffset \in [Index -> Int] /\ mfi.size \in [Index -> Nat]
      BY <1>1 DEF TypeOK, MachineFrameInfo, Placed, CSIndex, Index
    <3>2. \A l \in Placed : objOffset'[i] + mfi.size[i] <= objOffset'[l]
      BY <1>1, <2>2, <2>3, <3>1 DEF Bounds, InsideFrame
    <3>3. mfi.protector \in Placed' => mfi.protector \in Placed
      BY <2>1, <2>3
    <3>4. \A l \in Placed : objOffset'[l] = objOffset[l]
      BY <2>2, <2>3, <3>1
    <3> QED
      BY <1>1, <1>3, <2>1, <2>3, <3>1, <3>2, <3>3, <3>4 DEF Order
  <2> QED
    BY <1>2, <1>6, <2>4, <2>5, <2>7, <2>8
<1>8. CASE ~InObjectLoop(i)
  <2>1. UNCHANGED <<Offset, MaxAlign, objOffset>>
    BY <1>8 DEF AssignObject
  <2>2. Placed' = Placed
    BY <2>1 DEF Placed
  <2>3. TypeOK'
    BY <1>1, <2>1, LayoutAssumption DEF TypeOK, AssignObject, Index
  <2>4. {k \in 0 .. i' - 1 : InObjectLoop(k)'} = {k \in 0 .. i - 1 : InObjectLoop(k)}
    BY <1>4, <1>8
  <2>5. Progress'
    BY <1>1, <1>3, <1>5, <2>2, <2>4 DEF Progress
  <2>6. Bounds' /\ ObjectsDisjoint' /\ Order'
    BY <1>1, <1>3, <2>1, <2>2 DEF Bounds, InsideFrame, ObjectsDisjoint, Order
  <2> QED
    BY <1>2, <1>6, <2>3, <2>5, <2>6
<1> QED
  BY <1>7, <1>8

\* A step between two loops places nothing.
LEMMA EndOfLoopInv ==
    IInv /\ (EndFixedObjects \/ EndCalleeSavedSlots \/ EndLargeObjects) => IInv'
<1> SUFFICES ASSUME IInv, EndFixedObjects \/ EndCalleeSavedSlots \/ EndLargeObjects
             PROVE  IInv'
  OBVIOUS
<1> USE DEF IInv
<1>1. /\ UNCHANGED <<mfi, Offset, MaxAlign, objOffset, LargeStackObjs, StackSize>>
      /\ NumObjects \in Nat /\ mfi.firstCS \in 0 .. NumObjects
  BY LayoutAssumption
     DEF EndFixedObjects, EndCalleeSavedSlots, EndLargeObjects, TypeOK, MachineFrameInfo
<1>2. /\ Placed' = Placed /\ CSIndex' = CSIndex /\ ProtectorSet' = ProtectorSet
      /\ phase' # "done" /\ phase' \in Phases
  BY <1>1 DEF Placed, CSIndex, ProtectorSet, EndFixedObjects, EndCalleeSavedSlots,
              EndLargeObjects, NextLoop, Phases
<1>3. TypeOK'
  BY <1>1, <1>2, LayoutAssumption
     DEF TypeOK, EndFixedObjects, EndCalleeSavedSlots, EndLargeObjects, NextLoop
<1>4. IndexBounds'
  BY <1>1 DEF IndexBounds, EndFixedObjects, EndCalleeSavedSlots, EndLargeObjects,
              NextLoop
<1>5. Bounds' /\ ObjectsDisjoint' /\ Order' /\ CallFrameReserved'
  BY <1>1, <1>2
     DEF Bounds, InsideFrame, ObjectsDisjoint, Order, CallFrameReserved
<1>6. CASE EndFixedObjects
  <2>1. mfi.firstCS .. mfi.firstCS - 1 = {}
    BY <1>1
  <2> QED
    BY <1>1, <1>2, <1>3, <1>4, <1>5, <1>6, <2>1
       DEF Progress, EndFixedObjects, NextLoop
<1>7. CASE EndCalleeSavedSlots
  <2>1. Placed' = CSIndex'
    BY <1>1, <1>2, <1>7 DEF Progress, EndCalleeSavedSlots, CSIndex
  <2> QED
    BY <1>1, <1>2, <1>3, <1>4, <1>5, <1>7, <2>1
       DEF Progress, EndCalleeSavedSlots, NextLoop
<1>8. CASE EndLargeObjects
  <2>1. /\ phase = "large" /\ i = NumObjects /\ phase' = "objects" /\ i' = 0
        /\ mfi.protector # NoProtector
        /\ LargeStackObjs = {k \in 0 .. i - 1 : InLargeLoop(k)}
        /\ Placed = CSIndex \cup ProtectorSet \cup LargeStackObjs
    BY <1>8 DEF Progress, EndLargeObjects, NextLoop
  <2>2. {k \in 0 .. i' - 1 : InObjectLoop(k)'} = {}
    BY <2>1
  <2>3. \A k : InLargeLoop(k)' <=> InLargeLoop(k)
    BY <1>1, <1>2 DEF InLargeLoop, Skipped
  <2>4. LargeStackObjs' = {k \in Index' : mfi'.protector # NoProtector /\ InLargeLoop(k)'}
    BY <1>1, <2>1, <2>3 DEF Index
  <2>5. Progress'
    BY <1>1, <1>2, <2>1, <2>2, <2>4 DEF Progress
  <2> QED
    BY <1>3, <1>4, <1>5, <2>5
<1> QED
  BY <1>6, <1>7, <1>8

\* The last step reserves the outgoing call frame below every object.
LEMMA FinishInv == IInv /\ Finish => IInv'
<1> SUFFICES ASSUME IInv, Finish PROVE IInv'
  OBVIOUS
<1> USE DEF IInv
<1>1. /\ phase = "objects" /\ phase' = "done" /\ i = NumObjects /\ i' = i
      /\ UNCHANGED <<mfi, MaxAlign, objOffset, LargeStackObjs>>
      /\ Offset' = RoundUp(Offset + ReservedCallFrame, FrameAlignment)
      /\ StackSize' = Offset' - LocalAreaOffset
  BY DEF Finish, FrameEnd, FrameSize
<1>2. /\ Offset \in Nat /\ LocalAreaOffset \in Nat /\ LocalAreaOffset <= Offset
      /\ objOffset \in [Index -> Int] /\ Placed \subseteq Index
  BY LayoutAssumption DEF TypeOK, Bounds, Placed
<1>3. ReservedCallFrame \in Nat /\ FrameAlignment \in Nat \ {0}
  BY LayoutAssumption
     DEF ReservedCallFrame, FrameAlignment, Larger, TypeOK, MachineFrameInfo
<1>4. Offset' \in Nat /\ Offset' >= Offset + ReservedCallFrame
  BY <1>1, <1>2, <1>3, RoundUpBound
<1>5. Placed' = Placed /\ CSIndex' = CSIndex /\ ProtectorSet' = ProtectorSet
      /\ ReservedCallFrame' = ReservedCallFrame
  BY <1>1 DEF Placed, CSIndex, ProtectorSet, ReservedCallFrame, hasReservedCallFrame
<1>6. TypeOK'
  BY <1>1, <1>2, <1>3, <1>4 DEF TypeOK, Phases
<1>7. IndexBounds'
  BY <1>1 DEF IndexBounds
<1>8. \A k \in Placed : -Offset <= objOffset[k] /\ objOffset[k] \in Int
  BY <1>2 DEF Bounds, InsideFrame
<1>9. Bounds'
  BY <1>1, <1>2, <1>3, <1>4, <1>5, <1>8 DEF Bounds, InsideFrame
<1>10. ObjectsDisjoint' /\ Order'
  BY <1>1, <1>5 DEF ObjectsDisjoint, Order
<1>11. CallFrameReserved'
  BY <1>1, <1>2, <1>3, <1>4, <1>5, <1>8 DEF CallFrameReserved
<1>12. Progress'
  <2>1. /\ \A k : InLargeLoop(k)' <=> InLargeLoop(k)
        /\ \A k : InObjectLoop(k)' <=> InObjectLoop(k)
    BY <1>1, <1>5 DEF InLargeLoop, InObjectLoop, Skipped
  <2> QED
    BY <1>1, <1>5, <2>1 DEF Progress, Index
<1> QED
  BY <1>6, <1>7, <1>9, <1>10, <1>11, <1>12

-----------------------------------------------------------------------------
(***************************************************************************)
(* The results.                                                            *)
(***************************************************************************)

\* A step of the specification keeps the invariant.
LEMMA NextInv == IInv /\ [Next]_vars => IInv'
<1>1. IInv /\ UNCHANGED vars => IInv'
  BY DEF IInv, vars, TypeOK, IndexBounds, Bounds, InsideFrame, ObjectsDisjoint,
         Progress, Order, CallFrameReserved, Placed, CSIndex, ProtectorSet,
         InLargeLoop, InObjectLoop, Skipped, ReservedCallFrame, hasReservedCallFrame
<1> QED
  BY <1>1, ScanFixedObjectInv, AssignCalleeSavedSlotInv, AssignProtectorInv,
     AssignLargeObjectInv, AssignObjectInv, EndOfLoopInv, FinishInv DEF Next

\* The inductive invariant holds in every reachable state.
THEOREM LayoutInvariant == Spec => []IInv
<1> QED
  BY InitInv, NextInv, PTL DEF Spec

\* Type correctness of the layout's variables.
THEOREM LayoutTypeCorrect == Spec => []TypeOK
<1>1. IInv => TypeOK
  BY DEF IInv
<1> QED
  BY <1>1, LayoutInvariant, PTL

\* No two objects share a word and none leaves the frame, for every number of
\* objects, every size and every alignment.
THEOREM LayoutSafe == Spec => [](InsideFrame /\ ObjectsDisjoint /\ CallFrameReserved)
<1>1. IInv => InsideFrame /\ ObjectsDisjoint /\ CallFrameReserved
  BY DEF IInv, Bounds
<1> QED
  BY <1>1, LayoutInvariant, PTL

\* The loops together place every live object.
THEOREM LayoutComplete == Spec => []EveryLiveObjectPlaced
<1>1. IInv => EveryLiveObjectPlaced
  <2> SUFFICES ASSUME IInv, phase = "done", NEW k \in Index \ mfi.dead
               PROVE  k \in Placed
    BY DEF EveryLiveObjectPlaced
  <2>1. Placed = CSIndex \cup ProtectorSet \cup LargeStackObjs
                 \cup {l \in Index : InObjectLoop(l)}
    BY DEF IInv, Progress
  <2> QED
    BY <2>1 DEF InObjectLoop, Skipped, ProtectorSet
<1> QED
  BY <1>1, LayoutInvariant, PTL

\* The protector's slot separates the arrays from what they must not reach.
THEOREM LayoutProtects == Spec => []ProtectorGuards
<1>1. IInv => ProtectorGuards
  <2> SUFFICES ASSUME IInv, phase = "done", mfi.protector # NoProtector
               PROVE  ProtectorGuards
    BY DEF ProtectorGuards
  <2> DEFINE Locals == Index \ (mfi.dead \cup CSIndex \cup {mfi.protector})
             Arrays == Locals \cap mfi.mayNeedSP
             Others == Placed \ (CSIndex \cup {mfi.protector})
  <2>1. /\ LargeStackObjs = {k \in Index : InLargeLoop(k)}
        /\ Placed = CSIndex \cup ProtectorSet \cup LargeStackObjs
                    \cup {k \in Index : InObjectLoop(k)}
        /\ mfi.protector \in Index
    BY DEF IInv, Progress, TypeOK, MachineFrameInfo
  <2>2. mfi.protector \in Placed
    BY <2>1 DEF ProtectorSet
  <2>3. Arrays = LargeStackObjs
    BY <2>1 DEF InLargeLoop, Skipped
  <2>4. Locals \subseteq Others
    BY <2>1, <2>3 DEF InLargeLoop, InObjectLoop, Skipped
  <2>5. /\ \A k \in CSIndex :
              objOffset[mfi.protector] + mfi.size[mfi.protector] <= objOffset[k]
        /\ \A k \in Others : objOffset[k] + mfi.size[k] <= objOffset[mfi.protector]
        /\ \A k \in LargeStackObjs, l \in Others \ LargeStackObjs :
              objOffset[l] + mfi.size[l] <= objOffset[k]
    BY <2>2 DEF IInv, Order
  <2> QED
    BY <2>3, <2>4, <2>5 DEF ProtectorGuards
<1> QED
  BY <1>1, LayoutInvariant, PTL

\* Placing an object leaves every placed object where it is.
LEMMA PlaceMovesNothing ==
    ASSUME IInv, NEW k \in Index, Place(k), k \notin Placed
    PROVE  \A l \in Placed : objOffset'[l] = objOffset[l]
  BY PlaceStep DEF IInv, Placed

\* An offset, once assigned, is final.
THEOREM LayoutStable == Spec => NeverMoved
<1>1. IInv /\ [Next]_vars => [\A k \in Placed : objOffset'[k] = objOffset[k]]_vars
  <2> SUFFICES ASSUME IInv, Next
               PROVE  \A k \in Placed : objOffset'[k] = objOffset[k]
    OBVIOUS
  <2>1. CASE UNCHANGED objOffset
    BY <2>1
  <2>2. CASE AssignCalleeSavedSlot
    <3>1. i \in Index /\ i \notin Placed /\ Place(i)
      BY <2>2, LayoutAssumption
         DEF AssignCalleeSavedSlot, IInv, IndexBounds, Progress, Index, TypeOK,
             MachineFrameInfo
    <3> QED
      BY <3>1, PlaceMovesNothing
  <2>3. CASE AssignProtector
    <3>1. \/ UNCHANGED objOffset
          \/ mfi.protector \in Index /\ mfi.protector \notin Placed /\ Place(mfi.protector)
      BY <2>3 DEF AssignProtector, AdjustStackOffset, IInv, Progress, TypeOK,
                  MachineFrameInfo, WellFormed, CSIndex
    <3> QED
      BY <3>1, PlaceMovesNothing
  <2>4. CASE AssignLargeObject
    <3>1. \/ UNCHANGED objOffset
          \/ InLargeLoop(i) /\ Place(i)
      BY <2>4 DEF AssignLargeObject, AdjustStackOffset
    <3>2. i \in Index /\ phase = "large"
      BY <2>4, LayoutAssumption DEF AssignLargeObject, IInv, IndexBounds, Index
    <3>3. InLargeLoop(i) => i \notin Placed
      BY <3>2 DEF IInv, Progress, InLargeLoop, Skipped, ProtectorSet, Index
    <3> QED
      BY <3>1, <3>2, <3>3, PlaceMovesNothing
  <2>5. CASE AssignObject
    <3>1. \/ UNCHANGED objOffset
          \/ InObjectLoop(i) /\ Place(i)
      BY <2>5 DEF AssignObject, AdjustStackOffset
    <3>2. i \in Index /\ phase = "objects"
      BY <2>5, LayoutAssumption DEF AssignObject, IInv, IndexBounds, Index
    <3>3. InObjectLoop(i) => i \notin Placed
      BY <3>2 DEF IInv, Progress, InObjectLoop, Skipped, ProtectorSet, Index
    <3> QED
      BY <3>1, <3>2, <3>3, PlaceMovesNothing
  <2> QED
    BY <2>1, <2>2, <2>3, <2>4, <2>5
       DEF Next, ScanFixedObject, EndFixedObjects, EndCalleeSavedSlots,
           EndLargeObjects, Finish
<1> QED
  BY <1>1, LayoutInvariant, PTL DEF Spec, NeverMoved

-----------------------------------------------------------------------------
(***************************************************************************)
(* Alignment.                                                              *)
(***************************************************************************)

AlignmentsOf(f) == {f.align[k] : k \in Index} \cup {f.maxAlignment, StackAlignment}

\* Alignments are powers of two: of any two, the smaller divides the greater.
AlignmentsNest(f) == \A a, b \in AlignmentsOf(f) : a <= b => b % a = 0

\* MachineFrameInfo keeps the largest alignment of the objects it creates.
KnowsMaxAlignment(f) == \A k \in Index : f.align[k] <= f.maxAlignment

PowersOfTwo == \A f \in FrameInfos : AlignmentsNest(f) /\ KnowsMaxAlignment(f)

AlignedSoFar ==
    /\ mfi \in FrameInfos
    /\ MaxAlign = mfi.maxAlignment
    /\ \A k \in Placed : objOffset[k] % mfi.align[k] = 0
    /\ phase = "done" => (StackSize + LocalAreaOffset) % FrameAlignment = 0

LEMMA RemainderOfMultiple ==
    ASSUME NEW q \in Int, NEW a \in Nat \ {0}
    PROVE  (q * a) % a = 0
<1> DEFINE y == q * a
           d == y \div a
           r == y % a
<1>1. y \in Int
  OBVIOUS
<1>2. d \in Int /\ d * a + r = y /\ r \in 0 .. a - 1
  BY <1>1
<1> HIDE DEF d, r
<1>3. r = (q - d) * a
  BY <1>2
<1>4. \A m \in Int : 1 <= m => a <= m * a
  OBVIOUS
<1>5. \A m \in Int : m <= -1 => m * a < 0
  OBVIOUS
<1>6. PICK m \in Int : m = q - d
  BY <1>2
<1>7. r = m * a
  BY <1>3, <1>6
<1>8. ~(1 <= m) /\ ~(m <= -1)
  BY <1>2, <1>4, <1>5, <1>7
<1>9. m = 0
  BY <1>8
<1> QED BY <1>2, <1>7, <1>9 DEF r, y

LEMMA MultipleOfDivisor ==
    ASSUME NEW x \in Int, NEW a \in Nat \ {0}, x % a = 0
    PROVE  \E q \in Int : x = q * a
<1>1. x \div a \in Int /\ (x \div a) * a + (x % a) = x
  OBVIOUS
<1>2. (x \div a) * a = x
  BY <1>1
<1> QED BY <1>1, <1>2

\* What rounding gives is a multiple, and so is its opposite.
LEMMA RoundUpAligned ==
    ASSUME NEW x \in Nat, NEW a \in Nat \ {0}
    PROVE  RoundUp(x, a) % a = 0 /\ (-RoundUp(x, a)) % a = 0
<1>0. (x + a - 1) \div a \in Int
  OBVIOUS
<1>1. PICK q \in Int : RoundUp(x, a) = q * a
  BY <1>0 DEF RoundUp
<1>2. PICK m \in Int : m = -q
  OBVIOUS
<1>3. -(q * a) = m * a
  BY <1>2
<1> QED BY <1>1, <1>2, <1>3, RemainderOfMultiple

LEMMA DividesTransitively ==
    ASSUME NEW x \in Int, NEW b \in Nat \ {0}, NEW a \in Nat \ {0},
           x % b = 0, b % a = 0
    PROVE  x % a = 0
<1>1. PICK q \in Int : x = q * b
  BY MultipleOfDivisor
<1>2. PICK p \in Int : b = p * a
  BY MultipleOfDivisor
<1>3. PICK m \in Int : m = q * p
  OBVIOUS
<1>4. x = m * a
  BY <1>1, <1>2, <1>3
<1> QED BY <1>3, <1>4, RemainderOfMultiple

LEMMA PlaceAligns ==
    ASSUME PowersOfTwo, TypeOK, Bounds, AlignedSoFar, NEW k \in Index, Place(k),
           mfi' = mfi
    PROVE  /\ \A l \in Placed' : objOffset'[l] % mfi'.align[l] = 0
           /\ Larger(MaxAlign, mfi.align[k]) = MaxAlign
<1>1. /\ Offset \in Nat /\ mfi.size[k] \in Nat /\ mfi.align[k] \in Nat \ {0}
      /\ MaxAlign \in Nat /\ objOffset \in [Index -> Int]
  BY DEF TypeOK, MachineFrameInfo
<1>2. /\ \A l \in Index \ {k} : objOffset'[l] = objOffset[l]
      /\ Placed' = Placed \cup {k}
  BY PlaceStep
<1>3. objOffset'[k] = -RoundUp(Offset + mfi.size[k], mfi.align[k])
  BY <1>1 DEF Place
<1>4. objOffset'[k] % mfi.align[k] = 0
  BY <1>1, <1>3, RoundUpAligned
<1>5. \A l \in Placed' : objOffset'[l] % mfi.align[l] = 0
  BY <1>2, <1>4 DEF AlignedSoFar, Placed
<1>6. mfi.align[k] <= MaxAlign
  BY DEF AlignedSoFar, PowersOfTwo, KnowsMaxAlignment
<1> QED BY <1>1, <1>5, <1>6 DEF Larger

\* The last step rounds the frame up to an alignment that is a positive number.
LEMMA FinishAligns ==
    ASSUME IInv, AlignedSoFar, Finish
    PROVE  AlignedSoFar'
<1>1. /\ Offset \in Nat /\ MaxAlign \in Nat \ {0} /\ StackAlignment \in Nat \ {0}
      /\ LocalAreaOffset \in Nat
      /\ ReservedCallFrame \in Nat
  BY LayoutAssumption
     DEF IInv, TypeOK, MachineFrameInfo, ReservedCallFrame
<1>2. FrameAlignment \in Nat \ {0}
  BY <1>1 DEF FrameAlignment, Larger
<1>3. FrameAlignment' = FrameAlignment
  BY DEF Finish, FrameAlignment
<1>4. FrameEnd \in Nat /\ FrameEnd % FrameAlignment = 0
  <2>1. Offset + ReservedCallFrame \in Nat
    BY <1>1
  <2> QED BY <1>2, <2>1, RoundUpBound, RoundUpAligned DEF FrameEnd
<1>5. StackSize' + LocalAreaOffset = FrameEnd
  BY <1>1, <1>4 DEF Finish, FrameSize
<1>6. /\ mfi' = mfi /\ MaxAlign' = MaxAlign /\ objOffset' = objOffset
      /\ Placed' = Placed
  BY DEF Finish, Placed
<1> QED BY <1>3, <1>4, <1>5, <1>6 DEF AlignedSoFar

LEMMA NextAligns ==
    ASSUME PowersOfTwo, IInv, AlignedSoFar, [Next]_vars
    PROVE  AlignedSoFar'
<1>1. TypeOK /\ Bounds
  BY DEF IInv
<1>2. ASSUME mfi' = mfi, phase' # "done" \/ UNCHANGED <<phase, MaxAlign, StackSize>>,
             \/ UNCHANGED <<objOffset, MaxAlign>>
             \/ \E k \in Index :
                  Place(k) /\ (MaxAlign' = MaxAlign \/ MaxAlign' = Larger(MaxAlign, mfi.align[k]))
      PROVE  AlignedSoFar'
  <2>1. phase' = "done" => (StackSize' + LocalAreaOffset) % FrameAlignment' = 0
    BY <1>2 DEF AlignedSoFar, FrameAlignment
  <2>2. CASE UNCHANGED <<objOffset, MaxAlign>>
    BY <1>2, <2>1, <2>2 DEF AlignedSoFar, Placed
  <2>3. CASE \E k \in Index :
               Place(k) /\ (MaxAlign' = MaxAlign \/ MaxAlign' = Larger(MaxAlign, mfi.align[k]))
    <3>1. /\ \A l \in Placed' : objOffset'[l] % mfi'.align[l] = 0
          /\ MaxAlign' = MaxAlign
      BY <1>1, <1>2, <2>3, PlaceAligns
    <3> QED BY <1>2, <2>1, <3>1 DEF AlignedSoFar
  <2> QED BY <1>2, <2>2, <2>3
<1>3. CASE AssignCalleeSavedSlot
  <2>1. i \in Index
    BY <1>3, LayoutAssumption
       DEF AssignCalleeSavedSlot, IInv, IndexBounds, Index, TypeOK, MachineFrameInfo
  <2>2. mfi' = mfi /\ phase' # "done" /\ MaxAlign' = MaxAlign /\ Place(i)
    BY <1>3 DEF AssignCalleeSavedSlot
  <2> QED BY <1>2, <2>1, <2>2
<1>4. CASE AssignProtector
  <2>1. \/ UNCHANGED <<objOffset, MaxAlign>>
        \/ /\ mfi.protector \in Index
           /\ Place(mfi.protector) /\ MaxAlign' = Larger(MaxAlign, mfi.align[mfi.protector])
    BY <1>4 DEF AssignProtector, AdjustStackOffset, IInv, TypeOK, MachineFrameInfo
  <2>2. mfi' = mfi /\ phase' # "done"
    BY <1>4 DEF AssignProtector, NextLoop
  <2> QED BY <1>2, <2>1, <2>2
<1>5. CASE AssignLargeObject \/ AssignObject
  <2>1. i \in Index /\ phase # "done"
    BY <1>5, LayoutAssumption DEF AssignLargeObject, AssignObject, IInv, IndexBounds, Index
  <2>2. \/ UNCHANGED <<objOffset, MaxAlign>>
        \/ Place(i) /\ MaxAlign' = Larger(MaxAlign, mfi.align[i])
    BY <1>5 DEF AssignLargeObject, AssignObject, AdjustStackOffset
  <2>3. mfi' = mfi /\ phase' # "done"
    BY <1>5, <2>1 DEF AssignLargeObject, AssignObject
  <2> QED BY <1>2, <2>1, <2>2, <2>3
<1>6. CASE ScanFixedObject \/ EndFixedObjects \/ EndCalleeSavedSlots \/ EndLargeObjects
  <2>1. mfi' = mfi /\ phase' # "done" /\ UNCHANGED <<objOffset, MaxAlign>>
    BY <1>6 DEF ScanFixedObject, EndFixedObjects, EndCalleeSavedSlots, EndLargeObjects,
                NextLoop
  <2> QED BY <1>2, <2>1
<1>7. CASE Finish
  BY <1>7, FinishAligns
<1>8. CASE UNCHANGED vars
  <2>1. mfi' = mfi /\ UNCHANGED <<phase, MaxAlign, StackSize, objOffset>>
    BY <1>8 DEF vars
  <2> QED BY <1>2, <2>1
<1> QED BY <1>3, <1>4, <1>5, <1>6, <1>7, <1>8 DEF Next

LEMMA AlignedIsEnough ==
    ASSUME PowersOfTwo, IInv, AlignedSoFar
    PROVE  OffsetsAligned
<1>1. ASSUME phase = "done", NEW k \in Placed
      PROVE  (StackSize + LocalAreaOffset) % mfi.align[k] = 0
  <2>1. /\ k \in Index /\ mfi.align[k] \in Nat \ {0}
        /\ MaxAlign \in Nat \ {0} /\ StackAlignment \in Nat \ {0}
        /\ StackSize + LocalAreaOffset \in Int
    BY <1>1, LayoutAssumption DEF IInv, TypeOK, MachineFrameInfo, Placed
  <2>2. mfi.align[k] <= MaxAlign
    BY <2>1 DEF AlignedSoFar, PowersOfTwo, KnowsMaxAlignment
  <2>3. /\ FrameAlignment \in Nat \ {0}
        /\ mfi.align[k] <= FrameAlignment
        /\ FrameAlignment \in {1, StackAlignment, MaxAlign}
    BY <2>1, <2>2 DEF FrameAlignment, Larger
  <2>4. CASE FrameAlignment = 1
    BY <2>1, <2>3, <2>4
  <2>5. CASE FrameAlignment # 1
    <3>1. mfi.align[k] \in AlignmentsOf(mfi) /\ FrameAlignment \in AlignmentsOf(mfi)
      BY <2>1, <2>3, <2>5 DEF AlignmentsOf, AlignedSoFar
    <3>2. FrameAlignment % mfi.align[k] = 0
      BY <2>3, <3>1 DEF AlignedSoFar, PowersOfTwo, AlignmentsNest
    <3>3. (StackSize + LocalAreaOffset) % FrameAlignment = 0
      BY <1>1 DEF AlignedSoFar
    <3> QED BY <2>1, <2>3, <3>2, <3>3, DividesTransitively
  <2> QED BY <2>4, <2>5
<1> QED BY <1>1 DEF OffsetsAligned, AlignedSoFar

\* Every object, and the frame that holds it, has the alignment that was asked
\* for, although only the largest alignment is remembered.
THEOREM LayoutAligns ==
    ASSUME PowersOfTwo
    PROVE  Spec => []OffsetsAligned
<1>1. Init => AlignedSoFar
  BY DEF Init, AlignedSoFar, Placed
<1>2. IInv /\ AlignedSoFar /\ [Next]_vars => AlignedSoFar'
  BY NextAligns
<1>3. IInv /\ AlignedSoFar => OffsetsAligned
  BY AlignedIsEnough
<1> QED BY <1>1, <1>2, <1>3, LayoutInvariant, PTL DEF Spec
=============================================================================
