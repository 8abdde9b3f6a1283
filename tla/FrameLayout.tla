----------------------------- MODULE FrameLayout -----------------------------
(***************************************************************************)
(* PEI::calculateFrameObjectOffsets (lib/CodeGen/PrologEpilogInserter.cpp) *)
(* as the DCPU16 target runs it: the stack grows down, there is no         *)
(* register scavenger and no pre-allocated local block.                    *)
(*                                                                         *)
(* An offset is counted in 16-bit words from one word above the return     *)
(* address: the return address is at offset -1, the first word of the      *)
(* local area at -1 - LocalAreaOffset.  The pass walks the abstract stack  *)
(* objects in four loops and gives each one an offset; one action is one   *)
(* iteration of a loop.                                                    *)
(***************************************************************************)
EXTENDS Integers

CONSTANTS
    LocalAreaOffset,  \* -getOffsetOfLocalArea(): 1 word, the return address
    StackAlignment,   \* getStackAlignment()
    NumObjects,       \* getObjectIndexEnd()
    NumFixed,         \* number of fixed objects, with indices -NumFixed .. -1
    FrameInfos        \* the frames to lay out

Index == 0 .. NumObjects - 1

FixedIndex == -NumFixed .. -1

NoProtector == -1

\* The offset the machine frame info holds for an object not laid out yet.
Unassigned == 0

(***************************************************************************)
(* What the pass reads of MachineFrameInfo.  Callee-saved slots are the    *)
(* last objects created: those from firstCS on (none when firstCS is       *)
(* NumObjects).  A variable-sized object has size 0.                       *)
(***************************************************************************)
MachineFrameInfo ==
    [ size : [Index -> Nat],
      align : [Index -> Nat \ {0}],
      fixedOffset : [FixedIndex -> Int],
      dead : SUBSET Index,
      mayNeedSP : SUBSET Index,
      protector : Index \cup {NoProtector},
      firstCS : 0 .. NumObjects,
      maxAlignment : Nat \ {0},
      varSized : BOOLEAN,
      adjustsStack : BOOLEAN,
      maxCallFrameSize : Nat ]

(***************************************************************************)
(* A callee-saved slot is created by this pass after every optimisation,   *)
(* so it is never removed, never an array and never the protector's slot;  *)
(* the protector's slot is a live pointer.                                 *)
(***************************************************************************)
WellFormed(f) ==
    /\ (f.firstCS .. NumObjects - 1) \cap (f.dead \cup f.mayNeedSP \cup {f.protector}) = {}
    /\ f.protector \notin f.dead \cup f.mayNeedSP

ASSUME LayoutAssumption ==
    /\ LocalAreaOffset \in Nat \ {0}
    /\ StackAlignment \in Nat \ {0}
    /\ NumObjects \in Nat
    /\ NumFixed \in Nat
    /\ FrameInfos \subseteq MachineFrameInfo
    /\ \A f \in FrameInfos : WellFormed(f)

VARIABLES
    mfi,            \* the frame info before the layout; never changed
    phase,          \* the loop that runs
    i,              \* its index
    Offset,         \* distance from the stack top, grows with every object
    MaxAlign,       \* largest alignment met
    objOffset,      \* offsets assigned so far
    LargeStackObjs, \* objects laid out by the stack protector loop
    StackSize       \* the result

vars == <<mfi, phase, i, Offset, MaxAlign, objOffset, LargeStackObjs, StackSize>>

Phases == {"fixed", "cs", "protector", "large", "objects", "done"}

Larger(a, b) == IF a >= b THEN a ELSE b

\* Seeded fault: rounds down.
RoundUp_Truncated(x, a) == (x \div a) * a

RoundUp(x, a) == ((x + a - 1) \div a) * a

CSIndex == mfi.firstCS .. NumObjects - 1

\* Objects some loop has placed: every placed object is below the return address.
Placed == {k \in Index : objOffset[k] # Unassigned}

hasReservedCallFrame == ~mfi.varSized

Init ==
    /\ mfi \in FrameInfos
    /\ phase = "fixed"
    /\ i = -NumFixed
    /\ Offset = LocalAreaOffset
    /\ MaxAlign = mfi.maxAlignment
    /\ objOffset = [k \in Index |-> Unassigned]
    /\ LargeStackObjs = {}
    /\ StackSize = 0

-----------------------------------------------------------------------------
(***************************************************************************)
(* The four loops.                                                         *)
(***************************************************************************)

\* Seeded fault: the alignment is ignored.
Place_Unaligned(k) ==
    /\ Offset' = Offset + mfi.size[k]
    /\ objOffset' = [objOffset EXCEPT ![k] = -Offset']

\* Gives object k the words just below everything placed so far.
Place(k) ==
    LET o == RoundUp(Offset + mfi.size[k], mfi.align[k])
    IN  /\ Offset' = o
        /\ objOffset' = [objOffset EXCEPT ![k] = -o]

AdjustStackOffset(k) ==
    /\ Place(k)
    /\ MaxAlign' = Larger(MaxAlign, mfi.align[k])

NextLoop(p, first) ==
    /\ phase' = p
    /\ i' = first

ScanFixedObject ==
    /\ phase = "fixed" /\ i < 0
    /\ Offset' = Larger(Offset, -mfi.fixedOffset[i])
    /\ i' = i + 1
    /\ UNCHANGED <<mfi, phase, MaxAlign, objOffset, LargeStackObjs, StackSize>>

EndFixedObjects ==
    /\ phase = "fixed" /\ i = 0
    /\ NextLoop("cs", mfi.firstCS)
    /\ UNCHANGED <<mfi, Offset, MaxAlign, objOffset, LargeStackObjs, StackSize>>

AssignCalleeSavedSlot ==
    /\ phase = "cs" /\ i < NumObjects
    /\ Place(i)
    /\ i' = i + 1
    /\ UNCHANGED <<mfi, phase, MaxAlign, LargeStackObjs, StackSize>>

EndCalleeSavedSlots ==
    /\ phase = "cs" /\ i = NumObjects
    /\ NextLoop("protector", 0)
    /\ UNCHANGED <<mfi, Offset, MaxAlign, objOffset, LargeStackObjs, StackSize>>

\* Seeded fault: the arrays get no loop of their own.
AssignProtector_NoLargeLoop ==
    /\ phase = "protector"
    /\ \/ mfi.protector # NoProtector /\ AdjustStackOffset(mfi.protector)
       \/ mfi.protector = NoProtector /\ UNCHANGED <<Offset, MaxAlign, objOffset>>
    /\ NextLoop("objects", 0)
    /\ UNCHANGED <<mfi, LargeStackObjs, StackSize>>

AssignProtector ==
    /\ phase = "protector"
    /\ \/ /\ mfi.protector # NoProtector
          /\ AdjustStackOffset(mfi.protector)
          /\ NextLoop("large", 0)
       \/ /\ mfi.protector = NoProtector
          /\ NextLoop("objects", 0)
          /\ UNCHANGED <<Offset, MaxAlign, objOffset>>
    /\ UNCHANGED <<mfi, LargeStackObjs, StackSize>>

\* The "continue" conditions that both loops over the objects share.
Skipped(k) == k \in CSIndex \/ k \in mfi.dead \/ k = mfi.protector

InLargeLoop(k) == ~Skipped(k) /\ k \in mfi.mayNeedSP

\* Seeded faults: arrays are always, or never, left out of the last loop.
InObjectLoop_NoArrays(k) == ~Skipped(k) /\ k \notin mfi.mayNeedSP
InObjectLoop_Twice(k) == ~Skipped(k)

InObjectLoop(k) == ~Skipped(k) /\ k \notin LargeStackObjs

AssignLargeObject ==
    /\ phase = "large" /\ i < NumObjects
    /\ \/ /\ InLargeLoop(i)
          /\ AdjustStackOffset(i)
          /\ LargeStackObjs' = LargeStackObjs \cup {i}
       \/ /\ ~InLargeLoop(i)
          /\ UNCHANGED <<Offset, MaxAlign, objOffset, LargeStackObjs>>
    /\ i' = i + 1
    /\ UNCHANGED <<mfi, phase, StackSize>>

EndLargeObjects ==
    /\ phase = "large" /\ i = NumObjects
    /\ NextLoop("objects", 0)
    /\ UNCHANGED <<mfi, Offset, MaxAlign, objOffset, LargeStackObjs, StackSize>>

AssignObject ==
    /\ phase = "objects" /\ i < NumObjects
    /\ \/ /\ InObjectLoop(i)
          /\ AdjustStackOffset(i)
       \/ /\ ~InObjectLoop(i)
          /\ UNCHANGED <<Offset, MaxAlign, objOffset>>
    /\ i' = i + 1
    /\ UNCHANGED <<mfi, phase, LargeStackObjs, StackSize>>

\* The outgoing call frame, counted when it is reserved on entry.
ReservedCallFrame ==
    IF mfi.adjustsStack /\ hasReservedCallFrame THEN mfi.maxCallFrameSize ELSE 0

\* getTransientStackAlignment() is 1 on this target.
FrameAlignment ==
    Larger(IF mfi.adjustsStack \/ mfi.varSized THEN StackAlignment ELSE 1, MaxAlign)

FrameEnd == RoundUp(Offset + ReservedCallFrame, FrameAlignment)

FrameSize(end) == end - LocalAreaOffset

Finish ==
    /\ phase = "objects" /\ i = NumObjects
    /\ Offset' = FrameEnd
    /\ StackSize' = FrameSize(FrameEnd)
    /\ phase' = "done"
    /\ UNCHANGED <<mfi, i, MaxAlign, objOffset, LargeStackObjs>>

Next ==
    \/ ScanFixedObject
    \/ EndFixedObjects
    \/ AssignCalleeSavedSlot
    \/ EndCalleeSavedSlots
    \/ AssignProtector
    \/ AssignLargeObject
    \/ EndLargeObjects
    \/ AssignObject
    \/ Finish

Spec == Init /\ [][Next]_vars

-----------------------------------------------------------------------------
(***************************************************************************)
(* Properties.                                                             *)
(***************************************************************************)

\* The variables have the types of their C++ counterparts.
TypeOK ==
    /\ mfi \in MachineFrameInfo
    /\ WellFormed(mfi)
    /\ phase \in Phases
    /\ i \in -NumFixed .. NumObjects
    /\ Offset \in Nat
    /\ MaxAlign \in Nat \ {0}
    /\ objOffset \in [Index -> Int]
    /\ LargeStackObjs \in SUBSET Index
    /\ StackSize \in Nat

\* Every placed object lies between the local area's start and the distance
\* allocated so far, so that the pushes and the SUB of the prologue cover it.
InsideFrame ==
    \A k \in Placed :
        /\ -Offset <= objOffset[k]
        /\ objOffset[k] + mfi.size[k] <= -LocalAreaOffset

\* No word belongs to two objects, whichever loop placed them.
ObjectsDisjoint ==
    \A k, l \in Placed :
        k # l => \/ objOffset[k] + mfi.size[k] <= objOffset[l]
                 \/ objOffset[l] + mfi.size[l] <= objOffset[k]

\* The words at the bottom of the frame, where calls store their outgoing
\* arguments, belong to no object when the call frame is reserved.
CallFrameReserved ==
    phase = "done" =>
        \A k \in Placed :
            -(LocalAreaOffset + StackSize) + ReservedCallFrame <= objOffset[k]

\* When the pass ends every live object has an offset, placed by one of the
\* loops although three lists of "continue" conditions skip it in the others.
EveryLiveObjectPlaced ==
    phase = "done" => Index \ mfi.dead \subseteq Placed

\* The stack protector slot separates what an overrun of a local array can
\* reach from the callee-saved registers and the return address: arrays lie
\* below the slot, saved registers above it, other locals below the arrays.
ProtectorGuards ==
    (phase = "done" /\ mfi.protector # NoProtector) =>
        LET guard == objOffset[mfi.protector]
            Locals == Index \ (mfi.dead \cup CSIndex \cup {mfi.protector})
            Arrays == Locals \cap mfi.mayNeedSP
        IN  /\ \A k \in Arrays : objOffset[k] + mfi.size[k] <= guard
            /\ \A k \in CSIndex : guard + mfi.size[mfi.protector] <= objOffset[k]
            /\ \A k \in Arrays, l \in Locals \ Arrays :
                   objOffset[l] + mfi.size[l] <= objOffset[k]

\* Offsets honour the alignment of their object, and the frame size that of
\* every object, so SP-relative addresses keep it.
OffsetsAligned ==
    /\ \A k \in Placed : objOffset[k] % mfi.align[k] = 0
    /\ phase = "done" =>
           \A k \in Placed : (StackSize + LocalAreaOffset) % mfi.align[k] = 0

\* A placed object never moves: code is generated against one offset.
NeverMoved == [][\A k \in Placed : objOffset'[k] = objOffset[k]]_vars
=============================================================================
