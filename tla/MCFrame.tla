-------------------------------- MODULE MCFrame --------------------------------
(***************************************************************************)
(* The functions and handlers FrameExecution is checked on.                *)
(***************************************************************************)
EXTENDS FrameExecution, TLC

Fn(intr, fp, alloca, fa, ra, used, objects, args, calls, returns) ==
    [ intr |-> intr, disableFPElim |-> fp, varSized |-> alloca,
      frameAddressTaken |-> fa, returnAddressTaken |-> ra, used |-> used,
      objects |-> objects, args |-> args, calls |-> calls, returnBlocks |-> returns ]

\* A body uses these callee-saved registers, and a call's mask adds the others.
UsedBy(saved, calls, alloca) ==
    saved \cup (IF calls # {} THEN {"A", "B", "C", "EX"} ELSE {})
          \cup (IF alloca THEN {"EX"} ELSE {})

SavedSets == {{}, {"X"}, {"J"}, {"X", "Z", "J"}}
ObjectSizes == {<<>>, <<1>>, <<2, 1>>}
CallSets == {{}, {0}, {1, 2}}

\* Functions whose frame is addressed from SP.
SPFunctions ==
    { Fn(FALSE, FALSE, FALSE, FALSE, ra, UsedBy(s, c, FALSE), o, a, c, r) :
        ra \in BOOLEAN, s \in SavedSets, o \in ObjectSizes, a \in 0 .. 2, c \in CallSets,
        r \in {1, 2} }

\* Functions that keep a frame pointer in J.
FPFunctions ==
    { Fn(FALSE, TRUE, alloca, fa, FALSE, UsedBy(s \cup (IF fa THEN {"J"} ELSE {}), c, alloca),
         o, 0, c, r) :
        alloca \in BOOLEAN, fa \in BOOLEAN, s \in SavedSets, o \in ObjectSizes,
        c \in CallSets, r \in {1, 2} }

\* An interrupt in the middle of the epilogue of a function with dynamic
\* allocation finds the saved registers below SP (see MCAllocaInterrupt).
Exposed(f) == f.varSized /\ f.used \cap Range(CalleeSavedRegs) # {}

HandlerFunctions ==
    { Fn(TRUE, fp, alloca, FALSE, FALSE, UsedBy(s, c, alloca), o, 0, c, r) :
        fp \in BOOLEAN, alloca \in BOOLEAN, c \in CallSets, r \in {1, 2},
        s \in {{}, {"B"}, {"X", "EX"}, {"C", "Z", "J", "EX"}}, o \in ObjectSizes }

\* Handlers whose own code defines EX, so that EX is saved (see MCHandlerEX).
DefinesEX(f) == "EX" \in f.used \/ f.objects = <<>>

NormalFunctions == SPFunctions \cup FPFunctions
Handlers == {f \in HandlerFunctions : DefinesEX(f)}

MCFunctions == NormalFunctions \cup Handlers

SafelyInterruptible == {f \in NormalFunctions : ~Exposed(f)}

\* Functions with a frame pointer that load an argument from the stack or take
\* their return address.
FPArgumentFunctions ==
    { Fn(FALSE, TRUE, FALSE, FALSE, ra, s, o, a, {}, 1) :
        ra \in BOOLEAN, s \in SavedSets, o \in ObjectSizes, a \in {0, 2} }

ExposedFunctions == {f \in FPFunctions : Exposed(f)}

NoFunction == {}
=============================================================================
