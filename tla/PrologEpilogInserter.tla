------------------------- MODULE PrologEpilogInserter -------------------------
(***************************************************************************)
(* The PEI pass (lib/CodeGen/PrologEpilogInserter.cpp) with the DCPU16     *)
(* target hooks (lib/Target/DCPU16: DCPU16FrameLowering.cpp and            *)
(* DCPU16RegisterInfo.cpp) on one machine function.  One action per call   *)
(* of PEI::runOnMachineFunction, in its order.                             *)
(*                                                                         *)
(* A function is a record of what the pass reads of it.  Its code is one   *)
(* sequence of instructions per basic block, in which the instructions of  *)
(* the program itself are the single marker BODY: the pass inserts around  *)
(* them.  Every object is a whole number of 16-bit words, aligned to one;  *)
(* FrameLayout treats over-aligned objects and the stack protector.        *)
(***************************************************************************)
EXTENDS Integers, Sequences, FiniteSetsExt, SequencesExt

CONSTANTS
    Functions,        \* the machine functions to compile
    LocalAreaOffset   \* -getOffsetOfLocalArea(): 1 word, the return address

Registers == {"A", "B", "C", "X", "Y", "Z", "I", "J", "EX"}

(***************************************************************************)
(* objects holds the sizes of the locals and spill slots; args counts the  *)
(* words of arguments the caller left on the stack; calls holds the        *)
(* outgoing stack words of each call; used the registers for which         *)
(* isPhysRegOrOverlapUsed is true.                                         *)
(***************************************************************************)
MachineFunction ==
    [ intr : BOOLEAN,
      disableFPElim : BOOLEAN,
      varSized : BOOLEAN,
      frameAddressTaken : BOOLEAN,
      returnAddressTaken : BOOLEAN,
      used : SUBSET Registers,
      objects : Seq(Nat \ {0}),
      args : Nat,
      calls : SUBSET Nat,
      returnBlocks : Nat \ {0} ]

(***************************************************************************)
(* A call's register mask and a dynamic allocation's SUB mark what they    *)
(* define as used; an interrupt handler takes its message in A; the frame  *)
(* pointer is reserved, and reading it marks it as used.                   *)
(***************************************************************************)
WellFormed(f) ==
    /\ IsFiniteSet(f.calls)
    /\ f.calls # {} => {"A", "B", "C", "EX"} \subseteq f.used
    /\ f.varSized => "EX" \in f.used
    /\ f.frameAddressTaken => "J" \in f.used
    /\ f.intr => f.args = 0

ASSUME FunctionsAssumption ==
    /\ LocalAreaOffset \in Nat \ {0}
    /\ Functions \subseteq MachineFunction
    /\ \A f \in Functions : WellFormed(f)

VARIABLES
    mf,         \* the function; never changed
    stage,      \* the call of runOnMachineFunction to run next
    code,       \* its basic blocks
    callCode,   \* what replaced the call frame pseudos of each call
    csi,        \* CalleeSavedInfo: the registers to save, in order
    csSize,     \* DCPU16MachineFunctionInfo::CalleeSavedFrameSize
    fixed,      \* fixed objects and their offsets
    objOffset,  \* offset of every object
    stackSize,  \* MachineFrameInfo::StackSize
    reference   \* base register and displacement that replaced a frame index

compileVars ==
    <<mf, stage, code, callCode, csi, csSize, fixed, objOffset, stackSize, reference>>

Stages ==
    <<"calls", "csr", "spills", "finalize", "layout", "prologue", "epilogue",
      "indices", "compiled">>

Enter(s) ==
    \E n \in 1 .. Len(Stages) - 1 : Stages[n] = s /\ stage = s /\ stage' = Stages[n + 1]

-----------------------------------------------------------------------------
(***************************************************************************)
(* The function before the pass.                                           *)
(***************************************************************************)

BODY == [op |-> "BODY"]
RET == [op |-> "RET"]
RETI == [op |-> "RETI"]
PUSH(r) == [op |-> "PUSH", reg |-> r]
POP(r) == [op |-> "POP", reg |-> r]
MOV(dst, src) == [op |-> "MOV", dst |-> dst, src |-> src]
SUBSP(n) == [op |-> "SUBSP", imm |-> n]
ADDSP(n) == [op |-> "ADDSP", imm |-> n]

ReturnOf(f) == IF f.intr THEN RETI ELSE RET

isReturn(instr) == instr \in {RET, RETI}

\* One block that returns, or an entry block and the blocks it leaves to.
Blocks(f) ==
    IF f.returnBlocks = 1
    THEN << <<BODY, ReturnOf(f)>> >>
    ELSE << <<BODY>> >> \o [b \in 1 .. f.returnBlocks |-> <<BODY, ReturnOf(f)>>]

Locals(f) == {<<"local", k>> : k \in 1 .. Len(f.objects)}
Arguments(f) == {<<"arg", k>> : k \in 0 .. f.args - 1}
ReturnAddress == <<"return", 0>>
SavedFP == <<"fp", 0>>

FixedIndices(f) ==
    Arguments(f) \cup (IF f.returnAddressTaken THEN {ReturnAddress} ELSE {})

\* The fixed objects that instruction selection created: one for each incoming
\* stack word (LowerCCCArguments) and one for the return address.
FixedObjects(f) == [o \in FixedIndices(f) |-> IF o = ReturnAddress THEN -1 ELSE o[2]]

Init ==
    /\ mf \in Functions
    /\ stage = "calls"
    /\ code = Blocks(mf)
    /\ callCode = <<>>
    /\ csi = <<>>
    /\ csSize = 0
    /\ fixed = FixedObjects(mf)
    /\ objOffset = <<>>
    /\ stackSize = 0
    /\ reference = <<>>

-----------------------------------------------------------------------------
(***************************************************************************)
(* Target hooks that only read.                                            *)
(***************************************************************************)

hasFP(f) == f.disableFPElim \/ f.varSized \/ f.frameAddressTaken

hasReservedCallFrame(f) == ~f.varSized

CalleeSavedRegs == <<"X", "Y", "Z", "I", "J">>

CalleeSavedRegsIntr == <<"EX", "B", "C", "X", "Y", "Z", "I", "J">>

getCalleeSavedRegs(f) == IF f.intr THEN CalleeSavedRegsIntr ELSE CalleeSavedRegs

\* Registers the allocator may not give to the body.
getReservedRegs(f) == {"EX"} \cup (IF hasFP(f) THEN {"J"} ELSE {})

MaxCallFrameSize(f) == Max(f.calls \cup {0})

-----------------------------------------------------------------------------
(***************************************************************************)
(* The pass.                                                               *)
(***************************************************************************)

\* What replaces ADJCALLSTACKDOWN and ADJCALLSTACKUP of a call with amount
\* words; LowerCCCCallTo lets no callee pop its arguments.
eliminateCallFramePseudoInstr(f, amount) ==
    IF ~hasReservedCallFrame(f) /\ amount # 0
    THEN [setup |-> <<SUBSP(amount)>>, destroy |-> <<ADDSP(amount)>>]
    ELSE [setup |-> <<>>, destroy |-> <<>>]

calculateCallsInformation ==
    /\ Enter("calls")
    /\ callCode' = [n \in mf.calls |-> eliminateCallFramePseudoInstr(mf, n)]
    /\ UNCHANGED <<mf, code, csi, csSize, fixed, objOffset, stackSize, reference>>

\* The registers of a list that are used, in the order of the list.
UsedOf(list, used) ==
    LET upTo[k \in 0 .. Len(list)] ==
            IF k = 0 THEN <<>>
            ELSE IF list[k] \in used THEN Append(upTo[k - 1], list[k])
                                     ELSE upTo[k - 1]
    IN  upTo[Len(list)]

calculateCalleeSavedRegisters ==
    /\ Enter("csr")
    /\ csi' = UsedOf(getCalleeSavedRegs(mf), mf.used)
    /\ UNCHANGED <<mf, code, callCode, csSize, fixed, objOffset, stackSize, reference>>

\* Seeded fault: pushes in list order.
spillCalleeSavedRegisters_Forward(block) ==
    [n \in 1 .. Len(csi) |-> PUSH(csi[n])] \o block

spillCalleeSavedRegisters(block) ==
    [n \in 1 .. Len(csi) |-> PUSH(csi[Len(csi) + 1 - n])] \o block

\* Seeded fault: pops in the order of the pushes.
restoreCalleeSavedRegisters_Reversed(block) ==
    Front(block) \o [n \in 1 .. Len(csi) |-> POP(csi[Len(csi) + 1 - n])] \o <<Last(block)>>

\* The restores go before the return instruction.
restoreCalleeSavedRegisters(block) ==
    Front(block) \o [n \in 1 .. Len(csi) |-> POP(csi[n])] \o <<Last(block)>>

insertCSRSpillsAndRestores ==
    /\ Enter("spills")
    /\ code' = [b \in DOMAIN code |->
                  LET spilled == IF b = 1 THEN spillCalleeSavedRegisters(code[b])
                                          ELSE code[b]
                  IN  IF isReturn(Last(spilled)) THEN restoreCalleeSavedRegisters(spilled)
                                                 ELSE spilled]
    /\ csSize' = Len(csi)
    /\ UNCHANGED <<mf, callCode, csi, fixed, objOffset, stackSize, reference>>

processFunctionBeforeFrameFinalized ==
    /\ Enter("finalize")
    /\ fixed' = IF hasFP(mf)
                THEN [o \in DOMAIN fixed \cup {SavedFP} |->
                        IF o = SavedFP THEN -1 ELSE fixed[o]]
                ELSE fixed
    /\ UNCHANGED <<mf, code, callCode, csi, csSize, objOffset, stackSize, reference>>

\* Words of the first k locals.
WordsOf(objects, k) ==
    LET words[n \in 0 .. Len(objects)] == IF n = 0 THEN 0 ELSE words[n - 1] + objects[n]
    IN  words[k]

\* One word for each saved register, then the locals one below the other.
calculateFrameObjectOffsets ==
    /\ Enter("layout")
    /\ objOffset' = [o \in Locals(mf) \cup DOMAIN fixed |->
                       IF o \in DOMAIN fixed
                       THEN fixed[o]
                       ELSE -(LocalAreaOffset + Len(csi) + WordsOf(mf.objects, o[2]))]
    /\ stackSize' = Len(csi) + WordsOf(mf.objects, Len(mf.objects))
                    + (IF mf.calls # {} /\ hasReservedCallFrame(mf)
                       THEN MaxCallFrameSize(mf) ELSE 0)
    /\ UNCHANGED <<mf, code, callCode, csi, csSize, fixed, reference>>

IfNonzero(n, instr) == IF n # 0 THEN <<instr>> ELSE <<>>

NumBytes == stackSize - csSize

SaveFP == IF hasFP(mf) THEN <<PUSH("J"), MOV("J", "SP")>> ELSE <<>>

AllocateLocals == IfNonzero(NumBytes, SUBSP(NumBytes))

\* Inserts after the run of pushes that a block starts with.
AfterPushes(block, instrs) ==
    LET n == Max({n \in 0 .. Len(block) : \A m \in 1 .. n : block[m].op = "PUSH"})
    IN  SubSeq(block, 1, n) \o instrs \o SubSeq(block, n + 1, Len(block))

\* Seeded fault: the frame pointer is set up below the saved registers.
emitPrologue_LateFP(block) == AfterPushes(block, SaveFP \o AllocateLocals)

emitPrologue(block) == SaveFP \o AfterPushes(block, AllocateLocals)

insertPrologCode ==
    /\ Enter("prologue")
    /\ code' = [code EXCEPT ![1] = emitPrologue(@)]
    /\ UNCHANGED <<mf, callCode, csi, csSize, fixed, objOffset, stackSize, reference>>

\* POP J goes before the return.
RestoreFP(block) ==
    IF hasFP(mf) THEN Front(block) \o <<POP("J"), Last(block)>> ELSE block

\* Inserts before the run of pops and the return that a block ends with.
BeforePops(block, instrs) ==
    LET n == Min({n \in 1 .. Len(block) : \A m \in n .. Len(block) :
                     block[m].op = "POP" \/ isReturn(block[m])})
    IN  SubSeq(block, 1, n - 1) \o instrs \o SubSeq(block, n, Len(block))

\* Seeded faults: SP is set to the frame pointer and not below the saved
\* registers; the saved registers are added to the frame instead of taken off.
emitEpilogue_AtFP(block) ==
    BeforePops(RestoreFP(block),
               IF mf.varSized THEN <<MOV("SP", "J")>>
                              ELSE IfNonzero(NumBytes, ADDSP(NumBytes)))
emitEpilogue_WrongSign(block) ==
    BeforePops(RestoreFP(block), IfNonzero(stackSize + csSize, ADDSP(stackSize + csSize)))

emitEpilogue(block) ==
    BeforePops(RestoreFP(block),
               IF mf.varSized THEN <<MOV("SP", "J")>> \o IfNonzero(csSize, SUBSP(csSize))
                              ELSE IfNonzero(NumBytes, ADDSP(NumBytes)))

insertEpilogCode ==
    /\ Enter("epilogue")
    /\ code' = [b \in DOMAIN code |->
                  IF isReturn(Last(code[b])) THEN emitEpilogue(code[b]) ELSE code[b]]
    /\ UNCHANGED <<mf, callCode, csi, csSize, fixed, objOffset, stackSize, reference>>

BasePtr == IF hasFP(mf) THEN "J" ELSE "SP"

\* Seeded faults: SP is taken to be where it was on entry; the saved PC is not
\* skipped.
eliminateFrameIndex_EntrySP(o) == [base |-> BasePtr, disp |-> objOffset[o] + 1]
eliminateFrameIndex_NoSkip(o) ==
    [base |-> BasePtr, disp |-> objOffset[o] + (IF hasFP(mf) THEN 0 ELSE stackSize)]

\* Base register and displacement that replace a frame index.
eliminateFrameIndex(o) ==
    [base |-> BasePtr, disp |-> objOffset[o] + 1 + (IF hasFP(mf) THEN 0 ELSE stackSize)]

replaceFrameIndices ==
    /\ Enter("indices")
    /\ reference' = [o \in DOMAIN objOffset |-> eliminateFrameIndex(o)]
    /\ UNCHANGED <<mf, code, callCode, csi, csSize, fixed, objOffset, stackSize>>

runOnMachineFunction ==
    \/ calculateCallsInformation
    \/ calculateCalleeSavedRegisters
    \/ insertCSRSpillsAndRestores
    \/ processFunctionBeforeFrameFinalized
    \/ calculateFrameObjectOffsets
    \/ insertPrologCode
    \/ insertEpilogCode
    \/ replaceFrameIndices
=============================================================================
