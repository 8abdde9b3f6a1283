---------------------------- MODULE FrameExecution ----------------------------
(***************************************************************************)
(* A DCPU-16 runs the function that PrologEpilogInserter compiled, from    *)
(* the entry to the return.  The processor is external: its instructions   *)
(* are modelled from how the backend uses them (DCPU16InstrInfo.td).       *)
(*                                                                         *)
(* The program's own instructions do, in any order, everything the pass    *)
(* has to allow for: they write registers and stack objects, allocate      *)
(* stack memory and call other functions.  The callees are assumed to keep *)
(* the calling convention that the function is shown to keep.  Interrupts  *)
(* may arrive between any two instructions; their handler uses the stack   *)
(* below the stack pointer and leaves everything else alone.               *)
(*                                                                         *)
(* A word of memory or of a register holds a tag that says whose it is.    *)
(***************************************************************************)
EXTENDS PrologEpilogInserter

CONSTANTS
    EntrySP,       \* stack pointer on entry
    StackTop,      \* highest stack address
    AllocaSize,    \* words of one dynamic allocation
    AllocaBound,   \* words a function may allocate dynamically
    Interruptible  \* functions interrupts may arrive in

ASSUME ExecutionAssumption ==
    /\ EntrySP \in Nat /\ StackTop \in Nat
    /\ AllocaSize \in Nat \ {0} /\ AllocaBound \in Nat
    /\ Interruptible \subseteq Functions

VARIABLES
    pc,         \* block and index of the next instruction
    SP,         \* stack pointer
    reg,        \* the other registers
    mem,        \* the stack
    call,       \* the call under construction
    resume,     \* the word the return popped into PC
    stored,     \* stack objects the program has written
    allocated   \* addresses the program has allocated dynamically

machineVars == <<pc, SP, reg, mem, call, resume, stored, allocated>>

vars == <<compileVars, machineVars>>

Junk == [kind |-> "junk"]
Entry(r) == [kind |-> "entry", reg |-> r]
ReturnPC == [kind |-> "return"]
Arg(k) == [kind |-> "arg", index |-> k]
OutArg(k) == [kind |-> "outarg", index |-> k]
Object(o) == [kind |-> "object", id |-> o]
Address(a) == [kind |-> "address", at |-> a]
Caller(a) == [kind |-> "caller", at |-> a]
Allocated == [kind |-> "alloca"]
NotReturned == [kind |-> "running"]

StackWords == 0 .. StackTop

\* Words the entry pushes: JSR pushes PC, an interrupt pushes PC and A.
Pushed(f) == IF f.intr THEN 2 ELSE 1

FirstArg(f) == EntrySP + Pushed(f)

EntryWord(f, a) ==
    CASE a < EntrySP -> Junk
      [] a = FirstArg(f) - 1 -> ReturnPC
      [] a = EntrySP /\ f.intr -> Entry("A")
      [] a \in FirstArg(f) .. FirstArg(f) + f.args - 1 -> Arg(a - FirstArg(f))
      [] OTHER -> Caller(a)

\* On interrupt A holds the message.
EntryRegister(f, r) == IF f.intr /\ r = "A" THEN Junk ELSE Entry(r)

NoCall == [phase |-> "none", words |-> 0]

ExecInit ==
    /\ Init
    /\ pc = [block |-> 1, index |-> 1]
    /\ SP = EntrySP
    /\ reg = [r \in Registers |-> EntryRegister(mf, r)]
    /\ mem = [a \in StackWords |-> EntryWord(mf, a)]
    /\ call = NoCall
    /\ resume = NotReturned
    /\ stored = {}
    /\ allocated = {}

Running == stage = "compiled" /\ resume = NotReturned

Instr == code[pc.block][pc.index]

At(op) == Running /\ Instr.op = op

InBody == At("BODY")

Advance == pc' = [pc EXCEPT !.index = @ + 1]

ReadWord(a) == IF a \in StackWords THEN mem[a] ELSE Junk

Store(range, value(_)) == mem' = [a \in StackWords |-> IF a \in range THEN value(a) ELSE mem[a]]

\* The address a word is used as; a word that is none of ours addresses 0.
AsAddress(w) == IF w.kind = "address" THEN w.at ELSE 0

Clobber(rs) == reg' = [r \in Registers |-> IF r \in rs THEN Junk ELSE reg[r]]

-----------------------------------------------------------------------------
(***************************************************************************)
(* The instructions that the pass inserts.                                 *)
(***************************************************************************)

Push ==
    /\ At("PUSH")
    /\ SP' = SP - 1
    /\ Store({SP - 1}, LAMBDA a : reg[Instr.reg])
    /\ Advance
    /\ UNCHANGED <<compileVars, reg, call, resume, stored, allocated>>

Pop ==
    /\ At("POP")
    /\ reg' = [reg EXCEPT ![Instr.reg] = ReadWord(SP)]
    /\ SP' = SP + 1
    /\ Advance
    /\ UNCHANGED <<compileVars, mem, call, resume, stored, allocated>>

Move ==
    /\ At("MOV")
    /\ \/ /\ Instr.dst = "SP"
          /\ SP' = AsAddress(reg[Instr.src])
          /\ UNCHANGED reg
       \/ /\ Instr.src = "SP"
          /\ reg' = [reg EXCEPT ![Instr.dst] = Address(SP)]
          /\ UNCHANGED SP
    /\ Advance
    /\ UNCHANGED <<compileVars, mem, call, resume, stored, allocated>>

\* SP after a SUB or ADD.
AfterAdjust(instr, sp) == IF instr.op = "SUBSP" THEN sp - instr.imm ELSE sp + instr.imm

\* SP after what replaced a call frame pseudo: nothing, or one SUB or ADD.
Adjusted(instrs, sp) == IF instrs = <<>> THEN sp ELSE AfterAdjust(Head(instrs), sp)

\* SUB and ADD leave their carry in EX.
AdjustSP ==
    /\ At("SUBSP") \/ At("ADDSP")
    /\ SP' = AfterAdjust(Instr, SP)
    /\ Clobber({"EX"})
    /\ Advance
    /\ UNCHANGED <<compileVars, mem, call, resume, stored, allocated>>

Return ==
    /\ At("RET")
    /\ resume' = ReadWord(SP)
    /\ SP' = SP + 1
    /\ UNCHANGED <<compileVars, pc, reg, mem, call, stored, allocated>>

\* RFI pops A, then PC.
ReturnFromInterrupt ==
    /\ At("RETI")
    /\ reg' = [reg EXCEPT !["A"] = ReadWord(SP)]
    /\ resume' = ReadWord(SP + 1)
    /\ SP' = SP + 2
    /\ UNCHANGED <<compileVars, pc, mem, call, stored, allocated>>

\* The interrupt queue holds interrupts back while a handler runs.
Interrupt ==
    /\ Running
    /\ mf \in Interruptible /\ ~mf.intr
    /\ Store({a \in StackWords : a < SP}, LAMBDA a : Junk)
    /\ UNCHANGED <<compileVars, pc, SP, reg, call, resume, stored, allocated>>

-----------------------------------------------------------------------------
(***************************************************************************)
(* The program's own instructions.                                         *)
(***************************************************************************)

BetweenCalls == InBody /\ call = NoCall

\* Address a frame index was replaced by.
AddressOf(o) ==
    reference[o].disp + (IF reference[o].base = "SP" THEN SP ELSE AsAddress(reg["J"]))

WordsOfObject(o) == AddressOf(o) .. AddressOf(o) + mf.objects[o[2]] - 1

\* The body defines EX, and whatever registers the allocator gave it.
WriteRegister(r) ==
    /\ BetweenCalls
    /\ r \in mf.used
    /\ r = "EX" \/ r \notin getReservedRegs(mf)
    /\ Clobber({r})
    /\ UNCHANGED <<compileVars, pc, SP, mem, call, resume, stored, allocated>>

StoreObject(o) ==
    /\ BetweenCalls
    /\ Store(WordsOfObject(o), LAMBDA a : Object(o))
    /\ stored' = stored \cup {o}
    /\ UNCHANGED <<compileVars, pc, SP, reg, call, resume, allocated>>

\* DYNAMIC_STACKALLOC is expanded to a SUB on SP.
DynamicAlloca ==
    /\ BetweenCalls
    /\ mf.varSized /\ Cardinality(allocated) + AllocaSize <= AllocaBound
    /\ SP' = SP - AllocaSize
    /\ Clobber({"EX"})
    /\ Store(SP - AllocaSize .. SP - 1, LAMBDA a : Allocated)
    /\ allocated' = allocated \cup (SP - AllocaSize .. SP - 1)
    /\ UNCHANGED <<compileVars, pc, call, resume, stored>>

BeginCall(n) ==
    /\ BetweenCalls
    /\ call' = [phase |-> "setup", words |-> n]
    /\ SP' = Adjusted(callCode[n].setup, SP)
    /\ Clobber(IF callCode[n].setup = <<>> THEN {} ELSE {"EX"})
    /\ UNCHANGED <<compileVars, pc, mem, resume, stored, allocated>>

\* Seeded fault: the arguments are stored relative to SP before the call frame.
ArgumentBase_OldSP == Adjusted(callCode[call.words].destroy, SP)

\* LowerCCCCallTo copies SP after the call frame pseudo.
ArgumentBase == SP

\* Stack arguments are stored relative to SP, the first three are in A, B and C.
PassArguments ==
    /\ InBody /\ call.phase = "setup"
    /\ Store(ArgumentBase .. ArgumentBase + call.words - 1,
             LAMBDA a : OutArg(a - ArgumentBase))
    /\ Clobber({"A", "B", "C"})
    /\ call' = [call EXCEPT !.phase = "passed"]
    /\ UNCHANGED <<compileVars, pc, SP, resume, stored, allocated>>

\* JSR, the callee and its return: the callee keeps the calling convention.
Callee ==
    /\ InBody /\ call.phase = "passed"
    /\ Store({a \in StackWords : a < SP + call.words}, LAMBDA a : Junk)
    /\ Clobber(Registers \ Range(CalleeSavedRegs))
    /\ call' = [call EXCEPT !.phase = "returned"]
    /\ UNCHANGED <<compileVars, pc, SP, resume, stored, allocated>>

EndCall ==
    /\ InBody /\ call.phase = "returned"
    /\ call' = NoCall
    /\ SP' = Adjusted(callCode[call.words].destroy, SP)
    /\ Clobber(IF callCode[call.words].destroy = <<>> THEN {} ELSE {"EX"})
    /\ UNCHANGED <<compileVars, pc, mem, resume, stored, allocated>>

\* Control goes on in the block or leaves it for a block that returns.
LeaveBody ==
    /\ BetweenCalls
    /\ \/ /\ pc.index < Len(code[pc.block])
          /\ Advance
       \/ /\ pc.index = Len(code[pc.block])
          /\ \E b \in 2 .. Len(code) : pc' = [block |-> b, index |-> 1]
    /\ UNCHANGED <<compileVars, SP, reg, mem, call, resume, stored, allocated>>

Program ==
    \/ \E r \in Registers : WriteRegister(r)
    \/ \E o \in Locals(mf) : StoreObject(o)
    \/ DynamicAlloca
    \/ \E n \in mf.calls : BeginCall(n)
    \/ PassArguments
    \/ Callee
    \/ EndCall
    \/ LeaveBody

Processor ==
    Push \/ Pop \/ Move \/ AdjustSP \/ Return \/ ReturnFromInterrupt \/ Interrupt

Compile == runOnMachineFunction /\ UNCHANGED machineVars

\* The caller goes on.
Finished == stage = "compiled" /\ ~Running /\ UNCHANGED vars

Next == Compile \/ Processor \/ Program \/ Finished

Spec == ExecInit /\ [][Next]_vars

-----------------------------------------------------------------------------
(***************************************************************************)
(* Properties.                                                             *)
(***************************************************************************)

\* The machine's variables have their types; the stack does not overflow its
\* bound here, so no property holds for want of memory.
TypeOK ==
    /\ mf \in Functions
    /\ stage \in Range(Stages)
    /\ SP \in StackWords
    /\ DOMAIN reg = Registers
    /\ DOMAIN mem = StackWords
    /\ stored \subseteq Locals(mf)
    /\ allocated \subseteq StackWords

\* Registers the code a function returns to still needs.
Preserved(f) == IF f.intr THEN Registers ELSE Range(CalleeSavedRegs)

\* The registers the caller, or the interrupted program, still needs are back
\* when the function returns, whatever the body, its callees and interrupts
\* did to them: spillCalleeSavedRegisters and restoreCalleeSavedRegisters pair up.
RegistersRestored ==
    stage = "compiled" /\ ~Running => \A r \in Preserved(mf) : reg[r] = Entry(r)

\* The return pops the address the entry pushed, and the stack pointer is back
\* where it was: every path through prologue and epilogue is balanced.
StackBalanced ==
    stage = "compiled" /\ ~Running => resume = ReturnPC /\ SP = FirstArg(mf)

\* What the program stored in a stack object, or in memory that it allocated
\* dynamically, stays there: no push, outgoing argument, allocation, callee or
\* interrupt reaches it, and every frame index goes on denoting the same words.
ObjectsKept ==
    InBody =>
        /\ \A o \in stored : \A a \in WordsOfObject(o) : ReadWord(a) = Object(o)
        /\ \A a \in allocated : ReadWord(a) = Allocated

\* A frame index of an incoming argument denotes the word the caller stored,
\* and that of llvm.returnaddress(0) the return address.
ArgumentsReachable ==
    InBody =>
        /\ \A k \in 0 .. mf.args - 1 : ReadWord(AddressOf(<<"arg", k>>)) = Arg(k)
        /\ mf.returnAddressTaken => ReadWord(AddressOf(ReturnAddress)) = ReturnPC

\* The callee finds stack argument k at the k-th word above the return address
\* that JSR pushes, although interrupts arrive while the call is built.
OutgoingArgumentsInPlace ==
    call.phase = "passed" =>
        \A k \in 0 .. call.words - 1 : ReadWord(SP + k) = OutArg(k)

\* With a frame pointer the frames form the chain that LowerFRAMEADDR and
\* LowerRETURNADDR walk: J points at the saved J, the return address is above.
FrameChain ==
    InBody /\ hasFP(mf) /\ ~mf.intr =>
        /\ ReadWord(AsAddress(reg["J"])) = Entry("J")
        /\ ReadWord(AsAddress(reg["J"]) + 1) = ReturnPC

(***************************************************************************)
(* Seen from the caller the activation is the single step of CallABI.      *)
(***************************************************************************)
HasReturned == resume # NotReturned

ABI == INSTANCE CallABI WITH
    convention <- [ preserved |-> Preserved(mf), popped |-> Pushed(mf), args |-> mf.args ],
    status <- IF HasReturned THEN "returned" ELSE "called",
    sp <- IF HasReturned THEN SP ELSE EntrySP,
    regs <- IF HasReturned THEN reg ELSE [r \in Registers |-> Entry(r)],
    stack <- IF HasReturned THEN mem ELSE [a \in StackWords |-> EntryWord(mf, a)],
    resume <- resume

ImplementsCallABI == ABI!Spec
=============================================================================
