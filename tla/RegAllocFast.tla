----------------------------- MODULE RegAllocFast -----------------------------
(***************************************************************************)
(* The fast register allocator (RegAllocFast.cpp), which llc -O0 runs on   *)
(* every function.  It goes through a block once, forwards, with a map of  *)
(* the physical registers; it decides that a value is dead from what is    *)
(* left of the use-def chain of its register in the whole function, puts   *)
(* stores in front of instructions, and writes a kill flag on an operand   *)
(* it passed long before.  Between blocks, every value is in its slot.     *)
(*                                                                         *)
(* An instruction is an operation and its register operands.  The DCPU-16  *)
(* has no aliases and no subregisters, and no instruction of it has an     *)
(* early clobber or a tied operand next to the definition of an            *)
(* allocatable physical register; values for the debugger are left out.    *)
(***************************************************************************)
EXTENDS Integers, Sequences, FiniteSets, SequencesExt, FiniteSetsExt, TLC

CONSTANTS
    Order,       \* allocatable registers, in the order of allocation
    Virt,        \* virtual registers
    None,        \* no register; no instruction
    Clobbered,   \* registers that a call does not preserve
    Functions    \* the functions of the program

Phys == ToSet(Order)

\* What PhysRegState says of a register that holds no value.
PhysRegStates == {"disabled", "free", "reserved"}

Registered == Phys \cup Virt
Kinds == {"def", "ec", "use", "tied", "imp"}
Operands(regs) == [reg : regs, kind : Kinds, kill : BOOLEAN]
Code == Seq(Seq([op : STRING, ops : Seq(Operands(Registered))]))

ASSUME RegAllocAssumption ==
    /\ Order \in Seq(Phys) \ {<<>>}
    /\ IsFiniteSet(Virt)
    /\ Virt \cap (Phys \cup PhysRegStates) = {}
    /\ {<<v>> : v \in Virt} \cap Registered = {}
    /\ None \notin Registered
    /\ Clobbered \subseteq Phys

\* Copies have two operands; the registers live into and out of a function are physical.
ASSUME FunctionsAssumption ==
    \A f \in Functions :
        /\ f.blocks \in Code
        /\ \A b \in DOMAIN f.blocks : \A i \in DOMAIN f.blocks[b] :
                f.blocks[b][i].op = "COPY" => Len(f.blocks[b][i].ops) = 2
        /\ \A b \in DOMAIN f.blocks : f.succs[b] \subseteq DOMAIN f.blocks
        /\ f.liveins \cup f.liveouts \subseteq Phys

VARIABLES
    function,    \* the function before allocation
    mbb,         \* the block being allocated
    at,          \* MII
    ra           \* the state of RAFast, with the code it rewrites

vars == <<function, mbb, at, ra>>

(***************************************************************************)
(* A function has blocks, successors of each, the registers live into its  *)
(* entry and out of its return.  Kinds of operands: "def", "ec" (early     *)
(* clobber), "use", "tied", "imp" (use by a call or by the return).        *)
(***************************************************************************)
Operand(reg, kind, kill) == [reg |-> reg, kind |-> kind, kill |-> kill]
Instr(op, ops) == [op |-> op, ops |-> ops]
isUse(o) == o.kind \in {"use", "tied", "imp"}
isTerminator(i) == i.op \in {"BR", "JMP", "RET"}

-----------------------------------------------------------------------------
(***************************************************************************)
(* Members of RAFast: functions of its state s.  m is the place of an      *)
(* instruction, <<block, index>>.                                          *)
(***************************************************************************)
Op(s, m, k) == s.code[m[1]][m[2]].ops[k]
setReg(s, m, k, reg) == [s EXCEPT !.code[m[1]][m[2]].ops[k].reg = reg]
setIsKill(s, m, k, kill) == [s EXCEPT !.code[m[1]][m[2]].ops[k].kill = kill]
Insert(s, m, i) == [s EXCEPT !.inserted[m[1]][m[2]] = Append(@, i)]

\* The operands that still name the virtual register v.
Chain(s, v) ==
    UNION {UNION {{<<b, i, k>> : k \in {j \in DOMAIN s.code[b][i].ops : s.code[b][i].ops[j].reg = v}} :
                    i \in DOMAIN s.code[b]} : b \in DOMAIN s.code}

storeRegToStackSlot(s, m, reg, kill, v) ==
    Insert(s, m, Instr("COPY", <<Operand(<<v>>, "def", FALSE), Operand(reg, "use", kill)>>))
loadRegFromStackSlot(s, m, reg, v) ==
    Insert(s, m, Instr("COPY", <<Operand(reg, "def", FALSE), Operand(<<v>>, "use", FALSE)>>))

getStackSpaceFor(s, v) == [s EXCEPT !.StackSlotForVirtReg = @ \cup {v}]

\* Seeded fault: a register with a slot counts as local.
isLastUseOfLocalReg_NoSlot(s, m, k, v) == Chain(s, v) = {<<m[1], m[2], k>>}

isLastUseOfLocalReg(s, m, k, v) ==
    /\ v \notin s.StackSlotForVirtReg
    /\ Chain(s, v) = {<<m[1], m[2], k>>}

addKillFlag(s, lr) ==
    IF lr.LastUse # None /\ Op(s, lr.LastUse, lr.LastOpNum).kind \in {"use", "imp"}
    THEN setIsKill(s, lr.LastUse, lr.LastOpNum, TRUE)
    ELSE s

killVirtReg(s, v) ==
    IF v \notin DOMAIN s.LiveVirtRegs THEN s
    ELSE LET lr == s.LiveVirtRegs[v] IN
         [addKillFlag(s, lr) EXCEPT
            !.PhysRegState[lr.PhysReg] = "free",
            !.LiveVirtRegs = [w \in DOMAIN @ \ {v} |-> @[w]]]

\* Seeded fault: the store kills the register, even if the instruction behind it uses it.
spillVirtReg_Kills(s, m, v) ==
    LET lr == s.LiveVirtRegs[v]
        stored == storeRegToStackSlot(getStackSpaceFor(s, v), m, lr.PhysReg, TRUE, v)
    IN  IF ~lr.Dirty THEN killVirtReg(s, v)
        ELSE killVirtReg([stored EXCEPT !.LiveVirtRegs[v].Dirty = FALSE, !.LiveVirtRegs[v].LastUse = None], v)

spillVirtReg(s, m, v) ==
    LET lr == s.LiveVirtRegs[v]
        SpillKill == lr.LastUse # m
        stored == storeRegToStackSlot(getStackSpaceFor(s, v), m, lr.PhysReg, SpillKill, v)
    IN  IF ~lr.Dirty THEN killVirtReg(s, v)
        ELSE killVirtReg([stored EXCEPT !.LiveVirtRegs[v].Dirty = FALSE,
                                        !.LiveVirtRegs[v].LastUse = IF SpillKill THEN None ELSE @], v)

\* In the order of the map, which is arbitrary.
spillAll(s, m) ==
    LET regs == SetToSeq(DOMAIN s.LiveVirtRegs)
        spilled[n \in 0 .. Len(regs)] == IF n = 0 THEN s ELSE spillVirtReg(spilled[n - 1], m, regs[n])
    IN  spilled[Len(regs)]

\* llvm_unreachable("Instruction uses an allocated register") ends in "errors".
usePhysReg(s, m, k) ==
    LET r == Op(s, m, k).reg IN
    IF s.PhysRegState[r] \in Virt
    THEN [s EXCEPT !.errors = @ \cup {"Instruction uses an allocated register"}]
    ELSE setIsKill([s EXCEPT !.PhysRegState[r] = "free", !.UsedInInstr = @ \cup {r}], m, k, TRUE)

\* Seeded fault: the value in the register is forgotten and not spilled.
definePhysReg_NoSpill(s, m, r, state) ==
    [s EXCEPT !.UsedInInstr = @ \cup {r}, !.PhysRegState[r] = state]

definePhysReg(s, m, r, state) ==
    LET t == IF s.PhysRegState[r] \in Virt THEN spillVirtReg(s, m, s.PhysRegState[r]) ELSE s
    IN  [t EXCEPT !.UsedInInstr = @ \cup {r}, !.PhysRegState[r] = state]

spillClean == 1
spillDirty == 100
spillImpossible == 1000

calcSpillCost(s, r) ==
    LET state == s.PhysRegState[r] IN
    IF r \in s.UsedInInstr \/ state = "reserved" THEN spillImpossible
    ELSE IF state \notin Virt THEN 0
    ELSE IF s.LiveVirtRegs[state].Dirty THEN spillDirty ELSE spillClean

assignVirtToPhysReg(s, v, r) ==
    [s EXCEPT !.PhysRegState[r] = v, !.LiveVirtRegs[v].PhysReg = r]

\* Takes the register r for v; llc stops when there is none.
takeReg(s, v, r, cost) ==
    assignVirtToPhysReg(
        [s EXCEPT !.errors = IF cost = spillImpossible THEN @ \cup {"ran out of registers"} ELSE @], v, r)

allocVirtReg(s, m, v, Hint) ==
    LET Free == {n \in DOMAIN Order : s.PhysRegState[Order[n]] = "free" /\ Order[n] \notin s.UsedInInstr}
        Cost(n) == calcSpillCost(s, Order[n])
        Cheapest == {n \in DOMAIN Order : \A o \in DOMAIN Order : Cost(n) <= Cost(o)}
        Best == Min(IF Free # {} THEN Free ELSE Cheapest)
        r == IF Hint \in Phys /\ calcSpillCost(s, Hint) < spillDirty THEN Hint ELSE Order[Best]
        cost == calcSpillCost(s, r)
    IN  takeReg(IF cost = 0 THEN s ELSE definePhysReg(s, m, r, "free"), v, r, cost)

\* LiveReg(v), inserted in LiveVirtRegs.
NewLiveReg(s, v) ==
    [s EXCEPT !.LiveVirtRegs =
        [w \in DOMAIN @ \cup {v} |->
            IF w = v THEN [PhysReg |-> None, LastUse |-> None, LastOpNum |-> 0, Dirty |-> FALSE] ELSE @[w]]]

\* The end of defineVirtReg and of reloadVirtReg: operand k of m is now the last.
Touched(s, m, k, v, dirty) ==
    [s EXCEPT !.LiveVirtRegs[v].LastUse = m, !.LiveVirtRegs[v].LastOpNum = k,
              !.LiveVirtRegs[v].Dirty = dirty,
              !.UsedInInstr = @ \cup {s.LiveVirtRegs[v].PhysReg}]

\* The destination of the copy that is the only use of v.
CopyHint(s, v, Hint) ==
    LET uses == {p \in Chain(s, v) : isUse(Op(s, <<p[1], p[2]>>, p[3]))}
        use == CHOOSE p \in uses : TRUE
    IN  IF Hint \notin Phys /\ Cardinality(uses) = 1 /\ s.code[use[1]][use[2]].op = "COPY"
        THEN Op(s, <<use[1], use[2]>>, 1).reg
        ELSE Hint

defineVirtReg(s, m, k, v, Hint) ==
    LET lr == s.LiveVirtRegs[v]
        found ==
            IF v \notin DOMAIN s.LiveVirtRegs
            THEN allocVirtReg(NewLiveReg(s, v), m, v, CopyHint(s, v, Hint))
            ELSE IF lr.LastUse # None /\ (lr.LastUse # m \/ isUse(Op(s, m, lr.LastOpNum)))
            THEN addKillFlag(s, lr)
            ELSE s
    IN  Touched(found, m, k, v, TRUE)

\* Loads v into the register that it has been given.
Reloaded(s, m, v) ==
    loadRegFromStackSlot(getStackSpaceFor(s, v), m, s.LiveVirtRegs[v].PhysReg, v)

reloadVirtReg(s, m, k, v, Hint) ==
    LET dirty == s.LiveVirtRegs[v].Dirty IN
    IF v \notin DOMAIN s.LiveVirtRegs
        THEN Touched(Reloaded(allocVirtReg(NewLiveReg(s, v), m, v, Hint), m, v), m, k, v, FALSE)
        ELSE Touched(setIsKill(s, m, k, dirty /\ isLastUseOfLocalReg(s, m, k, v)), m, k, v, dirty)

-----------------------------------------------------------------------------
(***************************************************************************)
(* AllocateBasicBlock: the scans of one instruction, each from its first   *)
(* operand to its last.                                                    *)
(***************************************************************************)
NumOperands(s, m) == Len(s.code[m[1]][m[2]].ops)

FirstScan(s, m) ==
    LET use(t, k) == IF Op(t, m, k).reg \in Phys /\ isUse(Op(t, m, k)) THEN usePhysReg(t, m, k) ELSE t
        scan[k \in 0 .. NumOperands(s, m)] ==
            IF k = 0 THEN [s EXCEPT !.UsedInInstr = {}] ELSE use(scan[k - 1], k)
    IN  scan[NumOperands(s, m)]

\* Writes the register of v into operand k.
setPhysReg(s, m, k, v) == setReg(s, m, k, s.LiveVirtRegs[v].PhysReg)

\* The other operand of a copy, if that is v or its register r: by then, r.
Follow(copyReg, v, r) == IF copyReg \in {v, r} THEN r ELSE None

Registers(s, m, kinds) == {o.reg : o \in {x \in ToSet(s.code[m[1]][m[2]].ops) : x.kind \in kinds}} \cap Phys

HasEarlyClobbers(s, m) == \E o \in ToSet(s.code[m[1]][m[2]].ops) : o.kind = "ec"

\* The uses must not get the registers of the early clobbers.
BlockThrough(s, m) ==
    [s EXCEPT !.UsedInInstr = Registers(s, m, {"ec", "use", "tied", "imp"}), !.CopyDst = None]

\* Early clobbers get their register before the uses get theirs.
handleThroughOperands(s, m) ==
    LET define(t, k, v) ==
            IF Op(t, m, k).kind # "ec" \/ v \notin Virt THEN t
            ELSE setPhysReg(defineVirtReg(t, m, k, v, None), m, k, v)
        scan[k \in 0 .. NumOperands(s, m)] ==
            IF k = 0 THEN s ELSE define(scan[k - 1], k, Op(scan[k - 1], m, k).reg)
    IN  IF HasEarlyClobbers(s, m) THEN BlockThrough(scan[NumOperands(s, m)], m) ELSE s

\* What follows reloadVirtReg.
setUse(s, m, k, v) ==
    LET kill == Op(s, m, k).kill
        set == [setPhysReg(s, m, k, v) EXCEPT !.CopySrc = Follow(@, v, s.LiveVirtRegs[v].PhysReg)]
    IN  IF kill THEN killVirtReg(set, v) ELSE set

SecondScan(s, m) ==
    LET use(t, k, v) ==
            IF v \notin Virt \/ ~isUse(Op(t, m, k)) THEN t
            ELSE setUse(reloadVirtReg(t, m, k, v, t.CopyDst), m, k, v)
        scan[k \in 0 .. NumOperands(s, m)] ==
            IF k = 0 THEN s ELSE use(scan[k - 1], k, Op(scan[k - 1], m, k).reg)
    IN  scan[NumOperands(s, m)]

ResetUsedInInstr(s, m) == [s EXCEPT !.UsedInInstr = Registers(s, m, {"ec"})]

spillForCall(s, m) == IF s.code[m[1]][m[2]].op = "CALL" THEN spillAll(s, m) ELSE s

\* What follows defineVirtReg.
setDefinition(s, m, k, v) ==
    [setPhysReg(s, m, k, v) EXCEPT !.CopyDst = Follow(@, v, s.LiveVirtRegs[v].PhysReg)]

\* The implicit definitions of a call are skipped; nothing else defines an
\* allocatable register implicitly.
ThirdScan(s, m) ==
    LET define(t, k, v) ==
            IF Op(t, m, k).kind # "def" THEN t
            ELSE IF v \in Phys THEN definePhysReg(t, m, v, "reserved")
            ELSE setDefinition(defineVirtReg(t, m, k, v, t.CopySrc), m, k, v)
        scan[k \in 0 .. NumOperands(s, m)] ==
            IF k = 0 THEN s ELSE define(scan[k - 1], k, Op(scan[k - 1], m, k).reg)
    IN  scan[NumOperands(s, m)]

\* A copy within one register is erased when the block is done.
Coalesce(s, m) ==
    IF s.CopyDst # None /\ s.CopyDst = s.CopySrc THEN [s EXCEPT !.Coalesced = @ \cup {m}] ELSE s

AllocateInstruction(s, m) ==
    LET i == s.code[m[1]][m[2]]
        copy == [s EXCEPT !.CopyDst = IF i.op = "COPY" THEN i.ops[1].reg ELSE None,
                          !.CopySrc = IF i.op = "COPY" THEN i.ops[2].reg ELSE None]
        used == ResetUsedInInstr(SecondScan(handleThroughOperands(FirstScan(copy, m), m), m), m)
    IN  Coalesce(ThirdScan(spillForCall(used, m), m), m)

getFirstTerminator(block) ==
    Min({i \in 1 .. Len(block) + 1 : \A j \in i .. Len(block) : isTerminator(block[j])})

\* The return gets an operand for the register that is live out of the function.
addRetOperands(s, b, liveouts) ==
    IF s.code[b] = <<>> \/ Last(s.code[b]).op # "RET" THEN s
    ELSE [s EXCEPT !.code[b][Len(s.code[b])].ops =
            SetToSeq({Operand(r, "imp", s.PhysRegState[r] = "reserved") : r \in liveouts})]

\* The beginning of AllocateBasicBlock.
StartBlock(s, liveins) ==
    [s EXCEPT !.PhysRegState = [r \in Phys |-> IF r \in liveins THEN "reserved" ELSE "disabled"]]

EntryLiveIns(f, b) == IF b = 1 THEN f.liveins ELSE {}

-----------------------------------------------------------------------------
Init ==
    /\ function \in Functions
    /\ mbb = 1
    /\ at = 1
    /\ ra = StartBlock(
            [code |-> function.blocks,
             inserted |-> [b \in DOMAIN function.blocks |-> [i \in 1 .. Len(function.blocks[b]) + 1 |-> <<>>]],
             Coalesced |-> {}, StackSlotForVirtReg |-> {}, LiveVirtRegs |-> <<>>,
             PhysRegState |-> <<>>, UsedInInstr |-> {}, CopySrc |-> None, CopyDst |-> None, errors |-> {}],
            EntryLiveIns(function, 1))

\* One turn of the loop of AllocateBasicBlock.
Allocate ==
    /\ mbb <= Len(function.blocks)
    /\ at <= Len(function.blocks[mbb])
    /\ ra' = AllocateInstruction(ra, <<mbb, at>>)
    /\ at' = at + 1
    /\ UNCHANGED <<function, mbb>>

\* The end of AllocateBasicBlock, and the loop of runOnMachineFunction.
FinishBlock ==
    /\ mbb <= Len(function.blocks)
    /\ at > Len(function.blocks[mbb])
    /\ ra' = StartBlock(
            addRetOperands(spillAll(ra, <<mbb, getFirstTerminator(function.blocks[mbb])>>),
                           mbb, function.liveouts),
            EntryLiveIns(function, mbb + 1))
    /\ mbb' = mbb + 1
    /\ at' = 1
    /\ UNCHANGED function

Next == Allocate \/ FinishBlock

Spec == Init /\ [][Next]_vars

-----------------------------------------------------------------------------
(***************************************************************************)
(* What code does, before and after allocation: registers and slots hold   *)
(* values, and the value that instruction n computes is <<n>>.             *)
(***************************************************************************)
Named(i, kinds) == {i.ops[k].reg : k \in {j \in DOMAIN i.ops : i.ops[j].kind \in kinds}}
Uses(i) == Named(i, {"use", "tied", "imp"})
Definitions(i) == Named(i, {"def", "ec"})
Kills(i) == {i.ops[k].reg : k \in {j \in DOMAIN i.ops : isUse(i.ops[j]) /\ i.ops[j].kill}}

\* Early clobbers are written before anything is read.
Early(env, i) == [r \in DOMAIN env |-> IF r \in Named(i, {"ec"}) THEN None ELSE env[r]]
Read(env, i) == [k \in {j \in DOMAIN i.ops : isUse(i.ops[j])} |-> Early(env, i)[i.ops[k].reg]]

Written(i) == Definitions(i) \cup (IF i.op = "CALL" THEN {Order[1]} ELSE {})
Lost(i, honour) == (IF honour THEN Kills(i) ELSE {}) \cup (IF i.op = "CALL" THEN Clobbered ELSE {})

\* Executes the instruction i, numbered n; kills are honoured if "honour".
Execute(env, i, n, honour) ==
    [r \in DOMAIN env |->
        IF r \in Written(i) THEN (IF i.op = "COPY" THEN Read(env, i)[2] ELSE <<n>>)
        ELSE IF r \in Lost(i, honour) THEN None ELSE Early(env, i)[r]]

\* Executes what was inserted before an instruction.
Executed(env, instrs, honour) ==
    LET after[n \in 0 .. Len(instrs)] == IF n = 0 THEN env ELSE Execute(after[n - 1], instrs[n], 0, honour)
    IN  after[Len(instrs)]

\* What each instruction of a block finds in registers and slots, and what is there behind the last.
Found(env, code, inserted, erased, honour) ==
    LET found[i \in 1 .. Len(code) + 1] ==
            Executed(IF i = 1 THEN env
                     ELSE IF i - 1 \in erased THEN found[i - 1]
                     ELSE Execute(found[i - 1], code[i - 1], i - 1, honour),
                     inserted[i], honour)
    IN  found

\* Values live out of blocks, along paths of at most n blocks.
UpwardExposed(f, b, v) ==
    \E i \in DOMAIN f.blocks[b] :
        v \in Uses(f.blocks[b][i]) /\ \A j \in 1 .. i - 1 : v \notin Definitions(f.blocks[b][j])
Defines(f, b, v) == \E i \in DOMAIN f.blocks[b] : v \in Definitions(f.blocks[b][i])

LiveIn(f) ==
    LET live[n \in 0 .. Len(f.blocks)] ==
            IF n = 0 THEN [b \in DOMAIN f.blocks |-> {}]
            ELSE [b \in DOMAIN f.blocks |->
                    {v \in Virt : UpwardExposed(f, b, v)
                        \/ (~Defines(f, b, v) /\ \E c \in f.succs[b] : v \in live[n - 1][c])}]
    IN  live[Len(f.blocks)]
LiveOut(f, b) == UNION {LiveIn(f)[c] : c \in f.succs[b]}

Slots == {<<v>> : v \in Virt}

\* A value live into a block is in its register before allocation, and in its slot after.
EntryEnv(f, b) ==
    [r \in Phys \cup Virt \cup Slots |->
        IF r \in EntryLiveIns(f, b) THEN <<"arg", r>>
        ELSE IF r \in Slots /\ r[1] \in LiveIn(f)[b] THEN <<"in", r[1]>>
        ELSE IF r \in LiveIn(f)[b] THEN <<"in", r>> ELSE None]

FoundBefore(f, b) ==
    Found(EntryEnv(f, b), f.blocks[b], [i \in 1 .. Len(f.blocks[b]) + 1 |-> <<>>], {}, FALSE)

\* The block as it is left: with what was inserted, without the coalesced copies.
FoundAfter(s, f, b, honour) ==
    Found(EntryEnv(f, b), s.code[b], s.inserted[b], {i \in DOMAIN s.code[b] : <<b, i>> \in s.Coalesced}, honour)

(***************************************************************************)
(* What selection, phi elimination and two-address rewriting leave.  A     *)
(* physical register holds an argument or a result on its way: it is read  *)
(* once at most after it was written, or right behind the call that wrote  *)
(* it.  A call and a terminator write no operand, and of the terminators   *)
(* of a block only the first reads any.                                    *)
(***************************************************************************)
WellFormedInstr(i) ==
    /\ i.op = "COPY" => i.ops[1].kind = "def" /\ isUse(i.ops[2])
    /\ i.op = "CALL" \/ isTerminator(i) => Definitions(i) = {}
    /\ i.op = "RET" => i.ops = <<>>
    /\ Definitions(i) \subseteq Virt \/ Definitions(i) \subseteq Phys
    /\ Named(i, {"ec"}) \subseteq Virt \ Uses(i)

\* r was written, or is live into b, and was not read in front of instruction i.
Pending(f, b, i, r) ==
    \E j \in 0 .. i - 1 :
        /\ r \in IF j = 0 THEN EntryLiveIns(f, b) ELSE Definitions(f.blocks[b][j])
        /\ \A k \in j + 1 .. i - 1 : r \notin Uses(f.blocks[b][k])

Returns(block) == block # <<>> /\ Last(block).op = "RET"

WellFormedBlock(f, b) ==
    LET block == f.blocks[b] IN
    /\ \A i \in DOMAIN block :
            /\ WellFormedInstr(block[i])
            /\ i > getFirstTerminator(block) => block[i].ops = <<>>
            /\ \A r \in Uses(block[i]) \cap Phys :
                    \/ Pending(f, b, i, r)
                    \/ i > 1 /\ block[i - 1].op = "CALL" /\ r = Order[1]
    /\ Returns(block) => \A r \in f.liveouts : Pending(f, b, Len(block) + 1, r)

ASSUME SelectionAssumption ==
    \A f \in Functions : \A b \in DOMAIN f.blocks : WellFormedBlock(f, b)

JustFinished == mbb > 1 /\ at = 1

(***************************************************************************)
(* No instruction is left without a register or finds the register of an   *)
(* argument taken, and an allocated block reads, at each instruction and   *)
(* by the return, the values the block read before, and leaves every value *)
(* that a later block needs in its slot.  It does so whatever the          *)
(* registers hold at its entry, so the function computes what it did.      *)
(***************************************************************************)
SameValues ==
    JustFinished =>
        LET b == mbb - 1
            block == function.blocks[b]
            old == FoundBefore(function, b)
            new == FoundAfter(ra, function, b, FALSE)
            end == Len(block) + 1
        IN  /\ ra.errors = {}
            /\ \A i \in DOMAIN block :
                    block[i].op \notin {"COPY", "RET"} => Read(new[i], ra.code[b][i]) = Read(old[i], block[i])
            /\ \A v \in LiveOut(function, b) : new[end][<<v>>] = old[end][v]
            /\ Returns(block) => \A r \in function.liveouts : new[end][r] = old[end][r]

(***************************************************************************)
(* A register that is flagged killed is not read again before it is        *)
(* written: the passes that run afterwards may reuse it at the flag.       *)
(***************************************************************************)
KillFlagsTrue ==
    JustFinished =>
        LET b == mbb - 1
            kept == FoundAfter(ra, function, b, FALSE)
            killed == FoundAfter(ra, function, b, TRUE)
        IN  \A i \in DOMAIN kept :
                /\ \A v \in Virt : killed[i][<<v>>] = kept[i][<<v>>]
                /\ i \in DOMAIN ra.code[b] /\ <<b, i>> \notin ra.Coalesced =>
                        Read(killed[i], ra.code[b][i]) = Read(kept[i], ra.code[b][i])

(***************************************************************************)
(* Between instructions the two maps of RAFast are inverse to each other,  *)
(* as its assertions say: no two values share a register, and no value is  *)
(* looked for in a register that was given away.                           *)
(***************************************************************************)
MapsInverse ==
    /\ \A r \in Phys : ra.PhysRegState[r] \in Virt =>
            /\ ra.PhysRegState[r] \in DOMAIN ra.LiveVirtRegs
            /\ ra.LiveVirtRegs[ra.PhysRegState[r]].PhysReg = r
    /\ \A v \in DOMAIN ra.LiveVirtRegs : ra.PhysRegState[ra.LiveVirtRegs[v].PhysReg] = v
=============================================================================
