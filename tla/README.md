# Verification of the DCPU-16 backend of LLVM

This directory holds TLA+ models of the DCPU-16 port of LLVM, TLC
configurations that check them on small instances, and proofs checked by TLAPS.
The port itself is `lib/Target/DCPU16`; around it, the models cover the parts of
the target-independent code generator (`lib/CodeGen`) that drive it and depend
on its answers, and the parts of the support library that meet other processes
and threads. The rest of the tree is upstream LLVM, more than a hundred times
the size of the port, and serves as context: section 6 says what is left out.

Paths below are relative to the root of the repository.

## 1. The system

| Part | State it keeps | Operations | Works with |
|---|---|---|---|
| Frame layout (`PrologEpilogInserter.cpp`, `calculateFrameObjectOffsets`) | `MachineFrameInfo`: sizes, alignments, offsets of stack objects, stack size | four loops that give every object an offset | target frame lowering (growth direction, alignment, reserved call frame) |
| Prologue and epilogue insertion (`PEI::runOnMachineFunction`, `DCPU16FrameLowering`, `DCPU16RegisterInfo`) | the function's blocks, `CalleeSavedInfo`, `CalleeSavedFrameSize` | eight calls in a fixed order, most of them into target hooks | layout; instruction selection, which created the fixed objects |
| Calling convention (`DCPU16CallingConv.td`, `LowerCCC*`, `LowerReturn`) | the stack and the registers at run time | call, return, interrupt, return from interrupt | every function with its caller; handlers with interrupted code |
| Branch hooks (`DCPU16InstrInfo.cpp`) | the terminators of a block | `AnalyzeBranch`, `RemoveBranch`, `InsertBranch`, `ReverseBranchCondition` | every pass that moves blocks |
| Clients of the branch hooks (`MachineBasicBlock::updateTerminator`, `CorrectExtraCFGEdges`, `MachineBlockPlacement`, `TailDuplication`, `BranchFolding`, `IfConversion`) | layout order, successor lists, terminators | move a block, redirect an edge, correct the CFG, merge tails | the hooks, through the results of `AnalyzeBranch` |
| DAG lowering (`DCPU16ISelLowering.cpp`) | the selection DAG | conditions, calls, arguments, returns, rotates, wide multiplication, symbol addresses | the `.td` patterns |
| Address modes (`DCPU16ISelDAGToDAG.cpp`) | one address mode while it is matched | `MatchAddress`, `MatchWrapper`, `SelectAddr` | the patterns that take a memory operand |
| Peephole (`DCPU16Peephole.cpp`) | map from virtual register to the AND that defines it | AND and a comparison with 0 become IFB or IFC | kill flags of the instruction emitter (`InstrEmitter.cpp`) |
| Fast register allocation (`RegAllocFast.cpp`, `llc -O0`) | `LiveVirtRegs`, `PhysRegState`, `StackSlotForVirtReg`, what is left of the use-def chains | allocate the operands of one instruction, spill all at the end of a block | two-address code from PHI elimination; the frame's spill slots |
| Lock files (`Support/LockFileManager.cpp`) | a lock file per name, a unique file per instance | constructor, destructor, `waitForUnlock` | other processes, through the file system; the clients are module builds |
| Managed statics (`ManagedStatic.cpp`, `Threading.cpp`) | pointer and deleter of each static, the list of constructed ones, the global lock | access, `llvm_start_multithreaded`, `llvm_shutdown` | creators and deleters, which use other statics |
| Statistics (`Statistic.h`, `Statistic.cpp`) | value and flag of each statistic, the list to be printed | count, register, print | two managed statics, `StatLock` and `StatInfo` |
| Assembly output (`DCPU16AsmPrinter.cpp`, `InstPrinter`) | none | formatting | |
| Target description (`.td`, `TargetMachine`, `Subtarget`) | none | tables | |
| Everything else (IR, analyses, transformations, other targets, MC, execution engine, support library, TableGen, tools) | | | upstream |

The code generator is sequential: one pass runs after the other on one function.
Its hard behaviour is in agreements between parts that never see one another. A
prologue and several epilogues find their place by skipping what other hooks
inserted. Sizes recorded in one call are subtracted in another. The meaning of
a null block depends on the layout. Terminators are known only by pattern. Kill
flags written by one pass let another one erase an instruction. An allocator
that goes forwards decides from incomplete use-def chains which value is dead.

The code it generates is concurrent: interrupts arrive between any two
instructions and use the stack below the stack pointer.

The compiler itself is concurrent in two places. Processes that build the same
file exclude one another by lock files: they interleave system call by system
call, crash with the lock in hand, test whether an owner is still running, wait
with a timeout and retry. Threads of one process create managed statics on
demand, without a lock on the fast path, and count statistics. There are no
messages that could be lost or duplicated; what comes nearest is a hard link on
a network file system that is made although the call reports a failure.

What makes each part correct:

- *Layout*: no two objects share a word, all lie inside the frame and above the
  outgoing call frame, every live object has a place and keeps it, alignments
  hold, and the stack protector stands between arrays and saved registers.
- *Prologue and epilogue*: however body, calls and interrupts interleave, the
  function returns to its caller, with the stack pointer and preserved registers
  restored, its locals intact, and frame indices always denoting the same words.
- *Calling convention*: caller and callee mean the same words by argument k, and
  to its caller a call looks like one step.
- *Branches*: whatever is moved or redirected, control leaves a block for the
  successor the program's comparison selects, and the CFG says the same.
- *Lowering, address modes, peephole*: the selected instructions compute what
  the DAG computes, on words that wrap, and EX is read before it is overwritten;
  the kill flags the peephole relies on are true, and it keeps them so.
- *Fast register allocation*: the function computes with its registers and slots
  what it computed with virtual registers, whatever was spilled; the flags the
  allocator writes are true; its two maps are each other's inverse.
- *Lock files*: a lock file always names its owner, belongs to an instance that
  owns the lock, is gone when its owner is, and nobody waits for ever.
- *Managed statics, statistics*: one object per static, complete when it is
  used, destroyed after its users; every statistic registered once and printed.

`PROJECT.json` lists the hazards, each with its line and the properties that
cover it.

## 2. Modules

    FrameLayout <- FrameLayoutProofs <- MCFrameLayout
    PrologEpilogInserter <- FrameExecution <- MCFrame
                                  |
                                  +-- INSTANCE CallABI (refinement)
                                  +-- FrameExecutionProofs <- MCFrameFits
    DCPU16Branches <- BlockTerminators <- MCBlockTerminators
          |                   +-- BlockTerminatorsProofs
          +-- DCPU16Instructions <- DCPU16Selection <-+- DCPU16CodeGen <- MCDCPU16Peephole
                       |                              |
                       +------- DCPU16Peephole <------+
                                      +-- DCPU16PeepholeProofs
    RegAllocFast <- MCRegAllocFast
          +-- RegAllocFastProofs <- RegAllocFastValueProofs
    LockFileManager <- MCLockFileManager
          +-- LockFileManagerProofs
    ManagedStatic <- Statistic <- StatisticProofs <- MCStatistic

Stack addresses, sizes and offsets are counted in 16-bit words, as the backend
counts them: its "byte" is the word.

Definitions whose name has an underscore and a suffix, commented as seeded
faults, are not part of any specification. Each one is a plausible bug that
breaks a named property when it replaces the definition it is named after.

### FrameLayout

One run of `calculateFrameObjectOffsets` for a stack that grows down. `phase` is
the loop that runs and `i` its index, so one action is one iteration.
`ScanFixedObject`, `AssignCalleeSavedSlot`, `AssignProtector`,
`AssignLargeObject` and `AssignObject` are the bodies; the `End*` actions leave a
loop. `Place` is `AdjustStackOffset` (and the same arithmetic written out in the
loop over the callee-saved slots); `Finish` adds the outgoing call frame, rounds
and stores the size. `mfi` is the part of `MachineFrameInfo` the pass reads.

### PrologEpilogInserter

One function goes through `PEI::runOnMachineFunction`: one action per call, in
the order of `Stages`. A function is a record of what the pass reads of it: is
it an interrupt handler, does it keep a frame pointer, which registers are used,
which objects, arguments and calls it has. Its own code is the marker `BODY`;
what the pass inserts around it are the instructions `PUSH`, `POP`, `MOV`,
`SUBSP`, `ADDSP`. `emitPrologue` and `emitEpilogue` find their place as the code
does, by skipping the run of pushes or pops (`AfterPushes`, `BeforePops`). The
layout is repeated in its closed form for word-sized, unprotected objects;
`FrameLayout` treats it in full.

### FrameExecution

A DCPU-16 executes the compiled function from its entry to its return.
`Processor` has one action for each kind of inserted instruction and one for
interrupts. `Program` is everything the function's own code may do: write a
register the allocator may give it, store to an object through its frame index,
allocate dynamically, and call, in four steps (open the call frame, store the
arguments, run the callee, close the call frame). Memory and registers hold
tags: whose word it is. A callee is assumed to keep the convention that the
function is shown to keep. The processor and the program are external to the
repository and are modelled from what the instruction descriptions say of them.

### CallABI

The abstract specification: seen from the caller, a call is one step that
returns to the pushed address, with the stack pointer above what the entry
pushed, the preserved registers unchanged and the caller's frame untouched
except the argument words. `FrameExecution` implements it under the mapping that
shows the entry state until the return (`ImplementsCallABI`).

### DCPU16Branches

The condition codes with their meaning on words of `Width` bits; the lowering of
a comparison into one or two `BR_CC`; and the hooks, as functions on the
sequence of terminators. The machine has no IFxx for the comparisons that
include equality; the hooks use the codes GE, AE, LE, UE for two branches
with one target.

### BlockTerminators

The end of one block. `next` is the block that follows in the layout, `succs`
the successors in the CFG, `source` what the program means the block to do.
`PlaceBlock` gives it another follower, as `MachineBlockPlacement` does;
`TailDuplicate` picks a successor that only jumps on; `FixCFG` is the loop at the
start of `BranchFolder::OptimizeFunction`. Each starts `AnalyzeBranch`, one
action per iteration of its loop, and ends in the code that uses the result:
`updateTerminator` (`Update*`), `duplicateSimpleBB`, `CorrectExtraCFGEdges`.
`stage = "unreachable"` stands for a failed assertion or `llvm_unreachable`.

### DCPU16Selection

A block of the selection DAG in an order in which it may be scheduled, and the
machine instructions it becomes. `Evaluate` says what an operation means;
`LowerOperation` is what lowering and the patterns make of it: `SELECT_CC`
(reversed when the comparison includes equality), rotates and double-word
products and sums with their second half in EX, loads through an address mode,
branches. `MatchAddress`, `MatchWrapper`, `MatchAddressBase` follow the matcher
case by case, with the backtracking over the operands of an ADD and the OR that
known bits turn into an ADD. `Execute` is the processor, which is external;
memory holds at each address the address, so a wrong address shows.

### DCPU16Peephole

The pass over such a block. `Emitted` is the block with the kill flags of
`InstrEmitter::AddRegisterOperand` and the rewriting to two addresses; `VisitAnd`,
`Fuse`, `Forget` and `Pass` are the paths of the loop of `runOptBrcc`, with
`swapOptBrcc` in `Fuse`. `peepholeMap` may hold an instruction that is gone. The pass starts from
any of `SelectedBlocks`, of which `SelectedForm` says only what every block has
that the selector makes: instructions with at most four operands, and registers
other than EX that are defined once and before they are used.

### DCPU16CodeGen

The composition: the blocks the pass starts from are those that `DCPU16Selection`
makes of `Programs`, and `MeaningKept` compares what the block of the program and
the block of the machine do. `DCPU16Instructions` holds what selection and pass
share, the form of an operation. Running code takes recursive operators, on which
nothing can be proved, so they are kept out of the pass's own module. A behaviour
of the composition is one of the pass: `CodeGenInit` implies `Init` by
`CodeGenAssumption`, and `CodeGenNext` is `Next` with the program left alone.
TLC evaluates `SelectedForm` on every block of the run.

### RegAllocFast

The allocator as a function on a state record, `Allocate` being one turn of the
loop of `AllocateBasicBlock` and `FinishBlock` its end. `FirstScan`,
`SecondScan` and `ThirdScan` are the three passes over the operands of an
instruction; the helpers have the names they have in the source (`spillVirtReg`,
`allocVirtReg`, `reloadVirtReg`, `usePhysReg`, ...). What the use-def chain of a
register still holds is computed from the instructions that have not been
rewritten (`Chain`), since an operand leaves the chain when it is rewritten.
`Found` says what each instruction of a block finds in registers and slots, before
and after allocation, `LiveIn` and `LiveOut` which values have to be in their slots
between blocks. `SelectionAssumption` says what the passes in front of the
allocator leave, and the allocator relies on: a physical register holds an argument
or a result on its way, and is read once after it was written (`usePhysReg` frees a
register at its first use), or right behind the call that wrote it; a call writes no
operand; only the first terminator of a block reads any. TLC evaluates it on every
function of the run.

### LockFileManager

One action per system call of an instance, in the order of the constructor
(`LockFileExists` to `CleanUp`), the use of the lock, the destructor
(`RemoveLock`, `RemoveUnique`) and `waitForUnlock` (`WakeUp`, `SleepAgain`).
The file system is an inode per instance and what each name is linked to.
`CreateHardLink` may fail, or succeed and report failure, in which case
`CountLinks` finds out. `Crash` ends a process anywhere, all its instances with
it; `ProcessStillExecuting` tells the truth only on the same host. `SpecReliable`
has no crashes and no failing calls.

### ManagedStatic and Statistic

A thread is a stack of calls, each at a place in `ManagedStaticBase::
RegisterManagedStatic` or in the accessor; a creator or deleter that uses
another static pushes a call. `Acquire` and `Release` are the global recursive
lock, which is skipped before `llvm_start_multithreaded`, as the code does.
`Statistic` puts the counting of statistics on top of it: its calls of
`*StatLock` and `*StatInfo` are accesses of the composed `ManagedStatic`, and
the deletion of `StatInfo` in `llvm_shutdown` prints. Every step of the
composition is a step of the statics or leaves them alone (proved).

## 3. Runs

| Run | Question | Bounds |
|---|---|---|
| `frame_layout` | is every frame laid out soundly, and does the invariant of the proofs hold? | three objects, sizes 0-2, alignments 1, 2, 4, two fixed objects, every position of the protector |
| `frame` | do functions and interrupt handlers keep the convention, their data and the abstract specification? | up to 2 locals, 2 argument words, calls with 0-2 words, 2 returns, 2 dynamic words; register sets with and without EX |
| `block_terminators` | are terminators, analysis and CFG faithful for ever? | 3 blocks, 2 registers and 1 immediate, words of 2 bits, no bound on the number of moves |
| `selection` | do lowering, address modes, emission and peephole keep the meaning of a block? | words of 2 bits, two inputs, EX, three symbols (a global, a frame index, a block address), blocks of up to 3 operations with one or two branches |
| `register_allocation` | does the allocated function compute the same? | 3 virtual and 2 physical registers; one block of 2 or 3 operations with an argument and perhaps a result; loops of 2 operations with 1 to 3 values, laid out in two orders |
| `lock_file` | do lock files exclude, appear whole, go away, and does waiting end? | 3 instances of 3 processes on 2 hosts, at most 2 sleeps (`MaxWaits`), crashes and failing calls anywhere |
| `statics` | are statics and statistics created, used, registered, printed and destroyed as they should, without deadlock? | 2 threads, 2 statistics, 3 statics that use one another, 5 objects (`MaxObjects`), 2 counts per statistic (`MaxValue`) |
| `handler_ex`, `fp_arguments`, `alloca_interrupt`, `equal_successors`, `lock_owners` | what the source says and the code does not do | as above, restricted to the functions, edges or calls concerned |

Why the bounds are enough:

- Three objects suffice for every relative order of an array, a scalar, a saved
  slot and the protector's slot that the loops tell apart; the proofs remove
  this bound.
- In a frame the interesting quantities are zero or not, and equal or not. The
  register sets have zero, one and several saved registers, J among them, since
  J is both a saved register and the frame pointer. Two dynamic words are two
  words moved by one allocation (`AllocaSize` = `AllocaBound` = 2). The stack
  (`StackTop` = 19, entry at `EntrySP` = 14) is deep enough that no behaviour
  reaches address 0; `TypeOK` checks that.
- A block with a comparison has two successors; with the third block, all of
  true successor, false successor and target of a redirection can differ. Words
  of two bits are the smallest with a sign: every condition code can be told
  from every other by some pair of them. Two registers tell the order of
  operands, the immediate the types that `AnalyzeBranch` compares. Moves and
  redirections repeat without bound, and the proofs remove the other bounds.
- Two bits have a product that overflows, a carry, a rotate that differs from a
  shift and a sign. The operations that are lowered stand alone or before an
  AND; the peephole sees every block of up to three ANDs and uses and every pair
  of branches, so that a value may be used before, between and after them and in
  another block.
- With two physical registers for three values, any instruction may evict, and a
  call reserves one of them for its argument and clobbers both. Three operations
  are enough for a value to be spilled, reloaded and changed again; in a loop
  the two operations are also what follows themselves. The layout with the exit
  before the body makes the allocator meet a use before the definition.
- A third lock file instance is needed: two for the race, one whose lock is the
  victim. Two hosts let the owner be unreachable.
- Of the three statics one is created by another's creator and one is used by a
  deleter after its own destruction; five objects let each be created again
  during shutdown.

Three MC modules extend the proofs and evaluate the proofs' hypotheses on the
values they check: `MCFrameFits` (`frame`), `MCFrameLayout` and `MCStatistic`.
What is proved under a hypothesis is thus about the instances of the runs too.

`CHECK_DEADLOCK FALSE` is set for `frame_layout`, `selection`,
`register_allocation`, `lock_file` and `statics`, where a pass or a program ends;
in the last two a deadlock would violate `WaitEnds` or `CountEnds`. A function
that has returned stutters (`Finished`); the terminators of a block never end.

The functions of the passing runs leave out what the violation runs show: stack
arguments and the return address together with a frame pointer, handlers whose
frame clobbers EX without saving it, interrupts in functions that have dynamic
allocation and saved registers, conditional branches with equal successors.
Nothing else is excluded: such functions are in the passing runs in every other
respect. `lock_file` has the race of `lock_owners` in it and checks what holds in
spite of it. The addresses of `selection` have no constant next to a block
address, for the reason given under "Observations".

### What the runs found

1. `handler_ex`: `DCPU16RegisterInfo.cpp:48` says handlers save everything but A,
   "This includes EX". EX is saved only if the body defines it, which is decided
   before the prologue's SUB and the epilogue's ADD on SP, which clobber it, exist.
2. `fp_arguments`: with a frame pointer `eliminateFrameIndex` skips the saved PC
   but not the saved J, so a stack argument is read one word too low, and
   `llvm.returnaddress(0)` reads the saved frame pointer.
3. `alloca_interrupt`: with dynamic allocation the epilogue moves SP to J, above
   the saved registers, and then below them again; an interrupt between the two
   instructions overwrites them.
4. `equal_successors`: a block that jumps conditionally to the block it falls
   through to loses its fallthrough when it is moved, and runs into whatever
   follows. The code that handles the pattern tests `canFallThrough()`, which the
   move has just made false.
5. `lock_owners`: an instance finds the lock file unreadable because its owner
   releases it in between, and removes it by name; by then it is the valid lock
   of a third process, which goes on as an owner next to the one that creates
   the lock again.

### Observations

Things the models follow without a run of their own.

- `hasSymbolicDisplacement` (`DCPU16ISelDAGToDAG.cpp`) leaves out block
  addresses, which the comment at lines 137-138 does not. A constant added to a
  block address, an external symbol or a jump table is dropped by
  `SelectAddr`, which gives the operand the symbol alone.
- `AnalyzeBranch` merges a comparison and a comparison for equality above it by
  the types of their operands; "This should actually check for equality"
  (`DCPU16InstrInfo.cpp:329`). No modelled pass builds a block with two
  different comparisons.
- A deleter that uses a static during `llvm_shutdown` has it created again, and
  destroyed again; the run includes that.

## 4. Fairness

- `UpdateEnds` assumes weak fairness of the analysis and of the code that uses
  it: both are straight sequential code of a running pass. Nothing is assumed of
  the start of a pass.
- `StaleLockRemoved` and `WaitEnds` assume for each instance weak fairness of its
  constructor, of the last call of its destructor and of `waitForUnlock`: a
  process that has not crashed goes on. An owner need not ever release the lock,
  and nothing is assumed of crashes; this is why the wait has a limit.
- `CountEnds` assumes weak fairness of the steps of each thread: the operating
  system schedules all of them. It is not assumed that a mutex is fair; with the
  bounded number of counts weak fairness is enough.

No other property assumes fairness.

## 5. Proofs

All theorems are proved without a bound on any constant, from the named
assumptions of the modules. Where a theorem needs more than those it says so
with a named hypothesis: `DistinctSuccessors`, `Hypotheses` and `ReadsArguments`,
`PowersOfTwo`, `DeletersApart`, explained below. The first three are what the
violation runs show to be needed.

### FrameLayoutProofs

`LayoutTypeCorrect` (`TypeOK`), `LayoutSafe` (`InsideFrame`, `ObjectsDisjoint`,
`CallFrameReserved`), `LayoutComplete` (`EveryLiveObjectPlaced`),
`LayoutProtects` (`ProtectorGuards`) and `LayoutStable` (`NeverMoved`), for every
number of objects and fixed objects, every size, alignment, stack alignment and
call frame. `LayoutAssumption` says that the constants are natural numbers,
alignments are positive, and frames are `WellFormed`: a saved register's slot is
created by the pass itself, so it is not dead, not an array and not the
protector's slot; and the protector's slot is alive.

The safety properties are not inductive alone. Disjointness needs to know that
the next object goes below everything placed (`Bounds`), and that it is not
already placed. The latter is `Progress`, which says of each loop and index
exactly which objects are placed: it is the argument that the three lists of
"continue" conditions partition the objects. `Order` carries the position of the
protector's slot through the last two loops. `RoundUp` enters only through
`RoundUpBound` (rounding up never gives a smaller offset). `IInv` is also
checked as an invariant of the run.

`LayoutAligns` is `OffsetsAligned`, under `PowersOfTwo`: of two alignments that
occur in a frame the smaller divides the greater, and `maxAlignment` is at least
that of every object. The layout rounds each offset up to the object's own
alignment and remembers the largest only, so the final rounding serves every
object because alignments nest (`DividesTransitively`).

### FrameExecutionProofs

The pass finds its place in the code by searching it. `PassCompiles` says that
the search is right: before every call of the pass the code of each function is
its blocks with exactly what the earlier calls inserted (`Compiled`), for any
register set, objects, calls and returns. It rests on what the skipping of
pushes and pops returns, on the list of saved registers (`Saved`) and on the
word counts of the objects, which the model computes recursively.

`ExecutionInvariant` is `Compiled` and `Machine`, which has one disjunct for each
kind of place in the code: at the entry, before `MOV J, SP`, between two pushes,
in the body, before the `ADD` or the moves of a dynamic frame, between two pops,
before the return. Each says where SP is and which words and registers hold what
(`Frame`: the saved registers above the index are in their slots, the others
still in their registers). One lemma per kind of instruction takes one place to
the next; another shows that an interrupt, which writes below SP, changes nothing
a place relies on. From it follow `RegistersAreRestored`, `StackIsBalanced`,
`ObjectsAreKept`, `OutgoingArgumentsAreInPlace`, `FramesAreChained` and
`ArgumentsAreReachable`, and `KeepsCallingConvention`: prologue, body, calls,
interrupts and epilogue are one step of `CallABI`.

`Hypotheses` is about the functions. The local area begins one word below the
entry's SP, as the target declares it. `Fits`: the stack has room for the frame
and the arguments. `KeepsEX`: a handler with a frame uses EX, which excludes what
`handler_ex` shows. `UnexposedTo`: a function with dynamic allocation that may be
interrupted saves no register, which excludes what `alloca_interrupt` shows.
`ArgumentsAreReachable` needs `ReadsArguments` besides: no stack argument or
return address is read through a frame pointer, which excludes what
`fp_arguments` shows, and a handler does not ask for its return address.

### BlockTerminatorsProofs

The first part proves of words of every width that the branches selected for a
comparison are taken exactly when it holds (`SelectionFaithful`), that a
reversed condition is the negated one (`ReverseNegates`), and that the one or
two branches of `InsertBranch` are taken exactly when the condition holds
(`InsertionFaithful`). The last step of each is arithmetic on `Signed`; the
rest is the case analysis of the hooks.

The second part proves `BranchesFaithful`, `AnalysisFaithful`, `SuccessorsMatchCode`,
`NeverUnreachable` and `NoJumpToLayoutSuccessor` for any blocks, registers and
immediates, under the hypothesis `DistinctSuccessors` (a comparison has two
different successors), without which `equal_successors` shows them to fail. The
properties say nothing of what the analysis knows half way; `IInv` does. A block
has one of three forms: it leaves the function (`Leaves`), has one successor by a
jump or by falling through (`OneWay`), or compares and has two (`TwoWay`). While
the loop of `AnalyzeBranch` runs, the iterator and its results have one of a few
values for each form (`Known`), and the code falls into the right block unless
the block has just been moved and is about to be updated (`Settled`). The lemmas
about sequences (`CodeParts`, `CodeGoesTo`, `Inserted`) say once what the one to
three terminators of a comparison are.

### DCPU16PeepholeProofs

`KillsStayLast` (`KillsAreLast`), `NeverDangling` (`NoDangling`),
`NothingIsMissed` (`NothingMissed`) and `PeepholeTypeCorrect` (`TypeOK`), for every
block of `SelectedForm` and every set of registers that other blocks read. Fusing
erases an instruction and moves its operands down to the branch, so the invariant
is about places: `Old` and `From` say where an instruction, and its operands, were
before the step. `KillsOnce` says that what is killed has one use and is not
exported; it is why a flag can move with its operand. `MapKept` says that an AND
in the map is in the block before the iterator, or that its result is used no
more: that is why a pointer to an erased instruction does no harm. For
`NothingMissed`, `FlagsComplete` says that the flags are set wherever a result has
one use, `AndsKnown` that an AND the iterator has passed is in the map or used
only behind the iterator, and `NoneLeft` that nothing passed can be fused. `Uses`
counts with `Cardinality`; `OneUse` and `UsedOnce` say what a count of one means.

### LockFileManagerProofs

`LockFileTypeCorrect` (`TypeOK`), `LockNeverPartial` (`NeverPartial`),
`LockHasOwner` (`OwnersLockOnly`) and `LockLeavesNothing`
(`OnlyCrashesLeaveFiles`) for every number of instances, processes and hosts.
The invariant says that the lock is the written file of an instance that owns it
or is about to look, at which places in its code an instance has a unique file,
and that whoever may still sleep has not slept too often.

### StatisticProofs

The first half is about the statics alone, the second about the composition.
`Invariant` is the inductive invariant of the statics for any number of threads,
any creators and deleters (`ManagedStaticAssumption`) such that no creator uses
its own static, directly or not (`CreatorsAcyclic`): the lock counts the calls
that hold it, a stack of calls has the shape the code gives it, and every object
and every pointer is accounted for by exactly one call or by the list. From it
follow `OneObjectEver`, `AlwaysCompleteWhenUsed`, `ListAlwaysFaithful` and
`ShutdownLeavesNothing`.

`StatisticUsesStatics` proves that a behaviour of the statistics is a behaviour
of the statics, so that all of the above holds of the composition
(`StatisticStatics`). `OneRegistrarEver` and `EverRegisteredOnce` follow from an
invariant in which the mutex of `StatLock` counts the threads between its test
and its release.

`UsersDieFirst` is `UsedOutlivesUser`. A creator's static is linked into the list
after those its creator used, so `llvm_shutdown` destroys it first: `UsesFollow`
says that what the creator of an object used is in the list behind it. A deleter
can create statics again, and put them in front. The theorem therefore has the
hypothesis `DeletersApart`: what a deleter uses leads, through creators, to no
static whose creator uses the one that is being deleted. `NestedOK` keeps track
of that through the nested calls.

`CountedIsPrinted` is `AllPrinted`: when the program has ended every statistic
that was counted has been printed with its value. `Counted` says that one which
has been counted is registered, printed, or has a thread on its way to register
it; `ListExists` that whoever adds to the list holds an object that is in the list
of statics and will be destroyed, hence printed.

### RegAllocFastProofs and RegAllocFastValueProofs

`MapsStayInverse` (`MapsInverse`), `BlocksStartWithoutValues` (the assertion at
`RegAllocFast.cpp:840`), `AllocationKeepsShape` and `ValuesStaySame`
(`SameValues`), for every function of any number of blocks, instructions and
operands, and every order of registers. `RegAllocAssumption`,
`FunctionsAssumption` and `SelectionAssumption` say that registers, values,
slots and the states of a register are different things and that functions are
made of such instructions, in blocks as selection leaves them; the run evaluates
all three.

The maps are not inverse in the middle of an instruction: `allocVirtReg` enters a
value in `LiveVirtRegs` before it has a register for it. `InverseBut(s, W)` says
that they are, but for the values `W` that wait for one. A lemma for each member
of `RAFast` says that it keeps `Kept`: the type of the state, the shape of the
code, and the inverse but for `W`. They need no assumption on the order in which
values are spilled, nor that a register was left: when there was none, the
allocator notes an error and takes a register anyway, and the maps agree even
then. The loops over the operands and over `LiveVirtRegs` are recursive functions,
which `PrimitiveRecursion` shows to exist in the set of the states that are
`Kept`.

`ValuesStaySame` has the hypothesis that the allocator did not run out of registers
(`RanOut`): it then reports an error, on which `llc` stops. What it says otherwise
is the whole of `SameValues`, the absence of every other error included. The
argument has four layers.

- *One operand.* `Agree(s, new, old, N)`: each value of `N` that is in a register is
  there in the new code, and each value of `N` that is in none, or whose register
  is not dirty, is in its slot, as the old code has it. `Gives`, `Defined` and
  `ReadyToUse` say what the allocator does for one operand in these terms: it takes a
  register that the instruction has not taken yet, stores the value it evicts, and
  leaves every other register and slot what it was. `Outside` says that the code of
  every other place stays.
- *One instruction.* `FirstDone`, `ThroughUnderway`, `SecondUnderway` and
  `ThirdUnderway` say how far the scans of an instruction have come: which operands
  have their register, that these registers are not given away again before the
  instruction reads them, and what the slots hold. `Settled` and `Settles` follow
  when the last scan has ended, for an early clobber, a tied operand, a call and a
  coalesced copy as well.
- *One block.* `InBlock`: in front of instruction `i`, the values that are read later
  (`Needed`) agree, and a physical register that holds an argument or a result that
  was not read yet (`Pending`) is reserved and holds it. `TailBare`: the terminators
  behind the first have nothing inserted in front of them and read nothing, so that
  the stores at the end of the block come before any jump. The first instructions
  have read what they read, and go on to (`ReadsSoFar`), since the only thing an
  allocated instruction may still get is a kill flag.
- *The function.* `Unseen`: the blocks behind are as they were given.
  `ExposedHaveSlots`: a value that some instruction seen so far reads, and that its
  block has not defined before, has its slot, which is what `isLastUseOfLocalReg`
  looks at before it lets a value die. So a value that is live out of a block is
  stored at its end, also when the block that reads it was allocated before.

`ValuesInvariant` is their conjunction. TLC checked it on the functions of
`MCRegAllocFast` before it was proved inductive.

### Only model-checked

- `MeaningKept`: what the selection of a DAG computes is a recursion over a tree of
  nodes, and takes an induction over data that the provers cannot instantiate.
  `FrameExecutionProofs` and `RegAllocFastValueProofs` show how far one can go
  without it: `SetInduction` and `PrimitiveRecursion` are first-order, and enough for
  sums over the objects of a frame, for what every turn of a loop keeps and for code
  that runs from the first instruction to the last.
- `KillFlagsTrue`: a kill flag is about every path from the flag to the next write,
  where `SameValues` needs only the values that are still to be read; its invariant
  has to follow each register between its flag and its next owner, in code that later
  instructions still change.
- The type invariant of the terminators' analysis results while no analysis runs.
- Liveness: `UpdateEnds`, `StaleLockRemoved`, `WaitEnds`, `CountEnds`.

## 6. Not modelled

- In the modelled components: naked functions, shrink wrapping (off by default),
  the register scavenger and the pre-allocated local block (the target asks for
  neither), the LEA expansion of a frame index, SP wrapping at 16 bits, stacks
  aligned beyond a word at entry, segmented stacks, stack save and restore;
  landing pads, PHIs, debug values, blocks that end in unreachable, duplication
  of tails that do more than jump; external symbols and jump tables apart from
  block addresses, inline assembly, which argument goes to which register; in
  the fast allocator, values for the debugger, register aliases and
  subregisters, dead flags, inline assembly and instructions that tie an operand
  next to a defined physical register, none of which the DCPU-16 has at that
  point; `llvm_execute_on_thread`; reuse of process ids.
- The rest of the tree. IR, analyses, transformations, the legalizer, the other
  register allocators, the scheduler, MC, the execution engine, TableGen and
  twelve other targets are upstream code that this port takes over unchanged: by
  far the most of the lines, so the share of the whole tree that the models
  cover is small. What they promise the port enters the models as the inputs of
  the modelled passes. Whole components, with reasons, are in `PROJECT.json`.

## 7. Plan

Done: frame layout; prologue, epilogue and execution with the abstract call;
branches and terminators; lowering, address modes and peephole; the fast
allocator; lock files; statics and statistics; proofs about all of them but the
selection of the DAG.

What would come next, each with its run:

1. That the allocator never runs out of registers, as a theorem: it needs a bound on
   the registers that one instruction and the reserved ones take. `KillFlagsTrue`,
   on the lemmas of `ValuesStaySame`.
2. More clients of the branch hooks: `BranchFolding` (`FixTail`, `OptimizeBlock`,
   tail merging) and `SplitCriticalEdge`; they may build the block with two
   comparisons that `DCPU16InstrInfo.cpp:329` is about.
3. Register assignment of arguments and results (`DCPU16CallingConv.td`), joined
   with the execution of calls.
4. The spiller and coalescer of optimised code, against the meaning functions of
   `RegAllocFast`.
