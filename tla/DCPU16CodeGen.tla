---------------------------- MODULE DCPU16CodeGen ----------------------------
(***************************************************************************)
(* From a block of the program to the block the peephole pass leaves:      *)
(* composition of selection with the emission of what it selects and the   *)
(* pass, which addInstSelector (DCPU16TargetMachine.cpp) puts behind it.   *)
(***************************************************************************)
EXTENDS DCPU16Selection, DCPU16Peephole

CONSTANT Programs    \* the blocks of the program

VARIABLE program     \* the block of the program

ASSUME CodeGenAssumption ==
    /\ ImmValue[Zero] = 0
    /\ SelectedBlocks = {Selected(p) : p \in Programs}

CodeGenInit ==
    /\ program \in Programs
    /\ \E block \in {Selected(program)}, exports \in SUBSET Results(program) : Begin(block, exports)

CodeGenNext == Next /\ UNCHANGED program

CodeGenSpec == CodeGenInit /\ [][CodeGenNext]_<<vars, program>>

-----------------------------------------------------------------------------
(* After selection, and after the peephole pass ("Doesn't work if the      *)
(* variable is used after jumping"), the machine's block goes where the    *)
(* program's goes, for every value of its inputs and symbols, and gives    *)
(* the same values to other instructions and to other blocks.              *)
MeaningKept ==
    at \in {1, Len(code) + 1} =>
        \A e \in Environments(program) : RunBlock(code, e, exported) = RunProgram(program, e, exported)
=============================================================================
