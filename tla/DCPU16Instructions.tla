-------------------------- MODULE DCPU16Instructions --------------------------
(***************************************************************************)
(* A block of the program is a sequence of operations                      *)
(*    [op, cc, defs, uses, addr, target]                                   *)
(* in an order in which they may be scheduled, and a block of the machine  *)
(* one of instructions with the same fields and those operands that are    *)
(* killed.                                                                 *)
(***************************************************************************)
EXTENDS DCPU16Branches, SequencesExt

CONSTANTS
    Inputs,    \* virtual registers that CopyFromReg nodes read
    EX         \* the register EX

ASSUME InstructionAssumption == Inputs \subseteq Registers /\ EX \in Registers \ Inputs

NoAddress == [op |-> "none"]

Op(op, cc, defs, uses, addr, target) ==
    [op |-> op, cc |-> cc, defs |-> defs, uses |-> uses, addr |-> addr, target |-> target]

Plain(op, defs, uses) == Op(op, "none", defs, uses, NoAddress, NoBlock)
=============================================================================
