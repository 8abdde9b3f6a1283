---------------------------- MODULE DCPU16Branches ----------------------------
(***************************************************************************)
(* Conditional branches of the DCPU16 backend: how a comparison of the     *)
(* program becomes BR_CC instructions (DCPU16ISelLowering.cpp,             *)
(* DCPU16Peephole.cpp) and the hooks with which the generic code reverses, *)
(* removes and inserts them (DCPU16InstrInfo.cpp).                         *)
(*                                                                         *)
(* BR_CC is "IFxx lhs, rhs" and a jump.  The machine has no IFxx for the   *)
(* comparisons that include equality, so these take two BR_CC with the     *)
(* same target.  A block is a member of Blocks; the null pointer NoBlock.  *)
(***************************************************************************)
EXTENDS Integers, Sequences, FiniteSets

CONSTANTS
    Blocks,       \* machine basic blocks
    NoBlock,      \* the null MachineBasicBlock pointer
    Registers,    \* register operands
    Immediates,   \* immediate operands
    Width         \* bits of a word

ASSUME BranchAssumption ==
    /\ NoBlock \notin Blocks
    /\ Registers \cap Immediates = {}
    /\ Width \in Nat \ {0}
    /\ 2 ^ (Width - 1) \in Nat \ {0}

Operands == Registers \cup Immediates

-----------------------------------------------------------------------------
(***************************************************************************)
(* Comparisons of words.                                                   *)
(***************************************************************************)

SignBit == 2 ^ (Width - 1)

Words == 0 .. 2 * SignBit - 1

Signed(a) == IF a >= SignBit THEN a - 2 * SignBit ELSE a

Bit(a, k) == (a \div 2 ^ k) % 2 = 1

CommonBit(a, b) == \E k \in 0 .. Width - 1 : Bit(a, k) /\ Bit(b, k)

\* The condition codes with an IFxx instruction, and those that take two.
SimpleCodes == {"B", "C", "E", "NE", "G", "A", "L", "U"}
ComplexCodes == {"GE", "AE", "LE", "UE"}
CondCodes == SimpleCodes \cup ComplexCodes

Holds(cc, a, b) ==
    CASE cc = "B" -> CommonBit(a, b)
      [] cc = "C" -> ~CommonBit(a, b)
      [] cc = "E" -> a = b
      [] cc = "NE" -> a # b
      [] cc = "G" -> a > b
      [] cc = "A" -> Signed(a) > Signed(b)
      [] cc = "L" -> a < b
      [] cc = "U" -> Signed(a) < Signed(b)
      [] cc = "GE" -> a >= b
      [] cc = "AE" -> Signed(a) >= Signed(b)
      [] cc = "LE" -> a <= b
      [] cc = "UE" -> Signed(a) <= Signed(b)

\* The integer comparisons of the selection DAG, and a test of a & b against
\* zero, which takes an AND and a comparison.
TestCodes == {"TESTNE", "TESTEQ"}
SourceCodes ==
    {"SETEQ", "SETNE", "SETLT", "SETULT", "SETGT", "SETUGT", "SETLE", "SETULE",
     "SETGE", "SETUGE"} \cup TestCodes

SourceHolds(c, a, b) ==
    CASE c = "SETEQ" -> a = b
      [] c = "SETNE" -> a # b
      [] c = "SETLT" -> Signed(a) < Signed(b)
      [] c = "SETULT" -> a < b
      [] c = "SETGT" -> Signed(a) > Signed(b)
      [] c = "SETUGT" -> a > b
      [] c = "SETLE" -> Signed(a) <= Signed(b)
      [] c = "SETULE" -> a <= b
      [] c = "SETGE" -> Signed(a) >= Signed(b)
      [] c = "SETUGE" -> a >= b
      [] c = "TESTNE" -> CommonBit(a, b)
      [] c = "TESTEQ" -> ~CommonBit(a, b)

-----------------------------------------------------------------------------
(***************************************************************************)
(* Terminators.                                                            *)
(***************************************************************************)

NoOperand == "none"

Terminator(op, cc, lhs, rhs, target) ==
    [op |-> op, cc |-> cc, lhs |-> lhs, rhs |-> rhs, target |-> target]

JMP(target) == Terminator("JMP", "none", NoOperand, NoOperand, target)
BR_CC(cc, lhs, rhs, target) == Terminator("BR_CC", cc, lhs, rhs, target)
\* Br, Bm: the target is read from a register or memory.
IndirectBranch == Terminator("Br", "none", NoOperand, NoOperand, NoBlock)
RET == Terminator("RET", "none", NoOperand, NoOperand, NoBlock)

IsBranch(t) == t.op \in {"JMP", "BR_CC", "Br"}

\* Control leaves the block at the first terminator that is taken, and
\* otherwise for the block that follows in the layout.
Taken(t, env) == t.op = "BR_CC" => Holds(t.cc, env[t.lhs], env[t.rhs])

GoesTo(code, next, env, b) ==
    \/ \E k \in DOMAIN code :
          /\ Taken(code[k], env) /\ b = code[k].target
          /\ \A j \in 1 .. k - 1 : ~Taken(code[j], env)
    \/ (\A k \in DOMAIN code : ~Taken(code[k], env)) /\ b = next

-----------------------------------------------------------------------------
(***************************************************************************)
(* Instruction selection.                                                  *)
(***************************************************************************)

NeedsAdditionalEqualityCC(c) == c \in {"SETUGE", "SETULE", "SETGE", "SETLE"}

nonEqualCC(c) ==
    CASE c = "SETUGE" -> "SETUGT" [] c = "SETULE" -> "SETULT"
      [] c = "SETGE" -> "SETGT" [] c = "SETLE" -> "SETLT" [] OTHER -> c

GetSimpleCC(c) ==
    CASE c = "SETEQ" -> "E" [] c = "SETNE" -> "NE" [] c = "SETULT" -> "L"
      [] c = "SETUGT" -> "G" [] c = "SETLT" -> "U" [] c = "SETGT" -> "A"

LowerBR_CC(c, lhs, rhs, dest) ==
    (IF NeedsAdditionalEqualityCC(c) THEN <<BR_CC("E", lhs, rhs, dest)>> ELSE <<>>)
    \o <<BR_CC(GetSimpleCC(nonEqualCC(c)), lhs, rhs, dest)>>

\* runOptBrcc turns AND and a comparison of its result with 0 into IFB or IFC.
runOptBrcc(c, lhs, rhs, dest) ==
    <<BR_CC(IF c = "TESTNE" THEN "B" ELSE "C", lhs, rhs, dest)>>

SelectBranch(c, lhs, rhs, dest) ==
    IF c \in TestCodes THEN runOptBrcc(c, lhs, rhs, dest) ELSE LowerBR_CC(c, lhs, rhs, dest)

-----------------------------------------------------------------------------
(***************************************************************************)
(* Hooks of DCPU16InstrInfo.                                               *)
(***************************************************************************)

\* A condition as AnalyzeBranch returns it; NoCondition is the empty vector.
Condition(cc, lhs, rhs) == [cc |-> cc, lhs |-> lhs, rhs |-> rhs]
NoCondition == Condition("none", NoOperand, NoOperand)

\* Seeded fault: the reverse of "greater" is taken to be "less".
ReverseCC_Strict(cc) ==
    CASE cc = "B" -> "C" [] cc = "C" -> "B" [] cc = "E" -> "NE" [] cc = "NE" -> "E"
      [] cc = "G" -> "L" [] cc = "A" -> "U" [] cc = "L" -> "G" [] cc = "U" -> "A"
      [] cc = "GE" -> "L" [] cc = "AE" -> "U" [] cc = "LE" -> "G" [] cc = "UE" -> "A"

ReverseCC(cc) ==
    CASE cc = "B" -> "C" [] cc = "C" -> "B" [] cc = "E" -> "NE" [] cc = "NE" -> "E"
      [] cc = "G" -> "LE" [] cc = "A" -> "UE" [] cc = "L" -> "GE" [] cc = "U" -> "AE"
      [] cc = "GE" -> "L" [] cc = "AE" -> "U" [] cc = "LE" -> "G" [] cc = "UE" -> "A"

ReverseBranchCondition(cond) == [cond EXCEPT !.cc = ReverseCC(@)]

\* Seeded fault: the signed comparisons are forgotten.
AcceptsAdditionalEqualityCheck_Unsigned(cc) == cc \in {"G", "L"}

AcceptsAdditionalEqualityCheck(cc) == cc \in {"G", "A", "L", "U"}

WithEquality(cc) ==
    CASE cc = "G" -> "GE" [] cc = "A" -> "AE" [] cc = "L" -> "LE" [] cc = "U" -> "UE"

IsComplexCC(cc) == cc \in ComplexCodes

simpleCC(cc) ==
    CASE cc = "GE" -> "G" [] cc = "AE" -> "A" [] cc = "LE" -> "L" [] cc = "UE" -> "U"
      [] OTHER -> cc

\* Seeded fault: a conditional branch is taken to be one instruction.
RemoveBranch_Two(code) ==
    LET last == {k \in DOMAIN code : k > Len(code) - 2 /\ IsBranch(code[k])}
    IN  SubSeq(code, 1, Len(code) - Cardinality(last))

\* The branches at the end of the block are removed up to anything else.
RemoveBranch(code) ==
    LET kept == {k \in DOMAIN code : ~IsBranch(code[k])}
    IN  IF kept = {} THEN <<>>
        ELSE SubSeq(code, 1, CHOOSE k \in kept : \A j \in kept : j <= k)

ConditionalBranches(tbb, cond) ==
    (IF IsComplexCC(cond.cc) THEN <<BR_CC("E", cond.lhs, cond.rhs, tbb)>> ELSE <<>>)
    \o <<BR_CC(simpleCC(cond.cc), cond.lhs, cond.rhs, tbb)>>

\* The assertions of InsertBranch.
MayInsertBranch(tbb, fbb, cond) == tbb # NoBlock /\ (cond = NoCondition => fbb = NoBlock)

\* Code that InsertBranch appends.
InsertBranch(tbb, fbb, cond) ==
    IF cond = NoCondition
    THEN <<JMP(tbb)>>
    ELSE ConditionalBranches(tbb, cond) \o (IF fbb # NoBlock THEN <<JMP(fbb)>> ELSE <<>>)
=============================================================================
