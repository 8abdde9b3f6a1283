--------------------------- MODULE BlockTerminators ---------------------------
(***************************************************************************)
(* The branches at the end of one machine basic block, from instruction    *)
(* selection through the passes that lay the blocks out anew.              *)
(*                                                                         *)
(* MachineBlockPlacement moves blocks and calls updateTerminator           *)
(* (lib/CodeGen/MachineBasicBlock.cpp); tail duplication redirects an edge *)
(* past a block that only jumps on (duplicateSimpleBB,                     *)
(* lib/CodeGen/TailDuplication.cpp); branch folding takes edges out of the *)
(* CFG that the code does not have.  They know the block only by what      *)
(* DCPU16InstrInfo::AnalyzeBranch tells them: one action is one iteration  *)
(* of its loop, and one is the call that uses its results.                 *)
(***************************************************************************)
EXTENDS DCPU16Branches

CONSTANTS
    EndOfFunction,  \* the layout position after the last block
    Edges           \* true and false successors a comparison may have

ASSUME TerminatorAssumption ==
    /\ EndOfFunction \notin Blocks \cup {NoBlock}
    /\ Edges \subseteq Blocks \X Blocks
    /\ "none" \notin Operands

VARIABLES
    source,       \* what the program means the block to do
    succs,        \* the block's successors in the CFG
    next,         \* the block that follows in the layout
    code,         \* the block's terminators
    stage,        \* what the compiler does with the block
    AllowModify,  \* parameter of AnalyzeBranch
    I,            \* its iterator: terminators 1 .. I are still to be looked at
    TBB, FBB, Cond, \* its results
    redirect      \* TailBB and NewTarget of duplicateSimpleBB

analysis == <<AllowModify, I, TBB, FBB, Cond>>
vars == <<source, succs, next, code, stage, analysis, redirect>>

Positions == Blocks \cup {EndOfFunction}

isLayoutSuccessor(b) == b = next

\* Where the comparison of the program sends control.
Destination(env) ==
    IF SourceHolds(source.cond, env[source.lhs], env[source.rhs])
    THEN source.trueBB ELSE source.falseBB

Envs == [Operands -> Words]

Source(cond, lhs, rhs, trueBB, falseBB) ==
    [cond |-> cond, lhs |-> lhs, rhs |-> rhs, trueBB |-> trueBB, falseBB |-> falseBB]

-----------------------------------------------------------------------------
(***************************************************************************)
(* The block after instruction selection: it compares and branches, goes   *)
(* on to its only successor, or returns or jumps indirectly.               *)
(***************************************************************************)

\* visitSwitchCase: the comparison is inverted when the true successor follows;
\* the jump to the false successor is emitted even when that one follows.  The
\* AND that runOptBrcc looks for has a register on its left.
InitConditional ==
    \E c \in SourceCodes, l, r \in Operands, e \in Edges :
        /\ isLayoutSuccessor(e[1]) => e[2] = e[1]
        /\ c \in TestCodes => l \in Registers
        /\ source = Source(c, l, r, e[1], e[2])
        /\ succs = {e[1], e[2]}
        /\ code = SelectBranch(c, l, r, e[1]) \o <<JMP(e[2])>>

\* visitBr: an unconditional jump is not emitted to the block that follows.
InitUnconditional ==
    \E l \in Operands, b \in Blocks :
        /\ source = Source("SETEQ", l, l, b, b)
        /\ succs = {b}
        /\ code = IF isLayoutSuccessor(b) THEN <<>> ELSE <<JMP(b)>>

InitLeaving ==
    \E l \in Operands, t \in {RET, IndirectBranch} :
        /\ source = Source("SETEQ", l, l, NoBlock, NoBlock)
        /\ succs = IF t = RET THEN {} ELSE Blocks
        /\ code = <<t>>

Init ==
    /\ next \in Positions
    /\ InitConditional \/ InitUnconditional \/ InitLeaving
    /\ stage = "stable"
    /\ AllowModify = FALSE
    /\ I = 0
    /\ TBB = NoBlock /\ FBB = NoBlock /\ Cond = NoCondition
    /\ redirect = <<NoBlock, NoBlock>>

-----------------------------------------------------------------------------
(***************************************************************************)
(* The passes call AnalyzeBranch.                                          *)
(***************************************************************************)

StartAnalysis(allowModify) ==
    /\ AllowModify' = allowModify
    /\ I' = Len(code)
    /\ TBB' = NoBlock /\ FBB' = NoBlock /\ Cond' = NoCondition
    /\ stage' = "analyze"

\* MachineBlockPlacement has spliced a block after this one, perhaps the same.
PlaceBlock ==
    /\ stage = "stable"
    /\ next' \in Positions
    /\ StartAnalysis(FALSE)
    /\ redirect' = <<NoBlock, NoBlock>>
    /\ UNCHANGED <<source, succs, code>>

\* A successor turns out to hold nothing but a jump.
TailDuplicate ==
    /\ stage = "stable"
    /\ \E tail \in succs, target \in Blocks :
          /\ tail # target
          /\ redirect' = <<tail, target>>
    /\ StartAnalysis(TRUE)
    /\ UNCHANGED <<source, succs, next, code>>

\* BranchFolder::OptimizeFunction begins with a correction of the CFG.
FixCFG ==
    /\ stage = "stable"
    /\ redirect' = <<NoBlock, NoBlock>>
    /\ StartAnalysis(TRUE)
    /\ UNCHANGED <<source, succs, next, code>>

Analyzing == stage = "analyze" /\ I > 0

\* Terminators that are no branch, and indirect branches, are not understood:
\* the passes leave such a block alone.
AnalyzeGivesUp ==
    /\ Analyzing
    /\ code[I].op \in {"RET", "Br"}
    /\ stage' = "stable"
    /\ UNCHANGED <<source, succs, next, code, analysis, redirect>>

\* Seeded fault: the iterator starts over whether or not the jump is deleted.
AnalyzeJump_StartsOver ==
    /\ Analyzing
    /\ code[I].op = "JMP"
    /\ TBB' = IF AllowModify /\ isLayoutSuccessor(code[I].target)
              THEN NoBlock ELSE code[I].target
    /\ code' = IF AllowModify /\ isLayoutSuccessor(code[I].target)
               THEN SubSeq(code, 1, I - 1) ELSE SubSeq(code, 1, I)
    /\ I' = Len(code')
    /\ FBB' = NoBlock /\ Cond' = NoCondition
    /\ UNCHANGED <<source, succs, next, stage, AllowModify, redirect>>

AnalyzeJump ==
    /\ Analyzing
    /\ code[I].op = "JMP"
    /\ \/ /\ ~AllowModify
          /\ TBB' = code[I].target
          /\ I' = I - 1
          /\ UNCHANGED <<code, FBB, Cond>>
       \/ /\ AllowModify
          /\ FBB' = NoBlock
          /\ Cond' = NoCondition
          /\ \/ /\ isLayoutSuccessor(code[I].target)
                /\ TBB' = NoBlock
                /\ code' = SubSeq(code, 1, I - 1)
             \/ /\ ~isLayoutSuccessor(code[I].target)
                /\ TBB' = code[I].target
                /\ code' = SubSeq(code, 1, I)
          /\ I' = I - 1
    /\ UNCHANGED <<source, succs, next, stage, AllowModify, redirect>>

AnalyzeConditional ==
    /\ Analyzing
    /\ code[I].op = "BR_CC"
    /\ Cond = NoCondition
    /\ FBB' = TBB
    /\ TBB' = code[I].target
    /\ Cond' = Condition(code[I].cc, code[I].lhs, code[I].rhs)
    /\ I' = I - 1
    /\ UNCHANGED <<source, succs, next, code, stage, AllowModify, redirect>>

SameType(a, b) == a \in Registers <=> b \in Registers

\* The types of the operands are compared, in either order, not the operands.
SameTypes(cond, t) ==
    \/ SameType(cond.lhs, t.lhs) /\ SameType(cond.rhs, t.rhs)
    \/ SameType(cond.lhs, t.rhs) /\ SameType(cond.rhs, t.lhs)

\* A comparison for equality above the comparison seen first is part of it.
AnalyzeSecondConditional ==
    /\ Analyzing
    /\ code[I].op = "BR_CC"
    /\ Cond # NoCondition
    /\ IF code[I].cc = "E" /\ IsComplexCC(Cond.cc)
       THEN stage' = "unreachable" /\ UNCHANGED Cond
       ELSE /\ UNCHANGED stage
            /\ Cond' = IF /\ code[I].cc = "E"
                          /\ AcceptsAdditionalEqualityCheck(Cond.cc)
                          /\ TBB = code[I].target
                          /\ SameTypes(Cond, code[I])
                       THEN [Cond EXCEPT !.cc = WithEquality(@)]
                       ELSE Cond
    /\ I' = I - 1
    /\ UNCHANGED <<source, succs, next, code, TBB, FBB, AllowModify, redirect>>

Analyzed == stage = "analyze" /\ I = 0

-----------------------------------------------------------------------------
(***************************************************************************)
(* MachineBasicBlock::updateTerminator.                                    *)
(***************************************************************************)

Updating == Analyzed /\ ~AllowModify

Become(newCode) ==
    /\ code' = newCode
    /\ stage' = "stable"
    /\ UNCHANGED <<source, succs, next, analysis, redirect>>

\* RemoveBranch, then InsertBranch.
Rewrite(tbb, fbb, cond) ==
    /\ code' = RemoveBranch(code) \o InsertBranch(tbb, fbb, cond)
    /\ stage' = IF MayInsertBranch(tbb, fbb, cond) THEN "stable" ELSE "unreachable"
    /\ UNCHANGED <<source, succs, next, analysis, redirect>>

UpdateUnconditional ==
    /\ Updating
    /\ Cond = NoCondition
    /\ \/ TBB # NoBlock /\ isLayoutSuccessor(TBB) /\ Become(RemoveBranch(code))
       \/ TBB # NoBlock /\ ~isLayoutSuccessor(TBB) /\ Become(code)
       \/ TBB = NoBlock /\ next \in succs /\ Become(code)
       \/ /\ TBB = NoBlock /\ next \notin succs
          /\ \E b \in succs : Become(code \o InsertBranch(b, NoBlock, NoCondition))

\* Seeded fault: the jump stays when the false successor comes to follow.
UpdateTwoWay_KeepsJump ==
    /\ Updating
    /\ Cond # NoCondition /\ FBB # NoBlock
    /\ \/ /\ isLayoutSuccessor(TBB)
          /\ Rewrite(FBB, NoBlock, ReverseBranchCondition(Cond))
       \/ /\ ~isLayoutSuccessor(TBB)
          /\ Become(code)

UpdateTwoWay ==
    /\ Updating
    /\ Cond # NoCondition /\ FBB # NoBlock
    /\ \/ /\ isLayoutSuccessor(TBB)
          /\ Rewrite(FBB, NoBlock, ReverseBranchCondition(Cond))
       \/ /\ ~isLayoutSuccessor(TBB) /\ isLayoutSuccessor(FBB)
          /\ Rewrite(TBB, NoBlock, Cond)
       \/ /\ ~isLayoutSuccessor(TBB) /\ ~isLayoutSuccessor(FBB)
          /\ Become(code)

\* The successor that is reached by falling through.
FallthroughBB ==
    IF succs \subseteq {TBB} THEN NoBlock ELSE CHOOSE b \in succs : b # TBB

canFallThrough == next \in succs

UpdateFallthrough ==
    /\ Updating
    /\ Cond # NoCondition /\ FBB = NoBlock
    /\ \/ /\ FallthroughBB = NoBlock /\ canFallThrough
          /\ \/ isLayoutSuccessor(TBB) /\ Become(RemoveBranch(code))
             \/ ~isLayoutSuccessor(TBB) /\ Rewrite(TBB, NoBlock, Cond)
       \/ /\ FallthroughBB # NoBlock \/ ~canFallThrough
          /\ \/ /\ isLayoutSuccessor(TBB)
                /\ Rewrite(FallthroughBB, NoBlock, ReverseBranchCondition(Cond))
             \/ /\ ~isLayoutSuccessor(TBB) /\ ~isLayoutSuccessor(FallthroughBB)
                /\ Rewrite(TBB, FallthroughBB, Cond)
             \/ /\ ~isLayoutSuccessor(TBB) /\ isLayoutSuccessor(FallthroughBB)
                /\ Become(code)

-----------------------------------------------------------------------------
(***************************************************************************)
(* TailDuplicatePass::duplicateSimpleBB.                                   *)
(***************************************************************************)

Redirected(b) == IF b = redirect[1] THEN redirect[2] ELSE b

Explicit(b) == IF b = NoBlock THEN next ELSE b

\* Seeded fault: an edge that falls through is not redirected.
PredFBB_Implicit == IF Cond = NoCondition THEN Redirected(TBB) ELSE Redirected(FBB)

PredTBB == Redirected(Explicit(TBB))
PredFBB == Redirected(Explicit(IF Cond = NoCondition THEN TBB ELSE FBB))

Duplicating == Analyzed /\ AllowModify /\ redirect # <<NoBlock, NoBlock>>

DuplicateSimpleBB ==
    /\ Duplicating
    /\ LET cond == IF PredTBB = PredFBB THEN NoCondition ELSE Cond
           fbb == IF PredFBB \in {PredTBB, next} THEN NoBlock ELSE PredFBB
           fallsThrough == isLayoutSuccessor(PredTBB) /\ fbb = NoBlock
       IN  /\ code' = RemoveBranch(code)
                      \o (IF fallsThrough THEN <<>> ELSE InsertBranch(PredTBB, fbb, cond))
           /\ stage' = IF fallsThrough \/ MayInsertBranch(PredTBB, fbb, cond)
                       THEN "stable" ELSE "unreachable"
    /\ succs' = (succs \ {redirect[1]}) \cup {redirect[2]}
    /\ source' = [source EXCEPT !.trueBB = Redirected(@), !.falseBB = Redirected(@)]
    /\ UNCHANGED <<next, analysis, redirect>>

-----------------------------------------------------------------------------
(***************************************************************************)
(* MachineBasicBlock::CorrectExtraCFGEdges.                                *)
(***************************************************************************)

\* Edges that the analysis does not account for are removed.
CorrectExtraCFGEdges ==
    /\ Analyzed /\ AllowModify /\ ~Duplicating
    /\ succs' = succs \cap {Explicit(TBB), IF Cond = NoCondition THEN Explicit(TBB)
                                                               ELSE Explicit(FBB)}
    /\ stage' = IF FBB # NoBlock /\ (TBB = NoBlock \/ Cond = NoCondition)
                THEN "unreachable" ELSE "stable"
    /\ UNCHANGED <<source, next, code, analysis, redirect>>

-----------------------------------------------------------------------------
Analyze ==
    AnalyzeGivesUp \/ AnalyzeJump \/ AnalyzeConditional \/ AnalyzeSecondConditional

Update == UpdateUnconditional \/ UpdateTwoWay \/ UpdateFallthrough

\* What the pass that asked for the analysis does with it.
UseAnalysis == Update \/ DuplicateSimpleBB \/ CorrectExtraCFGEdges

Next == PlaceBlock \/ TailDuplicate \/ FixCFG \/ Analyze \/ UseAnalysis

Spec == Init /\ [][Next]_vars

\* A pass runs to its end; whether another one starts is not its business.
FairSpec == Spec /\ WF_vars(Analyze \/ UseAnalysis)

-----------------------------------------------------------------------------
(***************************************************************************)
(* Properties.                                                             *)
(***************************************************************************)

\* The variables have their types; no rewriting grows the terminators beyond
\* the two comparisons and the jump that InsertBranch emits.
TypeOK ==
    /\ next \in Positions
    /\ stage \in {"stable", "analyze", "unreachable"}
    /\ AllowModify \in BOOLEAN
    /\ TBB \in Blocks \cup {NoBlock} /\ FBB \in Blocks \cup {NoBlock}
    /\ Cond.cc \in CondCodes \cup {"none"}
    /\ succs \subseteq Blocks
    /\ Len(code) <= 3 /\ I \in 0 .. Len(code)

\* However often blocks are moved and edges redirected, for all values of the
\* operands control leaves the block for the successor that the comparison of
\* the program selects.
BranchesFaithful ==
    stage = "stable" => \A env \in Envs : GoesTo(code, next, env, Destination(env))

\* What AnalyzeBranch returns describes the block: the condition, where control
\* goes if it holds, and where if it does not (TBB alone without a condition;
\* a null block is the one that follows in the layout).
AnalysisFaithful ==
    Analyzed =>
        \A env \in Envs :
            LET holds == Cond = NoCondition \/ Holds(Cond.cc, env[Cond.lhs], env[Cond.rhs])
            IN  GoesTo(code, next, env, Explicit(IF holds THEN TBB ELSE FBB))

\* Control may leave the block without a terminator being taken.
FallsThrough == \A k \in DOMAIN code : code[k].op = "BR_CC"

\* The CFG's successors are the blocks the code can go to: no pass works with an
\* edge that the code does not have, or misses one.
SuccessorsMatchCode ==
    stage = "stable" /\ (\A k \in DOMAIN code : code[k].op # "Br") =>
        /\ \A k \in DOMAIN code : IsBranch(code[k]) => code[k].target \in succs
        /\ FallsThrough => next \in succs
        /\ \A b \in succs :
               \/ FallsThrough /\ b = next
               \/ \E k \in DOMAIN code : code[k].target = b

\* No llvm_unreachable and no assertion of the hooks is ever met: a condition
\* code with an equality never meets another comparison for equality, and
\* InsertBranch is given a destination.
NeverUnreachable == stage # "unreachable"

\* No pass leaves a jump to the block that follows anyway, although instruction
\* selection emits it.
NoJumpToLayoutSuccessor ==
    [][stage = "analyze" /\ stage' = "stable" =>
           \A k \in DOMAIN code' : code'[k].op = "JMP" => code'[k].target # next']_vars

\* The analysis and the rewriting that uses it end.
UpdateEnds == stage = "analyze" ~> stage = "stable"
=============================================================================
