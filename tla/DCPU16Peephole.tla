---------------------------- MODULE DCPU16Peephole ----------------------------
(***************************************************************************)
(* The peephole pass (DCPU16Peephole.cpp), which turns an AND and a        *)
(* comparison of its result with zero into IFB or IFC.  It runs on the     *)
(* block that instruction selection has just emitted, and it erases the    *)
(* AND on the strength of the kill flags that InstrEmitter.cpp sets:       *)
(* composition of the emission of a block with the pass.                   *)
(***************************************************************************)
EXTENDS DCPU16Instructions

CONSTANTS
    Zero,              \* the immediate 0
    SelectedBlocks     \* the blocks that instruction selection makes

(* What selection makes: no more than four operands, and registers (but    *)
(* EX) that are defined once, before they are used.                        *)
SelectedForm(block) ==
    /\ block \in Seq(ToSet(block))
    /\ \A n \in DOMAIN block :
        /\ block[n] \in [op : STRING, cc : STRING, defs : Seq(Registers), uses : Seq(Operands),
                         addr : {block[n].addr}, target : Blocks \cup {NoBlock}]
        /\ Len(block[n].uses) <= 4
        /\ block[n].op \in {"AND", "BR_CC"} => Len(block[n].uses) = 2
        /\ Len(block[n].defs) = 1 \/ block[n].op # "AND"
        /\ block[n].defs = <<>> \/ block[n].op # "BR_CC"
        /\ EX \in ToSet(block[n].defs) => block[n].op # "AND"
        /\ \A r \in ToSet(block[n].defs) \ {EX} :
            /\ r \notin Inputs
            /\ \A m \in DOMAIN block :
                /\ r \in ToSet(block[m].defs) => m = n
                /\ r \in ToSet(block[m].uses) => n < m

ASSUME PeepholeAssumption ==
    /\ Zero \in Immediates
    /\ \A block \in SelectedBlocks : SelectedForm(block)

VARIABLES
    exported,     \* registers that CopyToReg nodes give to other blocks
    code,         \* the block of the machine
    at,           \* miiIter
    peepholeMap   \* result register -> AND

vars == <<exported, code, at, peepholeMap>>

-----------------------------------------------------------------------------
(***************************************************************************)
(* Emission, and its kill flags.                                           *)
(***************************************************************************)

\* Uses of a value in the DAG: operands of nodes, and the CopyToReg.
Uses(block, exports, r) ==
    Cardinality({p \in (DOMAIN block) \X (1 .. 4) :
                    p[2] \in DOMAIN block[p[1]].uses /\ block[p[1]].uses[p[2]] = r})
    + (IF r \in exports THEN 1 ELSE 0)

\* Values that CopyFromReg nodes bring.
Copied(block) == Inputs \cup {EX} \cup
    UNION {ToSet(block[k].defs) : k \in {j \in DOMAIN block : block[j].op = "COPY"}}

\* The first source of these instructions is tied to their result.
TwoAddress == {"AND", "BOR", "SHL", "SHR", "MUL", "MLI", "ADD", "SUB", "ADX", "SBX"}

isKill(block, exports, i, k) ==
    /\ i.uses[k] \in Registers \ Copied(block)
    /\ Uses(block, exports, i.uses[k]) = 1
    /\ ~(i.op \in TwoAddress /\ k = 1)

Killed(i) == {i.uses[k] : k \in i.kills}

Flagged(i, kills) ==
    [op |-> i.op, cc |-> i.cc, defs |-> i.defs, uses |-> i.uses, addr |-> i.addr,
     target |-> i.target, kills |-> kills]

Emitted(block, exports) ==
    [n \in DOMAIN block |->
        Flagged(block[n], {k \in DOMAIN block[n].uses : isKill(block, exports, block[n], k)})]

-----------------------------------------------------------------------------
Results(block) == UNION {ToSet(block[n].defs) : n \in DOMAIN block}

Begin(block, exports) ==
    /\ exported = exports
    /\ code = Emitted(block, exports)
    /\ at = 1
    /\ peepholeMap = <<>>

Init == \E block \in SelectedBlocks : \E exports \in SUBSET Results(block) : Begin(block, exports)

Here == code[at]

Mapped(r, and) == [s \in DOMAIN peepholeMap \cup {r} |-> IF s = r THEN and ELSE peepholeMap[s]]

\* Seeded fault: a register that is mapped already keeps its AND.
VisitAnd_None ==
    /\ at <= Len(code) /\ Here.op = "AND"
    /\ at' = at + 1
    /\ peepholeMap' = IF Here.uses[2] \in Immediates THEN peepholeMap ELSE Mapped(Here.defs[1], Here)
    /\ UNCHANGED <<exported, code>>

VisitAnd ==
    /\ at <= Len(code) /\ Here.op = "AND"
    /\ at' = at + 1
    /\ peepholeMap' = Mapped(Here.defs[1], Here)
    /\ UNCHANGED <<exported, code>>

\* Seeded fault: the kill flag is not looked at.
Matches_Live(i) ==
    i.op = "BR_CC" /\ i.uses[2] = Zero /\ i.uses[1] \in DOMAIN peepholeMap

\* A comparison with zero of the result of an AND, which dies here.
Matches(i) ==
    i.op = "BR_CC" /\ i.uses[2] = Zero /\ 1 \in i.kills /\ i.uses[1] \in DOMAIN peepholeMap

\* Seeded fault: the operands keep no kill flag but that of the branch.
swapOptBrcc_KeepsKill(br, and) ==
    [br EXCEPT !.cc = IF br.cc = "NE" THEN "B" ELSE "C",
               !.uses = and.uses, !.kills = {1}]

\* The branch takes the operands of the AND, with their flags.
swapOptBrcc(br, and) ==
    [br EXCEPT !.cc = IF br.cc = "NE" THEN "B" ELSE "C",
               !.uses = and.uses, !.kills = and.kills]

(* eraseFromParent of the AND, which is before the iterator; the iterator  *)
(* goes on behind the branch, whose place has moved by one.                *)
Fuse ==
    /\ at <= Len(code) /\ Matches(Here) /\ Here.cc \in {"E", "NE"}
    /\ \E j \in DOMAIN code :
        /\ code[j] = peepholeMap[Here.uses[1]]
        /\ code' = RemoveAt([code EXCEPT ![at] = swapOptBrcc(Here, code[j])], j)
    /\ at' = at
    /\ UNCHANGED <<exported, peepholeMap>>

Forget ==
    /\ at <= Len(code) /\ Matches(Here) /\ Here.cc \notin {"E", "NE"}
    /\ peepholeMap' = [r \in DOMAIN peepholeMap \ {Here.uses[1]} |-> peepholeMap[r]]
    /\ at' = at + 1
    /\ UNCHANGED <<exported, code>>

Pass ==
    /\ at <= Len(code) /\ Here.op # "AND" /\ ~Matches(Here)
    /\ at' = at + 1
    /\ UNCHANGED <<exported, code, peepholeMap>>

Next == VisitAnd \/ Fuse \/ Forget \/ Pass

Spec == Init /\ [][Next]_vars

-----------------------------------------------------------------------------
(* One type invariant: the iterator is in the block or at its end, and the *)
(* map holds ANDs under their result registers.                            *)
TypeOK ==
    /\ at \in 1 .. Len(code) + 1
    /\ \A r \in DOMAIN peepholeMap : peepholeMap[r].op = "AND" /\ peepholeMap[r].defs = <<r>>

(* The kill flags stay right: what is killed is read no more, neither in   *)
(* the block nor after it, though uses have moved down to the branch.      *)
KillsAreLast ==
    \A n \in DOMAIN code : \A r \in Killed(code[n]) :
        r \notin exported /\ \A j \in n + 1 .. Len(code) : r \notin ToSet(code[j].uses)

(* The map is never asked for an AND that has been erased, although Fuse   *)
(* leaves its pointer in the map.                                          *)
NoDangling ==
    at <= Len(code) /\ Matches(Here) => peepholeMap[Here.uses[1]] \in ToSet(code)

(* Nothing is missed: in the end no AND of the block has as its only use   *)
(* a comparison with zero for equality.                                    *)
NothingMissed ==
    at = Len(code) + 1 =>
        \A j, k \in DOMAIN code :
            ~(/\ code[j].op = "AND" /\ code[k].op = "BR_CC" /\ code[k].cc \in {"E", "NE"}
              /\ code[k].uses = <<code[j].defs[1], Zero>>
              /\ Uses(code, exported, code[j].defs[1]) = 1)
=============================================================================
