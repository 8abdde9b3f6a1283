---------------------------- MODULE MCRegAllocFast ----------------------------
(***************************************************************************)
(* Functions of one to three blocks over three virtual registers, on a     *)
(* machine with two: every pair of values that is alive next to a third,   *)
(* or next to an argument of a call, has to be spilled.                    *)
(***************************************************************************)
EXTENDS RegAllocFast

CONSTANTS A, B, v1, v2, v3

MCOrder == <<A, B>>
Names == <<v1, v2, v3>>

Def(r) == Operand(r, "def", FALSE)
Use(r) == Operand(r, "use", FALSE)

\* What selection, phi elimination and two-address rewriting leave of one operation.
Copy(d, s) == <<Instr("COPY", <<Def(d), Use(s)>>)>>
Load(d) == <<Instr("LOAD", <<Def(d)>>)>>
Store(a, v) == <<Instr("STORE", <<Use(a), Use(v)>>)>>
AddOp(d, s) == <<Instr("ADD", <<Def(d), Operand(d, "tied", FALSE), Use(s)>>)>>
Select(d, s) == <<Instr("SELECT", <<Operand(d, "ec", FALSE), Use(s)>>)>>
Call(a, d) == Copy(A, a) \o <<Instr("CALL", <<Operand(A, "imp", FALSE)>>)>> \o Copy(d, A)
CallReg(f, a) == Copy(A, a) \o <<Instr("CALL", <<Use(f), Operand(A, "imp", FALSE)>>)>>
BrCc(l, r) == <<Instr("BR", <<Use(l), Use(r)>>)>>
Ret == <<Instr("RET", <<>>)>>

Operation(instrs, def, uses) == [instrs |-> instrs, def |-> def, uses |-> uses]
Distinct(S) == {p \in S \X S : p[1] # p[2]}

Operations ==
    {Operation(Load(d), d, {}) : d \in Virt}
    \cup {Operation(Store(a, v), a, {a, v}) : a, v \in Virt}
    \cup {Operation(AddOp(d, s), d, {d, s}) : d, s \in Virt}
    \cup {Operation(Copy(d, s), d, {s}) : <<d, s>> \in Distinct(Virt)}
    \cup {Operation(Select(d, s), d, {s}) : <<d, s>> \in Distinct(Virt)}
    \cup {Operation(Call(a, d), d, {a}) : a, d \in Virt}
    \cup {Operation(CallReg(f, a), f, {f, a}) : f, a \in Virt}

\* Registers get their first values in the order of their names: the first n have them.
First(n) == {Names[k] : k \in (1 .. n) \cap DOMAIN Names}
Fits(o, n) == o.uses \subseteq First(n) /\ o.def \in First(n + 1)
Defined(o, n) == IF o.def \in First(n) THEN n ELSE n + 1

\* Sequences of k operations: <<instructions, registers that have values after them>>.
RECURSIVE Straight(_, _)
Straight(n, k) ==
    IF k = 0 THEN {<<<<>>, n>>}
    ELSE {<<p[1] \o o.instrs, Defined(o, p[2])>> : <<p, o>> \in
            {q \in Straight(n, k - 1) \X Operations : Fits(q[2], q[1][2])}}

Function(blocks, succs, liveins, liveouts) ==
    [blocks |-> blocks, succs |-> succs, liveins |-> liveins, liveouts |-> liveouts]

(***************************************************************************)
(* InstrEmitter flags the use of a value that has no other use, when no    *)
(* copy brought the value and the use is not a copy itself.                *)
(***************************************************************************)
Flagged(f) ==
    LET where == UNION {{<<b, i>> : i \in DOMAIN f.blocks[b]} : b \in DOMAIN f.blocks}
        I(p) == f.blocks[p[1]][p[2]]
        places == UNION {{<<p[1], p[2], k>> : k \in DOMAIN I(p).ops} : p \in where}
        named == [v \in Virt |-> {q \in places : I(q).ops[q[3]].reg = v}]
        once == UNION {{q \in named[v] : \E d \in named[v] \ {q} :
                            d[1] = q[1] /\ d[3] = 1 /\ ~isUse(I(d).ops[1]) /\ I(d).op # "COPY"} :
                         v \in {w \in Virt : Cardinality(named[w]) = 2}}
        marked == {q \in once : I(q).op # "COPY" /\ I(q).ops[q[3]].kind = "use"}
    IN  IF marked = {} THEN f
        ELSE [f EXCEPT !.blocks = [b \in DOMAIN @ |-> [i \in DOMAIN @[b] |->
                [@[b][i] EXCEPT !.ops = [k \in DOMAIN @ |-> [@[k] EXCEPT !.kill = <<b, i, k>> \in marked]]]]]]

\* One block, with an argument, and a result if k is not 0.
OneBlock(body, k) ==
    LET result == IF k = 0 THEN <<>> ELSE Copy(A, Names[k])
    IN  Function(<<Copy(v1, A) \o body[1] \o result \o Ret>>, <<{}>>, {A}, IF k = 0 THEN {} ELSE {A})

\* A block before a loop, the loop and the block behind it.
Loop(body, n, k) ==
    Function(<<FlattenSeq([i \in 1 .. n |-> Load(Names[i])]),
               body[1] \o BrCc(Names[body[2]], Names[k]), Store(Names[k], v1) \o Ret>>,
             <<{2}, {2, 3}, {}>>, {}, {})

\* The same with the block behind the loop in front of it.
LaidOut(f) ==
    Function(<<f.blocks[1] \o <<Instr("JMP", <<>>)>>, f.blocks[3], f.blocks[2]>>, <<{3}, {}, {2, 3}>>, {}, {})

\* Operations of a body, after n registers have their values.
Bodies ==
    {[start |-> n, length |-> l, body |-> b] : <<n, l, b>> \in
        {<<1, 2, b>> : b \in Straight(1, 2)} \cup {<<1, 3, b>> : b \in Straight(1, 3)}
        \cup {<<2, 2, b>> : b \in Straight(2, 2)} \cup {<<3, 2, b>> : b \in Straight(3, 2)}}

Shapes ==
    {c \in Bodies \X {"block", "loop", "laid out"} \X (0 .. 3) :
        IF c[2] = "block" THEN c[1].start = 1 /\ c[3] <= c[1].body[2]
        ELSE c[1].length = 2 /\ c[3] \in 1 .. c[1].start}

MCFunctions ==
    {Flagged(CASE c[2] = "block" -> OneBlock(c[1].body, c[3])
               [] c[2] = "loop" -> Loop(c[1].body, c[1].start, c[3])
               [] c[2] = "laid out" -> LaidOut(Loop(c[1].body, c[1].start, c[3]))) : c \in Shapes}
=============================================================================
