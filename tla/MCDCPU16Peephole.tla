--------------------------- MODULE MCDCPU16Peephole ---------------------------
(***************************************************************************)
(* Blocks of one or two operations and perhaps another use of a result,    *)
(* with one or two branches behind them; words of two bits.                *)
(***************************************************************************)
EXTENDS DCPU16CodeGen, TLC

CONSTANTS b1, b2

MCImmValue == ("0" :> 0) @@ ("1" :> 1) @@ ("2" :> 2)
MCSymbolKind == ("g" :> "GV") @@ ("f" :> "FI") @@ ("ba" :> "BA")
MCTemp == (<<"v1", 1>> :> "t1") @@ (<<"v1", 2>> :> "t2") @@ (<<"v2", 1>> :> "t3") @@ (<<"v2", 2>> :> "t4")

Leaves1 == {Leaf("x"), Leaf("y"), Const(1), Const(2), Sym("g"), Sym("f")}
Addresses ==
    Leaves1 \cup {Sym("ba")}
    \cup {Add(l, r) : l, r \in Leaves1} \cup {Or(l, 1) : l \in Leaves1}
    \cup {Add(Sym("ba"), Leaf("x")), Add(Leaf("y"), Sym("ba"))}
    \cup {Add(Add(l, r), m) : l \in {Leaf("y"), Sym("g")}, r \in {Const(1), Sym("f")}, m \in Leaves1}
    \cup {Or(Add(l, Const(2)), 1) : l \in {Leaf("y"), Sym("g")}}

Ccs == {"SETEQ", "SETNE", "SETLT", "SETULT", "SETGT", "SETUGT", "SETLE", "SETULE", "SETGE", "SETUGE"}

Ands ==
    {Plain("AND", <<"v1">>, <<"x", rhs>>) : rhs \in {"y", "2"}}
    \cup {Plain("AND", <<"v2">>, <<lhs, rhs>>) : lhs \in {"x", "v1"}, rhs \in {"y", "v1", "2"}}
UseOps == {Plain("USE", <<>>, <<r>>) : r \in {"v1", "v2"}}

\* The operations that are lowered, with v1 for a result.
Lowered ==
    {Plain(op, <<"v1">>, <<"x", n>>) : op \in {"ROTL", "ROTR"}, n \in {"0", "1"}}
    \cup {Op("SELECT_CC", cc, <<"v1">>, <<"x", "y", t, "1">>, NoAddress, NoBlock) : cc \in Ccs, t \in {"x", "2"}}
    \cup {Plain(op, <<"v1", "v2">>, <<"x", r>>) : op \in {"UMUL_LOHI", "SMUL_LOHI"}, r \in {"y", "2"}}
    \cup {Plain(op, <<"v1", "v2">>, <<"x", "y", "y", r>>) : op \in {"ADD2", "SUB2"}, r \in {"x", "1"}}
    \cup {Op("LOAD", "none", <<"v1">>, <<>>, n, NoBlock) : n \in Addresses}

Branch(cc, l, r, t) == Op("BR_CC", cc, <<>>, <<l, r>>, NoAddress, t)

Defined(body, r) == r \in Inputs \/ \E k \in DOMAIN body : r \in ToSet(body[k].defs)

\* Every register is assigned once and before it is read.
WellFormed(body) ==
    \A k \in DOMAIN body :
        /\ \A r \in ToSet(body[k].uses) \cap Registers : Defined(SubSeq(body, 1, k - 1), r)
        /\ \A r \in ToSet(body[k].defs) : ~Defined(SubSeq(body, 1, k - 1), r)

Bodies == {b \in SeqOf(Ands \cup UseOps, 3) : WellFormed(b)}

Ends == {Branch(cc, lhs, "0", b1) : cc \in {"SETEQ", "SETNE", "SETGT"}, lhs \in {"x", "v1", "v2"}}
    \cup {Branch("SETUGE", "v1", "0", b1), Branch("SETNE", "v1", "2", b1)}

SecondEnds == {[e EXCEPT !.target = b2] : e \in {d \in Ends : d.uses[1] # "x"}}

LoweredBodies ==
    {<<o>> : o \in Lowered}
    \cup {<<o, Plain("AND", <<"v2">>, <<"v1", "y">>)>> : o \in {l \in Lowered : Len(l.defs) = 1 /\ l.op # "LOAD"}}

MCPrograms ==
    {b \in {body \o <<e>> : body \in Bodies \cup LoweredBodies, e \in Ends}
        \cup {body \o <<e, f>> : body \in Bodies, e \in Ends, f \in SecondEnds}
        \cup {<<Branch(cc, "x", "y", b1)>> : cc \in Ccs}
      : WellFormed(b)}

MCSelectedBlocks == {Selected(p) : p \in MCPrograms}
=============================================================================
