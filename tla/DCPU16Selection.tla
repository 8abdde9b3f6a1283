---------------------------- MODULE DCPU16Selection ----------------------------
(***************************************************************************)
(* Lowering and selection of a block (DCPU16ISelLowering.cpp,              *)
(* DCPU16ISelDAGToDAG.cpp, DCPU16InstrInfo.td): operations of the          *)
(* selection DAG, what they mean, the machine instructions that they       *)
(* become, and what the processor makes of those.                          *)
(*                                                                         *)
(* Memory holds at each address the address, so that a wrong address       *)
(* shows.                                                                  *)
(***************************************************************************)
EXTENDS DCPU16Instructions

CONSTANTS
    EvenInputs,    \* inputs whose lowest bit is known to be clear
    Temp,          \* registers for the intermediate results of an operation
    ImmValue,      \* [Immediates -> Words]
    Symbols,       \* global values, block addresses and frame indices
    SymbolKind     \* [Symbols -> {"GV", "BA", "FI"}]

ASSUME SelectionAssumption ==
    /\ EvenInputs \subseteq Inputs
    /\ ImmValue \in [Immediates -> Words]
    /\ SymbolKind \in [Symbols -> {"GV", "BA", "FI"}]

Wrap(n) == n % (2 * SignBit)

High(n) == Wrap(n \div (2 * SignBit))

-----------------------------------------------------------------------------
(***************************************************************************)
(* Addresses: trees of Leaf(r), Const(n), Sym(s), Add(l, r), Or(l, n).     *)
(***************************************************************************)

Leaf(r) == [op |-> "reg", reg |-> r]
Const(n) == [op |-> "Constant", val |-> n]
Sym(s) == [op |-> IF SymbolKind[s] = "FI" THEN "FrameIndex" ELSE "Wrapper", sym |-> s]
Add(l, r) == [op |-> "ADD", lhs |-> l, rhs |-> r]
Or(l, n) == [op |-> "OR", lhs |-> l, val |-> n]

BitOr(a, b) == CHOOSE c \in Words : \A k \in 0 .. Width - 1 : Bit(c, k) <=> Bit(a, k) \/ Bit(b, k)
BitAnd(a, b) == CHOOSE c \in Words : \A k \in 0 .. Width - 1 : Bit(c, k) <=> Bit(a, k) /\ Bit(b, k)

RECURSIVE AddressValue(_, _)
AddressValue(n, env) ==
    CASE n.op = "reg" -> env[n.reg]
      [] n.op = "Constant" -> Wrap(n.val)
      [] n.op \in {"Wrapper", "FrameIndex"} -> env[n.sym]
      [] n.op = "ADD" -> Wrap(AddressValue(n.lhs, env) + AddressValue(n.rhs, env))
      [] n.op = "OR" -> BitOr(AddressValue(n.lhs, env), Wrap(n.val))

RECURSIVE Leaves(_)
Leaves(n) ==
    CASE n.op = "reg" -> {n.reg}
      [] n.op = "ADD" -> Leaves(n.lhs) \cup Leaves(n.rhs)
      [] n.op = "OR" -> Leaves(n.lhs)
      [] OTHER -> {}

NoSymbol == "none"
NoBase == [op |-> "none"]

\* DCPU16ISelAddressMode; a match that fails is NoMatch.
EmptyMode == [base |-> NoBase, disp |-> 0, gv |-> NoSymbol, ba |-> NoSymbol]
NoMatch == [op |-> "fail"]

\* BlockAddr is not among the symbols that are looked at.
hasSymbolicDisplacement(am) == am.gv # NoSymbol

MatchAddressBase(n, am) == IF am.base # NoBase THEN NoMatch ELSE [am EXCEPT !.base = n]

MatchWrapper(n, am) ==
    CASE hasSymbolicDisplacement(am) -> MatchAddressBase(n, am)
      [] SymbolKind[n.sym] = "GV" -> [am EXCEPT !.gv = n.sym]
      [] OTHER -> [am EXCEPT !.ba = n.sym]

\* Known bits: a register of EvenInputs, and an even constant.
MaskedValueIsZero(n, mask) ==
    mask = 1 /\ \/ n.op = "reg" /\ n.reg \in EvenInputs
                \/ n.op = "Constant" /\ n.val % 2 = 0

RECURSIVE MatchAddress(_, _)
MatchAddress(n, am) ==
    LET Both(l, r) ==
            LET first == MatchAddress(l, am)
            IN  IF first = NoMatch THEN NoMatch ELSE MatchAddress(r, first)
        base == MatchAddressBase(n, am)
    IN  CASE n.op = "Constant" -> [am EXCEPT !.disp = Wrap(@ + n.val)]
          [] n.op = "Wrapper" -> MatchWrapper(n, am)
          [] n.op = "ADD" ->
                IF Both(n.lhs, n.rhs) # NoMatch THEN Both(n.lhs, n.rhs)
                ELSE IF Both(n.rhs, n.lhs) # NoMatch THEN Both(n.rhs, n.lhs) ELSE base
          [] n.op = "OR" ->
                LET lhs == MatchAddress(n.lhs, am)
                IN  IF lhs # NoMatch /\ lhs.gv = NoSymbol /\ MaskedValueIsZero(n.lhs, n.val)
                    THEN [lhs EXCEPT !.disp = Wrap(@ + n.val)] ELSE base
          [] OTHER -> base

\* The word that the operands made by SelectAddr denote: a base, and a global
\* value with the displacement, a block address without it, or a number.
ModeValue(am, env) ==
    LET base == IF am.base = NoBase THEN 0 ELSE AddressValue(am.base, env)
    IN  CASE am.gv # NoSymbol -> Wrap(base + env[am.gv] + am.disp)
          [] am.ba # NoSymbol -> Wrap(base + env[am.ba])
          [] OTHER -> Wrap(base + am.disp)

-----------------------------------------------------------------------------
(***************************************************************************)
(* What the operations of a program mean.                                  *)
(***************************************************************************)

Rotl(a, n) == Wrap(a * 2 ^ n) + a \div 2 ^ (Width - n)

\* The low and the high word of a product, sum or difference of two words.
Product(op, a, b) ==
    LET p == IF op = "SMUL_LOHI" THEN Signed(a) * Signed(b) ELSE a * b
    IN  <<Wrap(p), High(p)>>

DoubleSum(op, lo1, hi1, lo2, hi2) ==
    LET W == 2 * SignBit
        a == hi1 * W + lo1
        b == hi2 * W + lo2
        sum == IF op = "ADD2" THEN a + b ELSE a - b
    IN  <<Wrap(sum), High(sum)>>

Set(s, defs, values) ==
    [s EXCEPT !.env = [r \in DOMAIN @ |->
        IF \E k \in DOMAIN defs : defs[k] = r
        THEN values[CHOOSE k \in DOMAIN defs : defs[k] = r] ELSE @[r]]]

Evaluate(s, o) ==
    LET u == [k \in DOMAIN o.uses |-> s.env[o.uses[k]]]
    IN  CASE s.target # NoBlock -> s
          [] o.op = "AND" -> Set(s, o.defs, <<BitAnd(u[1], u[2])>>)
          [] o.op = "ROTL" -> Set(s, o.defs, <<Rotl(u[1], u[2])>>)
          [] o.op = "ROTR" -> Set(s, o.defs, <<Rotl(u[1], (Width - u[2]) % Width)>>)
          [] o.op = "SELECT_CC" ->
                Set(s, o.defs, <<IF SourceHolds(o.cc, u[1], u[2]) THEN u[3] ELSE u[4]>>)
          [] o.op \in {"UMUL_LOHI", "SMUL_LOHI"} -> Set(s, o.defs, Product(o.op, u[1], u[2]))
          [] o.op \in {"ADD2", "SUB2"} -> Set(s, o.defs, DoubleSum(o.op, u[1], u[2], u[3], u[4]))
          [] o.op = "LOAD" -> Set(s, o.defs, <<AddressValue(o.addr, s.env)>>)
          [] o.op = "USE" -> [s EXCEPT !.seen = Append(@, u[1])]
          [] o.op = "BR_CC" -> IF SourceHolds(o.cc, u[1], u[2]) THEN [s EXCEPT !.target = o.target] ELSE s

-----------------------------------------------------------------------------
(***************************************************************************)
(* Lowering: the machine instructions of an operation.                     *)
(***************************************************************************)

LowerROT(o) ==
    LET d == o.defs[1]
    IN  <<Plain(IF o.op = "ROTL" THEN "SHL" ELSE "SHR", <<Temp[d, 1]>>, o.uses),
          Plain("COPY", <<Temp[d, 2]>>, <<EX>>),
          Plain("BOR", <<d>>, <<Temp[d, 1], Temp[d, 2]>>)>>

\* Seeded fault: the values are not swapped with the reversed condition.
LowerSELECT_CC_NoSwap(o) ==
    LET u == o.uses
        cc == GetSimpleCC(CASE o.cc = "SETUGE" -> "SETULT" [] o.cc = "SETULE" -> "SETUGT"
                            [] o.cc = "SETGE" -> "SETLT" [] o.cc = "SETLE" -> "SETGT"
                            [] OTHER -> o.cc)
    IN  <<Op("Select16", cc, o.defs, u, NoAddress, NoBlock)>>

\* A comparison with equality is reversed, and the two values are swapped.
LowerSELECT_CC(o) ==
    LET u == o.uses
        cc == GetSimpleCC(CASE o.cc = "SETUGE" -> "SETULT" [] o.cc = "SETULE" -> "SETUGT"
                            [] o.cc = "SETGE" -> "SETLT" [] o.cc = "SETLE" -> "SETGT"
                            [] OTHER -> o.cc)
    IN  <<Op("Select16", cc, o.defs,
             IF NeedsAdditionalEqualityCC(o.cc) THEN <<u[1], u[2], u[4], u[3]>> ELSE u,
             NoAddress, NoBlock)>>

LowerMUL_LOHI(o) ==
    <<Plain(IF o.op = "SMUL_LOHI" THEN "MLI" ELSE "MUL", <<o.defs[1]>>, o.uses),
      Plain("COPY", <<o.defs[2]>>, <<EX>>)>>

\* addc and adde, subc and sube: the carry is in EX.
SelectCarry(o) ==
    LET u == o.uses
    IN  <<Plain(IF o.op = "ADD2" THEN "ADD" ELSE "SUB", <<o.defs[1]>>, <<u[1], u[3]>>),
          Plain(IF o.op = "ADD2" THEN "ADX" ELSE "SBX", <<o.defs[2]>>, <<u[2], u[4]>>)>>

\* The base is a register operand of the MOV.
SelectLoad(o) ==
    LET am == MatchAddress(o.addr, EmptyMode)
    IN  <<Op("MOV", "none", o.defs, SetToSeq(Leaves(o.addr)), am, NoBlock)>>

SelectBR_CC(o) ==
    LET branches == LowerBR_CC(o.cc, o.uses[1], o.uses[2], o.target)
    IN  [k \in DOMAIN branches |->
            Op("BR_CC", branches[k].cc, <<>>, o.uses, NoAddress, branches[k].target)]

LowerOperation(o) ==
    CASE o.op \in {"ROTL", "ROTR"} -> LowerROT(o)
      [] o.op = "SELECT_CC" -> LowerSELECT_CC(o)
      [] o.op \in {"UMUL_LOHI", "SMUL_LOHI"} -> LowerMUL_LOHI(o)
      [] o.op \in {"ADD2", "SUB2"} -> SelectCarry(o)
      [] o.op = "LOAD" -> SelectLoad(o)
      [] o.op = "BR_CC" -> SelectBR_CC(o)
      [] OTHER -> <<o>>

Selected(program) == FlattenSeq([k \in DOMAIN program |-> LowerOperation(program[k])])

-----------------------------------------------------------------------------
(***************************************************************************)
(* The processor.  Most instructions write EX.                             *)
(***************************************************************************)

\* [result, EX] of an arithmetic instruction.
Arithmetic(op, a, b, ex) ==
    LET W == 2 * SignBit
        \* Overflow gives 1, and underflow -1.
        Carry(n) == <<Wrap(n), IF n >= W THEN 1 ELSE IF n < 0 THEN W - 1 ELSE 0>>
    IN  CASE op = "AND" -> <<BitAnd(a, b), ex>>
          [] op = "BOR" -> <<BitOr(a, b), ex>>
          [] op = "SHL" -> <<Wrap(a * 2 ^ b), High(a * 2 ^ b)>>
          [] op = "SHR" -> <<a \div 2 ^ b, Wrap((a * W) \div 2 ^ b)>>
          [] op = "MUL" -> <<Wrap(a * b), High(a * b)>>
          [] op = "MLI" -> <<Wrap(Signed(a) * Signed(b)), High(Signed(a) * Signed(b))>>
          [] op = "ADD" -> Carry(a + b)
          [] op = "SUB" -> Carry(a - b)
          [] op = "ADX" -> Carry(a + b + ex)
          [] op = "SBX" -> Carry(a - b + Signed(ex))

Execute(s, i) ==
    LET u == [k \in DOMAIN i.uses |-> s.env[i.uses[k]]]
    IN  CASE s.target # NoBlock -> s
          [] i.op = "COPY" -> Set(s, i.defs, u)
          [] i.op = "MOV" -> Set(s, i.defs, <<ModeValue(i.addr, s.env)>>)
          \* SET dst, falseV; IFxx lhs, rhs; SET dst, trueV.
          [] i.op = "Select16" -> Set(s, i.defs, <<IF Holds(i.cc, u[1], u[2]) THEN u[3] ELSE u[4]>>)
          [] i.op = "USE" -> [s EXCEPT !.seen = Append(@, u[1])]
          [] i.op = "BR_CC" -> IF Holds(i.cc, u[1], u[2]) THEN [s EXCEPT !.target = i.target] ELSE s
          [] OTHER -> Set(s, <<i.defs[1], EX>>, Arithmetic(i.op, u[1], u[2], s.env[EX]))

\* Seen from outside, a block goes somewhere, and gives values to others.
Observe(end, exported) ==
    [target |-> end.target, seen |-> end.seen, exports |-> [r \in exported |-> end.env[r]]]

RECURSIVE SymbolsOf(_)
SymbolsOf(n) ==
    CASE n.op \in {"Wrapper", "FrameIndex"} -> {n.sym}
      [] n.op = "ADD" -> SymbolsOf(n.lhs) \cup SymbolsOf(n.rhs)
      [] n.op = "OR" -> SymbolsOf(n.lhs)
      [] OTHER -> {}

\* The values that inputs and symbols may have; nothing relies on EX.
Environments(program) ==
    {e \in [Inputs \cup UNION {SymbolsOf(program[k].addr) : k \in DOMAIN program} \cup {EX} -> Words] :
        e[EX] = 2 * SignBit - 1 /\ \A r \in EvenInputs : e[r] % 2 = 0}

Start(block, input) ==
    [env |-> [r \in UNION {ToSet(block[k].defs) : k \in DOMAIN block}
                    \cup Immediates \cup DOMAIN input |->
                 CASE r \in Immediates -> ImmValue[r] [] r \in DOMAIN input -> input[r] [] OTHER -> 0],
     seen |-> <<>>, target |-> NoBlock]

RunProgram(program, input, exported) ==
    Observe(FoldLeft(Evaluate, Start(program, input), program), exported)

RunBlock(block, input, exported) ==
    Observe(FoldLeft(Execute, Start(block, input), block), exported)
=============================================================================
