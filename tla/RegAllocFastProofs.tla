-------------------------- MODULE RegAllocFastProofs --------------------------
(***************************************************************************)
(* The maps of the fast register allocator are inverse to each other, for  *)
(* every function and every set of registers.  Each member of RAFast is    *)
(* shown to keep the type of the state, the shape of the code and the      *)
(* inverse, and the recursions over operands and live registers then do.   *)
(***************************************************************************)
EXTENDS RegAllocFast, SequenceTheorems, FiniteSetTheorems, TLAPS

-----------------------------------------------------------------------------
(***************************************************************************)
(* Induction over numbers, without operators as parameters.                *)
(***************************************************************************)

\* A set of naturals that is not empty has a least element.
LEMMA LeastNatural ==
    ASSUME NEW T \in SUBSET Nat, T # {}
    PROVE  \E x \in T : \A y \in T : x <= y
<1> DEFINE Less == {ss \in Nat \X Nat : ss[1] < ss[2]}
<1>1. IsWellFoundedOn(Less, Nat)
    BY NatLessThanWellFounded DEF OpToRel
<1>2. PICK x \in T : \A y \in T : <<y, x>> \notin Less
    BY <1>1, WFMin
<1>3. ASSUME NEW y \in T PROVE x <= y
    <2>1. x \in Nat /\ y \in Nat
        OBVIOUS
    <2>2. ~(y < x)
        BY <1>2, <2>1
    <2> QED BY <2>1, <2>2
<1> QED BY <1>3

\* A set that holds 0 and with n also n + 1 holds every natural.
LEMMA SetInduction ==
    ASSUME NEW S, 0 \in S, \A n \in Nat : n \in S => n + 1 \in S
    PROVE  Nat \subseteq S
<1> DEFINE T == Nat \ S
<1>1. SUFFICES ASSUME T # {} PROVE FALSE
    OBVIOUS
<1>2. PICK x \in T : \A y \in T : x <= y
    BY <1>1, LeastNatural
<1>3. x # 0 /\ x - 1 \in Nat
    BY <1>2
<1>4. x - 1 \in S
    BY <1>2, <1>3
<1> QED BY <1>2, <1>3, <1>4

Iterates(f, base, step, m) == f[0] = base /\ \A n \in 1 .. m : f[n] = step[n][f[n - 1]]

\* A function defined by recursion over 0 .. m exists.
LEMMA PrimitiveRecursion ==
    ASSUME NEW T, NEW base \in T, NEW m \in Nat, NEW step \in [1 .. m -> [T -> T]]
    PROVE  \E f \in [0 .. m -> T] : Iterates(f, base, step, m)
<1> USE DEF Iterates
<1> DEFINE Follows(f, k) == Iterates(f, base, step, k)
           S == {k \in Nat : k <= m => \E f \in [0 .. k -> T] : Follows(f, k)}
<1>1. 0 \in S
    <2> DEFINE f == [n \in 0 .. 0 |-> base]
    <2>1. f \in [0 .. 0 -> T] /\ Follows(f, 0)
        OBVIOUS
    <2> QED BY <2>1
<1>2. ASSUME NEW k \in Nat, k \in S PROVE k + 1 \in S
    <2>1. SUFFICES ASSUME k + 1 <= m PROVE \E g \in [0 .. k + 1 -> T] : Follows(g, k + 1)
        OBVIOUS
    <2>2. PICK f \in [0 .. k -> T] : Follows(f, k)
        BY <1>2, <2>1
    <2> DEFINE last == step[k + 1][f[k]]
               g == [n \in 0 .. k + 1 |-> IF n = k + 1 THEN last ELSE f[n]]
    <2>3. last \in T
        BY <2>1
    <2>4. g \in [0 .. k + 1 -> T]
        BY <2>3
    <2>5. ASSUME NEW n \in 1 .. k + 1 PROVE g[n] = step[n][g[n - 1]]
        <3>1. n - 1 \in 0 .. k /\ n \in 0 .. k + 1 /\ n - 1 # k + 1 /\ n - 1 \in 0 .. k + 1
            OBVIOUS
        <3>2. g[n - 1] = f[n - 1]
            BY <3>1
        <3>3. CASE n = k + 1
            <4>1. g[n] = last /\ n - 1 = k
                BY <3>1, <3>3
            <4> QED BY <3>2, <3>3, <4>1
        <3>4. CASE n # k + 1
            <4>1. g[n] = f[n] /\ n \in 1 .. k
                BY <3>1, <3>4
            <4> QED BY <2>2, <3>2, <4>1
        <3> QED BY <3>3, <3>4
    <2>6. g[0] = base
        BY <2>2
    <2> QED BY <2>4, <2>5, <2>6
<1>3. Nat \subseteq S
    <2> HIDE DEF S
    <2> QED BY <1>1, <1>2, SetInduction
<1> QED BY <1>3

\* A recursive function stays in sets that its base is in and its steps keep to.
LEMMA Stays ==
    ASSUME NEW T, NEW m \in Nat, NEW f, f[0] \in T[0],
           \A n \in 1 .. m : f[n - 1] \in T[n - 1] => f[n] \in T[n]
    PROVE  \A n \in 0 .. m : f[n] \in T[n]
<1> DEFINE S == {n \in Nat : n <= m => f[n] \in T[n]}
<1>1. 0 \in S
    OBVIOUS
<1>2. ASSUME NEW n \in Nat, n \in S PROVE n + 1 \in S
    <2>1. CASE n + 1 <= m
        <3>1. n + 1 \in 1 .. m /\ n + 1 - 1 = n
            BY <2>1
        <3>2. f[n + 1] \in T[n + 1]
            BY <1>2, <2>1, <3>1
        <3> QED BY <3>2
    <2>2. CASE ~(n + 1 <= m)
        BY <2>2
    <2> QED BY <2>1, <2>2
<1>3. Nat \subseteq S
    <2> HIDE DEF S
    <2> QED BY <1>1, <1>2, SetInduction
<1> QED BY <1>3

LEMMA StaysIn ==
    ASSUME NEW T, NEW m \in Nat, NEW f, f[0] \in T,
           \A n \in 1 .. m : f[n - 1] \in T => f[n] \in T
    PROVE  \A n \in 0 .. m : f[n] \in T
<1> DEFINE Sets == [n \in 0 .. m |-> T]
<1>1. f[0] \in Sets[0] /\ \A n \in 1 .. m : f[n - 1] \in Sets[n - 1] => f[n] \in Sets[n]
    OBVIOUS
<1>2. \A n \in 0 .. m : Sets[n] = T
    OBVIOUS
<1> HIDE DEF Sets
<1>3. \A n \in 0 .. m : f[n] \in Sets[n]
    BY <1>1, Stays
<1> QED BY <1>2, <1>3

-----------------------------------------------------------------------------
(***************************************************************************)
(* The state of RAFast.                                                    *)
(***************************************************************************)
Places == Nat \X Nat
LiveReg == [PhysReg : Phys \cup {None}, LastUse : Places \cup {None}, LastOpNum : Nat, Dirty : BOOLEAN]
LiveRegMaps == UNION {[V -> LiveReg] : V \in SUBSET Virt}
Inserted == [op : {"COPY"}, ops : Seq(Operands(Registered \cup Slots))]
Errors == {"Instruction uses an allocated register", "ran out of registers"}

State ==
    [code : Code, inserted : Seq(Seq(Seq(Inserted))), Coalesced : SUBSET Places,
     StackSlotForVirtReg : SUBSET Virt, LiveVirtRegs : LiveRegMaps,
     PhysRegState : [Phys -> Virt \cup PhysRegStates], UsedInInstr : SUBSET Phys,
     CopySrc : Registered \cup {None}, CopyDst : Registered \cup {None}, errors : SUBSET Errors]

\* Scans change the registers and the flags of operands, and nothing else in the code.
SameInstr(i, j) == j.op = i.op /\ Len(j.ops) = Len(i.ops)
SameBlock(p, q) == Len(q) = Len(p) /\ \A i \in 1 .. Len(p) : SameInstr(p[i], q[i])
SameShape(c, d) == Len(d) = Len(c) /\ \A b \in 1 .. Len(c) : SameBlock(c[b], d[b])

\* The maps are inverse, but for the values in W, which have no register yet.
HeldByLive(s) ==
    \A r \in Phys : s.PhysRegState[r] \in Virt =>
        /\ s.PhysRegState[r] \in DOMAIN s.LiveVirtRegs
        /\ s.LiveVirtRegs[s.PhysRegState[r]].PhysReg = r
LiveIsHeld(s, W) ==
    \A v \in DOMAIN s.LiveVirtRegs :
        IF v \in W THEN s.LiveVirtRegs[v].PhysReg = None
        ELSE s.LiveVirtRegs[v].PhysReg \in Phys /\ s.PhysRegState[s.LiveVirtRegs[v].PhysReg] = v
InverseBut(s, W) == HeldByLive(s) /\ LiveIsHeld(s, W)

\* What a step from s to t keeps.
Kept(s, t, W) == t \in State /\ SameShape(s.code, t.code) /\ InverseBut(t, W)

LEMMA LiveMapIntro ==
    ASSUME NEW V \in SUBSET Virt, NEW f \in [V -> LiveReg]
    PROVE  f \in LiveRegMaps
BY DEF LiveRegMaps

LEMMA LiveMapElim ==
    ASSUME NEW f \in LiveRegMaps
    PROVE  DOMAIN f \in SUBSET Virt /\ f \in [DOMAIN f -> LiveReg]
<1>1. PICK V \in SUBSET Virt : f \in [V -> LiveReg]
    BY DEF LiveRegMaps
<1>2. DOMAIN f = V
    BY <1>1
<1> QED BY <1>1, <1>2

LEMMA ShapeReflexive ==
    ASSUME NEW c
    PROVE  SameShape(c, c)
BY DEF SameShape, SameBlock, SameInstr

LEMMA ShapeTransitive ==
    ASSUME NEW c, NEW d, NEW e, SameShape(c, d), SameShape(d, e)
    PROVE  SameShape(c, e)
<1>1. Len(e) = Len(c)
    BY DEF SameShape
<1>2. ASSUME NEW b \in 1 .. Len(c) PROVE SameBlock(c[b], e[b])
    <2>1. SameBlock(c[b], d[b]) /\ SameBlock(d[b], e[b])
        BY DEF SameShape
    <2> QED BY <2>1 DEF SameBlock, SameInstr
<1> QED BY <1>1, <1>2 DEF SameShape

Put(q, n, x) == [q EXCEPT ![n] = x]

\* Replacing an element of a sequence; outside the sequence nothing is replaced.
LEMMA SeqPut ==
    ASSUME NEW S, NEW q \in Seq(S), NEW n, NEW x, n \in 1 .. Len(q) => x \in S
    PROVE  /\ Put(q, n, x) \in Seq(S)
           /\ Len(Put(q, n, x)) = Len(q)
           /\ \A i \in 1 .. Len(q) : Put(q, n, x)[i] = IF i = n THEN x ELSE q[i]
<1>1. Len(q) \in Nat /\ DOMAIN q = 1 .. Len(q) /\ q \in [1 .. Len(q) -> S]
    BY LenProperties
<1> DEFINE m == Len(q)
           r == Put(q, n, x)
<1> HIDE DEF m
<1>2. r \in [1 .. m -> S] /\ \A i \in 1 .. m : r[i] = IF i = n THEN x ELSE q[i]
    BY <1>1 DEF m, Put
<1> HIDE DEF r
<1>3. r \in Seq(S) /\ Len(r) = m
    BY <1>1, <1>2, SeqDef, LenProperties DEF m
<1> QED BY <1>2, <1>3 DEF m, r

IsOperand(c, m, k) ==
    /\ m[1] \in 1 .. Len(c)
    /\ m[2] \in 1 .. Len(c[m[1]])
    /\ k \in 1 .. Len(c[m[1]][m[2]].ops)

\* Replacing an operand of an instruction, by one in the same registers and kinds.
LEMMA ReplaceOperand ==
    ASSUME NEW c \in Code, NEW m, NEW k, NEW x,
           IsOperand(c, m, k) => x \in Operands(Registered),
           NEW d, d = [c EXCEPT ![m[1]][m[2]].ops[k] = x]
    PROVE  d \in Code /\ SameShape(c, d)
<1> DEFINE Ops == Seq(Operands(Registered))
           I == [op : STRING, ops : Ops]
           b == m[1]
           n == m[2]
           q == Put(c[b][n].ops, k, x)
           i == [c[b][n] EXCEPT !.ops = q]
           p == Put(c[b], n, i)
<1>1. c \in Seq(Seq(I)) /\ d = Put(c, b, p)
    BY DEF Code, Put
<1> HIDE DEF Ops
<1>2. ASSUME b \in 1 .. Len(c), n \in 1 .. Len(c[b])
      PROVE  i \in I /\ SameInstr(c[b][n], i)
    <2>1. c[b] \in Seq(I)
        BY <1>1, <1>2, ElementOfSeq
    <2>2. c[b][n] \in I
        BY <2>1, <1>2, ElementOfSeq
    <2>3. c[b][n].ops \in Ops
        BY <2>2
    <2>4. q \in Ops /\ Len(q) = Len(c[b][n].ops)
        <3>1. k \in 1 .. Len(c[b][n].ops) => x \in Operands(Registered)
            BY <1>2 DEF IsOperand
        <3> QED BY <2>3, <3>1, SeqPut DEF Ops
    <2>5. i.op = c[b][n].op /\ i.ops = q /\ i \in I
        BY Zenon, <2>2, <2>4
    <2> QED BY Zenon, <2>4, <2>5 DEF SameInstr
<1>3. ASSUME b \in 1 .. Len(c)
      PROVE  p \in Seq(I) /\ SameBlock(c[b], p)
    <2>1. c[b] \in Seq(I)
        BY <1>1, <1>3, ElementOfSeq
    <2>2. n \in 1 .. Len(c[b]) => i \in I /\ SameInstr(c[b][n], i)
        BY <1>2, <1>3
    <2> HIDE DEF i, I
    <2>3. /\ p \in Seq(I) /\ Len(p) = Len(c[b])
          /\ \A j \in 1 .. Len(c[b]) : p[j] = IF j = n THEN i ELSE c[b][j]
        BY <2>1, <2>2, SeqPut
    <2>4. ASSUME NEW j \in 1 .. Len(c[b]) PROVE SameInstr(c[b][j], p[j])
        BY <2>2, <2>3 DEF SameInstr
    <2> QED BY SMTT(30), <2>3, <2>4 DEF SameBlock
<1> HIDE DEF p, I
<1>4. /\ d \in Seq(Seq(I)) /\ Len(d) = Len(c)
      /\ \A j \in 1 .. Len(c) : d[j] = IF j = b THEN p ELSE c[j]
    <2> DEFINE Blocks == Seq(I)
    <2>1. c \in Seq(Blocks) /\ (b \in 1 .. Len(c) => p \in Blocks)
        BY <1>1, <1>3
    <2> HIDE DEF Blocks
    <2>2. /\ Put(c, b, p) \in Seq(Blocks) /\ Len(Put(c, b, p)) = Len(c)
          /\ \A j \in 1 .. Len(c) : Put(c, b, p)[j] = IF j = b THEN p ELSE c[j]
        BY <2>1, SeqPut
    <2> QED BY <1>1, <2>2 DEF Blocks
<1>5. ASSUME NEW j \in 1 .. Len(c) PROVE SameBlock(c[j], d[j])
    BY <1>3, <1>4 DEF SameBlock, SameInstr
<1> QED BY <1>4, <1>5 DEF SameShape, Code, I, Ops

\* The operand at a place of the code.
LEMMA OperandAt ==
    ASSUME NEW c \in Code, NEW m, NEW k, IsOperand(c, m, k)
    PROVE  c[m[1]][m[2]].ops[k] \in Operands(Registered)
<1> DEFINE Ops == Seq(Operands(Registered))
           I == [op : STRING, ops : Ops]
<1>1. c[m[1]] \in Seq(I)
    BY ElementOfSeq DEF Code, IsOperand
<1>2. c[m[1]][m[2]] \in I
    BY <1>1, ElementOfSeq DEF IsOperand
<1> QED BY <1>2, ElementOfSeq DEF IsOperand

OnlyCode(s, t) == \E d \in Code : SameShape(s.code, d) /\ t = [s EXCEPT !.code = d]

LEMMA OnlyCodeReflexive ==
    ASSUME NEW s \in State
    PROVE  OnlyCode(s, s)
<1>1. s.code \in Code /\ s = [s EXCEPT !.code = s.code]
    BY DEF State
<1> QED BY <1>1, ShapeReflexive DEF OnlyCode

\* A step that changes operands only keeps the maps.
LEMMA OnlyCodeKeeps ==
    ASSUME NEW s \in State, NEW t, OnlyCode(s, t)
    PROVE  /\ t \in State /\ SameShape(s.code, t.code)
           /\ t.LiveVirtRegs = s.LiveVirtRegs /\ t.PhysRegState = s.PhysRegState
           /\ t.inserted = s.inserted /\ t.CopySrc = s.CopySrc /\ t.CopyDst = s.CopyDst
<1>1. PICK d \in Code : SameShape(s.code, d) /\ t = [s EXCEPT !.code = d]
    BY DEF OnlyCode
<1>2. t.code = d
    BY <1>1 DEF State
<1> QED BY <1>1, <1>2 DEF State

LEMMA SetRegIsOnlyCode ==
    ASSUME NEW s \in State, NEW m, NEW k, NEW reg \in Registered
    PROVE  OnlyCode(s, setReg(s, m, k, reg))
<1> DEFINE c == s.code
           x == [c[m[1]][m[2]].ops[k] EXCEPT !.reg = reg]
           d == [c EXCEPT ![m[1]][m[2]].ops[k] = x]
<1>1. c \in Code /\ setReg(s, m, k, reg) = [s EXCEPT !.code = d]
    BY DEF State, setReg
<1>2. IsOperand(c, m, k) => x \in Operands(Registered)
    <2>1. ASSUME NEW o \in Operands(Registered) PROVE [o EXCEPT !.reg = reg] \in Operands(Registered)
        BY DEF Operands
    <2> HIDE DEF c
    <2>2. SUFFICES ASSUME IsOperand(c, m, k) PROVE x \in Operands(Registered)
        OBVIOUS
    <2>3. c[m[1]][m[2]].ops[k] \in Operands(Registered)
        BY <1>1, <2>2, OperandAt
    <2> QED BY <2>1, <2>3
<1> HIDE DEF x
<1>3. d \in Code /\ SameShape(c, d)
    <2> HIDE DEF c
    <2> QED BY <1>1, <1>2, ReplaceOperand
<1> QED BY <1>1, <1>3 DEF OnlyCode

LEMMA SetIsKillIsOnlyCode ==
    ASSUME NEW s \in State, NEW m, NEW k, NEW kill \in BOOLEAN
    PROVE  OnlyCode(s, setIsKill(s, m, k, kill))
<1> DEFINE c == s.code
           x == [c[m[1]][m[2]].ops[k] EXCEPT !.kill = kill]
           d == [c EXCEPT ![m[1]][m[2]].ops[k] = x]
<1>1. c \in Code /\ setIsKill(s, m, k, kill) = [s EXCEPT !.code = d]
    BY DEF State, setIsKill
<1>2. IsOperand(c, m, k) => x \in Operands(Registered)
    <2>1. ASSUME NEW o \in Operands(Registered) PROVE [o EXCEPT !.kill = kill] \in Operands(Registered)
        BY DEF Operands
    <2> HIDE DEF c
    <2>2. SUFFICES ASSUME IsOperand(c, m, k) PROVE x \in Operands(Registered)
        OBVIOUS
    <2>3. c[m[1]][m[2]].ops[k] \in Operands(Registered)
        BY <1>1, <2>2, OperandAt
    <2> QED BY <2>1, <2>3
<1> HIDE DEF x
<1>3. d \in Code /\ SameShape(c, d)
    <2> HIDE DEF c
    <2> QED BY <1>1, <1>2, ReplaceOperand
<1> QED BY <1>1, <1>3 DEF OnlyCode

LEMMA AddKillFlagIsOnlyCode ==
    ASSUME NEW s \in State, NEW lr
    PROVE  OnlyCode(s, addKillFlag(s, lr))
BY OnlyCodeReflexive, SetIsKillIsOnlyCode DEF addKillFlag

-----------------------------------------------------------------------------
(***************************************************************************)
(* Values leave their registers: killVirtReg, spillVirtReg, spillAll.      *)
(***************************************************************************)

\* What removing a value leaves.
Removed(s, t, v) ==
    /\ t \in State /\ SameShape(s.code, t.code)
    /\ DOMAIN t.LiveVirtRegs = DOMAIN s.LiveVirtRegs \ {v}
    /\ \A w \in DOMAIN t.LiveVirtRegs : t.LiveVirtRegs[w] = s.LiveVirtRegs[w]
    /\ t.PhysRegState = [s.PhysRegState EXCEPT ![s.LiveVirtRegs[v].PhysReg] = "free"]

LEMMA KillRemoves ==
    ASSUME NEW s \in State, NEW v \in DOMAIN s.LiveVirtRegs
    PROVE  Removed(s, killVirtReg(s, v), v)
<1> DEFINE lr == s.LiveVirtRegs[v]
           a == addKillFlag(s, lr)
           live == s.LiveVirtRegs
           rest == [w \in DOMAIN live \ {v} |-> live[w]]
           states == [s.PhysRegState EXCEPT ![lr.PhysReg] = "free"]
           t == [a EXCEPT !.PhysRegState = states, !.LiveVirtRegs = rest]
<1>1. /\ a \in State /\ SameShape(s.code, a.code)
      /\ a.LiveVirtRegs = live /\ a.PhysRegState = s.PhysRegState
    BY AddKillFlagIsOnlyCode, OnlyCodeKeeps
<1>2. live \in LiveRegMaps /\ s.PhysRegState \in [Phys -> Virt \cup PhysRegStates]
    BY DEF State
<1>3. killVirtReg(s, v) = t
    BY <1>1 DEF killVirtReg
<1>4. rest \in LiveRegMaps
    <2>1. DOMAIN live \in SUBSET Virt /\ live \in [DOMAIN live -> LiveReg]
        BY <1>2, LiveMapElim
    <2>2. rest \in [DOMAIN live \ {v} -> LiveReg]
        BY <2>1
    <2> HIDE DEF rest, live
    <2> QED BY <2>1, <2>2, LiveMapIntro
<1>5. states \in [Phys -> Virt \cup PhysRegStates]
    BY <1>2 DEF PhysRegStates
<1>6. DOMAIN rest = DOMAIN live \ {v} /\ \A w \in DOMAIN rest : rest[w] = live[w]
    OBVIOUS
<1> HIDE DEF a, rest, states
<1>7. t \in State /\ t.code = a.code /\ t.LiveVirtRegs = rest /\ t.PhysRegState = states
    BY <1>1, <1>4, <1>5 DEF State
<1> QED BY <1>1, <1>3, <1>6, <1>7 DEF Removed, states

LEMMA RemovedKeeps ==
    ASSUME NEW s \in State, NEW W, NEW v \in DOMAIN s.LiveVirtRegs, v \notin W,
           NEW t, InverseBut(s, W), Removed(s, t, v)
    PROVE  InverseBut(t, W)
<1> DEFINE r == s.LiveVirtRegs[v].PhysReg
<1>1. /\ r \in Phys /\ s.PhysRegState[r] = v
      /\ s.PhysRegState \in [Phys -> Virt \cup PhysRegStates]
      /\ "free" \notin Virt
    BY RegAllocAssumption DEF InverseBut, LiveIsHeld, State, PhysRegStates
<1>2. /\ t.PhysRegState[r] = "free"
      /\ \A x \in Phys \ {r} : t.PhysRegState[x] = s.PhysRegState[x]
    BY <1>1 DEF Removed
<1>3. HeldByLive(t)
    <2>1. SUFFICES ASSUME NEW x \in Phys, t.PhysRegState[x] \in Virt
                   PROVE  /\ t.PhysRegState[x] \in DOMAIN t.LiveVirtRegs
                          /\ t.LiveVirtRegs[t.PhysRegState[x]].PhysReg = x
        BY DEF HeldByLive
    <2>2. x # r /\ t.PhysRegState[x] = s.PhysRegState[x]
        BY <1>1, <1>2, <2>1
    <2>3. s.PhysRegState[x] \in DOMAIN s.LiveVirtRegs /\ s.LiveVirtRegs[s.PhysRegState[x]].PhysReg = x
        BY <2>1, <2>2 DEF InverseBut, HeldByLive
    <2> QED BY <2>2, <2>3 DEF Removed
<1>4. LiveIsHeld(t, W)
    <2>1. SUFFICES ASSUME NEW w \in DOMAIN t.LiveVirtRegs, w \notin W
                   PROVE  /\ t.LiveVirtRegs[w].PhysReg \in Phys
                          /\ t.PhysRegState[t.LiveVirtRegs[w].PhysReg] = w
        <3>1. \A w \in DOMAIN t.LiveVirtRegs : w \in W => t.LiveVirtRegs[w].PhysReg = None
            BY DEF InverseBut, LiveIsHeld, Removed
        <3> QED BY <3>1 DEF LiveIsHeld
    <2>2. w \in DOMAIN s.LiveVirtRegs /\ w # v /\ t.LiveVirtRegs[w] = s.LiveVirtRegs[w]
        BY DEF Removed
    <2>3. s.LiveVirtRegs[w].PhysReg \in Phys /\ s.PhysRegState[s.LiveVirtRegs[w].PhysReg] = w
        BY <2>1, <2>2 DEF InverseBut, LiveIsHeld
    <2> QED BY <1>1, <1>2, <2>2, <2>3
<1> QED BY <1>3, <1>4 DEF InverseBut

\* What insertion changes.
OnlyInserted(s, t) ==
    \E x \in Seq(Seq(Seq(Inserted))), slots \in SUBSET Virt :
        t = [s EXCEPT !.inserted = x, !.StackSlotForVirtReg = slots]

LEMMA InsertIsOnlyInserted ==
    ASSUME NEW s \in State, NEW m, NEW i \in Inserted, NEW v \in Virt
    PROVE  OnlyInserted(s, Insert(getStackSpaceFor(s, v), m, i))
<1> DEFINE ins == s.inserted
           b == m[1]
           n == m[2]
           Line == Seq(Inserted)
           Lines == Seq(Line)
           q == Append(ins[b][n], i)
           p == Put(ins[b], n, q)
           x == Put(ins, b, p)
           slots == s.StackSlotForVirtReg \cup {v}
<1>1. ins \in Seq(Lines) /\ slots \in SUBSET Virt
    BY DEF State
<1>2. Insert(getStackSpaceFor(s, v), m, i) = [s EXCEPT !.inserted = x, !.StackSlotForVirtReg = slots]
    BY DEF Insert, getStackSpaceFor, Put, State
<1> HIDE DEF ins, slots
<1>3. ASSUME b \in 1 .. Len(ins), n \in 1 .. Len(ins[b]) PROVE q \in Line
    <2>1. ins[b] \in Lines
        BY <1>1, <1>3, ElementOfSeq
    <2>2. ins[b][n] \in Line
        BY <1>3, <2>1, ElementOfSeq
    <2> QED BY <2>2, AppendProperties
<1> HIDE DEF q, Line
<1>4. ASSUME b \in 1 .. Len(ins) PROVE p \in Lines
    <2>1. ins[b] \in Lines
        BY <1>1, <1>4, ElementOfSeq
    <2>2. n \in 1 .. Len(ins[b]) => q \in Line
        BY <1>3, <1>4
    <2> QED BY <2>1, <2>2, SeqPut
<1> HIDE DEF p, Lines
<1>5. x \in Seq(Lines)
    BY <1>1, <1>4, SeqPut
<1> QED BY <1>1, <1>2, <1>5 DEF OnlyInserted, Lines, Line

LEMMA OnlyInsertedKeeps ==
    ASSUME NEW s \in State, NEW t, OnlyInserted(s, t)
    PROVE  /\ t \in State /\ t.code = s.code
           /\ t.LiveVirtRegs = s.LiveVirtRegs /\ t.PhysRegState = s.PhysRegState
BY DEF OnlyInserted, State

\* Changes of the record of one value.
LEMMA SetLive ==
    ASSUME NEW s \in State, NEW v \in DOMAIN s.LiveVirtRegs, NEW lr \in LiveReg,
           NEW t, t = [s EXCEPT !.LiveVirtRegs[v] = lr]
    PROVE  /\ t \in State /\ t.code = s.code /\ t.PhysRegState = s.PhysRegState
           /\ DOMAIN t.LiveVirtRegs = DOMAIN s.LiveVirtRegs
           /\ t.LiveVirtRegs[v] = lr
           /\ \A w \in DOMAIN s.LiveVirtRegs \ {v} : t.LiveVirtRegs[w] = s.LiveVirtRegs[w]
<1> DEFINE live == s.LiveVirtRegs
           new == [live EXCEPT ![v] = lr]
<1>1. DOMAIN live \in SUBSET Virt /\ live \in [DOMAIN live -> LiveReg]
    BY LiveMapElim DEF State
<1>2. /\ new \in [DOMAIN live -> LiveReg] /\ DOMAIN new = DOMAIN live /\ new[v] = lr
      /\ \A w \in DOMAIN live \ {v} : new[w] = live[w]
    BY <1>1
<1>3. t = [s EXCEPT !.LiveVirtRegs = new]
    BY DEF State
<1> HIDE DEF new, live
<1>4. new \in LiveRegMaps
    BY <1>1, <1>2, LiveMapIntro
<1>5. t \in State /\ t.code = s.code /\ t.PhysRegState = s.PhysRegState /\ t.LiveVirtRegs = new
    BY <1>3, <1>4 DEF State
<1> QED BY <1>2, <1>5 DEF live

LEMMA SpillRemoves ==
    ASSUME NEW s \in State, NEW m, NEW v \in DOMAIN s.LiveVirtRegs,
           s.LiveVirtRegs[v].PhysReg \in Phys
    PROVE  Removed(s, spillVirtReg(s, m, v), v)
<1> DEFINE lr == s.LiveVirtRegs[v]
           kill == lr.LastUse # m
           i == Instr("COPY", <<Operand(<<v>>, "def", FALSE), Operand(lr.PhysReg, "use", kill)>>)
           stored == Insert(getStackSpaceFor(s, v), m, i)
           new == [lr EXCEPT !.Dirty = FALSE, !.LastUse = IF kill THEN None ELSE @]
           u == [stored EXCEPT !.LiveVirtRegs[v] = new]
<1>1. v \in Virt /\ lr \in LiveReg
    BY LiveMapElim DEF State
<1>2. i \in Inserted
    <2>1. /\ <<v>> \in Registered \cup Slots /\ lr.PhysReg \in Registered \cup Slots
          /\ kill \in BOOLEAN /\ FALSE \in BOOLEAN /\ "def" \in Kinds /\ "use" \in Kinds
        BY <1>1 DEF Slots, Registered, Kinds
    <2> HIDE DEF kill, lr
    <2>2. /\ Operand(<<v>>, "def", FALSE) \in Operands(Registered \cup Slots)
          /\ Operand(lr.PhysReg, "use", kill) \in Operands(Registered \cup Slots)
        BY <2>1 DEF Operand, Operands
    <2>3. \A x, y \in Operands(Registered \cup Slots) : <<x, y>> \in Seq(Operands(Registered \cup Slots))
        OBVIOUS
    <2>4. <<Operand(<<v>>, "def", FALSE), Operand(lr.PhysReg, "use", kill)>>
            \in Seq(Operands(Registered \cup Slots))
        BY <2>2, <2>3
    <2> QED BY <2>4 DEF Instr, Inserted
<1>3. /\ stored \in State /\ stored.code = s.code
      /\ stored.LiveVirtRegs = s.LiveVirtRegs /\ stored.PhysRegState = s.PhysRegState
    <2> HIDE DEF i
    <2> QED BY <1>1, <1>2, InsertIsOnlyInserted, OnlyInsertedKeeps
<1>4. CASE ~lr.Dirty
    <2>1. spillVirtReg(s, m, v) = killVirtReg(s, v)
        BY <1>4 DEF spillVirtReg
    <2> QED BY <2>1, KillRemoves
<1>5. CASE lr.Dirty
    <2>1. new \in LiveReg /\ new.PhysReg = lr.PhysReg
        BY <1>1 DEF LiveReg
    <2>2. spillVirtReg(s, m, v) = killVirtReg(u, v)
        <3>1. lr = stored.LiveVirtRegs[v]
            BY <1>3
        <3>2. spillVirtReg(s, m, v) =
                killVirtReg([stored EXCEPT !.LiveVirtRegs[v].Dirty = FALSE,
                                           !.LiveVirtRegs[v].LastUse = IF kill THEN None ELSE @], v)
            BY <1>5 DEF spillVirtReg, storeRegToStackSlot
        <3> HIDE DEF stored, kill, lr
        <3>3. [stored EXCEPT !.LiveVirtRegs[v].Dirty = FALSE,
                             !.LiveVirtRegs[v].LastUse = IF kill THEN None ELSE @] = u
            BY <1>1, <1>3, <3>1 DEF State, LiveReg
        <3> QED BY <3>2, <3>3
    <2>3. /\ u \in State /\ u.code = s.code /\ u.PhysRegState = s.PhysRegState
          /\ DOMAIN u.LiveVirtRegs = DOMAIN s.LiveVirtRegs
          /\ u.LiveVirtRegs[v].PhysReg = s.LiveVirtRegs[v].PhysReg
          /\ \A w \in DOMAIN s.LiveVirtRegs \ {v} : u.LiveVirtRegs[w] = s.LiveVirtRegs[w]
        <3> HIDE DEF stored, new
        <3>1. /\ u \in State /\ u.code = stored.code /\ u.PhysRegState = stored.PhysRegState
              /\ DOMAIN u.LiveVirtRegs = DOMAIN stored.LiveVirtRegs
              /\ u.LiveVirtRegs[v] = new
              /\ \A w \in DOMAIN stored.LiveVirtRegs \ {v} : u.LiveVirtRegs[w] = stored.LiveVirtRegs[w]
            BY <1>3, <2>1, SetLive
        <3> QED BY <1>3, <2>1, <3>1
    <2> HIDE DEF u
    <2>4. Removed(u, killVirtReg(u, v), v)
        BY <2>3, KillRemoves
    <2> QED BY <2>2, <2>3, <2>4 DEF Removed
<1> QED BY <1>4, <1>5

\* The library's enumeration of a finite set.
LEMMA Enumeration ==
    ASSUME NEW S, IsFiniteSet(S)
    PROVE  /\ SetToSeq(S) \in Seq(S)
           /\ \A x \in S : \E n \in 1 .. Len(SetToSeq(S)) : SetToSeq(S)[n] = x
           /\ \A a, b \in 1 .. Len(SetToSeq(S)) : SetToSeq(S)[a] = SetToSeq(S)[b] => a = b
<1> DEFINE n == Cardinality(S)
           f == SetToSeq(S)
<1>1. n \in Nat /\ IsFiniteSet(1 .. n) /\ Cardinality(1 .. n) = n
    BY FS_CardinalityType, FS_Interval
<1>2. ExistsBijection(1 .. n, S)
    BY FS_CardinalityType
<1>3. PICK g \in [1 .. n -> S] : \A a, b \in 1 .. n : g[a] = g[b] => a = b
    BY <1>2 DEF ExistsBijection, Bijection, Injection, IsInjective
<1>4. \E h \in [1 .. n -> S] : IsInjective(h)
    BY <1>3 DEF IsInjective
<1>5. f \in [1 .. n -> S] /\ IsInjective(f)
    BY <1>4 DEF SetToSeq
<1> HIDE DEF f, n
<1>6. \A a, b \in 1 .. n : f[a] = f[b] => a = b
    BY <1>5 DEF IsInjective
<1>7. f \in Injection(1 .. n, S)
    BY <1>5, <1>6 DEF Injection
<1>8. f \in Surjection(1 .. n, S)
    BY <1>1, <1>7, FS_Injection DEF n
<1>9. f \in Seq(S) /\ Len(f) = n
    BY <1>1, <1>5, SeqDef, LenProperties
<1>10. \A x \in S : \E k \in 1 .. n : f[k] = x
    BY <1>8 DEF Surjection
<1> QED BY <1>6, <1>9, <1>10 DEF f

\* spillAll spills one value after the other.
SpillStep(t, u, m) == \E v \in DOMAIN t.LiveVirtRegs : u = spillVirtReg(t, m, v)

\* spillAll leaves no value in a register.
LEMMA SpillAllRuns ==
    ASSUME NEW s \in State, InverseBut(s, {}), NEW m
    PROVE  \E l \in Nat : \E spilled :
                /\ spilled[0] = s /\ spillAll(s, m) = spilled[l]
                /\ \A n \in 0 .. l : Kept(s, spilled[n], {})
                /\ \A n \in 1 .. l : SpillStep(spilled[n - 1], spilled[n], m)
                /\ DOMAIN spilled[l].LiveVirtRegs = {}
<1> DEFINE D == DOMAIN s.LiveVirtRegs
           regs == SetToSeq(D)
           l == Len(regs)
           T == {t \in State : SameShape(s.code, t.code) /\ InverseBut(t, {})}
           next(t, n) == spillVirtReg(t, m, regs[n])
           Is(f) == f = [n \in 0 .. l |-> IF n = 0 THEN s ELSE next(f[n - 1], n)]
           spilled == CHOOSE f : Is(f)
<1>1. /\ regs \in Seq(D)
      /\ \A x \in D : \E n \in 1 .. l : regs[n] = x
      /\ \A a, b \in 1 .. l : regs[a] = regs[b] => a = b
    <2>1. D \in SUBSET Virt
        BY LiveMapElim DEF State
    <2>2. IsFiniteSet(D)
        BY <2>1, RegAllocAssumption, FS_Subset
    <2> QED BY <2>2, Enumeration
<1>2. spillAll(s, m) = spilled[l]
    BY DEF spillAll
<1> HIDE DEF regs
<1>3. l \in Nat /\ \A n \in 1 .. l : regs[n] \in D
    BY <1>1, LenProperties, ElementOfSeq
<1> HIDE DEF l
<1>4. ASSUME NEW t \in T, NEW v \in DOMAIN t.LiveVirtRegs
      PROVE  /\ spillVirtReg(t, m, v) \in T
             /\ DOMAIN spillVirtReg(t, m, v).LiveVirtRegs = DOMAIN t.LiveVirtRegs \ {v}
    <2>1. t.LiveVirtRegs[v].PhysReg \in Phys
        BY DEF InverseBut, LiveIsHeld
    <2>2. Removed(t, spillVirtReg(t, m, v), v)
        BY <2>1, SpillRemoves
    <2>3. InverseBut(spillVirtReg(t, m, v), {})
        BY <2>2, RemovedKeeps
    <2>4. SameShape(s.code, spillVirtReg(t, m, v).code)
        BY <2>2, ShapeTransitive DEF Removed
    <2> QED BY <2>2, <2>3, <2>4 DEF Removed
<1>5. s \in T
    BY ShapeReflexive
<1> HIDE DEF T
<1> DEFINE Left == [n \in 0 .. l |->
                        {t \in T : DOMAIN t.LiveVirtRegs = D \ {regs[k] : k \in 1 .. n}}]
<1>6. ASSUME NEW g, g[0] = s,
             \A n \in 1 .. l : regs[n] \in DOMAIN g[n - 1].LiveVirtRegs => g[n] = next(g[n - 1], n)
      PROVE  \A n \in 0 .. l : g[n] \in Left[n]
    <2>1. g[0] \in Left[0]
        BY <1>3, <1>5, <1>6
    <2>2. ASSUME NEW n \in 1 .. l, g[n - 1] \in Left[n - 1] PROVE g[n] \in Left[n]
        <3>1. n - 1 \in 0 .. l /\ n \in 0 .. l
            BY <1>3
        <3>2. g[n - 1] \in T /\ DOMAIN g[n - 1].LiveVirtRegs = D \ {regs[k] : k \in 1 .. n - 1}
            BY <2>2, <3>1
        <3>3. regs[n] \notin {regs[k] : k \in 1 .. n - 1}
            <4>1. \A k \in 1 .. n - 1 : k \in 1 .. l /\ k # n
                BY <1>3
            <4> HIDE DEF Left, next
            <4> QED BY <1>1, <4>1
        <3>4. g[n] = spillVirtReg(g[n - 1], m, regs[n]) /\ regs[n] \in DOMAIN g[n - 1].LiveVirtRegs
            BY <1>3, <1>6, <3>2, <3>3
        <3>5. g[n] \in T /\ DOMAIN g[n].LiveVirtRegs = (D \ {regs[k] : k \in 1 .. n - 1}) \ {regs[n]}
            BY <1>4, <3>2, <3>4
        <3>6. {regs[k] : k \in 1 .. n} = {regs[k] : k \in 1 .. n - 1} \cup {regs[n]}
            <4>1. 1 .. n = (1 .. n - 1) \cup {n}
                BY <1>3
            <4> QED BY <4>1
        <3>7. DOMAIN g[n].LiveVirtRegs = D \ {regs[k] : k \in 1 .. n}
            BY <3>5, <3>6
        <3> QED BY <3>1, <3>5, <3>7
    <2> HIDE DEF Left
    <2> QED BY <1>3, <2>1, <2>2, Stays
<1>7. \E f : Is(f)
    <2> DEFINE step == [n \in 1 .. l |-> [t \in T |->
                            IF regs[n] \in DOMAIN t.LiveVirtRegs THEN next(t, n) ELSE t]]
    <2>1. step \in [1 .. l -> [T -> T]]
        BY <1>4
    <2>2. PICK f \in [0 .. l -> T] : Iterates(f, s, step, l)
        <3> HIDE DEF step
        <3> QED BY <1>3, <1>5, <2>1, PrimitiveRecursion
    <2>3. f[0] = s /\ \A n \in 1 .. l : f[n] = step[n][f[n - 1]] /\ f[n - 1] \in T
        BY <1>3, <2>2 DEF Iterates
    <2> HIDE DEF next
    <2>4. \A n \in 1 .. l : regs[n] \in DOMAIN f[n - 1].LiveVirtRegs => f[n] = next(f[n - 1], n)
        BY <2>3
    <2>5. \A n \in 0 .. l : f[n] \in Left[n]
        BY <1>6, <2>3, <2>4
    <2>6. ASSUME NEW n \in 1 .. l PROVE f[n] = next(f[n - 1], n)
        <3>1. n - 1 \in 0 .. l
            BY <1>3
        <3>2. DOMAIN f[n - 1].LiveVirtRegs = D \ {regs[k] : k \in 1 .. n - 1}
            BY <2>5, <3>1
        <3>3. regs[n] \notin {regs[k] : k \in 1 .. n - 1}
            BY <1>1, <1>3
        <3> QED BY <1>3, <2>4, <3>2, <3>3
    <2>7. Is(f)
        BY <1>3, <2>2, <2>3, <2>6
    <2> QED BY <2>7
<1>8. Is(spilled)
    BY <1>7
<1> HIDE DEF spilled, next
<1>9. spilled[0] = s /\ \A n \in 1 .. l : spilled[n] = next(spilled[n - 1], n)
    BY <1>3, <1>8
<1>10. \A n \in 0 .. l : spilled[n] \in Left[n]
    BY <1>3, <1>6, <1>9
<1>11. \A n \in 0 .. l : spilled[n] \in T /\ DOMAIN spilled[n].LiveVirtRegs = D \ {regs[k] : k \in 1 .. n}
    BY <1>10
<1>12. D \subseteq {regs[k] : k \in 1 .. l}
    BY <1>1 DEF l
<1>13. ASSUME NEW n \in 1 .. l PROVE SpillStep(spilled[n - 1], spilled[n], m)
    <2>1. n - 1 \in 0 .. l
        BY <1>3
    <2>2. DOMAIN spilled[n - 1].LiveVirtRegs = D \ {regs[k] : k \in 1 .. n - 1}
        BY <1>11, <2>1
    <2>3. regs[n] \notin {regs[k] : k \in 1 .. n - 1}
        <3>1. \A k \in 1 .. n - 1 : k \in 1 .. l /\ k # n
            BY <1>3
        <3> HIDE DEF Left, next
        <3> QED BY <1>1, <3>1
    <2> QED BY <1>3, <1>9, <2>2, <2>3 DEF SpillStep, next
<1>14. l \in 0 .. l
    BY <1>3
<1>15. \A n \in 0 .. l : Kept(s, spilled[n], {})
    BY <1>11 DEF T, Kept
<1>16. DOMAIN spilled[l].LiveVirtRegs = {}
    BY <1>11, <1>12, <1>14
<1> HIDE DEF T, Left
<1> QED BY <1>2, <1>3, <1>9, <1>13, <1>15, <1>16

LEMMA SpillAllKeeps ==
    ASSUME NEW s \in State, InverseBut(s, {}), NEW m
    PROVE  Kept(s, spillAll(s, m), {}) /\ DOMAIN spillAll(s, m).LiveVirtRegs = {}
<1>1. PICK l \in Nat : \E spilled :
                /\ spilled[0] = s /\ spillAll(s, m) = spilled[l]
                /\ \A n \in 0 .. l : Kept(s, spilled[n], {})
                /\ \A n \in 1 .. l : SpillStep(spilled[n - 1], spilled[n], m)
                /\ DOMAIN spilled[l].LiveVirtRegs = {}
    BY SpillAllRuns
<1>2. l \in 0 .. l
    OBVIOUS
<1> QED BY <1>1, <1>2

-----------------------------------------------------------------------------
(***************************************************************************)
(* Registers are taken: usePhysReg, definePhysReg, allocVirtReg.           *)
(***************************************************************************)

SetState(s, r, state, used) == [s EXCEPT !.UsedInInstr = used, !.PhysRegState[r] = state]

\* The state of a register that holds no value changes.
LEMMA SetStateKeeps ==
    ASSUME NEW s \in State, NEW W, InverseBut(s, W), NEW r \in Phys, s.PhysRegState[r] \notin Virt,
           NEW state \in PhysRegStates, NEW used \in SUBSET Phys,
           NEW t, t = SetState(s, r, state, used)
    PROVE  /\ Kept(s, t, W) /\ t.code = s.code
           /\ t.LiveVirtRegs = s.LiveVirtRegs /\ t.PhysRegState[r] = state
<1>1. state \notin Virt
    BY RegAllocAssumption
<1>2. s.PhysRegState \in [Phys -> Virt \cup PhysRegStates]
    BY DEF State
<1> DEFINE states == [s.PhysRegState EXCEPT ![r] = state]
<1>3. /\ states \in [Phys -> Virt \cup PhysRegStates] /\ states[r] = state
      /\ \A x \in Phys \ {r} : states[x] = s.PhysRegState[x]
    BY <1>2
<1> HIDE DEF states
<1>4. t = [s EXCEPT !.UsedInInstr = used, !.PhysRegState = states]
    BY DEF State, states, SetState
<1>5. t \in State /\ t.code = s.code /\ t.LiveVirtRegs = s.LiveVirtRegs /\ t.PhysRegState = states
    BY <1>3, <1>4 DEF State
<1>6. InverseBut(t, W)
    <2>1. HeldByLive(t)
        BY <1>1, <1>3, <1>5 DEF InverseBut, HeldByLive
    <2>2. LiveIsHeld(t, W)
        <3>1. ASSUME NEW v \in DOMAIN s.LiveVirtRegs, v \notin W
              PROVE  /\ s.LiveVirtRegs[v].PhysReg \in Phys
                     /\ states[s.LiveVirtRegs[v].PhysReg] = v
            <4>1. s.LiveVirtRegs[v].PhysReg \in Phys /\ s.PhysRegState[s.LiveVirtRegs[v].PhysReg] = v
                BY <3>1 DEF InverseBut, LiveIsHeld
            <4>2. v \in Virt
                BY LiveMapElim DEF State
            <4>3. s.LiveVirtRegs[v].PhysReg # r
                BY <4>1, <4>2
            <4> QED BY <1>3, <4>1, <4>3
        <3> QED BY <1>5, <3>1 DEF InverseBut, LiveIsHeld
    <2> QED BY <2>1, <2>2 DEF InverseBut
<1> QED BY <1>3, <1>5, <1>6, ShapeReflexive DEF Kept

LEMMA DefinePhysRegKeeps ==
    ASSUME NEW s \in State, NEW W, InverseBut(s, W), NEW m, NEW r \in Phys,
           NEW state \in PhysRegStates, NEW t, t = definePhysReg(s, m, r, state)
    PROVE  /\ Kept(s, t, W)
           /\ W \cap DOMAIN s.LiveVirtRegs \subseteq DOMAIN t.LiveVirtRegs
           /\ t.PhysRegState[r] = state
<1> DEFINE v == s.PhysRegState[r]
           u == IF v \in Virt THEN spillVirtReg(s, m, v) ELSE s
<1>1. Kept(s, u, W) /\ W \cap DOMAIN s.LiveVirtRegs \subseteq DOMAIN u.LiveVirtRegs /\ u.PhysRegState[r] \notin Virt
    <2>1. CASE v \in Virt
        <3>1. v \in DOMAIN s.LiveVirtRegs /\ s.LiveVirtRegs[v].PhysReg = r
            BY <2>1 DEF InverseBut, HeldByLive
        <3>2. v \notin W
            BY <3>1, RegAllocAssumption DEF InverseBut, LiveIsHeld, Registered
        <3>3. Removed(s, u, v)
            BY <2>1, <3>1, SpillRemoves
        <3> HIDE DEF u, v
        <3>4. InverseBut(u, W)
            BY <3>1, <3>2, <3>3, RemovedKeeps
        <3>5. s.PhysRegState \in [Phys -> Virt \cup PhysRegStates]
            BY DEF State
        <3>6. u.PhysRegState[r] = "free" /\ "free" \notin Virt
            BY <3>1, <3>3, <3>5, RegAllocAssumption DEF Removed, PhysRegStates
        <3> QED BY <3>2, <3>3, <3>4, <3>6 DEF Removed, Kept
    <2>2. CASE v \notin Virt
        BY <2>2, ShapeReflexive DEF Kept
    <2> QED BY <2>1, <2>2
<1>2. t = [u EXCEPT !.UsedInInstr = @ \cup {r}, !.PhysRegState[r] = state]
    BY DEF definePhysReg
<1> HIDE DEF u
<1>3. u.UsedInInstr \cup {r} \in SUBSET Phys
    BY <1>1 DEF Kept, State
<1>4. Kept(u, t, W) /\ t.LiveVirtRegs = u.LiveVirtRegs /\ t.PhysRegState[r] = state
    <2> DEFINE used == u.UsedInInstr \cup {r}
    <2>1. u \in State /\ InverseBut(u, W) /\ u.PhysRegState[r] \notin Virt
        BY <1>1 DEF Kept
    <2>2. t = SetState(u, r, state, used) /\ used \in SUBSET Phys
        BY <1>2, <1>3, <2>1 DEF State, SetState
    <2> HIDE DEF used
    <2> QED BY <2>1, <2>2, SetStateKeeps
<1> QED BY <1>1, <1>4, ShapeTransitive DEF Kept

LEMMA UsePhysRegKeeps ==
    ASSUME NEW s \in State, InverseBut(s, {}), NEW m, NEW k, Op(s, m, k).reg \in Phys
    PROVE  Kept(s, usePhysReg(s, m, k), {})
<1> DEFINE r == Op(s, m, k).reg
           t == usePhysReg(s, m, k)
           u == [s EXCEPT !.PhysRegState[r] = "free", !.UsedInInstr = @ \cup {r}]
<1>1. CASE s.PhysRegState[r] \in Virt
    <2>1. t = [s EXCEPT !.errors = @ \cup {"Instruction uses an allocated register"}]
        BY <1>1 DEF usePhysReg
    <2> HIDE DEF t
    <2>2. /\ t \in State /\ t.code = s.code
          /\ t.LiveVirtRegs = s.LiveVirtRegs /\ t.PhysRegState = s.PhysRegState
        BY <2>1 DEF State, Errors
    <2> QED BY <2>2, ShapeReflexive DEF Kept, InverseBut, HeldByLive, LiveIsHeld, t
<1>2. CASE s.PhysRegState[r] \notin Virt
    <2>1. t = setIsKill(u, m, k, TRUE)
        BY <1>2 DEF usePhysReg
    <2>2. u = SetState(s, r, "free", s.UsedInInstr \cup {r})
        BY DEF State, SetState
    <2>3. s.UsedInInstr \cup {r} \in SUBSET Phys /\ "free" \in PhysRegStates
        BY DEF State, PhysRegStates
    <2> HIDE DEF u, t
    <2>4. Kept(s, u, {})
        BY <1>2, <2>2, <2>3, SetStateKeeps
    <2>5. OnlyCode(u, t)
        BY <2>1, <2>4, SetIsKillIsOnlyCode DEF Kept
    <2>6. /\ t \in State /\ SameShape(u.code, t.code)
          /\ t.LiveVirtRegs = u.LiveVirtRegs /\ t.PhysRegState = u.PhysRegState
        BY <2>4, <2>5, OnlyCodeKeeps DEF Kept
    <2>7. InverseBut(t, {})
        BY <2>4, <2>6 DEF Kept, InverseBut, HeldByLive, LiveIsHeld
    <2> QED BY <2>4, <2>6, <2>7, ShapeTransitive DEF Kept, t
<1> QED BY <1>1, <1>2

\* A register that holds no value is assigned to the value that waits for one.
LEMMA AssignKeeps ==
    ASSUME NEW s \in State, NEW v \in DOMAIN s.LiveVirtRegs, InverseBut(s, {v}),
           NEW r \in Phys, s.PhysRegState[r] \notin Virt, NEW t, t = assignVirtToPhysReg(s, v, r)
    PROVE  Kept(s, t, {}) /\ DOMAIN t.LiveVirtRegs = DOMAIN s.LiveVirtRegs
<1> DEFINE lr == s.LiveVirtRegs[v]
           new == [lr EXCEPT !.PhysReg = r]
           states == [s.PhysRegState EXCEPT ![r] = v]
           u == [s EXCEPT !.PhysRegState = states]
<1>1. v \in Virt /\ lr \in LiveReg /\ s.PhysRegState \in [Phys -> Virt \cup PhysRegStates]
    BY LiveMapElim DEF State
<1>2. new \in LiveReg /\ new.PhysReg = r
    BY <1>1 DEF LiveReg
<1>3. /\ states \in [Phys -> Virt \cup PhysRegStates] /\ states[r] = v
      /\ \A x \in Phys \ {r} : states[x] = s.PhysRegState[x]
    BY <1>1
<1> HIDE DEF states
<1>4. u \in State /\ u.code = s.code /\ u.LiveVirtRegs = s.LiveVirtRegs /\ u.PhysRegState = states
    BY <1>3 DEF State
<1>5. t = [u EXCEPT !.LiveVirtRegs[v] = new]
    BY <1>1, <1>4 DEF assignVirtToPhysReg, State, states, LiveReg
<1> HIDE DEF u, new
<1>6. /\ t \in State /\ t.code = s.code /\ t.PhysRegState = states
      /\ DOMAIN t.LiveVirtRegs = DOMAIN s.LiveVirtRegs
      /\ t.LiveVirtRegs[v].PhysReg = r
      /\ \A w \in DOMAIN s.LiveVirtRegs \ {v} : t.LiveVirtRegs[w] = s.LiveVirtRegs[w]
    <2>1. /\ t \in State /\ t.code = u.code /\ t.PhysRegState = u.PhysRegState
          /\ DOMAIN t.LiveVirtRegs = DOMAIN u.LiveVirtRegs
          /\ t.LiveVirtRegs[v] = new
          /\ \A w \in DOMAIN u.LiveVirtRegs \ {v} : t.LiveVirtRegs[w] = u.LiveVirtRegs[w]
        BY <1>2, <1>4, <1>5, SetLive
    <2> QED BY <1>2, <1>4, <2>1
<1>7. HeldByLive(t)
    <2>1. SUFFICES ASSUME NEW x \in Phys, states[x] \in Virt
                   PROVE  /\ states[x] \in DOMAIN s.LiveVirtRegs
                          /\ t.LiveVirtRegs[states[x]].PhysReg = x
        BY <1>6 DEF HeldByLive
    <2>2. CASE x = r
        BY <1>3, <1>6, <2>2
    <2>3. CASE x # r
        <3>1. /\ s.PhysRegState[x] \in DOMAIN s.LiveVirtRegs
              /\ s.LiveVirtRegs[s.PhysRegState[x]].PhysReg = x
            BY <1>3, <2>1, <2>3 DEF InverseBut, HeldByLive
        <3>2. s.PhysRegState[x] # v
            BY <3>1, RegAllocAssumption DEF InverseBut, LiveIsHeld, Registered
        <3> QED BY <1>3, <1>6, <2>3, <3>1, <3>2
    <2> QED BY <2>2, <2>3
<1>8. LiveIsHeld(t, {})
    <2>1. SUFFICES ASSUME NEW w \in DOMAIN s.LiveVirtRegs
                   PROVE  t.LiveVirtRegs[w].PhysReg \in Phys /\ states[t.LiveVirtRegs[w].PhysReg] = w
        BY <1>6 DEF LiveIsHeld
    <2>2. CASE w = v
        BY <1>3, <1>6, <2>2
    <2>3. CASE w # v
        <3>1. s.LiveVirtRegs[w].PhysReg \in Phys /\ s.PhysRegState[s.LiveVirtRegs[w].PhysReg] = w
            BY <2>3 DEF InverseBut, LiveIsHeld
        <3>2. w \in Virt
            BY LiveMapElim DEF State
        <3>3. s.LiveVirtRegs[w].PhysReg # r
            BY <3>1, <3>2
        <3> QED BY <1>3, <1>6, <2>3, <3>1, <3>3
    <2> QED BY <2>2, <2>3
<1> QED BY <1>6, <1>7, <1>8, ShapeReflexive DEF Kept, InverseBut

LEMMA SpillCost ==
    ASSUME NEW s, NEW r
    PROVE  calcSpillCost(s, r) \in Nat /\ (calcSpillCost(s, r) = 0 => s.PhysRegState[r] \notin Virt)
<1>1. "reserved" \notin Virt
    BY RegAllocAssumption DEF PhysRegStates
<1> QED BY <1>1 DEF calcSpillCost, spillClean, spillDirty, spillImpossible

\* Every register that allocVirtReg considers is one of the order.
LEMMA AllocVirtRegKeeps ==
    ASSUME NEW s \in State, NEW v \in DOMAIN s.LiveVirtRegs, InverseBut(s, {v}), NEW m, NEW Hint,
           NEW t, t = allocVirtReg(s, m, v, Hint)
    PROVE  Kept(s, t, {}) /\ v \in DOMAIN t.LiveVirtRegs
<1> DEFINE D == DOMAIN Order
           Free == {n \in D : s.PhysRegState[Order[n]] = "free" /\ Order[n] \notin s.UsedInInstr}
           Cost(n) == calcSpillCost(s, Order[n])
           Cheapest == {n \in D : \A o \in D : Cost(n) <= Cost(o)}
           S == IF Free # {} THEN Free ELSE Cheapest
           r == IF Hint \in Phys /\ calcSpillCost(s, Hint) < spillDirty THEN Hint ELSE Order[Min(S)]
           cost == calcSpillCost(s, r)
           u == IF cost = 0 THEN s ELSE definePhysReg(s, m, r, "free")
           w == [u EXCEPT !.errors = IF cost = spillImpossible
                                     THEN @ \cup {"ran out of registers"} ELSE @]
<1>1. t = assignVirtToPhysReg(w, v, r)
    BY Zenon DEF allocVirtReg, takeReg
<1>2. D # {} /\ D \subseteq Nat /\ \A n \in D : Order[n] \in Phys
    <2>1. Order \in Seq(Phys) /\ Order # <<>>
        BY RegAllocAssumption
    <2>2. D = 1 .. Len(Order) /\ Len(Order) \in Nat /\ Len(Order) # 0
        BY <2>1, LenProperties, EmptySeq
    <2> QED BY <2>1, <2>2, ElementOfSeq
<1>3. Cheapest # {}
    <2> DEFINE Costs == {Cost(n) : n \in D}
    <2>1. Costs \in SUBSET Nat /\ Costs # {}
        BY <1>2, SpillCost
    <2>2. PICK x \in Costs : \A y \in Costs : x <= y
        <3> HIDE DEF Costs
        <3> QED BY <2>1, LeastNatural
    <2>3. PICK n \in D : x = Cost(n)
        OBVIOUS
    <2>4. \A o \in D : Cost(o) \in Costs
        OBVIOUS
    <2>5. n \in Cheapest
        BY <2>2, <2>3, <2>4
    <2> QED BY <2>5
<1>4. S \subseteq D /\ S # {}
    BY <1>3
<1> HIDE DEF S
<1>5. Min(S) \in D
    <2>1. PICK x \in S : \A y \in S : x =< y
        <3>1. S \in SUBSET Nat
            BY <1>2, <1>4
        <3> QED BY <1>4, <3>1, LeastNatural
    <2>2. Min(S) \in S
        BY <2>1 DEF Min
    <2> QED BY <1>4, <2>2
<1>6. r \in Phys
    BY <1>2, <1>5
<1> HIDE DEF r
<1>7. Kept(s, u, {v}) /\ v \in DOMAIN u.LiveVirtRegs /\ u.PhysRegState[r] \notin Virt
    <2>1. CASE cost = 0
        BY <2>1, SpillCost, ShapeReflexive DEF Kept
    <2>2. CASE cost # 0
        <3>1. u = definePhysReg(s, m, r, "free") /\ "free" \in PhysRegStates /\ "free" \notin Virt
            BY <2>2, RegAllocAssumption DEF PhysRegStates
        <3> HIDE DEF u, cost
        <3>2. /\ Kept(s, u, {v})
              /\ {v} \cap DOMAIN s.LiveVirtRegs \subseteq DOMAIN u.LiveVirtRegs
              /\ u.PhysRegState[r] = "free"
            BY <1>6, <3>1, DefinePhysRegKeeps
        <3> QED BY <3>1, <3>2
    <2> QED BY <2>1, <2>2
<1> HIDE DEF u, cost
<1>8. /\ w \in State /\ w.code = u.code
      /\ w.LiveVirtRegs = u.LiveVirtRegs /\ w.PhysRegState = u.PhysRegState
    BY <1>7 DEF Kept, State, Errors
<1> HIDE DEF w
<1>9. InverseBut(w, {v})
    BY <1>7, <1>8 DEF Kept, InverseBut, HeldByLive, LiveIsHeld
<1>10. Kept(w, t, {}) /\ DOMAIN t.LiveVirtRegs = DOMAIN w.LiveVirtRegs
    BY <1>1, <1>6, <1>7, <1>8, <1>9, AssignKeeps
<1>11. SameShape(s.code, w.code) /\ SameShape(w.code, t.code)
    BY <1>7, <1>8, <1>10 DEF Kept
<1> QED BY Zenon, <1>7, <1>8, <1>10, <1>11, ShapeTransitive DEF Kept

LEMMA NewLiveRegKeeps ==
    ASSUME NEW s \in State, InverseBut(s, {}), NEW v \in Virt, v \notin DOMAIN s.LiveVirtRegs
    PROVE  Kept(s, NewLiveReg(s, v), {v}) /\ v \in DOMAIN NewLiveReg(s, v).LiveVirtRegs
<1> DEFINE live == s.LiveVirtRegs
           lr == [PhysReg |-> None, LastUse |-> None, LastOpNum |-> 0, Dirty |-> FALSE]
           new == [w \in DOMAIN live \cup {v} |-> IF w = v THEN lr ELSE live[w]]
           t == [s EXCEPT !.LiveVirtRegs = new]
<1>1. DOMAIN live \in SUBSET Virt /\ live \in [DOMAIN live -> LiveReg]
    BY LiveMapElim DEF State
<1>2. lr \in LiveReg /\ lr.PhysReg = None
    BY DEF LiveReg
<1> HIDE DEF lr
<1>3. new \in [DOMAIN live \cup {v} -> LiveReg]
    BY <1>1, <1>2
<1>4. /\ DOMAIN new = DOMAIN live \cup {v} /\ new[v] = lr
      /\ \A w \in DOMAIN live : new[w] = live[w]
    OBVIOUS
<1>5. NewLiveReg(s, v) = t
    BY DEF NewLiveReg, State, lr
<1> HIDE DEF new, live
<1>6. new \in LiveRegMaps
    BY <1>1, <1>3, LiveMapIntro
<1>7. t \in State /\ t.code = s.code /\ t.PhysRegState = s.PhysRegState /\ t.LiveVirtRegs = new
    BY <1>6 DEF State
<1> HIDE DEF t
<1>8. HeldByLive(t)
    BY <1>4, <1>7 DEF InverseBut, HeldByLive, live
<1>9. LiveIsHeld(t, {v})
    <2>1. \A w \in DOMAIN live : live[w].PhysReg \in Phys /\ s.PhysRegState[live[w].PhysReg] = w
        BY DEF InverseBut, LiveIsHeld, live
    <2> QED BY <1>2, <1>4, <1>7, <2>1 DEF LiveIsHeld
<1> QED BY <1>4, <1>5, <1>7, <1>8, <1>9, ShapeReflexive DEF Kept, InverseBut

\* The value has a register when defineVirtReg and reloadVirtReg return.
HasRegister(s, t, v) == Kept(s, t, {}) /\ v \in DOMAIN t.LiveVirtRegs

LEMMA TouchedKeeps ==
    ASSUME NEW s \in State, InverseBut(s, {}), NEW v \in DOMAIN s.LiveVirtRegs,
           NEW m \in Places, NEW k \in Nat, NEW dirty \in BOOLEAN
    PROVE  HasRegister(s, Touched(s, m, k, v, dirty), v)
<1> DEFINE lr == s.LiveVirtRegs[v]
           new == [lr EXCEPT !.LastUse = m, !.LastOpNum = k, !.Dirty = dirty]
           used == s.UsedInInstr \cup {lr.PhysReg}
           u == [s EXCEPT !.UsedInInstr = used]
           t == [u EXCEPT !.LiveVirtRegs[v] = new]
<1>1. lr \in LiveReg /\ used \in SUBSET Phys
    BY LiveMapElim DEF State, InverseBut, LiveIsHeld
<1>2. new \in LiveReg /\ new.PhysReg = lr.PhysReg
    BY <1>1 DEF LiveReg
<1> HIDE DEF used
<1>3. u \in State /\ u.code = s.code /\ u.LiveVirtRegs = s.LiveVirtRegs /\ u.PhysRegState = s.PhysRegState
    BY <1>1 DEF State
<1>4. Touched(s, m, k, v, dirty) = t
    BY ZenonT(40), <1>1, <1>3 DEF Touched, State, LiveReg, used
<1> HIDE DEF u, new
<1>5. /\ t \in State /\ t.code = s.code /\ t.PhysRegState = s.PhysRegState
      /\ DOMAIN t.LiveVirtRegs = DOMAIN s.LiveVirtRegs
      /\ t.LiveVirtRegs[v].PhysReg = s.LiveVirtRegs[v].PhysReg
      /\ \A w \in DOMAIN s.LiveVirtRegs \ {v} : t.LiveVirtRegs[w] = s.LiveVirtRegs[w]
    <2>1. /\ t \in State /\ t.code = u.code /\ t.PhysRegState = u.PhysRegState
          /\ DOMAIN t.LiveVirtRegs = DOMAIN u.LiveVirtRegs
          /\ t.LiveVirtRegs[v] = new
          /\ \A w \in DOMAIN u.LiveVirtRegs \ {v} : t.LiveVirtRegs[w] = u.LiveVirtRegs[w]
        BY <1>2, <1>3, SetLive
    <2> QED BY <1>2, <1>3, <2>1
<1> HIDE DEF t
<1>6. \A w \in DOMAIN s.LiveVirtRegs : t.LiveVirtRegs[w].PhysReg = s.LiveVirtRegs[w].PhysReg
    BY <1>5
<1>7. InverseBut(t, {})
    BY <1>5, <1>6 DEF InverseBut, HeldByLive, LiveIsHeld
<1> QED BY <1>4, <1>5, <1>7, ShapeReflexive DEF HasRegister, Kept

LEMMA KeptTransitive ==
    ASSUME NEW s, NEW t, NEW u, NEW W, NEW X, Kept(s, t, W), Kept(t, u, X)
    PROVE  Kept(s, u, X)
BY ShapeTransitive DEF Kept

LEMMA KeptReflexive ==
    ASSUME NEW s \in State, NEW W, InverseBut(s, W)
    PROVE  Kept(s, s, W)
BY ShapeReflexive DEF Kept

LEMMA OnlyCodeKept ==
    ASSUME NEW s \in State, NEW W, InverseBut(s, W), NEW t, OnlyCode(s, t)
    PROVE  Kept(s, t, W) /\ t.LiveVirtRegs = s.LiveVirtRegs
BY OnlyCodeKeeps DEF Kept, InverseBut, HeldByLive, LiveIsHeld

LEMMA OnlyInsertedKept ==
    ASSUME NEW s \in State, NEW W, InverseBut(s, W), NEW t, OnlyInserted(s, t)
    PROVE  Kept(s, t, W) /\ t.LiveVirtRegs = s.LiveVirtRegs
BY OnlyInsertedKeeps, ShapeReflexive DEF Kept, InverseBut, HeldByLive, LiveIsHeld

\* A value that comes into a register.
LEMMA AllocNew ==
    ASSUME NEW s \in State, InverseBut(s, {}), NEW v \in Virt, v \notin DOMAIN s.LiveVirtRegs,
           NEW m, NEW Hint
    PROVE  HasRegister(s, allocVirtReg(NewLiveReg(s, v), m, v, Hint), v)
<1> DEFINE n == NewLiveReg(s, v)
           t == allocVirtReg(n, m, v, Hint)
<1>1. Kept(s, n, {v}) /\ v \in DOMAIN n.LiveVirtRegs
    BY NewLiveRegKeeps
<1> HIDE DEF n
<1>2. Kept(n, t, {}) /\ v \in DOMAIN t.LiveVirtRegs
    BY <1>1, AllocVirtRegKeeps DEF Kept
<1> HIDE DEF t
<1> QED BY <1>1, <1>2, KeptTransitive DEF HasRegister, n, t

LEMMA FoundTransitive ==
    ASSUME NEW s, NEW t, NEW u, NEW v, HasRegister(s, t, v), HasRegister(t, u, v)
    PROVE  HasRegister(s, u, v)
BY KeptTransitive DEF HasRegister

LEMMA DefineVirtRegKeeps ==
    ASSUME NEW s \in State, InverseBut(s, {}), NEW m \in Places, NEW k \in Nat, NEW v \in Virt, NEW Hint
    PROVE  HasRegister(s, defineVirtReg(s, m, k, v, Hint), v)
<1> DEFINE lr == s.LiveVirtRegs[v]
           found ==
               IF v \notin DOMAIN s.LiveVirtRegs
               THEN allocVirtReg(NewLiveReg(s, v), m, v, CopyHint(s, v, Hint))
               ELSE IF lr.LastUse # None /\ (lr.LastUse # m \/ isUse(Op(s, m, lr.LastOpNum)))
               THEN addKillFlag(s, lr)
               ELSE s
<1>1. HasRegister(s, found, v)
    <2>1. CASE v \notin DOMAIN s.LiveVirtRegs
        BY <2>1, AllocNew
    <2>2. CASE v \in DOMAIN s.LiveVirtRegs
        <3>1. OnlyCode(s, found)
            BY <2>2, AddKillFlagIsOnlyCode, OnlyCodeReflexive
        <3> HIDE DEF found
        <3> QED BY <2>2, <3>1, OnlyCodeKept DEF HasRegister
    <2> QED BY <2>1, <2>2
<1>2. defineVirtReg(s, m, k, v, Hint) = Touched(found, m, k, v, TRUE)
    BY DEF defineVirtReg
<1> HIDE DEF found
<1>3. HasRegister(found, Touched(found, m, k, v, TRUE), v)
    BY <1>1, TouchedKeeps DEF HasRegister, Kept
<1> QED BY <1>1, <1>2, <1>3, FoundTransitive

LEMMA ReloadedKeeps ==
    ASSUME NEW s \in State, InverseBut(s, {}), NEW m, NEW v \in DOMAIN s.LiveVirtRegs
    PROVE  HasRegister(s, Reloaded(s, m, v), v)
<1> DEFINE r == s.LiveVirtRegs[v].PhysReg
           i == Instr("COPY", <<Operand(r, "def", FALSE), Operand(<<v>>, "use", FALSE)>>)
           t == Insert(getStackSpaceFor(s, v), m, i)
<1>1. v \in Virt /\ r \in Phys
    BY LiveMapElim DEF State, InverseBut, LiveIsHeld
<1>2. i \in Inserted
    <2>1. /\ <<v>> \in Registered \cup Slots /\ r \in Registered \cup Slots
          /\ FALSE \in BOOLEAN /\ "def" \in Kinds /\ "use" \in Kinds
        BY <1>1 DEF Slots, Registered, Kinds
    <2> HIDE DEF r
    <2>2. /\ Operand(<<v>>, "use", FALSE) \in Operands(Registered \cup Slots)
          /\ Operand(r, "def", FALSE) \in Operands(Registered \cup Slots)
        BY <2>1 DEF Operand, Operands
    <2>3. \A x, y \in Operands(Registered \cup Slots) : <<x, y>> \in Seq(Operands(Registered \cup Slots))
        OBVIOUS
    <2>4. <<Operand(r, "def", FALSE), Operand(<<v>>, "use", FALSE)>>
            \in Seq(Operands(Registered \cup Slots))
        BY <2>2, <2>3
    <2> QED BY <2>4 DEF Instr, Inserted
<1>3. Reloaded(s, m, v) = t
    BY DEF Reloaded, loadRegFromStackSlot
<1> HIDE DEF i
<1>4. OnlyInserted(s, t)
    BY <1>1, <1>2, InsertIsOnlyInserted
<1> HIDE DEF t
<1> QED BY <1>3, <1>4, OnlyInsertedKept DEF HasRegister

LEMMA ReloadVirtRegKeeps ==
    ASSUME NEW s \in State, InverseBut(s, {}), NEW m \in Places, NEW k \in Nat, NEW v \in Virt, NEW Hint
    PROVE  HasRegister(s, reloadVirtReg(s, m, k, v, Hint), v)
<1>1. CASE v \notin DOMAIN s.LiveVirtRegs
    <2> DEFINE a == allocVirtReg(NewLiveReg(s, v), m, v, Hint)
               b == Reloaded(a, m, v)
               t == Touched(b, m, k, v, FALSE)
    <2>1. reloadVirtReg(s, m, k, v, Hint) = t
        BY <1>1 DEF reloadVirtReg
    <2>2. HasRegister(s, a, v)
        BY <1>1, AllocNew
    <2> HIDE DEF a
    <2>3. HasRegister(a, b, v)
        BY <2>2, ReloadedKeeps DEF HasRegister, Kept
    <2> HIDE DEF b
    <2>4. HasRegister(b, t, v)
        BY <2>3, TouchedKeeps DEF HasRegister, Kept
    <2> HIDE DEF t
    <2> QED BY <2>1, <2>2, <2>3, <2>4, FoundTransitive
<1>2. CASE v \in DOMAIN s.LiveVirtRegs
    <2> DEFINE dirty == s.LiveVirtRegs[v].Dirty
               last == dirty /\ isLastUseOfLocalReg(s, m, k, v)
               a == setIsKill(s, m, k, last)
               t == Touched(a, m, k, v, dirty)
    <2>1. reloadVirtReg(s, m, k, v, Hint) = t
        BY <1>2 DEF reloadVirtReg
    <2>2. dirty \in BOOLEAN
        BY <1>2, LiveMapElim DEF State, LiveReg
    <2>3. last \in BOOLEAN
        OBVIOUS
    <2> HIDE DEF last, dirty
    <2>4. OnlyCode(s, a)
        BY <2>3, SetIsKillIsOnlyCode
    <2> HIDE DEF a
    <2>5. Kept(s, a, {}) /\ v \in DOMAIN a.LiveVirtRegs
        BY <1>2, <2>4, OnlyCodeKept
    <2>6. HasRegister(a, t, v)
        BY <2>2, <2>5, TouchedKeeps DEF HasRegister, Kept
    <2> HIDE DEF t
    <2> QED BY <2>1, <2>5, <2>6, FoundTransitive DEF HasRegister
<1> QED BY <1>1, <1>2

LEMMA SetPhysRegKeeps ==
    ASSUME NEW s \in State, InverseBut(s, {}), NEW m, NEW k, NEW v \in DOMAIN s.LiveVirtRegs
    PROVE  HasRegister(s, setPhysReg(s, m, k, v), v)
<1>1. s.LiveVirtRegs[v].PhysReg \in Registered
    BY DEF InverseBut, LiveIsHeld, Registered
<1>2. OnlyCode(s, setPhysReg(s, m, k, v))
    BY <1>1, SetRegIsOnlyCode DEF setPhysReg
<1> QED BY <1>2, OnlyCodeKept DEF HasRegister

\* Fields that the maps do not depend on.
SetCopy(s, src, dst) == [s EXCEPT !.CopySrc = src, !.CopyDst = dst]

LEMMA SetCopyKeeps ==
    ASSUME NEW s \in State, NEW W, InverseBut(s, W),
           NEW src \in Registered \cup {None}, NEW dst \in Registered \cup {None}
    PROVE  LET t == SetCopy(s, src, dst)
           IN  Kept(s, t, W) /\ t.code = s.code /\ t.LiveVirtRegs = s.LiveVirtRegs
<1> DEFINE t == SetCopy(s, src, dst)
<1>1. /\ t \in State /\ t.code = s.code
      /\ t.LiveVirtRegs = s.LiveVirtRegs /\ t.PhysRegState = s.PhysRegState
    BY DEF State, SetCopy
<1> HIDE DEF t
<1>2. Kept(s, t, W)
    BY <1>1, ShapeReflexive DEF Kept, InverseBut, HeldByLive, LiveIsHeld
<1> QED BY <1>1, <1>2 DEF t

LEMMA UsedKeeps ==
    ASSUME NEW s \in State, NEW W, InverseBut(s, W), NEW used \in SUBSET Phys
    PROVE  LET t == [s EXCEPT !.UsedInInstr = used]
           IN  Kept(s, t, W) /\ t.code = s.code /\ t.LiveVirtRegs = s.LiveVirtRegs
<1> DEFINE t == [s EXCEPT !.UsedInInstr = used]
<1>1. /\ t \in State /\ t.code = s.code
      /\ t.LiveVirtRegs = s.LiveVirtRegs /\ t.PhysRegState = s.PhysRegState
    BY DEF State
<1> HIDE DEF t
<1>2. Kept(s, t, W)
    BY <1>1, ShapeReflexive DEF Kept, InverseBut, HeldByLive, LiveIsHeld
<1> QED BY <1>1, <1>2 DEF t

-----------------------------------------------------------------------------
(***************************************************************************)
(* The scans of an instruction.                                            *)
(***************************************************************************)
IsInstr(c, m) == m[1] \in 1 .. Len(c) /\ m[2] \in 1 .. Len(c[m[1]])

LEMMA NumOperandsIsNatural ==
    ASSUME NEW s \in State, NEW m, IsInstr(s.code, m)
    PROVE  NumOperands(s, m) \in Nat
<1> DEFINE I == [op : STRING, ops : Seq(Operands(Registered))]
<1>1. s.code[m[1]] \in Seq(I)
    BY ElementOfSeq DEF State, Code, IsInstr
<1>2. s.code[m[1]][m[2]] \in I
    BY <1>1, ElementOfSeq DEF IsInstr
<1> QED BY <1>2, LenProperties DEF NumOperands

\* The operands of an instruction keep their number while it is scanned.
LEMMA OperandsStay ==
    ASSUME NEW s \in State, NEW m, IsInstr(s.code, m), NEW t, Kept(s, t, {}),
           NEW k \in 1 .. NumOperands(s, m)
    PROVE  IsInstr(t.code, m) /\ Op(t, m, k) \in Operands(Registered)
<1>1. /\ m[1] \in 1 .. Len(s.code) /\ m[2] \in 1 .. Len(s.code[m[1]])
      /\ Len(t.code) = Len(s.code) /\ SameBlock(s.code[m[1]], t.code[m[1]])
    BY DEF IsInstr, Kept, SameShape
<1>2. SameInstr(s.code[m[1]][m[2]], t.code[m[1]][m[2]]) /\ IsInstr(t.code, m)
    BY <1>1 DEF SameBlock, IsInstr
<1>3. IsOperand(t.code, m, k)
    BY <1>1, <1>2 DEF SameInstr, IsOperand, NumOperands, IsInstr
<1> QED BY <1>2, <1>3, OperandAt DEF Op, Kept, State

LEMMA SetUseKeeps ==
    ASSUME NEW s \in State, InverseBut(s, {}), NEW m, NEW k, NEW v \in DOMAIN s.LiveVirtRegs
    PROVE  Kept(s, setUse(s, m, k, v), {})
<1> DEFINE a == setPhysReg(s, m, k, v)
           src == Follow(a.CopySrc, v, s.LiveVirtRegs[v].PhysReg)
           set == SetCopy(a, src, a.CopyDst)
<1>1. Kept(s, a, {}) /\ v \in DOMAIN a.LiveVirtRegs
    BY SetPhysRegKeeps DEF HasRegister
<1>2. src \in Registered \cup {None}
    BY DEF Follow, InverseBut, LiveIsHeld, Registered
<1>3. setUse(s, m, k, v) = IF Op(s, m, k).kill THEN killVirtReg(set, v) ELSE set
    <2>1. [a EXCEPT !.CopySrc = Follow(@, v, s.LiveVirtRegs[v].PhysReg)] = set
        BY <1>1 DEF Kept, State, SetCopy
    <2> QED BY <2>1 DEF setUse
<1> HIDE DEF a, src
<1>4. Kept(a, set, {}) /\ set.LiveVirtRegs = a.LiveVirtRegs
    <2>1. a \in State /\ InverseBut(a, {}) /\ a.CopyDst \in Registered \cup {None}
        BY <1>1 DEF Kept, State
    <2> QED BY <1>2, <2>1, SetCopyKeeps
<1> HIDE DEF set
<1>5. Kept(set, killVirtReg(set, v), {})
    <2>1. set \in State /\ InverseBut(set, {}) /\ v \in DOMAIN set.LiveVirtRegs
        BY <1>1, <1>4 DEF Kept
    <2>2. Removed(set, killVirtReg(set, v), v)
        BY <2>1, KillRemoves
    <2>3. InverseBut(killVirtReg(set, v), {})
        BY <2>1, <2>2, RemovedKeeps
    <2> QED BY <2>2, <2>3 DEF Removed, Kept
<1> QED BY <1>1, <1>3, <1>4, <1>5, KeptTransitive

LEMMA SetDefinitionKeeps ==
    ASSUME NEW s \in State, InverseBut(s, {}), NEW m, NEW k, NEW v \in DOMAIN s.LiveVirtRegs
    PROVE  Kept(s, setDefinition(s, m, k, v), {})
<1> DEFINE a == setPhysReg(s, m, k, v)
           dst == Follow(a.CopyDst, v, s.LiveVirtRegs[v].PhysReg)
           set == SetCopy(a, a.CopySrc, dst)
<1>1. Kept(s, a, {})
    BY SetPhysRegKeeps DEF HasRegister
<1>2. dst \in Registered \cup {None}
    BY DEF Follow, InverseBut, LiveIsHeld, Registered
<1>3. setDefinition(s, m, k, v) = set
    BY <1>1 DEF setDefinition, Kept, State, SetCopy
<1> HIDE DEF a, dst
<1>4. Kept(a, set, {})
    <2>1. a \in State /\ InverseBut(a, {}) /\ a.CopySrc \in Registered \cup {None}
        BY <1>1 DEF Kept, State
    <2> QED BY <1>2, <2>1, SetCopyKeeps
<1> HIDE DEF set
<1> QED BY <1>1, <1>3, <1>4, KeptTransitive

\* The turn of a scan for one operand.
FirstStep(t, m, k) == IF Op(t, m, k).reg \in Phys /\ isUse(Op(t, m, k)) THEN usePhysReg(t, m, k) ELSE t

\* scan holds the states of the first scan of the instruction at m.
FirstScans(s, m, scan) ==
    /\ scan[0] = [s EXCEPT !.UsedInInstr = {}]
    /\ FirstScan(s, m) = scan[NumOperands(s, m)]
    /\ \A k \in 0 .. NumOperands(s, m) : Kept(s, scan[k], {})
    /\ \A k \in 1 .. NumOperands(s, m) : scan[k] = FirstStep(scan[k - 1], m, k)

\* The first scan uses the physical registers that the instruction reads.
LEMMA FirstScanRuns ==
    ASSUME NEW s \in State, InverseBut(s, {}), NEW m \in Places, IsInstr(s.code, m)
    PROVE  \E scan : FirstScans(s, m, scan)
<1> DEFINE l == NumOperands(s, m)
           base == [s EXCEPT !.UsedInInstr = {}]
           next(t, k) == FirstStep(t, m, k)
           Is(f) == f = [k \in 0 .. l |-> IF k = 0 THEN base ELSE next(f[k - 1], k)]
           scan == CHOOSE f : Is(f)
           T == {t \in State : Kept(s, t, {})}
<1>1. l \in Nat
    BY NumOperandsIsNatural
<1>2. base \in T
    BY UsedKeeps DEF Kept
<1>3. FirstScan(s, m) = scan[l]
    BY DEF FirstScan, FirstStep
<1>4. ASSUME NEW t \in T, NEW k \in 1 .. l PROVE next(t, k) \in T
    BY UsePhysRegKeeps, KeptTransitive DEF Kept, FirstStep
<1> HIDE DEF next, base, l, T
<1>5. \E f : Is(f)
    <2> DEFINE step == [k \in 1 .. l |-> [t \in T |-> next(t, k)]]
    <2>1. step \in [1 .. l -> [T -> T]]
        BY <1>4
    <2>2. PICK f \in [0 .. l -> T] : Iterates(f, base, step, l)
        <3> HIDE DEF step
        <3> QED BY <1>1, <1>2, <2>1, PrimitiveRecursion
    <2>3. f[0] = base /\ \A k \in 1 .. l : f[k] = step[k][f[k - 1]] /\ f[k - 1] \in T
        BY <1>1, <2>2 DEF Iterates
    <2>4. \A k \in 1 .. l : f[k] = next(f[k - 1], k)
        BY <2>3
    <2>5. Is(f)
        BY <1>1, <2>2, <2>3, <2>4
    <2> QED BY <2>5
<1>6. Is(scan)
    BY <1>5
<1> HIDE DEF scan
<1>7. scan[0] = base /\ \A k \in 1 .. l : scan[k] = next(scan[k - 1], k)
    BY <1>1, <1>6
<1>8. \A k \in 0 .. l : scan[k] \in T
    BY <1>1, <1>2, <1>4, <1>7, StaysIn
<1>9. scan[0] = base /\ \A k \in 1 .. l : scan[k] = FirstStep(scan[k - 1], m, k)
    BY <1>7 DEF next
<1>10. \A k \in 0 .. l : Kept(s, scan[k], {})
    BY <1>8 DEF T
<1>11. FirstScans(s, m, scan)
    BY <1>3, <1>9, <1>10 DEF FirstScans, l, base
<1> QED BY <1>11

LEMMA FirstScanKeeps ==
    ASSUME NEW s \in State, InverseBut(s, {}), NEW m \in Places, IsInstr(s.code, m)
    PROVE  Kept(s, FirstScan(s, m), {})
<1>1. NumOperands(s, m) \in 0 .. NumOperands(s, m)
    BY NumOperandsIsNatural
<1>2. PICK scan : FirstScans(s, m, scan)
    BY FirstScanRuns
<1> QED BY <1>1, <1>2 DEF FirstScans

SecondStep(t, m, k) ==
    LET v == Op(t, m, k).reg
    IN  IF v \notin Virt \/ ~isUse(Op(t, m, k)) THEN t
        ELSE setUse(reloadVirtReg(t, m, k, v, t.CopyDst), m, k, v)

\* The second scan gives registers to the values that the instruction reads.
LEMMA SecondScanRuns ==
    ASSUME NEW s \in State, InverseBut(s, {}), NEW m \in Places, IsInstr(s.code, m)
    PROVE  \E scan : /\ scan[0] = s
                     /\ SecondScan(s, m) = scan[NumOperands(s, m)]
                     /\ \A k \in 0 .. NumOperands(s, m) : Kept(s, scan[k], {})
                     /\ \A k \in 1 .. NumOperands(s, m) : scan[k] = SecondStep(scan[k - 1], m, k)
<1> DEFINE l == NumOperands(s, m)
           base == s
           next(t, k) == SecondStep(t, m, k)
           Is(f) == f = [k \in 0 .. l |-> IF k = 0 THEN base ELSE next(f[k - 1], k)]
           scan == CHOOSE f : Is(f)
           T == {t \in State : Kept(s, t, {})}
<1>1. l \in Nat
    BY NumOperandsIsNatural
<1>2. base \in T
    BY KeptReflexive
<1>3. SecondScan(s, m) = scan[l]
    BY DEF SecondScan, SecondStep
<1>4. ASSUME NEW t \in T, NEW k \in 1 .. l PROVE next(t, k) \in T
    <2> DEFINE v == Op(t, m, k).reg
               a == reloadVirtReg(t, m, k, v, t.CopyDst)
    <2>1. CASE v \notin Virt \/ ~isUse(Op(t, m, k))
        BY <2>1 DEF SecondStep
    <2>2. CASE v \in Virt /\ isUse(Op(t, m, k))
        <3>1. HasRegister(t, a, v)
            BY <1>1, <2>2, ReloadVirtRegKeeps DEF Kept
        <3>2. next(t, k) = setUse(a, m, k, v)
            BY <2>2 DEF SecondStep
        <3> HIDE DEF a, next, v
        <3>3. Kept(a, setUse(a, m, k, v), {})
            BY <3>1, SetUseKeeps DEF HasRegister, Kept
        <3>4. Kept(s, next(t, k), {})
            BY <3>1, <3>2, <3>3, KeptTransitive DEF HasRegister
        <3> QED BY <3>4 DEF Kept
    <2> QED BY <2>1, <2>2
<1> HIDE DEF next, base, l, T
<1>5. \E f : Is(f)
    <2> DEFINE step == [k \in 1 .. l |-> [t \in T |-> next(t, k)]]
    <2>1. step \in [1 .. l -> [T -> T]]
        BY <1>4
    <2>2. PICK f \in [0 .. l -> T] : Iterates(f, base, step, l)
        <3> HIDE DEF step
        <3> QED BY <1>1, <1>2, <2>1, PrimitiveRecursion
    <2>3. f[0] = base /\ \A k \in 1 .. l : f[k] = step[k][f[k - 1]] /\ f[k - 1] \in T
        BY <1>1, <2>2 DEF Iterates
    <2>4. \A k \in 1 .. l : f[k] = next(f[k - 1], k)
        BY <2>3
    <2>5. Is(f)
        BY <1>1, <2>2, <2>3, <2>4
    <2> QED BY <2>5
<1>6. Is(scan)
    BY <1>5
<1> HIDE DEF scan
<1>7. scan[0] = base /\ \A k \in 1 .. l : scan[k] = next(scan[k - 1], k)
    BY <1>1, <1>6
<1>8. \A k \in 0 .. l : scan[k] \in T
    BY <1>1, <1>2, <1>4, <1>7, StaysIn
<1>9. scan[0] = base /\ \A k \in 1 .. l : scan[k] = SecondStep(scan[k - 1], m, k)
    BY <1>7 DEF next
<1>10. \A k \in 0 .. l : Kept(s, scan[k], {})
    BY <1>8 DEF T
<1> QED BY <1>3, <1>9, <1>10 DEF l, base

LEMMA SecondScanKeeps ==
    ASSUME NEW s \in State, InverseBut(s, {}), NEW m \in Places, IsInstr(s.code, m)
    PROVE  Kept(s, SecondScan(s, m), {})
<1>1. NumOperands(s, m) \in 0 .. NumOperands(s, m)
    BY NumOperandsIsNatural
<1> QED BY <1>1, SecondScanRuns

ThirdStep(t, m, k) ==
    LET v == Op(t, m, k).reg
    IN  IF Op(t, m, k).kind # "def" THEN t
        ELSE IF v \in Phys THEN definePhysReg(t, m, v, "reserved")
        ELSE setDefinition(defineVirtReg(t, m, k, v, t.CopySrc), m, k, v)

\* The third scan gives registers to the values that the instruction writes.
LEMMA ThirdScanRuns ==
    ASSUME NEW s \in State, InverseBut(s, {}), NEW m \in Places, IsInstr(s.code, m)
    PROVE  \E scan : /\ scan[0] = s
                     /\ ThirdScan(s, m) = scan[NumOperands(s, m)]
                     /\ \A k \in 0 .. NumOperands(s, m) : Kept(s, scan[k], {})
                     /\ \A k \in 1 .. NumOperands(s, m) : scan[k] = ThirdStep(scan[k - 1], m, k)
<1> DEFINE l == NumOperands(s, m)
           base == s
           next(t, k) == ThirdStep(t, m, k)
           Is(f) == f = [k \in 0 .. l |-> IF k = 0 THEN base ELSE next(f[k - 1], k)]
           scan == CHOOSE f : Is(f)
           T == {t \in State : Kept(s, t, {})}
<1>1. l \in Nat
    BY NumOperandsIsNatural
<1>2. base \in T
    BY KeptReflexive
<1>3. ThirdScan(s, m) = scan[l]
    BY DEF ThirdScan, ThirdStep
<1>4. ASSUME NEW t \in T, NEW k \in 1 .. l PROVE next(t, k) \in T
    <2> DEFINE v == Op(t, m, k).reg
               a == defineVirtReg(t, m, k, v, t.CopySrc)
    <2>1. CASE Op(t, m, k).kind # "def"
        BY <2>1 DEF ThirdStep
    <2>2. CASE Op(t, m, k).kind = "def" /\ v \in Phys
        <3>1. next(t, k) = definePhysReg(t, m, v, "reserved") /\ "reserved" \in PhysRegStates
            BY <2>2 DEF PhysRegStates, ThirdStep
        <3> HIDE DEF next, v
        <3>2. Kept(t, next(t, k), {})
            BY <2>2, <3>1, DefinePhysRegKeeps DEF Kept
        <3>3. Kept(s, next(t, k), {})
            BY <3>2, KeptTransitive
        <3> QED BY <3>3 DEF Kept
    <2>3. CASE Op(t, m, k).kind = "def" /\ v \notin Phys
        <3>0. v \in Virt
            BY <2>3, OperandsStay DEF Operands, Registered
        <3>1. HasRegister(t, a, v)
            BY <1>1, <3>0, DefineVirtRegKeeps DEF Kept
        <3>2. next(t, k) = setDefinition(a, m, k, v)
            BY <2>3 DEF ThirdStep
        <3> HIDE DEF a, next, v
        <3>3. Kept(a, setDefinition(a, m, k, v), {})
            BY <3>1, SetDefinitionKeeps DEF HasRegister, Kept
        <3>4. Kept(s, next(t, k), {})
            BY <3>1, <3>2, <3>3, KeptTransitive DEF HasRegister
        <3> QED BY <3>4 DEF Kept
    <2> QED BY <2>1, <2>2, <2>3
<1> HIDE DEF next, base, l, T
<1>5. \E f : Is(f)
    <2> DEFINE step == [k \in 1 .. l |-> [t \in T |-> next(t, k)]]
    <2>1. step \in [1 .. l -> [T -> T]]
        BY <1>4
    <2>2. PICK f \in [0 .. l -> T] : Iterates(f, base, step, l)
        <3> HIDE DEF step
        <3> QED BY <1>1, <1>2, <2>1, PrimitiveRecursion
    <2>3. f[0] = base /\ \A k \in 1 .. l : f[k] = step[k][f[k - 1]] /\ f[k - 1] \in T
        BY <1>1, <2>2 DEF Iterates
    <2>4. \A k \in 1 .. l : f[k] = next(f[k - 1], k)
        BY <2>3
    <2>5. Is(f)
        BY <1>1, <2>2, <2>3, <2>4
    <2> QED BY <2>5
<1>6. Is(scan)
    BY <1>5
<1> HIDE DEF scan
<1>7. scan[0] = base /\ \A k \in 1 .. l : scan[k] = next(scan[k - 1], k)
    BY <1>1, <1>6
<1>8. \A k \in 0 .. l : scan[k] \in T
    BY <1>1, <1>2, <1>4, <1>7, StaysIn
<1>9. scan[0] = base /\ \A k \in 1 .. l : scan[k] = ThirdStep(scan[k - 1], m, k)
    BY <1>7 DEF next
<1>10. \A k \in 0 .. l : Kept(s, scan[k], {})
    BY <1>8 DEF T
<1> QED BY <1>3, <1>9, <1>10 DEF l, base

LEMMA ThirdScanKeeps ==
    ASSUME NEW s \in State, InverseBut(s, {}), NEW m \in Places, IsInstr(s.code, m)
    PROVE  Kept(s, ThirdScan(s, m), {})
<1>1. NumOperands(s, m) \in 0 .. NumOperands(s, m)
    BY NumOperandsIsNatural
<1> QED BY <1>1, ThirdScanRuns

ThroughStep(t, m, k) ==
    LET v == Op(t, m, k).reg
    IN  IF Op(t, m, k).kind # "ec" \/ v \notin Virt THEN t
        ELSE setPhysReg(defineVirtReg(t, m, k, v, None), m, k, v)

\* Early clobbers get their registers first.
LEMMA ThroughScanRuns ==
    ASSUME NEW s \in State, InverseBut(s, {}), NEW m \in Places, IsInstr(s.code, m)
    PROVE  \E scan : /\ scan[0] = s
                     /\ handleThroughOperands(s, m) =
                            IF HasEarlyClobbers(s, m) THEN BlockThrough(scan[NumOperands(s, m)], m) ELSE s
                     /\ \A k \in 0 .. NumOperands(s, m) : Kept(s, scan[k], {})
                     /\ \A k \in 1 .. NumOperands(s, m) : scan[k] = ThroughStep(scan[k - 1], m, k)
<1> DEFINE l == NumOperands(s, m)
           base == s
           next(t, k) == ThroughStep(t, m, k)
           Is(f) == f = [k \in 0 .. l |-> IF k = 0 THEN base ELSE next(f[k - 1], k)]
           scan == CHOOSE f : Is(f)
           T == {t \in State : Kept(s, t, {})}
<1>1. l \in Nat
    BY NumOperandsIsNatural
<1>2. base \in T
    BY KeptReflexive
<1>3. handleThroughOperands(s, m) = IF HasEarlyClobbers(s, m) THEN BlockThrough(scan[l], m) ELSE s
    BY DEF handleThroughOperands, ThroughStep
<1>4. ASSUME NEW t \in T, NEW k \in 1 .. l PROVE next(t, k) \in T
    <2> DEFINE v == Op(t, m, k).reg
               a == defineVirtReg(t, m, k, v, None)
    <2>1. CASE Op(t, m, k).kind # "ec" \/ v \notin Virt
        BY <2>1 DEF ThroughStep
    <2>2. CASE Op(t, m, k).kind = "ec" /\ v \in Virt
        <3>1. HasRegister(t, a, v)
            BY <1>1, <2>2, DefineVirtRegKeeps DEF Kept
        <3>2. next(t, k) = setPhysReg(a, m, k, v)
            BY <2>2 DEF ThroughStep
        <3> HIDE DEF a, next, v
        <3>3. Kept(a, setPhysReg(a, m, k, v), {})
            BY <3>1, SetPhysRegKeeps DEF HasRegister, Kept
        <3>4. Kept(s, next(t, k), {})
            BY <3>1, <3>2, <3>3, KeptTransitive DEF HasRegister
        <3> QED BY <3>4 DEF Kept
    <2> QED BY <2>1, <2>2
<1> HIDE DEF next, base, l, T
<1>5. \E f : Is(f)
    <2> DEFINE step == [k \in 1 .. l |-> [t \in T |-> next(t, k)]]
    <2>1. step \in [1 .. l -> [T -> T]]
        BY <1>4
    <2>2. PICK f \in [0 .. l -> T] : Iterates(f, base, step, l)
        <3> HIDE DEF step
        <3> QED BY <1>1, <1>2, <2>1, PrimitiveRecursion
    <2>3. f[0] = base /\ \A k \in 1 .. l : f[k] = step[k][f[k - 1]] /\ f[k - 1] \in T
        BY <1>1, <2>2 DEF Iterates
    <2>4. \A k \in 1 .. l : f[k] = next(f[k - 1], k)
        BY <2>3
    <2>5. Is(f)
        BY <1>1, <2>2, <2>3, <2>4
    <2> QED BY <2>5
<1>6. Is(scan)
    BY <1>5
<1> HIDE DEF scan
<1>7. scan[0] = base /\ \A k \in 1 .. l : scan[k] = next(scan[k - 1], k)
    BY <1>1, <1>6
<1>8. \A k \in 0 .. l : scan[k] \in T
    BY <1>1, <1>2, <1>4, <1>7, StaysIn
<1>9. scan[0] = base /\ \A k \in 1 .. l : scan[k] = ThroughStep(scan[k - 1], m, k)
    BY <1>7 DEF next
<1>10. \A k \in 0 .. l : Kept(s, scan[k], {})
    BY <1>8 DEF T
<1> QED BY <1>3, <1>9, <1>10 DEF l, base

LEMMA BlockThroughKeeps ==
    ASSUME NEW a \in State, InverseBut(a, {}), NEW m
    PROVE  Kept(a, BlockThrough(a, m), {})
<1> DEFINE used == Registers(a, m, {"ec", "use", "tied", "imp"})
           u == [a EXCEPT !.UsedInInstr = used]
<1>1. used \in SUBSET Phys
    BY DEF Registers
<1> HIDE DEF used
<1>2. Kept(a, u, {})
    BY <1>1, UsedKeeps
<1>3. BlockThrough(a, m) = SetCopy(u, u.CopySrc, None)
    BY DEF BlockThrough, State, SetCopy, used
<1> HIDE DEF u
<1>4. u.CopySrc \in Registered \cup {None} /\ u \in State /\ InverseBut(u, {})
    BY <1>2 DEF Kept, State
<1>5. Kept(u, SetCopy(u, u.CopySrc, None), {})
    BY <1>4, SetCopyKeeps
<1> QED BY <1>2, <1>3, <1>5, KeptTransitive

LEMMA ThroughOperandsKeep ==
    ASSUME NEW s \in State, InverseBut(s, {}), NEW m \in Places, IsInstr(s.code, m)
    PROVE  Kept(s, handleThroughOperands(s, m), {})
<1>1. PICK a : /\ Kept(s, a, {})
               /\ handleThroughOperands(s, m) = IF HasEarlyClobbers(s, m) THEN BlockThrough(a, m) ELSE s
    <2>1. NumOperands(s, m) \in 0 .. NumOperands(s, m)
        BY NumOperandsIsNatural
    <2> QED BY <2>1, ThroughScanRuns
<1>2. Kept(a, BlockThrough(a, m), {})
    BY <1>1, BlockThroughKeeps DEF Kept
<1> QED BY <1>1, <1>2, KeptTransitive, KeptReflexive

-----------------------------------------------------------------------------
(***************************************************************************)
(* Instructions and blocks.                                                *)
(***************************************************************************)
CopiesHaveTwo(c) ==
    \A b \in 1 .. Len(c) : \A n \in 1 .. Len(c[b]) : c[b][n].op = "COPY" => Len(c[b][n].ops) = 2

SameLengths(c, d) == Len(d) = Len(c) /\ \A b \in 1 .. Len(c) : Len(d[b]) = Len(c[b])

LEMMA ShapeOfCopies ==
    ASSUME NEW c, NEW d, SameShape(c, d), CopiesHaveTwo(c)
    PROVE  CopiesHaveTwo(d)
<1> SUFFICES ASSUME NEW b \in 1 .. Len(d), NEW n \in 1 .. Len(d[b]), d[b][n].op = "COPY"
             PROVE  Len(d[b][n].ops) = 2
    BY DEF CopiesHaveTwo
<1>1. b \in 1 .. Len(c) /\ SameBlock(c[b], d[b])
    BY DEF SameShape
<1>2. n \in 1 .. Len(c[b]) /\ SameInstr(c[b][n], d[b][n])
    BY <1>1 DEF SameBlock
<1> QED BY <1>1, <1>2 DEF SameInstr, CopiesHaveTwo

LEMMA ShapeOfLengths ==
    ASSUME NEW c, NEW d, NEW e, SameLengths(c, d), SameShape(d, e)
    PROVE  SameLengths(c, e)
BY Zenon DEF SameShape, SameBlock, SameLengths

\* The turn of the loop for one instruction, with the scans in their order.
LEMMA AllocateInstructionKeeps ==
    ASSUME NEW s \in State, InverseBut(s, {}), CopiesHaveTwo(s.code), NEW m \in Places, IsInstr(s.code, m)
    PROVE  Kept(s, AllocateInstruction(s, m), {})
<1> DEFINE i == s.code[m[1]][m[2]]
           src == IF i.op = "COPY" THEN i.ops[2].reg ELSE None
           dst == IF i.op = "COPY" THEN i.ops[1].reg ELSE None
           copy == SetCopy(s, src, dst)
           first == FirstScan(copy, m)
           through == handleThroughOperands(first, m)
           second == SecondScan(through, m)
           used == ResetUsedInInstr(second, m)
           spilled == spillForCall(used, m)
           third == ThirdScan(spilled, m)
           done == Coalesce(third, m)
<1>1. AllocateInstruction(s, m) = done
    <2>1. [s EXCEPT !.CopyDst = dst, !.CopySrc = src] = copy
        BY DEF State, SetCopy
    <2> QED BY Zenon, <2>1 DEF AllocateInstruction
<1>2. \A t : Kept(s, t, {}) => t \in State /\ InverseBut(t, {}) /\ IsInstr(t.code, m)
    BY DEF Kept, IsInstr, SameShape, SameBlock
<1>3. Kept(s, copy, {})
    <2>1. src \in Registered \cup {None} /\ dst \in Registered \cup {None}
        <3>1. CASE i.op = "COPY"
            <4>3. Len(i.ops) = 2
                BY <3>1 DEF IsInstr, CopiesHaveTwo
            <4>1. IsOperand(s.code, m, 1) /\ IsOperand(s.code, m, 2)
                BY <4>3 DEF IsInstr, IsOperand
            <4>2. i.ops[1] \in Operands(Registered) /\ i.ops[2] \in Operands(Registered)
                BY <4>1, OperandAt DEF State
            <4> QED BY <4>2 DEF Operands
        <3>2. CASE i.op # "COPY"
            BY <3>2
        <3> QED BY <3>1, <3>2
    <2> HIDE DEF src, dst
    <2> QED BY <2>1, SetCopyKeeps
<1> HIDE DEF copy
<1>4. Kept(s, first, {})
    <2>1. Kept(copy, first, {})
        BY <1>2, <1>3, FirstScanKeeps
    <2> QED BY <1>3, <2>1, KeptTransitive
<1> HIDE DEF first
<1>5. Kept(s, through, {})
    <2>1. Kept(first, through, {})
        BY <1>2, <1>4, ThroughOperandsKeep
    <2> QED BY <1>4, <2>1, KeptTransitive
<1> HIDE DEF through
<1>6. Kept(s, second, {})
    <2>1. Kept(through, second, {})
        BY <1>2, <1>5, SecondScanKeeps
    <2> QED BY <1>5, <2>1, KeptTransitive
<1> HIDE DEF second
<1>7. Kept(s, used, {})
    <2>1. Registers(second, m, {"ec"}) \in SUBSET Phys
        BY DEF Registers
    <2>2. Kept(second, used, {})
        BY <1>2, <1>6, <2>1, UsedKeeps DEF ResetUsedInInstr
    <2> QED BY <1>6, <2>2, KeptTransitive
<1> HIDE DEF used
<1>8. Kept(s, spilled, {})
    <2>1. Kept(used, spilled, {})
        BY <1>2, <1>7, SpillAllKeeps, KeptReflexive DEF spillForCall
    <2> QED BY <1>7, <2>1, KeptTransitive
<1> HIDE DEF spilled
<1>9. Kept(s, third, {})
    <2>1. Kept(spilled, third, {})
        BY <1>2, <1>8, ThirdScanKeeps
    <2> QED BY <1>8, <2>1, KeptTransitive
<1> HIDE DEF third
<1>10. /\ done \in State /\ done.code = third.code
       /\ done.LiveVirtRegs = third.LiveVirtRegs /\ done.PhysRegState = third.PhysRegState
    <2>1. third \in State
        BY <1>2, <1>9
    <2>2. third.Coalesced \cup {m} \in SUBSET Places
        BY <2>1 DEF State
    <2> QED BY <2>1, <2>2 DEF Coalesce, State
<1> HIDE DEF done
<1>11. Kept(s, done, {})
    BY <1>9, <1>10 DEF Kept, InverseBut, HeldByLive, LiveIsHeld
<1> QED BY <1>1, <1>11

\* What addRetOperands changes.
OnlyImplicit(i) == i.op = "RET" /\ \A k \in DOMAIN i.ops : i.ops[k].kind = "imp"

RetAdded(s, t, b) ==
    /\ t.inserted = s.inserted /\ t.Coalesced = s.Coalesced /\ t.errors = s.errors
    /\ t.StackSlotForVirtReg = s.StackSlotForVirtReg /\ t.LiveVirtRegs = s.LiveVirtRegs
    /\ \A c \in 1 .. Len(s.code) : \A n \in 1 .. Len(s.code[c]) :
            t.code[c][n] = s.code[c][n] \/
                (c = b /\ n = Len(s.code[c]) /\ s.code[c][n].op = "RET" /\ OnlyImplicit(t.code[c][n]))

\* The operands of a return change neither the maps nor the length of a block.
LEMMA AddRetOperandsKeeps ==
    ASSUME NEW s \in State, CopiesHaveTwo(s.code), NEW b \in 1 .. Len(s.code), NEW liveouts \in SUBSET Phys,
           NEW t, t = addRetOperands(s, b, liveouts)
    PROVE  /\ t \in State /\ SameLengths(s.code, t.code) /\ CopiesHaveTwo(t.code)
           /\ RetAdded(s, t, b)
<1>1. CASE s.code[b] = <<>> \/ Last(s.code[b]).op # "RET"
    <2>1. t = s
        BY <1>1 DEF addRetOperands
    <2> QED BY <2>1 DEF SameLengths, RetAdded
<1>2. CASE ~(s.code[b] = <<>> \/ Last(s.code[b]).op # "RET")
    <2> DEFINE c == s.code
               n == Len(c[b])
               S == {Operand(r, "imp", s.PhysRegState[r] = "reserved") : r \in liveouts}
               ops == SetToSeq(S)
               i == [c[b][n] EXCEPT !.ops = ops]
               p == Put(c[b], n, i)
               d == Put(c, b, p)
               I == [op : STRING, ops : Seq(Operands(Registered))]
               Blocks == Seq(I)
    <2>1. t = [s EXCEPT !.code = d]
        BY <1>2 DEF addRetOperands, Put, State
    <2>2. S \subseteq Operands(Registered)
        <3>1. ASSUME NEW r \in liveouts, NEW kill \in BOOLEAN
              PROVE  Operand(r, "imp", kill) \in Operands(Registered)
            BY DEF Operand, Operands, Registered, Kinds
        <3>2. \A r \in liveouts : (s.PhysRegState[r] = "reserved") \in BOOLEAN
            OBVIOUS
        <3> QED BY <3>1, <3>2
    <2>3. IsFiniteSet(S)
        <3>1. IsFiniteSet(Phys)
            <4>1. Order \in Seq(Phys)
                BY RegAllocAssumption
            <4>2. Len(Order) \in Nat /\ DOMAIN Order = 1 .. Len(Order)
                BY <4>1, LenProperties
            <4>3. IsFiniteSet(1 .. Len(Order))
                BY <4>2, FS_Interval
            <4>4. Order \in Surjection(1 .. Len(Order), Phys)
                BY <4>1, <4>2, LenProperties DEF Surjection, Phys, ToSet
            <4> QED BY <4>3, <4>4, FS_Surjection
        <3>2. IsFiniteSet(liveouts)
            BY <3>1, FS_Subset
        <3> DEFINE f == [r \in liveouts |-> Operand(r, "imp", s.PhysRegState[r] = "reserved")]
        <3>3. f \in Surjection(liveouts, S)
            BY DEF Surjection
        <3> QED BY <3>2, <3>3, FS_Surjection
    <2>4. ops \in Seq(Operands(Registered)) /\ \A k \in DOMAIN ops : ops[k].kind = "imp"
        <3>0. \A x \in S : x.kind = "imp"
            BY DEF Operand
        <3> HIDE DEF S
        <3>1. SetToSeq(S) \in Seq(S)
            BY <2>3, Enumeration
        <3> QED BY <2>2, <3>0, <3>1
    <2> HIDE DEF ops, S
    <2>5. c \in Seq(Blocks) /\ c[b] \in Seq(I)
        BY ElementOfSeq DEF State, Code
    <2>6. n \in 1 .. Len(c[b]) /\ c[b][n].op = "RET"
        <3>1. n \in Nat /\ n # 0
            BY <1>2, <2>5, LenProperties, EmptySeq
        <3> QED BY <1>2, <3>1 DEF Last
    <2>7. i \in I /\ OnlyImplicit(i) /\ i.op = "RET"
        <3>1. c[b][n] \in I
            BY <2>5, <2>6, ElementOfSeq
        <3> QED BY <2>4, <2>6, <3>1 DEF OnlyImplicit
    <2> HIDE DEF i, I
    <2>8. p \in Blocks /\ Len(p) = Len(c[b]) /\ \A j \in 1 .. Len(c[b]) : p[j] = IF j = n THEN i ELSE c[b][j]
        <3>1. PICK q : q = c[b]
            OBVIOUS
        <3>2. q \in Seq(I) /\ i \in I /\ p = Put(q, n, i)
            BY <2>5, <2>7, <3>1
        <3> HIDE DEF n, p, c
        <3>3. /\ p \in Seq(I) /\ Len(p) = Len(q)
              /\ \A j \in 1 .. Len(q) : p[j] = IF j = n THEN i ELSE q[j]
            BY <3>2, SeqPut
        <3> QED BY <3>1, <3>3
    <2> HIDE DEF p, Blocks
    <2>9. d \in Seq(Blocks) /\ Len(d) = Len(c) /\ \A j \in 1 .. Len(c) : d[j] = IF j = b THEN p ELSE c[j]
        BY <2>5, <2>8, SeqPut
    <2> HIDE DEF d
    <2>10. d \in Code /\ SameLengths(c, d)
        BY <2>8, <2>9 DEF SameLengths, Code, Blocks, I
    <2>11. CopiesHaveTwo(d)
        <3> SUFFICES ASSUME NEW j \in 1 .. Len(d), NEW k \in 1 .. Len(d[j]), d[j][k].op = "COPY"
                     PROVE  Len(d[j][k].ops) = 2
            BY DEF CopiesHaveTwo
        <3>1. CASE j = b
            <4>1. d[j] = p /\ k \in 1 .. Len(c[b])
                BY <2>8, <2>9, <3>1
            <4>2. k # n
                BY <2>7, <2>8, <4>1
            <4>3. d[j][k] = c[b][k]
                BY <2>8, <4>1, <4>2
            <4> QED BY <4>1, <4>3 DEF CopiesHaveTwo
        <3>2. CASE j # b
            BY <2>9, <3>2 DEF CopiesHaveTwo
        <3> QED BY <3>1, <3>2
    <2>12. \A j \in 1 .. Len(c) : \A k \in 1 .. Len(c[j]) :
                d[j][k] = c[j][k] \/ (j = b /\ k = Len(c[j]) /\ c[j][k].op = "RET" /\ OnlyImplicit(d[j][k]))
        BY <2>6, <2>7, <2>8, <2>9
    <2>13. /\ t.code = d /\ t.inserted = s.inserted /\ t.Coalesced = s.Coalesced /\ t.errors = s.errors
           /\ t.StackSlotForVirtReg = s.StackSlotForVirtReg /\ t.LiveVirtRegs = s.LiveVirtRegs
        BY <2>1 DEF State
    <2>14. RetAdded(s, t, b)
        BY <2>12, <2>13 DEF RetAdded
    <2> QED BY <2>1, <2>10, <2>11, <2>14 DEF State
<1> QED BY <1>1, <1>2

\* A block starts with no value in a register.
LEMMA StartBlockKeeps ==
    ASSUME NEW s \in State, DOMAIN s.LiveVirtRegs = {}, NEW liveins, NEW t, t = StartBlock(s, liveins)
    PROVE  /\ t \in State /\ t.code = s.code /\ t.LiveVirtRegs = s.LiveVirtRegs
           /\ InverseBut(t, {})
<1> DEFINE states == [r \in Phys |-> IF r \in liveins THEN "reserved" ELSE "disabled"]
<1>1. states \in [Phys -> PhysRegStates]
    BY DEF PhysRegStates
<1>2. t = [s EXCEPT !.PhysRegState = states]
    BY DEF StartBlock
<1> HIDE DEF states
<1>3. t \in State /\ t.code = s.code /\ t.LiveVirtRegs = s.LiveVirtRegs /\ t.PhysRegState = states
    BY <1>1, <1>2 DEF State
<1>4. \A r \in Phys : states[r] \notin Virt
    BY <1>1, RegAllocAssumption
<1> QED BY <1>3, <1>4 DEF InverseBut, HeldByLive, LiveIsHeld

-----------------------------------------------------------------------------
(***************************************************************************)
(* The invariant: the state has its type, the code the lengths it came     *)
(* with, the maps are inverse, and between blocks no register is taken.    *)
(***************************************************************************)
BlocksStartEmpty == at = 1 => DOMAIN ra.LiveVirtRegs = {}

RegAllocInvariant ==
    /\ function \in Functions
    /\ mbb \in Nat \ {0} /\ at \in Nat \ {0}
    /\ ra \in State
    /\ SameLengths(function.blocks, ra.code)
    /\ CopiesHaveTwo(ra.code)
    /\ InverseBut(ra, {})
    /\ BlocksStartEmpty

LEMMA InitInvariant == Init => RegAllocInvariant
<1> SUFFICES ASSUME Init PROVE RegAllocInvariant
    OBVIOUS
<1> DEFINE blocks == function.blocks
           inserted == [b \in DOMAIN blocks |-> [i \in 1 .. Len(blocks[b]) + 1 |-> <<>>]]
           live == EntryLiveIns(function, 1)
           states == [r \in Phys |-> IF r \in live THEN "reserved" ELSE "disabled"]
           First(ps) ==
                [code |-> blocks, inserted |-> inserted,
                 Coalesced |-> {}, StackSlotForVirtReg |-> {}, LiveVirtRegs |-> <<>>,
                 PhysRegState |-> ps, UsedInInstr |-> {}, CopySrc |-> None, CopyDst |-> None, errors |-> {}]
           e == First(states)
<1>1. function \in Functions /\ mbb = 1 /\ at = 1
    BY DEF Init
<1>2. blocks \in Code /\ CopiesHaveTwo(blocks) /\ Len(blocks) \in Nat /\ DOMAIN blocks = 1 .. Len(blocks)
    <2>1. blocks \in Code
        BY <1>1, FunctionsAssumption
    <2>2. Len(blocks) \in Nat /\ DOMAIN blocks = 1 .. Len(blocks)
        BY <2>1, LenProperties DEF Code
    <2>3. ASSUME NEW b \in 1 .. Len(blocks) PROVE DOMAIN blocks[b] = 1 .. Len(blocks[b])
        <3>1. blocks[b] \in Seq([op : STRING, ops : Seq(Operands(Registered))])
            BY <2>1, ElementOfSeq DEF Code
        <3> QED BY <3>1, LenProperties
    <2> QED BY <1>1, <2>1, <2>2, <2>3, FunctionsAssumption DEF CopiesHaveTwo
<1>3. inserted \in Seq(Seq(Seq(Inserted)))
    <2>1. ASSUME NEW b \in 1 .. Len(blocks) PROVE inserted[b] \in Seq(Seq(Inserted))
        <3>1. blocks[b] \in Seq([op : STRING, ops : Seq(Operands(Registered))])
            BY <1>2, ElementOfSeq DEF Code
        <3>2. Len(blocks[b]) + 1 \in Nat
            BY <3>1, LenProperties
        <3>3. <<>> \in Seq(Inserted)
            BY EmptySeq
        <3>4. [i \in 1 .. Len(blocks[b]) + 1 |-> <<>>] \in [1 .. Len(blocks[b]) + 1 -> Seq(Inserted)]
            BY <3>3
        <3>5. [i \in 1 .. Len(blocks[b]) + 1 |-> <<>>] \in Seq(Seq(Inserted))
            BY <3>2, <3>4, SeqDef
        <3> QED BY <1>2, <3>5
    <2>2. inserted \in [1 .. Len(blocks) -> Seq(Seq(Inserted))]
        BY <1>2, <2>1
    <2> HIDE DEF inserted, blocks
    <2> QED BY <1>2, <2>2, SeqDef
<1>4. <<>> \in LiveRegMaps /\ DOMAIN <<>> = {}
    <2>1. <<>> \in Seq(LiveReg) /\ Len(<<>>) = 0
        BY EmptySeq
    <2>2. <<>> \in [1 .. 0 -> LiveReg] /\ DOMAIN <<>> = 1 .. 0
        BY <2>1, LenProperties
    <2>3. 1 .. 0 = {}
        OBVIOUS
    <2> QED BY <2>2, <2>3, LiveMapIntro
<1>5. states \in [Phys -> PhysRegStates]
    BY DEF PhysRegStates
<1>6. ra = StartBlock(e, live)
    <2>1. ra = StartBlock(First(<<>>), live)
        BY DEF Init
    <2> HIDE DEF inserted, live, blocks
    <2>2. StartBlock(First(<<>>), live) = e /\ StartBlock(e, live) = e
        BY DEF StartBlock
    <2> QED BY <2>1, <2>2
<1> HIDE DEF inserted, states, blocks
<1>7. e \in State /\ e.code = blocks /\ e.LiveVirtRegs = <<>>
    BY <1>2, <1>3, <1>4, <1>5 DEF State
<1> HIDE DEF e
<1>8. ra \in State /\ ra.code = blocks /\ ra.LiveVirtRegs = <<>> /\ InverseBut(ra, {})
    BY <1>4, <1>6, <1>7, StartBlockKeeps
<1> QED BY <1>1, <1>2, <1>4, <1>8 DEF RegAllocInvariant, BlocksStartEmpty, SameLengths, blocks

LEMMA AllocateKeeps ==
    ASSUME RegAllocInvariant, Allocate
    PROVE  RegAllocInvariant' /\ SameShape(ra.code, ra'.code)
<1> DEFINE m == <<mbb, at>>
<1>1. Len(function.blocks) \in Nat /\ (mbb \in 1 .. Len(function.blocks) => Len(function.blocks[mbb]) \in Nat)
    <2>1. function.blocks \in Code
        BY FunctionsAssumption DEF RegAllocInvariant
    <2>2. Len(function.blocks) \in Nat
        BY <2>1, LenProperties DEF Code
    <2>3. mbb \in 1 .. Len(function.blocks) =>
            function.blocks[mbb] \in Seq([op : STRING, ops : Seq(Operands(Registered))])
        BY <2>1, ElementOfSeq DEF Code
    <2> QED BY <2>2, <2>3, LenProperties
<1>2. m \in Places /\ IsInstr(ra.code, m)
    BY <1>1 DEF RegAllocInvariant, Allocate, SameLengths, IsInstr, Places
<1>3. Kept(ra, ra', {})
    <2>1. ra' = AllocateInstruction(ra, m)
        BY DEF Allocate
    <2> HIDE DEF m
    <2> QED BY <1>2, <2>1, AllocateInstructionKeeps DEF RegAllocInvariant
<1>4. ra' \in State /\ SameShape(ra.code, ra'.code) /\ InverseBut(ra', {})
    BY <1>3 DEF Kept
<1>5. SameLengths(function.blocks, ra'.code) /\ CopiesHaveTwo(ra'.code)
    BY <1>4, ShapeOfCopies, ShapeOfLengths DEF RegAllocInvariant
<1>6. function' \in Functions /\ function' = function /\ mbb' = mbb /\ at' \in Nat \ {0} /\ at' # 1
    BY DEF RegAllocInvariant, Allocate
<1> QED BY <1>4, <1>5, <1>6 DEF RegAllocInvariant, BlocksStartEmpty, InverseBut, HeldByLive, LiveIsHeld

LEMMA FinishBlockKeeps ==
    ASSUME RegAllocInvariant, FinishBlock
    PROVE  RegAllocInvariant'
<1> DEFINE place == <<mbb, getFirstTerminator(function.blocks[mbb])>>
           spilled == spillAll(ra, place)
           returned == addRetOperands(spilled, mbb, function.liveouts)
<1>1. mbb \in 1 .. Len(function.blocks)
    <2>1. function.blocks \in Code
        BY FunctionsAssumption DEF RegAllocInvariant
    <2>2. Len(function.blocks) \in Nat
        BY <2>1, LenProperties DEF Code
    <2> QED BY <2>2 DEF RegAllocInvariant, FinishBlock
<1>2. ra' = StartBlock(returned, EntryLiveIns(function, mbb + 1)) /\ mbb' = mbb + 1 /\ at' = 1 /\ function' = function
    BY DEF FinishBlock
<1> HIDE DEF place
<1>3. Kept(ra, spilled, {}) /\ DOMAIN spilled.LiveVirtRegs = {}
    BY SpillAllKeeps DEF RegAllocInvariant
<1> HIDE DEF spilled
<1>4. /\ spilled \in State /\ CopiesHaveTwo(spilled.code) /\ SameLengths(function.blocks, spilled.code)
      /\ mbb \in 1 .. Len(spilled.code)
    <2>1. SameShape(ra.code, spilled.code) /\ spilled \in State
        BY <1>3 DEF Kept
    <2>2. CopiesHaveTwo(spilled.code) /\ SameLengths(function.blocks, spilled.code)
        BY <2>1, ShapeOfCopies, ShapeOfLengths DEF RegAllocInvariant
    <2> QED BY <1>1, <2>1, <2>2 DEF SameLengths
<1>5. function.liveouts \in SUBSET Phys
    BY FunctionsAssumption DEF RegAllocInvariant
<1>6. /\ returned \in State /\ SameLengths(spilled.code, returned.code) /\ CopiesHaveTwo(returned.code)
      /\ RetAdded(spilled, returned, mbb)
    BY <1>4, <1>5, AddRetOperandsKeeps
<1>r. returned.LiveVirtRegs = spilled.LiveVirtRegs
    BY <1>6 DEF RetAdded
<1> HIDE DEF returned
<1>7. /\ ra' \in State /\ ra'.code = returned.code /\ ra'.LiveVirtRegs = returned.LiveVirtRegs
      /\ InverseBut(ra', {})
    <2> DEFINE liveins == EntryLiveIns(function, mbb + 1)
    <2> HIDE DEF liveins
    <2>1. ra' = StartBlock(returned, liveins)
        BY <1>2 DEF liveins
    <2> QED BY <1>3, <1>6, <1>r, <2>1, StartBlockKeeps
<1>8. SameLengths(function.blocks, ra'.code)
    BY <1>4, <1>6, <1>7 DEF SameLengths
<1>9. function' \in Functions /\ mbb' \in Nat \ {0} /\ at' \in Nat \ {0} /\ DOMAIN ra'.LiveVirtRegs = {}
    BY <1>2, <1>3, <1>r, <1>7 DEF RegAllocInvariant
<1> QED BY <1>2, <1>6, <1>7, <1>8, <1>9
        DEF RegAllocInvariant, BlocksStartEmpty, InverseBut, HeldByLive, LiveIsHeld

\* Every reachable state satisfies the invariant.
THEOREM RegAllocInvariantHolds == Spec => []RegAllocInvariant
<1>1. RegAllocInvariant /\ [Next]_vars => RegAllocInvariant'
    <2>1. ASSUME RegAllocInvariant, UNCHANGED vars PROVE RegAllocInvariant'
        BY <2>1 DEF vars, RegAllocInvariant, BlocksStartEmpty, InverseBut, HeldByLive, LiveIsHeld
    <2> QED BY <2>1, AllocateKeeps, FinishBlockKeeps DEF Next
<1> QED BY <1>1, InitInvariant, PTL DEF Spec

(***************************************************************************)
(* Between instructions, no two values share a register and no value is    *)
(* looked for in a register that was given away, whatever the function,    *)
(* the number of registers and their order, and even after an instruction  *)
(* found none left.  The assertions of killVirtReg and spillVirtReg say so.*)
(***************************************************************************)
THEOREM MapsStayInverse == Spec => []MapsInverse
<1>1. RegAllocInvariant => MapsInverse
    BY DEF RegAllocInvariant, InverseBut, HeldByLive, LiveIsHeld, MapsInverse
<1> QED BY <1>1, RegAllocInvariantHolds, PTL

(***************************************************************************)
(* Every block starts with no value in a register, so that what the blocks *)
(* before it left there does not matter: AllocateBasicBlock asserts that   *)
(* the map is empty when it begins.                                        *)
(***************************************************************************)
THEOREM BlocksStartWithoutValues == Spec => []BlocksStartEmpty
<1>1. RegAllocInvariant => BlocksStartEmpty
    BY DEF RegAllocInvariant
<1> QED BY <1>1, RegAllocInvariantHolds, PTL

(***************************************************************************)
(* Allocating an instruction changes the registers and the flags of        *)
(* operands, of this and of earlier instructions, and neither their        *)
(* operations nor their number: what it adds is inserted between them.     *)
(***************************************************************************)
THEOREM AllocationKeepsShape == Spec => [][Allocate => SameShape(ra.code, ra'.code)]_vars
<1>1. RegAllocInvariant /\ [Next]_vars => [Allocate => SameShape(ra.code, ra'.code)]_vars
    BY AllocateKeeps
<1> QED BY <1>1, RegAllocInvariantHolds, PTL DEF Spec
=============================================================================
