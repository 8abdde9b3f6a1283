------------------------ MODULE RegAllocFastValueProofs ------------------------
(***************************************************************************)
(* The code the fast register allocator leaves reads the values that the   *)
(* code before it read, for every function and every set of registers.     *)
(* The values are followed through the members of RAFast, through the      *)
(* scans of one instruction, through the instructions of one block and     *)
(* from block to block.                                                    *)
(***************************************************************************)
EXTENDS RegAllocFastProofs

-----------------------------------------------------------------------------
(***************************************************************************)
(* What is true between two instructions, and makes SameValues true.       *)
(***************************************************************************)
\* Instructions that differ in the flags of their operands at most.
SameOperands(i, j) ==
    /\ j.op = i.op /\ Len(j.ops) = Len(i.ops)
    /\ \A k \in 1 .. Len(i.ops) : j.ops[k].reg = i.ops[k].reg /\ j.ops[k].kind = i.ops[k].kind

DefinedBefore(f, b, i, v) == \E j \in 1 .. i - 1 : v \in Definitions(f.blocks[b][j])

\* The value of v in front of instruction i of block b is read later.
Needed(f, b, i, v) ==
    LET block == f.blocks[b] IN
    \/ \E j \in i .. Len(block) : v \in Uses(block[j]) /\ \A l \in i .. j - 1 : v \notin Definitions(block[l])
    \/ v \in LiveOut(f, b) /\ \A l \in i .. Len(block) : v \notin Definitions(block[l])

\* A needed value is in its register and, if that is clean or none, in its slot.
Agree(s, new, old, N) ==
    \A v \in N :
        /\ v \in DOMAIN s.LiveVirtRegs => new[s.LiveVirtRegs[v].PhysReg] = old[v]
        /\ (v \in DOMAIN s.LiveVirtRegs => ~s.LiveVirtRegs[v].Dirty) => new[<<v>>] = old[v]

Seen(b, i, c, n) == c < b \/ (c = b /\ n < i)

InsertedLengths(s, f) ==
    /\ Len(s.inserted) = Len(f.blocks)
    /\ \A b \in 1 .. Len(f.blocks) : Len(s.inserted[b]) = Len(f.blocks[b]) + 1

Unseen(s, f, b, i) ==
    \A c \in 1 .. Len(f.blocks) :
        /\ \A n \in 1 .. Len(f.blocks[c]) :
                ~Seen(b, i, c, n) => SameOperands(f.blocks[c][n], s.code[c][n]) /\ <<c, n>> \notin s.Coalesced
        /\ \A n \in 1 .. Len(f.blocks[c]) + 1 : ~Seen(b, i, c, n) => s.inserted[c][n] = <<>>

\* A value that a block reads and did not write has a slot.
ExposedHaveSlots(s, f, b, i) ==
    \A c \in 1 .. Len(f.blocks) : \A n \in 1 .. Len(f.blocks[c]) : \A v \in Uses(f.blocks[c][n]) \cap Virt :
        Seen(b, i, c, n) => v \in s.StackSlotForVirtReg \/ DefinedBefore(f, c, n, v)

Grounded(s, f, b, i) ==
    \A v \in DOMAIN s.LiveVirtRegs : v \in s.StackSlotForVirtReg \/ DefinedBefore(f, b, i, v)

\* The instruction j, allocated as i, reads in new what i read in old.
ReadsSame(i, j, new, old) ==
    /\ j.op = i.op /\ Len(j.ops) = Len(i.ops)
    /\ \A k \in 1 .. Len(i.ops) :
            /\ j.ops[k].kind = i.ops[k].kind
            /\ isUse(i.ops[k]) => j.ops[k].reg \in Phys \ Named(j, {"ec"}) /\ new[j.ops[k].reg] = old[i.ops[k].reg]

TailBare(s, f, b) ==
    \A n \in getFirstTerminator(f.blocks[b]) + 1 .. Len(f.blocks[b]) + 1 : s.inserted[b][n] = <<>>

InBlock(s, f, b, i) ==
    LET old == FoundBefore(f, b)
        new == FoundAfter(s, f, b, FALSE)
        block == f.blocks[b]
    IN  /\ \A n \in 1 .. i - 1 : ReadsSame(block[n], s.code[b][n], new[n], old[n])
        /\ Grounded(s, f, b, i)
        /\ TailBare(s, f, b)
        /\ Agree(s, new[i], old[i], {v \in Virt : Needed(f, b, i, v)})
        /\ \A r \in Phys : Pending(f, b, i, r) => s.PhysRegState[r] = "reserved" /\ new[i][r] = old[i][r]
        /\ i > 1 /\ block[i - 1].op = "CALL" =>
                DOMAIN s.LiveVirtRegs = {} /\ new[i][Order[1]] = old[i][Order[1]]

RanOut(s) == "ran out of registers" \in s.errors

\* Between two instructions.
Between(s, f, b, i) ==
    /\ s.errors = {}
    /\ ExposedHaveSlots(s, f, b, i)
    /\ b <= Len(f.blocks) => InBlock(s, f, b, i)

ValuesInvariant ==
    /\ InsertedLengths(ra, function)
    /\ Unseen(ra, function, mbb, at)
    /\ mbb <= Len(function.blocks) => at <= Len(function.blocks[mbb]) + 1
    /\ ~RanOut(ra) => Between(ra, function, mbb, at) /\ SameValues

-----------------------------------------------------------------------------
(***************************************************************************)
(* What code does, step by step.                                           *)
(***************************************************************************)
Env == Phys \cup Virt \cup Slots

\* What an instruction does when the flags are not honoured.
Plain(env, i, n) == Execute(env, i, n, FALSE)

\* Only flags differ: the same is executed.
LEMMA ExecuteSame ==
    ASSUME NEW S, NEW i, NEW j, i.ops \in Seq(S), j.ops \in Seq(S), SameOperands(i, j), NEW env, NEW n
    PROVE  Plain(env, j, n) = Plain(env, i, n)
<1>1. DOMAIN i.ops = 1 .. Len(i.ops) /\ DOMAIN j.ops = 1 .. Len(i.ops) /\ j.op = i.op
    BY LenProperties DEF SameOperands
<1>2. ASSUME NEW kinds PROVE Named(j, kinds) = Named(i, kinds)
    BY <1>1 DEF Named, SameOperands
<1>3. Early(env, j) = Early(env, i) /\ Written(j) = Written(i)
    BY <1>1, <1>2 DEF Early, Written, Definitions
<1>4. Read(env, j) = Read(env, i)
    BY <1>1, <1>3 DEF Read, SameOperands, isUse
<1> QED BY <1>1, <1>3, <1>4 DEF Plain, Execute, Lost

LEMMA ExecuteDomain ==
    ASSUME NEW env, NEW i, NEW n, NEW honour
    PROVE  DOMAIN Execute(env, i, n, honour) = DOMAIN env
BY DEF Execute

\* A run of inserted instructions.
Runs(f, env, instrs, honour) ==
    f[0] = env /\ \A n \in 1 .. Len(instrs) : f[n] = Execute(f[n - 1], instrs[n], 0, honour)

LEMMA ExecutedRun ==
    ASSUME NEW S, NEW instrs \in Seq(S), NEW env, NEW honour
    PROVE  \E f : Runs(f, env, instrs, honour) /\ Executed(env, instrs, honour) = f[Len(instrs)]
<1> DEFINE l == Len(instrs)
           Is(f, m) == f = [n \in 0 .. m |-> IF n = 0 THEN env ELSE Execute(f[n - 1], instrs[n], 0, honour)]
           T == {m \in Nat : \E f : Is(f, m)}
           after == CHOOSE f : Is(f, l)
<1>1. l \in Nat
    BY LenProperties
<1>2. 0 \in T
    <2> DEFINE f == [n \in 0 .. 0 |-> env]
    <2>1. Is(f, 0)
        OBVIOUS
    <2> QED BY <2>1
<1>3. ASSUME NEW m \in Nat, m \in T PROVE m + 1 \in T
    <2>1. PICK f : Is(f, m)
        BY <1>3
    <2> DEFINE last == Execute(f[m], instrs[m + 1], 0, honour)
               g == [n \in 0 .. m + 1 |-> IF n = m + 1 THEN last ELSE f[n]]
               h == [n \in 0 .. m + 1 |-> IF n = 0 THEN env ELSE Execute(g[n - 1], instrs[n], 0, honour)]
    <2>2. \A n \in 0 .. m : g[n] = f[n]
        OBVIOUS
    <2>3. ASSUME NEW n \in 0 .. m + 1 PROVE g[n] = h[n]
        <3>1. CASE n = 0
            BY <2>1, <2>2, <3>1
        <3>2. CASE n = m + 1
            <4>1. n - 1 = m /\ m \in 0 .. m
                BY <3>2
            <4>2. g[n - 1] = f[m]
                BY <2>2, <4>1
            <4> QED BY <3>2, <4>2
        <3>3. CASE n # 0 /\ n # m + 1
            <4>1. n \in 0 .. m /\ n - 1 \in 0 .. m
                BY <3>3
            <4>2. g[n] = f[n] /\ g[n - 1] = f[n - 1]
                BY <2>2, <4>1
            <4>3. f[n] = Execute(f[n - 1], instrs[n], 0, honour)
                BY <2>1, <3>3, <4>1
            <4> HIDE DEF g
            <4> QED BY <3>3, <4>2, <4>3
        <3> QED BY <3>1, <3>2, <3>3
    <2> HIDE DEF last
    <2>4. g = h
        BY <2>3
    <2> HIDE DEF g
    <2>5. Is(g, m + 1)
        BY <2>4
    <2> QED BY SMTT(30), <2>5
<1>4. l \in T
    <2> HIDE DEF T
    <2> QED BY <1>1, <1>2, <1>3, SetInduction
<1>5. Is(after, l)
    BY <1>4
<1>6. Executed(env, instrs, honour) = after[l]
    BY DEF Executed
<1> HIDE DEF after
<1>7. Runs(after, env, instrs, honour)
    BY <1>1, <1>5 DEF Runs
<1> QED BY <1>6, <1>7

\* There is one run only.
LEMMA RunUnique ==
    ASSUME NEW S, NEW instrs \in Seq(S), NEW env, NEW honour, NEW f, NEW g,
           Runs(f, env, instrs, honour), Runs(g, env, instrs, honour)
    PROVE  \A n \in 0 .. Len(instrs) : f[n] = g[n]
<1> DEFINE T == {n \in Nat : n <= Len(instrs) => f[n] = g[n]}
<1>1. 0 \in T
    BY DEF Runs
<1>2. ASSUME NEW n \in Nat, n \in T PROVE n + 1 \in T
    <2>1. SUFFICES ASSUME n + 1 <= Len(instrs) PROVE f[n + 1] = g[n + 1]
        OBVIOUS
    <2>2. Len(instrs) \in Nat
        BY LenProperties
    <2>3. n + 1 \in 1 .. Len(instrs) /\ n + 1 - 1 = n /\ n <= Len(instrs)
        BY <2>1, <2>2
    <2>4. f[n] = g[n]
        BY <1>2, <2>3
    <2> QED BY <2>3, <2>4 DEF Runs
<1>3. Nat \subseteq T
    <2> HIDE DEF T
    <2> QED BY <1>1, <1>2, SetInduction
<1> QED BY <1>3

LEMMA ExecutedAppend ==
    ASSUME NEW S, NEW q \in Seq(S), NEW i \in S, NEW env, NEW honour
    PROVE  Executed(env, Append(q, i), honour) = Execute(Executed(env, q, honour), i, 0, honour)
<1> DEFINE p == Append(q, i)
           l == Len(q)
<1>1. p \in Seq(S) /\ Len(p) = l + 1 /\ l \in Nat /\ p[l + 1] = i /\ \A n \in 1 .. l : p[n] = q[n]
    BY AppendProperties, LenProperties
<1> HIDE DEF p
<1>2. PICK f : Runs(f, env, p, honour) /\ Executed(env, p, honour) = f[l + 1]
    BY <1>1, ExecutedRun
<1>3. PICK g : Runs(g, env, q, honour) /\ Executed(env, q, honour) = g[l]
    BY ExecutedRun
<1>4. Runs(f, env, q, honour)
    <2>1. \A n \in 1 .. l : n \in 1 .. l + 1
        BY <1>1
    <2> QED BY <1>1, <1>2, <2>1 DEF Runs
<1>5. f[l] = g[l]
    BY <1>1, <1>3, <1>4, RunUnique
<1>6. f[l + 1] = Execute(f[l + 1 - 1], p[l + 1], 0, honour)
    <2>1. \A n \in 1 .. Len(p) : f[n] = Execute(f[n - 1], p[n], 0, honour)
        BY <1>2 DEF Runs
    <2>2. PICK k \in 1 .. Len(p) : k = l + 1
        BY <1>1
    <2>3. f[k] = Execute(f[k - 1], p[k], 0, honour)
        BY <2>1
    <2> QED BY <2>2, <2>3
<1>7. l + 1 - 1 = l
    BY <1>1
<1> QED BY <1>1, <1>2, <1>3, <1>5, <1>6, <1>7 DEF p

LEMMA ExecutedEmpty ==
    ASSUME NEW env, NEW honour
    PROVE  Executed(env, <<>>, honour) = env
<1>1. <<>> \in Seq(Nat) /\ Len(<<>>) = 0
    BY EmptySeq
<1>2. PICK f : Runs(f, env, <<>>, honour) /\ Executed(env, <<>>, honour) = f[0]
    BY <1>1, ExecutedRun
<1> QED BY <1>2 DEF Runs

LEMMA ExecutedDomain ==
    ASSUME NEW S, NEW instrs \in Seq(S), NEW env, NEW honour
    PROVE  DOMAIN Executed(env, instrs, honour) = DOMAIN env
<1>1. PICK f : Runs(f, env, instrs, honour) /\ Executed(env, instrs, honour) = f[Len(instrs)]
    BY ExecutedRun
<1> DEFINE T == {n \in Nat : n <= Len(instrs) => DOMAIN f[n] = DOMAIN env}
<1>2. 0 \in T
    BY <1>1 DEF Runs
<1>3. ASSUME NEW n \in Nat, n \in T PROVE n + 1 \in T
    <2>1. SUFFICES ASSUME n + 1 <= Len(instrs) PROVE DOMAIN f[n + 1] = DOMAIN env
        OBVIOUS
    <2>2. Len(instrs) \in Nat
        BY LenProperties
    <2>3. n + 1 \in 1 .. Len(instrs) /\ n + 1 - 1 = n /\ n <= Len(instrs)
        BY <2>1, <2>2
    <2>4. DOMAIN f[n] = DOMAIN env
        BY <1>3, <2>3
    <2> QED BY <1>1, <2>3, <2>4, ExecuteDomain DEF Runs
<1>4. Nat \subseteq T
    <2> HIDE DEF T
    <2> QED BY <1>2, <1>3, SetInduction
<1>5. Len(instrs) \in Nat
    BY LenProperties
<1> QED BY <1>1, <1>4, <1>5

\* What the instructions of a block find, from one to the next.
Finds(g, env, code, inserted, erased, honour) ==
    /\ g[1] = Executed(env, inserted[1], honour)
    /\ \A i \in 1 .. Len(code) :
            g[i + 1] = Executed(IF i \in erased THEN g[i] ELSE Execute(g[i], code[i], i, honour),
                                inserted[i + 1], honour)

LEMMA FoundFinds ==
    ASSUME NEW S, NEW code \in Seq(S), NEW env, NEW inserted, NEW erased, NEW honour
    PROVE  Finds(Found(env, code, inserted, erased, honour), env, code, inserted, erased, honour)
<1> DEFINE l == Len(code) + 1
           next(f, i) == Executed(IF i = 1 THEN env
                                  ELSE IF i - 1 \in erased THEN f[i - 1]
                                  ELSE Execute(f[i - 1], code[i - 1], i - 1, honour),
                                  inserted[i], honour)
           Is(f, m) == f = [i \in 1 .. m |-> next(f, i)]
           T == {m \in Nat : \E f : Is(f, m)}
           found == CHOOSE f : Is(f, l)
<1>1. l \in Nat
    BY LenProperties
<1>2. ASSUME NEW f, NEW g, NEW i, i = 1 \/ f[i - 1] = g[i - 1] PROVE next(f, i) = next(g, i)
    BY <1>2
<1>3. Found(env, code, inserted, erased, honour) = found
    BY DEF Found
<1>4. found = [i \in 1 .. l |-> next(found, i)] =>
            Finds(found, env, code, inserted, erased, honour)
    <2>1. SUFFICES ASSUME \A i \in 1 .. l : found[i] = next(found, i)
                   PROVE  Finds(found, env, code, inserted, erased, honour)
        <3> HIDE DEF next
        <3> QED OBVIOUS
    <2> HIDE DEF found
    <2>2. found[1] = Executed(env, inserted[1], honour)
        <3>1. 1 \in 1 .. l
            BY <1>1
        <3> QED BY <2>1, <3>1
    <2>3. ASSUME NEW i \in 1 .. Len(code)
          PROVE  found[i + 1] = Executed(IF i \in erased THEN found[i] ELSE Execute(found[i], code[i], i, honour),
                                         inserted[i + 1], honour)
        <3>1. PICK k : k = i + 1
            OBVIOUS
        <3>2. k \in 1 .. l /\ k # 1 /\ k - 1 = i
            BY <1>1, <3>1
        <3>3. found[k] = next(found, k)
            BY <2>1, <3>2
        <3> HIDE DEF l
        <3>4. next(found, k) = Executed(IF i \in erased THEN found[i] ELSE Execute(found[i], code[i], i, honour),
                                        inserted[k], honour)
            BY <3>2
        <3> QED BY <3>1, <3>3, <3>4
    <2> QED BY <2>2, <2>3 DEF Finds
<1> HIDE DEF next, l
<1>5. 0 \in T
    <2> DEFINE f == [i \in 1 .. 0 |-> env]
    <2>1. Is(f, 0)
        OBVIOUS
    <2> QED BY <2>1
<1>6. ASSUME NEW m \in Nat, m \in T PROVE m + 1 \in T
    <2>1. PICK f : Is(f, m)
        BY <1>6
    <2> DEFINE last == next(f, m + 1)
               g == [i \in 1 .. m + 1 |-> IF i = m + 1 THEN last ELSE f[i]]
               h == [i \in 1 .. m + 1 |-> next(g, i)]
    <2>2. \A i \in 1 .. m : g[i] = f[i]
        OBVIOUS
    <2> HIDE DEF last
    <2>3. ASSUME NEW i \in 1 .. m + 1 PROVE g[i] = h[i]
        <3>1. i = 1 \/ g[i - 1] = f[i - 1]
            <4>1. i = 1 \/ i - 1 \in 1 .. m
                OBVIOUS
            <4> QED BY <2>2, <4>1
        <3>2. next(g, i) = next(f, i)
            <4> HIDE DEF g
            <4> QED BY <1>2, <3>1
        <3>3. g[i] = next(f, i)
            BY <2>1 DEF last
        <3> QED BY <3>2, <3>3
    <2>4. g = h
        BY <2>3
    <2> HIDE DEF g
    <2>5. Is(g, m + 1)
        BY <2>4
    <2> QED BY <2>5
<1>7. l \in T
    <2> HIDE DEF T
    <2> QED BY <1>1, <1>5, <1>6, SetInduction
<1>8. Is(found, l)
    BY <1>7
<1> QED BY <1>3, <1>4, <1>8

\* The first instructions of two blocks do the same.
DoSame(code, other, ins, ins2, erased, erased2, honour, n) ==
    /\ \A i \in 1 .. n : ins2[i] = ins[i]
    /\ \A i \in 1 .. n - 1 :
            /\ i \in erased2 <=> i \in erased
            /\ \A e : Execute(e, other[i], i, honour) = Execute(e, code[i], i, honour)

SameUpTo(g, h, n) == \A i \in 1 .. n : h[i] = g[i]

\* What is found in front of an instruction depends on what is in front of it only.
LEMMA FindsSame ==
    ASSUME NEW S, NEW code \in Seq(S), NEW R, NEW other \in Seq(R),
           NEW env, NEW ins, NEW ins2, NEW erased, NEW erased2, NEW honour,
           NEW g, Finds(g, env, code, ins, erased, honour),
           NEW h, Finds(h, env, other, ins2, erased2, honour),
           NEW n \in Nat, n <= Len(code) + 1, n <= Len(other) + 1,
           DoSame(code, other, ins, ins2, erased, erased2, honour, n)
    PROVE  SameUpTo(g, h, n)
<1> DEFINE T == {m \in Nat : m + 1 <= n => h[m + 1] = g[m + 1]}
<1>1. Len(code) \in Nat /\ Len(other) \in Nat
    BY LenProperties
<1>2. 0 \in T
    <2>1. SUFFICES ASSUME 1 <= n PROVE h[1] = g[1]
        OBVIOUS
    <2>2. 1 \in 1 .. n
        BY <2>1
    <2> QED BY <2>2 DEF Finds, DoSame
<1>3. ASSUME NEW m \in Nat, m \in T PROVE m + 1 \in T
    <2>1. SUFFICES ASSUME m + 1 + 1 <= n PROVE h[m + 1 + 1] = g[m + 1 + 1]
        OBVIOUS
    <2>2. PICK i \in 1 .. n - 1 : i = m + 1
        BY <2>1
    <2>3. h[i] = g[i]
        BY <1>3, <2>1, <2>2
    <2>4. /\ h[i + 1] = Executed(IF i \in erased2 THEN h[i] ELSE Execute(h[i], other[i], i, honour),
                                 ins2[i + 1], honour)
          /\ g[i + 1] = Executed(IF i \in erased THEN g[i] ELSE Execute(g[i], code[i], i, honour),
                                 ins[i + 1], honour)
        <3>1. i \in 1 .. Len(code) /\ i \in 1 .. Len(other)
            BY <1>1, <2>2
        <3> QED BY <3>1 DEF Finds
    <2>5. ins2[i + 1] = ins[i + 1]
        <3>1. i + 1 \in 1 .. n
            BY <2>2
        <3> QED BY <3>1 DEF DoSame
    <2>6. h[i + 1] = g[i + 1]
        <3>1. i \in erased2 <=> i \in erased
            BY <2>2 DEF DoSame
        <3>2. \A e : Execute(e, other[i], i, honour) = Execute(e, code[i], i, honour)
            BY <2>2 DEF DoSame
        <3> QED BY <2>3, <2>4, <2>5, <3>1, <3>2
    <2> QED BY <2>2, <2>6
<1>4. Nat \subseteq T
    <2> HIDE DEF T
    <2> QED BY <1>2, <1>3, SetInduction
<1>5. ASSUME NEW i \in 1 .. n PROVE h[i] = g[i]
    <2>1. PICK m \in Nat : i = m + 1
        OBVIOUS
    <2>2. m \in T
        BY <1>4
    <2> QED BY <1>1, <2>1, <2>2
<1> QED BY <1>5 DEF SameUpTo

LEMMA FindsDomain ==
    ASSUME NEW S, NEW code \in Seq(S), NEW R, NEW env, NEW ins, NEW erased, NEW honour,
           NEW g, Finds(g, env, code, ins, erased, honour),
           \A i \in 1 .. Len(code) + 1 : ins[i] \in Seq(R)
    PROVE  \A i \in 1 .. Len(code) + 1 : DOMAIN g[i] = DOMAIN env
<1> DEFINE T == {m \in Nat : m <= Len(code) => DOMAIN g[m + 1] = DOMAIN env}
<1>1. Len(code) \in Nat
    BY LenProperties
<1>2. 0 \in T
    <2>1. ins[1] \in Seq(R)
        <3>1. 1 \in 1 .. Len(code) + 1
            BY <1>1
        <3> QED BY <3>1
    <2> QED BY <2>1, ExecutedDomain DEF Finds
<1>3. ASSUME NEW m \in Nat, m \in T PROVE m + 1 \in T
    <2>1. SUFFICES ASSUME m + 1 <= Len(code) PROVE DOMAIN g[m + 1 + 1] = DOMAIN env
        OBVIOUS
    <2>2. PICK i \in 1 .. Len(code) : i = m + 1
        BY <2>1
    <2>3. DOMAIN g[i] = DOMAIN env
        BY <1>3, <2>1, <2>2
    <2> DEFINE e == IF i \in erased THEN g[i] ELSE Execute(g[i], code[i], i, honour)
    <2>4. DOMAIN e = DOMAIN env
        BY <2>3, ExecuteDomain
    <2>5. g[i + 1] = Executed(e, ins[i + 1], honour)
        BY DEF Finds
    <2> HIDE DEF e
    <2>6. i + 1 \in 1 .. Len(code) + 1
        OBVIOUS
    <2>7. DOMAIN g[i + 1] = DOMAIN env
        BY <2>4, <2>5, <2>6, ExecutedDomain
    <2> QED BY <2>2, <2>7
<1>4. Nat \subseteq T
    <2> HIDE DEF T
    <2> QED BY <1>2, <1>3, SetInduction
<1>5. ASSUME NEW i \in 1 .. Len(code) + 1 PROVE DOMAIN g[i] = DOMAIN env
    <2>1. PICK m \in Nat : i = m + 1
        OBVIOUS
    <2>2. m \in T
        BY <1>4
    <2> QED BY <1>1, <2>1, <2>2
<1> QED BY <1>5

-----------------------------------------------------------------------------
(***************************************************************************)
(* The effect of an operand that is rewritten and of an instruction that   *)
(* is inserted.                                                            *)
(***************************************************************************)
Instructions == [op : STRING, ops : Seq(Operands(Registered))]

LEMMA InstrAt ==
    ASSUME NEW c \in Code, NEW b \in 1 .. Len(c), NEW n \in 1 .. Len(c[b])
    PROVE  /\ c[b] \in Seq(Instructions) /\ c[b][n] \in Instructions
           /\ c[b][n].ops \in Seq(Operands(Registered))
           /\ DOMAIN c[b][n].ops = 1 .. Len(c[b][n].ops) /\ Len(c[b][n].ops) \in Nat
           /\ DOMAIN c[b] = 1 .. Len(c[b]) /\ Len(c[b]) \in Nat
<1>1. c \in Seq(Seq(Instructions))
    BY DEF Code, Instructions
<1>2. c[b] \in Seq(Instructions)
    BY <1>1, ElementOfSeq
<1>3. c[b][n] \in Instructions
    BY <1>2, ElementOfSeq
<1>4. c[b][n].ops \in Seq(Operands(Registered))
    BY <1>3 DEF Instructions
<1> QED BY <1>2, <1>3, <1>4, LenProperties

LEMMA CodeDomain ==
    ASSUME NEW c \in Code
    PROVE  DOMAIN c = 1 .. Len(c) /\ Len(c) \in Nat
BY ZenonT(40), LenProperties DEF Code

\* Operand k of the instruction at m becomes x, and nothing else changes.
Rewritten(c, d, m, k, x) ==
    /\ Len(d) = Len(c)
    /\ \A b \in 1 .. Len(c) :
            /\ Len(d[b]) = Len(c[b])
            /\ \A n \in 1 .. Len(c[b]) :
                    IF b = m[1] /\ n = m[2]
                    THEN /\ d[b][n].op = c[b][n].op /\ Len(d[b][n].ops) = Len(c[b][n].ops)
                         /\ \A j \in 1 .. Len(c[b][n].ops) :
                                d[b][n].ops[j] = IF j = k THEN x ELSE c[b][n].ops[j]
                    ELSE d[b][n] = c[b][n]

LEMMA RewriteEffect ==
    ASSUME NEW c \in Code, NEW m, NEW k, NEW x, NEW d, d = [c EXCEPT ![m[1]][m[2]].ops[k] = x]
    PROVE  Rewritten(c, d, m, k, x)
<1> DEFINE b == m[1]
           n == m[2]
           q == Put(c[b][n].ops, k, x)
           i == [c[b][n] EXCEPT !.ops = q]
           p == Put(c[b], n, i)
           AnyOp == {x} \cup Operands(Registered)
<1>1. d = Put(c, b, p)
    BY DEF Code, Put, Instructions
<1>2. c \in Seq(Seq(Instructions)) /\ DOMAIN c = 1 .. Len(c) /\ Len(c) \in Nat
    BY CodeDomain DEF Code, Instructions
<1>3. /\ Len(d) = Len(c)
      /\ \A a \in 1 .. Len(c) : d[a] = IF a = b THEN p ELSE c[a]
    <2> DEFINE T == {p} \cup Seq(Instructions)
    <2>1. c \in Seq(T) /\ p \in T
        <3>1. \A a \in 1 .. Len(c) : c[a] \in Seq(Instructions)
            BY <1>2, ElementOfSeq
        <3>2. c \in [1 .. Len(c) -> T]
            <4> HIDE DEF p
            <4> QED BY <1>2, <3>1
        <3> HIDE DEF T
        <3> QED BY <1>2, <3>2, SeqDef DEF T
    <2> HIDE DEF p, T
    <2> QED BY <1>1, <2>1, SeqPut
<1>4. ASSUME NEW a \in 1 .. Len(c), a = b
      PROVE  Len(p) = Len(c[b]) /\ \A j \in 1 .. Len(c[b]) : p[j] = IF j = n THEN i ELSE c[b][j]
    <2> DEFINE T == {i} \cup Instructions
    <2>1. c[b] \in Seq(Instructions) /\ DOMAIN c[b] = 1 .. Len(c[b]) /\ Len(c[b]) \in Nat
        BY <1>2, <1>4, ElementOfSeq, LenProperties
    <2>2. c[b] \in Seq(T) /\ i \in T
        <3>1. \A j \in 1 .. Len(c[b]) : c[b][j] \in Instructions
            BY <2>1, ElementOfSeq
        <3>2. c[b] \in [1 .. Len(c[b]) -> Instructions]
            BY <2>1, <3>1, LenProperties
        <3>3. c[b] \in [1 .. Len(c[b]) -> T]
            <4> HIDE DEF i
            <4> QED BY <3>2
        <3> HIDE DEF T
        <3> QED BY <2>1, <3>3, SeqDef DEF T
    <2> HIDE DEF i, T
    <2> PICK r : r = c[b]
        OBVIOUS
    <2>3. r \in Seq(T) /\ p = Put(r, n, i)
        BY Zenon, <2>2
    <2> QED BY <2>2, <2>3, SeqPut
<1>5. ASSUME NEW a \in 1 .. Len(c), a = b, n \in 1 .. Len(c[b])
      PROVE  /\ i.op = c[b][n].op /\ i.ops = q /\ Len(q) = Len(c[b][n].ops)
             /\ \A j \in 1 .. Len(c[b][n].ops) : q[j] = IF j = k THEN x ELSE c[b][n].ops[j]
    <2>1. c[b][n] \in Instructions /\ c[b][n].ops \in Seq(Operands(Registered))
        BY <1>5, InstrAt
    <2>2. i.op = c[b][n].op /\ i.ops = q
        BY <2>1 DEF Instructions
    <2> PICK r : r = c[b][n].ops
        OBVIOUS
    <2>3. r \in Seq(AnyOp)
        <3>1. r \in Seq(Operands(Registered)) /\ Operands(Registered) \subseteq AnyOp
            BY <2>1
        <3>2. \A j \in 1 .. Len(r) : r[j] \in AnyOp
            BY <3>1, ElementOfSeq
        <3>3. Len(r) \in Nat /\ r \in [1 .. Len(r) -> Operands(Registered)]
            BY <3>1, LenProperties
        <3>4. r \in [1 .. Len(r) -> AnyOp]
            BY <3>1, <3>3
        <3> HIDE DEF AnyOp
        <3> QED BY <3>3, <3>4, SeqDef
    <2>4. x \in AnyOp
        OBVIOUS
    <2> HIDE DEF AnyOp
    <2>5. /\ Len(Put(r, k, x)) = Len(r)
          /\ \A j \in 1 .. Len(r) : Put(r, k, x)[j] = IF j = k THEN x ELSE r[j]
        BY SMTT(30), <2>3, <2>4, SeqPut
    <2> QED BY <2>2, <2>5
<1> HIDE DEF i, p, q
<1>6. ASSUME NEW a \in 1 .. Len(c)
      PROVE  /\ Len(d[a]) = Len(c[a])
             /\ \A j \in 1 .. Len(c[a]) :
                    IF a = b /\ j = n
                    THEN /\ d[a][j].op = c[a][j].op /\ Len(d[a][j].ops) = Len(c[a][j].ops)
                         /\ \A o \in 1 .. Len(c[a][j].ops) :
                                d[a][j].ops[o] = IF o = k THEN x ELSE c[a][j].ops[o]
                    ELSE d[a][j] = c[a][j]
    <2>1. CASE a = b
        <3>1. /\ d[a] = p /\ Len(p) = Len(c[a])
              /\ \A j \in 1 .. Len(c[a]) : p[j] = IF j = n THEN i ELSE c[a][j]
            BY <1>3, <1>4, <2>1
        <3>2. n \in 1 .. Len(c[a]) =>
                /\ i.op = c[a][n].op /\ i.ops = q /\ Len(q) = Len(c[a][n].ops)
                /\ \A j \in 1 .. Len(c[a][n].ops) : q[j] = IF j = k THEN x ELSE c[a][n].ops[j]
            BY <1>5, <2>1
        <3> QED BY <2>1, <3>1, <3>2
    <2>2. CASE a # b
        BY <1>3, <2>2
    <2> QED BY <2>1, <2>2
<1> QED BY <1>3, <1>6 DEF Rewritten

\* Flags change, and nothing else in the code.
OnlyFlags(c, d) ==
    /\ Len(d) = Len(c)
    /\ \A b \in 1 .. Len(c) : Len(d[b]) = Len(c[b]) /\ \A n \in 1 .. Len(c[b]) : SameOperands(c[b][n], d[b][n])

LEMMA OnlyFlagsReflexive ==
    ASSUME NEW c
    PROVE  OnlyFlags(c, c)
BY DEF OnlyFlags, SameOperands

LEMMA OnlyFlagsTransitive ==
    ASSUME NEW c, NEW d, NEW e, OnlyFlags(c, d), OnlyFlags(d, e)
    PROVE  OnlyFlags(c, e)
<1>1. Len(e) = Len(c)
    BY DEF OnlyFlags
<1>2. ASSUME NEW b \in 1 .. Len(c)
      PROVE  Len(e[b]) = Len(c[b]) /\ \A n \in 1 .. Len(c[b]) : SameOperands(c[b][n], e[b][n])
    <2>1. Len(d[b]) = Len(c[b]) /\ Len(e[b]) = Len(d[b])
        BY DEF OnlyFlags
    <2>2. ASSUME NEW n \in 1 .. Len(c[b]) PROVE SameOperands(c[b][n], e[b][n])
        <3>1. SameOperands(c[b][n], d[b][n]) /\ SameOperands(d[b][n], e[b][n])
            BY <2>1 DEF OnlyFlags
        <3> QED BY <3>1 DEF SameOperands
    <2> QED BY <2>1, <2>2
<1> QED BY <1>1, <1>2 DEF OnlyFlags

\* s with other code.
SetCode(s, c) == [s EXCEPT !.code = c]

LEMMA SetIsKillEffect ==
    ASSUME NEW s \in State, NEW m, NEW k, NEW kill \in BOOLEAN
    PROVE  LET t == setIsKill(s, m, k, kill)
           IN  /\ t = SetCode(s, t.code) /\ OnlyFlags(s.code, t.code)
               /\ IsOperand(s.code, m, k) => Op(t, m, k).kill = kill
<1> DEFINE c == s.code
           x == [c[m[1]][m[2]].ops[k] EXCEPT !.kill = kill]
           d == [c EXCEPT ![m[1]][m[2]].ops[k] = x]
           t == setIsKill(s, m, k, kill)
<1>1. c \in Code /\ t = [s EXCEPT !.code = d]
    BY DEF State, setIsKill
<1>2. t.code = d /\ t = SetCode(s, t.code)
    BY <1>1 DEF State, SetCode
<1>3. IsOperand(c, m, k) =>
        x.reg = c[m[1]][m[2]].ops[k].reg /\ x.kind = c[m[1]][m[2]].ops[k].kind /\ x.kill = kill
    <2>1. SUFFICES ASSUME IsOperand(c, m, k)
                   PROVE  /\ x.reg = c[m[1]][m[2]].ops[k].reg /\ x.kind = c[m[1]][m[2]].ops[k].kind
                          /\ x.kill = kill
        BY ZenonT(40)
    <2>2. c[m[1]][m[2]].ops[k] \in Operands(Registered)
        BY <1>1, <2>1, OperandAt
    <2> QED BY <2>2 DEF Operands
<1> HIDE DEF x, c, t
<1>4. Rewritten(c, d, m, k, x)
    BY <1>1, RewriteEffect
<1> HIDE DEF d
<1>5. OnlyFlags(c, d)
    <2>1. ASSUME NEW b \in 1 .. Len(c), NEW n \in 1 .. Len(c[b]) PROVE SameOperands(c[b][n], d[b][n])
        BY <1>3, <1>4 DEF SameOperands, Rewritten, IsOperand
    <2> QED BY <1>4, <2>1 DEF OnlyFlags, Rewritten
<1>6. IsOperand(c, m, k) => d[m[1]][m[2]].ops[k] = x
    BY <1>4 DEF Rewritten, IsOperand
<1> QED BY <1>1, <1>2, <1>3, <1>5, <1>6 DEF Op, c, t

LEMMA SetRegEffect ==
    ASSUME NEW s \in State, NEW m, NEW k, NEW reg
    PROVE  LET t == setReg(s, m, k, reg)
           IN  /\ t = SetCode(s, t.code)
               /\ Rewritten(s.code, t.code, m, k, [Op(s, m, k) EXCEPT !.reg = reg])
<1> DEFINE c == s.code
           x == [c[m[1]][m[2]].ops[k] EXCEPT !.reg = reg]
           d == [c EXCEPT ![m[1]][m[2]].ops[k] = x]
           t == setReg(s, m, k, reg)
<1>1. c \in Code /\ t = [s EXCEPT !.code = d] /\ x = [Op(s, m, k) EXCEPT !.reg = reg]
    BY ZenonT(40) DEF State, setReg, Op
<1>2. t.code = d /\ t = SetCode(s, t.code)
    BY <1>1 DEF State, SetCode
<1> HIDE DEF x, c, t
<1>3. Rewritten(c, d, m, k, x)
    BY <1>1, RewriteEffect
<1> QED BY <1>1, <1>2, <1>3 DEF c, t

LEMMA SetCodeFields ==
    ASSUME NEW s \in State, NEW c
    PROVE  LET t == SetCode(s, c)
           IN  /\ t.code = c /\ t.inserted = s.inserted /\ t.Coalesced = s.Coalesced
               /\ t.StackSlotForVirtReg = s.StackSlotForVirtReg /\ t.LiveVirtRegs = s.LiveVirtRegs
               /\ t.PhysRegState = s.PhysRegState /\ t.UsedInInstr = s.UsedInInstr
               /\ t.CopySrc = s.CopySrc /\ t.CopyDst = s.CopyDst /\ t.errors = s.errors
BY DEF State, SetCode

LEMMA AddKillFlagEffect ==
    ASSUME NEW s \in State, NEW lr
    PROVE  LET t == addKillFlag(s, lr)
           IN  t = SetCode(s, t.code) /\ OnlyFlags(s.code, t.code)
<1>1. s = SetCode(s, s.code) /\ OnlyFlags(s.code, s.code)
    BY OnlyFlagsReflexive DEF State, SetCode
<1> QED BY ZenonT(40), <1>1, SetIsKillEffect DEF addKillFlag

-----------------------------------------------------------------------------
(***************************************************************************)
(* What the members of RAFast do to the values in registers and slots.     *)
(* e is what is there in front of the instruction at m, before anything    *)
(* is inserted.                                                            *)
(***************************************************************************)
IsPlace(s, m) == m[1] \in 1 .. Len(s.inserted) /\ m[2] \in 1 .. Len(s.inserted[m[1]])

\* What the instruction at m finds.
Here(e, s, m) == Executed(e, s.inserted[m[1]][m[2]], FALSE)

Elsewhere(s, t, m) ==
    /\ Len(t.inserted) = Len(s.inserted)
    /\ \A b \in 1 .. Len(s.inserted) :
            /\ Len(t.inserted[b]) = Len(s.inserted[b])
            /\ \A n \in 1 .. Len(s.inserted[b]) :
                    b # m[1] \/ n # m[2] => t.inserted[b][n] = s.inserted[b][n]

SameCopies(s, t) == t.Coalesced = s.Coalesced /\ t.CopySrc = s.CopySrc /\ t.CopyDst = s.CopyDst

\* What all members leave alone.
Quiet(m, s, t) ==
    /\ OnlyFlags(s.code, t.code)
    /\ Elsewhere(s, t, m)
    /\ SameCopies(s, t)
    /\ s.StackSlotForVirtReg \subseteq t.StackSlotForVirtReg
    /\ s.errors \subseteq t.errors

LEMMA ElsewhereReflexive ==
    ASSUME NEW s, NEW t, NEW m, t.inserted = s.inserted
    PROVE  Elsewhere(s, t, m)
BY DEF Elsewhere

LEMMA ElsewhereTransitive ==
    ASSUME NEW s, NEW t, NEW u, NEW m, Elsewhere(s, t, m), Elsewhere(t, u, m)
    PROVE  Elsewhere(s, u, m)
BY DEF Elsewhere

LEMMA QuietTransitive ==
    ASSUME NEW s, NEW t, NEW u, NEW m, Quiet(m, s, t), Quiet(m, t, u)
    PROVE  Quiet(m, s, u)
BY OnlyFlagsTransitive, ElsewhereTransitive DEF Quiet, SameCopies

LEMMA QuietReflexive ==
    ASSUME NEW s, NEW m
    PROVE  Quiet(m, s, s)
BY OnlyFlagsReflexive, ElsewhereReflexive DEF Quiet, SameCopies

LEMMA QuietPlace ==
    ASSUME NEW s, NEW t, NEW m, Quiet(m, s, t), IsPlace(s, m)
    PROVE  IsPlace(t, m)
BY DEF Quiet, Elsewhere, IsPlace

LEMMA HereDomain ==
    ASSUME NEW s \in State, NEW m, IsPlace(s, m), NEW e
    PROVE  DOMAIN Here(e, s, m) = DOMAIN e
<1>1. s.inserted \in Seq(Seq(Seq(Inserted)))
    BY DEF State
<1>2. s.inserted[m[1]] \in Seq(Seq(Inserted))
    BY <1>1, ElementOfSeq DEF IsPlace
<1>3. s.inserted[m[1]][m[2]] \in Seq(Inserted)
    BY <1>2, ElementOfSeq DEF IsPlace
<1> QED BY <1>3, ExecutedDomain DEF Here

IsCopy(i, to, from) ==
    /\ i.op = "COPY" /\ DOMAIN i.ops = {1, 2}
    /\ i.ops[1].reg = to /\ i.ops[1].kind = "def"
    /\ i.ops[2].reg = from /\ i.ops[2].kind = "use"

\* A copy that is inserted.
LEMMA CopyEffect ==
    ASSUME NEW to, NEW from, NEW env, NEW n, from \in DOMAIN env, NEW i, IsCopy(i, to, from)
    PROVE  Plain(env, i, n) = [x \in DOMAIN env |-> IF x = to THEN env[from] ELSE env[x]]
<1>1. /\ i.op = "COPY" /\ DOMAIN i.ops = {1, 2}
      /\ i.ops[1].reg = to /\ i.ops[1].kind = "def"
      /\ i.ops[2].reg = from /\ i.ops[2].kind = "use"
    BY DEF IsCopy
<1>2. Named(i, {"ec"}) = {} /\ Definitions(i) = {to}
    BY <1>1 DEF Named, Definitions
<1>3. Early(env, i) = [x \in DOMAIN env |-> env[x]]
    BY <1>2 DEF Early
<1>4. Written(i) = {to} /\ Lost(i, FALSE) = {}
    BY <1>1, <1>2 DEF Written, Lost
<1>5. Read(env, i)[2] = env[from]
    <2>1. isUse(i.ops[2])
        BY <1>1 DEF isUse
    <2> QED BY <1>1, <1>3, <2>1 DEF Read
<1>6. \A x \in DOMAIN env : Early(env, i)[x] = env[x]
    BY <1>3
<1>7. Plain(env, i, n) = [x \in DOMAIN env |-> IF x \in {to} THEN env[from] ELSE Early(env, i)[x]]
    BY <1>1, <1>4, <1>5 DEF Plain, Execute
<1> QED BY <1>6, <1>7

LEMMA InsertEffect ==
    ASSUME NEW s \in State, NEW m, IsPlace(s, m), NEW i \in Inserted, NEW v \in Virt, NEW e,
           NEW t, t = Insert(getStackSpaceFor(s, v), m, i)
    PROVE  /\ Elsewhere(s, t, m)
           /\ Here(e, t, m) = Plain(Here(e, s, m), i, 0)
           /\ t.StackSlotForVirtReg = s.StackSlotForVirtReg \cup {v}
           /\ t.code = s.code /\ t.LiveVirtRegs = s.LiveVirtRegs /\ t.PhysRegState = s.PhysRegState
           /\ t.UsedInInstr = s.UsedInInstr /\ SameCopies(s, t) /\ t.errors = s.errors
<1> DEFINE ins == s.inserted
           b == m[1]
           n == m[2]
           Line == Seq(Inserted)
           q == Append(ins[b][n], i)
           p == Put(ins[b], n, q)
           x == Put(ins, b, p)
<1>1. /\ ins \in Seq(Seq(Line)) /\ ins[b] \in Seq(Line) /\ ins[b][n] \in Line
    <2>1. ins \in Seq(Seq(Line))
        BY DEF State
    <2>2. ins[b] \in Seq(Line)
        BY <2>1, ElementOfSeq DEF IsPlace
    <2> QED BY <2>1, <2>2, ElementOfSeq DEF IsPlace
<1>2. t = [s EXCEPT !.inserted = x, !.StackSlotForVirtReg = @ \cup {v}]
    BY DEF Insert, getStackSpaceFor, Put, State
<1>3. /\ t.StackSlotForVirtReg = s.StackSlotForVirtReg \cup {v} /\ t.inserted = x
      /\ t.code = s.code /\ t.LiveVirtRegs = s.LiveVirtRegs /\ t.PhysRegState = s.PhysRegState
      /\ t.UsedInInstr = s.UsedInInstr /\ SameCopies(s, t) /\ t.errors = s.errors
    <2> HIDE DEF x
    <2> QED BY <1>2 DEF State, SameCopies
<1>4. q \in Line
    BY <1>1, AppendProperties
<1>5. /\ p \in Seq(Line) /\ Len(p) = Len(ins[b])
      /\ \A j \in 1 .. Len(ins[b]) : p[j] = IF j = n THEN q ELSE ins[b][j]
    <2> HIDE DEF q, Line
    <2> PICK r : r = ins[b]
        OBVIOUS
    <2> QED BY <1>1, <1>4, SeqPut
<1>6. /\ Len(x) = Len(ins)
      /\ \A j \in 1 .. Len(ins) : x[j] = IF j = b THEN p ELSE ins[j]
    <2> DEFINE Lines == Seq(Line)
    <2>1. ins \in Seq(Lines) /\ p \in Lines
        BY <1>1, <1>5
    <2> HIDE DEF p, Lines
    <2> QED BY <2>1, SeqPut
<1> HIDE DEF x, p
<1>7. Elsewhere(s, t, m)
    <2>1. ASSUME NEW a \in 1 .. Len(ins)
          PROVE  /\ Len(x[a]) = Len(ins[a])
                 /\ \A j \in 1 .. Len(ins[a]) : a # b \/ j # n => x[a][j] = ins[a][j]
        BY <1>5, <1>6
    <2> QED BY <1>3, <1>6, <2>1 DEF Elsewhere
<1>8. t.inserted[b][n] = q
    BY <1>3, <1>5, <1>6 DEF IsPlace
<1>9. Executed(e, q, FALSE) = Plain(Executed(e, ins[b][n], FALSE), i, 0)
    <2> PICK r \in Seq(Inserted) : r = ins[b][n]
        BY <1>1
    <2> PICK h : h = FALSE
        OBVIOUS
    <2>1. Executed(e, Append(r, i), h) = Execute(Executed(e, r, h), i, 0, h)
        BY ExecutedAppend
    <2> QED BY <2>1 DEF Plain
<1>10. Here(e, t, m) = Plain(Here(e, s, m), i, 0)
    <2> HIDE DEF q
    <2> QED BY <1>8, <1>9 DEF Here
<1> QED BY <1>3, <1>7, <1>10

\* Removing a value from its register inserts nothing.
LEMMA KillEffect ==
    ASSUME NEW s \in State, NEW v \in DOMAIN s.LiveVirtRegs, NEW m
    PROVE  LET t == killVirtReg(s, v)
           IN  /\ Removed(s, t, v) /\ Quiet(m, s, t) /\ t.inserted = s.inserted
               /\ t.StackSlotForVirtReg = s.StackSlotForVirtReg
               /\ t.UsedInInstr = s.UsedInInstr /\ t.errors = s.errors
<1> DEFINE lr == s.LiveVirtRegs[v]
           a == addKillFlag(s, lr)
           states == [s.PhysRegState EXCEPT ![lr.PhysReg] = "free"]
           rest == [w \in DOMAIN s.LiveVirtRegs \ {v} |-> s.LiveVirtRegs[w]]
           t == [a EXCEPT !.PhysRegState = states, !.LiveVirtRegs = rest]
<1>1. a = SetCode(s, a.code) /\ OnlyFlags(s.code, a.code)
    BY AddKillFlagEffect
<1>2. a \in State
    BY AddKillFlagIsOnlyCode, OnlyCodeKeeps
<1> HIDE DEF a
<1>3. /\ a.inserted = s.inserted /\ a.Coalesced = s.Coalesced
      /\ a.StackSlotForVirtReg = s.StackSlotForVirtReg /\ a.LiveVirtRegs = s.LiveVirtRegs
      /\ a.PhysRegState = s.PhysRegState /\ a.UsedInInstr = s.UsedInInstr
      /\ a.CopySrc = s.CopySrc /\ a.CopyDst = s.CopyDst /\ a.errors = s.errors
    BY <1>1, SetCodeFields
<1>4. killVirtReg(s, v) = t
    BY <1>2, <1>3 DEF killVirtReg, State, a
<1> HIDE DEF states, rest
<1>5. /\ t.inserted = s.inserted /\ SameCopies(s, t) /\ t.code = a.code
      /\ t.StackSlotForVirtReg = s.StackSlotForVirtReg
      /\ t.UsedInInstr = s.UsedInInstr /\ t.errors = s.errors
    BY <1>2, <1>3 DEF State, SameCopies
<1> HIDE DEF t
<1> QED BY <1>1, <1>4, <1>5, KillRemoves, ElsewhereReflexive DEF Quiet

\* A value that is spilled leaves its register, to its slot if it was dirty.
AfterSpill(new, old, s, v) ==
    \A x \in Env : new[x] = IF x = <<v>> /\ s.LiveVirtRegs[v].Dirty
                            THEN old[s.LiveVirtRegs[v].PhysReg] ELSE old[x]

Spilled(e, m, s, t, v) ==
    /\ Removed(s, t, v) /\ Quiet(m, s, t)
    /\ t.UsedInInstr = s.UsedInInstr /\ t.errors = s.errors
    /\ AfterSpill(Here(e, t, m), Here(e, s, m), s, v)

LEMMA SpillEffect ==
    ASSUME NEW s \in State, NEW m, IsPlace(s, m), NEW v \in DOMAIN s.LiveVirtRegs,
           s.LiveVirtRegs[v].PhysReg \in Phys, NEW e, DOMAIN e = Env
    PROVE  Spilled(e, m, s, spillVirtReg(s, m, v), v)
<1> DEFINE lr == s.LiveVirtRegs[v]
           kill == lr.LastUse # m
           i == Instr("COPY", <<Operand(<<v>>, "def", FALSE), Operand(lr.PhysReg, "use", kill)>>)
           stored == Insert(getStackSpaceFor(s, v), m, i)
           new == [lr EXCEPT !.Dirty = FALSE, !.LastUse = IF kill THEN None ELSE @]
           u == [stored EXCEPT !.LiveVirtRegs[v] = new]
           t == spillVirtReg(s, m, v)
<1>1. v \in Virt /\ lr \in LiveReg
    BY LiveMapElim DEF State
<1>2. i \in Inserted
    <2>1. /\ <<v>> \in Registered \cup Slots /\ lr.PhysReg \in Registered \cup Slots
          /\ kill \in BOOLEAN /\ FALSE \in BOOLEAN /\ "def" \in Kinds /\ "use" \in Kinds
        BY <1>1 DEF Slots, Registered, Kinds
    <2> HIDE DEF kill, lr
    <2>2. /\ Operand(<<v>>, "def", FALSE) \in Operands(Registered \cup Slots)
          /\ Operand(lr.PhysReg, "use", kill) \in Operands(Registered \cup Slots)
        BY <2>1 DEF Operand, Operands
    <2>3. \A x, y \in Operands(Registered \cup Slots) : <<x, y>> \in Seq(Operands(Registered \cup Slots))
        OBVIOUS
    <2>4. <<Operand(<<v>>, "def", FALSE), Operand(lr.PhysReg, "use", kill)>>
            \in Seq(Operands(Registered \cup Slots))
        BY <2>2, <2>3
    <2> QED BY <2>4 DEF Instr, Inserted
<1>3. Removed(s, t, v)
    BY SpillRemoves
<1>4. CASE ~lr.Dirty
    <2>1. t = killVirtReg(s, v)
        BY <1>4 DEF spillVirtReg
    <2>2. /\ Quiet(m, s, t) /\ t.inserted = s.inserted
          /\ t.UsedInInstr = s.UsedInInstr /\ t.errors = s.errors
        BY <2>1, KillEffect
    <2> HIDE DEF t
    <2>3. Here(e, t, m) = Here(e, s, m)
        BY <2>2 DEF Here
    <2> QED BY <1>3, <1>4, <2>2, <2>3 DEF Spilled, AfterSpill, t
<1>5. CASE lr.Dirty
    <2>1. /\ Elsewhere(s, stored, m)
          /\ Here(e, stored, m) = Plain(Here(e, s, m), i, 0)
          /\ stored.StackSlotForVirtReg = s.StackSlotForVirtReg \cup {v}
          /\ stored.code = s.code /\ stored.LiveVirtRegs = s.LiveVirtRegs
          /\ stored.UsedInInstr = s.UsedInInstr /\ SameCopies(s, stored) /\ stored.errors = s.errors
        <3>1. stored = Insert(getStackSpaceFor(s, v), m, i)
            OBVIOUS
        <3> HIDE DEF i, stored
        <3> QED BY <1>1, <1>2, <3>1, InsertEffect
    <2>2. stored \in State
        <3> HIDE DEF i
        <3> QED BY <1>1, <1>2, InsertIsOnlyInserted, OnlyInsertedKeeps
    <2>3. new \in LiveReg
        BY <1>1 DEF LiveReg
    <2>4. t = killVirtReg(u, v)
        <3>1. lr = stored.LiveVirtRegs[v]
            BY <2>1
        <3>2. t = killVirtReg([stored EXCEPT !.LiveVirtRegs[v].Dirty = FALSE,
                                             !.LiveVirtRegs[v].LastUse = IF kill THEN None ELSE @], v)
            BY <1>5 DEF spillVirtReg, storeRegToStackSlot
        <3> HIDE DEF stored, kill, lr, t
        <3>3. [stored EXCEPT !.LiveVirtRegs[v].Dirty = FALSE,
                             !.LiveVirtRegs[v].LastUse = IF kill THEN None ELSE @] = u
            BY <1>1, <2>1, <2>2, <3>1 DEF State, LiveReg
        <3> QED BY <3>2, <3>3
    <2> HIDE DEF t, stored, new
    <2>5. /\ u \in State /\ u.code = s.code /\ u.inserted = stored.inserted
          /\ u.StackSlotForVirtReg = stored.StackSlotForVirtReg /\ u.UsedInInstr = s.UsedInInstr
          /\ SameCopies(s, u) /\ u.errors = s.errors /\ v \in DOMAIN u.LiveVirtRegs
        <3>1. u \in State /\ DOMAIN u.LiveVirtRegs = DOMAIN stored.LiveVirtRegs
            BY <2>1, <2>2, <2>3, SetLive
        <3> QED BY <2>1, <2>2, <3>1 DEF State, SameCopies
    <2> HIDE DEF u
    <2>6. /\ Quiet(m, u, t) /\ t.inserted = u.inserted
          /\ t.StackSlotForVirtReg = u.StackSlotForVirtReg
          /\ t.UsedInInstr = u.UsedInInstr /\ t.errors = u.errors
        BY <2>4, <2>5, KillEffect
    <2>7. Quiet(m, s, u)
        BY <2>1, <2>5, OnlyFlagsReflexive DEF Quiet, Elsewhere
    <2>8. Quiet(m, s, t)
        BY <2>6, <2>7, QuietTransitive
    <2>9. AfterSpill(Here(e, t, m), Here(e, s, m), s, v)
        <3>1. DOMAIN Here(e, s, m) = Env
            BY HereDomain
        <3>2. lr.PhysReg \in Env
            BY DEF Env
        <3>3. Plain(Here(e, s, m), i, 0) =
                [x \in Env |-> IF x = <<v>> THEN Here(e, s, m)[lr.PhysReg] ELSE Here(e, s, m)[x]]
            <4> HIDE DEF kill
            <4>1. IsCopy(i, <<v>>, lr.PhysReg)
                BY DEF Instr, Operand, IsCopy
            <4> PICK env, to, from : env = Here(e, s, m) /\ to = <<v>> /\ from = lr.PhysReg
                OBVIOUS
            <4> HIDE DEF i, lr
            <4>2. IsCopy(i, to, from) /\ from \in DOMAIN env
                BY <3>1, <3>2, <4>1
            <4>3. Plain(env, i, 0) = [x \in DOMAIN env |-> IF x = to THEN env[from] ELSE env[x]]
                BY <4>2, CopyEffect
            <4> QED BY <3>1, <4>3
        <3>4. Here(e, t, m) = Plain(Here(e, s, m), i, 0)
            BY <2>1, <2>5, <2>6 DEF Here
        <3> HIDE DEF i
        <3> QED BY <1>5, <3>3, <3>4 DEF AfterSpill
    <2> QED BY <1>3, <2>5, <2>6, <2>8, <2>9 DEF Spilled, t
<1> QED BY <1>4, <1>5

LEMMA SlotsApart ==
    ASSUME NEW v \in Virt
    PROVE  <<v>> \in Env /\ <<v>> \notin Phys /\ <<v>> \notin Virt
BY RegAllocAssumption DEF Env, Slots, Registered

\* The value in the register r, if there is one, leaves it.
Evicts(e, m, s, t, r) ==
    /\ DOMAIN t.LiveVirtRegs = DOMAIN s.LiveVirtRegs \ {s.PhysRegState[r]}
    /\ \A w \in DOMAIN t.LiveVirtRegs : t.LiveVirtRegs[w] = s.LiveVirtRegs[w]
    /\ \A x \in Phys \ {r} : t.PhysRegState[x] = s.PhysRegState[x]
    /\ \A x \in Env : Here(e, t, m)[x] =
            IF /\ x = <<s.PhysRegState[r]>> /\ s.PhysRegState[r] \in DOMAIN s.LiveVirtRegs
               /\ s.LiveVirtRegs[s.PhysRegState[r]].Dirty
            THEN Here(e, s, m)[r] ELSE Here(e, s, m)[x]

LEMMA EvictsNone ==
    ASSUME NEW s \in State, NEW r \in Phys, s.PhysRegState[r] \notin Virt, NEW e, NEW m
    PROVE  Evicts(e, m, s, s, r)
<1>1. DOMAIN s.LiveVirtRegs \in SUBSET Virt
    BY LiveMapElim DEF State
<1> QED BY <1>1 DEF Evicts

LEMMA DefinePhysRegEffect ==
    ASSUME NEW s \in State, NEW W, InverseBut(s, W), NEW m, IsPlace(s, m), NEW r \in Phys,
           NEW state \in PhysRegStates, NEW e, DOMAIN e = Env,
           NEW t, t = definePhysReg(s, m, r, state)
    PROVE  /\ Quiet(m, s, t) /\ Evicts(e, m, s, t, r) /\ t.PhysRegState[r] = state
           /\ t.UsedInInstr = s.UsedInInstr \cup {r} /\ t.errors = s.errors
<1> DEFINE v == s.PhysRegState[r]
           u == IF v \in Virt THEN spillVirtReg(s, m, v) ELSE s
<1>1. /\ u \in State /\ Quiet(m, s, u) /\ Evicts(e, m, s, u, r)
      /\ u.UsedInInstr = s.UsedInInstr /\ u.errors = s.errors
    <2>1. CASE v \in Virt
        <3>1. v \in DOMAIN s.LiveVirtRegs /\ s.LiveVirtRegs[v].PhysReg = r
            BY <2>1 DEF InverseBut, HeldByLive
        <3>2. Spilled(e, m, s, u, v)
            BY <2>1, <3>1, SpillEffect
        <3>3. s.PhysRegState \in [Phys -> Virt \cup PhysRegStates]
            BY DEF State
        <3>4. /\ Removed(s, u, v) /\ Quiet(m, s, u)
              /\ u.UsedInInstr = s.UsedInInstr /\ u.errors = s.errors
              /\ AfterSpill(Here(e, u, m), Here(e, s, m), s, v)
            BY <3>2 DEF Spilled
        <3> HIDE DEF u
        <3>5. /\ u \in State
              /\ DOMAIN u.LiveVirtRegs = DOMAIN s.LiveVirtRegs \ {v}
              /\ \A w \in DOMAIN u.LiveVirtRegs : u.LiveVirtRegs[w] = s.LiveVirtRegs[w]
              /\ \A x \in Phys \ {r} : u.PhysRegState[x] = s.PhysRegState[x]
            BY <3>1, <3>3, <3>4 DEF Removed
        <3>6. \A x \in Env : Here(e, u, m)[x] =
                IF x = <<v>> /\ s.LiveVirtRegs[v].Dirty THEN Here(e, s, m)[r] ELSE Here(e, s, m)[x]
            BY <3>1, <3>4 DEF AfterSpill
        <3>7. Evicts(e, m, s, u, r)
            BY <3>1, <3>5, <3>6 DEF Evicts
        <3> QED BY <3>4, <3>5, <3>7
    <2>2. CASE v \notin Virt
        BY <2>2, QuietReflexive, EvictsNone
    <2> QED BY <2>1, <2>2
<1>2. t = SetState(u, r, state, u.UsedInInstr \cup {r})
    BY <1>1 DEF definePhysReg, SetState, State
<1> HIDE DEF u
<1>3. /\ t.code = u.code /\ t.inserted = u.inserted /\ SameCopies(u, t)
      /\ t.StackSlotForVirtReg = u.StackSlotForVirtReg /\ t.LiveVirtRegs = u.LiveVirtRegs
      /\ t.UsedInInstr = u.UsedInInstr \cup {r} /\ t.errors = u.errors
      /\ t.PhysRegState = [u.PhysRegState EXCEPT ![r] = state]
    BY <1>1, <1>2 DEF SetState, State, SameCopies
<1>4. t.PhysRegState[r] = state /\ \A x \in Phys \ {r} : t.PhysRegState[x] = u.PhysRegState[x]
    <2>1. u.PhysRegState \in [Phys -> Virt \cup PhysRegStates]
        BY <1>1 DEF State
    <2> QED BY <1>3, <2>1
<1>5. Quiet(m, u, t)
    BY <1>3, OnlyFlagsReflexive, ElsewhereReflexive DEF Quiet
<1>6. Quiet(m, s, t)
    BY <1>1, <1>5, QuietTransitive
<1>7. Here(e, t, m) = Here(e, u, m)
    BY <1>3 DEF Here
<1>8. Evicts(e, m, s, t, r)
    BY <1>1, <1>3, <1>4, <1>7 DEF Evicts
<1> QED BY <1>1, <1>3, <1>4, <1>6, <1>8

\* Needed values survive when one of them leaves its register.
LEMMA EvictAgrees ==
    ASSUME NEW s \in State, NEW W, InverseBut(s, W), NEW t, NEW r \in Phys, NEW e, NEW m,
           Evicts(e, m, s, t, r), NEW old, NEW N \in SUBSET (Virt \ W), Agree(s, Here(e, s, m), old, N)
    PROVE  Agree(t, Here(e, t, m), old, N)
<1> DEFINE v == s.PhysRegState[r]
<1> SUFFICES ASSUME NEW w \in N
             PROVE  /\ w \in DOMAIN t.LiveVirtRegs =>
                            Here(e, t, m)[t.LiveVirtRegs[w].PhysReg] = old[w]
                    /\ (w \in DOMAIN t.LiveVirtRegs => ~t.LiveVirtRegs[w].Dirty) => Here(e, t, m)[<<w>>] = old[w]
    BY DEF Agree
<1>1. w \in Virt /\ w \notin W /\ <<w>> \in Env
    BY SlotsApart
<1>2. /\ w \in DOMAIN s.LiveVirtRegs => Here(e, s, m)[s.LiveVirtRegs[w].PhysReg] = old[w]
      /\ (w \in DOMAIN s.LiveVirtRegs => ~s.LiveVirtRegs[w].Dirty) => Here(e, s, m)[<<w>>] = old[w]
    BY DEF Agree
<1>3. CASE w \in DOMAIN t.LiveVirtRegs
    <2>1. w \in DOMAIN s.LiveVirtRegs /\ w # v /\ t.LiveVirtRegs[w] = s.LiveVirtRegs[w]
        BY <1>3 DEF Evicts
    <2>2. s.LiveVirtRegs[w].PhysReg \in Phys
        BY <1>1, <2>1 DEF InverseBut, LiveIsHeld
    <2>3. \A x \in Env : x # <<v>> => Here(e, t, m)[x] = Here(e, s, m)[x]
        BY DEF Evicts
    <2>4. s.LiveVirtRegs[w].PhysReg \in Env
        BY <2>2 DEF Env
    <2>5. CASE v \in Virt
        <3>1. <<v>> \notin Phys /\ <<v>> # <<w>>
            BY <2>1, <2>5, SlotsApart
        <3>2. Here(e, t, m)[s.LiveVirtRegs[w].PhysReg] = Here(e, s, m)[s.LiveVirtRegs[w].PhysReg]
            BY <2>2, <2>3, <2>4, <3>1
        <3>3. Here(e, t, m)[<<w>>] = Here(e, s, m)[<<w>>]
            BY <1>1, <2>3, <3>1
        <3> QED BY <1>2, <1>3, <2>1, <3>2, <3>3
    <2>6. CASE v \notin Virt
        <3>1. DOMAIN s.LiveVirtRegs \in SUBSET Virt
            BY LiveMapElim DEF State
        <3>2. \A x \in Env : Here(e, t, m)[x] = Here(e, s, m)[x]
            BY <2>6, <3>1 DEF Evicts
        <3> QED BY <1>1, <1>2, <1>3, <2>1, <2>4, <3>2
    <2> QED BY <2>5, <2>6
<1>4. CASE w \notin DOMAIN t.LiveVirtRegs
    <2>1. CASE w \notin DOMAIN s.LiveVirtRegs
        <3>1. Here(e, t, m)[<<w>>] = Here(e, s, m)[<<w>>]
            BY <1>1, <2>1 DEF Evicts
        <3> QED BY <1>2, <1>4, <2>1, <3>1
    <2>2. CASE w \in DOMAIN s.LiveVirtRegs
        <3>1. w = v
            BY <1>4, <2>2 DEF Evicts
        <3>2. s.LiveVirtRegs[w].PhysReg = r
            BY <1>1, <3>1 DEF InverseBut, HeldByLive
        <3>3. Here(e, t, m)[<<w>>] =
                IF s.LiveVirtRegs[w].Dirty THEN Here(e, s, m)[r] ELSE Here(e, s, m)[<<w>>]
            BY <1>1, <2>2, <3>1 DEF Evicts
        <3> QED BY <1>2, <1>4, <2>2, <3>2, <3>3
    <2> QED BY <2>1, <2>2
<1> QED BY <1>3, <1>4

\* allocVirtReg takes one of the registers, whatever the hint.
LEMMA AllocChoice ==
    ASSUME NEW s, NEW m, NEW v, NEW Hint
    PROVE  \E r \in Phys : LET cost == calcSpillCost(s, r)
                           IN  allocVirtReg(s, m, v, Hint) =
                                takeReg(IF cost = 0 THEN s ELSE definePhysReg(s, m, r, "free"), v, r, cost)
<1> DEFINE D == DOMAIN Order
           Free == {n \in D : s.PhysRegState[Order[n]] = "free" /\ Order[n] \notin s.UsedInInstr}
           Cost(n) == calcSpillCost(s, Order[n])
           Cheapest == {n \in D : \A o \in D : Cost(n) <= Cost(o)}
           S == IF Free # {} THEN Free ELSE Cheapest
           r == IF Hint \in Phys /\ calcSpillCost(s, Hint) < spillDirty THEN Hint ELSE Order[Min(S)]
           cost == calcSpillCost(s, r)
<1>1. allocVirtReg(s, m, v, Hint) =
            takeReg(IF cost = 0 THEN s ELSE definePhysReg(s, m, r, "free"), v, r, cost)
    BY DEF allocVirtReg
<1>2. D # {} /\ D \subseteq Nat /\ \A n \in D : Order[n] \in Phys
    <2>1. Order \in Seq(Phys) /\ Order # <<>>
        BY RegAllocAssumption
    <2>2. D = 1 .. Len(Order) /\ Len(Order) \in Nat /\ Len(Order) # 0
        BY <2>1, LenProperties, EmptySeq
    <2> QED BY <2>1, <2>2, ElementOfSeq
<1>3. Cheapest # {}
    <2> DEFINE Costs == {Cost(n) : n \in D}
    <2>1. Costs \in SUBSET Nat /\ Costs # {}
        BY <1>2, SpillCost
    <2>2. PICK x \in Costs : \A y \in Costs : x <= y
        <3> HIDE DEF Costs
        <3> QED BY <2>1, LeastNatural
    <2>3. PICK n \in D : x = Cost(n)
        OBVIOUS
    <2>4. \A o \in D : Cost(o) \in Costs
        OBVIOUS
    <2>5. n \in Cheapest
        BY <2>2, <2>3, <2>4
    <2> QED BY <2>5
<1>4. S \subseteq D /\ S # {}
    BY <1>3
<1> HIDE DEF S
<1>5. Min(S) \in D
    <2>1. PICK x \in S : \A y \in S : x =< y
        <3>1. S \in SUBSET Nat
            BY <1>2, <1>4
        <3> QED BY <1>4, <3>1, LeastNatural
    <2>2. Min(S) \in S
        BY <2>1 DEF Min
    <2> QED BY <1>4, <2>2
<1>6. r \in Phys
    BY <1>2, <1>5
<1> HIDE DEF r
<1> QED BY <1>1, <1>6

\* u is s without the value that was in r, and t differs from u in the register of v.
AfterEvicting(e, m, s, t, v, r, u) ==
    /\ Evicts(e, m, s, u, r) /\ Here(e, t, m) = Here(e, u, m)
    /\ \A w \in DOMAIN t.LiveVirtRegs \ {v} : t.LiveVirtRegs[w] = u.LiveVirtRegs[w]
    /\ DOMAIN t.LiveVirtRegs = DOMAIN u.LiveVirtRegs

\* The value v, which waits for a register, gets r, which another value may have to leave.
Assigned(e, m, s, t, v, r) ==
    /\ Quiet(m, s, t) /\ s.UsedInInstr \subseteq t.UsedInInstr
    /\ t.errors \subseteq s.errors \cup {"ran out of registers"}
    /\ ~RanOut(t) => r \notin s.UsedInInstr /\ s.PhysRegState[r] # "reserved"
    /\ DOMAIN t.LiveVirtRegs = DOMAIN s.LiveVirtRegs \ {s.PhysRegState[r]}
    /\ v \in DOMAIN t.LiveVirtRegs
    /\ t.LiveVirtRegs[v] = [s.LiveVirtRegs[v] EXCEPT !.PhysReg = r]
    /\ \A w \in DOMAIN t.LiveVirtRegs \ {v} : t.LiveVirtRegs[w] = s.LiveVirtRegs[w]
    /\ \A x \in Phys \ {r} : t.PhysRegState[x] = s.PhysRegState[x]
    /\ \E u : AfterEvicting(e, m, s, t, v, r, u)

LEMMA AllocEffect ==
    ASSUME NEW s \in State, NEW v \in DOMAIN s.LiveVirtRegs, InverseBut(s, {v}), NEW m, IsPlace(s, m),
           NEW Hint, NEW e, DOMAIN e = Env, NEW t, t = allocVirtReg(s, m, v, Hint)
    PROVE  \E r \in Phys : Assigned(e, m, s, t, v, r)
<1>1. PICK r \in Phys : LET cost == calcSpillCost(s, r)
                        IN  t = takeReg(IF cost = 0 THEN s ELSE definePhysReg(s, m, r, "free"), v, r, cost)
    BY AllocChoice
<1> DEFINE cost == calcSpillCost(s, r)
           u == IF cost = 0 THEN s ELSE definePhysReg(s, m, r, "free")
           errors == IF cost = spillImpossible THEN u.errors \cup {"ran out of registers"} ELSE u.errors
           w == [u EXCEPT !.errors = errors]
<1>2. /\ Quiet(m, s, u) /\ Evicts(e, m, s, u, r) /\ u \in State
      /\ s.UsedInInstr \subseteq u.UsedInInstr /\ u.errors = s.errors
    <2>1. CASE cost = 0
        <3>1. s.PhysRegState[r] \notin Virt
            BY <2>1, SpillCost
        <3> QED BY <2>1, <3>1, QuietReflexive, EvictsNone
    <2>2. CASE cost # 0
        <3>1. u = definePhysReg(s, m, r, "free") /\ "free" \in PhysRegStates
            BY <2>2 DEF PhysRegStates
        <3> HIDE DEF u, cost
        <3>2. /\ Quiet(m, s, u) /\ Evicts(e, m, s, u, r)
              /\ u.UsedInInstr = s.UsedInInstr \cup {r} /\ u.errors = s.errors
            BY <3>1, DefinePhysRegEffect
        <3>3. Kept(s, u, {v})
            BY <3>1, DefinePhysRegKeeps
        <3> QED BY <3>2, <3>3 DEF Kept
    <2> QED BY <2>1, <2>2
<1>3. v \in DOMAIN u.LiveVirtRegs
    <2>1. s.PhysRegState[r] # v
        <3>1. v \in Virt
            BY LiveMapElim DEF State
        <3>2. s.LiveVirtRegs[v].PhysReg = None /\ None \notin Phys
            BY RegAllocAssumption DEF InverseBut, LiveIsHeld, Registered
        <3> QED BY <3>1, <3>2 DEF InverseBut, HeldByLive
    <2> QED BY <1>2, <2>1 DEF Evicts
<1>4. t = assignVirtToPhysReg(w, v, r)
    <2>1. t = takeReg(u, v, r, cost)
        BY <1>1
    <2> HIDE DEF u, cost
    <2>2. takeReg(u, v, r, cost) = assignVirtToPhysReg(w, v, r)
        BY DEF takeReg
    <2> QED BY <2>1, <2>2
<1>5. ~("ran out of registers" \in errors) => r \notin s.UsedInInstr /\ s.PhysRegState[r] # "reserved"
    <2>1. r \in s.UsedInInstr \/ s.PhysRegState[r] = "reserved" => cost = spillImpossible
        BY DEF calcSpillCost
    <2>2. cost = spillImpossible => "ran out of registers" \in errors
        <3> HIDE DEF u, cost
        <3> QED OBVIOUS
    <2> QED BY <2>1, <2>2
<1>6. errors \subseteq s.errors \cup {"ran out of registers"} /\ s.errors \subseteq errors
    <2> HIDE DEF u, cost
    <2> QED BY <1>2
<1> HIDE DEF u, errors
<1>7. /\ w.LiveVirtRegs = u.LiveVirtRegs /\ w.PhysRegState = u.PhysRegState /\ w.errors = errors
      /\ w.code = u.code /\ w.inserted = u.inserted /\ SameCopies(u, w) /\ w.UsedInInstr = u.UsedInInstr
      /\ w.StackSlotForVirtReg = u.StackSlotForVirtReg
      /\ w = [u EXCEPT !.errors = w.errors]
    BY <1>2 DEF State, SameCopies
<1> DEFINE live == [u.LiveVirtRegs EXCEPT ![v].PhysReg = r]
           states == [u.PhysRegState EXCEPT ![r] = v]
<1>8. t = [w EXCEPT !.PhysRegState = states, !.LiveVirtRegs = live]
    BY <1>4, <1>7 DEF assignVirtToPhysReg
<1> HIDE DEF w
<1>9. /\ live[v] = [u.LiveVirtRegs[v] EXCEPT !.PhysReg = r] /\ DOMAIN live = DOMAIN u.LiveVirtRegs
      /\ \A x \in DOMAIN live \ {v} : live[x] = u.LiveVirtRegs[x]
    BY <1>3
<1>10. \A x \in Phys \ {r} : states[x] = u.PhysRegState[x]
    <2>1. u.PhysRegState \in [Phys -> Virt \cup PhysRegStates]
        BY <1>2 DEF State
    <2> QED BY <2>1
<1> HIDE DEF live, states
<1>11. /\ t.code = u.code /\ t.inserted = u.inserted /\ SameCopies(u, t) /\ t.UsedInInstr = u.UsedInInstr
       /\ t.StackSlotForVirtReg = u.StackSlotForVirtReg /\ t.errors = errors
       /\ t.LiveVirtRegs = live /\ t.PhysRegState = states
    BY <1>2, <1>7, <1>8 DEF State, SameCopies
<1>12. Quiet(m, u, t)
    BY <1>2, <1>6, <1>11, OnlyFlagsReflexive, ElsewhereReflexive DEF Quiet
<1>13. Quiet(m, s, t)
    BY <1>2, <1>12, QuietTransitive
<1>14. Here(e, t, m) = Here(e, u, m)
    BY <1>11 DEF Here
<1>15. /\ DOMAIN t.LiveVirtRegs = DOMAIN s.LiveVirtRegs \ {s.PhysRegState[r]} /\ v \in DOMAIN t.LiveVirtRegs
       /\ t.LiveVirtRegs[v] = [s.LiveVirtRegs[v] EXCEPT !.PhysReg = r]
       /\ \A x \in DOMAIN t.LiveVirtRegs \ {v} : t.LiveVirtRegs[x] = s.LiveVirtRegs[x]
       /\ \A x \in Phys \ {r} : t.PhysRegState[x] = s.PhysRegState[x]
    BY <1>2, <1>3, <1>9, <1>10, <1>11 DEF Evicts
<1>16. Assigned(e, m, s, t, v, r)
    <2>1. \A x \in DOMAIN t.LiveVirtRegs \ {v} : t.LiveVirtRegs[x] = u.LiveVirtRegs[x]
        BY <1>9, <1>11
    <2>2. DOMAIN t.LiveVirtRegs = DOMAIN u.LiveVirtRegs
        BY <1>9, <1>11
    <2>3. AfterEvicting(e, m, s, t, v, r, u)
        BY <1>2, <1>14, <2>1, <2>2 DEF AfterEvicting
    <2> QED BY <1>2, <1>5, <1>6, <1>11, <1>13, <1>15, <2>3 DEF Assigned, RanOut
<1> QED BY <1>16

\* Needed values but v's survive.
Preserves(e, m, s, t, v) ==
    \A O : \A N \in SUBSET (Virt \ {v}) : Agree(s, Here(e, s, m), O, N) => Agree(t, Here(e, t, m), O, N)

\* The value v, which had no register, has one; nothing is known of its contents.
Taken(e, m, s, t, v, r) ==
    /\ Quiet(m, s, t) /\ s.UsedInInstr \subseteq t.UsedInInstr
    /\ t.errors \subseteq s.errors \cup {"ran out of registers"}
    /\ ~RanOut(t) => r \notin s.UsedInInstr /\ s.PhysRegState[r] # "reserved"
    /\ DOMAIN t.LiveVirtRegs = (DOMAIN s.LiveVirtRegs \ {s.PhysRegState[r]}) \cup {v}
    /\ t.LiveVirtRegs[v].PhysReg = r /\ ~t.LiveVirtRegs[v].Dirty
    /\ \A w \in DOMAIN t.LiveVirtRegs \ {v} : t.LiveVirtRegs[w] = s.LiveVirtRegs[w]
    /\ \A x \in Phys \ {r} : t.PhysRegState[x] = s.PhysRegState[x]
    /\ \A x \in Phys \cup {<<v>>} : Here(e, t, m)[x] = Here(e, s, m)[x]
    /\ Preserves(e, m, s, t, v)

LEMMA NewLiveRegEffect ==
    ASSUME NEW s \in State, NEW v \in Virt, v \notin DOMAIN s.LiveVirtRegs, NEW m,
           NEW n, n = NewLiveReg(s, v)
    PROVE  /\ Quiet(m, s, n) /\ n.inserted = s.inserted /\ n.PhysRegState = s.PhysRegState
           /\ n.UsedInInstr = s.UsedInInstr /\ n.errors = s.errors
           /\ DOMAIN n.LiveVirtRegs = DOMAIN s.LiveVirtRegs \cup {v} /\ ~n.LiveVirtRegs[v].Dirty
           /\ \A w \in DOMAIN s.LiveVirtRegs : n.LiveVirtRegs[w] = s.LiveVirtRegs[w]
<1> DEFINE live == s.LiveVirtRegs
           lr == [PhysReg |-> None, LastUse |-> None, LastOpNum |-> 0, Dirty |-> FALSE]
           new == [w \in DOMAIN live \cup {v} |-> IF w = v THEN lr ELSE live[w]]
<1>1. n = [s EXCEPT !.LiveVirtRegs = new]
    BY DEF NewLiveReg, State
<1>2. /\ DOMAIN new = DOMAIN live \cup {v} /\ new[v] = lr /\ ~lr.Dirty
      /\ \A w \in DOMAIN live : new[w] = live[w]
    OBVIOUS
<1> HIDE DEF new, lr
<1>3. /\ n.code = s.code /\ n.inserted = s.inserted /\ SameCopies(s, n) /\ n.PhysRegState = s.PhysRegState
      /\ n.StackSlotForVirtReg = s.StackSlotForVirtReg /\ n.UsedInInstr = s.UsedInInstr
      /\ n.errors = s.errors /\ n.LiveVirtRegs = new
    BY <1>1 DEF State, SameCopies
<1>4. Quiet(m, s, n)
    BY <1>3, OnlyFlagsReflexive, ElsewhereReflexive DEF Quiet
<1> QED BY <1>2, <1>3, <1>4

LEMMA AllocNewEffect ==
    ASSUME NEW s \in State, InverseBut(s, {}), NEW v \in Virt, v \notin DOMAIN s.LiveVirtRegs,
           NEW m, IsPlace(s, m), NEW Hint, NEW e, DOMAIN e = Env,
           NEW t, t = allocVirtReg(NewLiveReg(s, v), m, v, Hint)
    PROVE  \E r \in Phys : Taken(e, m, s, t, v, r)
<1>1. PICK n : n = NewLiveReg(s, v)
    OBVIOUS
<1>2. /\ Quiet(m, s, n) /\ n.inserted = s.inserted /\ n.PhysRegState = s.PhysRegState
      /\ n.UsedInInstr = s.UsedInInstr /\ n.errors = s.errors
      /\ DOMAIN n.LiveVirtRegs = DOMAIN s.LiveVirtRegs \cup {v} /\ ~n.LiveVirtRegs[v].Dirty
      /\ \A w \in DOMAIN s.LiveVirtRegs : n.LiveVirtRegs[w] = s.LiveVirtRegs[w]
    BY <1>1, NewLiveRegEffect
<1>3. n \in State /\ InverseBut(n, {v})
    BY <1>1, NewLiveRegKeeps DEF Kept
<1>4. IsPlace(n, m) /\ Here(e, n, m) = Here(e, s, m)
    BY <1>2 DEF IsPlace, Here
<1>5. PICK r \in Phys : Assigned(e, m, n, t, v, r)
    BY <1>1, <1>2, <1>3, <1>4, AllocEffect
<1>6. PICK u : AfterEvicting(e, m, n, t, v, r, u)
    BY <1>5 DEF Assigned
<1>7. n.LiveVirtRegs[v] \in LiveReg
    BY <1>2, <1>3, LiveMapElim DEF State
<1>8. t.LiveVirtRegs[v].PhysReg = r /\ ~t.LiveVirtRegs[v].Dirty
    BY <1>2, <1>5, <1>7 DEF Assigned, LiveReg
<1>9. s.PhysRegState[r] # v
    BY <1>1, <1>2 DEF InverseBut, HeldByLive
<1>10. DOMAIN t.LiveVirtRegs = (DOMAIN s.LiveVirtRegs \ {s.PhysRegState[r]}) \cup {v}
    BY <1>2, <1>5, <1>9 DEF Assigned
<1>11. \A w \in DOMAIN t.LiveVirtRegs \ {v} : t.LiveVirtRegs[w] = s.LiveVirtRegs[w]
    BY <1>2, <1>5, <1>10 DEF Assigned
<1>12. \A x \in Phys \cup {<<v>>} : Here(e, t, m)[x] = Here(e, s, m)[x]
    <2>1. ASSUME NEW x \in Phys \cup {<<v>>} PROVE Here(e, u, m)[x] = Here(e, n, m)[x]
        <3>1. x \in Env
            BY SlotsApart DEF Env
        <3>2. n.PhysRegState[r] \in DOMAIN n.LiveVirtRegs => x # <<n.PhysRegState[r]>>
            <4>1. SUFFICES ASSUME n.PhysRegState[r] \in DOMAIN n.LiveVirtRegs, x = <<n.PhysRegState[r]>>
                           PROVE  FALSE
                OBVIOUS
            <4>2. n.PhysRegState[r] \in Virt
                BY <1>3, <4>1, LiveMapElim DEF State
            <4>3. x \notin Phys
                BY <4>1, <4>2, SlotsApart
            <4> QED BY <1>2, <1>9, <4>1, <4>3
        <3>3. Here(e, u, m)[x] =
                IF /\ x = <<n.PhysRegState[r]>> /\ n.PhysRegState[r] \in DOMAIN n.LiveVirtRegs
                   /\ n.LiveVirtRegs[n.PhysRegState[r]].Dirty
                THEN Here(e, n, m)[r] ELSE Here(e, n, m)[x]
            BY <1>6, <3>1 DEF Evicts, AfterEvicting
        <3> QED BY <3>2, <3>3
    <2>2. Here(e, n, m) = Here(e, s, m) /\ Here(e, t, m) = Here(e, u, m)
        BY <1>4, <1>6 DEF AfterEvicting
    <2> QED BY <2>1, <2>2
<1>13. Preserves(e, m, s, t, v)
    <2>1. SUFFICES ASSUME NEW O, NEW N \in SUBSET (Virt \ {v}), Agree(s, Here(e, s, m), O, N)
                   PROVE  Agree(t, Here(e, t, m), O, N)
        BY DEF Preserves
    <2>2. Agree(n, Here(e, n, m), O, N)
        BY <1>2, <1>4, <2>1 DEF Agree
    <2>3. Agree(u, Here(e, u, m), O, N)
        BY <1>3, <1>6, <2>2, EvictAgrees DEF AfterEvicting
    <2> QED BY <1>6, <2>3 DEF Agree, AfterEvicting
<1>14. Quiet(m, s, t)
    BY <1>2, <1>5, QuietTransitive DEF Assigned
<1>15. Taken(e, m, s, t, v, r)
    BY ZenonT(40), <1>2, <1>5, <1>8, <1>10, <1>11, <1>12, <1>13, <1>14 DEF Taken, Assigned
<1> QED BY <1>15

LEMMA TouchedEffect ==
    ASSUME NEW s \in State, InverseBut(s, {}), NEW v \in DOMAIN s.LiveVirtRegs,
           NEW m, NEW k, NEW dirty, NEW t, t = Touched(s, m, k, v, dirty)
    PROVE  /\ t.code = s.code /\ t.inserted = s.inserted /\ SameCopies(s, t)
           /\ t.StackSlotForVirtReg = s.StackSlotForVirtReg /\ t.errors = s.errors
           /\ t.PhysRegState = s.PhysRegState
           /\ t.UsedInInstr = s.UsedInInstr \cup {s.LiveVirtRegs[v].PhysReg}
           /\ DOMAIN t.LiveVirtRegs = DOMAIN s.LiveVirtRegs
           /\ t.LiveVirtRegs[v].PhysReg = s.LiveVirtRegs[v].PhysReg /\ t.LiveVirtRegs[v].Dirty = dirty
           /\ \A w \in DOMAIN s.LiveVirtRegs \ {v} : t.LiveVirtRegs[w] = s.LiveVirtRegs[w]
<1> DEFINE lr == s.LiveVirtRegs[v]
           new == [lr EXCEPT !.LastUse = m, !.LastOpNum = k, !.Dirty = dirty]
           live == [s.LiveVirtRegs EXCEPT ![v] = new]
           used == s.UsedInInstr \cup {lr.PhysReg}
<1>1. lr \in LiveReg
    BY LiveMapElim DEF State
<1>2. new.PhysReg = lr.PhysReg /\ new.Dirty = dirty
    BY <1>1 DEF LiveReg
<1>3. t = [s EXCEPT !.LiveVirtRegs = live, !.UsedInInstr = used]
    BY ZenonT(40), <1>1 DEF Touched, State, LiveReg
<1> HIDE DEF new
<1>4. /\ DOMAIN live = DOMAIN s.LiveVirtRegs /\ live[v] = new
      /\ \A w \in DOMAIN s.LiveVirtRegs \ {v} : live[w] = s.LiveVirtRegs[w]
    OBVIOUS
<1> HIDE DEF live, used
<1>5. /\ t.code = s.code /\ t.inserted = s.inserted /\ SameCopies(s, t)
      /\ t.StackSlotForVirtReg = s.StackSlotForVirtReg /\ t.errors = s.errors
      /\ t.PhysRegState = s.PhysRegState /\ t.UsedInInstr = used /\ t.LiveVirtRegs = live
    BY <1>3 DEF State, SameCopies
<1> QED BY <1>2, <1>4, <1>5 DEF used

\* The value v has the register r; the registers that were in use keep what they hold.
Gives(e, m, s, t, v, r) ==
    /\ Quiet(m, s, t) /\ s.UsedInInstr \subseteq t.UsedInInstr
    /\ t.errors \subseteq s.errors \cup {"ran out of registers"}
    /\ v \in DOMAIN t.LiveVirtRegs /\ t.LiveVirtRegs[v].PhysReg = r
    /\ DOMAIN t.LiveVirtRegs \subseteq DOMAIN s.LiveVirtRegs \cup {v}
    /\ DOMAIN s.LiveVirtRegs \ {s.PhysRegState[r]} \subseteq DOMAIN t.LiveVirtRegs
    /\ \A w \in DOMAIN t.LiveVirtRegs \ {v} : t.LiveVirtRegs[w] = s.LiveVirtRegs[w]
    /\ \A x \in Phys \ {r} : t.PhysRegState[x] = s.PhysRegState[x] /\ Here(e, t, m)[x] = Here(e, s, m)[x]
    /\ v \in DOMAIN s.LiveVirtRegs => s.LiveVirtRegs[v].PhysReg = r /\ Here(e, t, m)[r] = Here(e, s, m)[r]
    /\ v \notin DOMAIN s.LiveVirtRegs /\ ~RanOut(t) => r \notin s.UsedInInstr /\ s.PhysRegState[r] # "reserved"

LEMMA TakenGives ==
    ASSUME NEW e, NEW m, NEW s, NEW t, NEW v, v \notin DOMAIN s.LiveVirtRegs, NEW r, Taken(e, m, s, t, v, r)
    PROVE  Gives(e, m, s, t, v, r)
BY DEF Taken, Gives

LEMMA FlagsGive ==
    ASSUME NEW e, NEW m, NEW s \in State, NEW v \in DOMAIN s.LiveVirtRegs, NEW r, r = s.LiveVirtRegs[v].PhysReg,
           NEW t, t = SetCode(s, t.code), OnlyFlags(s.code, t.code)
    PROVE  Gives(e, m, s, t, v, r) /\ t.LiveVirtRegs = s.LiveVirtRegs /\ Here(e, t, m) = Here(e, s, m)
<1>1. /\ t.inserted = s.inserted /\ SameCopies(s, t)
      /\ t.StackSlotForVirtReg = s.StackSlotForVirtReg /\ t.LiveVirtRegs = s.LiveVirtRegs
      /\ t.PhysRegState = s.PhysRegState /\ t.UsedInInstr = s.UsedInInstr /\ t.errors = s.errors
    BY SetCodeFields DEF SameCopies
<1>2. Quiet(m, s, t)
    BY <1>1, ElsewhereReflexive DEF Quiet
<1>3. Here(e, t, m) = Here(e, s, m)
    BY <1>1 DEF Here
<1> QED BY <1>1, <1>2, <1>3 DEF Gives

\* Only the description of v changes, and its register is in use.
JustTouched(e, m, a, t, v, r, dirty) ==
    /\ r \in t.UsedInInstr /\ t.LiveVirtRegs[v].Dirty = dirty
    /\ Here(e, t, m) = Here(e, a, m) /\ t.code = a.code
    /\ t.StackSlotForVirtReg = a.StackSlotForVirtReg /\ DOMAIN t.LiveVirtRegs = DOMAIN a.LiveVirtRegs
    /\ \A w \in DOMAIN a.LiveVirtRegs \ {v} : t.LiveVirtRegs[w] = a.LiveVirtRegs[w]

LEMMA TouchedGives ==
    ASSUME NEW e, NEW m, NEW s, NEW a \in State, InverseBut(a, {}), NEW v, NEW r, Gives(e, m, s, a, v, r),
           NEW k, NEW dirty, NEW t, t = Touched(a, m, k, v, dirty)
    PROVE  Gives(e, m, s, t, v, r) /\ JustTouched(e, m, a, t, v, r, dirty)
<1>1. v \in DOMAIN a.LiveVirtRegs /\ a.LiveVirtRegs[v].PhysReg = r
    BY DEF Gives
<1>2. /\ t.code = a.code /\ t.inserted = a.inserted /\ SameCopies(a, t)
      /\ t.StackSlotForVirtReg = a.StackSlotForVirtReg /\ t.errors = a.errors
      /\ t.PhysRegState = a.PhysRegState
      /\ t.UsedInInstr = a.UsedInInstr \cup {r}
      /\ DOMAIN t.LiveVirtRegs = DOMAIN a.LiveVirtRegs
      /\ t.LiveVirtRegs[v].PhysReg = r /\ t.LiveVirtRegs[v].Dirty = dirty
      /\ \A w \in DOMAIN a.LiveVirtRegs \ {v} : t.LiveVirtRegs[w] = a.LiveVirtRegs[w]
    BY <1>1, TouchedEffect
<1>3. Here(e, t, m) = Here(e, a, m)
    BY <1>2 DEF Here
<1>4. Quiet(m, a, t)
    BY <1>2, OnlyFlagsReflexive, ElsewhereReflexive DEF Quiet
<1>5. Quiet(m, s, t)
    BY <1>4, QuietTransitive DEF Gives
<1>6. Gives(e, m, s, t, v, r)
    BY ZenonT(40), <1>2, <1>3, <1>5 DEF Gives, RanOut
<1> QED BY <1>2, <1>3, <1>6 DEF JustTouched

\* What defineVirtReg does to the values.
Defined(e, m, s, t, v, r) ==
    /\ Gives(e, m, s, t, v, r) /\ r \in t.UsedInInstr /\ t.LiveVirtRegs[v].Dirty /\ Preserves(e, m, s, t, v)
    /\ \A x \in Phys : Here(e, t, m)[x] = Here(e, s, m)[x]

LEMMA DefineVirtRegGives ==
    ASSUME NEW s \in State, InverseBut(s, {}), NEW v \in Virt, NEW m \in Places, IsPlace(s, m), NEW k \in Nat,
           NEW Hint, NEW e, DOMAIN e = Env, NEW t, t = defineVirtReg(s, m, k, v, Hint)
    PROVE  \E r \in Phys : Defined(e, m, s, t, v, r)
<1> DEFINE lr == s.LiveVirtRegs[v]
           found ==
               IF v \notin DOMAIN s.LiveVirtRegs
               THEN allocVirtReg(NewLiveReg(s, v), m, v, CopyHint(s, v, Hint))
               ELSE IF lr.LastUse # None /\ (lr.LastUse # m \/ isUse(Op(s, m, lr.LastOpNum)))
               THEN addKillFlag(s, lr)
               ELSE s
           Ready(a, r) == /\ Gives(e, m, s, a, v, r) /\ Preserves(e, m, s, a, v)
                          /\ \A x \in Phys : Here(e, a, m)[x] = Here(e, s, m)[x]
<1>1. PICK a : a = found
    OBVIOUS
<1>2. PICK yes : yes = TRUE
    OBVIOUS
<1>3. t = Touched(a, m, k, v, yes)
    BY <1>1, <1>2 DEF defineVirtReg
<1>4. a \in State /\ InverseBut(a, {})
    <2>1. CASE v \notin DOMAIN s.LiveVirtRegs
        BY <1>1, <2>1, AllocNew DEF HasRegister, Kept
    <2>2. CASE v \in DOMAIN s.LiveVirtRegs
        <3>1. OnlyCode(s, a)
            BY <1>1, <2>2, AddKillFlagIsOnlyCode, OnlyCodeReflexive
        <3> HIDE DEF found
        <3> QED BY <2>2, <3>1, OnlyCodeKept DEF Kept
    <2> QED BY <2>1, <2>2
<1>5. \E r \in Phys : Ready(a, r)
    <2>1. CASE v \notin DOMAIN s.LiveVirtRegs
        <3>1. PICK r \in Phys : Taken(e, m, s, a, v, r)
            BY <1>1, <2>1, AllocNewEffect
        <3>2. Gives(e, m, s, a, v, r)
            BY <2>1, <3>1, TakenGives
        <3>3. Preserves(e, m, s, a, v) /\ \A x \in Phys : Here(e, a, m)[x] = Here(e, s, m)[x]
            BY <3>1 DEF Taken
        <3> QED BY <3>2, <3>3
    <2>2. CASE v \in DOMAIN s.LiveVirtRegs
        <3>1. a = SetCode(s, a.code) /\ OnlyFlags(s.code, a.code)
            <4>1. s = SetCode(s, s.code)
                BY DEF State, SetCode
            <4> QED BY <1>1, <2>2, <4>1, AddKillFlagEffect, OnlyFlagsReflexive
        <3> HIDE DEF found
        <3>2. PICK r \in Phys : r = s.LiveVirtRegs[v].PhysReg
            BY <2>2 DEF InverseBut, LiveIsHeld
        <3>3. /\ Gives(e, m, s, a, v, r) /\ a.LiveVirtRegs = s.LiveVirtRegs
              /\ Here(e, a, m) = Here(e, s, m)
            BY <2>2, <3>1, <3>2, FlagsGive
        <3>4. Preserves(e, m, s, a, v)
            BY <3>3 DEF Preserves, Agree
        <3> QED BY <3>3, <3>4
    <2> QED BY <2>1, <2>2
<1>6. PICK r \in Phys : Ready(a, r)
    BY <1>5
<1> HIDE DEF found
<1>7. Gives(e, m, s, t, v, r) /\ JustTouched(e, m, a, t, v, r, yes)
    BY <1>3, <1>4, <1>6, TouchedGives
<1>8. Preserves(e, m, s, t, v)
    <2>1. SUFFICES ASSUME NEW O, NEW N \in SUBSET (Virt \ {v}), Agree(s, Here(e, s, m), O, N)
                   PROVE  Agree(t, Here(e, t, m), O, N)
        BY DEF Preserves
    <2>2. Agree(a, Here(e, a, m), O, N)
        BY <1>6, <2>1 DEF Preserves
    <2> QED BY <1>7, <2>2 DEF Agree, JustTouched
<1>9. Defined(e, m, s, t, v, r)
    BY <1>2, <1>6, <1>7, <1>8 DEF Defined, JustTouched
<1> QED BY <1>9

\* A load changes the register only.
LEMMA ReloadedEffect ==
    ASSUME NEW s \in State, InverseBut(s, {}), NEW v \in DOMAIN s.LiveVirtRegs, NEW m, IsPlace(s, m),
           NEW e, DOMAIN e = Env, NEW r, r = s.LiveVirtRegs[v].PhysReg, NEW t, t = Reloaded(s, m, v)
    PROVE  /\ Quiet(m, s, t) /\ t.code = s.code /\ t.LiveVirtRegs = s.LiveVirtRegs
           /\ t.PhysRegState = s.PhysRegState /\ t.UsedInInstr = s.UsedInInstr /\ t.errors = s.errors
           /\ t.StackSlotForVirtReg = s.StackSlotForVirtReg \cup {v}
           /\ \A x \in Env : Here(e, t, m)[x] = IF x = r THEN Here(e, s, m)[<<v>>] ELSE Here(e, s, m)[x]
<1> DEFINE i == Instr("COPY", <<Operand(r, "def", FALSE), Operand(<<v>>, "use", FALSE)>>)
<1>1. v \in Virt /\ r \in Phys
    BY LiveMapElim DEF State, InverseBut, LiveIsHeld
<1>2. i \in Inserted
    <2>1. /\ <<v>> \in Registered \cup Slots /\ r \in Registered \cup Slots
          /\ FALSE \in BOOLEAN /\ "def" \in Kinds /\ "use" \in Kinds
        BY <1>1 DEF Slots, Registered, Kinds
    <2>2. /\ Operand(<<v>>, "use", FALSE) \in Operands(Registered \cup Slots)
          /\ Operand(r, "def", FALSE) \in Operands(Registered \cup Slots)
        BY <2>1 DEF Operand, Operands
    <2>3. \A x, y \in Operands(Registered \cup Slots) : <<x, y>> \in Seq(Operands(Registered \cup Slots))
        OBVIOUS
    <2>4. <<Operand(r, "def", FALSE), Operand(<<v>>, "use", FALSE)>>
            \in Seq(Operands(Registered \cup Slots))
        BY <2>2, <2>3
    <2> QED BY <2>4 DEF Instr, Inserted
<1>3. t = Insert(getStackSpaceFor(s, v), m, i)
    BY DEF Reloaded, loadRegFromStackSlot
<1>4. IsCopy(i, r, <<v>>)
    BY DEF Instr, Operand, IsCopy
<1> HIDE DEF i
<1>5. /\ Elsewhere(s, t, m)
      /\ Here(e, t, m) = Plain(Here(e, s, m), i, 0)
      /\ t.StackSlotForVirtReg = s.StackSlotForVirtReg \cup {v}
      /\ t.code = s.code /\ t.LiveVirtRegs = s.LiveVirtRegs /\ t.PhysRegState = s.PhysRegState
      /\ t.UsedInInstr = s.UsedInInstr /\ SameCopies(s, t) /\ t.errors = s.errors
    BY <1>1, <1>2, <1>3, InsertEffect
<1>6. Quiet(m, s, t)
    BY <1>5, OnlyFlagsReflexive DEF Quiet
<1>7. \A x \in Env : Here(e, t, m)[x] = IF x = r THEN Here(e, s, m)[<<v>>] ELSE Here(e, s, m)[x]
    <2>1. PICK env, from : env = Here(e, s, m) /\ from = <<v>>
        OBVIOUS
    <2>2. DOMAIN env = Env /\ from \in DOMAIN env
        BY <1>1, <2>1, HereDomain, SlotsApart
    <2>3. Plain(env, i, 0) = [x \in DOMAIN env |-> IF x = r THEN env[from] ELSE env[x]]
        BY <1>4, <2>1, <2>2, CopyEffect
    <2> QED BY <1>5, <2>1, <2>2, <2>3
<1> QED BY <1>5, <1>6, <1>7

\* What reloadVirtReg does to the values.
ReadyToUse(e, m, s, t, k, v, r) ==
    /\ Gives(e, m, s, t, v, r) /\ r \in t.UsedInInstr
    /\ v \in DOMAIN s.LiveVirtRegs \cup t.StackSlotForVirtReg
    /\ IsOperand(s.code, m, k) /\ Op(t, m, k).kill /\ t.LiveVirtRegs[v].Dirty =>
            v \in DOMAIN s.LiveVirtRegs /\ isLastUseOfLocalReg(s, m, k, v)
    /\ \A O : \A N \in SUBSET Virt :
            v \in N /\ Agree(s, Here(e, s, m), O, N) => Agree(t, Here(e, t, m), O, N)

LEMMA ReloadNewGives ==
    ASSUME NEW s \in State, InverseBut(s, {}), NEW v \in Virt, v \notin DOMAIN s.LiveVirtRegs,
           NEW m \in Places, IsPlace(s, m), NEW k \in Nat,
           NEW Hint, NEW e, DOMAIN e = Env, NEW t, t = reloadVirtReg(s, m, k, v, Hint)
    PROVE  \E r \in Phys : ReadyToUse(e, m, s, t, k, v, r)
<1>1. PICK no : no = FALSE
    OBVIOUS
<1>2. PICK a, b : a = allocVirtReg(NewLiveReg(s, v), m, v, Hint) /\ b = Reloaded(a, m, v)
    OBVIOUS
<1>3. t = Touched(b, m, k, v, no)
    BY <1>1, <1>2 DEF reloadVirtReg
<1>4. a \in State /\ InverseBut(a, {}) /\ v \in DOMAIN a.LiveVirtRegs
    BY <1>2, AllocNew DEF HasRegister, Kept
<1>5. b \in State /\ InverseBut(b, {})
    BY <1>2, <1>4, ReloadedKeeps DEF HasRegister, Kept
<1>6. PICK r \in Phys : Taken(e, m, s, a, v, r)
    BY <1>2, AllocNewEffect
<1>7. IsPlace(a, m) /\ r = a.LiveVirtRegs[v].PhysReg
    BY <1>6, QuietPlace DEF Taken
<1>8. /\ Quiet(m, a, b) /\ b.code = a.code /\ b.LiveVirtRegs = a.LiveVirtRegs
      /\ b.PhysRegState = a.PhysRegState /\ b.UsedInInstr = a.UsedInInstr /\ b.errors = a.errors
      /\ b.StackSlotForVirtReg = a.StackSlotForVirtReg \cup {v}
      /\ \A x \in Env : Here(e, b, m)[x] = IF x = r THEN Here(e, a, m)[<<v>>] ELSE Here(e, a, m)[x]
    BY <1>2, <1>4, <1>7, ReloadedEffect
<1>9. Gives(e, m, s, b, v, r)
    <2>1. Gives(e, m, s, a, v, r)
        BY <1>6, TakenGives
    <2>2. Quiet(m, s, b)
        BY <1>8, <2>1, QuietTransitive DEF Gives
    <2>3. \A x \in Phys \ {r} : Here(e, b, m)[x] = Here(e, a, m)[x]
        BY <1>8 DEF Env
    <2> QED BY ZenonT(40), <1>8, <2>1, <2>2, <2>3 DEF Gives, RanOut
<1>10. Gives(e, m, s, t, v, r) /\ JustTouched(e, m, b, t, v, r, no)
    BY <1>3, <1>5, <1>9, TouchedGives
<1>11. ASSUME NEW O, NEW N \in SUBSET Virt, v \in N, Agree(s, Here(e, s, m), O, N)
       PROVE  Agree(t, Here(e, t, m), O, N)
    <2>1. Agree(a, Here(e, a, m), O, N \ {v})
        <3>1. Agree(s, Here(e, s, m), O, N \ {v})
            BY <1>11 DEF Agree
        <3>2. N \ {v} \in SUBSET (Virt \ {v})
            BY <1>11
        <3> QED BY <1>6, <3>1, <3>2 DEF Taken, Preserves
    <2>2. Here(e, b, m)[r] = O[v] /\ Here(e, b, m)[<<v>>] = O[v]
        <3>1. Here(e, s, m)[<<v>>] = O[v]
            BY <1>11 DEF Agree
        <3>2. Here(e, a, m)[<<v>>] = O[v]
            BY <1>6, <3>1 DEF Taken
        <3>3. r \in Env /\ <<v>> \in Env
            BY SlotsApart DEF Env
        <3> QED BY <1>8, <3>2, <3>3
    <2>3. ASSUME NEW w \in N \ {v}
          PROVE  /\ w \in DOMAIN b.LiveVirtRegs => Here(e, b, m)[b.LiveVirtRegs[w].PhysReg] = O[w]
                 /\ (w \in DOMAIN b.LiveVirtRegs => ~b.LiveVirtRegs[w].Dirty) => Here(e, b, m)[<<w>>] = O[w]
        <3>1. w \in Virt /\ <<w>> \in Env /\ <<w>> # r
            BY <1>11, SlotsApart
        <3>2. /\ w \in DOMAIN a.LiveVirtRegs => Here(e, a, m)[a.LiveVirtRegs[w].PhysReg] = O[w]
              /\ (w \in DOMAIN a.LiveVirtRegs => ~a.LiveVirtRegs[w].Dirty) => Here(e, a, m)[<<w>>] = O[w]
            BY <2>1 DEF Agree
        <3>3. w \in DOMAIN a.LiveVirtRegs => a.LiveVirtRegs[w].PhysReg \in Phys \ {r}
            BY <1>4, <1>7 DEF InverseBut, LiveIsHeld
        <3>4. w \in DOMAIN a.LiveVirtRegs =>
                Here(e, b, m)[a.LiveVirtRegs[w].PhysReg] = Here(e, a, m)[a.LiveVirtRegs[w].PhysReg]
            BY <1>8, <3>3 DEF Env
        <3>5. Here(e, b, m)[<<w>>] = Here(e, a, m)[<<w>>]
            BY <1>8, <3>1
        <3> QED BY <1>8, <3>2, <3>4, <3>5
    <2>4. t.LiveVirtRegs[v].PhysReg = r
        BY <1>10 DEF Gives
    <2>5. \A w \in N : w = v \/ w \in N \ {v}
        OBVIOUS
    <2> QED BY <1>10, <2>2, <2>3, <2>4, <2>5 DEF Agree, JustTouched
<1>12. ReadyToUse(e, m, s, t, k, v, r)
    BY <1>1, <1>8, <1>10, <1>11 DEF ReadyToUse, JustTouched
<1> QED BY <1>12

LEMMA ReloadVirtRegGives ==
    ASSUME NEW s \in State, InverseBut(s, {}), NEW v \in Virt, NEW m \in Places, IsPlace(s, m), NEW k \in Nat,
           NEW Hint, NEW e, DOMAIN e = Env, NEW t, t = reloadVirtReg(s, m, k, v, Hint)
    PROVE  \E r \in Phys : ReadyToUse(e, m, s, t, k, v, r)
<1>1. CASE v \notin DOMAIN s.LiveVirtRegs
    BY <1>1, ReloadNewGives
<1>2. CASE v \in DOMAIN s.LiveVirtRegs
    <2>1. PICK dirty : dirty = s.LiveVirtRegs[v].Dirty
        OBVIOUS
    <2>2. dirty \in BOOLEAN
        BY <1>2, <2>1, LiveMapElim DEF State, LiveReg
    <2>3. PICK last \in BOOLEAN : last = (dirty /\ isLastUseOfLocalReg(s, m, k, v))
        OBVIOUS
    <2>4. PICK a : a = setIsKill(s, m, k, last)
        OBVIOUS
    <2>5. t = Touched(a, m, k, v, dirty)
        BY <1>2, <2>1, <2>3, <2>4 DEF reloadVirtReg
    <2>6. /\ a = SetCode(s, a.code) /\ OnlyFlags(s.code, a.code)
          /\ IsOperand(s.code, m, k) => Op(a, m, k).kill = last
        BY <2>4, SetIsKillEffect
    <2>7. PICK r \in Phys : r = s.LiveVirtRegs[v].PhysReg
        BY <1>2 DEF InverseBut, LiveIsHeld
    <2>8. Gives(e, m, s, a, v, r) /\ a.LiveVirtRegs = s.LiveVirtRegs /\ Here(e, a, m) = Here(e, s, m)
        BY <1>2, <2>6, <2>7, FlagsGive
    <2>9. a \in State /\ InverseBut(a, {})
        <3>1. OnlyCode(s, a)
            BY <2>4, SetIsKillIsOnlyCode
        <3> QED BY <3>1, OnlyCodeKept DEF Kept
    <2>10. Gives(e, m, s, t, v, r) /\ JustTouched(e, m, a, t, v, r, dirty)
        BY <2>5, <2>8, <2>9, TouchedGives
    <2>11. ASSUME NEW O, NEW N \in SUBSET Virt, v \in N, Agree(s, Here(e, s, m), O, N)
           PROVE  Agree(t, Here(e, t, m), O, N)
        <3>1. \A w \in N : w \in DOMAIN t.LiveVirtRegs <=> w \in DOMAIN s.LiveVirtRegs
            BY <2>8, <2>10 DEF JustTouched
        <3>2. \A w \in DOMAIN s.LiveVirtRegs :
                /\ t.LiveVirtRegs[w].PhysReg = s.LiveVirtRegs[w].PhysReg
                /\ t.LiveVirtRegs[w].Dirty = s.LiveVirtRegs[w].Dirty
            BY <2>1, <2>7, <2>8, <2>10 DEF Gives, JustTouched
        <3>3. Here(e, t, m) = Here(e, s, m)
            BY <2>8, <2>10 DEF JustTouched
        <3> QED BY <2>11, <3>1, <3>2, <3>3 DEF Agree
    <2>12. Op(t, m, k).kill = Op(a, m, k).kill
        BY <2>10 DEF Op, JustTouched
    <2>13. ReadyToUse(e, m, s, t, k, v, r)
        BY <1>2, <2>3, <2>6, <2>10, <2>11, <2>12 DEF ReadyToUse, JustTouched
    <2> QED BY <2>13
<1> QED BY <1>1, <1>2

-----------------------------------------------------------------------------
(***************************************************************************)
(* What one instruction may change.                                        *)
(***************************************************************************)
At(s, m) == s.code[m[1]][m[2]]

SameKinds(i, j) ==
    /\ j.op = i.op /\ Len(j.ops) = Len(i.ops)
    /\ \A k \in 1 .. Len(i.ops) : j.ops[k].kind = i.ops[k].kind

\* The registers of the instruction at m; elsewhere only flags.
Outside(s, t, m) ==
    /\ Len(t.code) = Len(s.code)
    /\ \A c \in 1 .. Len(s.code) :
            /\ Len(t.code[c]) = Len(s.code[c])
            /\ \A n \in 1 .. Len(s.code[c]) :
                    /\ SameKinds(s.code[c][n], t.code[c][n])
                    /\ c # m[1] \/ n # m[2] => SameOperands(s.code[c][n], t.code[c][n])
    /\ Elsewhere(s, t, m)
    /\ t.Coalesced = s.Coalesced
    /\ s.StackSlotForVirtReg \subseteq t.StackSlotForVirtReg
    /\ s.errors \subseteq t.errors

LEMMA OutsideReflexive ==
    ASSUME NEW s, NEW m
    PROVE  Outside(s, s, m)
BY DEF Outside, SameKinds, SameOperands, Elsewhere

LEMMA OutsideTransitive ==
    ASSUME NEW s, NEW t, NEW u, NEW m, Outside(s, t, m), Outside(t, u, m)
    PROVE  Outside(s, u, m)
<1>1. Elsewhere(s, u, m)
    BY ElsewhereTransitive DEF Outside
<1>2. ASSUME NEW c \in 1 .. Len(s.code)
      PROVE  /\ Len(u.code[c]) = Len(s.code[c])
             /\ \A n \in 1 .. Len(s.code[c]) :
                    /\ SameKinds(s.code[c][n], u.code[c][n])
                    /\ c # m[1] \/ n # m[2] => SameOperands(s.code[c][n], u.code[c][n])
    <2>1. Len(t.code[c]) = Len(s.code[c]) /\ Len(u.code[c]) = Len(t.code[c])
        BY ZenonT(40) DEF Outside
    <2>2. ASSUME NEW n \in 1 .. Len(s.code[c])
          PROVE  /\ SameKinds(s.code[c][n], u.code[c][n])
                 /\ c # m[1] \/ n # m[2] => SameOperands(s.code[c][n], u.code[c][n])
        <3>1. SameKinds(s.code[c][n], t.code[c][n]) /\ SameKinds(t.code[c][n], u.code[c][n])
            BY <2>1 DEF Outside
        <3>2. c # m[1] \/ n # m[2] =>
                SameOperands(s.code[c][n], t.code[c][n]) /\ SameOperands(t.code[c][n], u.code[c][n])
            BY <2>1 DEF Outside
        <3> QED BY <3>1, <3>2 DEF SameKinds, SameOperands
    <2> QED BY <2>1, <2>2
<1> QED BY <1>1, <1>2 DEF Outside

LEMMA QuietIsOutside ==
    ASSUME NEW s, NEW t, NEW m, Quiet(m, s, t)
    PROVE  Outside(s, t, m)
<1>1. \A i, j : SameOperands(i, j) => SameKinds(i, j)
    BY DEF SameOperands, SameKinds
<1> QED BY <1>1 DEF Quiet, Outside, OnlyFlags, SameCopies

\* Fields that rewriting an operand leaves alone.
SameRest(s, t) ==
    /\ t.inserted = s.inserted /\ t.Coalesced = s.Coalesced
    /\ t.StackSlotForVirtReg = s.StackSlotForVirtReg /\ t.LiveVirtRegs = s.LiveVirtRegs
    /\ t.PhysRegState = s.PhysRegState /\ t.UsedInInstr = s.UsedInInstr /\ t.errors = s.errors

\* Operand k of the instruction at m gets the register r.
Renamed(s, t, m, k, r) == Rewritten(s.code, t.code, m, k, [Op(s, m, k) EXCEPT !.reg = r]) /\ SameRest(s, t)

OneOperand(s, t, m, k, r) ==
    /\ SameKinds(At(s, m), At(t, m))
    /\ \A j \in 1 .. Len(At(s, m).ops) :
            Op(t, m, j).reg = (IF j = k THEN r ELSE Op(s, m, j).reg) /\ Op(t, m, j).kill = Op(s, m, j).kill

LEMMA RenamedOperands ==
    ASSUME NEW s \in State, NEW t, NEW m, IsInstr(s.code, m), NEW k, NEW r, Renamed(s, t, m, k, r)
    PROVE  OneOperand(s, t, m, k, r)
<1> DEFINE x == [Op(s, m, k) EXCEPT !.reg = r]
<1>1. /\ At(t, m).op = At(s, m).op /\ Len(At(t, m).ops) = Len(At(s, m).ops)
      /\ \A j \in 1 .. Len(At(s, m).ops) : Op(t, m, j) = IF j = k THEN x ELSE Op(s, m, j)
    BY Zenon DEF Renamed, Rewritten, At, Op, IsInstr
<1>2. ASSUME NEW j \in 1 .. Len(At(s, m).ops), j = k
      PROVE  x.reg = r /\ x.kind = Op(s, m, j).kind /\ x.kill = Op(s, m, j).kill
    <2>1. Op(s, m, k) \in Operands(Registered)
        <3>1. IsOperand(s.code, m, k)
            BY <1>2 DEF IsOperand, IsInstr, At
        <3> QED BY <3>1, OperandAt DEF State, Op
    <2> QED BY <1>2, <2>1 DEF Operands
<1> HIDE DEF x
<1>3. ASSUME NEW j \in 1 .. Len(At(s, m).ops)
      PROVE  /\ Op(t, m, j).kind = Op(s, m, j).kind /\ Op(t, m, j).kill = Op(s, m, j).kill
             /\ Op(t, m, j).reg = IF j = k THEN r ELSE Op(s, m, j).reg
    BY Zenon, <1>1, <1>2
<1>4. SameKinds(At(s, m), At(t, m))
    BY Zenon, <1>1, <1>3 DEF SameKinds, At, Op
<1> QED BY Zenon, <1>3, <1>4 DEF OneOperand

LEMMA RenamedIsOutside ==
    ASSUME NEW s \in State, NEW t, NEW m, IsInstr(s.code, m), NEW k, NEW r, Renamed(s, t, m, k, r)
    PROVE  Outside(s, t, m)
<1>1. SameKinds(At(s, m), At(t, m))
    BY RenamedOperands DEF OneOperand
<1>2. Elsewhere(s, t, m)
    BY ElsewhereReflexive DEF Renamed, SameRest
<1>3. ASSUME NEW c \in 1 .. Len(s.code), NEW n \in 1 .. Len(s.code[c])
      PROVE  /\ SameKinds(s.code[c][n], t.code[c][n])
             /\ c # m[1] \/ n # m[2] => SameOperands(s.code[c][n], t.code[c][n])
    <2>1. CASE c = m[1] /\ n = m[2]
        BY <1>1, <2>1 DEF At
    <2>2. CASE ~(c = m[1] /\ n = m[2])
        <3>1. t.code[c][n] = s.code[c][n]
            BY <2>2 DEF Renamed, Rewritten
        <3> QED BY <3>1 DEF SameKinds, SameOperands
    <2> QED BY <2>1, <2>2
<1> QED BY <1>2, <1>3 DEF Outside, Renamed, Rewritten, SameRest

\* Registers that are in use or reserved are not taken from their owners.
Leaves(e, m, s, t, v, r) ==
    /\ \A x \in s.UsedInInstr : Here(e, t, m)[x] = Here(e, s, m)[x]
    /\ \A x \in Phys : s.PhysRegState[x] = "reserved" =>
            t.PhysRegState[x] = "reserved" /\ Here(e, t, m)[x] = Here(e, s, m)[x]
    /\ \A x \in s.UsedInInstr : s.PhysRegState[x] = "free" => x # r /\ t.PhysRegState[x] = "free"
    /\ \A w \in DOMAIN s.LiveVirtRegs \ {v} : s.LiveVirtRegs[w].PhysReg \in s.UsedInInstr =>
            /\ s.LiveVirtRegs[w].PhysReg # r
            /\ w \in DOMAIN t.LiveVirtRegs /\ t.LiveVirtRegs[w] = s.LiveVirtRegs[w]

LEMMA StatesAreNotVirtual ==
    ASSUME NEW s \in State, InverseBut(s, {}), NEW v \in DOMAIN s.LiveVirtRegs
    PROVE  /\ v \in Virt /\ s.LiveVirtRegs[v].PhysReg \in Phys
           /\ s.PhysRegState[s.LiveVirtRegs[v].PhysReg] = v
           /\ v # "free" /\ v # "reserved" /\ v \notin Phys
<1>1. v \in Virt
    BY LiveMapElim DEF State
<1>2. v # "free" /\ v # "reserved" /\ v \notin Phys
    BY <1>1, RegAllocAssumption DEF PhysRegStates
<1> QED BY <1>1, <1>2 DEF InverseBut, LiveIsHeld

LEMMA GivesLeaves ==
    ASSUME NEW s \in State, InverseBut(s, {}), NEW e, NEW m, NEW t, NEW v, NEW r \in Phys,
           Gives(e, m, s, t, v, r), ~RanOut(t)
    PROVE  Leaves(e, m, s, t, v, r)
<1>1. s.UsedInInstr \subseteq Phys
    BY DEF State
<1>2. CASE v \in DOMAIN s.LiveVirtRegs
    <2>1. s.PhysRegState[r] = v /\ v # "free" /\ v # "reserved" /\ Here(e, t, m)[r] = Here(e, s, m)[r]
        <3>1. s.PhysRegState[s.LiveVirtRegs[v].PhysReg] = v /\ v # "free" /\ v # "reserved"
            BY <1>2, StatesAreNotVirtual
        <3> QED BY <1>2, <3>1 DEF Gives
    <2>2. \A x \in Phys : Here(e, t, m)[x] = Here(e, s, m)[x]
        BY <2>1 DEF Gives
    <2>3. ASSUME NEW w \in DOMAIN s.LiveVirtRegs \ {v}
          PROVE  /\ s.LiveVirtRegs[w].PhysReg # r
                 /\ w \in DOMAIN t.LiveVirtRegs /\ t.LiveVirtRegs[w] = s.LiveVirtRegs[w]
        <3>1. s.LiveVirtRegs[w].PhysReg # r
            BY <2>1, StatesAreNotVirtual
        <3> QED BY <2>1, <3>1 DEF Gives
    <2> QED BY <1>1, <2>1, <2>2, <2>3 DEF Leaves, Gives
<1>3. CASE v \notin DOMAIN s.LiveVirtRegs
    <2>1. r \notin s.UsedInInstr /\ s.PhysRegState[r] # "reserved"
        BY <1>3 DEF Gives
    <2>2. \A x \in Phys : x \in s.UsedInInstr \/ s.PhysRegState[x] = "reserved" =>
            t.PhysRegState[x] = s.PhysRegState[x] /\ Here(e, t, m)[x] = Here(e, s, m)[x]
        BY <2>1 DEF Gives
    <2>3. ASSUME NEW w \in DOMAIN s.LiveVirtRegs \ {v}, s.LiveVirtRegs[w].PhysReg \in s.UsedInInstr
          PROVE  /\ s.LiveVirtRegs[w].PhysReg # r
                 /\ w \in DOMAIN t.LiveVirtRegs /\ t.LiveVirtRegs[w] = s.LiveVirtRegs[w]
        <3>1. s.LiveVirtRegs[w].PhysReg # r
            BY <2>1, <2>3
        <3>2. s.PhysRegState[r] # w
            <4>1. w \in Virt
                BY StatesAreNotVirtual
            <4>2. s.PhysRegState[r] \in Virt => s.LiveVirtRegs[s.PhysRegState[r]].PhysReg = r
                BY DEF InverseBut, HeldByLive
            <4> QED BY <3>1, <4>1, <4>2
        <3>3. w \in DOMAIN t.LiveVirtRegs
            BY <3>2 DEF Gives
        <3> QED BY <3>1, <3>3 DEF Gives
    <2> QED BY <1>1, <2>1, <2>2, <2>3 DEF Leaves
<1> QED BY <1>2, <1>3

-----------------------------------------------------------------------------
(***************************************************************************)
(* An instruction I on its way to being allocated.  e is what is there in  *)
(* front of it, m its place, O what it read before allocation, and D the   *)
(* operands that have their registers.                                     *)
(***************************************************************************)

\* A use has a register of P with the value that is read.
UseHeld(I, e, m, O, t, j, P) ==
    Op(t, m, j).reg \in P /\ Here(e, t, m)[Op(t, m, j).reg] = O[I.ops[j].reg]

\* A definition has its register.
DefHeld(I, m, t, j) ==
    IF I.ops[j].reg \in Phys
    THEN Op(t, m, j).reg = I.ops[j].reg /\ t.PhysRegState[I.ops[j].reg] = "reserved"
    ELSE /\ I.ops[j].reg \in DOMAIN t.LiveVirtRegs /\ t.LiveVirtRegs[I.ops[j].reg].Dirty
         /\ t.LiveVirtRegs[I.ops[j].reg].PhysReg = Op(t, m, j).reg /\ Op(t, m, j).reg \in t.UsedInInstr

Handled(I, e, m, O, t, D, P) ==
    /\ SameKinds(I, At(t, m))
    /\ \A j \in 1 .. Len(I.ops) :
            IF j \notin D THEN Op(t, m, j).reg = I.ops[j].reg
            ELSE IF isUse(I.ops[j]) THEN UseHeld(I, e, m, O, t, j, P)
            ELSE DefHeld(I, m, t, j)

LEMMA HandledGives ==
    ASSUME NEW s \in State, InverseBut(s, {}), NEW m, IsInstr(s.code, m), NEW e, NEW t, NEW v, NEW r \in Phys,
           Gives(e, m, s, t, v, r), ~RanOut(t),
           NEW I, NEW O, NEW D, NEW P \in SUBSET Phys, Handled(I, e, m, O, s, D, P), NEW Q, P \subseteq Q,
           \A x \in P : Here(e, t, m)[x] = Here(e, s, m)[x],
           t.LiveVirtRegs[v].Dirty \/ \A j \in D : I.ops[j].reg = v => isUse(I.ops[j])
    PROVE  Handled(I, e, m, O, t, D, Q)
<1>1. Leaves(e, m, s, t, v, r)
    BY GivesLeaves
<1>2. SameOperands(At(s, m), At(t, m))
    BY DEF Gives, Quiet, OnlyFlags, At, IsInstr
<1>3. SameKinds(I, At(t, m))
    BY Zenon, <1>2 DEF Handled, SameKinds, SameOperands
<1>4. ASSUME NEW j \in 1 .. Len(I.ops) PROVE Op(t, m, j).reg = Op(s, m, j).reg
    BY Zenon, <1>2 DEF Handled, SameKinds, SameOperands, Op, At
<1>5. ASSUME NEW j \in 1 .. Len(I.ops), j \in D, isUse(I.ops[j]) PROVE UseHeld(I, e, m, O, t, j, Q)
    BY <1>4, <1>5 DEF Handled, UseHeld
<1>6. ASSUME NEW j \in 1 .. Len(I.ops), j \in D, ~isUse(I.ops[j]) PROVE DefHeld(I, m, t, j)
    <2>1. DefHeld(I, m, s, j) /\ Op(t, m, j).reg = Op(s, m, j).reg
        BY <1>4, <1>6 DEF Handled
    <2> DEFINE w == I.ops[j].reg
    <2>2. CASE w \in Phys
        BY <1>1, <2>1, <2>2 DEF DefHeld, Leaves
    <2>3. CASE w \notin Phys /\ w # v
        <3>1. /\ w \in DOMAIN s.LiveVirtRegs /\ s.LiveVirtRegs[w].Dirty
              /\ s.LiveVirtRegs[w].PhysReg = Op(s, m, j).reg /\ Op(s, m, j).reg \in s.UsedInInstr
            BY <2>1, <2>3 DEF DefHeld
        <3>2. w \in DOMAIN t.LiveVirtRegs /\ t.LiveVirtRegs[w] = s.LiveVirtRegs[w]
            BY <1>1, <2>3, <3>1 DEF Leaves
        <3>3. Op(s, m, j).reg \in t.UsedInInstr
            BY <3>1 DEF Gives
        <3> QED BY <2>1, <2>3, <3>1, <3>2, <3>3 DEF DefHeld
    <2>4. CASE w \notin Phys /\ w = v
        <3>1. /\ v \in DOMAIN s.LiveVirtRegs
              /\ s.LiveVirtRegs[v].PhysReg = Op(s, m, j).reg /\ Op(s, m, j).reg \in s.UsedInInstr
            BY <2>1, <2>4 DEF DefHeld
        <3>2. t.LiveVirtRegs[v].Dirty
            BY <1>6, <2>4
        <3>3. /\ v \in DOMAIN t.LiveVirtRegs /\ t.LiveVirtRegs[v].PhysReg = s.LiveVirtRegs[v].PhysReg
              /\ Op(s, m, j).reg \in t.UsedInInstr
            BY <3>1 DEF Gives
        <3> QED BY <2>1, <2>4, <3>1, <3>2, <3>3 DEF DefHeld
    <2> QED BY <2>2, <2>3, <2>4
<1> QED BY <1>3, <1>4, <1>5, <1>6 DEF Handled

\* Operand k is rewritten.
LEMMA HandledRenamed ==
    ASSUME NEW s \in State, NEW m, IsInstr(s.code, m), NEW k, NEW r, NEW t, Renamed(s, t, m, k, r),
           NEW I, NEW e, NEW O, NEW D, NEW P, Handled(I, e, m, O, s, D, P),
           k \in 1 .. Len(I.ops) => IF isUse(I.ops[k]) THEN UseHeld(I, e, m, O, t, k, P) ELSE DefHeld(I, m, t, k)
    PROVE  Handled(I, e, m, O, t, D \cup {k}, P)
<1>1. /\ SameKinds(At(s, m), At(t, m))
      /\ \A j \in 1 .. Len(At(s, m).ops) :
            Op(t, m, j).reg = (IF j = k THEN r ELSE Op(s, m, j).reg) /\ Op(t, m, j).kill = Op(s, m, j).kill
    BY RenamedOperands DEF OneOperand
<1>2. SameKinds(I, At(s, m)) /\ Len(At(s, m).ops) = Len(I.ops)
    BY DEF Handled, SameKinds
<1>3. SameKinds(I, At(t, m))
    BY <1>1, <1>2 DEF SameKinds
<1>4. Here(e, t, m) = Here(e, s, m)
    BY DEF Renamed, SameRest, Here
<1>5. /\ t.LiveVirtRegs = s.LiveVirtRegs /\ t.PhysRegState = s.PhysRegState /\ t.UsedInInstr = s.UsedInInstr
    BY DEF Renamed, SameRest
<1>6. ASSUME NEW j \in 1 .. Len(I.ops), j # k
      PROVE  IF j \notin D THEN Op(t, m, j).reg = I.ops[j].reg
             ELSE IF isUse(I.ops[j]) THEN UseHeld(I, e, m, O, t, j, P)
             ELSE DefHeld(I, m, t, j)
    <2>1. Op(t, m, j).reg = Op(s, m, j).reg
        BY <1>1, <1>2, <1>6
    <2>2. CASE j \notin D
        BY <2>1, <2>2 DEF Handled
    <2>3. CASE j \in D /\ isUse(I.ops[j])
        BY <1>4, <2>1, <2>3 DEF Handled, UseHeld
    <2>4. CASE j \in D /\ ~isUse(I.ops[j])
        BY <1>5, <2>1, <2>4 DEF Handled, DefHeld
    <2> QED BY <2>2, <2>3, <2>4
<1>7. ASSUME NEW j \in 1 .. Len(I.ops), j = k
      PROVE  IF isUse(I.ops[j]) THEN UseHeld(I, e, m, O, t, j, P) ELSE DefHeld(I, m, t, j)
    BY <1>7
<1> QED BY <1>3, <1>6, <1>7 DEF Handled

\* A value that no definition names leaves its register.
LEMMA HandledKill ==
    ASSUME NEW s \in State, InverseBut(s, {}), NEW m, IsInstr(s.code, m), NEW v \in DOMAIN s.LiveVirtRegs,
           NEW t, t = killVirtReg(s, v),
           NEW I, NEW e, NEW O, NEW D, NEW P, Handled(I, e, m, O, s, D, P),
           \A j \in D : I.ops[j].reg = v => isUse(I.ops[j])
    PROVE  Handled(I, e, m, O, t, D, P)
<1>1. /\ Removed(s, t, v) /\ Quiet(m, s, t) /\ t.inserted = s.inserted
      /\ t.UsedInInstr = s.UsedInInstr
    BY KillEffect
<1>2. SameOperands(At(s, m), At(t, m))
    BY Zenon, <1>1 DEF Quiet, OnlyFlags, At, IsInstr
<1>3. SameKinds(I, At(t, m))
    BY <1>2 DEF Handled, SameKinds, SameOperands
<1>4. ASSUME NEW j \in 1 .. Len(I.ops) PROVE Op(t, m, j).reg = Op(s, m, j).reg
    BY Zenon, <1>2 DEF Handled, SameKinds, SameOperands, Op, At
<1>5. Here(e, t, m) = Here(e, s, m)
    BY <1>1 DEF Here
<1>6. ASSUME NEW x \in Phys, s.PhysRegState[x] = "reserved" PROVE t.PhysRegState[x] = "reserved"
    <2>1. s.LiveVirtRegs[v].PhysReg # x
        BY <1>6, StatesAreNotVirtual
    <2>2. s.PhysRegState \in [Phys -> Virt \cup PhysRegStates]
        BY DEF State
    <2> QED BY <1>1, <1>6, <2>1, <2>2 DEF Removed
<1>7. ASSUME NEW j \in 1 .. Len(I.ops), j \in D, isUse(I.ops[j]) PROVE UseHeld(I, e, m, O, t, j, P)
    BY <1>4, <1>5, <1>7 DEF Handled, UseHeld
<1>8. ASSUME NEW j \in 1 .. Len(I.ops), j \in D, ~isUse(I.ops[j]) PROVE DefHeld(I, m, t, j)
    <2>1. DefHeld(I, m, s, j) /\ Op(t, m, j).reg = Op(s, m, j).reg /\ I.ops[j].reg # v
        BY <1>4, <1>8 DEF Handled
    <2>2. CASE I.ops[j].reg \in Phys
        BY <1>6, <2>1, <2>2 DEF DefHeld
    <2>3. CASE I.ops[j].reg \notin Phys
        <3>1. I.ops[j].reg \in DOMAIN t.LiveVirtRegs
            BY <1>1, <2>1, <2>3 DEF DefHeld, Removed
        <3> QED BY <1>1, <2>1, <2>3, <3>1 DEF DefHeld, Removed
    <2> QED BY <2>2, <2>3
<1> QED BY <1>3, <1>4, <1>7, <1>8 DEF Handled

\* A use never shares the register of an early clobber.
Apart(I, t, m, D) ==
    \A j, l \in D \cap (1 .. Len(I.ops)) :
        isUse(I.ops[j]) /\ I.ops[l].kind = "ec" => Op(t, m, j).reg # Op(t, m, l).reg

\* What CopySrc and CopyDst name, when they name anything.
CopiesKnown(t, m) ==
    IF At(t, m).op = "COPY" THEN t.CopyDst \in {None, Op(t, m, 1).reg} /\ t.CopySrc \in {None, Op(t, m, 2).reg}
    ELSE t.CopyDst = None

\* N: values that are needed.  G: values that may have no slot.  K: reserved registers that are needed.
Common(I, e, m, O, N, G, K, t, D) ==
    /\ Apart(I, t, m, D)
    /\ Agree(t, Here(e, t, m), O, N)
    /\ DOMAIN t.LiveVirtRegs \subseteq t.StackSlotForVirtReg \cup G
    /\ \A x \in K : t.PhysRegState[x] = "reserved" /\ Here(e, t, m)[x] = O[x]
    /\ CopiesKnown(t, m)

\* B: values that were defined in front of I in its block.
Exposed(I, B, t, D) ==
    \A j \in D \cap (1 .. Len(I.ops)) :
        isUse(I.ops[j]) /\ I.ops[j].reg \in Virt => I.ops[j].reg \in t.StackSlotForVirtReg \cup B

FreeUses(I, t, m, D) ==
    \A j \in D \cap (1 .. Len(I.ops)) : isUse(I.ops[j]) => t.PhysRegState[Op(t, m, j).reg] = "free"

Underway(I, e, m, O, N, B, K, t, D) ==
    /\ Handled(I, e, m, O, t, D, t.UsedInInstr)
    /\ Common(I, e, m, O, N, B \cup Named(I, {"ec"}), K, t, D)
    /\ Exposed(I, B, t, D)

-----------------------------------------------------------------------------
(***************************************************************************)
(* The first scan.                                                         *)
(***************************************************************************)
LEMMA UsePhysRegEffect ==
    ASSUME NEW t \in State, NEW m, NEW k, NEW r \in Phys, r = Op(t, m, k).reg, t.PhysRegState[r] \notin Virt,
           NEW u, u = usePhysReg(t, m, k)
    PROVE  /\ OnlyFlags(t.code, u.code) /\ u.inserted = t.inserted /\ SameCopies(t, u)
           /\ u.StackSlotForVirtReg = t.StackSlotForVirtReg /\ u.LiveVirtRegs = t.LiveVirtRegs
           /\ u.errors = t.errors /\ u.UsedInInstr = t.UsedInInstr \cup {r}
           /\ u.PhysRegState = [t.PhysRegState EXCEPT ![r] = "free"]
<1>1. PICK a : a = SetState(t, r, "free", t.UsedInInstr \cup {r})
    OBVIOUS
<1>2. PICK yes \in BOOLEAN : yes = TRUE
    OBVIOUS
<1>3. u = setIsKill(a, m, k, yes)
    BY <1>1, <1>2 DEF usePhysReg, SetState
<1>4. /\ a.code = t.code /\ a.inserted = t.inserted /\ SameCopies(t, a)
      /\ a.StackSlotForVirtReg = t.StackSlotForVirtReg /\ a.LiveVirtRegs = t.LiveVirtRegs
      /\ a.errors = t.errors /\ a.UsedInInstr = t.UsedInInstr \cup {r}
      /\ a.PhysRegState = [t.PhysRegState EXCEPT ![r] = "free"]
    BY <1>1 DEF State, SetState, SameCopies
<1>5. a \in State
    <2>1. a.PhysRegState \in [Phys -> Virt \cup PhysRegStates]
        BY <1>4 DEF State, PhysRegStates
    <2>2. a.UsedInInstr \in SUBSET Phys
        BY <1>4 DEF State
    <2> QED BY <1>1, <1>4, <2>1, <2>2 DEF State, SetState
<1>6. u = SetCode(a, u.code) /\ OnlyFlags(a.code, u.code)
    BY <1>3, <1>5, SetIsKillEffect
<1> QED BY <1>4, <1>5, <1>6, SetCodeFields DEF SameCopies

\* After k operands.
FirstDone(I, s, t, k) ==
    /\ OnlyFlags(s.code, t.code) /\ t.inserted = s.inserted /\ SameCopies(s, t)
    /\ t.StackSlotForVirtReg = s.StackSlotForVirtReg /\ t.LiveVirtRegs = s.LiveVirtRegs /\ t.errors = s.errors
    /\ \A x \in Phys \ Uses(I) : t.PhysRegState[x] = s.PhysRegState[x]
    /\ \A x \in Phys \cap Uses(I) : t.PhysRegState[x] \notin Virt
    /\ \A j \in 1 .. k : isUse(I.ops[j]) /\ I.ops[j].reg \in Phys =>
            I.ops[j].reg \in t.UsedInInstr /\ t.PhysRegState[I.ops[j].reg] = "free"

LEMMA FirstStepDone ==
    ASSUME NEW s \in State, NEW m, IsInstr(s.code, m), NEW I \in Instructions, SameOperands(I, At(s, m)),
           NEW k \in 1 .. Len(I.ops), NEW t \in State, FirstDone(I, s, t, k - 1),
           NEW u, u = FirstStep(t, m, k)
    PROVE  FirstDone(I, s, u, k)
<1>1. SameOperands(At(s, m), At(t, m))
    BY Zenon DEF FirstDone, OnlyFlags, At, IsInstr
<1>2. Op(t, m, k).reg = I.ops[k].reg /\ Op(t, m, k).kind = I.ops[k].kind
    BY Zenon, <1>1 DEF SameOperands, Op, At
<1>3. k \in Nat /\ \A j \in 1 .. k : j \in 1 .. k - 1 \/ j = k
    OBVIOUS
<1>4. CASE ~(I.ops[k].reg \in Phys /\ isUse(I.ops[k]))
    <2>1. u = t
        BY <1>2, <1>4 DEF FirstStep, isUse
    <2> QED BY <1>3, <1>4, <2>1 DEF FirstDone
<1>5. CASE I.ops[k].reg \in Phys /\ isUse(I.ops[k])
    <2>1. PICK r \in Phys : r = I.ops[k].reg
        BY <1>5
    <2>2. u = usePhysReg(t, m, k) /\ r = Op(t, m, k).reg
        BY <1>2, <1>5, <2>1 DEF FirstStep, isUse
    <2>3. r \in Uses(I)
        <3>1. k \in DOMAIN I.ops
            BY LenProperties DEF Instructions
        <3> QED BY <1>5, <2>1, <3>1 DEF Uses, Named, isUse
    <2>4. /\ OnlyFlags(t.code, u.code) /\ u.inserted = t.inserted /\ SameCopies(t, u)
          /\ u.StackSlotForVirtReg = t.StackSlotForVirtReg /\ u.LiveVirtRegs = t.LiveVirtRegs
          /\ u.errors = t.errors /\ u.UsedInInstr = t.UsedInInstr \cup {r}
          /\ u.PhysRegState = [t.PhysRegState EXCEPT ![r] = "free"]
        <3>1. t.PhysRegState[r] \notin Virt
            BY <2>3 DEF FirstDone
        <3> QED BY <2>2, <3>1, UsePhysRegEffect
    <2>5. u.PhysRegState[r] = "free" /\ \A x \in Phys \ {r} : u.PhysRegState[x] = t.PhysRegState[x]
        <3>1. t.PhysRegState \in [Phys -> Virt \cup PhysRegStates]
            BY DEF State
        <3> QED BY <2>4, <3>1
    <2>6. "free" \notin Virt
        BY RegAllocAssumption DEF PhysRegStates
    <2>7. OnlyFlags(s.code, u.code)
        BY <2>4, OnlyFlagsTransitive DEF FirstDone
    <2>8. \A x \in Phys \ Uses(I) : u.PhysRegState[x] = s.PhysRegState[x]
        BY <2>3, <2>5 DEF FirstDone
    <2>9. \A x \in Phys \cap Uses(I) : u.PhysRegState[x] \notin Virt
        BY <2>5, <2>6 DEF FirstDone
    <2>10. \A j \in 1 .. k : isUse(I.ops[j]) /\ I.ops[j].reg \in Phys =>
                I.ops[j].reg \in u.UsedInInstr /\ u.PhysRegState[I.ops[j].reg] = "free"
        BY <1>3, <2>1, <2>4, <2>5 DEF FirstDone
    <2> QED BY <2>4, <2>7, <2>8, <2>9, <2>10 DEF FirstDone, SameCopies
<1> QED BY <1>4, <1>5

LEMMA FirstScanDone ==
    ASSUME NEW s \in State, InverseBut(s, {}), NEW m \in Places, IsInstr(s.code, m),
           NEW I \in Instructions, SameOperands(I, At(s, m)),
           \A x \in Phys \cap Uses(I) : s.PhysRegState[x] \notin Virt,
           NEW t, t = FirstScan(s, m)
    PROVE  FirstDone(I, s, t, Len(I.ops))
<1> DEFINE l == NumOperands(s, m)
<1>1. l \in Nat /\ l = Len(I.ops)
    BY NumOperandsIsNatural DEF NumOperands, SameOperands, At
<1>2. PICK scan : /\ scan[0] = [s EXCEPT !.UsedInInstr = {}]
                  /\ FirstScan(s, m) = scan[l]
                  /\ \A k \in 0 .. l : Kept(s, scan[k], {})
                  /\ \A k \in 1 .. l : scan[k] = FirstStep(scan[k - 1], m, k)
    <2>1. PICK scan : FirstScans(s, m, scan)
        BY FirstScanRuns
    <2> QED BY <2>1 DEF FirstScans
<1> HIDE DEF l
<1> DEFINE T == [k \in 0 .. l |-> {a \in State : FirstDone(I, s, a, k)}]
<1>3. scan[0] \in T[0]
    <2>1. scan[0] \in State
        BY <1>1, <1>2 DEF Kept
    <2>2. /\ scan[0].code = s.code /\ scan[0].inserted = s.inserted /\ SameCopies(s, scan[0])
          /\ scan[0].StackSlotForVirtReg = s.StackSlotForVirtReg /\ scan[0].LiveVirtRegs = s.LiveVirtRegs
          /\ scan[0].errors = s.errors /\ scan[0].PhysRegState = s.PhysRegState
        BY <1>2 DEF State, SameCopies
    <2>3. FirstDone(I, s, scan[0], 0)
        BY <2>2, OnlyFlagsReflexive DEF FirstDone
    <2> QED BY <1>1, <2>1, <2>3
<1>4. ASSUME NEW k \in 1 .. l, scan[k - 1] \in T[k - 1] PROVE scan[k] \in T[k]
    <2>1. k - 1 \in 0 .. l /\ k \in 0 .. l /\ k \in 1 .. Len(I.ops)
        BY <1>1
    <2>2. PICK a \in State : a = scan[k - 1] /\ FirstDone(I, s, a, k - 1)
        BY <1>4, <2>1
    <2>3. scan[k] = FirstStep(a, m, k) /\ scan[k] \in State
        BY <1>2, <2>1, <2>2 DEF Kept
    <2>4. FirstDone(I, s, scan[k], k)
        BY <2>1, <2>2, <2>3, FirstStepDone
    <2> QED BY <2>1, <2>3, <2>4
<1>5. \A k \in 0 .. l : scan[k] \in T[k]
    <2> HIDE DEF T
    <2> QED BY <1>1, <1>3, <1>4, Stays
<1>6. FirstDone(I, s, scan[l], l)
    <2>1. l \in 0 .. l
        BY <1>1
    <2> QED BY <1>5, <2>1
<1> HIDE DEF T
<1> QED BY Zenon, <1>1, <1>2, <1>6

Sound(I) == I \in Instructions /\ WellFormedInstr(I) /\ (I.op = "COPY" => Len(I.ops) = 2)

LEMMA SoundInstr ==
    ASSUME NEW I, Sound(I)
    PROVE  /\ DOMAIN I.ops = 1 .. Len(I.ops) /\ Len(I.ops) \in Nat
           /\ \A j \in 1 .. Len(I.ops) :
                /\ I.ops[j] \in Operands(Registered)
                /\ isUse(I.ops[j]) => I.ops[j].reg \in Uses(I) /\ I.ops[j].kind # "ec" /\ I.ops[j].kind # "def"
                /\ ~isUse(I.ops[j]) => I.ops[j].reg \in Definitions(I) /\ I.ops[j].kind \in {"def", "ec"}
                /\ I.ops[j].kind = "ec" =>
                        /\ I.ops[j].reg \in Virt /\ I.ops[j].reg \notin Uses(I)
                        /\ I.ops[j].reg \in Named(I, {"ec"}) /\ I.op # "COPY"
<1>1. I.ops \in Seq(Operands(Registered))
    BY DEF Sound, Instructions
<1>2. DOMAIN I.ops = 1 .. Len(I.ops) /\ Len(I.ops) \in Nat
    BY <1>1, LenProperties
<1>3. ASSUME NEW j \in 1 .. Len(I.ops)
      PROVE  /\ I.ops[j] \in Operands(Registered)
             /\ isUse(I.ops[j]) => I.ops[j].reg \in Uses(I) /\ I.ops[j].kind # "ec" /\ I.ops[j].kind # "def"
             /\ ~isUse(I.ops[j]) => I.ops[j].reg \in Definitions(I) /\ I.ops[j].kind \in {"def", "ec"}
             /\ I.ops[j].kind = "ec" =>
                        /\ I.ops[j].reg \in Virt /\ I.ops[j].reg \notin Uses(I)
                        /\ I.ops[j].reg \in Named(I, {"ec"}) /\ I.op # "COPY"
    <2>1. I.ops[j] \in Operands(Registered)
        BY <1>1, ElementOfSeq
    <2>2. I.ops[j].kind \in Kinds
        BY <2>1 DEF Operands
    <2>3. isUse(I.ops[j]) => I.ops[j].reg \in Uses(I) /\ I.ops[j].kind # "ec" /\ I.ops[j].kind # "def"
        BY <1>2 DEF isUse, Uses, Named
    <2>4. ~isUse(I.ops[j]) => I.ops[j].reg \in Definitions(I) /\ I.ops[j].kind \in {"def", "ec"}
        BY <1>2, <2>2 DEF isUse, Definitions, Named, Kinds
    <2>5. I.ops[j].kind = "ec" => I.ops[j].reg \in Named(I, {"ec"})
        BY <1>2 DEF Named
    <2>6. Named(I, {"ec"}) \subseteq Virt \ Uses(I)
        BY DEF Sound, WellFormedInstr
    <2>7. I.op = "COPY" => I.ops[j].kind # "ec"
        <3>1. I.op = "COPY" => I.ops[1].kind = "def" /\ isUse(I.ops[2]) /\ Len(I.ops) = 2
            BY DEF Sound, WellFormedInstr
        <3> QED BY <3>1 DEF isUse
    <2> QED BY <2>1, <2>3, <2>4, <2>5, <2>6, <2>7
<1> QED BY <1>2, <1>3

\* What I finds when the allocator comes to it.
Ready(I, e, m, O, N, B, K, s) ==
    /\ SameOperands(I, At(s, m))
    /\ \A x \in Phys \cap Uses(I) : s.PhysRegState[x] \notin Virt /\ Here(e, s, m)[x] = O[x]
    /\ Agree(s, Here(e, s, m), O, N)
    /\ DOMAIN s.LiveVirtRegs \subseteq s.StackSlotForVirtReg \cup B
    /\ \A x \in K : s.PhysRegState[x] = "reserved" /\ Here(e, s, m)[x] = O[x]
    /\ CopiesKnown(s, m)

PhysUses(I) == {j \in 1 .. Len(I.ops) : isUse(I.ops[j]) /\ I.ops[j].reg \in Phys}

LEMMA FirstUnderway ==
    ASSUME NEW s \in State, NEW m, IsInstr(s.code, m), NEW I, Sound(I),
           NEW e, NEW O, NEW N, NEW B, NEW K \in SUBSET (Phys \ Uses(I)), Ready(I, e, m, O, N, B, K, s),
           NEW t, FirstDone(I, s, t, Len(I.ops))
    PROVE  /\ Outside(s, t, m) /\ t.errors = s.errors
           /\ Underway(I, e, m, O, N, B, K, t, PhysUses(I)) /\ FreeUses(I, t, m, PhysUses(I))
<1>1. SameOperands(At(s, m), At(t, m))
    BY Zenon DEF FirstDone, OnlyFlags, At, IsInstr
<1>2. SameOperands(I, At(t, m))
    BY <1>1 DEF Ready, SameOperands
<1>3. \A j \in 1 .. Len(I.ops) : Op(t, m, j).reg = I.ops[j].reg
    BY <1>2 DEF SameOperands, Op, At
<1>4. Here(e, t, m) = Here(e, s, m)
    BY DEF FirstDone, Here
<1>5. Outside(s, t, m)
    <2>1. Quiet(m, s, t)
        BY ElsewhereReflexive DEF FirstDone, Quiet
    <2> QED BY <2>1, QuietIsOutside
<1>6. Handled(I, e, m, O, t, PhysUses(I), t.UsedInInstr)
    <2>1. ASSUME NEW j \in PhysUses(I) PROVE UseHeld(I, e, m, O, t, j, t.UsedInInstr)
        <3>1. I.ops[j].reg \in t.UsedInInstr
            BY DEF FirstDone, PhysUses
        <3>2. I.ops[j].reg \in Phys \cap Uses(I)
            BY SoundInstr DEF PhysUses
        <3> QED BY <1>3, <1>4, <3>1, <3>2 DEF UseHeld, Ready, PhysUses
    <2>2. SameKinds(I, At(t, m))
        BY <1>2 DEF SameOperands, SameKinds
    <2> QED BY <1>3, <2>1, <2>2 DEF Handled, PhysUses
<1>7. FreeUses(I, t, m, PhysUses(I))
    BY <1>3 DEF FreeUses, PhysUses, FirstDone
<1>8. Apart(I, t, m, PhysUses(I))
    BY DEF Apart, PhysUses, isUse
<1>9. CopiesKnown(t, m)
    <2>1. At(t, m).op = At(s, m).op /\ At(s, m).op = I.op /\ Len(At(s, m).ops) = Len(I.ops)
        BY <1>1 DEF Ready, SameOperands
    <2>2. CASE At(t, m).op = "COPY"
        <3>1. 1 \in 1 .. Len(At(s, m).ops) /\ 2 \in 1 .. Len(At(s, m).ops)
            <4>1. Len(At(s, m).ops) = 2
                BY ZenonT(40), <2>1, <2>2 DEF Sound
            <4> QED BY <4>1
        <3>2. Op(t, m, 1).reg = Op(s, m, 1).reg /\ Op(t, m, 2).reg = Op(s, m, 2).reg
            BY <1>1, <3>1 DEF SameOperands, Op, At
        <3> QED BY <2>1, <2>2, <3>2 DEF Ready, CopiesKnown, FirstDone, SameCopies
    <2>3. CASE At(t, m).op # "COPY"
        BY <2>1, <2>3 DEF Ready, CopiesKnown, FirstDone, SameCopies
    <2> QED BY <2>2, <2>3
<1>10. Agree(t, Here(e, t, m), O, N)
    <2>1. t.LiveVirtRegs = s.LiveVirtRegs /\ Agree(s, Here(e, s, m), O, N)
        BY DEF Ready, FirstDone
    <2> QED BY Zenon, <1>4, <2>1 DEF Agree
<1>11. DOMAIN t.LiveVirtRegs \subseteq t.StackSlotForVirtReg \cup B \cup Named(I, {"ec"})
    BY DEF Ready, FirstDone
<1>12. \A x \in K : t.PhysRegState[x] = "reserved" /\ Here(e, t, m)[x] = O[x]
    BY <1>4 DEF Ready, FirstDone
<1>13. Common(I, e, m, O, N, B \cup Named(I, {"ec"}), K, t, PhysUses(I))
    BY <1>8, <1>9, <1>10, <1>11, <1>12 DEF Common
<1>14. Exposed(I, B, t, PhysUses(I))
    <2>1. Virt \cap Phys = {}
        BY RegAllocAssumption
    <2> QED BY <2>1 DEF Exposed, PhysUses
<1>15. t.errors = s.errors
    BY DEF FirstDone
<1> QED BY <1>5, <1>6, <1>7, <1>13, <1>14, <1>15 DEF Underway

-----------------------------------------------------------------------------
(***************************************************************************)
(* An operand gets its register, and the rest stays as it was.             *)
(***************************************************************************)
LEMMA SetRegRenames ==
    ASSUME NEW s \in State, NEW m, NEW k, NEW r, NEW t, t = setReg(s, m, k, r)
    PROVE  Renamed(s, t, m, k, r) /\ SameCopies(s, t)
<1>1. /\ t = SetCode(s, t.code)
      /\ Rewritten(s.code, t.code, m, k, [Op(s, m, k) EXCEPT !.reg = r])
    BY SetRegEffect
<1> QED BY <1>1, SetCodeFields DEF Renamed, SameRest, SameCopies

LEMMA CommonGives ==
    ASSUME NEW s \in State, InverseBut(s, {}), NEW m, IsInstr(s.code, m), NEW e, NEW t, NEW v, NEW r \in Phys,
           Gives(e, m, s, t, v, r), ~RanOut(t), NEW I, Sound(I), SameKinds(I, At(s, m)),
           NEW O, NEW N, NEW G, NEW K \in SUBSET Phys, NEW D, Common(I, e, m, O, N, G, K, s, D),
           Agree(t, Here(e, t, m), O, N), v \in t.StackSlotForVirtReg \cup G
    PROVE  Common(I, e, m, O, N, G, K, t, D)
<1>1. Leaves(e, m, s, t, v, r)
    BY GivesLeaves
<1>2. SameOperands(At(s, m), At(t, m))
    BY DEF Gives, Quiet, OnlyFlags, At, IsInstr
<1>3. \A j \in 1 .. Len(I.ops) : Op(t, m, j).reg = Op(s, m, j).reg
    BY Zenon, <1>2 DEF SameKinds, SameOperands, Op, At
<1>4. Apart(I, t, m, D)
    BY <1>3 DEF Common, Apart
<1>5. \A x \in K : t.PhysRegState[x] = "reserved" /\ Here(e, t, m)[x] = O[x]
    BY <1>1 DEF Common, Leaves
<1>6. DOMAIN t.LiveVirtRegs \subseteq t.StackSlotForVirtReg \cup G
    BY DEF Common, Gives, Quiet
<1>7. SameCopies(s, t) /\ At(t, m).op = At(s, m).op /\ At(s, m).op = I.op
    BY <1>2 DEF Gives, Quiet, SameOperands, SameKinds
<1>8. I.op = "COPY" => 1 \in 1 .. Len(I.ops) /\ 2 \in 1 .. Len(I.ops)
    BY SMTT(30) DEF Sound
<1>9. CopiesKnown(t, m)
    BY <1>3, <1>7, <1>8 DEF Common, CopiesKnown, SameCopies
<1> QED BY <1>4, <1>5, <1>6, <1>9 DEF Common

LEMMA CommonRenamed ==
    ASSUME NEW s \in State, NEW m, IsInstr(s.code, m), NEW k, NEW r, NEW t, Renamed(s, t, m, k, r),
           NEW I, SameKinds(I, At(s, m)), NEW e, NEW O, NEW N, NEW G, NEW K, NEW D,
           Common(I, e, m, O, N, G, K, s, D), CopiesKnown(t, m),
           \A j \in D \cap (1 .. Len(I.ops)) :
                \/ isUse(I.ops[j]) /\ I.ops[k].kind = "ec"
                \/ isUse(I.ops[k]) /\ I.ops[j].kind = "ec"
                => Op(s, m, j).reg # r
    PROVE  Common(I, e, m, O, N, G, K, t, D \cup {k})
<1>1. \A j \in 1 .. Len(I.ops) : Op(t, m, j).reg = IF j = k THEN r ELSE Op(s, m, j).reg
    <2>1. Len(At(s, m).ops) = Len(I.ops)
        BY DEF SameKinds
    <2>2. \A j \in 1 .. Len(At(s, m).ops) :
                Op(t, m, j).reg = (IF j = k THEN r ELSE Op(s, m, j).reg) /\ Op(t, m, j).kill = Op(s, m, j).kill
        <3>1. OneOperand(s, t, m, k, r)
            BY RenamedOperands
        <3> QED BY <3>1 DEF OneOperand
    <2> QED BY <2>1, <2>2
<1>2. /\ t.LiveVirtRegs = s.LiveVirtRegs /\ t.PhysRegState = s.PhysRegState
      /\ t.StackSlotForVirtReg = s.StackSlotForVirtReg /\ Here(e, t, m) = Here(e, s, m)
    BY DEF Renamed, SameRest, Here
<1>3. Apart(I, t, m, D \cup {k})
    <2>1. SUFFICES ASSUME NEW j \in (D \cup {k}) \cap (1 .. Len(I.ops)),
                          NEW l \in (D \cup {k}) \cap (1 .. Len(I.ops)),
                          isUse(I.ops[j]), I.ops[l].kind = "ec"
                   PROVE  Op(t, m, j).reg # Op(t, m, l).reg
        BY DEF Apart
    <2>2. j # l
        BY <2>1 DEF isUse
    <2>3. CASE j # k /\ l # k
        BY <1>1, <2>1, <2>3 DEF Common, Apart
    <2>4. CASE j = k
        BY <1>1, <2>1, <2>2, <2>4
    <2>5. CASE l = k
        BY <1>1, <2>1, <2>2, <2>5
    <2> QED BY <2>3, <2>4, <2>5
<1>4. Agree(t, Here(e, t, m), O, N)
    BY <1>2 DEF Common, Agree
<1> QED BY <1>2, <1>3, <1>4 DEF Common

-----------------------------------------------------------------------------
(***************************************************************************)
(* Early clobbers.                                                         *)
(***************************************************************************)
ThroughUses(I, k) == PhysUses(I) \cup {j \in 1 .. k : I.ops[j].kind = "ec"}

ThroughUnderway(I, e, m, O, N, B, K, t, k) ==
    Underway(I, e, m, O, N, B, K, t, ThroughUses(I, k)) /\ FreeUses(I, t, m, ThroughUses(I, k))

\* What a step from s to t may change, whatever else it does.
Grows(s, t, m) == Outside(s, t, m) /\ t.errors \subseteq s.errors \cup {"ran out of registers"}

LEMMA GrowsTransitive ==
    ASSUME NEW s, NEW t, NEW u, NEW m, Grows(s, t, m), Grows(t, u, m)
    PROVE  Grows(s, u, m)
BY OutsideTransitive DEF Grows

LEMMA GrowsReflexive ==
    ASSUME NEW s, NEW m
    PROVE  Grows(s, s, m)
BY OutsideReflexive DEF Grows

LEMMA GivesGrows ==
    ASSUME NEW e, NEW m, NEW s, NEW t, NEW v, NEW r, Gives(e, m, s, t, v, r)
    PROVE  Grows(s, t, m)
BY QuietIsOutside DEF Gives, Grows

LEMMA RenamedGrows ==
    ASSUME NEW s \in State, NEW t, NEW m, IsInstr(s.code, m), NEW k, NEW r, Renamed(s, t, m, k, r)
    PROVE  Grows(s, t, m)
BY RenamedIsOutside DEF Grows, Renamed, SameRest

LEMMA ThroughStepUnderway ==
    ASSUME NEW t \in State, InverseBut(t, {}), NEW m \in Places, IsPlace(t, m), IsInstr(t.code, m),
           NEW I, Sound(I), NEW k \in 1 .. Len(I.ops), NEW e, DOMAIN e = Env, NEW u, u = ThroughStep(t, m, k),
           NEW O, NEW N \in SUBSET (Virt \ Named(I, {"ec"})), NEW B, NEW K \in SUBSET Phys
    PROVE  /\ Grows(t, u, m)
           /\ ~RanOut(u) /\ ThroughUnderway(I, e, m, O, N, B, K, t, k - 1) =>
                    ThroughUnderway(I, e, m, O, N, B, K, u, k)
<1> DEFINE v == Op(t, m, k).reg
           C == ThroughUses(I, k - 1)
           D == ThroughUses(I, k)
<1>1. k \in Nat /\ (I.ops[k].kind # "ec" => D = C) /\ (I.ops[k].kind = "ec" => D = C \cup {k} /\ k \notin C)
    <2>1. k \in Nat /\ k \in 1 .. k /\ 1 .. k = 1 .. k - 1 \cup {k} /\ k \notin 1 .. k - 1
        BY SoundInstr
    <2>2. I.ops[k].kind = "ec" => k \notin C
        BY <2>1 DEF ThroughUses, PhysUses, isUse
    <2> QED BY <2>1, <2>2 DEF ThroughUses
<1>2. ThroughUnderway(I, e, m, O, N, B, K, t, k - 1) =>
        /\ SameKinds(I, At(t, m)) /\ Op(t, m, k).kind = I.ops[k].kind
        /\ I.ops[k].kind = "ec" => v = I.ops[k].reg /\ v \in Virt
    <2>1. SUFFICES ASSUME ThroughUnderway(I, e, m, O, N, B, K, t, k - 1)
                   PROVE  /\ SameKinds(I, At(t, m)) /\ Op(t, m, k).kind = I.ops[k].kind
                          /\ I.ops[k].kind = "ec" => v = I.ops[k].reg /\ v \in Virt
        OBVIOUS
    <2>2. Handled(I, e, m, O, t, C, t.UsedInInstr)
        BY <2>1 DEF ThroughUnderway, Underway
    <2>3. SameKinds(I, At(t, m)) /\ (I.ops[k].kind = "ec" => v = I.ops[k].reg)
        BY <1>1, <2>2 DEF Handled
    <2>4. Op(t, m, k).kind = I.ops[k].kind
        BY <2>3 DEF SameKinds, Op, At
    <2> QED BY <2>3, <2>4, SoundInstr
<1>3. CASE Op(t, m, k).kind # "ec" \/ v \notin Virt
    <2>1. u = t
        BY <1>3 DEF ThroughStep
    <2>2. ThroughUnderway(I, e, m, O, N, B, K, t, k - 1) => D = C
        BY <1>1, <1>2, <1>3
    <2> HIDE DEF C, D
    <2> QED BY <2>1, <2>2, GrowsReflexive DEF ThroughUnderway, C, D
<1>4. CASE ~(Op(t, m, k).kind # "ec" \/ v \notin Virt)
    <2>1. PICK w \in Virt : w = v
        BY <1>4
    <2>2. PICK a : a = defineVirtReg(t, m, k, w, None)
        OBVIOUS
    <2>3. u = setPhysReg(a, m, k, w)
        BY <1>4, <2>1, <2>2 DEF ThroughStep
    <2>4. PICK r \in Phys : Defined(e, m, t, a, w, r)
        BY <1>1, <2>2, DefineVirtRegGives
    <2>5. a \in State /\ InverseBut(a, {}) /\ IsInstr(a.code, m)
        <3>1. HasRegister(t, a, w)
            BY <1>1, <2>2, DefineVirtRegKeeps
        <3> QED BY <3>1 DEF HasRegister, Kept, SameShape, SameBlock, IsInstr
    <2>6. Gives(e, m, t, a, w, r) /\ a.LiveVirtRegs[w].PhysReg = r /\ w \in DOMAIN a.LiveVirtRegs
          /\ a.LiveVirtRegs[w].Dirty /\ r \in a.UsedInInstr /\ Preserves(e, m, t, a, w)
        BY <2>4 DEF Defined, Gives
    <2>7. Renamed(a, u, m, k, r) /\ SameCopies(a, u)
        BY <2>3, <2>5, <2>6, SetRegRenames DEF setPhysReg
    <2>8. Grows(t, u, m)
        <3>1. Grows(t, a, m)
            BY <2>6, GivesGrows
        <3>2. Grows(a, u, m)
            BY <2>5, <2>7, RenamedGrows
        <3> QED BY <3>1, <3>2, GrowsTransitive
    <2>9. ASSUME ~RanOut(u), ThroughUnderway(I, e, m, O, N, B, K, t, k - 1)
          PROVE  ThroughUnderway(I, e, m, O, N, B, K, u, k)
        <3>1. /\ I.ops[k].kind = "ec" /\ D = C \cup {k} /\ w = I.ops[k].reg
              /\ w \in Named(I, {"ec"}) /\ I.op # "COPY" /\ ~isUse(I.ops[k])
            BY <1>1, <1>2, <1>4, <2>1, <2>9, SoundInstr DEF isUse
        <3>2. ~RanOut(a)
            BY <2>7, <2>9 DEF RanOut, Renamed, SameRest
        <3>3. /\ Handled(I, e, m, O, t, C, t.UsedInInstr)
              /\ Common(I, e, m, O, N, B \cup Named(I, {"ec"}), K, t, C)
              /\ Exposed(I, B, t, C) /\ FreeUses(I, t, m, C) /\ SameKinds(I, At(t, m))
            BY <1>2, <2>9 DEF ThroughUnderway, Underway
        <3>4. Leaves(e, m, t, a, w, r)
            BY <2>6, <3>2, GivesLeaves
        <3>5. t.UsedInInstr \in SUBSET Phys /\ t.UsedInInstr \subseteq a.UsedInInstr
            BY <2>6 DEF State, Gives
        <3>6. \A x \in t.UsedInInstr : Here(e, a, m)[x] = Here(e, t, m)[x]
            BY <3>4 DEF Leaves
        <3> HIDE DEF C, D, v
        <3>7. Handled(I, e, m, O, a, C, a.UsedInInstr)
            BY <2>6, <3>2, <3>3, <3>5, <3>6, HandledGives
        <3>8. Agree(a, Here(e, a, m), O, N)
            <4>1. N \in SUBSET (Virt \ {w})
                BY <3>1
            <4> QED BY <2>6, <3>3, <4>1 DEF Preserves, Common
        <3>9. Common(I, e, m, O, N, B \cup Named(I, {"ec"}), K, a, C)
            <4>1. w \in a.StackSlotForVirtReg \cup (B \cup Named(I, {"ec"}))
                BY <3>1
            <4> QED BY <2>6, <3>2, <3>3, <3>8, <4>1, CommonGives
        <3>10. OneOperand(a, u, m, k, r) /\ SameKinds(I, At(a, m)) /\ Len(At(a, m).ops) = Len(I.ops)
            BY <2>5, <2>7, <3>7, RenamedOperands DEF Handled, SameKinds
        <3>11. \A j \in 1 .. Len(I.ops) : Op(u, m, j).reg = IF j = k THEN r ELSE Op(a, m, j).reg
            BY <3>10 DEF OneOperand
        <3>12. u.LiveVirtRegs = a.LiveVirtRegs /\ u.UsedInInstr = a.UsedInInstr
               /\ u.PhysRegState = a.PhysRegState /\ u.StackSlotForVirtReg = a.StackSlotForVirtReg
            BY Zenon, <2>7 DEF Renamed, SameRest
        <3>13. \A j \in 1 .. Len(I.ops) : Op(a, m, j).reg = Op(t, m, j).reg
            <4>1. SameOperands(At(t, m), At(a, m))
                BY <2>6 DEF Gives, Quiet, OnlyFlags, At, IsInstr
            <4> QED BY Zenon, <3>3, <4>1 DEF SameKinds, SameOperands, Op, At
        <3>14. \A j \in C \cap (1 .. Len(I.ops)) : isUse(I.ops[j]) =>
                    Op(a, m, j).reg # r /\ a.PhysRegState[Op(a, m, j).reg] = "free"
            <4>1. SUFFICES ASSUME NEW j \in C \cap (1 .. Len(I.ops)), isUse(I.ops[j])
                           PROVE  Op(t, m, j).reg # r /\ a.PhysRegState[Op(t, m, j).reg] = "free"
                BY <3>13
            <4>2. t.PhysRegState[Op(t, m, j).reg] = "free"
                BY <3>3, <4>1 DEF FreeUses
            <4>3. Op(t, m, j).reg \in t.UsedInInstr
                BY <3>3, <4>1 DEF Handled, UseHeld
            <4> QED BY <3>4, <4>2, <4>3 DEF Leaves
        <3>15. Handled(I, e, m, O, u, D, u.UsedInInstr)
            <4>1. DefHeld(I, m, u, k)
                <5>1. I.ops[k].reg \notin Phys
                    BY <3>1, RegAllocAssumption
                <5>2. Op(u, m, k).reg = r
                    BY <3>11
                <5> QED BY <2>6, <3>1, <3>12, <5>1, <5>2 DEF DefHeld
            <4>2. Handled(I, e, m, O, u, C \cup {k}, a.UsedInInstr)
                BY <2>5, <2>7, <3>1, <3>7, <4>1, HandledRenamed
            <4> QED BY <3>1, <3>12, <4>2
        <3>16. Common(I, e, m, O, N, B \cup Named(I, {"ec"}), K, u, D)
            <4>1. CopiesKnown(u, m)
                <5>1. At(u, m).op = I.op /\ At(a, m).op = I.op
                    BY <3>10 DEF OneOperand, SameKinds
                <5> QED BY <2>7, <3>1, <3>9, <5>1 DEF Common, CopiesKnown, SameCopies
            <4>2. \A j \in C \cap (1 .. Len(I.ops)) :
                    \/ isUse(I.ops[j]) /\ I.ops[k].kind = "ec"
                    \/ isUse(I.ops[k]) /\ I.ops[j].kind = "ec"
                    => Op(a, m, j).reg # r
                BY <3>1, <3>14
            <4>3. Common(I, e, m, O, N, B \cup Named(I, {"ec"}), K, u, C \cup {k})
                BY <2>5, <2>7, <3>9, <3>10, <4>1, <4>2, CommonRenamed
            <4> QED BY <3>1, <4>3
        <3>17. Exposed(I, B, u, D)
            <4>1. t.StackSlotForVirtReg \subseteq u.StackSlotForVirtReg
                BY <2>8 DEF Grows, Outside
            <4> QED BY <3>1, <3>3, <4>1 DEF Exposed
        <3>18. FreeUses(I, u, m, D)
            BY <3>1, <3>11, <3>12, <3>14 DEF FreeUses
        <3> QED BY <3>15, <3>16, <3>17, <3>18 DEF ThroughUnderway, Underway, D
    <2> QED BY <2>8, <2>9
<1> QED BY <1>3, <1>4

LEMMA InRegisters ==
    ASSUME NEW a \in State, NEW m, IsInstr(a.code, m), NEW I, SameKinds(I, At(a, m)), NEW j \in 1 .. Len(I.ops),
           NEW kinds, I.ops[j].kind \in kinds, Op(a, m, j).reg \in Phys
    PROVE  Op(a, m, j).reg \in Registers(a, m, kinds)
<1> DEFINE ops == a.code[m[1]][m[2]].ops
<1>1. DOMAIN ops = 1 .. Len(ops)
    BY InstrAt DEF State, IsInstr
<1>2. j \in DOMAIN ops /\ ops[j].kind \in kinds
    BY <1>1 DEF SameKinds, At
<1>3. ops[j] \in {x \in ToSet(ops) : x.kind \in kinds}
    BY <1>2 DEF ToSet
<1> QED BY <1>3 DEF Registers, Op

LEMMA BlockThroughUnderway ==
    ASSUME NEW a \in State, NEW m, IsInstr(a.code, m), NEW I, Sound(I), NEW D, D = ThroughUses(I, Len(I.ops)),
           NEW e, NEW O, NEW N, NEW B, NEW K, NEW t, t = BlockThrough(a, m)
    PROVE  /\ Grows(a, t, m) /\ t.errors = a.errors
           /\ Underway(I, e, m, O, N, B, K, a, D) => Underway(I, e, m, O, N, B, K, t, D)
<1> DEFINE kinds == {"ec", "use", "tied", "imp"}
           used == Registers(a, m, kinds)
<1>1. /\ t.code = a.code /\ t.inserted = a.inserted /\ t.Coalesced = a.Coalesced /\ t.errors = a.errors
      /\ t.StackSlotForVirtReg = a.StackSlotForVirtReg /\ t.LiveVirtRegs = a.LiveVirtRegs
      /\ t.PhysRegState = a.PhysRegState /\ t.UsedInInstr = used /\ t.CopySrc = a.CopySrc /\ t.CopyDst = None
    <2> HIDE DEF used
    <2>1. t = [a EXCEPT !.UsedInInstr = used, !.CopyDst = None]
        BY DEF BlockThrough, used
    <2> QED BY <2>1 DEF State
<1>2. Grows(a, t, m)
    BY <1>1 DEF Grows, Outside, SameKinds, SameOperands, Elsewhere
<1>3. ASSUME Underway(I, e, m, O, N, B, K, a, D) PROVE Underway(I, e, m, O, N, B, K, t, D)
    <2>1. /\ Handled(I, e, m, O, a, D, a.UsedInInstr) /\ Exposed(I, B, a, D)
          /\ Common(I, e, m, O, N, B \cup Named(I, {"ec"}), K, a, D)
        BY <1>3 DEF Underway
    <2>2. /\ Here(e, t, m) = Here(e, a, m) /\ At(t, m) = At(a, m) /\ \A j : Op(t, m, j) = Op(a, m, j)
        BY <1>1 DEF Here, At, Op
    <2>3. a.UsedInInstr \subseteq Phys
        BY DEF State
    <2> HIDE DEF used
    <2>4. ASSUME NEW j \in 1 .. Len(I.ops)
          PROVE  IF j \notin D THEN Op(t, m, j).reg = I.ops[j].reg
                 ELSE IF isUse(I.ops[j]) THEN UseHeld(I, e, m, O, t, j, used)
                 ELSE DefHeld(I, m, t, j)
        <3>1. CASE j \notin D
            BY <2>1, <2>2, <3>1 DEF Handled
        <3>2. CASE j \in D /\ isUse(I.ops[j])
            <4>1. UseHeld(I, e, m, O, a, j, a.UsedInInstr)
                BY <2>1, <3>2 DEF Handled
            <4>2. I.ops[j].kind \in kinds /\ Op(a, m, j).reg \in Phys /\ SameKinds(I, At(a, m))
                BY <2>1, <2>3, <3>2, <4>1 DEF isUse, UseHeld, Handled
            <4>3. Op(a, m, j).reg \in used
                BY <4>2, InRegisters DEF used
            <4> QED BY <2>2, <3>2, <4>1, <4>3 DEF UseHeld
        <3>3. CASE j \in D /\ ~isUse(I.ops[j])
            <4>1. DefHeld(I, m, a, j)
                BY <2>1, <3>3 DEF Handled
            <4>2. I.ops[j].kind = "ec" /\ I.ops[j].reg \notin Phys
                <5>1. I.ops[j].kind = "ec"
                    BY <3>3 DEF ThroughUses, PhysUses
                <5>2. I.ops[j].reg \in Virt
                    BY <5>1, SoundInstr
                <5> QED BY <5>1, <5>2, RegAllocAssumption
            <4>3. Op(a, m, j).reg \in Phys /\ SameKinds(I, At(a, m))
                BY <2>1, <2>3, <4>1, <4>2 DEF DefHeld, Handled
            <4>4. Op(a, m, j).reg \in used
                BY <4>2, <4>3, InRegisters DEF used
            <4> QED BY <1>1, <2>2, <3>3, <4>1, <4>2, <4>4 DEF DefHeld
        <3> QED BY <3>1, <3>2, <3>3
    <2>5. Handled(I, e, m, O, t, D, t.UsedInInstr)
        BY <1>1, <2>1, <2>2, <2>4 DEF Handled
    <2>6. Common(I, e, m, O, N, B \cup Named(I, {"ec"}), K, t, D)
        <3>1. CopiesKnown(t, m)
            BY <1>1, <2>1, <2>2 DEF CopiesKnown, Common
        <3>2. Agree(t, Here(e, t, m), O, N)
            BY <1>1, <2>1, <2>2 DEF Agree, Common
        <3>3. Apart(I, t, m, D)
            BY <2>1, <2>2 DEF Apart, Common
        <3> QED BY <1>1, <2>1, <2>2, <3>1, <3>2, <3>3 DEF Common
    <2>7. Exposed(I, B, t, D)
        BY <1>1, <2>1 DEF Exposed
    <2> QED BY <2>5, <2>6, <2>7 DEF Underway
<1> QED BY <1>1, <1>2, <1>3

\* After the first scan.
PhysUnderway(I, e, m, O, N, B, K, t) ==
    Underway(I, e, m, O, N, B, K, t, PhysUses(I)) /\ FreeUses(I, t, m, PhysUses(I))

LEMMA ThroughOperandsUnderway ==
    ASSUME NEW s \in State, InverseBut(s, {}), NEW m \in Places, IsPlace(s, m), IsInstr(s.code, m),
           NEW I, Sound(I), SameKinds(I, At(s, m)),
           NEW e, DOMAIN e = Env, NEW O, NEW N \in SUBSET (Virt \ Named(I, {"ec"})),
           NEW B, NEW K \in SUBSET Phys, ~RanOut(s) => PhysUnderway(I, e, m, O, N, B, K, s),
           NEW t, t = handleThroughOperands(s, m)
    PROVE  /\ Grows(s, t, m)
           /\ ~RanOut(t) => Underway(I, e, m, O, N, B, K, t, ThroughUses(I, Len(I.ops)))
<1> DEFINE l == NumOperands(s, m)
<1>1. l \in Nat /\ l = Len(I.ops)
    BY NumOperandsIsNatural DEF NumOperands, SameKinds, At
<1>2. PICK scan :
        /\ scan[0] = s
        /\ t = IF HasEarlyClobbers(s, m) THEN BlockThrough(scan[l], m) ELSE s
        /\ \A k \in 0 .. l : Kept(s, scan[k], {})
        /\ \A k \in 1 .. l : scan[k] = ThroughStep(scan[k - 1], m, k)
    BY ThroughScanRuns
<1> HIDE DEF l
<1> DEFINE T == [k \in 0 .. l |-> {a \in State :
                    Grows(s, a, m) /\ (~RanOut(a) => ThroughUnderway(I, e, m, O, N, B, K, a, k))}]
<1>3. scan[0] \in T[0]
    <2>1. ThroughUses(I, 0) = PhysUses(I)
        BY DEF ThroughUses
    <2>2. ~RanOut(s) => ThroughUnderway(I, e, m, O, N, B, K, s, 0)
        BY <2>1 DEF ThroughUnderway, PhysUnderway
    <2> QED BY <1>1, <1>2, <2>2, GrowsReflexive
<1>4. ASSUME NEW k \in 1 .. l, scan[k - 1] \in T[k - 1] PROVE scan[k] \in T[k]
    <2>1. k - 1 \in 0 .. l /\ k \in 0 .. l /\ k \in 1 .. Len(I.ops)
        BY <1>1
    <2>2. PICK a \in State : a = scan[k - 1] /\ Grows(s, a, m)
                             /\ (~RanOut(a) => ThroughUnderway(I, e, m, O, N, B, K, a, k - 1))
        BY <1>4, <2>1
    <2>3. PICK u : u = scan[k]
        OBVIOUS
    <2>4. u = ThroughStep(a, m, k) /\ u \in State /\ Kept(s, a, {})
        BY <1>2, <2>1, <2>2, <2>3 DEF Kept
    <2>5. InverseBut(a, {}) /\ IsPlace(a, m) /\ IsInstr(a.code, m)
        BY <2>2, <2>4 DEF Kept, SameShape, SameBlock, IsInstr, IsPlace, Grows, Outside, Elsewhere
    <2>6. /\ Grows(a, u, m)
          /\ ~RanOut(u) /\ ThroughUnderway(I, e, m, O, N, B, K, a, k - 1) =>
                    ThroughUnderway(I, e, m, O, N, B, K, u, k)
        BY <2>1, <2>4, <2>5, ThroughStepUnderway
    <2>7. Grows(s, u, m)
        BY <2>2, <2>6, GrowsTransitive
    <2>8. RanOut(a) => RanOut(u)
        BY <2>6 DEF Grows, Outside, RanOut
    <2> QED BY <2>1, <2>2, <2>3, <2>4, <2>6, <2>7, <2>8
<1>5. \A k \in 0 .. l : scan[k] \in T[k]
    <2> HIDE DEF T
    <2> QED BY <1>1, <1>3, <1>4, Stays
<1>6. PICK a \in State : a = scan[l] /\ Grows(s, a, m) /\ (~RanOut(a) => ThroughUnderway(I, e, m, O, N, B, K, a, l))
    <2>1. l \in 0 .. l
        BY <1>1
    <2> QED BY <1>5, <2>1
<1> HIDE DEF T
<1>7. CASE HasEarlyClobbers(s, m)
    <2>1. t = BlockThrough(a, m)
        BY <1>2, <1>6, <1>7
    <2>2. IsInstr(a.code, m)
        BY <1>6 DEF IsInstr, Grows, Outside
    <2>3. /\ Grows(a, t, m) /\ t.errors = a.errors
          /\ Underway(I, e, m, O, N, B, K, a, ThroughUses(I, Len(I.ops))) =>
                Underway(I, e, m, O, N, B, K, t, ThroughUses(I, Len(I.ops)))
        BY <2>1, <2>2, BlockThroughUnderway
    <2>4. Grows(s, t, m)
        BY <1>6, <2>3, GrowsTransitive
    <2> QED BY <1>1, <1>6, <2>3, <2>4 DEF ThroughUnderway, RanOut
<1>8. CASE ~HasEarlyClobbers(s, m)
    <2>1. t = s
        BY <1>2, <1>8
    <2>2. ThroughUses(I, Len(I.ops)) = PhysUses(I)
        <3>1. SUFFICES ASSUME NEW j \in 1 .. Len(I.ops), I.ops[j].kind = "ec" PROVE FALSE
            BY DEF ThroughUses
        <3>2. At(s, m).ops[j].kind = "ec" /\ j \in 1 .. Len(At(s, m).ops)
            BY <3>1 DEF SameKinds
        <3>3. DOMAIN At(s, m).ops = 1 .. Len(At(s, m).ops)
            BY InstrAt DEF State, IsInstr, At
        <3>4. At(s, m).ops[j] \in ToSet(At(s, m).ops)
            BY <3>2, <3>3 DEF ToSet
        <3> QED BY <1>8, <3>2, <3>4 DEF HasEarlyClobbers, At
    <2> QED BY <2>1, <2>2, GrowsReflexive DEF PhysUnderway
<1> QED BY <1>7, <1>8

-----------------------------------------------------------------------------
(***************************************************************************)
(* The use-def chains, and the second scan.                                *)
(***************************************************************************)
LEMMA InChain ==
    ASSUME NEW s \in State, NEW m, NEW k, IsOperand(s.code, m, k), NEW v, Op(s, m, k).reg = v
    PROVE  <<m[1], m[2], k>> \in Chain(s, v)
<1>1. m[1] \in DOMAIN s.code /\ m[2] \in DOMAIN s.code[m[1]] /\ k \in DOMAIN s.code[m[1]][m[2]].ops
    BY CodeDomain, InstrAt DEF State, IsOperand
<1> QED BY <1>1 DEF Chain, Op

LEMMA ChainIsIn ==
    ASSUME NEW s \in State, NEW v, NEW p \in Chain(s, v)
    PROVE  IsOperand(s.code, p, p[3]) /\ Op(s, p, p[3]).reg = v
<1>1. \E b \in DOMAIN s.code : \E i \in DOMAIN s.code[b] : \E k \in DOMAIN s.code[b][i].ops :
            p = <<b, i, k>> /\ s.code[b][i].ops[k].reg = v
    BY DEF Chain
<1>2. PICK b \in DOMAIN s.code : \E i \in DOMAIN s.code[b] : \E k \in DOMAIN s.code[b][i].ops :
            p = <<b, i, k>> /\ s.code[b][i].ops[k].reg = v
    BY <1>1
<1>3. PICK i \in DOMAIN s.code[b] : \E k \in DOMAIN s.code[b][i].ops :
            p = <<b, i, k>> /\ s.code[b][i].ops[k].reg = v
    BY <1>2
<1>4. PICK k \in DOMAIN s.code[b][i].ops : p = <<b, i, k>> /\ s.code[b][i].ops[k].reg = v
    BY <1>3
<1>5. b \in 1 .. Len(s.code)
    BY CodeDomain DEF State
<1>6. DOMAIN s.code[b] = 1 .. Len(s.code[b])
    <2>1. s.code \in Seq(Seq([op : STRING, ops : Seq(Operands(Registered))]))
        BY DEF State, Code
    <2> QED BY <1>5, <2>1, ElementOfSeq, LenProperties
<1>7. i \in 1 .. Len(s.code[b])
    BY <1>6
<1>8. k \in 1 .. Len(s.code[b][i].ops)
    BY <1>5, <1>7, InstrAt DEF State
<1>9. p[1] = b /\ p[2] = i /\ p[3] = k
    BY <1>4
<1> QED BY <1>4, <1>5, <1>7, <1>8, <1>9 DEF IsOperand, Op

\* A value that is needed behind m, and has no slot, is named elsewhere.
NeededElsewhere(s, m, W, B) ==
    \A v \in W \cap B : v \in s.StackSlotForVirtReg \/ \E p \in Chain(s, v) : p[1] # m[1] \/ p[2] # m[2]

LEMMA NeededElsewhereGrows ==
    ASSUME NEW s \in State, NEW t \in State, NEW m, NEW W, NEW B, NeededElsewhere(s, m, W, B), Outside(s, t, m)
    PROVE  NeededElsewhere(t, m, W, B)
<1> SUFFICES ASSUME NEW v \in W \cap B, v \notin t.StackSlotForVirtReg
             PROVE  \E p \in Chain(t, v) : p[1] # m[1] \/ p[2] # m[2]
    BY DEF NeededElsewhere
<1>1. v \notin s.StackSlotForVirtReg
    BY DEF Outside
<1>2. PICK p \in Chain(s, v) : p[1] # m[1] \/ p[2] # m[2]
    BY <1>1 DEF NeededElsewhere
<1>3. IsOperand(s.code, p, p[3]) /\ Op(s, p, p[3]).reg = v
    BY ChainIsIn
<1>4. SameOperands(At(s, p), At(t, p)) /\ p[1] \in 1 .. Len(t.code) /\ p[2] \in 1 .. Len(t.code[p[1]])
    BY Zenon, <1>2, <1>3 DEF IsOperand, Outside, At
<1>5. IsOperand(t.code, p, p[3]) /\ Op(t, p, p[3]).reg = v
    BY Zenon, <1>3, <1>4 DEF IsOperand, SameOperands, At, Op
<1>6. <<p[1], p[2], p[3]>> \in Chain(t, v)
    BY <1>5, InChain
<1> DEFINE q == <<p[1], p[2], p[3]>>
<1>7. q[1] = p[1] /\ q[2] = p[2]
    OBVIOUS
<1> QED BY <1>2, <1>6, <1>7

SecondUses(I, k) == ThroughUses(I, Len(I.ops)) \cup {j \in 1 .. k : isUse(I.ops[j])}

\* Needed behind operand k.
Still(I, W, k) == W \cup {v \in Virt : \E j \in k + 1 .. Len(I.ops) : isUse(I.ops[j]) /\ I.ops[j].reg = v}

LEMMA SecondUsesStep ==
    ASSUME NEW I, Sound(I), NEW k \in 1 .. Len(I.ops), NEW W
    PROVE  /\ k \in Nat /\ SecondUses(I, k - 1) \subseteq 1 .. Len(I.ops) /\ Still(I, W, k) \subseteq Still(I, W, k - 1)
           /\ \A j \in SecondUses(I, k) : isUse(I.ops[j]) \/ (I.ops[j].kind = "ec" /\ I.ops[j].reg \in Virt)
           /\ \A j \in 1 .. Len(I.ops) : isUse(I.ops[j]) /\ j \in SecondUses(I, k - 1) =>
                    I.ops[j].reg \in Phys \/ j < k
           /\ IF isUse(I.ops[k]) /\ I.ops[k].reg \in Virt
              THEN SecondUses(I, k) = SecondUses(I, k - 1) \cup {k} /\ k \notin SecondUses(I, k - 1)
              ELSE SecondUses(I, k) = SecondUses(I, k - 1)
<1>1. Len(I.ops) \in Nat /\ k \in Nat /\ 1 .. k = 1 .. k - 1 \cup {k} /\ k \notin 1 .. k - 1
    BY SoundInstr
<1>2. 1 .. k - 1 \subseteq 1 .. Len(I.ops) /\ k + 1 .. Len(I.ops) \subseteq k .. Len(I.ops)
      /\ k - 1 + 1 = k
    BY <1>1
<1>3. \A j \in ThroughUses(I, Len(I.ops)) :
        /\ j \in 1 .. Len(I.ops)
        /\ I.ops[j].kind = "ec" \/ (isUse(I.ops[j]) /\ I.ops[j].reg \in Phys)
    BY DEF ThroughUses, PhysUses
<1>4. \A j \in 1 .. Len(I.ops) : I.ops[j].kind = "ec" => I.ops[j].reg \in Virt /\ ~isUse(I.ops[j])
    BY SoundInstr
<1>5. Phys \cap Virt = {}
    BY RegAllocAssumption
<1>6. SecondUses(I, k - 1) \subseteq 1 .. Len(I.ops) /\ Still(I, W, k) \subseteq Still(I, W, k - 1)
    BY <1>1, <1>2, <1>3 DEF SecondUses, Still
<1>7. \A j \in SecondUses(I, k) : isUse(I.ops[j]) \/ (I.ops[j].kind = "ec" /\ I.ops[j].reg \in Virt)
    BY <1>3, <1>4 DEF SecondUses
<1>8. \A j \in 1 .. Len(I.ops) : isUse(I.ops[j]) /\ j \in SecondUses(I, k - 1) => I.ops[j].reg \in Phys \/ j < k
    BY <1>1, <1>3, <1>4 DEF SecondUses
<1>9. CASE isUse(I.ops[k]) /\ I.ops[k].reg \in Virt
    <2>1. k \notin SecondUses(I, k - 1)
        BY <1>1, <1>5, <1>8, <1>9
    <2>2. SecondUses(I, k) = SecondUses(I, k - 1) \cup {k}
        BY <1>1, <1>9 DEF SecondUses
    <2> QED BY <1>1, <1>6, <1>7, <1>8, <1>9, <2>1, <2>2
<1>10. CASE ~(isUse(I.ops[k]) /\ I.ops[k].reg \in Virt)
    <2>1. isUse(I.ops[k]) => k \in ThroughUses(I, Len(I.ops))
        <3>1. I.ops[k] \in Operands(Registered)
            BY SoundInstr
        <3>2. I.ops[k].reg \in Phys \cup Virt
            BY <3>1 DEF Operands, Registered
        <3> QED BY <1>10, <3>2 DEF ThroughUses, PhysUses
    <2>2. SecondUses(I, k) = SecondUses(I, k - 1)
        BY <1>1, <2>1 DEF SecondUses
    <2> QED BY <1>1, <1>6, <1>7, <1>8, <1>10, <2>2
<1> QED BY <1>9, <1>10

LEMMA UnderwayNeedsLess ==
    ASSUME NEW I, NEW e, NEW m, NEW O, NEW N, NEW M, M \subseteq N, NEW B, NEW K, NEW t, NEW D,
           Underway(I, e, m, O, N, B, K, t, D)
    PROVE  Underway(I, e, m, O, M, B, K, t, D)
<1>1. /\ Handled(I, e, m, O, t, D, t.UsedInInstr) /\ Exposed(I, B, t, D)
      /\ Common(I, e, m, O, N, B \cup Named(I, {"ec"}), K, t, D)
    BY DEF Underway
<1>2. Agree(t, Here(e, t, m), O, M)
    BY <1>1 DEF Common, Agree
<1>3. Common(I, e, m, O, M, B \cup Named(I, {"ec"}), K, t, D)
    BY <1>1, <1>2 DEF Common
<1> QED BY <1>1, <1>3 DEF Underway

\* The last use of a value.
LEMMA KillUnderway ==
    ASSUME NEW s \in State, InverseBut(s, {}), NEW m, IsInstr(s.code, m), NEW v \in DOMAIN s.LiveVirtRegs,
           NEW t, t = killVirtReg(s, v), NEW I, Sound(I), NEW e, NEW O, NEW N, NEW M, M \subseteq N,
           NEW B, NEW K \in SUBSET Phys, NEW D, Underway(I, e, m, O, N, B, K, s, D),
           \A j \in D : I.ops[j].reg = v => isUse(I.ops[j]),
           v \in M => ~s.LiveVirtRegs[v].Dirty
    PROVE  Underway(I, e, m, O, M, B, K, t, D)
<1>1. /\ Removed(s, t, v) /\ Quiet(m, s, t) /\ t.inserted = s.inserted
      /\ t.StackSlotForVirtReg = s.StackSlotForVirtReg /\ t.UsedInInstr = s.UsedInInstr
    BY KillEffect
<1>2. /\ Handled(I, e, m, O, s, D, s.UsedInInstr) /\ Exposed(I, B, s, D)
      /\ Common(I, e, m, O, N, B \cup Named(I, {"ec"}), K, s, D)
    BY DEF Underway
<1>3. Handled(I, e, m, O, t, D, t.UsedInInstr)
    BY <1>1, <1>2, HandledKill
<1>4. SameOperands(At(s, m), At(t, m)) /\ SameKinds(I, At(s, m))
    BY ZenonT(40), <1>1, <1>2 DEF Quiet, OnlyFlags, At, IsInstr, Handled
<1>5. \A j \in 1 .. Len(I.ops) : Op(t, m, j).reg = Op(s, m, j).reg
    BY <1>4 DEF SameKinds, SameOperands, Op, At
<1>6. Here(e, t, m) = Here(e, s, m)
    BY <1>1 DEF Here
<1>7. /\ DOMAIN t.LiveVirtRegs = DOMAIN s.LiveVirtRegs \ {v}
      /\ \A w \in DOMAIN t.LiveVirtRegs : t.LiveVirtRegs[w] = s.LiveVirtRegs[w]
    BY <1>1 DEF Removed
<1>8. Apart(I, t, m, D)
    BY <1>2, <1>5 DEF Common, Apart
<1>9. Agree(t, Here(e, t, m), O, M)
    <2>1. Agree(s, Here(e, s, m), O, N)
        BY <1>2 DEF Common
    <2> SUFFICES ASSUME NEW w \in M
                 PROVE  /\ w \in DOMAIN t.LiveVirtRegs => Here(e, t, m)[t.LiveVirtRegs[w].PhysReg] = O[w]
                        /\ (w \in DOMAIN t.LiveVirtRegs => ~t.LiveVirtRegs[w].Dirty) =>
                                Here(e, t, m)[<<w>>] = O[w]
        BY DEF Agree
    <2>2. /\ w \in DOMAIN s.LiveVirtRegs => Here(e, s, m)[s.LiveVirtRegs[w].PhysReg] = O[w]
          /\ (w \in DOMAIN s.LiveVirtRegs => ~s.LiveVirtRegs[w].Dirty) => Here(e, s, m)[<<w>>] = O[w]
        BY <2>1 DEF Agree
    <2>3. CASE w = v
        BY <1>6, <1>7, <2>2, <2>3
    <2>4. CASE w # v
        BY <1>6, <1>7, <2>2, <2>4
    <2> QED BY <2>3, <2>4
<1>10. \A x \in K : t.PhysRegState[x] = "reserved" /\ Here(e, t, m)[x] = O[x]
    <2> SUFFICES ASSUME NEW x \in K PROVE t.PhysRegState[x] = "reserved" /\ Here(e, t, m)[x] = O[x]
        OBVIOUS
    <2>1. s.PhysRegState[x] = "reserved" /\ Here(e, s, m)[x] = O[x] /\ x \in Phys
        BY <1>2 DEF Common
    <2>2. s.LiveVirtRegs[v].PhysReg # x
        BY <2>1, StatesAreNotVirtual
    <2>3. s.PhysRegState \in [Phys -> Virt \cup PhysRegStates]
        BY DEF State
    <2>4. t.PhysRegState[x] = "reserved"
        BY <1>1, <2>1, <2>2, <2>3 DEF Removed
    <2> QED BY <1>6, <2>1, <2>4
<1>11. CopiesKnown(t, m)
    <2>1. SameCopies(s, t) /\ At(t, m).op = At(s, m).op /\ At(s, m).op = I.op
        BY <1>1, <1>4 DEF Quiet, SameOperands, SameKinds
    <2>2. I.op = "COPY" => 1 \in 1 .. Len(I.ops) /\ 2 \in 1 .. Len(I.ops)
        BY SMTT(30) DEF Sound
    <2> QED BY <1>2, <1>5, <2>1, <2>2 DEF Common, CopiesKnown, SameCopies
<1>12. Common(I, e, m, O, M, B \cup Named(I, {"ec"}), K, t, D)
    BY <1>1, <1>2, <1>7, <1>8, <1>9, <1>10, <1>11 DEF Common
<1>13. Exposed(I, B, t, D)
    BY <1>1, <1>2 DEF Exposed
<1> QED BY <1>3, <1>12, <1>13 DEF Underway

\* After the reload of the value v, its register r is written into operand k.
SetUsed(a, c, m, k, v, r) ==
    /\ Renamed(a, c, m, k, r) /\ c.CopyDst = a.CopyDst /\ c.CopySrc \in {r, None}
    /\ c \in State /\ InverseBut(c, {}) /\ v \in DOMAIN c.LiveVirtRegs

LEMMA SetUseEffect ==
    ASSUME NEW a \in State, InverseBut(a, {}), NEW m, IsInstr(a.code, m), NEW k, NEW v \in DOMAIN a.LiveVirtRegs,
           NEW r \in Phys, a.LiveVirtRegs[v].PhysReg = r,
           NEW u, u = setUse(a, m, k, v)
    PROVE  \E c : SetUsed(a, c, m, k, v, r) /\ u = IF Op(a, m, k).kill THEN killVirtReg(c, v) ELSE c
<1> DEFINE b == setPhysReg(a, m, k, v)
           src == Follow(b.CopySrc, v, r)
           c == SetCopy(b, src, b.CopyDst)
<1>1. Kept(a, b, {}) /\ v \in DOMAIN b.LiveVirtRegs
    BY SetPhysRegKeeps DEF HasRegister
<1>2. src \in {r, None}
    BY DEF Follow
<1>3. u = IF Op(a, m, k).kill THEN killVirtReg(c, v) ELSE c
    <2>1. [b EXCEPT !.CopySrc = Follow(@, v, a.LiveVirtRegs[v].PhysReg)] = c
        BY <1>1 DEF Kept, State, SetCopy
    <2> QED BY <2>1 DEF setUse
<1>4. Renamed(a, b, m, k, r) /\ SameCopies(a, b)
    BY SetRegRenames DEF setPhysReg
<1> HIDE DEF b, src
<1>5. Kept(b, c, {}) /\ c.LiveVirtRegs = b.LiveVirtRegs
    <2>1. b \in State /\ InverseBut(b, {}) /\ b.CopyDst \in Registered \cup {None}
        BY <1>1 DEF Kept, State
    <2>2. src \in Registered \cup {None}
        BY <1>2 DEF Registered
    <2> QED BY <2>1, <2>2, SetCopyKeeps
<1>6. /\ c.code = b.code /\ c.inserted = b.inserted /\ c.Coalesced = b.Coalesced
      /\ c.StackSlotForVirtReg = b.StackSlotForVirtReg /\ c.PhysRegState = b.PhysRegState
      /\ c.UsedInInstr = b.UsedInInstr /\ c.errors = b.errors /\ c.CopyDst = b.CopyDst /\ c.CopySrc = src
    BY <1>1 DEF Kept, State, SetCopy
<1> HIDE DEF c
<1>7. Renamed(a, c, m, k, r)
    BY <1>4, <1>5, <1>6 DEF Renamed, SameRest
<1>8. SetUsed(a, c, m, k, v, r)
    BY <1>1, <1>2, <1>4, <1>5, <1>6, <1>7 DEF SetUsed, SameCopies, Kept
<1> QED BY <1>3, <1>8

\* No operand of D defines v.
OnlyUsed(I, D, v) == \A j \in D : I.ops[j].reg = v => isUse(I.ops[j])

LEMMA HandledReload ==
    ASSUME NEW s \in State, InverseBut(s, {}), NEW m, IsInstr(s.code, m), NEW e, NEW t, NEW v, NEW r \in Phys,
           Gives(e, m, s, t, v, r), ~RanOut(t),
           NEW I, NEW O, NEW D, Handled(I, e, m, O, s, D, s.UsedInInstr),
           \A x \in s.UsedInInstr : Here(e, t, m)[x] = Here(e, s, m)[x], OnlyUsed(I, D, v)
    PROVE  Handled(I, e, m, O, t, D, t.UsedInInstr)
<1>1. PICK P \in SUBSET Phys : P = s.UsedInInstr
    BY DEF State
<1>2. PICK Q : Q = t.UsedInInstr
    OBVIOUS
<1>3. /\ Handled(I, e, m, O, s, D, P) /\ P \subseteq Q
      /\ \A x \in P : Here(e, t, m)[x] = Here(e, s, m)[x]
    BY <1>1, <1>2 DEF Gives
<1>4. t.LiveVirtRegs[v].Dirty \/ \A j \in D : I.ops[j].reg = v => isUse(I.ops[j])
    BY DEF OnlyUsed
<1>5. Handled(I, e, m, O, t, D, Q)
    BY <1>3, <1>4, HandledGives
<1> QED BY <1>2, <1>5

\* Operand k reads v.
LEMMA UseUnderway ==
    ASSUME NEW t \in State, InverseBut(t, {}), NEW m, IsInstr(t.code, m), NEW I, Sound(I), NEW k \in 1 .. Len(I.ops),
           isUse(I.ops[k]), NEW v \in Virt, v = I.ops[k].reg, NEW e, NEW r \in Phys,
           NEW a \in State, InverseBut(a, {}), ReadyToUse(e, m, t, a, k, v, r), ~RanOut(a),
           NEW c, SetUsed(a, c, m, k, v, r),
           NEW O, NEW N \in SUBSET Virt, v \in N, NEW B, NEW K \in SUBSET Phys, NEW C \in SUBSET (1 .. Len(I.ops)),
           \A j \in C : isUse(I.ops[j]) \/ (I.ops[j].kind = "ec" /\ I.ops[j].reg \in Virt),
           Underway(I, e, m, O, N, B, K, t, C)
    PROVE  Underway(I, e, m, O, N, B, K, c, C \cup {k})
<1>1. /\ Handled(I, e, m, O, t, C, t.UsedInInstr) /\ Exposed(I, B, t, C)
      /\ Common(I, e, m, O, N, B \cup Named(I, {"ec"}), K, t, C)
    BY DEF Underway
<1>2. /\ Gives(e, m, t, a, v, r) /\ r \in a.UsedInInstr /\ v \in DOMAIN t.LiveVirtRegs \cup a.StackSlotForVirtReg
      /\ Agree(a, Here(e, a, m), O, N)
    BY <1>1 DEF ReadyToUse, Common
<1>3. /\ v \in DOMAIN a.LiveVirtRegs /\ a.LiveVirtRegs[v].PhysReg = r
      /\ t.UsedInInstr \subseteq a.UsedInInstr /\ t.StackSlotForVirtReg \subseteq a.StackSlotForVirtReg
    BY <1>2 DEF Gives, Quiet
<1>4. v \in Uses(I) /\ v \notin Named(I, {"ec"}) /\ I.ops[k].kind # "ec"
    BY SoundInstr DEF Sound, WellFormedInstr
<1>5. v \in a.StackSlotForVirtReg \cup B
    BY <1>1, <1>2, <1>3, <1>4 DEF Common
<1>6. SameOperands(At(t, m), At(a, m)) /\ SameKinds(I, At(t, m))
    BY <1>1, <1>2 DEF Gives, Quiet, OnlyFlags, At, IsInstr, Handled
<1>7. SameKinds(I, At(a, m)) /\ IsInstr(a.code, m)
    <2>1. IsInstr(a.code, m)
        BY <1>2 DEF Gives, Quiet, OnlyFlags, IsInstr
    <2> QED BY <1>6, <2>1 DEF SameOperands, SameKinds
<1>8. \A j \in C : I.ops[j].reg = v => isUse(I.ops[j])
    BY <1>4, SoundInstr
<1>9. Handled(I, e, m, O, a, C, a.UsedInInstr)
    <2>1. \A x \in t.UsedInInstr : Here(e, a, m)[x] = Here(e, t, m)[x]
        <3>1. Leaves(e, m, t, a, v, r)
            BY <1>2, GivesLeaves
        <3> QED BY <3>1 DEF Leaves
    <2>2. OnlyUsed(I, C, v)
        BY <1>8 DEF OnlyUsed
    <2> QED BY <1>1, <1>2, <2>1, <2>2, HandledReload
<1>10. Common(I, e, m, O, N, B \cup Named(I, {"ec"}), K, a, C)
    <2>1. v \in a.StackSlotForVirtReg \cup (B \cup Named(I, {"ec"}))
        BY <1>5
    <2> QED BY <1>1, <1>2, <1>6, <2>1, CommonGives
<1>11. /\ Renamed(a, c, m, k, r) /\ c.CopyDst = a.CopyDst /\ c.CopySrc \in {r, None}
    BY DEF SetUsed
<1>12. /\ c.UsedInInstr = a.UsedInInstr /\ c.StackSlotForVirtReg = a.StackSlotForVirtReg
       /\ Here(e, c, m) = Here(e, a, m)
    BY <1>11 DEF Renamed, SameRest, Here
<1>13. OneOperand(a, c, m, k, r)
    BY <1>7, <1>11, RenamedOperands
<1>14. \A j \in 1 .. Len(I.ops) : Op(c, m, j).reg = IF j = k THEN r ELSE Op(a, m, j).reg
    <2>1. Len(At(a, m).ops) = Len(I.ops)
        BY <1>7 DEF SameKinds
    <2> QED BY <1>13, <2>1 DEF OneOperand
<1>15. Handled(I, e, m, O, c, C \cup {k}, c.UsedInInstr)
    <2>1. Op(c, m, k).reg = r
        BY <1>14
    <2>2. Here(e, a, m)[r] = O[v]
        BY <1>2, <1>3 DEF Agree
    <2>3. UseHeld(I, e, m, O, c, k, a.UsedInInstr)
        BY <1>2, <1>12, <2>1, <2>2 DEF UseHeld
    <2>4. Handled(I, e, m, O, c, C \cup {k}, a.UsedInInstr)
        BY <1>7, <1>9, <1>11, <2>3, HandledRenamed
    <2> QED BY <1>12, <2>4
<1>16. Common(I, e, m, O, N, B \cup Named(I, {"ec"}), K, c, C \cup {k})
    <2>1. CopiesKnown(c, m)
        <3>1. At(c, m).op = At(a, m).op /\ At(a, m).op = I.op
            BY <1>7, <1>13 DEF OneOperand, SameKinds
        <3>2. CASE I.op = "COPY"
            <4>1. k = 2 /\ 1 \in 1 .. Len(I.ops) /\ 2 \in 1 .. Len(I.ops)
                <5>1. Len(I.ops) = 2 /\ I.ops[1].kind = "def"
                    BY <3>2 DEF Sound, WellFormedInstr
                <5>2. k # 1
                    BY <5>1 DEF isUse
                <5> QED BY <5>1, <5>2
            <4>2. Op(c, m, 2).reg = r /\ Op(c, m, 1).reg = Op(a, m, 1).reg
                BY <1>14, <4>1
            <4> QED BY <1>10, <1>11, <3>1, <3>2, <4>2 DEF CopiesKnown, Common
        <3>3. CASE I.op # "COPY"
            BY <1>10, <1>11, <3>1, <3>3 DEF CopiesKnown, Common
        <3> QED BY <3>2, <3>3
    <2>2. ASSUME NEW j \in C \cap (1 .. Len(I.ops)), I.ops[j].kind = "ec" PROVE Op(a, m, j).reg # r
        <3>1. I.ops[j].reg \in Virt /\ I.ops[j].reg # v /\ ~isUse(I.ops[j])
            BY <1>4, <2>2, SoundInstr
        <3>2. I.ops[j].reg \notin Phys
            BY <3>1, RegAllocAssumption
        <3>3. DefHeld(I, m, a, j)
            BY <1>9, <3>1 DEF Handled
        <3>4. I.ops[j].reg \in DOMAIN a.LiveVirtRegs /\ a.LiveVirtRegs[I.ops[j].reg].PhysReg = Op(a, m, j).reg
            BY <3>2, <3>3 DEF DefHeld
        <3>5. a.PhysRegState[Op(a, m, j).reg] = I.ops[j].reg /\ a.PhysRegState[r] = v
            BY <1>3, <3>4, StatesAreNotVirtual
        <3> QED BY <3>1, <3>5
    <2>3. \A j \in C \cap (1 .. Len(I.ops)) :
                \/ isUse(I.ops[j]) /\ I.ops[k].kind = "ec"
                \/ isUse(I.ops[k]) /\ I.ops[j].kind = "ec"
                => Op(a, m, j).reg # r
        BY <1>4, <2>2
    <2> QED BY <1>7, <1>10, <1>11, <2>1, <2>3, CommonRenamed
<1>17. Exposed(I, B, c, C \cup {k})
    BY <1>1, <1>3, <1>5, <1>12 DEF Exposed
<1> QED BY <1>15, <1>16, <1>17 DEF Underway

SecondUnderway(I, e, m, O, W, B, K, t, k) == Underway(I, e, m, O, Still(I, W, k), B, K, t, SecondUses(I, k))

\* A value that is killed is not needed any more, unless its slot has it.
LEMMA KilledIsDone ==
    ASSUME NEW t \in State, NEW m, IsInstr(t.code, m), NEW I, Sound(I), NEW k \in 1 .. Len(I.ops), isUse(I.ops[k]),
           NEW v \in Virt, v = I.ops[k].reg, NEW e, NEW r, NEW a, ReadyToUse(e, m, t, a, k, v, r),
           Op(a, m, k).kill, a.LiveVirtRegs[v].Dirty,
           NEW O, NEW W, NEW B, NEW K, NeededElsewhere(t, m, W, B), SecondUnderway(I, e, m, O, W, B, K, t, k - 1)
    PROVE  v \notin Still(I, W, k)
<1>1. /\ Handled(I, e, m, O, t, SecondUses(I, k - 1), t.UsedInInstr)
      /\ Common(I, e, m, O, Still(I, W, k - 1), B \cup Named(I, {"ec"}), K, t, SecondUses(I, k - 1))
    BY DEF SecondUnderway, Underway
<1>2. SameKinds(I, At(t, m)) /\ Len(At(t, m).ops) = Len(I.ops)
    BY <1>1 DEF Handled, SameKinds
<1>3. IsOperand(t.code, m, k)
    BY <1>2 DEF IsOperand, IsInstr, At
<1>4. v \in DOMAIN t.LiveVirtRegs /\ v \notin t.StackSlotForVirtReg /\ Chain(t, v) = {<<m[1], m[2], k>>}
    BY <1>3 DEF ReadyToUse, isLastUseOfLocalReg
<1>5. v \in B
    <2>1. v \in Uses(I)
        BY SoundInstr
    <2>2. v \notin Named(I, {"ec"})
        BY <2>1 DEF Sound, WellFormedInstr
    <2> QED BY <1>1, <1>4, <2>2 DEF Common
<1>6. v \notin W
    <2>1. \A p \in Chain(t, v) : p[1] = m[1] /\ p[2] = m[2]
        BY <1>4
    <2> QED BY <1>4, <1>5, <2>1 DEF NeededElsewhere
<1>7. ASSUME NEW j \in k + 1 .. Len(I.ops), isUse(I.ops[j]), I.ops[j].reg = v PROVE FALSE
    <2>1. k \in Nat /\ Len(I.ops) \in Nat
        BY SoundInstr
    <2>2. j \in 1 .. Len(I.ops) /\ j # k /\ ~(j < k)
        BY <2>1
    <2>3. v \notin Phys
        BY RegAllocAssumption
    <2>4. j \notin SecondUses(I, k - 1)
        BY <1>7, <2>2, <2>3, SecondUsesStep
    <2>5. Op(t, m, j).reg = v
        BY <1>1, <1>7, <2>2, <2>4 DEF Handled
    <2>6. IsOperand(t.code, m, j)
        BY <1>2, <2>2 DEF IsOperand, IsInstr, At
    <2>7. <<m[1], m[2], j>> \in Chain(t, v)
        BY <2>5, <2>6, InChain
    <2> QED BY <1>4, <2>2, <2>7
<1> QED BY <1>6, <1>7 DEF Still

LEMMA SecondStepUnderway ==
    ASSUME NEW t \in State, InverseBut(t, {}), NEW m \in Places, IsPlace(t, m), IsInstr(t.code, m),
           NEW I, Sound(I), NEW k \in 1 .. Len(I.ops), NEW e, DOMAIN e = Env, NEW u, u = SecondStep(t, m, k),
           NEW O, NEW W \in SUBSET Virt, NEW B, NEW K \in SUBSET Phys, NeededElsewhere(t, m, W, B)
    PROVE  /\ Grows(t, u, m)
           /\ ~RanOut(u) /\ SecondUnderway(I, e, m, O, W, B, K, t, k - 1) =>
                    SecondUnderway(I, e, m, O, W, B, K, u, k)
<1> DEFINE C == SecondUses(I, k - 1)
           D == SecondUses(I, k)
           N == Still(I, W, k - 1)
           M == Still(I, W, k)
<1>1. /\ k \in Nat /\ C \subseteq 1 .. Len(I.ops) /\ M \subseteq N
      /\ \A j \in D : isUse(I.ops[j]) \/ (I.ops[j].kind = "ec" /\ I.ops[j].reg \in Virt)
      /\ IF isUse(I.ops[k]) /\ I.ops[k].reg \in Virt THEN D = C \cup {k} /\ k \notin C ELSE D = C
    BY SecondUsesStep
<1>2. SecondUnderway(I, e, m, O, W, B, K, t, k - 1) =>
        /\ isUse(Op(t, m, k)) <=> isUse(I.ops[k])
        /\ isUse(I.ops[k]) => (I.ops[k].reg \in Virt <=> Op(t, m, k).reg \in Virt)
        /\ isUse(I.ops[k]) /\ I.ops[k].reg \in Virt => Op(t, m, k).reg = I.ops[k].reg
    <2>1. SUFFICES ASSUME SecondUnderway(I, e, m, O, W, B, K, t, k - 1)
                   PROVE  /\ isUse(Op(t, m, k)) <=> isUse(I.ops[k])
                          /\ isUse(I.ops[k]) => (I.ops[k].reg \in Virt <=> Op(t, m, k).reg \in Virt)
                          /\ isUse(I.ops[k]) /\ I.ops[k].reg \in Virt => Op(t, m, k).reg = I.ops[k].reg
        OBVIOUS
    <2>2. Handled(I, e, m, O, t, C, t.UsedInInstr)
        BY Zenon, <2>1 DEF SecondUnderway, Underway
    <2>3. isUse(Op(t, m, k)) <=> isUse(I.ops[k])
        BY <2>2 DEF Handled, SameKinds, Op, At, isUse
    <2>4. k \notin C => Op(t, m, k).reg = I.ops[k].reg
        BY <2>2 DEF Handled
    <2>5. k \in C /\ isUse(I.ops[k]) => Op(t, m, k).reg \in Phys
        <3>1. k \in C /\ isUse(I.ops[k]) => UseHeld(I, e, m, O, t, k, t.UsedInInstr)
            BY <2>2 DEF Handled
        <3>2. t.UsedInInstr \in SUBSET Phys
            BY DEF State
        <3> QED BY <3>1, <3>2 DEF UseHeld
    <2>6. Phys \cap Virt = {}
        BY RegAllocAssumption
    <2> HIDE DEF C
    <2> QED BY <1>1, <2>3, <2>4, <2>5, <2>6
<1>3. CASE Op(t, m, k).reg \notin Virt \/ ~isUse(Op(t, m, k))
    <2>1. u = t
        BY <1>3 DEF SecondStep
    <2>2. ASSUME SecondUnderway(I, e, m, O, W, B, K, t, k - 1) PROVE SecondUnderway(I, e, m, O, W, B, K, t, k)
        <3>1. D = C /\ M \subseteq N
            BY <1>1, <1>2, <1>3, <2>2
        <3>2. Underway(I, e, m, O, N, B, K, t, C)
            BY <2>2 DEF SecondUnderway
        <3> HIDE DEF C, D, M, N
        <3>3. Underway(I, e, m, O, M, B, K, t, C)
            BY <3>1, <3>2, UnderwayNeedsLess
        <3> QED BY <3>1, <3>3 DEF SecondUnderway, C, D, M, N
    <2> QED BY <2>1, <2>2, GrowsReflexive
<1>4. CASE ~(Op(t, m, k).reg \notin Virt \/ ~isUse(Op(t, m, k)))
    <2>1. PICK v \in Virt : v = Op(t, m, k).reg
        BY <1>4
    <2>2. PICK a : a = reloadVirtReg(t, m, k, v, t.CopyDst)
        OBVIOUS
    <2>3. u = setUse(a, m, k, v)
        BY <1>4, <2>1, <2>2 DEF SecondStep
    <2>4. PICK r \in Phys : ReadyToUse(e, m, t, a, k, v, r)
        BY <1>1, <2>2, ReloadVirtRegGives
    <2>5. Gives(e, m, t, a, v, r) /\ v \in DOMAIN a.LiveVirtRegs /\ a.LiveVirtRegs[v].PhysReg = r
        BY <2>4 DEF ReadyToUse, Gives
    <2>6. a \in State /\ InverseBut(a, {})
        <3>1. HasRegister(t, a, v)
            BY <1>1, <2>2, ReloadVirtRegKeeps
        <3> QED BY <3>1 DEF HasRegister, Kept
    <2>7. IsInstr(a.code, m)
        BY <2>5 DEF Gives, Quiet, OnlyFlags, IsInstr
    <2>8. PICK c : SetUsed(a, c, m, k, v, r) /\ u = IF Op(a, m, k).kill THEN killVirtReg(c, v) ELSE c
        BY <2>3, <2>5, <2>6, <2>7, SetUseEffect
    <2>9. Renamed(a, c, m, k, r) /\ c \in State /\ InverseBut(c, {}) /\ v \in DOMAIN c.LiveVirtRegs
        BY <2>8 DEF SetUsed
    <2>10. c.errors = a.errors /\ c.LiveVirtRegs = a.LiveVirtRegs
        BY <2>9 DEF Renamed, SameRest
    <2>11. Grows(t, c, m)
        <3>1. Grows(t, a, m)
            BY <2>5, GivesGrows
        <3>2. Grows(a, c, m)
            BY <2>6, <2>7, <2>9, RenamedGrows
        <3> QED BY <3>1, <3>2, GrowsTransitive
    <2>12. IsInstr(c.code, m)
        BY <2>11 DEF IsInstr, Grows, Outside
    <2>13. Grows(c, u, m) /\ u.errors = c.errors
        <3>1. CASE ~Op(a, m, k).kill
            BY <2>8, <3>1, GrowsReflexive
        <3>2. CASE Op(a, m, k).kill
            <4>1. u = killVirtReg(c, v)
                BY <2>8, <3>2
            <4>2. Quiet(m, c, u) /\ u.errors = c.errors
                BY <2>9, <4>1, KillEffect
            <4> QED BY <4>2, QuietIsOutside DEF Grows
        <3> QED BY <3>1, <3>2
    <2>14. Grows(t, u, m)
        BY <2>11, <2>13, GrowsTransitive
    <2>15. ASSUME ~RanOut(u), SecondUnderway(I, e, m, O, W, B, K, t, k - 1)
           PROVE  SecondUnderway(I, e, m, O, W, B, K, u, k)
        <3>1. isUse(I.ops[k]) /\ v = I.ops[k].reg /\ D = C \cup {k}
            BY <1>1, <1>2, <1>4, <2>1, <2>15
        <3>2. ~RanOut(a) /\ ~RanOut(c)
            BY <2>10, <2>13, <2>15 DEF RanOut
        <3>3. v \in N /\ N \in SUBSET Virt
            <4>1. k \in k - 1 + 1 .. Len(I.ops)
                BY <1>1
            <4> QED BY <3>1, <4>1 DEF Still
        <3>4. Underway(I, e, m, O, N, B, K, t, C)
            BY <2>15 DEF SecondUnderway
        <3>5. C \in SUBSET (1 .. Len(I.ops))
              /\ \A j \in C : isUse(I.ops[j]) \/ (I.ops[j].kind = "ec" /\ I.ops[j].reg \in Virt)
            BY <1>1, <3>1
        <3> HIDE DEF C, D, M, N
        <3>6. Underway(I, e, m, O, N, B, K, c, C \cup {k})
            BY <2>4, <2>6, <2>8, <3>1, <3>2, <3>3, <3>4, <3>5, UseUnderway
        <3>7. CASE ~Op(a, m, k).kill
            <4>1. u = c
                BY <2>8, <3>7
            <4>2. Underway(I, e, m, O, M, B, K, c, C \cup {k})
                BY <1>1, <3>6, UnderwayNeedsLess
            <4> QED BY <3>1, <4>1, <4>2 DEF SecondUnderway, D, M
        <3>8. CASE Op(a, m, k).kill
            <4>1. u = killVirtReg(c, v)
                BY <2>8, <3>8
            <4>2. v \in M => ~c.LiveVirtRegs[v].Dirty
                BY <2>4, <2>10, <2>15, <3>1, <3>8, KilledIsDone DEF M
            <4>3. PICK E : E = C \cup {k}
                OBVIOUS
            <4>4. \A j \in E : I.ops[j].reg = v => isUse(I.ops[j])
                <5>1. v \in Uses(I)
                    BY <3>1, SoundInstr
                <5> QED BY <3>1, <3>5, <4>3, <5>1, SoundInstr
            <4>5. Underway(I, e, m, O, N, B, K, c, E)
                BY <3>6, <4>3
            <4>6. Underway(I, e, m, O, M, B, K, u, E)
                BY <1>1, <2>9, <2>12, <4>1, <4>2, <4>4, <4>5, KillUnderway
            <4> QED BY <3>1, <4>3, <4>6 DEF SecondUnderway, D, M
        <3> QED BY <3>7, <3>8
    <2> QED BY <2>14, <2>15
<1> QED BY <1>3, <1>4

AllUses(I) == {j \in 1 .. Len(I.ops) : isUse(I.ops[j]) \/ I.ops[j].kind = "ec"}

LEMMA SecondScanUnderway ==
    ASSUME NEW s \in State, InverseBut(s, {}), NEW m \in Places, IsPlace(s, m), IsInstr(s.code, m),
           NEW I, Sound(I), SameKinds(I, At(s, m)), NEW e, DOMAIN e = Env, NEW t, t = SecondScan(s, m),
           NEW O, NEW W \in SUBSET Virt, NEW B, NEW K \in SUBSET Phys, NeededElsewhere(s, m, W, B),
           ~RanOut(s) => Underway(I, e, m, O, Still(I, W, 0), B, K, s, ThroughUses(I, Len(I.ops)))
    PROVE  /\ Grows(s, t, m)
           /\ ~RanOut(t) => Underway(I, e, m, O, W, B, K, t, AllUses(I))
<1> DEFINE l == NumOperands(s, m)
<1>1. l \in Nat /\ l = Len(I.ops)
    BY NumOperandsIsNatural DEF NumOperands, SameKinds, At
<1>2. PICK scan : /\ scan[0] = s
                  /\ SecondScan(s, m) = scan[l]
                  /\ \A k \in 0 .. l : Kept(s, scan[k], {})
                  /\ \A k \in 1 .. l : scan[k] = SecondStep(scan[k - 1], m, k)
    BY SecondScanRuns
<1> HIDE DEF l
<1> DEFINE T == [k \in 0 .. l |-> {a \in State :
                    Grows(s, a, m) /\ (~RanOut(a) => SecondUnderway(I, e, m, O, W, B, K, a, k))}]
<1>3. scan[0] \in T[0]
    <2>1. SecondUses(I, 0) = ThroughUses(I, Len(I.ops))
        BY DEF SecondUses
    <2>2. ~RanOut(s) => SecondUnderway(I, e, m, O, W, B, K, s, 0)
        BY <2>1 DEF SecondUnderway
    <2> QED BY <1>1, <1>2, <2>2, GrowsReflexive
<1>4. ASSUME NEW k \in 1 .. l, scan[k - 1] \in T[k - 1] PROVE scan[k] \in T[k]
    <2>1. k - 1 \in 0 .. l /\ k \in 0 .. l /\ k \in 1 .. Len(I.ops)
        BY <1>1
    <2>2. PICK a \in State : a = scan[k - 1] /\ Grows(s, a, m)
                             /\ (~RanOut(a) => SecondUnderway(I, e, m, O, W, B, K, a, k - 1))
        BY <1>4, <2>1
    <2>3. PICK u : u = scan[k]
        OBVIOUS
    <2>4. u = SecondStep(a, m, k) /\ u \in State /\ Kept(s, a, {})
        BY <1>2, <2>1, <2>2, <2>3 DEF Kept
    <2>5. InverseBut(a, {}) /\ IsPlace(a, m) /\ IsInstr(a.code, m)
        BY <2>2, <2>4 DEF Kept, SameShape, SameBlock, IsInstr, IsPlace, Grows, Outside, Elsewhere
    <2>6. NeededElsewhere(a, m, W, B)
        BY <2>2, NeededElsewhereGrows DEF Grows
    <2>7. /\ Grows(a, u, m)
          /\ ~RanOut(u) /\ SecondUnderway(I, e, m, O, W, B, K, a, k - 1) =>
                    SecondUnderway(I, e, m, O, W, B, K, u, k)
        BY <2>1, <2>4, <2>5, <2>6, SecondStepUnderway
    <2>8. Grows(s, u, m)
        BY <2>2, <2>7, GrowsTransitive
    <2>9. RanOut(a) => RanOut(u)
        BY <2>7 DEF Grows, Outside, RanOut
    <2> QED BY <2>1, <2>2, <2>3, <2>4, <2>7, <2>8, <2>9
<1>5. \A k \in 0 .. l : scan[k] \in T[k]
    <2> HIDE DEF T
    <2> QED BY <1>1, <1>3, <1>4, Stays
<1>6. Grows(s, t, m) /\ (~RanOut(t) => SecondUnderway(I, e, m, O, W, B, K, t, l))
    <2>1. l \in 0 .. l
        BY <1>1
    <2>2. t \in T[l]
        BY <1>2, <1>5, <2>1
    <2> QED BY <2>1, <2>2
<1>7. SecondUses(I, l) = AllUses(I)
    BY <1>1 DEF SecondUses, ThroughUses, PhysUses, AllUses
<1>8. Still(I, W, l) = W
    BY <1>1 DEF Still
<1> HIDE DEF T
<1> QED BY <1>6, <1>7, <1>8 DEF SecondUnderway

-----------------------------------------------------------------------------
(***************************************************************************)
(* Values leave their registers for a call and at the end of a block.      *)
(***************************************************************************)
KeepsAgreement(e, m, s, t) ==
    \A O : \A N \in SUBSET Virt : Agree(s, Here(e, s, m), O, N) => Agree(t, Here(e, t, m), O, N)

Emptying(e, m, s, t) ==
    /\ Quiet(m, s, t) /\ t.errors = s.errors /\ t.UsedInInstr = s.UsedInInstr
    /\ \A x \in Phys :
            /\ s.PhysRegState[x] = "reserved" => t.PhysRegState[x] = "reserved"
            /\ Here(e, t, m)[x] = Here(e, s, m)[x]
    /\ KeepsAgreement(e, m, s, t)

LEMMA EmptyingReflexive ==
    ASSUME NEW e, NEW m, NEW s
    PROVE  Emptying(e, m, s, s)
BY QuietReflexive DEF Emptying, KeepsAgreement

LEMMA EmptyingTransitive ==
    ASSUME NEW e, NEW m, NEW s, NEW t, NEW u, Emptying(e, m, s, t), Emptying(e, m, t, u)
    PROVE  Emptying(e, m, s, u)
<1>1. Quiet(m, s, u)
    BY QuietTransitive DEF Emptying
<1>2. KeepsAgreement(e, m, s, u)
    BY DEF Emptying, KeepsAgreement
<1> QED BY <1>1, <1>2 DEF Emptying

LEMMA SpilledEmpties ==
    ASSUME NEW s \in State, InverseBut(s, {}), NEW v \in DOMAIN s.LiveVirtRegs, NEW e, NEW m, NEW t,
           Spilled(e, m, s, t, v)
    PROVE  Emptying(e, m, s, t)
<1>1. /\ Removed(s, t, v) /\ Quiet(m, s, t) /\ t.UsedInInstr = s.UsedInInstr /\ t.errors = s.errors
      /\ AfterSpill(Here(e, t, m), Here(e, s, m), s, v)
    BY DEF Spilled
<1>2. v \in Virt /\ <<v>> \in Env /\ <<v>> \notin Phys /\ s.LiveVirtRegs[v].PhysReg \in Phys
    BY StatesAreNotVirtual, SlotsApart
<1>3. ASSUME NEW x \in Phys
      PROVE  /\ s.PhysRegState[x] = "reserved" => t.PhysRegState[x] = "reserved"
             /\ Here(e, t, m)[x] = Here(e, s, m)[x]
    <2>1. Here(e, t, m)[x] = Here(e, s, m)[x]
        BY <1>1, <1>2 DEF AfterSpill, Env
    <2>2. s.PhysRegState[x] = "reserved" => s.LiveVirtRegs[v].PhysReg # x
        BY StatesAreNotVirtual
    <2>3. s.PhysRegState \in [Phys -> Virt \cup PhysRegStates]
        BY DEF State
    <2>4. s.PhysRegState[x] = "reserved" => t.PhysRegState[x] = "reserved"
        BY <1>1, <2>2, <2>3 DEF Removed
    <2> QED BY <2>1, <2>4
<1>4. ASSUME NEW O, NEW N \in SUBSET Virt, Agree(s, Here(e, s, m), O, N)
      PROVE  Agree(t, Here(e, t, m), O, N)
    <2> SUFFICES ASSUME NEW w \in N
                 PROVE  /\ w \in DOMAIN t.LiveVirtRegs => Here(e, t, m)[t.LiveVirtRegs[w].PhysReg] = O[w]
                        /\ (w \in DOMAIN t.LiveVirtRegs => ~t.LiveVirtRegs[w].Dirty) =>
                                Here(e, t, m)[<<w>>] = O[w]
        BY DEF Agree
    <2>1. /\ w \in DOMAIN s.LiveVirtRegs => Here(e, s, m)[s.LiveVirtRegs[w].PhysReg] = O[w]
          /\ (w \in DOMAIN s.LiveVirtRegs => ~s.LiveVirtRegs[w].Dirty) => Here(e, s, m)[<<w>>] = O[w]
        BY <1>4 DEF Agree
    <2>2. /\ DOMAIN t.LiveVirtRegs = DOMAIN s.LiveVirtRegs \ {v}
          /\ \A x \in DOMAIN t.LiveVirtRegs : t.LiveVirtRegs[x] = s.LiveVirtRegs[x]
        BY <1>1 DEF Removed
    <2>3. CASE w = v
        <3>1. Here(e, t, m)[<<v>>] =
                IF s.LiveVirtRegs[v].Dirty THEN Here(e, s, m)[s.LiveVirtRegs[v].PhysReg] ELSE Here(e, s, m)[<<v>>]
            BY <1>1, <1>2 DEF AfterSpill
        <3> QED BY <2>1, <2>2, <2>3, <3>1
    <2>4. CASE w # v
        <3>1. <<w>> \in Env /\ <<w>> # <<v>>
            BY <2>4, SlotsApart
        <3>2. Here(e, t, m)[<<w>>] = Here(e, s, m)[<<w>>]
            BY <1>1, <3>1 DEF AfterSpill
        <3>3. CASE w \in DOMAIN s.LiveVirtRegs
            <4>1. w \in DOMAIN t.LiveVirtRegs /\ t.LiveVirtRegs[w] = s.LiveVirtRegs[w]
                  /\ s.LiveVirtRegs[w].PhysReg \in Phys
                BY <2>2, <2>4, <3>3, StatesAreNotVirtual
            <4> QED BY <1>3, <2>1, <3>2, <3>3, <4>1
        <3>4. CASE w \notin DOMAIN s.LiveVirtRegs
            BY <2>1, <2>2, <3>2, <3>4
        <3> QED BY <3>3, <3>4
    <2> QED BY <2>3, <2>4
<1> QED BY <1>1, <1>3, <1>4 DEF Emptying, KeepsAgreement

LEMMA SpillAllEffect ==
    ASSUME NEW s \in State, InverseBut(s, {}), NEW m, IsPlace(s, m), NEW e, DOMAIN e = Env,
           NEW t, t = spillAll(s, m)
    PROVE  Emptying(e, m, s, t) /\ DOMAIN t.LiveVirtRegs = {} /\ Kept(s, t, {})
<1>1. PICK l \in Nat : \E spilled :
            /\ spilled[0] = s /\ spillAll(s, m) = spilled[l]
            /\ \A n \in 0 .. l : Kept(s, spilled[n], {})
            /\ \A n \in 1 .. l : SpillStep(spilled[n - 1], spilled[n], m)
            /\ DOMAIN spilled[l].LiveVirtRegs = {}
    BY SpillAllRuns
<1>2. PICK spilled :
            /\ spilled[0] = s /\ spillAll(s, m) = spilled[l]
            /\ \A n \in 0 .. l : Kept(s, spilled[n], {})
            /\ \A n \in 1 .. l : SpillStep(spilled[n - 1], spilled[n], m)
            /\ DOMAIN spilled[l].LiveVirtRegs = {}
    BY <1>1
<1> DEFINE T == {a \in State : Emptying(e, m, s, a)}
<1>3. spilled[0] \in T
    BY <1>2, EmptyingReflexive
<1>4. ASSUME NEW n \in 1 .. l, spilled[n - 1] \in T PROVE spilled[n] \in T
    <2>1. n - 1 \in 0 .. l /\ n \in 0 .. l
        OBVIOUS
    <2> PICK u : u = spilled[n]
        OBVIOUS
    <2>2. PICK a \in State : a = spilled[n - 1] /\ u = spilled[n] /\ Emptying(e, m, s, a)
        BY <1>4
    <2>3. InverseBut(a, {}) /\ u \in State /\ SpillStep(a, u, m)
        BY <1>2, <2>1, <2>2 DEF Kept
    <2>4. PICK v \in DOMAIN a.LiveVirtRegs : u = spillVirtReg(a, m, v)
        BY <2>3 DEF SpillStep
    <2>5. IsPlace(a, m) /\ a.LiveVirtRegs[v].PhysReg \in Phys
        BY <2>2, <2>3, QuietPlace, StatesAreNotVirtual DEF Emptying
    <2>6. Spilled(e, m, a, u, v)
        BY <2>4, <2>5, SpillEffect
    <2>7. Emptying(e, m, a, u)
        BY <2>3, <2>6, SpilledEmpties
    <2>8. Emptying(e, m, s, u)
        BY <2>2, <2>7, EmptyingTransitive
    <2> QED BY <2>2, <2>3, <2>8
<1>5. \A n \in 0 .. l : spilled[n] \in T
    <2> HIDE DEF T
    <2> QED BY <1>3, <1>4, StaysIn
<1>6. l \in 0 .. l
    OBVIOUS
<1>7. t \in T /\ Kept(s, t, {})
    BY <1>2, <1>5, <1>6
<1> QED BY <1>2, <1>7

-----------------------------------------------------------------------------
(***************************************************************************)
(* The third scan.                                                         *)
(***************************************************************************)
ThirdUses(I, k) == AllUses(I) \cup {j \in 1 .. k : I.ops[j].kind = "def"}

ThirdUnderway(I, e, m, O, W, B, K, t, k) ==
    /\ Handled(I, e, m, O, t, ThirdUses(I, k), Phys)
    /\ Common(I, e, m, O, W, B \cup Definitions(I), K, t, ThirdUses(I, k))
    /\ Exposed(I, B, t, AllUses(I))
    /\ I.op = "CALL" => DOMAIN t.LiveVirtRegs = {}

\* Between the second scan and the third.
UsedReset(I, e, m, O, W, B, K, t) ==
    /\ Handled(I, e, m, O, t, AllUses(I), Phys)
    /\ Common(I, e, m, O, W, B \cup Definitions(I), K, t, AllUses(I))
    /\ Exposed(I, B, t, AllUses(I))

LEMMA ResetUsedUnderway ==
    ASSUME NEW a \in State, NEW m, IsInstr(a.code, m), NEW I, Sound(I),
           NEW e, NEW O, NEW W, NEW B, NEW K, NEW t, t = ResetUsedInInstr(a, m)
    PROVE  /\ Grows(a, t, m) /\ t.errors = a.errors
           /\ Underway(I, e, m, O, W, B, K, a, AllUses(I)) => UsedReset(I, e, m, O, W, B, K, t)
<1> DEFINE D == AllUses(I)
           kinds == {"ec"}
           used == Registers(a, m, kinds)
<1>1. /\ t.code = a.code /\ t.inserted = a.inserted /\ t.Coalesced = a.Coalesced /\ t.errors = a.errors
      /\ t.StackSlotForVirtReg = a.StackSlotForVirtReg /\ t.LiveVirtRegs = a.LiveVirtRegs
      /\ t.PhysRegState = a.PhysRegState /\ t.UsedInInstr = used /\ t.CopySrc = a.CopySrc /\ t.CopyDst = a.CopyDst
    <2> HIDE DEF used
    <2>1. t = [a EXCEPT !.UsedInInstr = used]
        BY DEF ResetUsedInInstr, used
    <2> QED BY <2>1 DEF State
<1>2. Grows(a, t, m)
    BY <1>1 DEF Grows, Outside, SameKinds, SameOperands, Elsewhere
<1>3. ASSUME Underway(I, e, m, O, W, B, K, a, AllUses(I)) PROVE UsedReset(I, e, m, O, W, B, K, t)
    <2>1. /\ Handled(I, e, m, O, a, D, a.UsedInInstr) /\ Exposed(I, B, a, D)
          /\ Common(I, e, m, O, W, B \cup Named(I, {"ec"}), K, a, D)
        BY <1>3 DEF Underway
    <2>2. /\ Here(e, t, m) = Here(e, a, m) /\ At(t, m) = At(a, m) /\ \A j : Op(t, m, j) = Op(a, m, j)
        BY <1>1 DEF Here, At, Op
    <2>3. a.UsedInInstr \subseteq Phys
        BY DEF State
    <2> HIDE DEF used
    <2>4. ASSUME NEW j \in 1 .. Len(I.ops)
          PROVE  IF j \notin D THEN Op(t, m, j).reg = I.ops[j].reg
                 ELSE IF isUse(I.ops[j]) THEN UseHeld(I, e, m, O, t, j, Phys)
                 ELSE DefHeld(I, m, t, j)
        <3>1. CASE j \notin D
            BY <2>1, <2>2, <3>1 DEF Handled
        <3>2. CASE j \in D /\ isUse(I.ops[j])
            <4>1. UseHeld(I, e, m, O, a, j, a.UsedInInstr)
                BY <2>1, <3>2 DEF Handled
            <4> QED BY <2>2, <2>3, <3>2, <4>1 DEF UseHeld
        <3>3. CASE j \in D /\ ~isUse(I.ops[j])
            <4>1. DefHeld(I, m, a, j)
                BY <2>1, <3>3 DEF Handled
            <4>2. I.ops[j].kind = "ec" /\ I.ops[j].reg \notin Phys
                <5>1. I.ops[j].kind = "ec"
                    BY <3>3 DEF AllUses
                <5>2. I.ops[j].reg \in Virt
                    BY <5>1, SoundInstr
                <5> QED BY <5>1, <5>2, RegAllocAssumption
            <4>3. Op(a, m, j).reg \in Phys /\ SameKinds(I, At(a, m)) /\ I.ops[j].kind \in kinds
                BY <2>1, <2>3, <4>1, <4>2 DEF DefHeld, Handled
            <4>4. Op(a, m, j).reg \in used
                BY <4>3, InRegisters DEF used
            <4> QED BY <1>1, <2>2, <3>3, <4>1, <4>2, <4>4 DEF DefHeld
        <3> QED BY <3>1, <3>2, <3>3
    <2>5. Handled(I, e, m, O, t, D, Phys)
        BY <2>1, <2>2, <2>4 DEF Handled
    <2>6. Common(I, e, m, O, W, B \cup Definitions(I), K, t, D)
        <3>1. CopiesKnown(t, m)
            BY <1>1, <2>1, <2>2 DEF CopiesKnown, Common
        <3>2. Agree(t, Here(e, t, m), O, W)
            BY <1>1, <2>1, <2>2 DEF Agree, Common
        <3>3. Apart(I, t, m, D)
            BY <2>1, <2>2 DEF Apart, Common
        <3>4. Named(I, {"ec"}) \subseteq Definitions(I)
            BY DEF Named, Definitions
        <3>5. DOMAIN t.LiveVirtRegs \subseteq t.StackSlotForVirtReg \cup (B \cup Definitions(I))
            BY <1>1, <2>1, <3>4 DEF Common
        <3> QED BY <1>1, <2>1, <2>2, <3>1, <3>2, <3>3, <3>5 DEF Common
    <2>7. Exposed(I, B, t, D)
        BY <1>1, <2>1 DEF Exposed
    <2> QED BY <2>5, <2>6, <2>7 DEF UsedReset
<1> QED BY <1>1, <1>2, <1>3

LEMMA EmptyingGrows ==
    ASSUME NEW e, NEW m, NEW s, NEW t, Emptying(e, m, s, t)
    PROVE  Grows(s, t, m)
BY QuietIsOutside DEF Emptying, Grows

LEMMA SpillForCallUnderway ==
    ASSUME NEW s \in State, InverseBut(s, {}), NEW m, IsPlace(s, m), IsInstr(s.code, m), NEW I, Sound(I),
           SameKinds(I, At(s, m)),
           NEW e, DOMAIN e = Env, NEW O, NEW W \in SUBSET Virt, NEW B, NEW K \in SUBSET Phys,
           NEW t, t = spillForCall(s, m)
    PROVE  /\ Grows(s, t, m) /\ t.errors = s.errors
           /\ UsedReset(I, e, m, O, W, B, K, s) => ThirdUnderway(I, e, m, O, W, B, K, t, 0)
<1>1. I.op = s.code[m[1]][m[2]].op
    BY DEF SameKinds, At
<1>2. ThirdUses(I, 0) = AllUses(I)
    BY DEF ThirdUses
<1>3. CASE I.op # "CALL"
    <2>1. t = s
        BY <1>1, <1>3 DEF spillForCall
    <2> QED BY <1>2, <1>3, <2>1, GrowsReflexive DEF UsedReset, ThirdUnderway
<1>4. CASE I.op = "CALL"
    <2>1. t = spillAll(s, m)
        BY <1>1, <1>4 DEF spillForCall
    <2>2. Emptying(e, m, s, t) /\ DOMAIN t.LiveVirtRegs = {}
        BY <2>1, SpillAllEffect
    <2>3. Grows(s, t, m) /\ t.errors = s.errors
        BY <2>2, EmptyingGrows DEF Emptying
    <2>4. ASSUME UsedReset(I, e, m, O, W, B, K, s) PROVE ThirdUnderway(I, e, m, O, W, B, K, t, 0)
        <3>1. /\ Handled(I, e, m, O, s, AllUses(I), Phys) /\ Exposed(I, B, s, AllUses(I))
              /\ Common(I, e, m, O, W, B \cup Definitions(I), K, s, AllUses(I))
            BY <2>4 DEF UsedReset
        <3>2. Quiet(m, s, t) /\ \A x \in Phys :
                    /\ s.PhysRegState[x] = "reserved" => t.PhysRegState[x] = "reserved"
                    /\ Here(e, t, m)[x] = Here(e, s, m)[x]
            BY <2>2 DEF Emptying
        <3>3. SameOperands(At(s, m), At(t, m))
            BY Zenon, <3>2 DEF Quiet, OnlyFlags, At, IsInstr
        <3>4. \A j \in 1 .. Len(I.ops) : Op(t, m, j).reg = Op(s, m, j).reg
            BY Zenon, <3>3 DEF SameKinds, SameOperands, Op, At
        <3>5. SameKinds(I, At(t, m))
            BY <3>3 DEF SameKinds, SameOperands
        <3>6. \A j \in 1 .. Len(I.ops) : isUse(I.ops[j]) /\ I.ops[j].kind # "ec"
            <4>1. Definitions(I) = {}
                BY <1>4 DEF Sound, WellFormedInstr
            <4> QED BY <4>1, SoundInstr
        <3>7. Handled(I, e, m, O, t, AllUses(I), Phys)
            <4>1. ASSUME NEW j \in 1 .. Len(I.ops), j \in AllUses(I) PROVE UseHeld(I, e, m, O, t, j, Phys)
                <5>1. UseHeld(I, e, m, O, s, j, Phys)
                    BY <3>1, <3>6, <4>1 DEF Handled
                <5> QED BY <3>2, <3>4, <5>1 DEF UseHeld
            <4>2. \A j \in 1 .. Len(I.ops) : j \in AllUses(I)
                BY <3>6 DEF AllUses
            <4> QED BY <3>5, <3>6, <4>1, <4>2 DEF Handled
        <3>8. Common(I, e, m, O, W, B \cup Definitions(I), K, t, AllUses(I))
            <4>1. Apart(I, t, m, AllUses(I))
                BY <3>6 DEF Apart
            <4>2. Agree(t, Here(e, t, m), O, W)
                BY <2>2, <3>1 DEF Emptying, KeepsAgreement, Common
            <4>3. CopiesKnown(t, m)
                <5>1. At(t, m).op # "COPY" /\ At(s, m).op # "COPY" /\ SameCopies(s, t)
                    BY <1>4, <3>2, <3>5 DEF SameKinds, Quiet
                <5> QED BY <3>1, <5>1 DEF Common, CopiesKnown, SameCopies
            <4>4. \A x \in K : t.PhysRegState[x] = "reserved" /\ Here(e, t, m)[x] = O[x]
                BY <3>1, <3>2 DEF Common
            <4> QED BY <2>2, <4>1, <4>2, <4>3, <4>4 DEF Common
        <3>9. Exposed(I, B, t, AllUses(I))
            BY <3>1, <3>2 DEF Exposed, Quiet
        <3> QED BY <1>2, <2>2, <3>7, <3>8, <3>9 DEF ThirdUnderway
    <2> QED BY <2>3, <2>4
<1> QED BY <1>3, <1>4

LEMMA ThirdUsesStep ==
    ASSUME NEW I, Sound(I), NEW k \in 1 .. Len(I.ops)
    PROVE  /\ k \in Nat
           /\ I.ops[k].kind # "def" => ThirdUses(I, k) = ThirdUses(I, k - 1)
           /\ I.ops[k].kind = "def" =>
                    /\ ThirdUses(I, k) = ThirdUses(I, k - 1) \cup {k} /\ k \notin ThirdUses(I, k - 1)
                    /\ ~isUse(I.ops[k]) /\ I.ops[k].kind # "ec" /\ I.op # "CALL" /\ I.ops[k].reg \in Definitions(I)
<1>1. k \in Nat /\ 1 .. k = 1 .. k - 1 \cup {k} /\ k \notin 1 .. k - 1
    BY SoundInstr
<1>2. ASSUME I.ops[k].kind = "def"
      PROVE  ~isUse(I.ops[k]) /\ I.ops[k].kind # "ec" /\ I.op # "CALL" /\ I.ops[k].reg \in Definitions(I)
    <2>1. ~isUse(I.ops[k]) /\ I.ops[k].kind # "ec"
        BY <1>2 DEF isUse
    <2>2. I.ops[k].reg \in Definitions(I)
        BY <2>1, SoundInstr
    <2> QED BY <2>1, <2>2 DEF Sound, WellFormedInstr
<1>3. I.ops[k].kind = "def" => k \notin ThirdUses(I, k - 1)
    BY <1>1, <1>2 DEF ThirdUses, AllUses
<1> QED BY <1>1, <1>2, <1>3 DEF ThirdUses

LEMMA CopyHasTwo ==
    ASSUME NEW I, Sound(I), I.op = "COPY"
    PROVE  Len(I.ops) = 2 /\ 1 \in 1 .. Len(I.ops) /\ 2 \in 1 .. Len(I.ops)
<1>1. Len(I.ops) = 2
    BY DEF Sound
<1> QED BY <1>1

\* A definition of the physical register r.
LEMMA DefinePhysUnderway ==
    ASSUME NEW t \in State, InverseBut(t, {}), NEW m, IsPlace(t, m), IsInstr(t.code, m),
           NEW I, Sound(I), NEW k \in 1 .. Len(I.ops), I.ops[k].kind = "def", NEW e, DOMAIN e = Env,
           NEW r \in Phys, r = I.ops[k].reg, NEW u, u = definePhysReg(t, m, r, "reserved"),
           NEW O, NEW W \in SUBSET Virt, NEW B, NEW K \in SUBSET Phys,
           ThirdUnderway(I, e, m, O, W, B, K, t, k - 1)
    PROVE  ThirdUnderway(I, e, m, O, W, B, K, u, k)
<1> DEFINE C == ThirdUses(I, k - 1)
           D == ThirdUses(I, k)
<1>1. /\ Handled(I, e, m, O, t, C, Phys) /\ Common(I, e, m, O, W, B \cup Definitions(I), K, t, C)
      /\ Exposed(I, B, t, AllUses(I))
    BY DEF ThirdUnderway
<1>2. D = C \cup {k} /\ k \notin C /\ ~isUse(I.ops[k]) /\ I.op # "CALL" /\ r \in Definitions(I)
    BY ThirdUsesStep
<1> HIDE DEF C, D
<1>3. /\ Quiet(m, t, u) /\ Evicts(e, m, t, u, r) /\ u.PhysRegState[r] = "reserved"
      /\ u.UsedInInstr = t.UsedInInstr \cup {r} /\ u.errors = t.errors
    <2>1. PICK state \in PhysRegStates : state = "reserved"
        BY DEF PhysRegStates
    <2>2. u = definePhysReg(t, m, r, state)
        BY <2>1
    <2>3. /\ Quiet(m, t, u) /\ Evicts(e, m, t, u, r) /\ u.PhysRegState[r] = state
          /\ u.UsedInInstr = t.UsedInInstr \cup {r} /\ u.errors = t.errors
        BY <2>2, DefinePhysRegEffect
    <2> QED BY <2>1, <2>3
<1>4. \A x \in Phys : Here(e, u, m)[x] = Here(e, t, m)[x]
    <2> SUFFICES ASSUME NEW x \in Phys PROVE Here(e, u, m)[x] = Here(e, t, m)[x]
        BY ZenonT(40)
    <2>1. Here(e, u, m)[x] =
            IF /\ x = <<t.PhysRegState[r]>> /\ t.PhysRegState[r] \in DOMAIN t.LiveVirtRegs
               /\ t.LiveVirtRegs[t.PhysRegState[r]].Dirty
            THEN Here(e, t, m)[r] ELSE Here(e, t, m)[x]
        BY <1>3 DEF Evicts, Env
    <2>2. t.PhysRegState[r] \in DOMAIN t.LiveVirtRegs => x # <<t.PhysRegState[r]>>
        BY SMTT(30), StatesAreNotVirtual, SlotsApart
    <2> QED BY <2>1, <2>2
<1>5. \A x \in Phys : t.PhysRegState[x] = "reserved" => u.PhysRegState[x] = "reserved"
    BY <1>3 DEF Evicts
<1>6. SameOperands(At(t, m), At(u, m)) /\ SameKinds(I, At(t, m))
    BY Zenon, <1>1, <1>3 DEF Quiet, OnlyFlags, At, IsInstr, Handled
<1>7. \A j \in 1 .. Len(I.ops) : Op(u, m, j).reg = Op(t, m, j).reg
    BY Zenon, <1>6 DEF SameKinds, SameOperands, Op, At
<1>8. SameKinds(I, At(u, m))
    BY <1>6 DEF SameKinds, SameOperands
<1>9. Definitions(I) \subseteq Phys
    BY <1>2, RegAllocAssumption DEF Sound, WellFormedInstr
<1>10. Handled(I, e, m, O, u, D, Phys)
    <2>1. ASSUME NEW j \in 1 .. Len(I.ops), j \notin D PROVE Op(u, m, j).reg = I.ops[j].reg
        BY <1>1, <1>2, <1>7, <2>1 DEF Handled
    <2>2. ASSUME NEW j \in 1 .. Len(I.ops), j \in D, isUse(I.ops[j]) PROVE UseHeld(I, e, m, O, u, j, Phys)
        <3>1. UseHeld(I, e, m, O, t, j, Phys)
            BY <1>1, <1>2, <2>2 DEF Handled
        <3> QED BY <1>4, <1>7, <3>1 DEF UseHeld
    <2>3. ASSUME NEW j \in 1 .. Len(I.ops), j \in D, ~isUse(I.ops[j]) PROVE DefHeld(I, m, u, j)
        <3>1. I.ops[j].reg \in Phys
            BY <1>9, <2>3, SoundInstr
        <3>2. CASE j = k
            <4>1. Op(t, m, j).reg = I.ops[j].reg
                BY <1>1, <1>2, <3>2 DEF Handled
            <4> QED BY <1>3, <1>7, <3>1, <3>2, <4>1 DEF DefHeld
        <3>3. CASE j # k
            <4>1. DefHeld(I, m, t, j)
                BY <1>1, <1>2, <2>3, <3>3 DEF Handled
            <4> QED BY <1>5, <1>7, <3>1, <4>1 DEF DefHeld
        <3> QED BY <3>2, <3>3
    <2> QED BY <1>8, <2>1, <2>2, <2>3 DEF Handled
<1>11. Common(I, e, m, O, W, B \cup Definitions(I), K, u, D)
    <2>1. Apart(I, u, m, D)
        <3>1. \A j \in 1 .. Len(I.ops) : I.ops[j].kind # "ec"
            <4>1. Phys \cap Virt = {}
                BY RegAllocAssumption
            <4> QED BY <1>9, <4>1, SoundInstr DEF isUse
        <3> QED BY <3>1 DEF Apart
    <2>2. Agree(u, Here(e, u, m), O, W)
        <3>1. PICK V : V = {}
            OBVIOUS
        <3>2. InverseBut(t, V) /\ W \in SUBSET (Virt \ V) /\ Agree(t, Here(e, t, m), O, W)
            BY <1>1, <3>1 DEF Common
        <3> QED BY <1>3, <3>2, EvictAgrees
    <2>3. DOMAIN u.LiveVirtRegs \subseteq u.StackSlotForVirtReg \cup (B \cup Definitions(I))
        BY <1>1, <1>3 DEF Common, Evicts, Quiet
    <2>4. \A x \in K : u.PhysRegState[x] = "reserved" /\ Here(e, u, m)[x] = O[x]
        BY <1>1, <1>4, <1>5 DEF Common
    <2>5. CopiesKnown(u, m)
        <3>1. SameCopies(t, u) /\ At(u, m).op = At(t, m).op /\ At(t, m).op = I.op
            BY <1>3, <1>6 DEF Quiet, SameOperands, SameKinds
        <3>2. I.op = "COPY" => 1 \in 1 .. Len(I.ops) /\ 2 \in 1 .. Len(I.ops)
            BY CopyHasTwo
        <3> QED BY <1>1, <1>7, <3>1, <3>2 DEF Common, CopiesKnown, SameCopies
    <2> QED BY <2>1, <2>2, <2>3, <2>4, <2>5 DEF Common
<1>12. Exposed(I, B, u, AllUses(I))
    BY <1>1, <1>3 DEF Exposed, Quiet
<1> QED BY <1>2, <1>10, <1>11, <1>12 DEF ThirdUnderway, D

\* After its definition, the register r of the value v is written into operand k.
SetDefined(a, c, m, k, v, r) ==
    /\ Renamed(a, c, m, k, r) /\ c.CopySrc = a.CopySrc /\ c.CopyDst = Follow(a.CopyDst, v, r)
    /\ c \in State /\ InverseBut(c, {}) /\ v \in DOMAIN c.LiveVirtRegs

LEMMA SetDefinitionEffect ==
    ASSUME NEW a \in State, InverseBut(a, {}), NEW m, IsInstr(a.code, m), NEW k, NEW v \in DOMAIN a.LiveVirtRegs,
           NEW r \in Phys, a.LiveVirtRegs[v].PhysReg = r,
           NEW c, c = setDefinition(a, m, k, v)
    PROVE  SetDefined(a, c, m, k, v, r)
<1> DEFINE b == setPhysReg(a, m, k, v)
           dst == Follow(b.CopyDst, v, r)
<1>1. Kept(a, b, {}) /\ v \in DOMAIN b.LiveVirtRegs
    BY SetPhysRegKeeps DEF HasRegister
<1>2. c = SetCopy(b, b.CopySrc, dst)
    BY <1>1 DEF setDefinition, Kept, State, SetCopy
<1>3. Renamed(a, b, m, k, r) /\ SameCopies(a, b)
    BY SetRegRenames DEF setPhysReg
<1>4. dst \in Registered \cup {None} /\ dst = Follow(a.CopyDst, v, r)
    BY <1>3 DEF Follow, Registered, SameCopies
<1> HIDE DEF b, dst
<1>5. Kept(b, c, {}) /\ c.LiveVirtRegs = b.LiveVirtRegs
    <2>1. b \in State /\ InverseBut(b, {}) /\ b.CopySrc \in Registered \cup {None}
        BY <1>1 DEF Kept, State
    <2> QED BY <1>2, <1>4, <2>1, SetCopyKeeps
<1>6. /\ c.code = b.code /\ c.inserted = b.inserted /\ c.Coalesced = b.Coalesced
      /\ c.StackSlotForVirtReg = b.StackSlotForVirtReg /\ c.PhysRegState = b.PhysRegState
      /\ c.UsedInInstr = b.UsedInInstr /\ c.errors = b.errors /\ c.CopySrc = b.CopySrc /\ c.CopyDst = dst
    BY <1>1, <1>2 DEF Kept, State, SetCopy
<1>7. Renamed(a, c, m, k, r)
    BY <1>3, <1>5, <1>6 DEF Renamed, SameRest
<1> QED BY <1>1, <1>3, <1>4, <1>5, <1>6, <1>7 DEF SetDefined, SameCopies, Kept

LEMMA HandledDefine ==
    ASSUME NEW s \in State, InverseBut(s, {}), NEW m, IsInstr(s.code, m), NEW e, NEW t, NEW v, NEW r \in Phys,
           Gives(e, m, s, t, v, r), ~RanOut(t), t.LiveVirtRegs[v].Dirty,
           \A x \in Phys : Here(e, t, m)[x] = Here(e, s, m)[x],
           NEW I, NEW O, NEW D, Handled(I, e, m, O, s, D, Phys)
    PROVE  Handled(I, e, m, O, t, D, Phys)
BY HandledGives

\* Operand k defines the value v.
LEMMA DefineVirtUnderway ==
    ASSUME NEW t \in State, InverseBut(t, {}), NEW m, IsInstr(t.code, m),
           NEW I, Sound(I), NEW k \in 1 .. Len(I.ops), I.ops[k].kind = "def",
           NEW v \in Virt, v = I.ops[k].reg, NEW e, NEW r \in Phys,
           NEW a \in State, InverseBut(a, {}), Defined(e, m, t, a, v, r), ~RanOut(a),
           NEW u, SetDefined(a, u, m, k, v, r),
           NEW O, NEW W \in SUBSET (Virt \ Definitions(I)), NEW B, NEW K \in SUBSET Phys,
           ThirdUnderway(I, e, m, O, W, B, K, t, k - 1)
    PROVE  ThirdUnderway(I, e, m, O, W, B, K, u, k)
<1> DEFINE D == ThirdUses(I, k - 1)
           G == B \cup Definitions(I)
<1>1. /\ Handled(I, e, m, O, t, D, Phys) /\ Common(I, e, m, O, W, G, K, t, D)
      /\ Exposed(I, B, t, AllUses(I))
    BY DEF ThirdUnderway
<1>2. /\ k \in Nat /\ ThirdUses(I, k) = D \cup {k} /\ ~isUse(I.ops[k]) /\ I.ops[k].kind # "ec"
      /\ I.op # "CALL" /\ v \in Definitions(I)
    BY ThirdUsesStep
<1> HIDE DEF D, G
<1>3. /\ Gives(e, m, t, a, v, r) /\ r \in a.UsedInInstr /\ a.LiveVirtRegs[v].Dirty
      /\ \A x \in Phys : Here(e, a, m)[x] = Here(e, t, m)[x]
    BY DEF Defined
<1>4. /\ v \in DOMAIN a.LiveVirtRegs /\ a.LiveVirtRegs[v].PhysReg = r
      /\ t.StackSlotForVirtReg \subseteq a.StackSlotForVirtReg
    BY <1>3 DEF Gives, Quiet
<1>5. Agree(a, Here(e, a, m), O, W)
    <2>1. Preserves(e, m, t, a, v)
        BY DEF Defined
    <2>2. W \in SUBSET (Virt \ {v}) /\ Agree(t, Here(e, t, m), O, W)
        BY <1>1, <1>2 DEF Common
    <2> QED BY <2>1, <2>2 DEF Preserves
<1>6. SameOperands(At(t, m), At(a, m)) /\ SameKinds(I, At(t, m))
    BY <1>1, <1>3 DEF Gives, Quiet, OnlyFlags, At, IsInstr, Handled
<1>7. SameKinds(I, At(a, m)) /\ IsInstr(a.code, m)
    <2>1. IsInstr(a.code, m)
        BY <1>3 DEF Gives, Quiet, OnlyFlags, IsInstr
    <2> QED BY <1>6, <2>1 DEF SameOperands, SameKinds
<1>8. Handled(I, e, m, O, a, D, Phys)
    BY <1>1, <1>3, HandledDefine
<1>9. Common(I, e, m, O, W, G, K, a, D)
    <2>1. v \in a.StackSlotForVirtReg \cup G
        BY <1>2 DEF G
    <2> QED BY <1>1, <1>3, <1>5, <1>6, <2>1, CommonGives
<1>10. /\ Renamed(a, u, m, k, r) /\ u.CopySrc = a.CopySrc /\ u.CopyDst = Follow(a.CopyDst, v, r)
    BY DEF SetDefined
<1>11. /\ u.UsedInInstr = a.UsedInInstr /\ u.StackSlotForVirtReg = a.StackSlotForVirtReg
       /\ u.LiveVirtRegs = a.LiveVirtRegs /\ Here(e, u, m) = Here(e, a, m)
    BY <1>10 DEF Renamed, SameRest, Here
<1>12. OneOperand(a, u, m, k, r)
    BY <1>7, <1>10, RenamedOperands
<1>13. \A j \in 1 .. Len(I.ops) : Op(u, m, j).reg = IF j = k THEN r ELSE Op(a, m, j).reg
    <2>1. Len(At(a, m).ops) = Len(I.ops)
        BY <1>7 DEF SameKinds
    <2> QED BY <1>12, <2>1 DEF OneOperand
<1>14. Handled(I, e, m, O, u, D \cup {k}, Phys)
    <2>1. v \notin Phys
        BY RegAllocAssumption
    <2>2. Op(u, m, k).reg = r
        BY <1>13
    <2>3. DefHeld(I, m, u, k)
        BY <1>3, <1>4, <1>11, <2>1, <2>2 DEF DefHeld
    <2> QED BY <1>2, <1>7, <1>8, <1>10, <2>3, HandledRenamed
<1>15. Common(I, e, m, O, W, G, K, u, D \cup {k})
    <2>1. CopiesKnown(u, m)
        <3>1. At(u, m).op = At(a, m).op /\ At(a, m).op = I.op
            BY <1>7, <1>12 DEF OneOperand, SameKinds
        <3>2. CASE I.op = "COPY"
            <4>1. k = 1 /\ 2 \in 1 .. Len(I.ops)
                <5>1. Len(I.ops) = 2 /\ 2 \in 1 .. Len(I.ops)
                    BY <3>2, CopyHasTwo
                <5>2. isUse(I.ops[2])
                    BY <3>2 DEF Sound, WellFormedInstr
                <5>3. k # 2
                    BY <1>2, <5>2
                <5> QED BY <1>2, <5>1, <5>3
            <4>2. Op(u, m, 1).reg = r /\ Op(u, m, 2).reg = Op(a, m, 2).reg
                BY <1>13, <4>1
            <4>3. u.CopyDst \in {None, r}
                BY <1>10 DEF Follow
            <4> QED BY <1>9, <1>10, <3>1, <3>2, <4>2, <4>3 DEF CopiesKnown, Common
        <3>3. CASE I.op # "COPY"
            <4>1. None \notin {v, r}
                BY RegAllocAssumption DEF Registered
            <4>2. a.CopyDst = None
                BY <1>9, <3>1, <3>3 DEF CopiesKnown, Common
            <4>3. u.CopyDst = None
                BY <1>10, <4>1, <4>2 DEF Follow
            <4> QED BY <3>1, <3>3, <4>3 DEF CopiesKnown
        <3> QED BY <3>2, <3>3
    <2>2. \A j \in D \cap (1 .. Len(I.ops)) :
                \/ isUse(I.ops[j]) /\ I.ops[k].kind = "ec"
                \/ isUse(I.ops[k]) /\ I.ops[j].kind = "ec"
                => Op(a, m, j).reg # r
        BY <1>2
    <2> QED BY <1>7, <1>9, <1>10, <2>1, <2>2, CommonRenamed
<1>16. Exposed(I, B, u, AllUses(I))
    BY <1>1, <1>4, <1>11 DEF Exposed
<1> QED BY <1>2, <1>14, <1>15, <1>16 DEF ThirdUnderway, G

LEMMA ThirdStepUnderway ==
    ASSUME NEW t \in State, InverseBut(t, {}), NEW m \in Places, IsPlace(t, m), IsInstr(t.code, m),
           NEW I, Sound(I), SameKinds(I, At(t, m)), NEW k \in 1 .. Len(I.ops),
           NEW e, DOMAIN e = Env, NEW u, u = ThirdStep(t, m, k),
           NEW O, NEW W \in SUBSET (Virt \ Definitions(I)), NEW B, NEW K \in SUBSET Phys
    PROVE  /\ Grows(t, u, m)
           /\ ~RanOut(u) /\ ThirdUnderway(I, e, m, O, W, B, K, t, k - 1) =>
                    ThirdUnderway(I, e, m, O, W, B, K, u, k)
<1>1. k \in Nat /\ Op(t, m, k).kind = I.ops[k].kind /\ Op(t, m, k).reg \in Registered
    <2>1. k \in 1 .. Len(At(t, m).ops) /\ Op(t, m, k).kind = I.ops[k].kind
        BY DEF SameKinds, Op, At
    <2>2. IsOperand(t.code, m, k)
        BY <2>1 DEF IsOperand, IsInstr, At
    <2>3. t.code[m[1]][m[2]].ops[k] \in Operands(Registered)
        BY <2>2, OperandAt DEF State
    <2>4. k \in Nat
        BY ThirdUsesStep
    <2> QED BY <2>1, <2>3, <2>4 DEF Op, Operands
<1>2. CASE I.ops[k].kind # "def"
    <2>1. u = t
        BY <1>1, <1>2 DEF ThirdStep
    <2>2. ThirdUses(I, k) = ThirdUses(I, k - 1)
        BY <1>2, ThirdUsesStep
    <2> QED BY <2>1, <2>2, GrowsReflexive DEF ThirdUnderway
<1>3. ASSUME I.ops[k].kind = "def", ThirdUnderway(I, e, m, O, W, B, K, t, k - 1)
      PROVE  Op(t, m, k).reg = I.ops[k].reg
    <2>1. k \notin ThirdUses(I, k - 1)
        BY <1>3, ThirdUsesStep
    <2> QED BY <1>3, <2>1 DEF ThirdUnderway, Handled
<1>4. CASE I.ops[k].kind = "def" /\ Op(t, m, k).reg \in Phys
    <2>1. PICK r \in Phys : r = Op(t, m, k).reg
        BY <1>4
    <2>2. u = definePhysReg(t, m, r, "reserved")
        BY <1>1, <1>4, <2>1 DEF ThirdStep
    <2>3. Grows(t, u, m)
        <3>1. PICK state \in PhysRegStates : state = "reserved"
            BY DEF PhysRegStates
        <3>2. PICK V : V = {}
            OBVIOUS
        <3>3. u = definePhysReg(t, m, r, state) /\ InverseBut(t, V)
            BY <2>2, <3>1, <3>2
        <3>4. Quiet(m, t, u) /\ u.errors = t.errors
            BY <3>3, DefinePhysRegEffect
        <3> QED BY <3>4, QuietIsOutside DEF Grows
    <2>4. ASSUME ThirdUnderway(I, e, m, O, W, B, K, t, k - 1) PROVE ThirdUnderway(I, e, m, O, W, B, K, u, k)
        <3>1. r = I.ops[k].reg /\ I.ops[k].kind = "def" /\ W \in SUBSET Virt
            BY <1>3, <1>4, <2>1, <2>4
        <3> QED BY <2>2, <2>4, <3>1, DefinePhysUnderway
    <2> QED BY <2>3, <2>4
<1>5. CASE I.ops[k].kind = "def" /\ Op(t, m, k).reg \notin Phys
    <2>1. PICK v \in Virt : v = Op(t, m, k).reg
        BY <1>1, <1>5 DEF Registered
    <2>2. PICK a : a = defineVirtReg(t, m, k, v, t.CopySrc)
        OBVIOUS
    <2>3. u = setDefinition(a, m, k, v)
        BY <1>1, <1>5, <2>1, <2>2 DEF ThirdStep
    <2>4. PICK r \in Phys : Defined(e, m, t, a, v, r)
        BY <1>1, <2>2, DefineVirtRegGives
    <2>5. Gives(e, m, t, a, v, r) /\ v \in DOMAIN a.LiveVirtRegs /\ a.LiveVirtRegs[v].PhysReg = r
        BY <2>4 DEF Defined, Gives
    <2>6. a \in State /\ InverseBut(a, {})
        <3>1. HasRegister(t, a, v)
            BY <1>1, <2>2, DefineVirtRegKeeps
        <3> QED BY <3>1 DEF HasRegister, Kept
    <2>7. IsInstr(a.code, m)
        BY <2>5 DEF Gives, Quiet, OnlyFlags, IsInstr
    <2>8. SetDefined(a, u, m, k, v, r)
        BY <2>3, <2>5, <2>6, <2>7, SetDefinitionEffect
    <2>9. Renamed(a, u, m, k, r) /\ u.errors = a.errors
        BY <2>8 DEF SetDefined, Renamed, SameRest
    <2>10. Grows(t, u, m)
        <3>1. Grows(t, a, m)
            BY <2>5, GivesGrows
        <3>2. Grows(a, u, m)
            BY <2>6, <2>7, <2>9, RenamedGrows
        <3> QED BY <3>1, <3>2, GrowsTransitive
    <2>11. ASSUME ~RanOut(u), ThirdUnderway(I, e, m, O, W, B, K, t, k - 1)
           PROVE  ThirdUnderway(I, e, m, O, W, B, K, u, k)
        <3>1. v = I.ops[k].reg /\ I.ops[k].kind = "def"
            BY <1>3, <1>5, <2>1, <2>11
        <3>2. ~RanOut(a)
            BY <2>9, <2>11 DEF RanOut
        <3> QED BY <2>4, <2>6, <2>8, <2>11, <3>1, <3>2, DefineVirtUnderway
    <2> QED BY <2>10, <2>11
<1> QED BY <1>2, <1>4, <1>5

LEMMA ThirdScanUnderway ==
    ASSUME NEW s \in State, InverseBut(s, {}), NEW m \in Places, IsPlace(s, m), IsInstr(s.code, m),
           NEW I, Sound(I), SameKinds(I, At(s, m)), NEW e, DOMAIN e = Env, NEW t, t = ThirdScan(s, m),
           NEW O, NEW W \in SUBSET (Virt \ Definitions(I)), NEW B, NEW K \in SUBSET Phys,
           ~RanOut(s) => ThirdUnderway(I, e, m, O, W, B, K, s, 0)
    PROVE  /\ Grows(s, t, m)
           /\ ~RanOut(t) => ThirdUnderway(I, e, m, O, W, B, K, t, Len(I.ops))
<1> DEFINE l == NumOperands(s, m)
<1>1. l \in Nat /\ l = Len(I.ops)
    BY NumOperandsIsNatural DEF NumOperands, SameKinds, At
<1>2. PICK scan : /\ scan[0] = s
                  /\ ThirdScan(s, m) = scan[l]
                  /\ \A k \in 0 .. l : Kept(s, scan[k], {})
                  /\ \A k \in 1 .. l : scan[k] = ThirdStep(scan[k - 1], m, k)
    BY ThirdScanRuns
<1> HIDE DEF l
<1> DEFINE T == [k \in 0 .. l |-> {a \in State :
                    Grows(s, a, m) /\ (~RanOut(a) => ThirdUnderway(I, e, m, O, W, B, K, a, k))}]
<1>3. scan[0] \in T[0]
    BY <1>1, <1>2, GrowsReflexive
<1>4. ASSUME NEW k \in 1 .. l, scan[k - 1] \in T[k - 1] PROVE scan[k] \in T[k]
    <2>1. k - 1 \in 0 .. l /\ k \in 0 .. l /\ k \in 1 .. Len(I.ops)
        BY <1>1
    <2>2. PICK a \in State : a = scan[k - 1] /\ Grows(s, a, m)
                             /\ (~RanOut(a) => ThirdUnderway(I, e, m, O, W, B, K, a, k - 1))
        BY <1>4, <2>1
    <2>3. PICK u : u = scan[k]
        OBVIOUS
    <2>4. u = ThirdStep(a, m, k) /\ u \in State /\ Kept(s, a, {})
        BY <1>2, <2>1, <2>2, <2>3 DEF Kept
    <2>5. InverseBut(a, {}) /\ IsPlace(a, m) /\ IsInstr(a.code, m)
        BY <2>2, <2>4 DEF Kept, SameShape, SameBlock, IsInstr, IsPlace, Grows, Outside, Elsewhere
    <2>6. SameKinds(I, At(a, m))
        <3>1. SameKinds(At(s, m), At(a, m))
            BY <2>2 DEF Grows, Outside, At, IsInstr
        <3> QED BY <3>1 DEF SameKinds
    <2>7. /\ Grows(a, u, m)
          /\ ~RanOut(u) /\ ThirdUnderway(I, e, m, O, W, B, K, a, k - 1) =>
                    ThirdUnderway(I, e, m, O, W, B, K, u, k)
        BY <2>1, <2>4, <2>5, <2>6, ThirdStepUnderway
    <2>8. Grows(s, u, m)
        BY <2>2, <2>7, GrowsTransitive
    <2>9. RanOut(a) => RanOut(u)
        BY <2>7 DEF Grows, Outside, RanOut
    <2> QED BY <2>1, <2>2, <2>3, <2>4, <2>7, <2>8, <2>9
<1>5. \A k \in 0 .. l : scan[k] \in T[k]
    <2> HIDE DEF T
    <2> QED BY <1>1, <1>3, <1>4, Stays
<1>6. Grows(s, t, m) /\ (~RanOut(t) => ThirdUnderway(I, e, m, O, W, B, K, t, l))
    <2>1. l \in 0 .. l
        BY <1>1
    <2>2. t \in T[l]
        BY <1>2, <1>5, <2>1
    <2> QED BY <2>1, <2>2
<1> HIDE DEF T
<1> QED BY <1>1, <1>6

-----------------------------------------------------------------------------
(***************************************************************************)
(* The scans of an instruction, one after the other.                       *)
(***************************************************************************)
LEMMA FirstStepOutside ==
    ASSUME NEW t \in State, InverseBut(t, {}), NEW m, IsInstr(t.code, m), NEW k, NEW u, u = FirstStep(t, m, k)
    PROVE  Outside(t, u, m)
<1>1. CASE ~(Op(t, m, k).reg \in Phys /\ isUse(Op(t, m, k)))
    BY <1>1, OutsideReflexive DEF FirstStep
<1>2. CASE Op(t, m, k).reg \in Phys /\ isUse(Op(t, m, k))
    <2>1. u = usePhysReg(t, m, k)
        BY <1>2 DEF FirstStep
    <2>2. PICK r \in Phys : r = Op(t, m, k).reg
        BY <1>2
    <2>3. CASE t.PhysRegState[r] \in Virt
        <3>1. u = [t EXCEPT !.errors = @ \cup {"Instruction uses an allocated register"}]
            BY <2>1, <2>2, <2>3 DEF usePhysReg
        <3>2. /\ u.code = t.code /\ u.inserted = t.inserted /\ u.Coalesced = t.Coalesced
              /\ u.StackSlotForVirtReg = t.StackSlotForVirtReg /\ t.errors \subseteq u.errors
            BY <3>1 DEF State
        <3>3. Outside(t, t, m)
            BY OutsideReflexive
        <3> QED BY <3>2, <3>3 DEF Outside, Elsewhere
    <2>4. CASE t.PhysRegState[r] \notin Virt
        <3>1. /\ OnlyFlags(t.code, u.code) /\ u.inserted = t.inserted /\ SameCopies(t, u)
              /\ u.StackSlotForVirtReg = t.StackSlotForVirtReg /\ u.LiveVirtRegs = t.LiveVirtRegs
              /\ u.errors = t.errors /\ u.UsedInInstr = t.UsedInInstr \cup {r}
              /\ u.PhysRegState = [t.PhysRegState EXCEPT ![r] = "free"]
            BY <2>1, <2>2, <2>4, UsePhysRegEffect
        <3>2. Elsewhere(t, u, m)
            BY <3>1, ElsewhereReflexive
        <3>3. Quiet(m, t, u)
            BY <3>1, <3>2 DEF Quiet
        <3> QED BY <3>3, QuietIsOutside
    <2> QED BY <2>3, <2>4
<1> QED BY <1>1, <1>2

LEMMA FirstScanOutside ==
    ASSUME NEW s \in State, InverseBut(s, {}), NEW m \in Places, IsInstr(s.code, m), NEW t, t = FirstScan(s, m)
    PROVE  Outside(s, t, m)
<1> DEFINE l == NumOperands(s, m)
<1>1. l \in Nat
    BY NumOperandsIsNatural
<1>2. PICK scan : /\ scan[0] = [s EXCEPT !.UsedInInstr = {}]
                  /\ FirstScan(s, m) = scan[l]
                  /\ \A k \in 0 .. l : Kept(s, scan[k], {})
                  /\ \A k \in 1 .. l : scan[k] = FirstStep(scan[k - 1], m, k)
    <2>1. PICK scan : FirstScans(s, m, scan)
        BY FirstScanRuns
    <2> QED BY <2>1 DEF FirstScans
<1> HIDE DEF l
<1> DEFINE U == {a \in State : Outside(s, a, m)}
<1>3. scan[0] \in U
    <2>1. scan[0] \in State
        BY <1>1, <1>2 DEF Kept
    <2>2. /\ scan[0].code = s.code /\ scan[0].inserted = s.inserted /\ scan[0].Coalesced = s.Coalesced
          /\ scan[0].StackSlotForVirtReg = s.StackSlotForVirtReg /\ scan[0].errors = s.errors
        BY <1>2 DEF State
    <2>3. Outside(s, s, m)
        BY OutsideReflexive
    <2>4. Outside(s, scan[0], m)
        BY <2>2, <2>3 DEF Outside, Elsewhere
    <2> QED BY <2>1, <2>4
<1>4. ASSUME NEW k \in 1 .. l, scan[k - 1] \in U PROVE scan[k] \in U
    <2>1. PICK a \in State : a = scan[k - 1] /\ Outside(s, a, m)
        BY <1>4
    <2>2. k - 1 \in 0 .. l /\ k \in 0 .. l
        BY <1>1
    <2>3. scan[k] = FirstStep(a, m, k) /\ scan[k] \in State /\ Kept(s, a, {})
        BY <1>2, <2>1, <2>2 DEF Kept
    <2>4. InverseBut(a, {}) /\ IsInstr(a.code, m)
        BY <2>3 DEF Kept, SameShape, SameBlock, IsInstr
    <2>5. Outside(a, scan[k], m)
        BY <2>3, <2>4, FirstStepOutside
    <2>6. Outside(s, scan[k], m)
        BY <2>1, <2>5, OutsideTransitive
    <2> QED BY <2>3, <2>6
<1>5. \A k \in 0 .. l : scan[k] \in U
    <2> HIDE DEF U
    <2> QED BY <1>1, <1>3, <1>4, StaysIn
<1>6. l \in 0 .. l
    BY <1>1
<1> QED BY <1>2, <1>5, <1>6

\* What the instruction I finds in front of its scans.
Waiting(I, e, m, O, N, B, K, s) ==
    /\ \A x \in Phys \cap Uses(I) : s.PhysRegState[x] \notin Virt /\ Here(e, s, m)[x] = O[x]
    /\ Agree(s, Here(e, s, m), O, N)
    /\ DOMAIN s.LiveVirtRegs \subseteq s.StackSlotForVirtReg \cup B
    /\ \A x \in K : s.PhysRegState[x] = "reserved" /\ Here(e, s, m)[x] = O[x]

\* The registers of a copy are noted.
CopyNoted(s, t, m) ==
    /\ t.code = s.code /\ t.inserted = s.inserted /\ t.Coalesced = s.Coalesced
    /\ t.StackSlotForVirtReg = s.StackSlotForVirtReg /\ t.LiveVirtRegs = s.LiveVirtRegs
    /\ t.PhysRegState = s.PhysRegState /\ t.errors = s.errors
    /\ CopiesKnown(t, m) /\ Kept(s, t, {})

LEMMA NotedIsReady ==
    ASSUME NEW s, NEW t, NEW m, CopyNoted(s, t, m), NEW I, SameOperands(I, At(s, m)),
           NEW e, NEW O, NEW N, NEW B, NEW K, Waiting(I, e, m, O, N, B, K, s)
    PROVE  Ready(I, e, m, O, N, B, K, t)
<1>1. /\ t.code = s.code /\ t.inserted = s.inserted /\ t.StackSlotForVirtReg = s.StackSlotForVirtReg
      /\ t.LiveVirtRegs = s.LiveVirtRegs /\ t.PhysRegState = s.PhysRegState /\ CopiesKnown(t, m)
    BY DEF CopyNoted
<1>2. Here(e, t, m) = Here(e, s, m) /\ At(t, m) = At(s, m)
    BY <1>1 DEF Here, At
<1>3. Agree(t, Here(e, t, m), O, N)
    <2>1. Agree(s, Here(e, s, m), O, N)
        BY DEF Waiting
    <2> QED BY Zenon, <1>1, <1>2, <2>1 DEF Agree
<1> QED BY <1>1, <1>2, <1>3 DEF Ready, Waiting

\* The register of operand k of a copy, if the instruction i is one.
CopyReg(i, k) == IF i.op = "COPY" THEN i.ops[k].reg ELSE None

LEMMA CopyRegs ==
    ASSUME NEW s \in State, CopiesHaveTwo(s.code), NEW m \in Places, IsInstr(s.code, m),
           NEW i, i = s.code[m[1]][m[2]], NEW k \in 1 .. 2, NEW r, r = CopyReg(i, k)
    PROVE  r \in Registered \cup {None}
<1>1. CASE i.op = "COPY"
    <2>1. Len(i.ops) = 2
        BY <1>1 DEF IsInstr, CopiesHaveTwo
    <2>2. IsOperand(s.code, m, k)
        BY <2>1 DEF IsInstr, IsOperand
    <2>3. i.ops[k] \in Operands(Registered)
        BY Zenon, <2>2, OperandAt DEF State
    <2>4. i.ops[k].reg \in Registered
        BY Zenon, <2>3 DEF Operands
    <2> QED BY <1>1, <2>4 DEF CopyReg
<1>2. CASE i.op # "COPY"
    BY <1>2 DEF CopyReg
<1> QED BY <1>1, <1>2

\* t is s with the registers of a copy noted.
CopiedAs(s, t, src, dst) == t = [s EXCEPT !.CopyDst = dst, !.CopySrc = src]

LEMMA CopyKept ==
    ASSUME NEW s \in State, InverseBut(s, {}), NEW src \in Registered \cup {None}, NEW dst \in Registered \cup {None},
           NEW t, CopiedAs(s, t, src, dst)
    PROVE  Kept(s, t, {})
<1>1. t = SetCopy(s, src, dst)
    BY Zenon DEF CopiedAs, SetCopy, State
<1>2. Kept(s, SetCopy(s, src, dst), {})
    BY SetCopyKeeps
<1> QED BY <1>1, <1>2

LEMMA CopySetup ==
    ASSUME NEW s \in State, InverseBut(s, {}), CopiesHaveTwo(s.code), NEW m \in Places, IsInstr(s.code, m),
           NEW i, i = s.code[m[1]][m[2]], NEW t,
           t = [s EXCEPT !.CopyDst = IF i.op = "COPY" THEN i.ops[1].reg ELSE None,
                         !.CopySrc = IF i.op = "COPY" THEN i.ops[2].reg ELSE None]
    PROVE  CopyNoted(s, t, m)
<1>1. PICK src, dst : src = CopyReg(i, 2) /\ dst = CopyReg(i, 1)
    OBVIOUS
<1>2. CopiedAs(s, t, src, dst)
    BY ZenonT(40), <1>1 DEF CopiedAs, CopyReg
<1>3. src \in Registered \cup {None} /\ dst \in Registered \cup {None}
    BY <1>1, CopyRegs
<1>4. /\ t.code = s.code /\ t.inserted = s.inserted /\ t.Coalesced = s.Coalesced
      /\ t.StackSlotForVirtReg = s.StackSlotForVirtReg /\ t.LiveVirtRegs = s.LiveVirtRegs
      /\ t.PhysRegState = s.PhysRegState /\ t.errors = s.errors /\ t.CopySrc = src /\ t.CopyDst = dst
    BY Zenon, <1>2 DEF CopiedAs, State
<1>5. CopiesKnown(t, m)
    BY Zenon, <1>1, <1>4 DEF CopiesKnown, CopyReg, Op, At
<1>6. Kept(s, t, {})
    BY Zenon, <1>2, <1>3, CopyKept
<1> QED BY Zenon, <1>4, <1>5, <1>6 DEF CopyNoted

\* What allocating the instruction I leaves, but for the note that a copy is to be erased.
Advanced(I, e, m, O, W, B, K, s, u) ==
    /\ Kept(s, u, {}) /\ Outside(s, u, m)
    /\ ~RanOut(s) => u.errors \subseteq s.errors \cup {"ran out of registers"}
    /\ ~RanOut(u) => ThirdUnderway(I, e, m, O, W, B, K, u, Len(I.ops))

LEMMA OutsideKeepsSame ==
    ASSUME NEW s, NEW t, NEW m, Outside(s, t, m), IsInstr(s.code, m), IsPlace(s, m), NEW I, SameKinds(I, At(s, m))
    PROVE  IsInstr(t.code, m) /\ IsPlace(t, m) /\ SameKinds(I, At(t, m)) /\ (RanOut(s) => RanOut(t))
<1>1. IsInstr(t.code, m) /\ IsPlace(t, m) /\ (RanOut(s) => RanOut(t))
    BY Zenon DEF Outside, Elsewhere, IsInstr, IsPlace, RanOut
<1>2. SameKinds(At(s, m), At(t, m))
    BY DEF Outside, At, IsInstr
<1> QED BY <1>1, <1>2 DEF SameKinds

WaitingUnlessOut(I, e, m, O, W, B, K, s) == ~RanOut(s) => Waiting(I, e, m, O, Still(I, W, 0), B, K, s)

LEMMA AllocateInstructionValues ==
    ASSUME NEW s \in State, InverseBut(s, {}), CopiesHaveTwo(s.code),
           NEW m \in Places, IsPlace(s, m), IsInstr(s.code, m),
           NEW I, Sound(I), SameOperands(I, At(s, m)), NEW e, DOMAIN e = Env,
           NEW O, NEW W \in SUBSET (Virt \ Definitions(I)), NEW B, NEW K \in SUBSET (Phys \ Uses(I)),
           NeededElsewhere(s, m, W, B), WaitingUnlessOut(I, e, m, O, W, B, K, s),
           NEW done, done = AllocateInstruction(s, m)
    PROVE  \E u : Advanced(I, e, m, O, W, B, K, s, u) /\ done = Coalesce(u, m)
<1> DEFINE N == Still(I, W, 0)
           i == s.code[m[1]][m[2]]
<1>1. PICK copy : copy = [s EXCEPT !.CopyDst = IF i.op = "COPY" THEN i.ops[1].reg ELSE None,
                                   !.CopySrc = IF i.op = "COPY" THEN i.ops[2].reg ELSE None]
    OBVIOUS
<1>2. PICK first : first = FirstScan(copy, m)
    OBVIOUS
<1>3. PICK through : through = handleThroughOperands(first, m)
    BY Zenon
<1>4. PICK second : second = SecondScan(through, m)
    OBVIOUS
<1>5. PICK used : used = ResetUsedInInstr(second, m)
    OBVIOUS
<1>6. PICK spilled : spilled = spillForCall(used, m)
    OBVIOUS
<1>7. PICK third : third = ThirdScan(spilled, m)
    OBVIOUS
<1>8. done = Coalesce(third, m)
    <2>1. done = Coalesce(ThirdScan(spillForCall(ResetUsedInInstr(SecondScan(handleThroughOperands(
                    FirstScan(copy, m), m), m), m), m), m), m)
        BY Zenon, <1>1 DEF AllocateInstruction
    <2> QED BY <1>2, <1>3, <1>4, <1>5, <1>6, <1>7, <2>1
<1>9. CopyNoted(s, copy, m)
    BY Zenon, <1>1, CopySetup
<1> HIDE DEF i
<1>10. SameKinds(I, At(s, m)) /\ \A t : Kept(s, t, {}) => t \in State /\ InverseBut(t, {})
    BY DEF SameOperands, SameKinds, Kept
<1>11. Kept(s, copy, {}) /\ Outside(s, copy, m) /\ copy.errors = s.errors
    <2>1. Outside(s, s, m)
        BY OutsideReflexive
    <2>2. /\ copy.code = s.code /\ copy.inserted = s.inserted /\ copy.Coalesced = s.Coalesced
          /\ copy.StackSlotForVirtReg = s.StackSlotForVirtReg /\ copy.errors = s.errors /\ Kept(s, copy, {})
        BY <1>9 DEF CopyNoted
    <2> QED BY <2>1, <2>2 DEF Outside, Elsewhere
<1>12. SameOperands(I, At(copy, m)) /\ IsInstr(copy.code, m) /\ IsPlace(copy, m)
    BY <1>9 DEF CopyNoted, At, IsInstr, IsPlace
<1>13. Kept(s, first, {}) /\ Outside(s, first, m)
    <2>1. Kept(copy, first, {}) /\ Outside(copy, first, m)
        BY <1>2, <1>10, <1>11, <1>12, FirstScanKeeps, FirstScanOutside
    <2>2. Kept(s, first, {})
        BY <1>11, <2>1, KeptTransitive
    <2>3. Outside(s, first, m)
        BY <1>11, <2>1, OutsideTransitive
    <2> QED BY <2>2, <2>3
<1>14. IsInstr(first.code, m) /\ IsPlace(first, m) /\ SameKinds(I, At(first, m)) /\ (RanOut(s) => RanOut(first))
    BY <1>10, <1>13, OutsideKeepsSame
<1>15. K \in SUBSET Phys /\ W \in SUBSET Virt /\ N \in SUBSET (Virt \ Named(I, {"ec"}))
    <2>1. \A j \in 1 .. Len(I.ops) : isUse(I.ops[j]) => I.ops[j].reg \in Uses(I)
        BY SoundInstr
    <2>2. Named(I, {"ec"}) \cap Uses(I) = {} /\ Named(I, {"ec"}) \subseteq Definitions(I)
        BY DEF Sound, WellFormedInstr, Named, Definitions
    <2> QED BY <2>1, <2>2 DEF Still
<1> HIDE DEF N
<1>16. /\ ~RanOut(s) => first.errors = s.errors
       /\ ~RanOut(first) => PhysUnderway(I, e, m, O, N, B, K, first)
    <2>1. SUFFICES ASSUME ~RanOut(s) PROVE first.errors = s.errors /\ PhysUnderway(I, e, m, O, N, B, K, first)
        BY <1>14
    <2>2. Waiting(I, e, m, O, N, B, K, s)
        BY <2>1 DEF N, WaitingUnlessOut
    <2>3. Ready(I, e, m, O, N, B, K, copy)
        BY <1>9, <2>2, NotedIsReady
    <2>4. \A x \in Phys \cap Uses(I) : copy.PhysRegState[x] \notin Virt
        BY <2>3 DEF Ready
    <2>5. I \in Instructions
        BY DEF Sound
    <2>6. FirstDone(I, copy, first, Len(I.ops))
        BY <1>2, <1>10, <1>11, <1>12, <2>4, <2>5, FirstScanDone
    <2>7. /\ Outside(copy, first, m) /\ first.errors = copy.errors
          /\ Underway(I, e, m, O, N, B, K, first, PhysUses(I)) /\ FreeUses(I, first, m, PhysUses(I))
        BY <1>10, <1>11, <1>12, <1>13, <2>3, <2>6, FirstUnderway
    <2> QED BY <1>11, <2>7 DEF PhysUnderway
<1>17. /\ Grows(first, through, m)
       /\ ~RanOut(through) => Underway(I, e, m, O, N, B, K, through, ThroughUses(I, Len(I.ops)))
    BY <1>3, <1>10, <1>13, <1>14, <1>15, <1>16, ThroughOperandsUnderway
<1>18. Kept(s, through, {}) /\ Outside(s, through, m)
    <2>1. Kept(first, through, {})
        BY <1>3, <1>10, <1>13, <1>14, ThroughOperandsKeep
    <2>2. Kept(s, through, {})
        BY <1>13, <2>1, KeptTransitive
    <2>3. Outside(s, through, m)
        BY <1>13, <1>17, OutsideTransitive DEF Grows
    <2> QED BY <2>2, <2>3
<1>19. IsInstr(through.code, m) /\ IsPlace(through, m) /\ SameKinds(I, At(through, m))
    BY <1>10, <1>18, OutsideKeepsSame
<1>20. NeededElsewhere(through, m, W, B)
    BY <1>10, <1>18, NeededElsewhereGrows
<1>21. /\ Grows(through, second, m)
       /\ ~RanOut(second) => Underway(I, e, m, O, W, B, K, second, AllUses(I))
    BY <1>4, <1>10, <1>15, <1>17, <1>18, <1>19, <1>20, SecondScanUnderway DEF N
<1>22. Kept(s, second, {}) /\ Outside(s, second, m)
    <2>1. Kept(through, second, {})
        BY <1>4, <1>10, <1>18, <1>19, SecondScanKeeps
    <2>2. Kept(s, second, {})
        BY <1>18, <2>1, KeptTransitive
    <2>3. Outside(s, second, m)
        BY <1>18, <1>21, OutsideTransitive DEF Grows
    <2> QED BY <2>2, <2>3
<1>23. IsInstr(second.code, m) /\ IsPlace(second, m) /\ SameKinds(I, At(second, m))
    BY <1>10, <1>22, OutsideKeepsSame
<1>24. /\ Grows(second, used, m) /\ used.errors = second.errors
       /\ Underway(I, e, m, O, W, B, K, second, AllUses(I)) => UsedReset(I, e, m, O, W, B, K, used)
    BY <1>5, <1>10, <1>22, <1>23, ResetUsedUnderway
<1>25. Kept(s, used, {}) /\ Outside(s, used, m)
    <2>1. Registers(second, m, {"ec"}) \in SUBSET Phys
        BY DEF Registers
    <2>2. Kept(second, used, {})
        BY <1>5, <1>10, <1>22, <2>1, UsedKeeps DEF ResetUsedInInstr
    <2>3. Kept(s, used, {})
        BY <1>22, <2>2, KeptTransitive
    <2>4. Outside(s, used, m)
        BY <1>22, <1>24, OutsideTransitive DEF Grows
    <2> QED BY <2>3, <2>4
<1>26. IsInstr(used.code, m) /\ IsPlace(used, m) /\ SameKinds(I, At(used, m))
    BY <1>10, <1>25, OutsideKeepsSame
<1>27. /\ Grows(used, spilled, m) /\ spilled.errors = used.errors
       /\ UsedReset(I, e, m, O, W, B, K, used) => ThirdUnderway(I, e, m, O, W, B, K, spilled, 0)
    BY <1>6, <1>10, <1>15, <1>25, <1>26, SpillForCallUnderway
<1>28. Kept(s, spilled, {}) /\ Outside(s, spilled, m)
    <2>1. Kept(used, spilled, {})
        BY <1>6, <1>10, <1>25, SpillAllKeeps, KeptReflexive DEF spillForCall
    <2>2. Kept(s, spilled, {})
        BY <1>25, <2>1, KeptTransitive
    <2>3. Outside(s, spilled, m)
        BY <1>25, <1>27, OutsideTransitive DEF Grows
    <2> QED BY <2>2, <2>3
<1>29. IsInstr(spilled.code, m) /\ IsPlace(spilled, m) /\ SameKinds(I, At(spilled, m))
    BY <1>10, <1>28, OutsideKeepsSame
<1>30. ~RanOut(spilled) => ThirdUnderway(I, e, m, O, W, B, K, spilled, 0)
    BY <1>21, <1>24, <1>27 DEF RanOut
<1>31. /\ Grows(spilled, third, m)
       /\ ~RanOut(third) => ThirdUnderway(I, e, m, O, W, B, K, third, Len(I.ops))
    BY <1>7, <1>10, <1>15, <1>28, <1>29, <1>30, ThirdScanUnderway
<1>32. Kept(s, third, {}) /\ Outside(s, third, m)
    <2>1. Kept(spilled, third, {})
        BY <1>7, <1>10, <1>28, <1>29, ThirdScanKeeps
    <2>2. Kept(s, third, {})
        BY <1>28, <2>1, KeptTransitive
    <2>3. Outside(s, third, m)
        BY <1>28, <1>31, OutsideTransitive DEF Grows
    <2> QED BY <2>2, <2>3
<1>33. ~RanOut(s) => third.errors \subseteq s.errors \cup {"ran out of registers"}
    BY <1>16, <1>17, <1>21, <1>24, <1>27, <1>31 DEF Grows
<1>34. Advanced(I, e, m, O, W, B, K, s, third)
    BY <1>31, <1>32, <1>33 DEF Advanced
<1> QED BY <1>8, <1>34

-----------------------------------------------------------------------------
(***************************************************************************)
(* What the allocated instruction does.                                    *)
(***************************************************************************)
LEMMA PlainAt ==
    ASSUME NEW env, NEW i, NEW n, NEW x \in DOMAIN env
    PROVE  Plain(env, i, n)[x] =
                IF x \in Written(i) THEN (IF i.op = "COPY" THEN Read(env, i)[2] ELSE <<n>>)
                ELSE IF i.op = "CALL" /\ x \in Clobbered THEN None
                ELSE IF x \in Named(i, {"ec"}) THEN None ELSE env[x]
BY DEF Plain, Execute, Lost, Early

LEMMA ReadAt ==
    ASSUME NEW env, NEW i, NEW k \in DOMAIN i.ops, isUse(i.ops[k]),
           i.ops[k].reg \in DOMAIN env, i.ops[k].reg \notin Named(i, {"ec"})
    PROVE  Read(env, i)[k] = env[i.ops[k].reg]
<1>1. Read(env, i)[k] = Early(env, i)[i.ops[k].reg]
    BY DEF Read
<1>2. PICK r \in DOMAIN env : r = i.ops[k].reg
    OBVIOUS
<1>3. Early(env, i)[r] = env[r]
    BY <1>2 DEF Early
<1> QED BY <1>1, <1>2, <1>3

\* All operands have their registers.
Settled(I, J, h, O, u) ==
    /\ SameKinds(I, J)
    /\ DOMAIN J.ops = 1 .. Len(J.ops)
    /\ \A j \in 1 .. Len(I.ops) :
            IF isUse(I.ops[j])
            THEN J.ops[j].reg \in Phys \ Named(J, {"ec"}) /\ h[J.ops[j].reg] = O[I.ops[j].reg]
            ELSE IF I.ops[j].reg \in Phys
            THEN J.ops[j].reg = I.ops[j].reg /\ u.PhysRegState[I.ops[j].reg] = "reserved"
            ELSE /\ I.ops[j].reg \in DOMAIN u.LiveVirtRegs /\ u.LiveVirtRegs[I.ops[j].reg].Dirty
                 /\ u.LiveVirtRegs[I.ops[j].reg].PhysReg = J.ops[j].reg

LEMMA ThirdUsesAll ==
    ASSUME NEW I, Sound(I)
    PROVE  ThirdUses(I, Len(I.ops)) = 1 .. Len(I.ops)
<1>1. \A j \in 1 .. Len(I.ops) : isUse(I.ops[j]) \/ I.ops[j].kind \in {"def", "ec"}
    BY SoundInstr
<1> QED BY <1>1 DEF ThirdUses, AllUses

LEMMA ThirdSettles ==
    ASSUME NEW u \in State, NEW m, IsInstr(u.code, m), NEW I, Sound(I), NEW e, NEW O, NEW W, NEW B, NEW K,
           ThirdUnderway(I, e, m, O, W, B, K, u, Len(I.ops)), NEW h, h = Here(e, u, m), NEW J, J = At(u, m)
    PROVE  Settled(I, J, h, O, u)
<1>1. PICK D : D = 1 .. Len(I.ops)
    OBVIOUS
<1>2. Handled(I, e, m, O, u, D, Phys) /\ Common(I, e, m, O, W, B \cup Definitions(I), K, u, D)
    BY <1>1, ThirdUsesAll DEF ThirdUnderway
<1>3. SameKinds(I, J) /\ Apart(I, u, m, D)
    BY <1>2 DEF Handled, Common
<1>4. DOMAIN J.ops = 1 .. Len(J.ops) /\ Len(J.ops) = Len(I.ops)
    BY ZenonT(40), <1>3, InstrAt DEF State, IsInstr, At, SameKinds
<1>5. ASSUME NEW j \in 1 .. Len(I.ops), isUse(I.ops[j])
      PROVE  J.ops[j].reg \in Phys \ Named(J, {"ec"}) /\ h[J.ops[j].reg] = O[I.ops[j].reg]
    <2>1. UseHeld(I, e, m, O, u, j, Phys)
        BY Zenon, <1>1, <1>2, <1>5 DEF Handled
    <2>2. \A l \in 1 .. Len(I.ops) : J.ops[l].kind = "ec" => J.ops[j].reg # J.ops[l].reg
        BY <1>1, <1>3, <1>5 DEF Apart, Op, At, SameKinds
    <2>3. J.ops[j].reg \notin Named(J, {"ec"})
        BY <1>4, <2>2 DEF Named
    <2> QED BY SMTT(30), <2>1, <2>3 DEF UseHeld, Op, At
<1>6. ASSUME NEW j \in 1 .. Len(I.ops), ~isUse(I.ops[j])
      PROVE  IF I.ops[j].reg \in Phys
             THEN J.ops[j].reg = I.ops[j].reg /\ u.PhysRegState[I.ops[j].reg] = "reserved"
             ELSE /\ I.ops[j].reg \in DOMAIN u.LiveVirtRegs /\ u.LiveVirtRegs[I.ops[j].reg].Dirty
                  /\ u.LiveVirtRegs[I.ops[j].reg].PhysReg = J.ops[j].reg
    <2>1. DefHeld(I, m, u, j)
        BY <1>1, <1>2, <1>6 DEF Handled
    <2> QED BY <2>1 DEF DefHeld, Op, At
<1> QED BY <1>3, <1>4, <1>5, <1>6 DEF Settled

LEMMA SettledReadsSame ==
    ASSUME NEW I, NEW J, NEW h, NEW O, NEW u, Settled(I, J, h, O, u)
    PROVE  ReadsSame(I, J, h, O)
BY DEF Settled, ReadsSame, SameKinds

\* A definition of I gets a register that is reserved or holds the value.
LEMMA SettledDefinitions ==
    ASSUME NEW I, Sound(I), NEW J, NEW h, NEW O, NEW u \in State, InverseBut(u, {}), Settled(I, J, h, O, u)
    PROVE  /\ \A x \in Definitions(J) :
                /\ x \in Phys
                /\ \/ x \in Definitions(I) /\ u.PhysRegState[x] = "reserved"
                   \/ u.PhysRegState[x] \in Definitions(I) \cap Virt
           /\ \A x \in Definitions(I) \cap Phys : x \in Definitions(J) /\ u.PhysRegState[x] = "reserved"
           /\ \A v \in Definitions(I) \cap Virt :
                /\ v \in DOMAIN u.LiveVirtRegs /\ u.LiveVirtRegs[v].Dirty
                /\ u.LiveVirtRegs[v].PhysReg \in Definitions(J)
           /\ Named(J, {"ec"}) \subseteq Definitions(J) /\ Named(I, {"ec"}) \subseteq Definitions(I)
           /\ Named(I, {"ec"}) \cap (Phys \cup Uses(I)) = {}
<1>1. /\ DOMAIN I.ops = 1 .. Len(I.ops) /\ DOMAIN J.ops = 1 .. Len(I.ops)
      /\ \A j \in 1 .. Len(I.ops) : J.ops[j].kind = I.ops[j].kind
    BY SoundInstr DEF Settled, SameKinds
<1>2. Phys \cap Virt = {}
    BY RegAllocAssumption
<1>3. \A j \in 1 .. Len(I.ops) : /\ I.ops[j].reg \in Registered
                                 /\ I.ops[j].kind \in {"def", "ec"} <=> ~isUse(I.ops[j])
    BY SoundInstr DEF Operands, isUse
<1>4. ASSUME NEW x \in Definitions(J)
      PROVE  /\ x \in Phys
             /\ \/ x \in Definitions(I) /\ u.PhysRegState[x] = "reserved"
                \/ u.PhysRegState[x] \in Definitions(I) \cap Virt
    <2>1. PICK j \in 1 .. Len(I.ops) : x = J.ops[j].reg /\ J.ops[j].kind \in {"def", "ec"}
        BY <1>1 DEF Definitions, Named
    <2>2. ~isUse(I.ops[j]) /\ I.ops[j].reg \in Definitions(I)
        BY <1>1, <1>3, <2>1, SoundInstr
    <2>3. CASE I.ops[j].reg \in Phys
        BY <2>1, <2>2, <2>3 DEF Settled
    <2>4. CASE I.ops[j].reg \notin Phys
        <3>1. PICK v \in DOMAIN u.LiveVirtRegs : v = I.ops[j].reg /\ u.LiveVirtRegs[v].PhysReg = x
            BY <2>1, <2>2, <2>4 DEF Settled
        <3>2. x \in Phys /\ u.PhysRegState[x] = v /\ v \in Virt
            BY <3>1, StatesAreNotVirtual
        <3> QED BY <2>2, <3>1, <3>2
    <2> QED BY <2>3, <2>4
<1>5. ASSUME NEW x \in Definitions(I) \cap Phys PROVE x \in Definitions(J) /\ u.PhysRegState[x] = "reserved"
    <2>1. PICK j \in 1 .. Len(I.ops) : x = I.ops[j].reg /\ I.ops[j].kind \in {"def", "ec"}
        BY <1>1 DEF Definitions, Named
    <2>2. J.ops[j].reg = x /\ u.PhysRegState[x] = "reserved" /\ J.ops[j].kind \in {"def", "ec"}
        BY <1>1, <1>3, <2>1 DEF Settled
    <2> QED BY <1>1, <2>2 DEF Definitions, Named
<1>6. ASSUME NEW v \in Definitions(I) \cap Virt
      PROVE  /\ v \in DOMAIN u.LiveVirtRegs /\ u.LiveVirtRegs[v].Dirty
             /\ u.LiveVirtRegs[v].PhysReg \in Definitions(J)
    <2>1. PICK j \in 1 .. Len(I.ops) : v = I.ops[j].reg /\ I.ops[j].kind \in {"def", "ec"}
        BY <1>1 DEF Definitions, Named
    <2>2. /\ v \in DOMAIN u.LiveVirtRegs /\ u.LiveVirtRegs[v].Dirty /\ u.LiveVirtRegs[v].PhysReg = J.ops[j].reg
          /\ J.ops[j].kind \in {"def", "ec"}
        BY <1>1, <1>2, <1>3, <2>1 DEF Settled
    <2> QED BY <1>1, <2>2 DEF Definitions, Named
<1>7. Named(J, {"ec"}) \subseteq Definitions(J) /\ Named(I, {"ec"}) \subseteq Definitions(I)
    BY DEF Definitions, Named
<1>8. Named(I, {"ec"}) \cap (Phys \cup Uses(I)) = {}
    BY <1>2 DEF Sound, WellFormedInstr
<1> QED BY <1>4, <1>5, <1>6, <1>7, <1>8

\* new and old are what I and its allocated form J leave.
Settles(I, u, new, old, W, K) ==
    /\ Agree(u, new, old, W \cup (Definitions(I) \cap Virt))
    /\ \A r \in K \cup (Definitions(I) \cap Phys) : u.PhysRegState[r] = "reserved" /\ new[r] = old[r]
    /\ I.op = "CALL" => DOMAIN u.LiveVirtRegs = {} /\ new[Order[1]] = old[Order[1]]

LEMMA OrderIsPhys == Order[1] \in Phys
<1>1. Len(Order) \in Nat /\ Len(Order) # 0 /\ DOMAIN Order = 1 .. Len(Order)
    <2>1. Order \in Seq(Phys) /\ Order # <<>>
        BY RegAllocAssumption
    <2> QED BY <2>1, EmptySeq, LenProperties
<1>2. 1 \in DOMAIN Order
    BY <1>1
<1> QED BY <1>2 DEF Phys, ToSet

LEMMA InstructionAgrees ==
    ASSUME NEW I, Sound(I), NEW J, NEW h, DOMAIN h = Env, NEW O, DOMAIN O = Env,
           NEW u \in State, InverseBut(u, {}), Settled(I, J, h, O, u), NEW n,
           NEW W \in SUBSET (Virt \ Definitions(I)), Agree(u, h, O, W),
           NEW K \in SUBSET Phys, \A r \in K : u.PhysRegState[r] = "reserved" /\ h[r] = O[r],
           I.op = "CALL" => DOMAIN u.LiveVirtRegs = {},
           NEW new, new = Plain(h, J, n), NEW old, old = Plain(O, I, n)
    PROVE  Settles(I, u, new, old, W, K)
<1>1. J.op = I.op
    BY DEF Settled, SameKinds
<1>2. Order[1] \in Phys /\ Clobbered \subseteq Phys /\ Phys \cap Virt = {} /\ Phys \subseteq Env /\ Virt \subseteq Env
    BY RegAllocAssumption, OrderIsPhys DEF Env
<1>3. \A x \in Env :
        /\ new[x] = IF x \in Written(J) THEN (IF J.op = "COPY" THEN Read(h, J)[2] ELSE <<n>>)
                    ELSE IF J.op = "CALL" /\ x \in Clobbered THEN None
                    ELSE IF x \in Named(J, {"ec"}) THEN None ELSE h[x]
        /\ old[x] = IF x \in Written(I) THEN (IF I.op = "COPY" THEN Read(O, I)[2] ELSE <<n>>)
                    ELSE IF I.op = "CALL" /\ x \in Clobbered THEN None
                    ELSE IF x \in Named(I, {"ec"}) THEN None ELSE O[x]
    BY PlainAt
\* What a copy reads.
<1>4. I.op = "COPY" => Read(h, J)[2] = Read(O, I)[2]
    <2>1. SUFFICES ASSUME I.op = "COPY" PROVE Read(h, J)[2] = Read(O, I)[2]
        OBVIOUS
    <2>2. 2 \in 1 .. Len(I.ops)
        BY <2>1, CopyHasTwo
    <2>3. isUse(I.ops[2])
        BY <2>1 DEF Sound, WellFormedInstr
    <2>4. J.ops[2].reg \in Phys \ Named(J, {"ec"}) /\ h[J.ops[2].reg] = O[I.ops[2].reg]
        BY <2>2, <2>3 DEF Settled
    <2>5. I.ops[2].reg \in Uses(I) /\ I.ops[2].reg \in Registered
        BY <2>2, <2>3, SoundInstr DEF Operands
    <2>6. I.ops[2].reg \notin Named(I, {"ec"}) /\ I.ops[2].reg \in Env
        BY <2>5, SettledDefinitions DEF Env, Registered
    <2>7. 2 \in DOMAIN I.ops /\ 2 \in DOMAIN J.ops /\ isUse(J.ops[2])
        BY <2>2, <2>3, SoundInstr DEF Settled, SameKinds, isUse
    <2>8. Read(h, J)[2] = h[J.ops[2].reg]
        BY <1>2, <2>4, <2>7, ReadAt
    <2>9. Read(O, I)[2] = O[I.ops[2].reg]
        BY <2>3, <2>6, <2>7, ReadAt
    <2> QED BY <2>4, <2>8, <2>9
<1>5. /\ \A x \in Definitions(J) :
            /\ x \in Phys
            /\ \/ x \in Definitions(I) /\ u.PhysRegState[x] = "reserved"
               \/ u.PhysRegState[x] \in Definitions(I) \cap Virt
      /\ \A x \in Definitions(I) \cap Phys : x \in Definitions(J) /\ u.PhysRegState[x] = "reserved"
      /\ \A v \in Definitions(I) \cap Virt :
            /\ v \in DOMAIN u.LiveVirtRegs /\ u.LiveVirtRegs[v].Dirty
            /\ u.LiveVirtRegs[v].PhysReg \in Definitions(J)
      /\ Named(J, {"ec"}) \subseteq Definitions(J) /\ Named(I, {"ec"}) \subseteq Definitions(I)
      /\ Named(I, {"ec"}) \cap (Phys \cup Uses(I)) = {}
    BY SettledDefinitions
<1>6. \A v \in DOMAIN u.LiveVirtRegs :
        /\ v \in Virt /\ u.LiveVirtRegs[v].PhysReg \in Phys
        /\ u.PhysRegState[u.LiveVirtRegs[v].PhysReg] = v /\ v # "reserved" /\ v \notin Phys
    BY StatesAreNotVirtual
<1>7. /\ Written(I) = Definitions(I) \cup (IF I.op = "CALL" THEN {Order[1]} ELSE {})
      /\ Written(J) = Definitions(J) \cup (IF I.op = "CALL" THEN {Order[1]} ELSE {})
    BY <1>1 DEF Written
\* A value that is needed and not written.
<1>8. ASSUME NEW v \in W
      PROVE  /\ old[v] = O[v]
             /\ v \in DOMAIN u.LiveVirtRegs => new[u.LiveVirtRegs[v].PhysReg] = h[u.LiveVirtRegs[v].PhysReg]
             /\ new[<<v>>] = h[<<v>>]
    <2>1. v \in Virt /\ v \notin Definitions(I) /\ v \in Env /\ v \notin Phys
        BY <1>2
    <2>2. old[v] = O[v]
        BY <1>2, <1>3, <1>5, <1>7, <2>1
    <2>3. v \in DOMAIN u.LiveVirtRegs => new[u.LiveVirtRegs[v].PhysReg] = h[u.LiveVirtRegs[v].PhysReg]
        <3>1. SUFFICES ASSUME v \in DOMAIN u.LiveVirtRegs
                       PROVE  new[u.LiveVirtRegs[v].PhysReg] = h[u.LiveVirtRegs[v].PhysReg]
            OBVIOUS
        <3>2. PICK r \in Phys : r = u.LiveVirtRegs[v].PhysReg /\ u.PhysRegState[r] = v /\ v # "reserved"
            BY <1>6, <3>1
        <3>3. r \notin Definitions(J) /\ I.op # "CALL"
            BY <1>5, <2>1, <3>1, <3>2
        <3>4. r \notin Written(J) /\ r \notin Named(J, {"ec"}) /\ J.op # "CALL" /\ r \in Env
            BY <1>1, <1>2, <1>5, <1>7, <3>3
        <3> QED BY <1>3, <3>2, <3>4
    <2>4. new[<<v>>] = h[<<v>>]
        <3>1. PICK x : x = <<v>>
            OBVIOUS
        <3>2. x \in Env /\ x \notin Phys
            BY <2>1, <3>1, SlotsApart
        <3>3. x \notin Definitions(J) /\ x \notin Clobbered /\ x # Order[1]
            BY <1>2, <1>5, <3>2
        <3>4. x \notin Written(J) /\ x \notin Named(J, {"ec"})
            BY <1>5, <1>7, <3>3
        <3> QED BY <1>3, <3>1, <3>2, <3>3, <3>4
    <2> QED BY <2>2, <2>3, <2>4
\* A register that is written.
<1>9. ASSUME NEW x \in Definitions(J), NEW y \in Definitions(I), y \in Env PROVE new[x] = old[y]
    <2>1. x \in Env /\ x \in Written(J) /\ y \in Written(I)
        BY <1>2, <1>5, <1>7
    <2> QED BY <1>1, <1>3, <1>4, <1>9, <2>1
<1>10. Agree(u, new, old, W \cup (Definitions(I) \cap Virt))
    <2> SUFFICES ASSUME NEW v \in W \cup (Definitions(I) \cap Virt)
                 PROVE  /\ v \in DOMAIN u.LiveVirtRegs => new[u.LiveVirtRegs[v].PhysReg] = old[v]
                        /\ (v \in DOMAIN u.LiveVirtRegs => ~u.LiveVirtRegs[v].Dirty) => new[<<v>>] = old[v]
        BY DEF Agree
    <2>1. CASE v \in W
        BY <1>8, <2>1 DEF Agree
    <2>2. CASE v \in Definitions(I) \cap Virt
        <3>1. v \in Env
            BY <1>2, <2>2
        <3> QED BY <1>5, <1>9, <2>2, <3>1
    <2> QED BY <2>1, <2>2
<1>11. ASSUME NEW r \in K \cup (Definitions(I) \cap Phys)
       PROVE  u.PhysRegState[r] = "reserved" /\ new[r] = old[r]
    <2>0. r \in Phys /\ r \in Env
        BY <1>2
    <2>1. u.PhysRegState[r] = "reserved"
        BY <1>5
    <2>2. CASE r \in Definitions(I)
        BY <1>5, <1>9, <2>0, <2>2
    <2>3. CASE r \notin Definitions(I)
        <3>1. h[r] = O[r]
            BY <2>0, <2>3
        <3>2. r \notin Definitions(J)
            <4>1. "reserved" \notin Virt
                BY RegAllocAssumption DEF PhysRegStates
            <4> QED BY <1>5, <2>1, <2>3, <4>1
        <3>3. r \in Written(J) <=> r \in Written(I)
            BY <1>7, <2>3, <3>2
        <3>4. r \notin Named(J, {"ec"}) /\ r \notin Named(I, {"ec"})
            BY <1>5, <2>3, <3>2
        <3>5. I.op = "COPY" => r \notin Written(I)
            BY <1>7, <2>3
        <3> QED BY <1>1, <1>3, <2>0, <2>1, <3>1, <3>3, <3>4, <3>5
    <2> QED BY <2>1, <2>2, <2>3
<1>12. I.op = "CALL" => new[Order[1]] = old[Order[1]]
    <2>1. SUFFICES ASSUME I.op = "CALL" PROVE new[Order[1]] = old[Order[1]]
        OBVIOUS
    <2>2. PICK r \in Phys : r = Order[1]
        BY <1>2
    <2>3. r \in Written(J) /\ r \in Written(I) /\ r \in Env
        BY <1>2, <1>7, <2>1, <2>2
    <2> QED BY <1>1, <1>3, <2>1, <2>2, <2>3
<1> QED BY <1>10, <1>11, <1>12 DEF Settles

\* A copy that is erased does nothing.
LEMMA CoalescedDoesNothing ==
    ASSUME NEW u \in State, NEW m, IsInstr(u.code, m), NEW I, Sound(I), NEW J, J = At(u, m),
           NEW h, DOMAIN h = Env, NEW O, Settled(I, J, h, O, u), CopiesKnown(u, m), NEW n,
           u.CopyDst # None, u.CopyDst = u.CopySrc
    PROVE  \A x \in Env : Plain(h, J, n)[x] = h[x]
<1>1. J.op = I.op /\ Len(J.ops) = Len(I.ops)
    BY ZenonT(40) DEF Settled, SameKinds
<1>2. J.op = "COPY" /\ J.ops[1].reg = J.ops[2].reg
    BY DEF CopiesKnown, Op, At
<1>3. Len(J.ops) = 2 /\ DOMAIN J.ops = {1, 2} /\ 1 \in 1 .. Len(I.ops) /\ 2 \in 1 .. Len(I.ops)
    <2>1. Len(I.ops) = 2 /\ 1 \in 1 .. Len(I.ops) /\ 2 \in 1 .. Len(I.ops)
        BY <1>1, <1>2, CopyHasTwo
    <2> QED BY <1>1, <2>1 DEF Settled
<1>4. J.ops[1].kind = "def" /\ isUse(J.ops[2])
    <2>1. I.ops[1].kind = "def" /\ isUse(I.ops[2])
        BY <1>1, <1>2 DEF Sound, WellFormedInstr
    <2> QED BY <1>3, <2>1 DEF Settled, SameKinds, isUse
<1>5. PICK r \in Phys : r = J.ops[2].reg
    <2>1. isUse(I.ops[2])
        BY <1>3, <1>4 DEF Settled, SameKinds, isUse
    <2> QED BY <1>3, <2>1 DEF Settled
<1>6. Written(J) = {r} /\ Named(J, {"ec"}) = {}
    BY <1>2, <1>3, <1>4, <1>5 DEF Written, Definitions, Named, isUse
<1>7. Read(h, J)[2] = h[r]
    <2>1. r \in DOMAIN h
        BY DEF Env
    <2>2. 2 \in DOMAIN J.ops
        BY <1>3
    <2> QED BY <1>4, <1>5, <1>6, <2>1, <2>2, ReadAt
<1> SUFFICES ASSUME NEW x \in Env PROVE Plain(h, J, n)[x] = h[x]
    OBVIOUS
<1>8. Plain(h, J, n)[x] =
        IF x \in Written(J) THEN (IF J.op = "COPY" THEN Read(h, J)[2] ELSE <<n>>)
        ELSE IF J.op = "CALL" /\ x \in Clobbered THEN None
        ELSE IF x \in Named(J, {"ec"}) THEN None ELSE h[x]
    BY PlainAt
<1> QED BY <1>2, <1>6, <1>7, <1>8

LEMMA SettlesSame ==
    ASSUME NEW I, NEW u \in State, InverseBut(u, {}), NEW new, NEW old, NEW W \in SUBSET Virt,
           NEW K \in SUBSET Phys, Settles(I, u, new, old, W, K), NEW other, \A x \in Env : other[x] = new[x]
    PROVE  Settles(I, u, other, old, W, K)
<1>1. \A v \in Virt : other[<<v>>] = new[<<v>>]
    BY SlotsApart
<1>2. \A r \in Phys : other[r] = new[r]
    BY DEF Env
<1>3. \A v \in DOMAIN u.LiveVirtRegs : other[u.LiveVirtRegs[v].PhysReg] = new[u.LiveVirtRegs[v].PhysReg]
    BY <1>2, StatesAreNotVirtual
<1>4. Agree(u, other, old, W \cup (Definitions(I) \cap Virt))
    BY <1>1, <1>3 DEF Settles, Agree
<1> QED BY <1>2, <1>4, OrderIsPhys DEF Settles

-----------------------------------------------------------------------------
(***************************************************************************)
(* In front of an instruction without operands nothing is inserted.        *)
(***************************************************************************)
LEMMA BareInsertsNothing ==
    ASSUME NEW s \in State, InverseBut(s, {}), CopiesHaveTwo(s.code), NEW m \in Places, IsInstr(s.code, m),
           Len(s.code[m[1]][m[2]].ops) = 0, s.code[m[1]][m[2]].op # "CALL",
           NEW t, t = AllocateInstruction(s, m)
    PROVE  t.inserted = s.inserted
<1> DEFINE i == s.code[m[1]][m[2]]
           Same(a) == a \in State /\ InverseBut(a, {}) /\ a.code = s.code /\ a.inserted = s.inserted
<1>1. PICK copy : copy = [s EXCEPT !.CopyDst = IF i.op = "COPY" THEN i.ops[1].reg ELSE None,
                                   !.CopySrc = IF i.op = "COPY" THEN i.ops[2].reg ELSE None]
    OBVIOUS
<1>2. PICK first : first = FirstScan(copy, m)
    OBVIOUS
<1>3. PICK through : through = handleThroughOperands(first, m)
    BY Zenon
<1>4. PICK second : second = SecondScan(through, m)
    OBVIOUS
<1>5. PICK used : used = ResetUsedInInstr(second, m)
    OBVIOUS
<1>6. PICK spilled : spilled = spillForCall(used, m)
    OBVIOUS
<1>7. PICK third : third = ThirdScan(spilled, m)
    OBVIOUS
<1>8. t = Coalesce(third, m)
    <2>1. t = Coalesce(ThirdScan(spillForCall(ResetUsedInInstr(SecondScan(handleThroughOperands(
                    FirstScan(copy, m), m), m), m), m), m), m)
        BY Zenon, <1>1 DEF AllocateInstruction
    <2> QED BY <1>2, <1>3, <1>4, <1>5, <1>6, <1>7, <2>1
<1>9. Same(copy)
    <2>1. CopyNoted(s, copy, m)
        BY Zenon, <1>1, CopySetup
    <2> QED BY Zenon, <2>1 DEF CopyNoted, Kept
<1>10. \A a : Same(a) => IsInstr(a.code, m) /\ NumOperands(a, m) = 0
    BY DEF NumOperands, IsInstr
<1>11. Same(first)
    <2>1. IsInstr(copy.code, m) /\ NumOperands(copy, m) = 0
        BY <1>9, <1>10
    <2>2. Kept(copy, first, {})
        BY <1>2, <1>9, <2>1, FirstScanKeeps
    <2>3. first = [copy EXCEPT !.UsedInInstr = {}]
        <3>1. PICK scan : FirstScans(copy, m, scan)
            BY <1>9, <2>1, FirstScanRuns
        <3> QED BY <1>2, <2>1, <3>1 DEF FirstScans
    <2>4. first.code = copy.code /\ first.inserted = copy.inserted
        BY <1>9, <2>3 DEF State
    <2> QED BY <1>9, <2>2, <2>4 DEF Kept
<1>12. Same(through)
    <2>1. IsInstr(first.code, m) /\ NumOperands(first, m) = 0
        BY <1>10, <1>11
    <2>2. DOMAIN first.code[m[1]][m[2]].ops = {}
        <3>1. /\ DOMAIN first.code[m[1]][m[2]].ops = 1 .. Len(first.code[m[1]][m[2]].ops)
            BY <1>11, <2>1, InstrAt DEF State, IsInstr
        <3> QED BY <2>1, <3>1 DEF NumOperands
    <2>3. ~HasEarlyClobbers(first, m)
        BY <2>2 DEF HasEarlyClobbers, ToSet
    <2>4. through = first
        BY <1>3, <2>3 DEF handleThroughOperands
    <2> QED BY <1>11, <2>4
<1>13. Same(second)
    <2>1. IsInstr(through.code, m) /\ NumOperands(through, m) = 0
        BY <1>10, <1>12
    <2>2. second = through
        BY <1>4, <1>12, <2>1, SecondScanRuns
    <2> QED BY <1>12, <2>2
<1>14. Same(used)
    <2>1. Registers(second, m, {"ec"}) \in SUBSET Phys
        BY DEF Registers
    <2>2. Kept(second, used, {})
        BY <1>5, <1>13, <2>1, UsedKeeps DEF ResetUsedInInstr
    <2>3. used.code = second.code /\ used.inserted = second.inserted
        BY <1>5, <1>13 DEF ResetUsedInInstr, State
    <2> QED BY <1>13, <2>2, <2>3 DEF Kept
<1>15. Same(spilled)
    BY <1>6, <1>14 DEF spillForCall
<1>16. Same(third)
    <2>1. IsInstr(spilled.code, m) /\ NumOperands(spilled, m) = 0
        BY <1>10, <1>15
    <2>2. third = spilled
        BY <1>7, <1>15, <2>1, ThirdScanRuns
    <2> QED BY <1>15, <2>2
<1> QED BY <1>8, <1>16 DEF Coalesce, State

-----------------------------------------------------------------------------
(***************************************************************************)
(* What the instructions of a block find, before and after allocation.     *)
(***************************************************************************)
New(s, f, b) == FoundAfter(s, f, b, FALSE)
Old(f, b) == FoundBefore(f, b)

\* What is there in front of what is inserted before instruction i.
InFront(s, f, b, i) ==
    IF i = 1 THEN EntryEnv(f, b)
    ELSE IF <<b, i - 1>> \in s.Coalesced THEN New(s, f, b)[i - 1]
    ELSE Plain(New(s, f, b)[i - 1], s.code[b][i - 1], i - 1)

\* The state s allocates the function f.
Allocates(s, f) ==
    /\ f \in Functions /\ s \in State /\ SameLengths(f.blocks, s.code) /\ InsertedLengths(s, f)

LEMMA BlockOf ==
    ASSUME NEW f \in Functions, NEW b \in 1 .. Len(f.blocks)
    PROVE  /\ f.blocks \in Code /\ f.blocks[b] \in Seq(Instructions)
           /\ DOMAIN f.blocks = 1 .. Len(f.blocks) /\ Len(f.blocks) \in Nat
           /\ DOMAIN f.blocks[b] = 1 .. Len(f.blocks[b]) /\ Len(f.blocks[b]) \in Nat
<1>1. f.blocks \in Code
    BY FunctionsAssumption
<1>2. DOMAIN f.blocks = 1 .. Len(f.blocks) /\ Len(f.blocks) \in Nat
    BY <1>1, CodeDomain
<1>3. f.blocks[b] \in Seq(Instructions)
    BY <1>1, ElementOfSeq DEF Code, Instructions
<1> QED BY <1>1, <1>2, <1>3, LenProperties

LEMMA InsertedAt ==
    ASSUME NEW s, NEW f, Allocates(s, f), NEW b \in 1 .. Len(f.blocks)
    PROVE  /\ s.code[b] \in Seq(Instructions) /\ Len(s.code[b]) = Len(f.blocks[b])
           /\ DOMAIN s.code[b] = 1 .. Len(f.blocks[b])
           /\ \A i \in 1 .. Len(f.blocks[b]) + 1 : s.inserted[b][i] \in Seq(Inserted) /\ IsPlace(s, <<b, i>>)
           /\ b \in 1 .. Len(s.code)
<1>1. /\ s \in State /\ b \in 1 .. Len(s.code) /\ Len(s.code[b]) = Len(f.blocks[b])
      /\ b \in 1 .. Len(s.inserted) /\ Len(s.inserted[b]) = Len(f.blocks[b]) + 1
    BY DEF Allocates, SameLengths, InsertedLengths
<1>2. s.code \in Seq(Seq(Instructions)) /\ s.inserted \in Seq(Seq(Seq(Inserted)))
    BY <1>1 DEF State, Code, Instructions
<1>3. s.code[b] \in Seq(Instructions) /\ s.inserted[b] \in Seq(Seq(Inserted))
    BY <1>1, <1>2, ElementOfSeq
<1>4. DOMAIN s.code[b] = 1 .. Len(f.blocks[b])
    BY <1>1, <1>3, LenProperties
<1>5. \A i \in 1 .. Len(f.blocks[b]) + 1 : s.inserted[b][i] \in Seq(Inserted)
    BY <1>1, <1>3, ElementOfSeq
<1>6. \A i \in 1 .. Len(f.blocks[b]) + 1 : IsPlace(s, <<b, i>>)
    BY <1>1 DEF IsPlace
<1> QED BY <1>1, <1>3, <1>4, <1>5, <1>6

LEMMA EntryDomain ==
    ASSUME NEW f, NEW b
    PROVE  DOMAIN EntryEnv(f, b) = Env
BY DEF EntryEnv, Env

Erased(s, f, b) == {i \in 1 .. Len(f.blocks[b]) : <<b, i>> \in s.Coalesced}

LEMMA NewIsFound ==
    ASSUME NEW s, NEW f, Allocates(s, f), NEW b \in 1 .. Len(f.blocks), NEW no, no = FALSE
    PROVE  Finds(New(s, f, b), EntryEnv(f, b), s.code[b], s.inserted[b], Erased(s, f, b), no)
<1>1. s.code[b] \in Seq(Instructions) /\ DOMAIN s.code[b] = 1 .. Len(f.blocks[b])
    BY InsertedAt
<1>2. New(s, f, b) = Found(EntryEnv(f, b), s.code[b], s.inserted[b], Erased(s, f, b), no)
    BY <1>1 DEF New, FoundAfter, Erased
<1> QED BY <1>1, <1>2, FoundFinds

LEMMA NewSteps ==
    ASSUME NEW s, NEW f, Allocates(s, f), NEW b \in 1 .. Len(f.blocks), NEW i \in 1 .. Len(f.blocks[b]) + 1
    PROVE  /\ New(s, f, b)[i] = Here(InFront(s, f, b, i), s, <<b, i>>)
           /\ DOMAIN New(s, f, b)[i] = Env /\ DOMAIN InFront(s, f, b, i) = Env
<1>1. /\ s.code[b] \in Seq(Instructions) /\ Len(s.code[b]) = Len(f.blocks[b])
      /\ \A j \in 1 .. Len(f.blocks[b]) + 1 : s.inserted[b][j] \in Seq(Inserted)
    BY InsertedAt
<1>2. PICK no : no = FALSE
    OBVIOUS
<1>3. PICK g : g = New(s, f, b)
    OBVIOUS
<1>4. Finds(g, EntryEnv(f, b), s.code[b], s.inserted[b], Erased(s, f, b), no)
    BY <1>2, <1>3, NewIsFound
<1>5. \A j \in 1 .. Len(f.blocks[b]) + 1 : DOMAIN g[j] = Env
    <2>1. PICK code : code = s.code[b] /\ code \in Seq(Instructions) /\ Len(code) = Len(f.blocks[b])
        BY <1>1
    <2>2. PICK ins : ins = s.inserted[b] /\ \A j \in 1 .. Len(code) + 1 : ins[j] \in Seq(Inserted)
        BY <1>1, <2>1
    <2>3. PICK env, erased : env = EntryEnv(f, b) /\ erased = Erased(s, f, b)
        OBVIOUS
    <2>4. Finds(g, env, code, ins, erased, no)
        BY <1>4, <2>1, <2>2, <2>3
    <2>5. \A j \in 1 .. Len(code) + 1 : DOMAIN g[j] = DOMAIN env
        BY SMTT(30), <2>1, <2>2, <2>4, FindsDomain
    <2> QED BY <2>1, <2>3, <2>5, EntryDomain
<1>6. CASE i = 1
    <2>1. g[i] = Executed(EntryEnv(f, b), s.inserted[b][i], no)
        BY <1>4, <1>6 DEF Finds
    <2>2. InFront(s, f, b, i) = EntryEnv(f, b)
        BY <1>6 DEF InFront
    <2> QED BY <1>2, <1>3, <1>5, <2>1, <2>2, EntryDomain DEF Here
<1>7. CASE i # 1
    <2>0. Len(f.blocks[b]) \in Nat
        BY BlockOf DEF Allocates
    <2>1. PICK j \in 1 .. Len(f.blocks[b]) : j = i - 1 /\ i = j + 1
        BY <1>7, <2>0
    <2>2. g[j + 1] = Executed(IF j \in Erased(s, f, b) THEN g[j] ELSE Execute(g[j], s.code[b][j], j, no),
                              s.inserted[b][j + 1], no)
        BY <1>1, <1>4 DEF Finds
    <2>3. InFront(s, f, b, i) = IF j \in Erased(s, f, b) THEN g[j] ELSE Execute(g[j], s.code[b][j], j, no)
        BY <1>2, <1>3, <1>7, <2>1 DEF InFront, Erased, Plain
    <2>4. g[i] = Executed(InFront(s, f, b, i), s.inserted[b][i], no)
        BY <2>1, <2>2, <2>3
    <2>5. DOMAIN InFront(s, f, b, i) = Env
        <3>1. DOMAIN g[j] = Env
            BY <1>5, <2>0, <2>1
        <3>2. DOMAIN Execute(g[j], s.code[b][j], j, no) = DOMAIN g[j]
            BY ExecuteDomain
        <3> QED BY <2>3, <3>1, <3>2
    <2> QED BY <1>2, <1>3, <1>5, <2>4, <2>5 DEF Here
<1> QED BY <1>6, <1>7

LEMMA OldSteps ==
    ASSUME NEW f \in Functions, NEW b \in 1 .. Len(f.blocks)
    PROVE  /\ Old(f, b)[1] = EntryEnv(f, b)
           /\ \A i \in 1 .. Len(f.blocks[b]) : Old(f, b)[i + 1] = Plain(Old(f, b)[i], f.blocks[b][i], i)
           /\ \A i \in 1 .. Len(f.blocks[b]) + 1 : DOMAIN Old(f, b)[i] = Env
<1> DEFINE l == Len(f.blocks[b])
<1>1. PICK ins : ins = [i \in 1 .. l + 1 |-> <<>>]
    OBVIOUS
<1>2. PICK no, none : no = FALSE /\ none = {}
    OBVIOUS
<1>3. PICK g : g = Old(f, b)
    OBVIOUS
<1>4. f.blocks[b] \in Seq(Instructions) /\ l \in Nat
    BY BlockOf
<1>5. g = Found(EntryEnv(f, b), f.blocks[b], ins, none, no)
    BY <1>1, <1>2, <1>3 DEF Old, FoundBefore
<1>6. Finds(g, EntryEnv(f, b), f.blocks[b], ins, none, no)
    BY <1>4, <1>5, FoundFinds
<1>7. \A i \in 1 .. l + 1 : ins[i] = <<>> /\ ins[i] \in Seq(Inserted)
    BY <1>1, EmptySeq
<1>8. \A i \in 1 .. l + 1 : DOMAIN g[i] = Env
    BY SMTT(30), <1>4, <1>6, <1>7, FindsDomain, EntryDomain
<1>9. g[1] = EntryEnv(f, b)
    <2>1. g[1] = Executed(EntryEnv(f, b), ins[1], no) /\ 1 \in 1 .. l + 1
        BY <1>4, <1>6 DEF Finds
    <2> QED BY <1>7, <2>1, ExecutedEmpty
<1>10. ASSUME NEW i \in 1 .. l PROVE g[i + 1] = Plain(g[i], f.blocks[b][i], i)
    <2>1. g[i + 1] = Executed(Execute(g[i], f.blocks[b][i], i, no), ins[i + 1], no)
        BY <1>2, <1>6 DEF Finds
    <2>2. i + 1 \in 1 .. l + 1
        BY <1>4
    <2>3. g[i + 1] = Execute(g[i], f.blocks[b][i], i, no)
        BY <1>7, <2>1, <2>2, ExecutedEmpty
    <2> QED BY <1>2, <2>3 DEF Plain
<1> QED BY <1>3, <1>8, <1>9, <1>10

\* Up to instruction i of block b, the code of s and t does the same.
SamePast(s, t, b, i) ==
    \A j \in 1 .. i - 1 :
        /\ t.inserted[b][j] = s.inserted[b][j]
        /\ <<b, j>> \in t.Coalesced <=> <<b, j>> \in s.Coalesced
        /\ SameOperands(s.code[b][j], t.code[b][j])

LEMMA PlainSame ==
    ASSUME NEW i \in Instructions, NEW j \in Instructions, SameOperands(i, j), NEW env, NEW n
    PROVE  Plain(env, j, n) = Plain(env, i, n)
BY ExecuteSame DEF Instructions

LEMMA PastSame ==
    ASSUME NEW s, NEW t, NEW f, Allocates(s, f), Allocates(t, f), NEW b \in 1 .. Len(f.blocks),
           NEW i \in 1 .. Len(f.blocks[b]) + 1, SamePast(s, t, b, i)
    PROVE  /\ InFront(t, f, b, i) = InFront(s, f, b, i)
           /\ \A j \in 1 .. i - 1 : New(t, f, b)[j] = New(s, f, b)[j]
<1> DEFINE l == Len(f.blocks[b])
<1>1. l \in Nat /\ i \in Nat
    BY BlockOf DEF Allocates
<1>2. PICK c : c = s.code[b] /\ c \in Seq(Instructions) /\ Len(c) = l
    BY InsertedAt
<1>3. PICK d : d = t.code[b] /\ d \in Seq(Instructions) /\ Len(d) = l
    BY InsertedAt
<1>4. PICK no : no = FALSE
    OBVIOUS
<1>5. PICK g, h : g = New(s, f, b) /\ h = New(t, f, b)
    OBVIOUS
<1>6. PICK env, es, et, ins, int :
        /\ env = EntryEnv(f, b) /\ es = Erased(s, f, b) /\ et = Erased(t, f, b)
        /\ ins = s.inserted[b] /\ int = t.inserted[b]
    OBVIOUS
<1>7. Finds(g, env, c, ins, es, no) /\ Finds(h, env, d, int, et, no)
    BY <1>2, <1>3, <1>4, <1>5, <1>6, NewIsFound
<1>8. ASSUME NEW j \in 1 .. i - 1
      PROVE  /\ int[j] = ins[j] /\ (j \in et <=> j \in es)
             /\ \A e : Execute(e, d[j], j, no) = Execute(e, c[j], j, no)
    <2>1. int[j] = ins[j] /\ SameOperands(c[j], d[j]) /\ (<<b, j>> \in t.Coalesced <=> <<b, j>> \in s.Coalesced)
        BY <1>2, <1>3, <1>6 DEF SamePast
    <2>2. j \in 1 .. l
        BY <1>1
    <2>3. c[j] \in Instructions /\ d[j] \in Instructions
        BY <1>2, <1>3, <2>2, ElementOfSeq
    <2>4. \A e : Plain(e, d[j], j) = Plain(e, c[j], j)
        BY <2>1, <2>3, PlainSame
    <2> QED BY <1>4, <1>6, <2>1, <2>2, <2>4 DEF Erased, Plain
<1> HIDE DEF l
<1>9. \A j \in 1 .. i - 1 : h[j] = g[j]
    <2>1. PICK n \in Nat : n = i - 1
        BY <1>1
    <2>2. n <= Len(c) + 1 /\ n <= Len(d) + 1
        BY <1>1, <1>2, <1>3, <2>1 DEF l
    <2>3. \A j \in 1 .. n : int[j] = ins[j]
        BY <1>8, <2>1
    <2>4. \A j \in 1 .. n - 1 : (j \in et <=> j \in es) /\ \A e : Execute(e, d[j], j, no) = Execute(e, c[j], j, no)
        BY <1>8, <2>1
    <2>5. DoSame(c, d, ins, int, es, et, no, n)
        BY <2>3, <2>4 DEF DoSame
    <2>6. SameUpTo(g, h, n)
        BY <1>2, <1>3, <1>7, <2>2, <2>5, FindsSame
    <2> QED BY <2>1, <2>6 DEF SameUpTo
<1>10. InFront(t, f, b, i) = InFront(s, f, b, i)
    <2>1. CASE i = 1
        BY <2>1 DEF InFront
    <2>2. CASE i # 1
        <3>1. PICK j \in 1 .. i - 1 : j = i - 1
            BY <1>1, <2>2
        <3>2. h[j] = g[j] /\ \A e : Plain(e, d[j], j) = Plain(e, c[j], j)
            BY <1>4, <1>8, <1>9 DEF Plain
        <3>3. <<b, j>> \in t.Coalesced <=> <<b, j>> \in s.Coalesced
            BY DEF SamePast
        <3>4. InFront(t, f, b, i) = IF <<b, j>> \in t.Coalesced THEN h[j] ELSE Plain(h[j], d[j], j)
            BY <1>3, <1>5, <2>2, <3>1 DEF InFront
        <3>5. InFront(s, f, b, i) = IF <<b, j>> \in s.Coalesced THEN g[j] ELSE Plain(g[j], c[j], j)
            BY <1>2, <1>5, <2>2, <3>1 DEF InFront
        <3> QED BY <3>2, <3>3, <3>4, <3>5
    <2> QED BY <2>1, <2>2
<1> QED BY <1>5, <1>9, <1>10

-----------------------------------------------------------------------------
(***************************************************************************)
(* What is needed in front of an instruction and behind it.                *)
(***************************************************************************)
\* Some block reads the value v that it is given.
ReadSomewhere(f, v) == v \in Virt /\ \E b \in DOMAIN f.blocks : UpwardExposed(f, b, v)

LiveStep(f, prev) ==
    [b \in DOMAIN f.blocks |->
        {v \in Virt : UpwardExposed(f, b, v) \/ (~Defines(f, b, v) /\ \E c \in f.succs[b] : v \in prev[c])}]

LEMMA LiveStepSomewhere ==
    ASSUME NEW f \in Functions, NEW prev,
           \A c \in DOMAIN f.blocks : \A v \in prev[c] : ReadSomewhere(f, v),
           NEW b \in DOMAIN f.blocks, NEW v \in LiveStep(f, prev)[b]
    PROVE  ReadSomewhere(f, v)
<1>1. f.succs[b] \subseteq DOMAIN f.blocks
    BY FunctionsAssumption
<1>2. v \in Virt /\ (UpwardExposed(f, b, v) \/ \E c \in f.succs[b] : v \in prev[c])
    BY DEF LiveStep
<1>3. CASE UpwardExposed(f, b, v)
    BY <1>2, <1>3 DEF ReadSomewhere
<1>4. CASE \E c \in f.succs[b] : v \in prev[c]
    BY <1>1, <1>4
<1> QED BY <1>2, <1>3, <1>4

LiveRun(live, f, m) ==
    /\ live[0] = [b \in DOMAIN f.blocks |-> {}]
    /\ \A n \in 1 .. m : live[n] = LiveStep(f, live[n - 1])

LEMMA LiveInRuns ==
    ASSUME NEW f \in Functions
    PROVE  \E live : LiveRun(live, f, Len(f.blocks)) /\ LiveIn(f) = live[Len(f.blocks)]
<1> DEFINE l == Len(f.blocks)
           zero == [b \in DOMAIN f.blocks |-> {}]
           step(prev) == [b \in DOMAIN f.blocks |->
                            {v \in Virt : UpwardExposed(f, b, v)
                                \/ (~Defines(f, b, v) /\ \E c \in f.succs[b] : v \in prev[c])}]
           Is(F, m) == F = [n \in 0 .. m |-> IF n = 0 THEN zero ELSE step(F[n - 1])]
           T == {m \in Nat : \E F : Is(F, m)}
           live == CHOOSE F : Is(F, l)
<1>1. l \in Nat
    BY FunctionsAssumption, CodeDomain
<1>2. LiveIn(f) = live[l]
    BY DEF LiveIn
<1>s. \A prev : step(prev) = LiveStep(f, prev)
    BY DEF LiveStep
<1> HIDE DEF step, zero, l
<1>3. 0 \in T
    <2> DEFINE F == [n \in 0 .. 0 |-> zero]
    <2>1. Is(F, 0)
        OBVIOUS
    <2> QED BY <2>1
<1>4. ASSUME NEW m \in Nat, m \in T PROVE m + 1 \in T
    <2>1. PICK F : Is(F, m)
        BY <1>4
    <2> DEFINE last == step(F[m])
               g == [n \in 0 .. m + 1 |-> IF n = m + 1 THEN last ELSE F[n]]
               h == [n \in 0 .. m + 1 |-> IF n = 0 THEN zero ELSE step(g[n - 1])]
    <2>2. \A n \in 0 .. m : g[n] = F[n]
        OBVIOUS
    <2>3. ASSUME NEW n \in 0 .. m + 1 PROVE g[n] = h[n]
        <3>1. CASE n = 0
            BY <2>1, <2>2, <3>1
        <3>2. CASE n = m + 1
            <4>1. n - 1 = m /\ m \in 0 .. m
                BY <3>2
            <4>2. g[n - 1] = F[m]
                BY <2>2, <4>1
            <4> QED BY <3>2, <4>2
        <3>3. CASE n # 0 /\ n # m + 1
            <4>1. n \in 0 .. m /\ n - 1 \in 0 .. m
                BY <3>3
            <4>2. g[n] = F[n] /\ g[n - 1] = F[n - 1]
                BY <2>2, <4>1
            <4>3. F[n] = step(F[n - 1])
                BY <2>1, <3>3, <4>1
            <4> HIDE DEF g
            <4> QED BY <3>3, <4>2, <4>3
        <3> QED BY <3>1, <3>2, <3>3
    <2> HIDE DEF last
    <2>4. g = h
        BY <2>3
    <2> HIDE DEF g
    <2>5. Is(g, m + 1)
        BY <2>4
    <2> QED BY <2>5
<1>5. l \in T
    <2> HIDE DEF T
    <2> QED BY <1>1, <1>3, <1>4, SetInduction
<1>6. Is(live, l)
    <2>1. \E F : Is(F, l)
        BY <1>5
    <2> HIDE DEF Is
    <2> QED BY <2>1
<1> HIDE DEF live
<1>7. live[0] = zero
    <2>1. 0 \in 0 .. l
        BY <1>1
    <2> QED BY <1>6, <2>1
<1>8. ASSUME NEW n \in 1 .. l PROVE live[n] = LiveStep(f, live[n - 1])
    <2>1. n \in 0 .. l /\ n # 0
        BY <1>1
    <2>2. live[n] = step(live[n - 1])
        BY <1>6, <2>1
    <2> QED BY <1>s, <2>2
<1> QED BY <1>2, <1>7, <1>8 DEF LiveRun, zero, l

AllSomewhere(f, prev) == \A c \in DOMAIN f.blocks : \A w \in prev[c] : ReadSomewhere(f, w)

LEMMA LiveInSomewhere ==
    ASSUME NEW f \in Functions, NEW b \in DOMAIN f.blocks, NEW v \in LiveIn(f)[b]
    PROVE  ReadSomewhere(f, v)
<1>1. PICK l \in Nat : l = Len(f.blocks)
    BY FunctionsAssumption, CodeDomain
<1>2. PICK live : LiveRun(live, f, l) /\ LiveIn(f) = live[l]
    BY <1>1, LiveInRuns
<1> DEFINE S == {n \in Nat : n <= l => AllSomewhere(f, live[n])}
<1>3. 0 \in S
    BY <1>2 DEF LiveRun, AllSomewhere
<1>4. ASSUME NEW n \in Nat, n \in S PROVE n + 1 \in S
    <2>1. SUFFICES ASSUME n + 1 <= l PROVE AllSomewhere(f, live[n + 1])
        OBVIOUS
    <2>2. PICK k \in 1 .. l : k = n + 1
        BY <2>1
    <2>3. PICK prev : prev = live[n]
        OBVIOUS
    <2>4. live[k] = LiveStep(f, prev)
        <3>1. k - 1 = n
            BY <2>2
        <3> QED BY <1>2, <2>3, <3>1 DEF LiveRun
    <2>5. \A c \in DOMAIN f.blocks : \A w \in prev[c] : ReadSomewhere(f, w)
        BY <1>4, <2>1, <2>3 DEF AllSomewhere
    <2>6. AllSomewhere(f, LiveStep(f, prev))
        BY <2>5, LiveStepSomewhere DEF AllSomewhere
    <2> QED BY <2>2, <2>4, <2>6
<1>5. l \in S
    <2> HIDE DEF S
    <2> QED BY <1>1, <1>3, <1>4, SetInduction
<1> QED BY <1>2, <1>5 DEF AllSomewhere

LEMMA LiveOutSomewhere ==
    ASSUME NEW f \in Functions, NEW b \in 1 .. Len(f.blocks), NEW v \in LiveOut(f, b)
    PROVE  ReadSomewhere(f, v)
<1>1. DOMAIN f.blocks = 1 .. Len(f.blocks) /\ f.succs[b] \subseteq DOMAIN f.blocks
    BY BlockOf, FunctionsAssumption
<1>2. PICK c \in f.succs[b] : v \in LiveIn(f)[c]
    BY DEF LiveOut
<1> QED BY <1>1, <1>2, LiveInSomewhere

\* Values defined in front of instruction i, needed in front of it, and needed behind it but not written by it.
Before(f, b, i) == {v \in Virt : DefinedBefore(f, b, i, v)}
NeededAt(f, b, i) == {v \in Virt : Needed(f, b, i, v)}
Later(f, b, i) == NeededAt(f, b, i + 1) \ Definitions(f.blocks[b][i])

\* Registers that hold arguments and results on their way.
PendingAt(f, b, i) == {r \in Phys : Pending(f, b, i, r)}
StillPending(f, b, i) == PendingAt(f, b, i) \ Uses(f.blocks[b][i])

LEMMA BlockSound ==
    ASSUME NEW f \in Functions, NEW b \in 1 .. Len(f.blocks), NEW i \in 1 .. Len(f.blocks[b])
    PROVE  Sound(f.blocks[b][i])
<1>1. DOMAIN f.blocks = 1 .. Len(f.blocks) /\ DOMAIN f.blocks[b] = 1 .. Len(f.blocks[b])
    BY BlockOf
<1>2. f.blocks[b][i] \in Instructions
    BY BlockOf, ElementOfSeq
<1>3. WellFormedInstr(f.blocks[b][i])
    BY <1>1, SelectionAssumption DEF WellFormedBlock
<1>4. f.blocks[b][i].op = "COPY" => Len(f.blocks[b][i].ops) = 2
    BY <1>1, FunctionsAssumption
<1> QED BY <1>2, <1>3, <1>4 DEF Sound

LEMMA StillNeeded ==
    ASSUME NEW f \in Functions, NEW b \in 1 .. Len(f.blocks), NEW i \in 1 .. Len(f.blocks[b]),
           NEW I, I = f.blocks[b][i]
    PROVE  Still(I, Later(f, b, i), 0) \subseteq NeededAt(f, b, i)
<1>1. PICK block : block = f.blocks[b]
    OBVIOUS
<1>2. Len(block) \in Nat /\ i \in 1 .. Len(block)
    BY <1>1, BlockOf
<1>3. Sound(I)
    BY BlockSound
<1>4. ASSUME NEW v \in Still(I, Later(f, b, i), 0) PROVE v \in Virt /\ Needed(f, b, i, v)
    <2>1. CASE v \in Later(f, b, i)
        <3>1. v \in Virt /\ Needed(f, b, i + 1, v) /\ v \notin Definitions(block[i])
            BY <1>1, <2>1 DEF Later, NeededAt
        <3>2. \/ \E j \in i + 1 .. Len(block) :
                    v \in Uses(block[j]) /\ \A l \in i + 1 .. j - 1 : v \notin Definitions(block[l])
              \/ v \in LiveOut(f, b) /\ \A l \in i + 1 .. Len(block) : v \notin Definitions(block[l])
            BY <1>1, <3>1 DEF Needed
        <3>3. CASE \E j \in i + 1 .. Len(block) :
                        v \in Uses(block[j]) /\ \A l \in i + 1 .. j - 1 : v \notin Definitions(block[l])
            <4>1. PICK j \in i + 1 .. Len(block) :
                        v \in Uses(block[j]) /\ \A l \in i + 1 .. j - 1 : v \notin Definitions(block[l])
                BY <3>3
            <4>2. j \in i .. Len(block)
                BY <1>2
            <4>3. \A l \in i .. j - 1 : v \notin Definitions(block[l])
                <5>1. \A l \in i .. j - 1 : l = i \/ l \in i + 1 .. j - 1
                    BY <1>2
                <5> QED BY <3>1, <4>1, <5>1
            <4> QED BY <1>1, <3>1, <4>1, <4>2, <4>3 DEF Needed
        <3>4. CASE v \in LiveOut(f, b) /\ \A l \in i + 1 .. Len(block) : v \notin Definitions(block[l])
            <4>1. \A l \in i .. Len(block) : l = i \/ l \in i + 1 .. Len(block)
                BY <1>2
            <4>2. v \in LiveOut(f, b) /\ \A l \in i .. Len(block) : v \notin Definitions(block[l])
                BY <3>1, <3>4, <4>1
            <4> QED BY <1>1, <3>1, <4>2 DEF Needed
        <3> QED BY <3>2, <3>3, <3>4
    <2>2. CASE v \notin Later(f, b, i)
        <3>1. v \in Virt /\ \E j \in 1 .. Len(I.ops) : isUse(I.ops[j]) /\ I.ops[j].reg = v
            BY <1>4, <2>2 DEF Still
        <3>2. v \in Uses(block[i])
            BY <1>1, <1>3, <3>1, SoundInstr
        <3>3. i \in i .. Len(block) /\ \A l \in i .. i - 1 : v \notin Definitions(block[l])
            BY <1>2
        <3> QED BY <1>1, <3>1, <3>2, <3>3 DEF Needed
    <2> QED BY <2>1, <2>2
<1> QED BY <1>4 DEF NeededAt

LEMMA NeededAfter ==
    ASSUME NEW f, NEW b, NEW i, NEW I, I = f.blocks[b][i]
    PROVE  NeededAt(f, b, i + 1) \subseteq Later(f, b, i) \cup (Definitions(I) \cap Virt)
BY DEF Later, NeededAt

LEMMA PendingAfter ==
    ASSUME NEW f \in Functions, NEW b \in 1 .. Len(f.blocks), NEW i \in 1 .. Len(f.blocks[b]),
           NEW I, I = f.blocks[b][i]
    PROVE  PendingAt(f, b, i + 1) \subseteq StillPending(f, b, i) \cup (Definitions(I) \cap Phys)
<1>1. i \in Nat \ {0}
    BY BlockOf
<1>2. ASSUME NEW r \in PendingAt(f, b, i + 1) PROVE r \in StillPending(f, b, i) \cup (Definitions(I) \cap Phys)
    <2>1. PICK n \in Nat : n = i + 1
        BY <1>1
    <2>2. r \in Phys /\ Pending(f, b, n, r)
        BY <1>2, <2>1 DEF PendingAt
    <2>3. PICK j \in 0 .. n - 1 :
            /\ r \in IF j = 0 THEN EntryLiveIns(f, b) ELSE Definitions(f.blocks[b][j])
            /\ \A k \in j + 1 .. n - 1 : r \notin Uses(f.blocks[b][k])
        BY <2>2 DEF Pending
    <2>4. CASE j = i
        BY <1>1, <2>2, <2>3, <2>4
    <2>5. CASE j # i
        <3>1. j \in 0 .. i - 1 /\ i \in j + 1 .. n - 1 /\ \A k \in j + 1 .. i - 1 : k \in j + 1 .. n - 1
            BY <1>1, <2>1, <2>5
        <3>2. r \notin Uses(I)
            BY <2>3, <3>1
        <3>3. Pending(f, b, i, r)
            BY <2>3, <3>1 DEF Pending
        <3> QED BY <2>2, <3>2, <3>3 DEF StillPending, PendingAt
    <2> QED BY <2>4, <2>5
<1> QED BY <1>2

NamedAt(s, v, c, n) == \E p \in Chain(s, v) : p[1] = c /\ p[2] = n

LEMMA UsedIsInChain ==
    ASSUME NEW s, NEW f, Allocates(s, f), NEW c \in 1 .. Len(f.blocks), NEW n \in 1 .. Len(f.blocks[c]),
           SameOperands(f.blocks[c][n], s.code[c][n]), NEW v \in Uses(f.blocks[c][n])
    PROVE  NamedAt(s, v, c, n)
<1>0. f \in Functions /\ s \in State /\ c \in 1 .. Len(s.code) /\ Len(s.code[c]) = Len(f.blocks[c])
    BY InsertedAt DEF Allocates
<1>1. PICK I : I = f.blocks[c][n]
    OBVIOUS
<1>2. Sound(I)
    BY <1>0, <1>1, BlockSound
<1>3. PICK k \in 1 .. Len(I.ops) : v = I.ops[k].reg
    BY <1>1, <1>2, SoundInstr DEF Uses, Named
<1>4. PICK m : m = <<c, n>>
    OBVIOUS
<1>5. Op(s, m, k).reg = v /\ Len(s.code[c][n].ops) = Len(I.ops)
    BY <1>1, <1>3, <1>4 DEF SameOperands, Op
<1>6. IsOperand(s.code, m, k)
    <2>1. m[1] = c /\ m[2] = n
        BY <1>4
    <2> QED BY <1>0, <1>3, <1>5, <2>1 DEF IsOperand
<1>7. <<m[1], m[2], k>> \in Chain(s, v)
    BY <1>0, <1>5, <1>6, InChain
<1> QED BY <1>4, <1>7 DEF NamedAt

LEMMA NeededIsElsewhere ==
    ASSUME NEW s, NEW f, Allocates(s, f), NEW b \in 1 .. Len(f.blocks), NEW i \in 1 .. Len(f.blocks[b]),
           Unseen(s, f, b, i), ExposedHaveSlots(s, f, b, i), NEW m, m = <<b, i>>
    PROVE  NeededElsewhere(s, m, Later(f, b, i), Before(f, b, i))
<1>1. f \in Functions /\ i \in Nat /\ Len(f.blocks[b]) \in Nat
    BY BlockOf DEF Allocates
<1>2. ASSUME NEW v \in Later(f, b, i) \cap Before(f, b, i)
      PROVE  v \in s.StackSlotForVirtReg \/ \E p \in Chain(s, v) : p[1] # b \/ p[2] # i
    <2>1. PICK n \in Nat : n = i + 1
        BY <1>1
    <2>2. v \in Virt /\ Needed(f, b, n, v) /\ DefinedBefore(f, b, i, v)
        BY <1>2, <2>1 DEF Later, NeededAt, Before
    <2>3. CASE \E j \in n .. Len(f.blocks[b]) : v \in Uses(f.blocks[b][j])
        <3>1. PICK j \in n .. Len(f.blocks[b]) : v \in Uses(f.blocks[b][j])
            BY <2>3
        <3>2. j \in 1 .. Len(f.blocks[b]) /\ j # i /\ ~Seen(b, i, b, j)
            BY <1>1, <2>1 DEF Seen
        <3>3. SameOperands(f.blocks[b][j], s.code[b][j])
            BY <3>2 DEF Unseen
        <3>4. NamedAt(s, v, b, j)
            BY <3>1, <3>2, <3>3, UsedIsInChain
        <3> QED BY <3>2, <3>4 DEF NamedAt
    <2>4. CASE v \in LiveOut(f, b)
        <3>1. ReadSomewhere(f, v)
            BY <1>1, <2>4, LiveOutSomewhere
        <3>2. PICK c \in DOMAIN f.blocks : UpwardExposed(f, c, v)
            BY <3>1 DEF ReadSomewhere
        <3>3. PICK j \in DOMAIN f.blocks[c] :
                    v \in Uses(f.blocks[c][j]) /\ \A l \in 1 .. j - 1 : v \notin Definitions(f.blocks[c][l])
            BY <3>2 DEF UpwardExposed
        <3>4. c \in 1 .. Len(f.blocks) /\ j \in 1 .. Len(f.blocks[c])
            BY <1>1, BlockOf
        <3>5. ~DefinedBefore(f, c, j, v)
            BY <3>3 DEF DefinedBefore
        <3>6. CASE Seen(b, i, c, j)
            BY <2>2, <3>3, <3>4, <3>5, <3>6 DEF ExposedHaveSlots
        <3>7. CASE ~Seen(b, i, c, j)
            <4>1. SameOperands(f.blocks[c][j], s.code[c][j])
                BY <3>4, <3>7 DEF Unseen
            <4>2. NamedAt(s, v, c, j)
                BY <3>3, <3>4, <4>1, UsedIsInChain
            <4>3. c # b \/ j # i
                BY <2>2, <3>5
            <4> QED BY <4>2, <4>3 DEF NamedAt
        <3> QED BY <3>6, <3>7
    <2> QED BY <2>2, <2>3, <2>4 DEF Needed
<1> QED BY <1>2 DEF NeededElsewhere

\* What instruction i finds when the allocator comes to it.
LEMMA InBlockWaits ==
    ASSUME NEW s, NEW f, Allocates(s, f), InverseBut(s, {}),
           NEW b \in 1 .. Len(f.blocks), NEW i \in 1 .. Len(f.blocks[b]), InBlock(s, f, b, i),
           NEW I, I = f.blocks[b][i], NEW e, e = InFront(s, f, b, i), NEW m, m = <<b, i>>,
           NEW O, O = Old(f, b)[i]
    PROVE  Waiting(I, e, m, O, Still(I, Later(f, b, i), 0), Before(f, b, i), StillPending(f, b, i), s)
<1>1. f \in Functions /\ s \in State /\ i \in Nat
    BY BlockOf DEF Allocates
<1>2. PICK h : h = Here(e, s, m)
    OBVIOUS
<1>3. New(s, f, b)[i] = h
    <2>1. i \in 1 .. Len(f.blocks[b]) + 1
        BY <1>1, BlockOf
    <2> QED BY <1>2, <2>1, NewSteps
<1>4. /\ Grounded(s, f, b, i)
      /\ Agree(s, h, O, NeededAt(f, b, i))
      /\ \A r \in Phys : Pending(f, b, i, r) => s.PhysRegState[r] = "reserved" /\ h[r] = O[r]
      /\ i > 1 /\ f.blocks[b][i - 1].op = "CALL" => DOMAIN s.LiveVirtRegs = {} /\ h[Order[1]] = O[Order[1]]
    BY <1>3 DEF InBlock, New, Old, NeededAt
<1>5. ASSUME NEW x \in Phys \cap Uses(I)
      PROVE  s.PhysRegState[x] \notin Virt /\ h[x] = O[x]
    <2>1. Pending(f, b, i, x) \/ (i > 1 /\ f.blocks[b][i - 1].op = "CALL" /\ x = Order[1])
        <3>1. b \in DOMAIN f.blocks /\ i \in DOMAIN f.blocks[b]
            BY <1>1, BlockOf
        <3> QED BY <1>1, <3>1, SelectionAssumption DEF WellFormedBlock
    <2>2. CASE Pending(f, b, i, x)
        <3>1. "reserved" \notin Virt
            BY RegAllocAssumption DEF PhysRegStates
        <3> QED BY <1>4, <2>2, <3>1
    <2>3. CASE i > 1 /\ f.blocks[b][i - 1].op = "CALL" /\ x = Order[1]
        BY <1>4, <2>3 DEF InverseBut, HeldByLive
    <2> QED BY <2>1, <2>2, <2>3
<1>6. Still(I, Later(f, b, i), 0) \subseteq NeededAt(f, b, i)
    BY <1>1, StillNeeded
<1>7. Agree(s, h, O, Still(I, Later(f, b, i), 0))
    BY <1>4, <1>6 DEF Agree
<1>8. DOMAIN s.LiveVirtRegs \subseteq s.StackSlotForVirtReg \cup Before(f, b, i)
    <2>1. \A v \in DOMAIN s.LiveVirtRegs : v \in Virt
        BY <1>1, StatesAreNotVirtual
    <2> QED BY <1>4, <2>1 DEF Grounded, Before
<1>9. \A x \in StillPending(f, b, i) : s.PhysRegState[x] = "reserved" /\ h[x] = O[x]
    BY <1>4 DEF StillPending, PendingAt
<1> QED BY <1>2, <1>5, <1>7, <1>8, <1>9 DEF Waiting

-----------------------------------------------------------------------------
(***************************************************************************)
(* The turn of the loop for instruction i of block b.                      *)
(***************************************************************************)
LEMMA CoalesceEffect ==
    ASSUME NEW u \in State, NEW m, NEW t, t = Coalesce(u, m)
    PROVE  /\ t.code = u.code /\ t.inserted = u.inserted /\ t.StackSlotForVirtReg = u.StackSlotForVirtReg
           /\ t.LiveVirtRegs = u.LiveVirtRegs /\ t.PhysRegState = u.PhysRegState /\ t.errors = u.errors
           /\ t.Coalesced = u.Coalesced \cup (IF u.CopyDst # None /\ u.CopyDst = u.CopySrc THEN {m} ELSE {})
BY DEF Coalesce, State

\* s before, t after, and u in between, when all that is left is to note that a copy is erased.
Turn(s, f, b, i, u, t) ==
    /\ t = Coalesce(u, <<b, i>>) /\ u \in State
    /\ Outside(s, u, <<b, i>>)

\* The scans of instruction i gave its values their registers.
Turned(s, f, b, i, u) ==
    /\ Advanced(f.blocks[b][i], InFront(s, f, b, i), <<b, i>>, Old(f, b)[i],
                Later(f, b, i), Before(f, b, i), StillPending(f, b, i), s, u)

\* m, which is the place of instruction i of block b of f, is a place in s too.
PlaceOf(s, f, b, i, m) ==
    /\ m \in Places /\ IsPlace(s, m) /\ IsInstr(s.code, m) /\ m[1] = b /\ m[2] = i
    /\ i \in 1 .. Len(f.blocks[b]) + 1 /\ i + 1 \in 1 .. Len(f.blocks[b]) + 1
    /\ f \in Functions /\ s \in State /\ Len(f.blocks[b]) \in Nat /\ i \in Nat /\ b \in Nat

LEMMA PlaceIs ==
    ASSUME NEW s, NEW f, Allocates(s, f), NEW b \in 1 .. Len(f.blocks), NEW i \in 1 .. Len(f.blocks[b]),
           NEW m, m = <<b, i>>
    PROVE  PlaceOf(s, f, b, i, m)
<1>1. f \in Functions /\ s \in State
    BY DEF Allocates
<1>2. Len(f.blocks[b]) \in Nat /\ i \in Nat /\ b \in Nat
    BY <1>1, BlockOf
<1>3. i \in 1 .. Len(f.blocks[b]) + 1 /\ i + 1 \in 1 .. Len(f.blocks[b]) + 1
    BY <1>2
<1>4. m \in Places /\ m[1] = b /\ m[2] = i
    BY <1>2 DEF Places
<1>5. IsPlace(s, m) /\ IsInstr(s.code, m)
    BY SMTT(30), <1>3, <1>4, InsertedAt DEF IsInstr
<1> QED BY <1>1, <1>2, <1>3, <1>4, <1>5 DEF PlaceOf

LEMMA SameOperandsTransitive ==
    ASSUME NEW i, NEW j, NEW k, SameOperands(i, j), SameOperands(j, k)
    PROVE  SameOperands(i, k)
BY DEF SameOperands

LEMMA UnseenAfter ==
    ASSUME NEW s, NEW f, Allocates(s, f), NEW b \in 1 .. Len(f.blocks), NEW i \in 1 .. Len(f.blocks[b]),
           Unseen(s, f, b, i), NEW u, NEW t, Turn(s, f, b, i, u, t)
    PROVE  Unseen(t, f, b, i + 1)
<1>1. PICK m : m = <<b, i>>
    OBVIOUS
<1>2. /\ m[1] = b /\ m[2] = i /\ f \in Functions /\ i \in Nat /\ b \in Nat
    <2>1. PlaceOf(s, f, b, i, m)
        BY <1>1, PlaceIs
    <2> QED BY <2>1 DEF PlaceOf
<1>3. Outside(s, u, m) /\ t.code = u.code /\ t.inserted = u.inserted
      /\ t.Coalesced \subseteq u.Coalesced \cup {m}
    BY <1>1, CoalesceEffect DEF Turn
<1>4. PICK k \in Nat : k = i + 1
    BY <1>2
<1>5. ASSUME NEW c \in 1 .. Len(f.blocks), NEW n \in Nat, ~Seen(b, k, c, n)
      PROVE  ~Seen(b, i, c, n) /\ (c # m[1] \/ n # m[2])
    <2>1. c \in Nat
        BY <1>2, BlockOf
    <2> QED BY <1>2, <1>4, <1>5, <2>1 DEF Seen
<1>6. ASSUME NEW c \in 1 .. Len(f.blocks), NEW n \in 1 .. Len(f.blocks[c]), ~Seen(b, k, c, n)
      PROVE  SameOperands(f.blocks[c][n], t.code[c][n]) /\ <<c, n>> \notin t.Coalesced
    <2>0. Len(s.code[c]) = Len(f.blocks[c]) /\ c \in 1 .. Len(s.code)
        BY InsertedAt
    <2>1. n \in Nat /\ c \in 1 .. Len(s.code) /\ n \in 1 .. Len(s.code[c])
        BY <1>2, <2>0, BlockOf
    <2>2. ~Seen(b, i, c, n) /\ (c # m[1] \/ n # m[2])
        BY <1>5, <1>6, <2>1
    <2>3. SameOperands(f.blocks[c][n], s.code[c][n]) /\ <<c, n>> \notin s.Coalesced
        BY <2>2 DEF Unseen
    <2>4. SameOperands(s.code[c][n], t.code[c][n])
        BY <1>3, <2>1, <2>2 DEF Outside
    <2>5. <<c, n>> \notin t.Coalesced
        <3>1. <<c, n>> # m
            BY <1>1, <1>2, <2>2
        <3> QED BY <1>3, <2>3, <3>1 DEF Outside
    <2> QED BY <2>3, <2>4, <2>5, SameOperandsTransitive
<1>7. ASSUME NEW c \in 1 .. Len(f.blocks), NEW n \in 1 .. Len(f.blocks[c]) + 1, ~Seen(b, k, c, n)
      PROVE  t.inserted[c][n] = <<>>
    <2>1. n \in Nat /\ c \in 1 .. Len(s.inserted) /\ n \in 1 .. Len(s.inserted[c])
        BY <1>2, BlockOf DEF Allocates, InsertedLengths
    <2>2. ~Seen(b, i, c, n) /\ (c # m[1] \/ n # m[2])
        BY <1>5, <1>7, <2>1
    <2>3. s.inserted[c][n] = <<>>
        BY <2>2 DEF Unseen
    <2> QED BY <1>3, <2>1, <2>2, <2>3 DEF Outside, Elsewhere
<1> QED BY <1>4, <1>6, <1>7 DEF Unseen

LEMMA ExposedAfter ==
    ASSUME NEW s, NEW f, Allocates(s, f), NEW b \in 1 .. Len(f.blocks), NEW i \in 1 .. Len(f.blocks[b]),
           ExposedHaveSlots(s, f, b, i), NEW u, NEW t, Turn(s, f, b, i, u, t),
           NEW I, I = f.blocks[b][i], Exposed(I, Before(f, b, i), u, AllUses(I))
    PROVE  ExposedHaveSlots(t, f, b, i + 1)
<1>2. /\ f \in Functions /\ i \in Nat /\ b \in Nat
    <2>1. PICK m : m = <<b, i>>
        OBVIOUS
    <2>2. PlaceOf(s, f, b, i, m)
        BY <2>1, PlaceIs
    <2> QED BY <2>2 DEF PlaceOf
<1>3. s.StackSlotForVirtReg \subseteq u.StackSlotForVirtReg /\ t.StackSlotForVirtReg = u.StackSlotForVirtReg
    BY CoalesceEffect DEF Turn, Outside
<1>4. PICK k \in Nat : k = i + 1
    BY <1>2
<1>5. ASSUME NEW c \in 1 .. Len(f.blocks), NEW n \in 1 .. Len(f.blocks[c]), NEW v \in Uses(f.blocks[c][n]) \cap Virt,
             Seen(b, k, c, n)
      PROVE  v \in t.StackSlotForVirtReg \/ DefinedBefore(f, c, n, v)
    <2>1. n \in Nat /\ c \in Nat
        BY <1>2, BlockOf
    <2>2. CASE Seen(b, i, c, n)
        BY <1>3, <2>2 DEF ExposedHaveSlots
    <2>3. CASE ~Seen(b, i, c, n)
        <3>1. c = b /\ n = i
            BY SMTT(30), <1>2, <1>4, <1>5, <2>1, <2>3 DEF Seen
        <3>2. Sound(I)
            BY <1>2, BlockSound
        <3>3. PICK j \in 1 .. Len(I.ops) : v = I.ops[j].reg /\ isUse(I.ops[j])
            BY SMTT(30), <3>1, <3>2, SoundInstr DEF Uses, Named, isUse
        <3>4. j \in AllUses(I) \cap (1 .. Len(I.ops))
            BY <3>3 DEF AllUses
        <3>5. v \in u.StackSlotForVirtReg \cup Before(f, b, i)
            BY <3>3, <3>4 DEF Exposed
        <3> QED BY <1>3, <3>1, <3>5 DEF Before
    <2> QED BY <2>2, <2>3
<1> QED BY <1>4, <1>5 DEF ExposedHaveSlots

\* The code up to instruction i does what it did, and what is in front of it is where it was.
LEMMA TurnPast ==
    ASSUME NEW s, NEW f, Allocates(s, f), NEW b \in 1 .. Len(f.blocks), NEW i \in 1 .. Len(f.blocks[b]),
           NEW u, NEW t, Turn(s, f, b, i, u, t), Allocates(t, f)
    PROVE  /\ SamePast(s, t, b, i)
           /\ InFront(t, f, b, i) = InFront(s, f, b, i)
           /\ \A j \in 1 .. i - 1 : New(t, f, b)[j] = New(s, f, b)[j]
<1>1. PICK m : m = <<b, i>>
    OBVIOUS
<1>2. /\ m[1] = b /\ m[2] = i /\ f \in Functions /\ i \in Nat /\ b \in Nat /\ i \in 1 .. Len(f.blocks[b]) + 1
      /\ Len(f.blocks[b]) \in Nat
    <2>1. PlaceOf(s, f, b, i, m)
        BY <1>1, PlaceIs
    <2> QED BY <2>1 DEF PlaceOf
<1>3. Outside(s, u, m) /\ t.code = u.code /\ t.inserted = u.inserted
      /\ u.Coalesced \subseteq t.Coalesced /\ t.Coalesced \subseteq u.Coalesced \cup {m}
    BY <1>1, CoalesceEffect DEF Turn
<1>4. Len(s.code[b]) = Len(f.blocks[b]) /\ b \in 1 .. Len(s.code)
    BY InsertedAt
<1>5. b \in 1 .. Len(s.inserted) /\ Len(s.inserted[b]) = Len(f.blocks[b]) + 1
    BY DEF Allocates, InsertedLengths
<1>6. ASSUME NEW j \in 1 .. i - 1
      PROVE  /\ t.inserted[b][j] = s.inserted[b][j]
             /\ <<b, j>> \in t.Coalesced <=> <<b, j>> \in s.Coalesced
             /\ SameOperands(s.code[b][j], t.code[b][j])
    <2>1. j # i /\ j \in 1 .. Len(s.code[b]) /\ j \in 1 .. Len(s.inserted[b])
        BY <1>2, <1>4, <1>5
    <2>2. t.inserted[b][j] = s.inserted[b][j]
        BY <1>2, <1>3, <1>5, <2>1 DEF Outside, Elsewhere
    <2>3. SameOperands(s.code[b][j], t.code[b][j])
        BY <1>2, <1>3, <1>4, <2>1 DEF Outside
    <2>4. <<b, j>> # m
        BY <1>1, <2>1
    <2> QED BY <1>3, <2>2, <2>3, <2>4 DEF Outside
<1>7. SamePast(s, t, b, i)
    BY <1>6 DEF SamePast
<1> QED BY <1>2, <1>7, PastSame

LEMMA ReadsSameFlags ==
    ASSUME NEW i, NEW j \in Instructions, NEW k \in Instructions, SameOperands(j, k), NEW new, NEW old,
           ReadsSame(i, j, new, old)
    PROVE  ReadsSame(i, k, new, old)
<1>1. DOMAIN j.ops = 1 .. Len(j.ops) /\ DOMAIN k.ops = 1 .. Len(k.ops)
    BY DEF Instructions
<1>2. Named(k, {"ec"}) = Named(j, {"ec"})
    <2> DEFINE K == {"ec"}
    <2> HIDE DEF K
    <2>1. Named(k, K) = Named(j, K)
        BY <1>1 DEF SameOperands, Named
    <2> QED BY <2>1 DEF K
<1> QED BY <1>2 DEF ReadsSame, SameOperands

\* What the instruction, allocated as J, finds, and what the next one does.
TurnEnv(f, b, i, u, t, h, J, k) ==
    /\ New(t, f, b)[i] = h /\ DOMAIN h = Env /\ J = t.code[b][i] /\ J \in Instructions
    /\ New(t, f, b)[k] = IF u.CopyDst # None /\ u.CopyDst = u.CopySrc THEN h ELSE Plain(h, J, i)

LEMMA TurnEnvs ==
    ASSUME NEW s, NEW f, Allocates(s, f), NEW b \in 1 .. Len(f.blocks), NEW i \in 1 .. Len(f.blocks[b]),
           Unseen(s, f, b, i), NEW u, NEW t, Turn(s, f, b, i, u, t), Allocates(t, f),
           NEW m, m = <<b, i>>, NEW h, h = Here(InFront(s, f, b, i), u, m), NEW k, k = i + 1,
           NEW J, J = At(u, m)
    PROVE  TurnEnv(f, b, i, u, t, h, J, k)
<1>1. /\ m[1] = b /\ m[2] = i /\ f \in Functions /\ i \in Nat /\ b \in Nat /\ i \in 1 .. Len(f.blocks[b]) + 1
      /\ Len(f.blocks[b]) \in Nat /\ k \in 1 .. Len(f.blocks[b]) + 1 /\ k # 1 /\ k - 1 = i /\ IsPlace(t, m)
    <2>1. /\ m[1] = b /\ m[2] = i /\ f \in Functions /\ i \in Nat /\ b \in Nat /\ i \in 1 .. Len(f.blocks[b]) + 1
          /\ Len(f.blocks[b]) \in Nat
        <3>1. PlaceOf(s, f, b, i, m)
            BY PlaceIs
        <3> QED BY <3>1 DEF PlaceOf
    <2>2. IsPlace(t, m)
        <3>1. PlaceOf(t, f, b, i, m)
            BY PlaceIs
        <3> QED BY <3>1 DEF PlaceOf
    <2>3. k \in 1 .. Len(f.blocks[b]) + 1 /\ k # 1 /\ k - 1 = i
        BY <2>1
    <2> QED BY <2>1, <2>2, <2>3
<1>2. InFront(t, f, b, i) = InFront(s, f, b, i)
    BY TurnPast
<1>3. t.code = u.code /\ t.inserted = u.inserted
      /\ t.Coalesced = u.Coalesced \cup (IF u.CopyDst # None /\ u.CopyDst = u.CopySrc THEN {m} ELSE {})
    BY CoalesceEffect DEF Turn
<1>4. New(t, f, b)[i] = h /\ DOMAIN h = Env
    <2>1. New(t, f, b)[i] = Here(InFront(t, f, b, i), t, m) /\ DOMAIN New(t, f, b)[i] = Env
        BY <1>1, NewSteps
    <2> QED BY <1>2, <1>3, <2>1 DEF Here
<1>5. J = t.code[b][i]
    BY <1>1, <1>3 DEF At
<1>6. J \in Instructions
    BY <1>5, InsertedAt, ElementOfSeq
<1>7. m \in t.Coalesced <=> u.CopyDst # None /\ u.CopyDst = u.CopySrc
    <2>1. m \notin u.Coalesced
        <3>1. ~Seen(b, i, b, i)
            BY <1>1 DEF Seen
        <3>2. m \notin s.Coalesced
            BY <3>1 DEF Unseen
        <3> QED BY <3>2 DEF Turn, Outside
    <2> QED BY <1>3, <2>1
<1>8. InFront(t, f, b, k) = IF m \in t.Coalesced THEN h ELSE Plain(h, J, i)
    BY <1>1, <1>4, <1>5 DEF InFront
<1>9. New(t, f, b)[k] = InFront(t, f, b, k)
    <2>1. PICK p : p = <<b, k>>
        OBVIOUS
    <2>2. New(t, f, b)[k] = Here(InFront(t, f, b, k), t, p)
        BY <1>1, <2>1, NewSteps
    <2>3. t.inserted[p[1]][p[2]] = <<>>
        <3>1. Unseen(t, f, b, k)
            BY UnseenAfter
        <3>2. ~Seen(b, k, b, k)
            BY <1>1 DEF Seen
        <3> QED BY <1>1, <2>1, <3>1, <3>2 DEF Unseen
    <2> QED BY <2>2, <2>3, ExecutedEmpty DEF Here
<1> QED BY <1>4, <1>5, <1>6, <1>7, <1>8, <1>9 DEF TurnEnv

LEMMA FirstTerminator ==
    ASSUME NEW block \in Seq(Instructions), NEW p, p = getFirstTerminator(block)
    PROVE  p \in 1 .. Len(block) + 1 /\ \A j \in p .. Len(block) : isTerminator(block[j])
<1> DEFINE T == {i \in 1 .. Len(block) + 1 : \A j \in i .. Len(block) : isTerminator(block[j])}
<1>1. Len(block) \in Nat
    BY LenProperties
<1>2. Len(block) + 1 \in T
    BY <1>1
<1>3. T \in SUBSET Nat /\ T # {}
    BY <1>1, <1>2
<1>4. p = Min(T)
    BY DEF getFirstTerminator
<1>5. p \in T
    <2> HIDE DEF T
    <2>1. \E x \in T : \A y \in T : x <= y
        BY <1>3, LeastNatural
    <2> QED BY <1>4, <2>1 DEF Min
<1> QED BY <1>5

\* Behind the first terminator, nothing is inserted.
LEMMA TailAfter ==
    ASSUME NEW s, NEW f, Allocates(s, f), InverseBut(s, {}), CopiesHaveTwo(s.code),
           NEW b \in 1 .. Len(f.blocks), NEW i \in 1 .. Len(f.blocks[b]),
           Unseen(s, f, b, i), TailBare(s, f, b), NEW u, NEW t, Turn(s, f, b, i, u, t),
           NEW m, m = <<b, i>>, t = AllocateInstruction(s, m)
    PROVE  TailBare(t, f, b)
<1>1. /\ m[1] = b /\ m[2] = i /\ f \in Functions /\ i \in Nat /\ b \in Nat /\ Len(f.blocks[b]) \in Nat
      /\ m \in Places /\ IsInstr(s.code, m) /\ s \in State
    <2>1. PlaceOf(s, f, b, i, m)
        BY PlaceIs
    <2> QED BY <2>1 DEF PlaceOf
<1>2. PICK p : p = getFirstTerminator(f.blocks[b])
    OBVIOUS
<1>3. p \in 1 .. Len(f.blocks[b]) + 1 /\ \A j \in p .. Len(f.blocks[b]) : isTerminator(f.blocks[b][j])
    BY <1>1, <1>2, BlockOf, FirstTerminator
<1>4. /\ b \in 1 .. Len(s.inserted) /\ Len(s.inserted[b]) = Len(f.blocks[b]) + 1
      /\ b \in DOMAIN f.blocks /\ i \in DOMAIN f.blocks[b]
    BY <1>1, BlockOf DEF Allocates, InsertedLengths
<1>5. t.inserted = u.inserted /\ Outside(s, u, m)
    <2>1. t = Coalesce(u, m) /\ u \in State /\ Outside(s, u, m)
        BY DEF Turn
    <2> QED BY <2>1, CoalesceEffect
<1>6. ASSUME NEW n \in p + 1 .. Len(f.blocks[b]) + 1
      PROVE  t.inserted[b][n] = <<>>
    <2>1. n \in 1 .. Len(s.inserted[b]) /\ s.inserted[b][n] = <<>>
        BY <1>1, <1>2, <1>3, <1>4 DEF TailBare
    <2>2. CASE n # i
        BY <1>1, <1>4, <1>5, <2>1, <2>2 DEF Outside, Elsewhere
    <2>3. CASE n = i
        <3>1. i > p /\ i \in p .. Len(f.blocks[b])
            BY <1>1, <1>3, <2>3
        <3>2. f.blocks[b][i].ops = <<>>
            BY <1>1, <1>2, <1>4, <3>1, SelectionAssumption DEF WellFormedBlock
        <3>3. f.blocks[b][i].op # "CALL"
            BY <1>3, <3>1 DEF isTerminator
        <3>4. SameOperands(f.blocks[b][i], s.code[b][i])
            <4>1. ~Seen(b, i, b, i)
                BY <1>1 DEF Seen
            <4> QED BY <4>1 DEF Unseen
        <3>5. Len(s.code[m[1]][m[2]].ops) = 0 /\ s.code[m[1]][m[2]].op # "CALL"
            BY <1>1, <3>2, <3>3, <3>4 DEF SameOperands
        <3>6. t.inserted = s.inserted
            BY <1>1, <3>5, BareInsertsNothing
        <3> QED BY <2>1, <3>6
    <2> QED BY <2>2, <2>3
<1> QED BY <1>2, <1>6 DEF TailBare

-----------------------------------------------------------------------------
(***************************************************************************)
(* What is true between two instructions stays true.                       *)
(***************************************************************************)
ReadsSoFar(s, f, b, i) ==
    \A n \in 1 .. i - 1 : ReadsSame(f.blocks[b][n], s.code[b][n], New(s, f, b)[n], Old(f, b)[n])

LEMMA TurnReads ==
    ASSUME NEW s, NEW f, Allocates(s, f), NEW b \in 1 .. Len(f.blocks), NEW i \in 1 .. Len(f.blocks[b]),
           Unseen(s, f, b, i), NEW u, NEW t, Turn(s, f, b, i, u, t), Allocates(t, f),
           NEW I, I = f.blocks[b][i], NEW J, J = At(u, <<b, i>>),
           NEW h, h = Here(InFront(s, f, b, i), u, <<b, i>>), NEW O, O = Old(f, b)[i], Settled(I, J, h, O, u),
           ReadsSoFar(s, f, b, i), NEW n \in 1 .. i
    PROVE  ReadsSame(f.blocks[b][n], t.code[b][n], New(t, f, b)[n], Old(f, b)[n])
<1>1. /\ f \in Functions /\ i \in Nat /\ Len(f.blocks[b]) \in Nat
    <2>1. PICK m : m = <<b, i>>
        OBVIOUS
    <2>2. PlaceOf(s, f, b, i, m)
        BY <2>1, PlaceIs
    <2> QED BY <2>2 DEF PlaceOf
<1>2. CASE n = i
    <2>1. PICK m : m = <<b, i>>
        OBVIOUS
    <2>2. PICK k : k = i + 1
        OBVIOUS
    <2>3. J = At(u, m) /\ h = Here(InFront(s, f, b, i), u, m)
        BY <2>1
    <2>4. TurnEnv(f, b, i, u, t, h, J, k)
        BY <2>1, <2>2, <2>3, TurnEnvs
    <2>5. ReadsSame(I, J, h, O)
        BY SettledReadsSame
    <2> QED BY <1>2, <2>4, <2>5 DEF TurnEnv
<1>3. CASE n # i
    <2>1. n \in 1 .. i - 1
        BY <1>1, <1>3
    <2>2. SamePast(s, t, b, i) /\ \A j \in 1 .. i - 1 : New(t, f, b)[j] = New(s, f, b)[j]
        BY TurnPast
    <2>3. SameOperands(s.code[b][n], t.code[b][n]) /\ New(t, f, b)[n] = New(s, f, b)[n]
        BY <2>1, <2>2 DEF SamePast
    <2>4. s.code[b] \in Seq(Instructions) /\ Len(s.code[b]) = Len(f.blocks[b])
        BY InsertedAt
    <2>5. t.code[b] \in Seq(Instructions) /\ Len(t.code[b]) = Len(f.blocks[b])
        BY InsertedAt
    <2>6. n \in 1 .. Len(s.code[b]) /\ n \in 1 .. Len(t.code[b])
        BY <1>1, <2>1, <2>4, <2>5
    <2>7. s.code[b][n] \in Instructions /\ t.code[b][n] \in Instructions
        BY <2>4, <2>5, <2>6, ElementOfSeq
    <2>8. ReadsSame(f.blocks[b][n], s.code[b][n], New(s, f, b)[n], Old(f, b)[n])
        BY <2>1 DEF ReadsSoFar
    <2> QED BY <2>3, <2>7, <2>8, ReadsSameFlags
<1> QED BY <1>2, <1>3

LEMMA TurnSettles ==
    ASSUME NEW s, NEW f, Allocates(s, f), NEW b \in 1 .. Len(f.blocks), NEW i \in 1 .. Len(f.blocks[b]),
           Unseen(s, f, b, i), NEW u, InverseBut(u, {}), NEW t, Turn(s, f, b, i, u, t), Allocates(t, f),
           NEW m, m = <<b, i>>, NEW I, I = f.blocks[b][i], NEW e, e = InFront(s, f, b, i), NEW O, O = Old(f, b)[i],
           NEW W, W = Later(f, b, i), NEW B, NEW K, K = StillPending(f, b, i),
           ThirdUnderway(I, e, m, O, W, B, K, u, Len(I.ops)), NEW k, k = i + 1
    PROVE  Settles(I, u, New(t, f, b)[k], Old(f, b)[k], W, K)
<1>1. /\ f \in Functions /\ i \in Nat /\ Len(f.blocks[b]) \in Nat /\ IsInstr(s.code, m) /\ IsPlace(s, m)
      /\ i \in 1 .. Len(f.blocks[b]) + 1
    <2>1. PlaceOf(s, f, b, i, m)
        BY PlaceIs
    <2> QED BY <2>1 DEF PlaceOf
<1>2. u \in State /\ Outside(s, u, m)
    BY DEF Turn
<1>3. Sound(I)
    BY <1>1, BlockSound
<1>4. PICK h, J : h = Here(e, u, m) /\ J = At(u, m)
    OBVIOUS
<1>5. /\ DOMAIN h = Env /\ J \in Instructions
      /\ New(t, f, b)[k] = IF u.CopyDst # None /\ u.CopyDst = u.CopySrc THEN h ELSE Plain(h, J, i)
    <2>1. TurnEnv(f, b, i, u, t, h, J, k)
        BY <1>4, TurnEnvs
    <2> QED BY <2>1 DEF TurnEnv
<1>6. IsInstr(u.code, m)
    BY <1>1, <1>2 DEF IsInstr, Outside
<1>7. Settled(I, J, h, O, u)
    BY <1>2, <1>3, <1>4, <1>6, ThirdSettles
<1>8. DOMAIN O = Env /\ Old(f, b)[k] = Plain(O, I, i)
    BY <1>1, OldSteps
<1>9. /\ Agree(u, h, O, W) /\ \A r \in K : u.PhysRegState[r] = "reserved" /\ h[r] = O[r]
      /\ CopiesKnown(u, m)
    BY <1>4 DEF ThirdUnderway, Common
<1>10. I.op = "CALL" => DOMAIN u.LiveVirtRegs = {}
    BY DEF ThirdUnderway
<1>11. W \in SUBSET (Virt \ Definitions(I)) /\ K \in SUBSET Phys
    BY DEF Later, NeededAt, StillPending, PendingAt
<1>12. PICK old, plain : old = Plain(O, I, i) /\ plain = Plain(h, J, i)
    OBVIOUS
<1>13. Settles(I, u, plain, old, W, K)
    BY <1>2, <1>3, <1>5, <1>7, <1>8, <1>9, <1>10, <1>11, <1>12, InstructionAgrees
<1>14. CASE u.CopyDst # None /\ u.CopyDst = u.CopySrc
    <2>1. \A x \in Env : plain[x] = h[x]
        BY <1>2, <1>3, <1>4, <1>5, <1>6, <1>7, <1>9, <1>12, <1>14, CoalescedDoesNothing
    <2>2. Settles(I, u, h, old, W, K)
        <3>1. \A x \in Env : h[x] = plain[x]
            BY <2>1
        <3>2. W \in SUBSET Virt
            BY <1>11
        <3> QED BY <1>2, <1>11, <1>13, <3>1, <3>2, SettlesSame
    <2> QED BY <1>5, <1>8, <1>12, <1>14, <2>2
<1>15. CASE ~(u.CopyDst # None /\ u.CopyDst = u.CopySrc)
    <2>1. New(t, f, b)[k] = plain
        BY <1>5, <1>12, <1>15
    <2> QED BY <1>8, <1>12, <1>13, <2>1
<1> QED BY <1>14, <1>15

\* The turn for an instruction, whatever happened before.
LEMMA TurnExists ==
    ASSUME NEW s, NEW f, Allocates(s, f), InverseBut(s, {}), CopiesHaveTwo(s.code),
           NEW b \in 1 .. Len(f.blocks), NEW i \in 1 .. Len(f.blocks[b]), Unseen(s, f, b, i), RanOut(s),
           NEW m, m = <<b, i>>, NEW t, t = AllocateInstruction(s, m)
    PROVE  \E u : Turn(s, f, b, i, u, t)
<1>1. /\ f \in Functions /\ i \in 1 .. Len(f.blocks[b]) + 1 /\ m \in Places /\ IsPlace(s, m) /\ IsInstr(s.code, m)
      /\ s \in State /\ m[1] = b /\ m[2] = i
    <2>1. PlaceOf(s, f, b, i, m)
        BY PlaceIs
    <2> QED BY <2>1 DEF PlaceOf
<1>2. PICK I, e, O : I = f.blocks[b][i] /\ e = InFront(s, f, b, i) /\ O = Old(f, b)[i]
    OBVIOUS
<1>3. Sound(I) /\ DOMAIN e = Env
    BY <1>1, <1>2, BlockSound, NewSteps
<1>4. SameOperands(I, At(s, m))
    <2>1. ~Seen(b, i, b, i)
        BY <1>1, BlockOf DEF Seen
    <2> QED BY <1>1, <1>2, <2>1 DEF Unseen, At
<1>5. PICK W, B, K : W = {} /\ B = {} /\ K = {}
    OBVIOUS
<1>6. /\ W \in SUBSET (Virt \ Definitions(I)) /\ K \in SUBSET (Phys \ Uses(I)) /\ NeededElsewhere(s, m, W, B)
      /\ WaitingUnlessOut(I, e, m, O, W, B, K, s)
    BY <1>5 DEF NeededElsewhere, WaitingUnlessOut
<1>7. PICK u : Advanced(I, e, m, O, W, B, K, s, u) /\ t = Coalesce(u, m)
    BY <1>1, <1>3, <1>4, <1>6, AllocateInstructionValues
<1>8. Turn(s, f, b, i, u, t)
    BY <1>7 DEF Advanced, Turn, Kept
<1> QED BY <1>8

LEMMA TurnedExists ==
    ASSUME NEW s, NEW f, Allocates(s, f), InverseBut(s, {}), CopiesHaveTwo(s.code),
           NEW b \in 1 .. Len(f.blocks), NEW i \in 1 .. Len(f.blocks[b]), Unseen(s, f, b, i),
           ~RanOut(s), Between(s, f, b, i),
           NEW m, m = <<b, i>>, NEW t, t = AllocateInstruction(s, m)
    PROVE  \E u : Turn(s, f, b, i, u, t) /\ Turned(s, f, b, i, u)
<1>1. /\ f \in Functions /\ i \in 1 .. Len(f.blocks[b]) + 1 /\ m \in Places /\ IsPlace(s, m) /\ IsInstr(s.code, m)
      /\ s \in State /\ m[1] = b /\ m[2] = i
    <2>1. PlaceOf(s, f, b, i, m)
        BY PlaceIs
    <2> QED BY <2>1 DEF PlaceOf
<1>2. PICK I, e, O, W, B, K :
        /\ I = f.blocks[b][i] /\ e = InFront(s, f, b, i) /\ O = Old(f, b)[i]
        /\ W = Later(f, b, i) /\ B = Before(f, b, i) /\ K = StillPending(f, b, i)
    OBVIOUS
<1>3. Sound(I) /\ DOMAIN e = Env
    BY <1>1, <1>2, BlockSound, NewSteps
<1>4. SameOperands(I, At(s, m))
    <2>1. ~Seen(b, i, b, i)
        BY <1>1, BlockOf DEF Seen
    <2> QED BY <1>1, <1>2, <2>1 DEF Unseen, At
<1>5. W \in SUBSET (Virt \ Definitions(I)) /\ K \in SUBSET (Phys \ Uses(I))
    BY <1>2 DEF Later, NeededAt, StillPending, PendingAt
<1>6. ExposedHaveSlots(s, f, b, i) /\ InBlock(s, f, b, i)
    <2>1. b <= Len(f.blocks)
        BY <1>1, BlockOf
    <2> QED BY <2>1 DEF Between
<1>7. NeededElsewhere(s, m, W, B)
    BY <1>2, <1>6, NeededIsElsewhere
<1>8. WaitingUnlessOut(I, e, m, O, W, B, K, s)
    <2>1. Waiting(I, e, m, O, Still(I, W, 0), B, K, s)
        BY <1>2, <1>6, InBlockWaits
    <2> QED BY <2>1 DEF WaitingUnlessOut
<1>9. PICK u : Advanced(I, e, m, O, W, B, K, s, u) /\ t = Coalesce(u, m)
    BY <1>1, <1>3, <1>4, <1>5, <1>7, <1>8, AllocateInstructionValues
<1>10. Turn(s, f, b, i, u, t)
    BY <1>9 DEF Advanced, Turn, Kept
<1>11. Turned(s, f, b, i, u)
    BY <1>2, <1>9 DEF Turned
<1> QED BY <1>10, <1>11

LEMMA TurnErrors ==
    ASSUME NEW s, NEW f, NEW b, NEW i, NEW u, NEW t, Turn(s, f, b, i, u, t)
    PROVE  (RanOut(s) => RanOut(t)) /\ t.errors = u.errors
<1>1. s.errors \subseteq u.errors /\ t.errors = u.errors
    BY CoalesceEffect DEF Turn, Outside
<1> QED BY <1>1 DEF RanOut

LEMMA TurnKeepsBlock ==
    ASSUME NEW s, NEW f, Allocates(s, f), InverseBut(s, {}), CopiesHaveTwo(s.code),
           NEW b \in 1 .. Len(f.blocks), NEW i \in 1 .. Len(f.blocks[b]), Unseen(s, f, b, i),
           InBlock(s, f, b, i), NEW m, m = <<b, i>>, NEW t, t = AllocateInstruction(s, m), Allocates(t, f),
           NEW u, Turn(s, f, b, i, u, t), Turned(s, f, b, i, u), ~RanOut(t), NEW k, k = i + 1
    PROVE  InBlock(t, f, b, k)
<1>1. /\ f \in Functions /\ i \in 1 .. Len(f.blocks[b]) + 1 /\ m \in Places /\ IsPlace(s, m) /\ IsInstr(s.code, m)
      /\ s \in State /\ m[1] = b /\ m[2] = i /\ i \in Nat /\ Len(f.blocks[b]) \in Nat
    <2>1. PlaceOf(s, f, b, i, m)
        BY PlaceIs
    <2> QED BY <2>1 DEF PlaceOf
<1>2. PICK I, e, O, W, B, K :
        /\ I = f.blocks[b][i] /\ e = InFront(s, f, b, i) /\ O = Old(f, b)[i]
        /\ W = Later(f, b, i) /\ B = Before(f, b, i) /\ K = StillPending(f, b, i)
    OBVIOUS
<1>3. Sound(I)
    BY <1>1, <1>2, BlockSound
<1>4. ~RanOut(u)
    BY TurnErrors DEF RanOut
<1>5. ThirdUnderway(I, e, m, O, W, B, K, u, Len(I.ops)) /\ InverseBut(u, {}) /\ u \in State
    BY <1>2, <1>4 DEF Turned, Advanced, Kept
<1>6. t = Coalesce(u, m) /\ Outside(s, u, m)
    BY DEF Turn
<1>7. t.code = u.code /\ t.StackSlotForVirtReg = u.StackSlotForVirtReg
      /\ t.LiveVirtRegs = u.LiveVirtRegs /\ t.PhysRegState = u.PhysRegState
    BY <1>5, <1>6, CoalesceEffect
<1>8. IsInstr(u.code, m)
    BY <1>1, <1>6 DEF IsInstr, Outside
<1>9. PICK h, J, new, old : h = Here(e, u, m) /\ J = At(u, m) /\ new = New(t, f, b)[k] /\ old = Old(f, b)[k]
    OBVIOUS
<1>10. Settles(I, u, new, old, W, K)
    BY <1>2, <1>5, <1>9, TurnSettles
<1>11. \A n \in 1 .. k - 1 : ReadsSame(f.blocks[b][n], t.code[b][n], New(t, f, b)[n], Old(f, b)[n])
    <2>1. Settled(I, J, h, O, u)
        BY <1>3, <1>5, <1>8, <1>9, ThirdSettles
    <2>2. ReadsSoFar(s, f, b, i)
        BY DEF InBlock, New, Old, ReadsSoFar
    <2>3. J = At(u, <<b, i>>) /\ h = Here(InFront(s, f, b, i), u, <<b, i>>)
        BY <1>2, <1>9
    <2>4. \A n \in 1 .. i : ReadsSame(f.blocks[b][n], t.code[b][n], New(t, f, b)[n], Old(f, b)[n])
        BY <1>2, <2>1, <2>2, <2>3, TurnReads
    <2>5. k - 1 = i
        BY <1>1
    <2> QED BY <2>4, <2>5
<1>12. Grounded(t, f, b, k)
    <2>1. DOMAIN u.LiveVirtRegs \subseteq u.StackSlotForVirtReg \cup (B \cup Definitions(I))
        BY <1>5 DEF ThirdUnderway, Common
    <2>2. ASSUME NEW v \in B \cup Definitions(I) PROVE DefinedBefore(f, b, k, v)
        <3>1. \A j \in 1 .. i - 1 : j \in 1 .. k - 1
            BY <1>1
        <3>2. i \in 1 .. k - 1
            BY <1>1
        <3> QED BY <1>2, <2>2, <3>1, <3>2 DEF Before, DefinedBefore
    <2> QED BY <1>7, <2>1, <2>2 DEF Grounded
<1>13. TailBare(t, f, b)
    <2>1. TailBare(s, f, b)
        BY DEF InBlock
    <2> QED BY <2>1, TailAfter
<1>14. Agree(t, new, old, NeededAt(f, b, k))
    <2>1. NeededAt(f, b, k) \subseteq W \cup (Definitions(I) \cap Virt)
        BY <1>2, NeededAfter
    <2>2. Agree(u, new, old, W \cup (Definitions(I) \cap Virt))
        BY <1>10 DEF Settles
    <2> QED BY <1>7, <2>1, <2>2 DEF Agree
<1>15. \A r \in Phys : Pending(f, b, k, r) => t.PhysRegState[r] = "reserved" /\ new[r] = old[r]
    <2>1. PendingAt(f, b, k) \subseteq K \cup (Definitions(I) \cap Phys)
        BY <1>1, <1>2, PendingAfter
    <2>2. \A r \in K \cup (Definitions(I) \cap Phys) : u.PhysRegState[r] = "reserved" /\ new[r] = old[r]
        BY <1>10 DEF Settles
    <2> QED BY <1>7, <2>1, <2>2 DEF PendingAt
<1>16. f.blocks[b][k - 1].op = "CALL" => DOMAIN t.LiveVirtRegs = {} /\ new[Order[1]] = old[Order[1]]
    <2>1. k - 1 = i
        BY <1>1
    <2> QED BY <1>2, <1>7, <1>10, <2>1 DEF Settles
<1> QED BY <1>9, <1>11, <1>12, <1>13, <1>14, <1>15, <1>16 DEF InBlock, New, Old, NeededAt

BetweenUnlessOut(s, f, b, i) == ~RanOut(s) => Between(s, f, b, i)

\* Allocating an instruction keeps what is true between instructions.
LEMMA AllocateKeepsValues ==
    ASSUME NEW s, NEW f, Allocates(s, f), InverseBut(s, {}), CopiesHaveTwo(s.code),
           NEW b \in 1 .. Len(f.blocks), NEW i \in 1 .. Len(f.blocks[b]), Unseen(s, f, b, i),
           BetweenUnlessOut(s, f, b, i),
           NEW m, m = <<b, i>>, NEW t, t = AllocateInstruction(s, m), SameLengths(f.blocks, t.code), t \in State,
           NEW k, k = i + 1
    PROVE  InsertedLengths(t, f) /\ Unseen(t, f, b, k) /\ BetweenUnlessOut(t, f, b, k)
<1>1. ASSUME NEW u, Turn(s, f, b, i, u, t)
      PROVE  InsertedLengths(t, f) /\ Allocates(t, f) /\ Unseen(t, f, b, k)
    <2>1. Elsewhere(s, u, m) /\ u \in State /\ t = Coalesce(u, m)
        BY <1>1 DEF Turn, Outside
    <2>2. t.inserted = u.inserted
        BY <2>1, CoalesceEffect
    <2>3. InsertedLengths(t, f)
        BY <2>1, <2>2 DEF Elsewhere, Allocates, InsertedLengths
    <2>4. Unseen(t, f, b, k)
        BY <1>1, UnseenAfter
    <2> QED BY <2>3, <2>4 DEF Allocates
<1>0. ~RanOut(s) => Between(s, f, b, i)
    BY DEF BetweenUnlessOut
<1>2. CASE RanOut(s)
    <2>1. PICK u : Turn(s, f, b, i, u, t)
        BY <1>2, TurnExists
    <2>2. RanOut(t)
        BY <1>2, <2>1, TurnErrors
    <2> QED BY <1>1, <2>1, <2>2 DEF BetweenUnlessOut
<1>3. CASE ~RanOut(s)
    <2>1. PICK u : Turn(s, f, b, i, u, t) /\ Turned(s, f, b, i, u)
        BY <1>0, <1>3, TurnedExists
    <2>2. InsertedLengths(t, f) /\ Allocates(t, f) /\ Unseen(t, f, b, k)
        BY <1>1, <2>1
    <2>3. ASSUME ~RanOut(t) PROVE Between(t, f, b, k)
        <3>1. b <= Len(f.blocks)
            BY BlockOf DEF Allocates
        <3>2. s.errors = {} /\ ExposedHaveSlots(s, f, b, i) /\ InBlock(s, f, b, i)
            BY <1>0, <1>3, <3>1 DEF Between
        <3>3. InBlock(t, f, b, k)
            BY <2>1, <2>2, <2>3, <3>2, TurnKeepsBlock
        <3>4. t.errors = u.errors
            BY <2>1, TurnErrors
        <3>5. u.errors \subseteq s.errors \cup {"ran out of registers"}
            BY <1>3, <2>1 DEF Turned, Advanced
        <3>6. t.errors = {}
            BY <2>3, <3>2, <3>4, <3>5 DEF RanOut
        <3>7. PICK I, e, mm, O, W, B, K :
                /\ I = f.blocks[b][i] /\ e = InFront(s, f, b, i) /\ O = Old(f, b)[i] /\ mm = <<b, i>>
                /\ W = Later(f, b, i) /\ B = Before(f, b, i) /\ K = StillPending(f, b, i)
            OBVIOUS
        <3>8. ~RanOut(u)
            BY <2>3, <3>4 DEF RanOut
        <3>9. ThirdUnderway(I, e, mm, O, W, B, K, u, Len(I.ops))
            BY <2>1, <3>7, <3>8 DEF Turned, Advanced
        <3>10. Exposed(I, Before(f, b, i), u, AllUses(I))
            BY <3>7, <3>9 DEF ThirdUnderway
        <3>11. ExposedHaveSlots(t, f, b, k)
            BY <2>1, <3>2, <3>7, <3>10, ExposedAfter
        <3> QED BY <3>3, <3>6, <3>11 DEF Between
    <2> QED BY <2>2, <2>3 DEF BetweenUnlessOut
<1> QED BY <1>2, <1>3

-----------------------------------------------------------------------------
(***************************************************************************)
(* A block begins.                                                         *)
(***************************************************************************)
LEMMA EntrySlots ==
    ASSUME NEW f \in Functions, NEW b \in 1 .. Len(f.blocks), NEW v \in Virt
    PROVE  EntryEnv(f, b)[<<v>>] = EntryEnv(f, b)[v]
<1>1. PICK x : x = <<v>>
    OBVIOUS
<1>2. x \in Slots /\ x \notin Phys /\ x \notin Virt /\ x[1] = v
    BY <1>1, SlotsApart DEF Slots
<1>3. v \notin Phys /\ v \notin Slots
    BY RegAllocAssumption DEF Slots, Registered
<1>4. EntryLiveIns(f, b) \subseteq Phys
    BY FunctionsAssumption DEF EntryLiveIns
<1>5. x \notin LiveIn(f)[b]
    <2>1. b \in DOMAIN f.blocks
        BY BlockOf
    <2> QED BY <1>2, <2>1, LiveInSomewhere DEF ReadSomewhere
<1>6. EntryEnv(f, b)[x] = IF v \in LiveIn(f)[b] THEN <<"in", v>> ELSE None
    BY <1>2, <1>4, <1>5 DEF EntryEnv
<1>7. EntryEnv(f, b)[v] = IF v \in LiveIn(f)[b] THEN <<"in", v>> ELSE None
    BY <1>3, <1>4 DEF EntryEnv
<1> QED BY <1>1, <1>6, <1>7

LEMMA BlockStarts ==
    ASSUME NEW t, NEW f, Allocates(t, f), NEW c \in 1 .. Len(f.blocks), NEW one, one = 1, Unseen(t, f, c, one),
           DOMAIN t.LiveVirtRegs = {}, \A r \in EntryLiveIns(f, c) : t.PhysRegState[r] = "reserved"
    PROVE  InBlock(t, f, c, one)
<1>1. /\ f \in Functions /\ Len(f.blocks[c]) \in Nat /\ one \in 1 .. Len(f.blocks[c]) + 1 /\ c \in Nat
      /\ f.blocks[c] \in Seq(Instructions)
    BY BlockOf DEF Allocates
<1>2. \A n \in 1 .. Len(f.blocks[c]) + 1 : t.inserted[c][n] = <<>>
    <2>1. \A n \in 1 .. Len(f.blocks[c]) + 1 : ~Seen(c, one, c, n)
        BY <1>1 DEF Seen
    <2> QED BY <2>1 DEF Unseen
<1>3. PICK env : env = EntryEnv(f, c)
    OBVIOUS
<1>4. Old(f, c)[one] = env
    BY <1>1, <1>3, OldSteps
<1>5. New(t, f, c)[one] = env
    <2>1. PICK p : p = <<c, one>>
        OBVIOUS
    <2>2. New(t, f, c)[one] = Here(InFront(t, f, c, one), t, p)
        BY <1>1, <2>1, NewSteps
    <2>3. t.inserted[p[1]][p[2]] = <<>>
        BY <1>1, <1>2, <2>1
    <2> QED BY <1>3, <2>2, <2>3, ExecutedEmpty DEF Here, InFront
<1>6. TailBare(t, f, c)
    <2>1. PICK p : p = getFirstTerminator(f.blocks[c])
        OBVIOUS
    <2>2. p \in 1 .. Len(f.blocks[c]) + 1
        BY <1>1, <2>1, FirstTerminator
    <2>3. \A n \in p + 1 .. Len(f.blocks[c]) + 1 : n \in 1 .. Len(f.blocks[c]) + 1
        BY <1>1, <2>2
    <2> QED BY <1>2, <2>1, <2>3 DEF TailBare
<1>7. Agree(t, env, env, {v \in Virt : Needed(f, c, one, v)})
    BY <1>1, <1>3, EntrySlots DEF Agree
<1>8. \A r \in Phys : Pending(f, c, one, r) => t.PhysRegState[r] = "reserved"
    BY DEF Pending
<1>9. Grounded(t, f, c, one)
    BY DEF Grounded
<1>10. \A n \in 1 .. one - 1 : FALSE
    OBVIOUS
<1>11. ~(one > 1)
    OBVIOUS
<1> QED BY <1>4, <1>5, <1>6, <1>7, <1>8, <1>9, <1>10, <1>11 DEF InBlock, New, Old

-----------------------------------------------------------------------------
(***************************************************************************)
(* A block ends.                                                           *)
(***************************************************************************)
LEMMA ReadEqual ==
    ASSUME NEW I, Sound(I), NEW J \in Instructions, NEW new, DOMAIN new = Env, NEW old, DOMAIN old = Env,
           ReadsSame(I, J, new, old)
    PROVE  Read(new, J) = Read(old, I)
<1>1. DOMAIN I.ops = 1 .. Len(I.ops) /\ DOMAIN J.ops = 1 .. Len(I.ops)
    BY SoundInstr DEF Instructions, ReadsSame
<1>2. \A k \in 1 .. Len(I.ops) : isUse(J.ops[k]) <=> isUse(I.ops[k])
    BY DEF ReadsSame, isUse
<1> DEFINE K == {k \in 1 .. Len(I.ops) : isUse(I.ops[k])}
<1>3. DOMAIN Read(new, J) = K /\ DOMAIN Read(old, I) = K
    BY <1>1, <1>2 DEF Read
<1>4. ASSUME NEW k \in K PROVE Read(new, J)[k] = Read(old, I)[k]
    <2>1. J.ops[k].reg \in Phys \ Named(J, {"ec"}) /\ new[J.ops[k].reg] = old[I.ops[k].reg]
        BY DEF ReadsSame
    <2>2. I.ops[k].reg \in Uses(I) /\ I.ops[k].reg \in Registered
        BY SoundInstr DEF Operands
    <2>3. I.ops[k].reg \notin Named(I, {"ec"}) /\ I.ops[k].reg \in Env
        BY <2>2 DEF Env, Registered, Sound, WellFormedInstr
    <2>4. Read(new, J)[k] = new[J.ops[k].reg]
        BY <1>1, <1>2, <2>1, ReadAt DEF Env
    <2>5. Read(old, I)[k] = old[I.ops[k].reg]
        BY <1>1, <2>3, ReadAt
    <2> QED BY <2>1, <2>4, <2>5
<1>5. Read(new, J) = [k \in K |-> Read(new, J)[k]] /\ Read(old, I) = [k \in K |-> Read(old, I)[k]]
    BY <1>3 DEF Read
<1> QED BY <1>3, <1>4, <1>5

\* An instruction that writes nothing.
LEMMA BareChangesNothing ==
    ASSUME NEW i, Definitions(i) = {}, i.op # "CALL", NEW env, NEW n, NEW x \in DOMAIN env
    PROVE  Plain(env, i, n)[x] = env[x]
<1>1. Written(i) = {}
    BY DEF Written
<1>2. x \notin Named(i, {"ec"})
    BY DEF Definitions, Named
<1>3. Plain(env, i, n)[x] =
            IF x \in Written(i) THEN (IF i.op = "COPY" THEN Read(env, i)[2] ELSE <<n>>)
            ELSE IF i.op = "CALL" /\ x \in Clobbered THEN None
            ELSE IF x \in Named(i, {"ec"}) THEN None ELSE env[x]
    BY PlainAt
<1> QED BY <1>1, <1>2, <1>3

\* From the first terminator on, nothing changes.
Steady(g, p, l) == \A n \in p .. l : \A x \in Env : g[n][x] = g[p][x]

LEMMA SteadyIntro ==
    ASSUME NEW g, NEW p \in Nat, NEW l \in Nat, \A n \in p .. l - 1 : \A x \in Env : g[n + 1][x] = g[n][x]
    PROVE  Steady(g, p, l)
<1> DEFINE T == {d \in Nat : p + d <= l => \A x \in Env : g[p + d][x] = g[p][x]}
<1>1. 0 \in T
    OBVIOUS
<1>2. ASSUME NEW d \in Nat, d \in T PROVE d + 1 \in T
    <2>1. SUFFICES ASSUME p + (d + 1) <= l, NEW x \in Env PROVE g[p + (d + 1)][x] = g[p][x]
        OBVIOUS
    <2>2. PICK n \in p .. l - 1 : n = p + d
        BY <2>1
    <2>3. g[n + 1][x] = g[n][x]
        OBVIOUS
    <2>4. g[n][x] = g[p][x]
        BY <1>2, <2>1, <2>2
    <2>5. p + (d + 1) = n + 1
        BY <2>2
    <2> QED BY <2>3, <2>4, <2>5
<1>3. Nat \subseteq T
    <2> HIDE DEF T
    <2> QED BY <1>1, <1>2, SetInduction
<1>4. ASSUME NEW n \in p .. l, NEW x \in Env PROVE g[n][x] = g[p][x]
    <2>1. PICK d \in Nat : d = n - p
        OBVIOUS
    <2>2. p + d = n /\ d \in T
        BY <1>3, <2>1
    <2> QED BY <2>2
<1> QED BY <1>4 DEF Steady

\* A block that ends in a terminator has a first one.
LEMMA TerminatorExists ==
    ASSUME NEW block \in Seq(Instructions), NEW p, p = getFirstTerminator(block),
           NEW l \in 1 .. Len(block), l = Len(block), isTerminator(block[l])
    PROVE  p <= l
<1> DEFINE T == {i \in 1 .. Len(block) + 1 : \A j \in i .. Len(block) : isTerminator(block[j])}
<1>1. Len(block) \in Nat
    BY LenProperties
<1>2. l \in T
    <2>1. \A j \in l .. Len(block) : j = l
        BY <1>1
    <2> QED BY <1>1, <2>1
<1>3. T \in SUBSET Nat /\ T # {}
    BY <1>1, <1>2
<1>4. p = Min(T)
    BY DEF getFirstTerminator
<1>5. \A y \in T : p <= y
    <2> HIDE DEF T
    <2>1. \E x \in T : \A y \in T : x <= y
        BY <1>3, LeastNatural
    <2> QED BY <1>4, <2>1 DEF Min
<1> QED BY <1>2, <1>5

\* s at the end of block b, t when the values have left their registers and the return has its operands.
Ended(s, f, b, e, m, t) ==
    /\ Elsewhere(s, t, m)
    /\ t.Coalesced = s.Coalesced /\ t.errors = s.errors
    /\ s.StackSlotForVirtReg \subseteq t.StackSlotForVirtReg
    /\ DOMAIN t.LiveVirtRegs = {}
    /\ \A c \in 1 .. Len(f.blocks) : \A n \in 1 .. Len(f.blocks[c]) :
            SameOperands(s.code[c][n], t.code[c][n]) \/
                (c = b /\ n = Len(f.blocks[c]) /\ s.code[c][n].op = "RET" /\ OnlyImplicit(t.code[c][n]))
    /\ \A x \in Phys : Here(e, t, m)[x] = Here(e, s, m)[x]
    /\ KeepsAgreement(e, m, s, t)

LEMMA StartBlockEffect ==
    ASSUME NEW s \in State, NEW liveins, NEW t, t = StartBlock(s, liveins)
    PROVE  /\ t.code = s.code /\ t.inserted = s.inserted /\ t.Coalesced = s.Coalesced
           /\ t.StackSlotForVirtReg = s.StackSlotForVirtReg /\ t.LiveVirtRegs = s.LiveVirtRegs
           /\ t.errors = s.errors
           /\ \A r \in liveins \cap Phys : t.PhysRegState[r] = "reserved"
BY DEF StartBlock, State

LEMMA SameEnvsAgree ==
    ASSUME NEW e, NEW m, NEW s, NEW t, KeepsAgreement(e, m, s, t), NEW u, u.inserted = t.inserted,
           u.LiveVirtRegs = t.LiveVirtRegs
    PROVE  KeepsAgreement(e, m, s, u)
<1>1. Here(e, u, m) = Here(e, t, m)
    BY DEF Here
<1>2. SUFFICES ASSUME NEW O, NEW N \in SUBSET Virt, Agree(s, Here(e, s, m), O, N)
               PROVE  Agree(u, Here(e, u, m), O, N)
    BY DEF KeepsAgreement
<1>3. Agree(t, Here(e, t, m), O, N)
    BY <1>2 DEF KeepsAgreement
<1> QED BY <1>1, <1>3 DEF Agree

Reserves(t, regs) == \A r \in regs \cap Phys : t.PhysRegState[r] = "reserved"

\* The end of AllocateBasicBlock.
LEMMA BlockEnds ==
    ASSUME NEW s, NEW f, Allocates(s, f), InverseBut(s, {}), CopiesHaveTwo(s.code), NEW b \in 1 .. Len(f.blocks),
           NEW p \in 1 .. Len(f.blocks[b]) + 1, NEW m, m = <<b, p>>, NEW e, DOMAIN e = Env,
           NEW liveouts, liveouts = f.liveouts, NEW liveins,
           NEW t, t = StartBlock(addRetOperands(spillAll(s, m), b, liveouts), liveins)
    PROVE  Ended(s, f, b, e, m, t) /\ Reserves(t, liveins)
<1>1. f \in Functions /\ s \in State /\ IsPlace(s, m)
    BY InsertedAt DEF Allocates
<1>2. PICK sp : sp = spillAll(s, m)
    OBVIOUS
<1>3. Emptying(e, m, s, sp) /\ DOMAIN sp.LiveVirtRegs = {} /\ Kept(s, sp, {})
    BY <1>1, <1>2, SpillAllEffect
<1>4. sp \in State /\ SameShape(s.code, sp.code)
    BY <1>3 DEF Kept
<1>5. CopiesHaveTwo(sp.code) /\ SameLengths(f.blocks, sp.code)
    BY <1>4, ShapeOfCopies, ShapeOfLengths DEF Allocates
<1>6. b \in 1 .. Len(sp.code)
    BY <1>5 DEF SameLengths
<1>7. liveouts \in SUBSET Phys
    BY <1>1, FunctionsAssumption
<1>8. PICK ro : ro = addRetOperands(sp, b, liveouts)
    OBVIOUS
<1>9. ro \in State /\ SameLengths(sp.code, ro.code) /\ CopiesHaveTwo(ro.code) /\ RetAdded(sp, ro, b)
    BY <1>4, <1>5, <1>6, <1>7, <1>8, AddRetOperandsKeeps
<1>10. t = StartBlock(ro, liveins)
    BY <1>2, <1>8
<1>11. /\ t.code = ro.code /\ t.inserted = ro.inserted /\ t.Coalesced = ro.Coalesced
       /\ t.StackSlotForVirtReg = ro.StackSlotForVirtReg /\ t.LiveVirtRegs = ro.LiveVirtRegs
       /\ t.errors = ro.errors
       /\ \A r \in liveins \cap Phys : t.PhysRegState[r] = "reserved"
    BY <1>9, <1>10, StartBlockEffect
<1>12. /\ ro.inserted = sp.inserted /\ ro.Coalesced = sp.Coalesced /\ ro.errors = sp.errors
       /\ ro.StackSlotForVirtReg = sp.StackSlotForVirtReg /\ ro.LiveVirtRegs = sp.LiveVirtRegs
    BY <1>9 DEF RetAdded
<1>13. /\ Quiet(m, s, sp) /\ sp.errors = s.errors /\ KeepsAgreement(e, m, s, sp)
       /\ \A x \in Phys : Here(e, sp, m)[x] = Here(e, s, m)[x]
    BY <1>3 DEF Emptying
<1>14. /\ OnlyFlags(s.code, sp.code) /\ Elsewhere(s, sp, m) /\ sp.Coalesced = s.Coalesced
       /\ s.StackSlotForVirtReg \subseteq sp.StackSlotForVirtReg
    BY <1>13 DEF Quiet, SameCopies
<1>15. t.inserted = sp.inserted /\ t.LiveVirtRegs = sp.LiveVirtRegs
    BY <1>11, <1>12
<1>16. Elsewhere(s, t, m)
    BY <1>14, <1>15 DEF Elsewhere
<1>17. KeepsAgreement(e, m, s, t)
    BY <1>13, <1>15, SameEnvsAgree
<1>18. \A x \in Phys : Here(e, t, m)[x] = Here(e, s, m)[x]
    BY ZenonT(40), <1>13, <1>15 DEF Here
<1>19. ASSUME NEW c \in 1 .. Len(f.blocks), NEW n \in 1 .. Len(f.blocks[c])
       PROVE  SameOperands(s.code[c][n], t.code[c][n]) \/
                (c = b /\ n = Len(f.blocks[c]) /\ s.code[c][n].op = "RET" /\ OnlyImplicit(t.code[c][n]))
    <2>1. Len(s.code) = Len(f.blocks) /\ Len(s.code[c]) = Len(f.blocks[c])
        BY DEF Allocates, SameLengths
    <2>2. SameOperands(s.code[c][n], sp.code[c][n])
        BY <1>14, <2>1 DEF OnlyFlags
    <2>3. Len(sp.code) = Len(f.blocks) /\ Len(sp.code[c]) = Len(f.blocks[c])
        BY <1>5 DEF SameLengths
    <2>4. ro.code[c][n] = sp.code[c][n] \/
                (c = b /\ n = Len(f.blocks[c]) /\ sp.code[c][n].op = "RET" /\ OnlyImplicit(ro.code[c][n]))
        BY <1>9, <2>3 DEF RetAdded
    <2>5. sp.code[c][n].op = s.code[c][n].op
        BY <2>2 DEF SameOperands
    <2> QED BY <1>11, <2>2, <2>4, <2>5
<1> QED BY <1>3, <1>11, <1>12, <1>13, <1>14, <1>16, <1>17, <1>18, <1>19 DEF Ended, Reserves

LEMMA UnseenEnds ==
    ASSUME NEW s, NEW f, Allocates(s, f), NEW b \in 1 .. Len(f.blocks), NEW p, NEW m, m = <<b, p>>,
           NEW e, NEW t, Ended(s, f, b, e, m, t),
           NEW l, l = Len(f.blocks[b]) + 1, Unseen(s, f, b, l), NEW c, c = b + 1, NEW one, one = 1
    PROVE  InsertedLengths(t, f) /\ Unseen(t, f, c, one)
<1>1. /\ f \in Functions /\ Len(f.blocks) \in Nat /\ b \in Nat /\ l \in Nat /\ m[1] = b
    BY BlockOf DEF Allocates
<1>2. /\ Len(s.inserted) = Len(f.blocks)
      /\ \A d \in 1 .. Len(f.blocks) : Len(s.inserted[d]) = Len(f.blocks[d]) + 1
    BY DEF Allocates, InsertedLengths
<1>3. InsertedLengths(t, f)
    BY <1>2 DEF InsertedLengths, Ended, Elsewhere
<1>4. ASSUME NEW d \in 1 .. Len(f.blocks), NEW n \in Nat \ {0}, ~Seen(c, one, d, n)
      PROVE  ~Seen(b, l, d, n) /\ d # b
    BY <1>1, <1>4 DEF Seen
<1>5. ASSUME NEW d \in 1 .. Len(f.blocks), NEW n \in 1 .. Len(f.blocks[d]), ~Seen(c, one, d, n)
      PROVE  SameOperands(f.blocks[d][n], t.code[d][n]) /\ <<d, n>> \notin t.Coalesced
    <2>1. ~Seen(b, l, d, n) /\ d # b
        BY <1>4, <1>5
    <2>2. SameOperands(f.blocks[d][n], s.code[d][n]) /\ <<d, n>> \notin s.Coalesced
        BY <2>1 DEF Unseen
    <2>3. SameOperands(s.code[d][n], t.code[d][n]) /\ t.Coalesced = s.Coalesced
        BY <2>1 DEF Ended
    <2>4. SameOperands(f.blocks[d][n], t.code[d][n])
        BY <2>2, <2>3, SameOperandsTransitive
    <2> QED BY <2>2, <2>3, <2>4
<1>6. ASSUME NEW d \in 1 .. Len(f.blocks), NEW n \in 1 .. Len(f.blocks[d]) + 1, ~Seen(c, one, d, n)
      PROVE  t.inserted[d][n] = <<>>
    <2>1. ~Seen(b, l, d, n) /\ d # b
        BY <1>4, <1>6
    <2>2. s.inserted[d][n] = <<>>
        BY <2>1 DEF Unseen
    <2>3. d \in 1 .. Len(s.inserted) /\ n \in 1 .. Len(s.inserted[d])
        BY <1>2
    <2>4. t.inserted[d][n] = s.inserted[d][n]
        BY <1>1, <2>1, <2>3 DEF Ended, Elsewhere
    <2> QED BY <2>2, <2>4
<1> QED BY <1>3, <1>5, <1>6 DEF Unseen

LEMMA ExposedEnds ==
    ASSUME NEW s, NEW f, Allocates(s, f), NEW b \in 1 .. Len(f.blocks), NEW m,
           NEW e, NEW t, Ended(s, f, b, e, m, t),
           NEW l, l = Len(f.blocks[b]) + 1, ExposedHaveSlots(s, f, b, l), NEW c, c = b + 1, NEW one, one = 1
    PROVE  ExposedHaveSlots(t, f, c, one)
<1>1. f \in Functions /\ Len(f.blocks) \in Nat /\ b \in Nat /\ l \in Nat
    BY BlockOf DEF Allocates
<1>2. SUFFICES ASSUME NEW d \in 1 .. Len(f.blocks), NEW n \in 1 .. Len(f.blocks[d]),
                      NEW v \in Uses(f.blocks[d][n]) \cap Virt, Seen(c, one, d, n)
               PROVE  v \in t.StackSlotForVirtReg \/ DefinedBefore(f, d, n, v)
    BY DEF ExposedHaveSlots
<1>3. Seen(b, l, d, n)
    BY <1>1, <1>2 DEF Seen
<1>4. v \in s.StackSlotForVirtReg \/ DefinedBefore(f, d, n, v)
    BY <1>3 DEF ExposedHaveSlots
<1> QED BY <1>4 DEF Ended

\* A return is not in front of the first terminator.
LEMMA EndPast ==
    ASSUME NEW s, NEW f, Allocates(s, f), NEW b \in 1 .. Len(f.blocks),
           NEW p, p = getFirstTerminator(f.blocks[b]), NEW m, m = <<b, p>>,
           NEW e, NEW t, Ended(s, f, b, e, m, t), Allocates(t, f),
           \A n \in 1 .. Len(f.blocks[b]) : s.code[b][n].op = f.blocks[b][n].op
    PROVE  /\ InFront(t, f, b, p) = InFront(s, f, b, p)
           /\ \A j \in 1 .. p - 1 : New(t, f, b)[j] = New(s, f, b)[j] /\ SameOperands(s.code[b][j], t.code[b][j])
<1>1. /\ f \in Functions /\ f.blocks[b] \in Seq(Instructions) /\ Len(f.blocks[b]) \in Nat /\ m[1] = b /\ m[2] = p
    BY BlockOf DEF Allocates
<1>2. p \in 1 .. Len(f.blocks[b]) + 1
    BY <1>1, FirstTerminator
<1>3. /\ b \in 1 .. Len(s.inserted) /\ Len(s.inserted[b]) = Len(f.blocks[b]) + 1
    BY DEF Allocates, InsertedLengths
<1>4. ASSUME NEW j \in 1 .. p - 1
      PROVE  /\ t.inserted[b][j] = s.inserted[b][j]
             /\ <<b, j>> \in t.Coalesced <=> <<b, j>> \in s.Coalesced
             /\ SameOperands(s.code[b][j], t.code[b][j])
    <2>1. j \in 1 .. Len(f.blocks[b]) /\ j # p /\ j < p
        BY <1>1, <1>2
    <2>2. t.inserted[b][j] = s.inserted[b][j]
        <3>1. j \in 1 .. Len(s.inserted[b])
            BY <1>1, <1>3, <2>1
        <3> QED BY <1>1, <1>3, <2>1, <3>1 DEF Ended, Elsewhere
    <2>3. SameOperands(s.code[b][j], t.code[b][j])
        <3>1. ~(j = Len(f.blocks[b]) /\ s.code[b][j].op = "RET")
            <4>1. SUFFICES ASSUME j = Len(f.blocks[b]), s.code[b][j].op = "RET" PROVE FALSE
                OBVIOUS
            <4>2. isTerminator(f.blocks[b][j])
                BY <2>1, <4>1 DEF isTerminator
            <4>3. p <= j
                BY <1>1, <2>1, <4>1, <4>2, TerminatorExists
            <4> QED BY <1>2, <2>1, <4>3
        <3> QED BY <2>1, <3>1 DEF Ended
    <2>4. t.Coalesced = s.Coalesced
        BY DEF Ended
    <2> QED BY <2>2, <2>3, <2>4
<1>5. SamePast(s, t, b, p)
    BY <1>4 DEF SamePast
<1>6. /\ InFront(t, f, b, p) = InFront(s, f, b, p)
      /\ \A j \in 1 .. p - 1 : New(t, f, b)[j] = New(s, f, b)[j]
    BY <1>2, <1>5, PastSame
<1> QED BY <1>4, <1>6

\* An instruction that neither calls nor writes.
Bare(i) == Definitions(i) = {} /\ i.op # "CALL"

LEMMA NewSteady ==
    ASSUME NEW s, NEW f, Allocates(s, f), NEW b \in 1 .. Len(f.blocks), TailBare(s, f, b),
           NEW p, p = getFirstTerminator(f.blocks[b]), NEW l, l = Len(f.blocks[b]) + 1,
           \A n \in p .. Len(f.blocks[b]) : Bare(s.code[b][n])
    PROVE  Steady(New(s, f, b), p, l)
<1>1. f \in Functions /\ f.blocks[b] \in Seq(Instructions) /\ Len(f.blocks[b]) \in Nat
    BY BlockOf DEF Allocates
<1>2. p \in 1 .. Len(f.blocks[b]) + 1
    BY <1>1, FirstTerminator
<1>3. PICK g : g = New(s, f, b)
    OBVIOUS
<1>4. ASSUME NEW n \in p .. l - 1, NEW x \in Env PROVE g[n + 1][x] = g[n][x]
    <2>1. PICK k : k = n + 1
        OBVIOUS
    <2>2. n \in 1 .. Len(f.blocks[b]) + 1 /\ k \in 1 .. Len(f.blocks[b]) + 1 /\ k - 1 = n /\ k # 1
          /\ n \in p .. Len(f.blocks[b]) /\ k \in p + 1 .. Len(f.blocks[b]) + 1
        BY <1>1, <1>2, <2>1
    <2>3. PICK q : q = <<b, k>>
        OBVIOUS
    <2>4. g[k] = Here(InFront(s, f, b, k), s, q)
        BY <1>3, <2>2, <2>3, NewSteps
    <2>5. s.inserted[q[1]][q[2]] = <<>>
        BY <1>2, <2>2, <2>3 DEF TailBare
    <2>6. g[k] = InFront(s, f, b, k)
        BY <2>4, <2>5, ExecutedEmpty DEF Here
    <2>7. g[k] = g[n] \/ g[k] = Plain(g[n], s.code[b][n], n)
        BY <1>3, <2>2, <2>6 DEF InFront
    <2>8. DOMAIN g[n] = Env
        BY <1>3, <2>2, NewSteps
    <2>9. Plain(g[n], s.code[b][n], n)[x] = g[n][x]
        <3>1. PICK i : i = s.code[b][n]
            OBVIOUS
        <3>2. Definitions(i) = {} /\ i.op # "CALL"
            BY <2>2, <3>1 DEF Bare
        <3>3. PICK env : env = g[n]
            OBVIOUS
        <3>4. Plain(env, i, n)[x] = env[x]
            BY <2>8, <3>2, <3>3, BareChangesNothing
        <3> QED BY <3>1, <3>3, <3>4
    <2> QED BY <2>1, <2>7, <2>9
<1>5. p \in Nat /\ l \in Nat
    BY <1>1, <1>2
<1>6. Steady(g, p, l)
    BY <1>4, <1>5, SteadyIntro
<1> QED BY <1>3, <1>6

LEMMA BareKinds ==
    ASSUME NEW i \in Instructions, Bare(i), NEW j \in Instructions, SameKinds(i, j)
    PROVE  Bare(j)
<1>1. DOMAIN i.ops = 1 .. Len(i.ops) /\ DOMAIN j.ops = 1 .. Len(j.ops)
    BY DEF Instructions
<1>2. Definitions(j) = {}
    <2>1. SUFFICES ASSUME NEW k \in DOMAIN j.ops, j.ops[k].kind \in {"def", "ec"} PROVE FALSE
        BY DEF Definitions, Named
    <2>2. k \in DOMAIN i.ops /\ i.ops[k].kind \in {"def", "ec"}
        BY <1>1, <2>1 DEF SameKinds
    <2>3. i.ops[k].reg \in Definitions(i)
        BY <2>2 DEF Definitions, Named
    <2> QED BY <2>3 DEF Bare
<1> QED BY <1>2 DEF Bare, SameKinds

LEMMA ImplicitIsBare ==
    ASSUME NEW j, OnlyImplicit(j)
    PROVE  Bare(j)
BY DEF OnlyImplicit, Bare, Definitions, Named

\* Terminators write nothing, and neither do their allocated forms.
LEMMA TailIsBare ==
    ASSUME NEW s, NEW f, Allocates(s, f), NEW b \in 1 .. Len(f.blocks),
           NEW p, p = getFirstTerminator(f.blocks[b]),
           NEW l, l = Len(f.blocks[b]) + 1, ReadsSoFar(s, f, b, l), NEW n \in p .. Len(f.blocks[b])
    PROVE  Bare(s.code[b][n])
<1>1. f \in Functions /\ f.blocks[b] \in Seq(Instructions) /\ Len(f.blocks[b]) \in Nat
    BY BlockOf DEF Allocates
<1>2. p \in 1 .. Len(f.blocks[b]) + 1 /\ \A j \in p .. Len(f.blocks[b]) : isTerminator(f.blocks[b][j])
    BY <1>1, FirstTerminator
<1>3. n \in 1 .. Len(f.blocks[b]) /\ n \in 1 .. l - 1
    BY <1>1, <1>2
<1>4. PICK i : i = f.blocks[b][n]
    OBVIOUS
<1>5. Sound(i) /\ isTerminator(i)
    BY <1>1, <1>2, <1>3, <1>4, BlockSound
<1>6. i \in Instructions /\ Bare(i)
    BY <1>5 DEF Sound, WellFormedInstr, isTerminator, Bare
<1>7. PICK j : j = s.code[b][n]
    OBVIOUS
<1>8. j \in Instructions
    <2>1. s.code[b] \in Seq(Instructions) /\ Len(s.code[b]) = Len(f.blocks[b])
        BY ZenonT(40), InsertedAt
    <2> QED BY <1>3, <1>7, <2>1, ElementOfSeq
<1>9. SameKinds(i, j)
    BY <1>3, <1>4, <1>7 DEF ReadsSoFar, ReadsSame, SameKinds
<1>10. Bare(j)
    BY <1>6, <1>8, <1>9, BareKinds
<1> QED BY <1>7, <1>10

SamePhys(s, t, f, b, l) == \A n \in 1 .. l : \A x \in Phys : New(t, f, b)[n][x] = New(s, f, b)[n][x]

\* The block ends with its values in their slots, and nothing else changed.
LEMMA EndKeepsPhys ==
    ASSUME NEW s, NEW f, Allocates(s, f), NEW b \in 1 .. Len(f.blocks), TailBare(s, f, b),
           NEW p, p = getFirstTerminator(f.blocks[b]), NEW m, m = <<b, p>>,
           NEW l, l = Len(f.blocks[b]) + 1, ReadsSoFar(s, f, b, l),
           NEW e, e = InFront(s, f, b, p), NEW t, Ended(s, f, b, e, m, t), Allocates(t, f)
    PROVE  /\ SamePhys(s, t, f, b, l) /\ Steady(New(s, f, b), p, l) /\ Steady(New(t, f, b), p, l)
           /\ New(s, f, b)[p] = Here(e, s, m) /\ New(t, f, b)[p] = Here(e, t, m)
<1>1. /\ f \in Functions /\ f.blocks[b] \in Seq(Instructions) /\ Len(f.blocks[b]) \in Nat /\ m[1] = b /\ m[2] = p
    BY BlockOf DEF Allocates
<1>2. p \in 1 .. Len(f.blocks[b]) + 1 /\ p \in Nat /\ p <= l
    BY <1>1, FirstTerminator
<1>3. \A n \in p .. Len(f.blocks[b]) : Bare(s.code[b][n])
    BY TailIsBare
<1>4. \A n \in 1 .. Len(f.blocks[b]) : s.code[b][n].op = f.blocks[b][n].op
    <2>1. SUFFICES ASSUME NEW n \in 1 .. Len(f.blocks[b]) PROVE s.code[b][n].op = f.blocks[b][n].op
        OBVIOUS
    <2>2. n \in 1 .. l - 1
        BY <1>1
    <2> QED BY <2>2 DEF ReadsSoFar, ReadsSame
<1>5. ASSUME NEW n \in p .. Len(f.blocks[b]) PROVE Bare(t.code[b][n])
    <2>1. n \in 1 .. Len(f.blocks[b])
        BY <1>1, <1>2
    <2>2. CASE OnlyImplicit(t.code[b][n])
        BY <2>2, ImplicitIsBare
    <2>3. CASE SameOperands(s.code[b][n], t.code[b][n])
        <3>1. PICK i, j : i = s.code[b][n] /\ j = t.code[b][n]
            OBVIOUS
        <3>2. i \in Instructions /\ j \in Instructions
            <4>1. /\ s.code[b] \in Seq(Instructions) /\ Len(s.code[b]) = Len(f.blocks[b])
                  /\ t.code[b] \in Seq(Instructions) /\ Len(t.code[b]) = Len(f.blocks[b])
                BY InsertedAt
            <4> QED BY <2>1, <3>1, <4>1, ElementOfSeq
        <3>3. Bare(i)
            BY <1>3, <3>1
        <3>4. SameKinds(i, j)
            BY <2>3, <3>1 DEF SameOperands, SameKinds
        <3>5. Bare(j)
            BY <3>2, <3>3, <3>4, BareKinds
        <3> QED BY <3>1, <3>5
    <2> QED BY <2>1, <2>2, <2>3 DEF Ended
<1>6. TailBare(t, f, b)
    <2>1. SUFFICES ASSUME NEW n \in p + 1 .. Len(f.blocks[b]) + 1 PROVE t.inserted[b][n] = <<>>
        BY DEF TailBare
    <2>2. s.inserted[b][n] = <<>>
        BY DEF TailBare
    <2>3. b \in 1 .. Len(s.inserted) /\ n \in 1 .. Len(s.inserted[b]) /\ n # p
        BY <1>1, <1>2 DEF Allocates, InsertedLengths
    <2> QED BY <1>1, <2>2, <2>3 DEF Ended, Elsewhere
<1>7. Steady(New(s, f, b), p, l) /\ Steady(New(t, f, b), p, l)
    <2>1. Steady(New(s, f, b), p, l)
        BY <1>3, NewSteady
    <2>2. Steady(New(t, f, b), p, l)
        BY <1>5, <1>6, NewSteady
    <2> QED BY <2>1, <2>2
<1>8. /\ InFront(t, f, b, p) = InFront(s, f, b, p)
      /\ \A j \in 1 .. p - 1 : New(t, f, b)[j] = New(s, f, b)[j] /\ SameOperands(s.code[b][j], t.code[b][j])
    BY <1>4, EndPast
<1>9. New(s, f, b)[p] = Here(e, s, m) /\ New(t, f, b)[p] = Here(e, t, m)
    BY <1>2, <1>8, NewSteps
<1>10. ASSUME NEW n \in 1 .. l, NEW x \in Phys PROVE New(t, f, b)[n][x] = New(s, f, b)[n][x]
    <2>1. CASE n < p
        <3>1. n \in 1 .. p - 1
            BY <1>1, <1>2, <2>1
        <3> QED BY <1>8, <3>1
    <2>2. CASE ~(n < p)
        <3>1. n \in p .. l /\ x \in Env
            BY <1>1, <1>2, <2>2 DEF Env
        <3>2. New(t, f, b)[n][x] = New(t, f, b)[p][x] /\ New(s, f, b)[n][x] = New(s, f, b)[p][x]
            BY <1>7, <3>1 DEF Steady
        <3>3. Here(e, t, m)[x] = Here(e, s, m)[x]
            BY DEF Ended
        <3> QED BY <1>9, <3>2, <3>3
    <2> QED BY <2>1, <2>2
<1> QED BY <1>7, <1>9, <1>10 DEF SamePhys

\* What SameValues says of block b.
ReadsEqual(t, f, b) ==
    \A i \in DOMAIN f.blocks[b] :
        f.blocks[b][i].op \notin {"COPY", "RET"} => Read(New(t, f, b)[i], t.code[b][i]) = Read(Old(f, b)[i], f.blocks[b][i])
OutSlotsSame(t, f, b, l) == \A v \in LiveOut(f, b) : New(t, f, b)[l][<<v>>] = Old(f, b)[l][v]
ReturnSame(t, f, b, l) ==
    Returns(f.blocks[b]) => \A r \in f.liveouts : New(t, f, b)[l][r] = Old(f, b)[l][r]

LEMMA EndReads ==
    ASSUME NEW s, NEW f, Allocates(s, f), NEW b \in 1 .. Len(f.blocks),
           NEW l, l = Len(f.blocks[b]) + 1, ReadsSoFar(s, f, b, l), NEW m,
           NEW e, NEW t, Ended(s, f, b, e, m, t), Allocates(t, f), SamePhys(s, t, f, b, l)
    PROVE  ReadsEqual(t, f, b)
<1>1. /\ f \in Functions /\ DOMAIN f.blocks[b] = 1 .. Len(f.blocks[b]) /\ Len(f.blocks[b]) \in Nat
    BY BlockOf DEF Allocates
<1>2. SUFFICES ASSUME NEW i \in 1 .. Len(f.blocks[b]), f.blocks[b][i].op \notin {"COPY", "RET"}
               PROVE  Read(New(t, f, b)[i], t.code[b][i]) = Read(Old(f, b)[i], f.blocks[b][i])
    BY <1>1 DEF ReadsEqual
<1>3. i \in 1 .. l - 1 /\ i \in 1 .. l /\ i \in 1 .. Len(f.blocks[b]) + 1
    BY <1>1
<1>4. PICK I, J, K, new, mid, old : /\ I = f.blocks[b][i] /\ J = s.code[b][i] /\ K = t.code[b][i]
                                    /\ new = New(t, f, b)[i] /\ mid = New(s, f, b)[i] /\ old = Old(f, b)[i]
    OBVIOUS
<1>5. ReadsSame(I, J, mid, old)
    BY <1>3, <1>4 DEF ReadsSoFar
<1>6. SameOperands(J, K)
    <2>1. J.op # "RET"
        BY <1>2, <1>4, <1>5 DEF ReadsSame
    <2> QED BY ZenonT(40), <1>2, <1>4, <2>1 DEF Ended
<1>7. J \in Instructions /\ K \in Instructions
    <2>1. /\ s.code[b] \in Seq(Instructions) /\ Len(s.code[b]) = Len(f.blocks[b])
          /\ t.code[b] \in Seq(Instructions) /\ Len(t.code[b]) = Len(f.blocks[b])
        BY InsertedAt
    <2> QED BY <1>4, <2>1, ElementOfSeq
<1>8. ReadsSame(I, K, mid, old)
    BY <1>5, <1>6, <1>7, ReadsSameFlags
<1>9. \A x \in Phys : new[x] = mid[x]
    BY <1>3, <1>4 DEF SamePhys
<1>10. ReadsSame(I, K, new, old)
    BY <1>8, <1>9 DEF ReadsSame
<1>11. DOMAIN new = Env /\ DOMAIN old = Env
    <2>1. DOMAIN New(t, f, b)[i] = Env
        BY <1>3, NewSteps
    <2>2. DOMAIN Old(f, b)[i] = Env
        BY <1>1, <1>3, OldSteps
    <2> QED BY <1>4, <2>1, <2>2
<1>12. Sound(I)
    BY <1>1, <1>4, BlockSound
<1>13. Read(new, K) = Read(old, I)
    BY <1>7, <1>10, <1>11, <1>12, ReadEqual
<1> QED BY <1>4, <1>13

\* Values that agree in environments that are the same agree.
LEMMA AgreeSame ==
    ASSUME NEW s, NEW new, NEW other, NEW old, NEW N \in SUBSET Virt, \A x \in Env : other[x] = new[x],
           \A v \in DOMAIN s.LiveVirtRegs : s.LiveVirtRegs[v].PhysReg \in Phys,
           Agree(s, new, old, N)
    PROVE  Agree(s, other, old, N)
<1>1. SUFFICES ASSUME NEW v \in N
               PROVE  /\ v \in DOMAIN s.LiveVirtRegs => other[s.LiveVirtRegs[v].PhysReg] = old[v]
                      /\ (v \in DOMAIN s.LiveVirtRegs => ~s.LiveVirtRegs[v].Dirty) => other[<<v>>] = old[v]
    BY DEF Agree
<1>2. /\ v \in DOMAIN s.LiveVirtRegs => new[s.LiveVirtRegs[v].PhysReg] = old[v]
      /\ (v \in DOMAIN s.LiveVirtRegs => ~s.LiveVirtRegs[v].Dirty) => new[<<v>>] = old[v]
    BY DEF Agree
<1>3. PICK x : x = <<v>>
    OBVIOUS
<1>4. x \in Env
    BY <1>3, SlotsApart
<1>5. v \in DOMAIN s.LiveVirtRegs => s.LiveVirtRegs[v].PhysReg \in Env
    BY DEF Env
<1> QED BY <1>2, <1>3, <1>4, <1>5

LEMMA EndSlots ==
    ASSUME NEW s, NEW f, Allocates(s, f), InverseBut(s, {}), NEW b \in 1 .. Len(f.blocks),
           NEW p, p = getFirstTerminator(f.blocks[b]),
           NEW l, l = Len(f.blocks[b]) + 1, InBlock(s, f, b, l), NEW m,
           NEW e, NEW t, Ended(s, f, b, e, m, t),
           Steady(New(s, f, b), p, l), Steady(New(t, f, b), p, l),
           New(s, f, b)[p] = Here(e, s, m), New(t, f, b)[p] = Here(e, t, m)
    PROVE  OutSlotsSame(t, f, b, l)
<1>1. /\ f \in Functions /\ s \in State /\ f.blocks[b] \in Seq(Instructions) /\ Len(f.blocks[b]) \in Nat
    BY BlockOf DEF Allocates
<1>2. l \in p .. l
    BY <1>1, FirstTerminator
<1>3. PICK new, other, old, N : /\ new = New(s, f, b)[l] /\ other = Here(e, s, m) /\ old = Old(f, b)[l]
                                /\ N = {v \in Virt : Needed(f, b, l, v)}
    OBVIOUS
<1>4. Agree(s, new, old, N)
    BY <1>3 DEF InBlock, New, Old
<1>5. \A x \in Env : other[x] = new[x]
    BY <1>2, <1>3 DEF Steady
<1>6. N \in SUBSET Virt
    BY <1>3
<1>7. Agree(s, other, old, N)
    <2>1. \A v \in DOMAIN s.LiveVirtRegs : s.LiveVirtRegs[v].PhysReg \in Phys
        BY <1>1, StatesAreNotVirtual
    <2> QED BY <1>4, <1>5, <1>6, <2>1, AgreeSame
<1>8. Agree(t, Here(e, t, m), old, N)
    BY <1>3, <1>6, <1>7 DEF Ended, KeepsAgreement
<1>9. ASSUME NEW v \in LiveOut(f, b) PROVE New(t, f, b)[l][<<v>>] = old[v]
    <2>1. v \in Virt
        BY <1>1, LiveOutSomewhere DEF ReadSomewhere
    <2>2. Needed(f, b, l, v)
        BY <1>1 DEF Needed
    <2>3. v \in N /\ v \notin DOMAIN t.LiveVirtRegs
        BY <1>3, <2>1, <2>2 DEF Ended
    <2>4. Here(e, t, m)[<<v>>] = old[v]
        BY <1>8, <2>3 DEF Agree
    <2>5. PICK x : x = <<v>>
        OBVIOUS
    <2>6. x \in Env
        BY <2>1, <2>5, SlotsApart
    <2>7. New(t, f, b)[l][x] = New(t, f, b)[p][x]
        BY <1>2, <2>6 DEF Steady
    <2> QED BY <2>4, <2>5, <2>7
<1> QED BY <1>3, <1>9 DEF OutSlotsSame

LEMMA EndReturns ==
    ASSUME NEW s, NEW f, Allocates(s, f), NEW b \in 1 .. Len(f.blocks),
           NEW l, l = Len(f.blocks[b]) + 1, InBlock(s, f, b, l), NEW t, SamePhys(s, t, f, b, l)
    PROVE  ReturnSame(t, f, b, l)
<1>1. /\ f \in Functions /\ DOMAIN f.blocks = 1 .. Len(f.blocks) /\ Len(f.blocks[b]) \in Nat
    BY BlockOf DEF Allocates
<1>2. SUFFICES ASSUME Returns(f.blocks[b]), NEW r \in f.liveouts PROVE New(t, f, b)[l][r] = Old(f, b)[l][r]
    BY DEF ReturnSame
<1>3. r \in Phys
    BY <1>1, FunctionsAssumption
<1>4. WellFormedBlock(f, b)
    BY <1>1, SelectionAssumption
<1>5. Pending(f, b, l, r)
    BY <1>2, <1>4 DEF WellFormedBlock
<1>6. New(s, f, b)[l][r] = Old(f, b)[l][r]
    BY <1>3, <1>5 DEF InBlock, New, Old
<1>7. l \in 1 .. l
    BY <1>1
<1> QED BY <1>3, <1>6, <1>7 DEF SamePhys

EndsSame(t, f, b, l) == ReadsEqual(t, f, b) /\ OutSlotsSame(t, f, b, l) /\ ReturnSame(t, f, b, l)

\* The next block begins, if there is one.
LEMMA NextBlock ==
    ASSUME NEW s, NEW f, Allocates(s, f), NEW b \in 1 .. Len(f.blocks), NEW p, NEW m, m = <<b, p>>,
           NEW e, NEW t, Ended(s, f, b, e, m, t), Allocates(t, f),
           NEW l, l = Len(f.blocks[b]) + 1, Unseen(s, f, b, l), Between(s, f, b, l),
           NEW c, c = b + 1, NEW one, one = 1, \A r \in EntryLiveIns(f, c) : t.PhysRegState[r] = "reserved"
    PROVE  Between(t, f, c, one)
<1>1. Unseen(t, f, c, one)
    BY UnseenEnds
<1>2. ExposedHaveSlots(t, f, c, one)
    <2>1. ExposedHaveSlots(s, f, b, l)
        BY DEF Between
    <2> QED BY <2>1, ExposedEnds
<1>3. t.errors = {} /\ DOMAIN t.LiveVirtRegs = {}
    BY DEF Between, Ended
<1>4. c <= Len(f.blocks) => InBlock(t, f, c, one)
    <2>1. SUFFICES ASSUME c <= Len(f.blocks) PROVE InBlock(t, f, c, one)
        OBVIOUS
    <2>2. c \in 1 .. Len(f.blocks)
        <3>1. Len(f.blocks) \in Nat
            BY BlockOf DEF Allocates
        <3> QED BY <2>1, <3>1
    <2> QED BY <1>1, <1>3, <2>2, BlockStarts
<1> QED BY <1>2, <1>3, <1>4 DEF Between

LEMMA BlockEndsSame ==
    ASSUME NEW s, NEW f, Allocates(s, f), InverseBut(s, {}), NEW b \in 1 .. Len(f.blocks),
           NEW p, p = getFirstTerminator(f.blocks[b]), NEW m, m = <<b, p>>,
           NEW l, l = Len(f.blocks[b]) + 1, InBlock(s, f, b, l),
           NEW e, e = InFront(s, f, b, p), NEW t, Ended(s, f, b, e, m, t), Allocates(t, f)
    PROVE  EndsSame(t, f, b, l)
<1>1. ReadsSoFar(s, f, b, l) /\ TailBare(s, f, b)
    BY DEF InBlock, ReadsSoFar, New, Old
<1>2. /\ SamePhys(s, t, f, b, l) /\ Steady(New(s, f, b), p, l) /\ Steady(New(t, f, b), p, l)
      /\ New(s, f, b)[p] = Here(e, s, m) /\ New(t, f, b)[p] = Here(e, t, m)
    BY <1>1, EndKeepsPhys
<1>3. ReadsEqual(t, f, b)
    BY <1>1, <1>2, EndReads
<1>4. OutSlotsSame(t, f, b, l)
    BY <1>2, EndSlots
<1>5. ReturnSame(t, f, b, l)
    BY <1>2, EndReturns
<1> QED BY <1>3, <1>4, <1>5 DEF EndsSame

EndsWell(t, f, b, l, c, one) ==
    /\ InsertedLengths(t, f) /\ Unseen(t, f, c, one)
    /\ ~RanOut(t) => Between(t, f, c, one) /\ EndsSame(t, f, b, l)

LEMMA FinishBlockKeepsValues ==
    ASSUME NEW s, NEW f, Allocates(s, f), InverseBut(s, {}), CopiesHaveTwo(s.code), NEW b \in 1 .. Len(f.blocks),
           NEW p, p = getFirstTerminator(f.blocks[b]), NEW m, m = <<b, p>>,
           NEW l, l = Len(f.blocks[b]) + 1, Unseen(s, f, b, l), BetweenUnlessOut(s, f, b, l),
           NEW c, c = b + 1, NEW one, one = 1,
           NEW liveouts, liveouts = f.liveouts, NEW liveins, liveins = EntryLiveIns(f, c),
           NEW t, t = StartBlock(addRetOperands(spillAll(s, m), b, liveouts), liveins),
           t \in State, SameLengths(f.blocks, t.code)
    PROVE  EndsWell(t, f, b, l, c, one)
<1>1. f \in Functions /\ f.blocks[b] \in Seq(Instructions)
    BY BlockOf DEF Allocates
<1>2. p \in 1 .. Len(f.blocks[b]) + 1
    BY <1>1, FirstTerminator
<1>3. PICK e : e = InFront(s, f, b, p)
    OBVIOUS
<1>4. DOMAIN e = Env
    BY <1>2, <1>3, NewSteps
<1>5. Ended(s, f, b, e, m, t) /\ Reserves(t, liveins)
    BY <1>2, <1>4, BlockEnds
<1>6. InsertedLengths(t, f) /\ Unseen(t, f, c, one)
    BY <1>5, UnseenEnds
<1>7. Allocates(t, f)
    BY <1>1, <1>6 DEF Allocates
<1>8. ASSUME ~RanOut(t) PROVE Between(t, f, c, one) /\ EndsSame(t, f, b, l)
    <2>1. t.errors = s.errors
        BY <1>5 DEF Ended
    <2>2. Between(s, f, b, l)
        BY <1>8, <2>1 DEF BetweenUnlessOut, RanOut
    <2>3. InBlock(s, f, b, l)
        <3>1. Len(f.blocks) \in Nat
            BY <1>1, BlockOf
        <3> QED BY <2>2, <3>1 DEF Between
    <2>4. EndsSame(t, f, b, l)
        BY <1>3, <1>5, <1>7, <2>3, BlockEndsSame
    <2>5. \A r \in EntryLiveIns(f, c) : t.PhysRegState[r] = "reserved"
        <3>1. EntryLiveIns(f, c) \subseteq Phys
            BY <1>1, FunctionsAssumption DEF EntryLiveIns
        <3> QED BY <1>5, <3>1 DEF Reserves
    <2>6. Between(t, f, c, one)
        BY <1>5, <1>7, <2>2, <2>5, NextBlock
    <2> QED BY <2>4, <2>6
<1> QED BY <1>6, <1>8 DEF EndsWell

LEMMA InitValues ==
    ASSUME RegAllocInvariant, Init
    PROVE  ValuesInvariant
<1> USE DEF RegAllocInvariant
<1>1. PICK s, f, b, one : s = ra /\ f = function /\ b = mbb /\ one = at
    OBVIOUS
<1>2. b = 1 /\ one = 1 /\ f \in Functions /\ s \in State
    BY <1>1 DEF Init
<1>3. f.blocks \in Code /\ DOMAIN f.blocks = 1 .. Len(f.blocks) /\ Len(f.blocks) \in Nat
    BY <1>2, FunctionsAssumption, CodeDomain
<1>4. /\ s.code = f.blocks /\ s.Coalesced = {} /\ DOMAIN s.LiveVirtRegs = {} /\ s.errors = {}
      /\ s.inserted = [c \in DOMAIN f.blocks |-> [i \in 1 .. Len(f.blocks[c]) + 1 |-> <<>>]]
      /\ \A r \in EntryLiveIns(f, b) : r \in Phys => s.PhysRegState[r] = "reserved"
    BY <1>1, <1>2 DEF Init, StartBlock
<1>5. InsertedLengths(s, f)
    <2>1. s.inserted \in [1 .. Len(f.blocks) -> Seq(Seq(Inserted))] /\ Len(s.inserted) = Len(f.blocks)
        <3>1. s.inserted \in Seq(Seq(Seq(Inserted)))
            BY <1>2 DEF State
        <3>2. DOMAIN s.inserted = 1 .. Len(f.blocks)
            BY <1>3, <1>4
        <3> QED BY <1>3, <3>1, <3>2, LenProperties
    <2>2. ASSUME NEW c \in 1 .. Len(f.blocks) PROVE Len(s.inserted[c]) = Len(f.blocks[c]) + 1
        <3>1. s.inserted[c] \in Seq(Seq(Inserted))
            BY <2>1
        <3>2. DOMAIN s.inserted[c] = 1 .. Len(f.blocks[c]) + 1
            BY <1>3, <1>4
        <3>3. Len(f.blocks[c]) \in Nat
            BY <1>2, BlockOf
        <3> QED BY <3>1, <3>2, <3>3, LenProperties
    <2> QED BY <2>1, <2>2 DEF InsertedLengths
<1>6. Allocates(s, f)
    BY <1>1, <1>5 DEF Allocates
<1>7. Unseen(s, f, b, one)
    <2>1. \A c \in 1 .. Len(f.blocks) : \A n \in 1 .. Len(f.blocks[c]) + 1 : s.inserted[c][n] = <<>>
        BY <1>3, <1>4
    <2>2. \A c \in 1 .. Len(f.blocks) : \A n \in 1 .. Len(f.blocks[c]) :
                SameOperands(f.blocks[c][n], s.code[c][n]) /\ <<c, n>> \notin s.Coalesced
        BY <1>4 DEF SameOperands
    <2> QED BY <2>1, <2>2 DEF Unseen
<1>8. ExposedHaveSlots(s, f, b, one)
    <2>1. \A c \in 1 .. Len(f.blocks) : \A n \in Nat \ {0} : ~Seen(b, one, c, n)
        BY <1>2, <1>3 DEF Seen
    <2>2. \A c \in 1 .. Len(f.blocks) : \A n \in 1 .. Len(f.blocks[c]) : n \in Nat \ {0}
        BY <1>2, BlockOf
    <2> QED BY <2>1, <2>2 DEF ExposedHaveSlots
<1>9. b <= Len(f.blocks) => InBlock(s, f, b, one)
    <2>1. SUFFICES ASSUME b <= Len(f.blocks) PROVE InBlock(s, f, b, one)
        OBVIOUS
    <2>2. b \in 1 .. Len(f.blocks)
        BY <1>2, <1>3, <2>1
    <2>3. \A r \in EntryLiveIns(f, b) : s.PhysRegState[r] = "reserved"
        <3>1. EntryLiveIns(f, b) \subseteq Phys
            BY <1>2, FunctionsAssumption DEF EntryLiveIns
        <3> QED BY <1>4, <3>1
    <2> QED BY <1>2, <1>4, <1>6, <1>7, <2>2, <2>3, BlockStarts
<1>10. b <= Len(f.blocks) => one <= Len(f.blocks[b]) + 1
    <2>1. SUFFICES ASSUME b <= Len(f.blocks) PROVE one <= Len(f.blocks[b]) + 1
        OBVIOUS
    <2>2. b \in 1 .. Len(f.blocks)
        BY <1>2, <1>3, <2>1
    <2>3. Len(f.blocks[b]) \in Nat
        BY <1>2, <2>2, BlockOf
    <2> QED BY <1>2, <2>3
<1>11. Between(s, f, b, one)
    BY <1>4, <1>8, <1>9 DEF Between
<1>12. SameValues
    BY <1>1, <1>2 DEF SameValues, JustFinished
<1> QED BY <1>1, <1>5, <1>7, <1>10, <1>11, <1>12 DEF ValuesInvariant

LEMMA AllocateValues ==
    ASSUME RegAllocInvariant, RegAllocInvariant', ValuesInvariant, Allocate
    PROVE  ValuesInvariant'
<1>1. PICK s, f, b, i : s = ra /\ f = function /\ b = mbb /\ i = at
    OBVIOUS
<1>2. PICK t, k, m : t = ra' /\ k = i + 1 /\ m = <<b, i>>
    OBVIOUS
<1>3. /\ f \in Functions /\ s \in State /\ SameLengths(f.blocks, s.code) /\ CopiesHaveTwo(s.code)
      /\ InverseBut(s, {}) /\ b \in Nat \ {0} /\ i \in Nat \ {0}
    BY <1>1 DEF RegAllocInvariant
<1>4. function' = f /\ mbb' = b /\ at' = k /\ t = AllocateInstruction(s, m) /\ b <= Len(f.blocks) /\ i <= Len(f.blocks[b])
    BY <1>1, <1>2 DEF Allocate
<1>5. t \in State /\ SameLengths(f.blocks, t.code)
    BY <1>2, <1>4 DEF RegAllocInvariant
<1>6. InsertedLengths(s, f) /\ Unseen(s, f, b, i) /\ BetweenUnlessOut(s, f, b, i)
    BY <1>1 DEF ValuesInvariant, BetweenUnlessOut
<1>7. Allocates(s, f)
    BY <1>3, <1>6 DEF Allocates
<1>8. b \in 1 .. Len(f.blocks) /\ i \in 1 .. Len(f.blocks[b]) /\ Len(f.blocks[b]) \in Nat
    <2>1. Len(f.blocks) \in Nat /\ b \in 1 .. Len(f.blocks)
        BY <1>3, <1>4, FunctionsAssumption, CodeDomain
    <2>2. Len(f.blocks[b]) \in Nat
        BY <1>3, <2>1, BlockOf
    <2> QED BY <1>3, <1>4, <2>1, <2>2
<1>9. InsertedLengths(t, f) /\ Unseen(t, f, b, k) /\ BetweenUnlessOut(t, f, b, k)
    BY <1>2, <1>3, <1>4, <1>5, <1>6, <1>7, <1>8, AllocateKeepsValues
<1>10. SameValues'
    BY <1>2, <1>3, <1>4 DEF SameValues, JustFinished
<1>11. k <= Len(f.blocks[b]) + 1
    BY <1>2, <1>8
<1> QED BY <1>2, <1>4, <1>9, <1>10, <1>11 DEF ValuesInvariant, BetweenUnlessOut

\* What SameValues says of the block that was finished.
BlockSameValues(s, f, b) ==
    LET block == f.blocks[b]
        old == FoundBefore(f, b)
        new == FoundAfter(s, f, b, FALSE)
        end == Len(block) + 1
    IN  /\ s.errors = {}
        /\ \A i \in DOMAIN block :
                block[i].op \notin {"COPY", "RET"} => Read(new[i], s.code[b][i]) = Read(old[i], block[i])
        /\ \A v \in LiveOut(f, b) : new[end][<<v>>] = old[end][v]
        /\ Returns(block) => \A r \in f.liveouts : new[end][r] = old[end][r]

LEMMA FinishBlockValues ==
    ASSUME RegAllocInvariant, RegAllocInvariant', ValuesInvariant, FinishBlock
    PROVE  ValuesInvariant'
<1>1. PICK s, f, b, l : s = ra /\ f = function /\ b = mbb /\ l = Len(f.blocks[b]) + 1
    OBVIOUS
<1>2. PICK t, c, p, m, one, liveouts, liveins :
        /\ t = ra' /\ c = b + 1 /\ p = getFirstTerminator(f.blocks[b]) /\ m = <<b, p>> /\ one = 1
        /\ liveouts = f.liveouts /\ liveins = EntryLiveIns(f, c)
    OBVIOUS
<1>3. /\ f \in Functions /\ s \in State /\ SameLengths(f.blocks, s.code) /\ CopiesHaveTwo(s.code)
      /\ InverseBut(s, {}) /\ b \in Nat \ {0} /\ at \in Nat
    BY <1>1 DEF RegAllocInvariant
<1>4. /\ function' = f /\ mbb' = c /\ at' = one /\ b <= Len(f.blocks) /\ at > Len(f.blocks[b])
      /\ t = StartBlock(addRetOperands(spillAll(s, m), b, liveouts), liveins)
    BY <1>1, <1>2 DEF FinishBlock
<1>5. t \in State /\ SameLengths(f.blocks, t.code)
    BY <1>2, <1>4 DEF RegAllocInvariant
<1>6. b \in 1 .. Len(f.blocks) /\ Len(f.blocks[b]) \in Nat /\ Len(f.blocks) \in Nat
    <2>1. Len(f.blocks) \in Nat /\ b \in 1 .. Len(f.blocks)
        BY <1>3, <1>4, FunctionsAssumption, CodeDomain
    <2>2. Len(f.blocks[b]) \in Nat
        BY <1>3, <2>1, BlockOf
    <2> QED BY <2>1, <2>2
<1>7. at = l
    <2>1. at <= Len(f.blocks[b]) + 1
        BY <1>1, <1>4 DEF ValuesInvariant
    <2> QED BY <1>1, <1>3, <1>4, <1>6, <2>1
<1>8. InsertedLengths(s, f) /\ Unseen(s, f, b, l) /\ BetweenUnlessOut(s, f, b, l)
    BY <1>1, <1>7 DEF ValuesInvariant, BetweenUnlessOut
<1>9. Allocates(s, f)
    BY <1>3, <1>8 DEF Allocates
<1>10. EndsWell(t, f, b, l, c, one)
    BY <1>1, <1>2, <1>3, <1>4, <1>5, <1>6, <1>8, <1>9, FinishBlockKeepsValues
<1>11. ASSUME ~RanOut(t) PROVE SameValues'
    <2>1. t.errors = {} /\ ReadsEqual(t, f, b) /\ OutSlotsSame(t, f, b, l) /\ ReturnSame(t, f, b, l)
        BY <1>10, <1>11 DEF EndsWell, EndsSame, Between
    <2>2. mbb' - 1 = b
        BY <1>2, <1>4, <1>6
    <2>3. BlockSameValues(t, f, b)
        BY <1>1, <2>1 DEF BlockSameValues, ReadsEqual, OutSlotsSame, ReturnSame, New, Old
    <2>4. SameValues' <=> (JustFinished' => BlockSameValues(ra', function', mbb' - 1))
        BY DEF SameValues, BlockSameValues
    <2> QED BY <1>2, <1>4, <2>2, <2>3, <2>4
<1>12. mbb' <= Len(function'.blocks) => at' <= Len(function'.blocks[mbb']) + 1
    <2>1. SUFFICES ASSUME c <= Len(f.blocks) PROVE one <= Len(f.blocks[c]) + 1
        BY <1>4
    <2>2. c \in 1 .. Len(f.blocks)
        BY <1>2, <1>6, <2>1
    <2>3. Len(f.blocks[c]) \in Nat
        BY <1>3, <2>2, BlockOf
    <2> QED BY <1>2, <2>3
<1> QED BY <1>2, <1>4, <1>10, <1>11, <1>12 DEF ValuesInvariant, EndsWell

(***************************************************************************)
(* An allocated block computes what it did: until the allocator runs out   *)
(* of registers, where llc stops, every instruction reads the values it    *)
(* read before, no register of an argument is found taken, and the values  *)
(* that other blocks read are in their slots when a block ends, whatever   *)
(* the function, the number of registers and their order.                  *)
(***************************************************************************)
THEOREM ValuesStaySame == Spec => [](~RanOut(ra) => SameValues)
<1>1. RegAllocInvariant /\ RegAllocInvariant' /\ ValuesInvariant /\ [Next]_vars => ValuesInvariant'
    <2>1. ASSUME ValuesInvariant, UNCHANGED vars PROVE ValuesInvariant'
        BY <2>1 DEF vars, ValuesInvariant, SameValues, JustFinished
    <2> QED BY <2>1, AllocateValues, FinishBlockValues DEF Next
<1>2. RegAllocInvariant /\ Init => ValuesInvariant
    BY InitValues
<1>3. ValuesInvariant => (~RanOut(ra) => SameValues)
    BY DEF ValuesInvariant
<1> QED BY <1>1, <1>2, <1>3, RegAllocInvariantHolds, PTL DEF Spec
=============================================================================
