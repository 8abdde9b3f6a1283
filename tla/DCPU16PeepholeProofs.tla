------------------------- MODULE DCPU16PeepholeProofs -------------------------
(***************************************************************************)
(* What the peephole pass guarantees for every block that selection makes, *)
(* whatever values it gives to other blocks.                               *)
(*                                                                         *)
(* The inductive invariant.  Form and Assigned: what selection makes, for  *)
(* the code as it is rewritten.  KillsOnce: a register is only killed by   *)
(* its one use, wherever that use has moved.  MapKept: an AND in the map   *)
(* is in the block, before the iterator, or else its result is used no     *)
(* more; this is why the pointers to erased instructions that stay in the  *)
(* map do no harm.  For completeness, FlagsComplete, AndsKnown and         *)
(* NoneLeft say that the flags, the map and the part of the block that has *)
(* been visited miss nothing.                                              *)
(***************************************************************************)
EXTENDS DCPU16Peephole, SequenceTheorems, FiniteSetTheorems, TLAPS

Places == 1..Len(code)

UsedAt(n, k, r) == n \in Places /\ k \in 1..Len(code[n].uses) /\ code[n].uses[k] = r

DefinedAt(n, r) == n \in Places /\ r \in ToSet(code[n].defs)

IsAnd(n) == n \in Places /\ code[n].op = "AND"

IsTest(n) == n \in Places /\ code[n].op = "BR_CC" /\ code[n].cc \in {"E", "NE"}

Result(n) == code[n].defs[1]

IsInstruction(i) ==
  /\ i \in [op : {i.op}, cc : {i.cc}, defs : Seq(Registers), uses : Seq(Operands),
            addr : {i.addr}, target : {i.target}, kills : SUBSET Nat]
  /\ Len(i.uses) <= 4
  /\ i.op \in {"AND", "BR_CC"} => Len(i.uses) = 2
  /\ i.op = "AND" => i.defs = <<i.defs[1]>> /\ i.defs[1] \in Registers \ (Inputs \cup {EX})
  /\ i.op = "BR_CC" => i.defs = <<>>

Form ==
  /\ code \in Seq(ToSet(code))
  /\ \A n \in Places : IsInstruction(code[n])
  /\ at \in 1..(Len(code) + 1)

Assigned ==
  \A r \in Registers \ {EX} : \A n \in Places : DefinedAt(n, r) =>
    /\ \A m \in Places : DefinedAt(m, r) => m = n
    /\ \A m \in Places, k \in 1..4 : UsedAt(m, k, r) => n < m

(* The register r has at most one use, and none in other blocks. *)
Once(r) ==
  /\ r \notin exported
  /\ \A m, n \in Places : \A k, l \in 1..4 : UsedAt(m, k, r) /\ UsedAt(n, l, r) => m = n /\ k = l

KillsOnce ==
  \A n \in Places : \A k \in code[n].kills :
    k \in 1..Len(code[n].uses) /\ code[n].uses[k] \in Registers /\ Once(code[n].uses[k])

MapKept ==
  \A r \in DOMAIN peepholeMap :
    /\ peepholeMap[r].op = "AND" /\ peepholeMap[r].defs = <<r>>
    /\ \/ \E j \in Places : j < at /\ code[j] = peepholeMap[r]
       \/ \A n \in Places, k \in 1..4 : ~UsedAt(n, k, r)

AndsKnown ==
  \A j \in Places : IsAnd(j) /\ j < at =>
    \/ Result(j) \in DOMAIN peepholeMap
    \/ \A n \in Places, k \in 1..4 : UsedAt(n, k, Result(j)) => n < at

NoneLeft ==
  \A n \in Places : IsTest(n) /\ n < at /\ code[n].uses[2] = Zero /\ 1 \in code[n].kills =>
    \A j \in Places : IsAnd(j) => Result(j) # code[n].uses[1]

FlagsComplete ==
  \A n, j \in Places :
    IsTest(n) /\ IsAnd(j) /\ code[n].uses[1] = Result(j) /\ Once(Result(j)) => 1 \in code[n].kills

IInv == Form /\ Assigned /\ KillsOnce /\ MapKept /\ AndsKnown /\ NoneLeft /\ FlagsComplete

-----------------------------------------------------------------------------
(* Sequences and their uses *)

LEMMA Single ==
  ASSUME NEW S, NEW s \in Seq(S), Len(s) = 1
  PROVE  s = <<s[1]>> /\ s[1] \in S /\ 1 \in DOMAIN s
<1>1. DOMAIN s = 1..1 /\ s \in [1..1 -> S]
  BY LenProperties
<1> QED
  BY <1>1

LEMMA Removed ==
  ASSUME NEW S, NEW s \in Seq(S), NEW j \in 1..Len(s)
  PROVE  /\ RemoveAt(s, j) \in Seq(S)
         /\ Len(RemoveAt(s, j)) = Len(s) - 1
         /\ \A n \in 1..(Len(s) - 1) : RemoveAt(s, j)[n] = IF n < j THEN s[n] ELSE s[n + 1]
<1> DEFINE before == SubSeq(s, 1, j - 1)
           after == SubSeq(s, j + 1, Len(s))
<1>1. Len(s) \in Nat /\ j \in Int /\ \A n \in 1..Len(s) : s[n] \in S
  BY LenProperties, ElementOfSeq
<1>2. /\ before \in Seq(S) /\ Len(before) = j - 1
      /\ \A n \in 1..(j - 1) : before[n] = s[n]
  <2>1. \A n \in 1..(j - 1) : s[n] \in S
    BY <1>1
  <2>2. /\ before \in Seq(S) /\ Len(before) = (IF 1 <= j - 1 THEN (j - 1) - 1 + 1 ELSE 0)
        /\ \A n \in 1..((j - 1) - 1 + 1) : before[n] = s[1 + n - 1]
    BY <1>1, <2>1, SubSeqProperties
  <2>3. \A n \in 1..(j - 1) : before[n] = s[n]
    <3> TAKE n \in 1..(j - 1)
    <3>1. n \in 1..((j - 1) - 1 + 1) /\ 1 + n - 1 = n
      BY <1>1
    <3> QED
      BY <2>2, <3>1
  <2> QED
    BY <1>1, <2>2, <2>3
<1>3. /\ after \in Seq(S) /\ Len(after) = Len(s) - j
      /\ \A n \in 1..(Len(s) - j) : after[n] = s[j + n]
  <2>1. \A n \in (j + 1)..Len(s) : s[n] \in S
    BY <1>1
  <2>2. /\ after \in Seq(S) /\ Len(after) = (IF j + 1 <= Len(s) THEN Len(s) - (j + 1) + 1 ELSE 0)
        /\ \A n \in 1..(Len(s) - (j + 1) + 1) : after[n] = s[(j + 1) + n - 1]
    BY <1>1, <2>1, SubSeqProperties
  <2>3. \A n \in 1..(Len(s) - j) : after[n] = s[j + n]
    <3> TAKE n \in 1..(Len(s) - j)
    <3>1. n \in 1..(Len(s) - (j + 1) + 1) /\ (j + 1) + n - 1 = j + n
      BY <1>1
    <3> QED
      BY <2>2, <3>1
  <2> QED
    BY <1>1, <2>2, <2>3
<1> HIDE DEF before, after
<1>4. /\ before \o after \in Seq(S) /\ Len(before \o after) = Len(before) + Len(after)
      /\ \A n \in 1..(Len(before) + Len(after)) :
           (before \o after)[n] = IF n <= Len(before) THEN before[n] ELSE after[n - Len(before)]
  BY <1>2, <1>3, ConcatProperties
<1>5. ASSUME NEW n \in 1..(Len(s) - 1)
      PROVE  (before \o after)[n] = IF n < j THEN s[n] ELSE s[n + 1]
  <2>1. n \in 1..(Len(before) + Len(after))
    BY <1>1, <1>2, <1>3
  <2>2. CASE n < j
    <3>1. n \in 1..(j - 1) /\ n <= Len(before)
      BY <1>1, <1>2, <2>2
    <3> QED
      BY <1>2, <1>4, <2>1, <2>2, <3>1
  <2>3. CASE ~(n < j)
    <3>1. PICK m \in Int : m = n - Len(before)
      BY <1>1, <1>2
    <3>2. m \in 1..(Len(s) - j) /\ ~(n <= Len(before)) /\ j + m = n + 1
      BY <1>1, <1>2, <2>3, <3>1
    <3>3. after[m] = s[n + 1]
      BY <1>3, <3>2
    <3> QED
      BY <1>4, <2>1, <2>3, <3>1, <3>2, <3>3
  <2> QED
    BY <2>2, <2>3
<1>6. RemoveAt(s, j) = before \o after
  BY DEF RemoveAt, before, after
<1>7. Len(before \o after) = Len(s) - 1
  BY <1>1, <1>2, <1>3, <1>4
<1> QED
  BY <1>4, <1>5, <1>6, <1>7

UsesOf(c, r) ==
  {p \in (DOMAIN c) \X (1 .. 4) : p[2] \in DOMAIN c[p[1]].uses /\ c[p[1]].uses[p[2]] = r}

LEMMA UsesFinite ==
  ASSUME NEW S, NEW c \in Seq(S), NEW r
  PROVE  IsFiniteSet(UsesOf(c, r)) /\ Cardinality(UsesOf(c, r)) \in Nat
<1>1. DOMAIN c = 1..Len(c)
  BY LenProperties
<1>2. IsFiniteSet(DOMAIN c) /\ IsFiniteSet(1 .. 4)
  <2>1. \A a, b \in Int : IsFiniteSet(a .. b)
    BY FS_Interval
  <2>2. PICK m \in Int : m = Len(c)
    <3>1. Len(c) \in Nat
      BY LenProperties
    <3> QED
      BY <3>1
  <2>3. 1 \in Int /\ 4 \in Int
    OBVIOUS
  <2>4. IsFiniteSet(1 .. m) /\ IsFiniteSet(1 .. 4)
    BY ONLY <2>1, <2>3, m \in Int
  <2> QED
    BY <1>1, <2>2, <2>4
<1>3. IsFiniteSet((DOMAIN c) \X (1 .. 4))
  BY <1>2, FS_Product
<1>4. UsesOf(c, r) \in SUBSET ((DOMAIN c) \X (1 .. 4))
  BY DEF UsesOf
<1> QED
  BY <1>3, <1>4, FS_Subset, FS_CardinalityType

(* A register with one use has it at one place, and in this block.         *)
LEMMA OneUse ==
  ASSUME NEW S, NEW c \in Seq(S), NEW r, NEW exports, Uses(c, exports, r) = 1,
         NEW n \in DOMAIN c, NEW k \in 1..4, k \in DOMAIN c[n].uses, c[n].uses[k] = r
  PROVE  /\ r \notin exports
         /\ \A m \in DOMAIN c, l \in 1..4 :
              l \in DOMAIN c[m].uses /\ c[m].uses[l] = r => m = n /\ l = k
<1>1. IsFiniteSet(UsesOf(c, r)) /\ Cardinality(UsesOf(c, r)) \in Nat
  BY UsesFinite
<1>2. <<n, k>> \in UsesOf(c, r)
  BY DEF UsesOf
<1>3. Cardinality(UsesOf(c, r)) # 0
  BY <1>1, <1>2, FS_EmptySet
<1>4. Uses(c, exports, r) = Cardinality(UsesOf(c, r)) + (IF r \in exports THEN 1 ELSE 0)
  BY DEF Uses, UsesOf
<1>5. r \notin exports /\ Cardinality(UsesOf(c, r)) = 1
  BY <1>1, <1>3, <1>4
<1>6. PICK x : UsesOf(c, r) = {x}
  BY <1>1, <1>5, FS_Singleton
<1>7. ASSUME NEW m \in DOMAIN c, NEW l \in 1..4, l \in DOMAIN c[m].uses, c[m].uses[l] = r
      PROVE  m = n /\ l = k
  <2>1. <<m, l>> \in UsesOf(c, r)
    BY <1>7 DEF UsesOf
  <2>2. <<m, l>> = <<n, k>>
    BY <1>2, <1>6, <2>1
  <2> QED
    BY <2>2
<1> QED
  BY <1>5, <1>7

(* The converse. *)
LEMMA UsedOnce ==
  ASSUME NEW S, NEW c \in Seq(S), NEW r, NEW exports, r \notin exports,
         NEW n \in DOMAIN c, NEW k \in 1..4, k \in DOMAIN c[n].uses, c[n].uses[k] = r,
         \A m \in DOMAIN c, l \in 1..4 :
           l \in DOMAIN c[m].uses /\ c[m].uses[l] = r => m = n /\ l = k
  PROVE  Uses(c, exports, r) = 1
<1>1. ASSUME NEW p \in UsesOf(c, r) PROVE p = <<n, k>>
  <2>1. PICK m \in DOMAIN c, l \in 1..4 : p = <<m, l>>
    BY <1>1 DEF UsesOf
  <2>2. l \in DOMAIN c[m].uses /\ c[m].uses[l] = r
    BY <1>1, <2>1 DEF UsesOf
  <2> QED
    BY <2>1, <2>2
<1>2. <<n, k>> \in UsesOf(c, r)
  BY DEF UsesOf
<1>3. UsesOf(c, r) = {<<n, k>>}
  BY <1>1, <1>2
<1>4. Cardinality(UsesOf(c, r)) = 1
  BY <1>3, FS_Singleton
<1>5. Uses(c, exports, r) = Cardinality(UsesOf(c, r)) + (IF r \in exports THEN 1 ELSE 0)
  BY DEF Uses, UsesOf
<1> QED
  BY <1>4, <1>5

-----------------------------------------------------------------------------
(* The emitted block *)

LEMMA InitForm ==
  ASSUME Init
  PROVE  /\ Form /\ Assigned /\ at = 1 /\ peepholeMap = <<>>
         /\ \A n \in Places : code[n].kills \subseteq 1..Len(code[n].uses)
         /\ \A n \in Places : \A k \in 1..Len(code[n].uses) :
              k \in code[n].kills =>
                /\ code[n].uses[k] \in Registers
                /\ Uses(code, exported, code[n].uses[k]) = 1
         /\ \A n, j \in Places :
              (/\ IsTest(n) /\ IsAnd(j) /\ code[n].uses[1] = Result(j)
               /\ Uses(code, exported, Result(j)) = 1) => 1 \in code[n].kills
<1>0. PICK block \in SelectedBlocks : \E exports \in SUBSET Results(block) : Begin(block, exports)
  BY DEF Init
<1>1. PICK exports \in SUBSET Results(block) : Begin(block, exports)
  BY <1>0
<1>2. SelectedForm(block)
  BY PeepholeAssumption
<1>3. /\ block \in Seq(ToSet(block)) /\ Len(block) \in Nat /\ DOMAIN block = 1..Len(block)
  BY <1>2, LenProperties DEF SelectedForm
<1>4. /\ exported = exports /\ code = Emitted(block, exports) /\ at = 1 /\ peepholeMap = <<>>
  BY <1>1 DEF Begin
<1>5. code = [n \in 1..Len(block) |->
        Flagged(block[n], {k \in DOMAIN block[n].uses : isKill(block, exports, block[n], k)})]
  BY <1>3, <1>4 DEF Emitted
<1>6. ASSUME NEW n \in 1..Len(block)
      PROVE  /\ code[n].op = block[n].op /\ code[n].cc = block[n].cc
             /\ code[n].defs = block[n].defs /\ code[n].uses = block[n].uses
             /\ code[n].addr = block[n].addr /\ code[n].target = block[n].target
             /\ code[n].kills = {k \in DOMAIN block[n].uses : isKill(block, exports, block[n], k)}
             /\ code[n] = Flagged(block[n], code[n].kills)
  BY <1>5 DEF Flagged
<1>7. code \in Seq(ToSet(code)) /\ Len(code) = Len(block)
  <2>1. \A n \in 1..Len(block) : code[n] \in ToSet(code)
    BY <1>5 DEF ToSet
  <2>2. code \in [1..Len(block) -> ToSet(code)]
    BY <1>5, <2>1
  <2> QED
    BY <1>3, <2>2
<1>8. \A n \in Places : IsInstruction(code[n])
  <2> SUFFICES ASSUME NEW n \in 1..Len(block) PROVE IsInstruction(code[n])
    BY <1>7 DEF Places
  <2>1. /\ block[n] \in [op : STRING, cc : STRING, defs : Seq(Registers), uses : Seq(Operands),
                         addr : {block[n].addr}, target : Blocks \cup {NoBlock}]
        /\ Len(block[n].uses) <= 4
        /\ block[n].op \in {"AND", "BR_CC"} => Len(block[n].uses) = 2
        /\ Len(block[n].defs) = 1 \/ block[n].op # "AND"
        /\ block[n].defs = <<>> \/ block[n].op # "BR_CC"
        /\ EX \in ToSet(block[n].defs) => block[n].op # "AND"
        /\ \A r \in ToSet(block[n].defs) \ {EX} : r \notin Inputs
    BY <1>2, <1>3 DEF SelectedForm
  <2>2. block[n].defs \in Seq(Registers) /\ block[n].uses \in Seq(Operands)
    BY <2>1
  <2>3. code[n].kills \in SUBSET Nat
    <3>1. DOMAIN block[n].uses = 1..Len(block[n].uses)
      BY <2>2, LenProperties
    <3> QED
      BY <1>6, <3>1
  <2>4. code[n] \in [op : {code[n].op}, cc : {code[n].cc}, defs : Seq(Registers), uses : Seq(Operands),
                     addr : {code[n].addr}, target : {code[n].target}, kills : SUBSET Nat]
    <3> DEFINE K == code[n].kills
    <3>1. /\ code[n] = Flagged(block[n], K) /\ K \in SUBSET Nat
          /\ code[n].op = block[n].op /\ code[n].cc = block[n].cc
          /\ code[n].addr = block[n].addr /\ code[n].target = block[n].target
      BY <1>6, <2>3
    <3> HIDE DEF K
    <3> QED
      BY <2>2, <3>1 DEF Flagged
  <2>5. ASSUME block[n].op = "AND"
        PROVE  block[n].defs = <<block[n].defs[1]>> /\ block[n].defs[1] \in Registers \ (Inputs \cup {EX})
    <3>1. Len(block[n].defs) = 1
      BY <2>1, <2>5
    <3>2. block[n].defs = <<block[n].defs[1]>> /\ block[n].defs[1] \in Registers /\ 1 \in DOMAIN block[n].defs
      BY <2>2, <3>1, Single
    <3>3. block[n].defs[1] \in ToSet(block[n].defs)
      BY <3>2 DEF ToSet
    <3> QED
      BY <2>1, <2>5, <3>2, <3>3
  <2> QED
    BY <1>6, <2>1, <2>4, <2>5 DEF IsInstruction
<1>9. Form
  BY <1>3, <1>4, <1>7, <1>8 DEF Form, Places
<1>10. Assigned
  <2> SUFFICES ASSUME NEW r \in Registers \ {EX}, NEW n \in Places, DefinedAt(n, r)
               PROVE  /\ \A m \in Places : DefinedAt(m, r) => m = n
                      /\ \A m \in Places, k \in 1..4 : UsedAt(m, k, r) => n < m
    BY DEF Assigned
  <2>1. Places = 1..Len(block)
    BY <1>7 DEF Places
  <2>2. r \in ToSet(block[n].defs) \ {EX}
    BY <1>6, <2>1 DEF DefinedAt
  <2>3. \A m \in DOMAIN block : /\ r \in ToSet(block[m].defs) => m = n
                                /\ r \in ToSet(block[m].uses) => n < m
    BY <1>2, <1>3, <2>1, <2>2 DEF SelectedForm
  <2>4. ASSUME NEW m \in Places, DefinedAt(m, r) PROVE m = n
    BY <1>3, <1>6, <2>1, <2>3, <2>4 DEF DefinedAt
  <2>5. ASSUME NEW m \in Places, NEW k \in 1..4, UsedAt(m, k, r) PROVE n < m
    <3>1. block[m].uses \in Seq(Operands)
      BY <1>2, <1>3, <2>1 DEF SelectedForm
    <3>2. DOMAIN block[m].uses = 1..Len(block[m].uses)
      BY <3>1, LenProperties
    <3>3. r \in ToSet(block[m].uses)
      BY <1>6, <2>1, <2>5, <3>2 DEF UsedAt, ToSet
    <3> QED
      BY <1>3, <2>1, <2>3, <3>3
  <2> QED
    BY <2>4, <2>5
<1>11. \A r : Uses(code, exported, r) = Uses(block, exports, r)
  <2>1. DOMAIN code = DOMAIN block
    BY <1>3, <1>5
  <2> TAKE r
  <2>2. UsesOf(code, r) = UsesOf(block, r)
    BY <1>3, <1>6, <2>1 DEF UsesOf
  <2> QED
    BY <1>4, <2>2 DEF Uses, UsesOf
<1>12. ASSUME NEW n \in Places
       PROVE  /\ code[n].kills \subseteq 1..Len(code[n].uses)
              /\ \A k \in 1..Len(code[n].uses) : k \in code[n].kills =>
                   code[n].uses[k] \in Registers /\ Uses(code, exported, code[n].uses[k]) = 1
  <2>1. n \in 1..Len(block) /\ block[n].uses \in Seq(Operands)
    BY <1>2, <1>3, <1>7 DEF SelectedForm, Places
  <2>2. DOMAIN block[n].uses = 1..Len(block[n].uses)
    BY <2>1, LenProperties
  <2> QED
    BY <1>6, <1>11, <2>1, <2>2 DEF isKill
<1>13. ASSUME NEW n \in Places, NEW j \in Places, IsTest(n), IsAnd(j), code[n].uses[1] = Result(j),
              Uses(code, exported, Result(j)) = 1
       PROVE  1 \in code[n].kills
  <2>1. n \in 1..Len(block) /\ j \in 1..Len(block) /\ block[n].uses \in Seq(Operands)
    BY <1>2, <1>3, <1>7 DEF SelectedForm, Places
  <2>2. block[n].op = "BR_CC" /\ Len(block[n].uses) = 2
    <3>1. Len(code[n].uses) = 2 /\ code[n].op = "BR_CC"
      BY <1>8, <1>13 DEF IsTest, IsInstruction
    <3> QED
      BY <1>6, <2>1, <3>1
  <2>3. 1 \in DOMAIN block[n].uses
    BY <2>1, <2>2, LenProperties
  <2>4. /\ block[j].op = "AND" /\ Result(j) \in Registers \ (Inputs \cup {EX})
        /\ Result(j) \in ToSet(block[j].defs)
    <3>1. code[j].op = "AND" /\ code[j].defs = <<code[j].defs[1]>> /\ Result(j) \in Registers \ (Inputs \cup {EX})
      BY <1>8, <1>13 DEF IsAnd, IsInstruction, Result
    <3>2. code[j].defs[1] \in ToSet(code[j].defs)
      <4> DEFINE d == code[j].defs[1]
      <4>1. code[j].defs = <<d>>
        BY <3>1
      <4> HIDE DEF d
      <4>2. d \in ToSet(<<d>>)
        BY DEF ToSet
      <4> QED
        BY <4>1, <4>2 DEF d
    <3> QED
      BY <1>6, <2>1, <3>1, <3>2 DEF Result
  <2>5. Result(j) \notin Copied(block)
    <3>1. ASSUME NEW m \in DOMAIN block, block[m].op = "COPY" PROVE Result(j) \notin ToSet(block[m].defs)
      <4>1. Result(j) \in ToSet(block[j].defs) \ {EX}
        BY <2>4
      <4>2. Result(j) \in ToSet(block[m].defs) => m = j
        BY <1>2, <1>3, <2>1, <4>1 DEF SelectedForm
      <4> QED
        BY <2>4, <3>1, <4>2
    <3> QED
      BY <2>4, <3>1 DEF Copied
  <2>6. Uses(block, exports, Result(j)) = 1
    BY <1>11, <1>13
  <2>7. block[n].uses[1] = Result(j)
    BY <1>6, <1>13, <2>1
  <2>8. isKill(block, exports, block[n], 1)
    BY <2>2, <2>4, <2>5, <2>6, <2>7 DEF isKill, TwoAddress
  <2> QED
    BY <1>6, <2>1, <2>3, <2>8
<1>14. /\ \A n \in Places : code[n].kills \subseteq 1..Len(code[n].uses)
       /\ \A n \in Places : \A k \in 1..Len(code[n].uses) :
            k \in code[n].kills =>
              code[n].uses[k] \in Registers /\ Uses(code, exported, code[n].uses[k]) = 1
  BY <1>12
<1>15. \A n, j \in Places :
         (/\ IsTest(n) /\ IsAnd(j) /\ code[n].uses[1] = Result(j)
          /\ Uses(code, exported, Result(j)) = 1) => 1 \in code[n].kills
  BY <1>13
<1> QED
  BY <1>4, <1>9, <1>10, <1>14, <1>15

LEMMA AndDefines ==
  ASSUME Form, NEW j \in Places, IsAnd(j)
  PROVE  /\ code[j].defs = <<Result(j)>> /\ ToSet(code[j].defs) = {Result(j)}
         /\ DefinedAt(j, Result(j)) /\ Result(j) \in Registers \ {EX}
         /\ Len(code[j].uses) = 2
<1>1. IsInstruction(code[j]) /\ code[j].op = "AND"
  BY DEF Form, IsAnd
<1>2. /\ code[j].defs = <<Result(j)>> /\ Result(j) \in Registers \ {EX}
      /\ Len(code[j].uses) = 2
  BY <1>1 DEF IsInstruction, Result
<1>3. \A r : ToSet(<<r>>) = {r}
  BY DEF ToSet
<1>4. ToSet(code[j].defs) = {Result(j)}
  BY <1>2, <1>3
<1> QED
  BY <1>2, <1>4 DEF DefinedAt

LEMMA UsesBounds ==
  ASSUME Form, NEW n \in Places
  PROVE  /\ DOMAIN code = Places /\ Len(code) \in Nat
         /\ code[n].uses \in Seq(Operands) /\ Len(code[n].uses) \in 0..4
         /\ DOMAIN code[n].uses = 1..Len(code[n].uses)
<1>1. DOMAIN code = Places /\ Len(code) \in Nat
  BY LenProperties DEF Form, Places
<1>2. code[n].uses \in Seq(Operands) /\ Len(code[n].uses) <= 4
  BY DEF Form, IsInstruction
<1>3. \A u \in Seq(Operands) : Len(u) <= 4 => Len(u) \in 0..4 /\ DOMAIN u = 1..Len(u)
  <2>1. \A u \in Seq(Operands) : Len(u) \in Nat /\ DOMAIN u = 1..Len(u)
    BY LenProperties
  <2>2. \A m \in Nat : m <= 4 => m \in 0..4
    OBVIOUS
  <2> QED
    BY <2>1, <2>2
<1> QED
  BY <1>1, <1>2, <1>3

(* What Uses counts, in terms of the places of the block.                  *)
LEMMA OnceIs ==
  ASSUME Form, NEW r, NEW n \in Places, NEW k \in 1..4, UsedAt(n, k, r)
  PROVE  Once(r) <=> Uses(code, exported, r) = 1
<1>1. code \in Seq(ToSet(code)) /\ n \in DOMAIN code
  BY UsesBounds DEF Form
<1>2. \A m \in Places, l \in 1..4 :
        m \in DOMAIN code /\ (UsedAt(m, l, r) <=> l \in DOMAIN code[m].uses /\ code[m].uses[l] = r)
  BY UsesBounds DEF UsedAt
<1>3. DOMAIN code = Places
  BY UsesBounds
<1>4. ASSUME Uses(code, exported, r) = 1 PROVE Once(r)
  <2>1. /\ r \notin exported
        /\ \A m \in DOMAIN code, l \in 1..4 :
             l \in DOMAIN code[m].uses /\ code[m].uses[l] = r => m = n /\ l = k
    BY <1>1, <1>2, <1>4, OneUse
  <2>2. \A m \in Places, l \in 1..4 : UsedAt(m, l, r) => m = n /\ l = k
    BY <1>2, <2>1
  <2> QED
    BY <2>1, <2>2 DEF Once
<1>5. ASSUME Once(r) PROVE Uses(code, exported, r) = 1
  <2>1. \A m \in Places, l \in 1..4 : UsedAt(m, l, r) => m = n /\ l = k
    BY <1>5 DEF Once
  <2>2. \A m \in DOMAIN code, l \in 1..4 :
          l \in DOMAIN code[m].uses /\ code[m].uses[l] = r => m = n /\ l = k
    BY <1>2, <1>3, <2>1
  <2>3. r \notin exported
    BY <1>5 DEF Once
  <2> QED
    BY <1>1, <1>2, <2>2, <2>3, UsedOnce
<1> QED
  BY <1>4, <1>5

LEMMA InitIInv == Init => IInv
<1> SUFFICES ASSUME Init PROVE IInv
  OBVIOUS
<1>1. Form /\ Assigned /\ at = 1 /\ peepholeMap = <<>>
  BY InitForm
<1>2. KillsOnce
  <2> SUFFICES ASSUME NEW n \in Places, NEW k \in code[n].kills
               PROVE  /\ k \in 1..Len(code[n].uses) /\ code[n].uses[k] \in Registers
                      /\ Once(code[n].uses[k])
    BY DEF KillsOnce
  <2>1. k \in 1..Len(code[n].uses) /\ code[n].kills \subseteq 1..Len(code[n].uses)
    BY InitForm
  <2>2. code[n].uses[k] \in Registers /\ Uses(code, exported, code[n].uses[k]) = 1
    BY <2>1, InitForm
  <2>3. k \in 1..4 /\ UsedAt(n, k, code[n].uses[k])
    <3>1. Len(code[n].uses) \in 0..4
      BY <1>1, UsesBounds
    <3>2. \A m \in 0..4 : 1..m \subseteq 1..4
      OBVIOUS
    <3>3. k \in 1..4
      BY <2>1, <3>1, <3>2
    <3> QED
      BY <2>1, <3>3 DEF UsedAt
  <2> QED
    BY <1>1, <2>1, <2>2, <2>3, OnceIs
<1>3. FlagsComplete
  <2> SUFFICES ASSUME NEW n \in Places, NEW j \in Places, IsTest(n), IsAnd(j),
                      code[n].uses[1] = Result(j), Once(Result(j))
               PROVE  1 \in code[n].kills
    BY DEF FlagsComplete
  <2>1. Len(code[n].uses) = 2
    BY <1>1 DEF IsTest, Form, IsInstruction
  <2>2. UsedAt(n, 1, Result(j))
    BY <2>1 DEF UsedAt
  <2>3. Uses(code, exported, Result(j)) = 1
    BY <1>1, <2>2, OnceIs
  <2> QED
    BY <2>3, InitForm
<1>4. Places \subseteq Nat \ {0}
  BY DEF Places
<1>5. \A n \in Places : ~(n < at)
  BY <1>1, <1>4
<1>6. DOMAIN peepholeMap = {}
  BY <1>1
<1> QED
  BY <1>1, <1>2, <1>3, <1>5, <1>6 DEF IInv, MapKept, AndsKnown, NoneLeft

-----------------------------------------------------------------------------
(* The branch at the iterator *)

LEMMA HereIs ==
  ASSUME Form, at <= Len(code)
  PROVE  at \in Places /\ Here = code[at] /\ IsInstruction(Here)
<1>1. at \in Places
  BY UsesBounds, LenProperties DEF Form, Places
<1> QED
  BY <1>1 DEF Form, Here

(* What a branch that matches tests is defined by an AND before it, which  *)
(* is the one in the map, and used nowhere else.                           *)
LEMMA MatchFacts ==
  ASSUME IInv, at <= Len(code), Matches(Here)
  PROVE  LET r == Here.uses[1]
         IN  /\ at \in Places /\ Here.uses = <<r, Zero>> /\ Here.op = "BR_CC"
             /\ r \in Registers /\ r \in DOMAIN peepholeMap
             /\ UsedAt(at, 1, r) /\ Once(r)
             /\ \E j \in Places : j < at /\ code[j] = peepholeMap[r]
<1> DEFINE r == Here.uses[1]
<1>1. at \in Places /\ Here = code[at] /\ IsInstruction(Here) /\ Form /\ KillsOnce /\ MapKept
  BY HereIs DEF IInv
<1>2. Here.op = "BR_CC" /\ Here.uses[2] = Zero /\ 1 \in Here.kills /\ r \in DOMAIN peepholeMap
  BY DEF Matches
<1>3. Len(Here.uses) = 2 /\ Here.uses \in Seq(Operands)
  BY <1>1, <1>2 DEF IsInstruction
<1>4. Here.uses = <<r, Zero>>
  BY <1>2, <1>3
<1>5. r \in Registers /\ Once(r)
  BY <1>1, <1>2 DEF KillsOnce
<1>6. UsedAt(at, 1, r)
  BY <1>1, <1>3 DEF UsedAt
<1>7. \E j \in Places : j < at /\ code[j] = peepholeMap[r]
  BY <1>1, <1>2, <1>6 DEF MapKept
<1> QED
  BY <1>1, <1>2, <1>4, <1>5, <1>6, <1>7

(* The iterator moves on over a block that stays.                          *)
LEMMA StillCode ==
  ASSUME IInv, at <= Len(code), at' = at + 1, UNCHANGED <<exported, code>>
  PROVE  Form' /\ Assigned' /\ KillsOnce' /\ FlagsComplete'
<1>1. Form /\ Assigned /\ KillsOnce /\ FlagsComplete
  BY DEF IInv
<1>2. Len(code) \in Nat /\ at \in Nat
  BY <1>1, LenProperties DEF Form
<1>3. at' \in 1..(Len(code) + 1)
  BY <1>1, <1>2 DEF Form
<1>4. Form'
  BY <1>1, <1>3 DEF Form, Places
<1>5. Assigned'
  BY <1>1 DEF Assigned, Places, DefinedAt, UsedAt
<1>6. KillsOnce'
  BY <1>1 DEF KillsOnce, Once, Places, UsedAt
<1>7. FlagsComplete'
  BY <1>1 DEF FlagsComplete, Once, Places, UsedAt, IsTest, IsAnd, Result
<1> QED
  BY <1>4, <1>5, <1>6, <1>7

(* What the iterator has passed stays passed.                              *)
LEMMA StillPassed ==
  ASSUME IInv, at <= Len(code), at' = at + 1, UNCHANGED <<exported, code>>
  PROVE  /\ Places' = Places /\ at \in Places
         /\ \A n \in Places : n < at' <=> n < at \/ n = at
         /\ \A n \in Places, k \in 1..4 : \A r : UsedAt(n, k, r)' <=> UsedAt(n, k, r)
         /\ \A n \in Places : /\ IsAnd(n)' <=> IsAnd(n)
                              /\ IsTest(n)' <=> IsTest(n)
                              /\ Result(n)' = Result(n)
<1>1. at \in Places /\ at \in Nat
  BY HereIs DEF IInv, Form, Places
<1>2. Places' = Places /\ Places \subseteq Nat
  BY DEF Places
<1>3. \A n \in Places : n < at' <=> n < at \/ n = at
  BY <1>1, <1>2
<1> QED
  BY <1>1, <1>2, <1>3 DEF UsedAt, IsAnd, IsTest, Result, Places

LEMMA VisitAndIInv == IInv /\ VisitAnd => IInv'
<1> SUFFICES ASSUME IInv, VisitAnd PROVE IInv'
  OBVIOUS
<1> DEFINE q == Result(at)
<1>1. /\ at <= Len(code) /\ at' = at + 1 /\ UNCHANGED <<exported, code>>
      /\ peepholeMap' = Mapped(q, Here) /\ Here.op = "AND"
  BY DEF VisitAnd, Here, Result
<1>2. Form' /\ Assigned' /\ KillsOnce' /\ FlagsComplete'
  BY <1>1, StillCode
<1>3. /\ Places' = Places /\ at \in Places
      /\ \A n \in Places : n < at' <=> n < at \/ n = at
      /\ \A n \in Places, k \in 1..4 : \A r : UsedAt(n, k, r)' <=> UsedAt(n, k, r)
      /\ \A n \in Places : /\ IsAnd(n)' <=> IsAnd(n)
                           /\ IsTest(n)' <=> IsTest(n)
                           /\ Result(n)' = Result(n)
  BY <1>1, StillPassed
<1>4. Here = code[at] /\ Here.defs = <<q>> /\ IsAnd(at) /\ ~IsTest(at)
  BY <1>1, HereIs DEF IInv, IsInstruction, IsAnd, IsTest, Result
<1>5. /\ DOMAIN peepholeMap' = DOMAIN peepholeMap \cup {q}
      /\ peepholeMap'[q] = code[at]
      /\ \A s \in DOMAIN peepholeMap \ {q} : peepholeMap'[s] = peepholeMap[s]
  BY <1>1, <1>4 DEF Mapped
<1>6. MapKept /\ AndsKnown /\ NoneLeft
  BY DEF IInv
<1>7. MapKept'
  <2> SUFFICES ASSUME NEW r \in DOMAIN peepholeMap'
               PROVE  /\ peepholeMap'[r].op = "AND" /\ peepholeMap'[r].defs = <<r>>
                      /\ \/ \E j \in Places' : j < at' /\ code'[j] = peepholeMap'[r]
                         \/ \A n \in Places', k \in 1..4 : ~UsedAt(n, k, r)'
    BY DEF MapKept
  <2>1. CASE r = q
    BY <1>1, <1>3, <1>4, <1>5, <2>1
  <2>2. CASE r # q
    <3>1. r \in DOMAIN peepholeMap /\ peepholeMap'[r] = peepholeMap[r]
      BY <1>5, <2>2
    <3> QED
      BY <1>1, <1>3, <1>6, <3>1 DEF MapKept
  <2> QED
    BY <2>1, <2>2
<1>8. AndsKnown'
  <2> SUFFICES ASSUME NEW j \in Places, IsAnd(j), j < at'
               PROVE  \/ Result(j) \in DOMAIN peepholeMap'
                      \/ \A n \in Places, k \in 1..4 : UsedAt(n, k, Result(j)) => n < at'
    BY <1>3 DEF AndsKnown
  <2> QED
    BY <1>3, <1>5, <1>6 DEF AndsKnown
<1>9. NoneLeft'
  BY <1>1, <1>3, <1>4, <1>6 DEF NoneLeft
<1> QED
  BY <1>2, <1>7, <1>8, <1>9 DEF IInv

LEMMA ForgetIInv == IInv /\ Forget => IInv'
<1> SUFFICES ASSUME IInv, Forget PROVE IInv'
  OBVIOUS
<1> DEFINE q == Here.uses[1]
<1>1. /\ at <= Len(code) /\ at' = at + 1 /\ UNCHANGED <<exported, code>> /\ Matches(Here)
      /\ Here.cc \notin {"E", "NE"}
      /\ peepholeMap' = [r \in DOMAIN peepholeMap \ {q} |-> peepholeMap[r]]
  BY DEF Forget
<1>2. Form' /\ Assigned' /\ KillsOnce' /\ FlagsComplete'
  BY <1>1, StillCode
<1>3. /\ Places' = Places /\ at \in Places
      /\ \A n \in Places : n < at' <=> n < at \/ n = at
      /\ \A n \in Places, k \in 1..4 : \A r : UsedAt(n, k, r)' <=> UsedAt(n, k, r)
      /\ \A n \in Places : /\ IsAnd(n)' <=> IsAnd(n)
                           /\ IsTest(n)' <=> IsTest(n)
                           /\ Result(n)' = Result(n)
  BY <1>1, StillPassed
<1>4. Here.op = "BR_CC" /\ UsedAt(at, 1, q) /\ Once(q)
  BY <1>1, MatchFacts
<1>5. ~IsAnd(at) /\ ~IsTest(at)
  BY <1>1, <1>4 DEF IsAnd, IsTest, Here
<1>6. MapKept /\ AndsKnown /\ NoneLeft
  BY DEF IInv
<1>7. MapKept'
  <2> SUFFICES ASSUME NEW r \in DOMAIN peepholeMap'
               PROVE  /\ peepholeMap'[r].op = "AND" /\ peepholeMap'[r].defs = <<r>>
                      /\ \/ \E j \in Places' : j < at' /\ code'[j] = peepholeMap'[r]
                         \/ \A n \in Places', k \in 1..4 : ~UsedAt(n, k, r)'
    BY DEF MapKept
  <2>1. r \in DOMAIN peepholeMap /\ peepholeMap'[r] = peepholeMap[r]
    BY <1>1
  <2> QED
    BY <1>1, <1>3, <1>6, <2>1 DEF MapKept
<1>8. AndsKnown'
  <2> SUFFICES ASSUME NEW j \in Places, IsAnd(j), j < at'
               PROVE  \/ Result(j) \in DOMAIN peepholeMap'
                      \/ \A n \in Places, k \in 1..4 : UsedAt(n, k, Result(j)) => n < at'
    BY <1>3 DEF AndsKnown
  <2>1. j < at
    BY <1>3, <1>5
  <2>2. CASE Result(j) = q
    <3>1. \A n \in Places, k \in 1..4 : UsedAt(n, k, q) => n = at
      BY <1>3, <1>4 DEF Once
    <3> QED
      BY <1>3, <2>2, <3>1
  <2>3. CASE Result(j) # q
    BY <1>1, <1>3, <1>6, <2>1, <2>3 DEF AndsKnown
  <2> QED
    BY <2>2, <2>3
<1>9. NoneLeft'
  BY <1>1, <1>3, <1>5, <1>6 DEF NoneLeft
<1> QED
  BY <1>2, <1>7, <1>8, <1>9 DEF IInv

LEMMA PassIInv == IInv /\ Pass => IInv'
<1> SUFFICES ASSUME IInv, Pass PROVE IInv'
  OBVIOUS
<1>1. /\ at <= Len(code) /\ at' = at + 1 /\ UNCHANGED <<exported, code>> /\ peepholeMap' = peepholeMap
      /\ Here.op # "AND" /\ ~Matches(Here)
  BY DEF Pass
<1>2. Form' /\ Assigned' /\ KillsOnce' /\ FlagsComplete'
  BY <1>1, StillCode
<1>3. /\ Places' = Places /\ at \in Places
      /\ \A n \in Places : n < at' <=> n < at \/ n = at
      /\ \A n \in Places, k \in 1..4 : \A r : UsedAt(n, k, r)' <=> UsedAt(n, k, r)
      /\ \A n \in Places : /\ IsAnd(n)' <=> IsAnd(n)
                           /\ IsTest(n)' <=> IsTest(n)
                           /\ Result(n)' = Result(n)
  BY <1>1, StillPassed
<1>4. ~IsAnd(at)
  BY <1>1 DEF IsAnd, Here
<1>5. Form /\ Assigned /\ MapKept /\ AndsKnown /\ NoneLeft
  BY DEF IInv
<1>6. MapKept'
  BY <1>1, <1>3, <1>5 DEF MapKept
<1>7. AndsKnown'
  <2> SUFFICES ASSUME NEW j \in Places, IsAnd(j), j < at'
               PROVE  \/ Result(j) \in DOMAIN peepholeMap
                      \/ \A n \in Places, k \in 1..4 : UsedAt(n, k, Result(j)) => n < at'
    BY <1>1, <1>3 DEF AndsKnown
  <2>1. j < at
    BY <1>3, <1>4
  <2> QED
    BY <1>3, <1>5, <2>1 DEF AndsKnown
<1>8. ASSUME IsTest(at), code[at].uses[2] = Zero, 1 \in code[at].kills,
             NEW j \in Places, IsAnd(j), Result(j) = code[at].uses[1]
      PROVE  FALSE
  <2>1. Result(j) \notin DOMAIN peepholeMap
    BY <1>1, <1>8 DEF Matches, IsTest, Here
  <2>2. UsedAt(at, 1, Result(j))
    <3>1. Len(code[at].uses) = 2
      BY <1>3, <1>5, <1>8 DEF IsTest, Form, IsInstruction
    <3> QED
      BY <1>3, <1>8, <3>1 DEF UsedAt
  <2>3. DefinedAt(j, Result(j)) /\ Result(j) \in Registers \ {EX}
    BY <1>5, <1>8, AndDefines
  <2>4. j < at
    BY <1>3, <1>5, <2>2, <2>3 DEF Assigned
  <2>5. \A n \in Places, k \in 1..4 : UsedAt(n, k, Result(j)) => n < at
    BY <1>5, <1>8, <2>1, <2>4 DEF AndsKnown
  <2>6. at < at /\ at \in Int
    BY <1>3, <1>5, <2>2, <2>5 DEF Form
  <2> QED
    BY <2>6
<1>9. NoneLeft'
  <2> SUFFICES ASSUME NEW n \in Places, IsTest(n), n < at', code[n].uses[2] = Zero, 1 \in code[n].kills,
                      NEW j \in Places, IsAnd(j)
               PROVE  Result(j) # code[n].uses[1]
    BY <1>1, <1>3 DEF NoneLeft
  <2>1. CASE n = at
    BY <1>8, <2>1
  <2>2. CASE n < at
    BY <1>5, <2>2 DEF NoneLeft
  <2> QED
    BY <1>3, <2>1, <2>2
<1> QED
  BY <1>2, <1>6, <1>7, <1>9 DEF IInv

-----------------------------------------------------------------------------
(* An AND is fused *)

(* Without the instruction at j: where an instruction was, and where its   *)
(* operands were when the branch, now at a - 1, has those of the AND.      *)
Old(j, n) == IF n < j THEN n ELSE n + 1

From(j, a, n) == IF n = a - 1 THEN j ELSE Old(j, n)

Shifted(len, a, j) ==
  /\ \A n \in 1..(len - 1) :
       /\ From(j, a, n) \in (1..len) \ {a}
       /\ From(j, a, n) < a => n < a
  /\ \A n \in (1..(len - 1)) \ {a - 1} :
       /\ Old(j, n) \in (1..len) \ {j, a} /\ From(j, a, n) = Old(j, n)
       /\ n < a => Old(j, n) < a
       /\ Old(j, n) < j => n < a - 1
  /\ \A m, n \in 1..(len - 1) :
       /\ From(j, a, m) = From(j, a, n) => m = n
       /\ Old(j, m) = Old(j, n) => m = n
       /\ Old(j, m) < Old(j, n) => m < n
  /\ \A m \in (1..len) \ {a} : \E n \in 1..(len - 1) : From(j, a, n) = m
  /\ \A m \in (1..len) \ {j, a} :
       \E n \in (1..(len - 1)) \ {a - 1} : Old(j, n) = m /\ (m < a => n < a)

LEMMA Shift ==
  ASSUME NEW len \in Nat, NEW a \in 1..len, NEW j \in 1..len, j < a
  PROVE  Shifted(len, a, j) /\ a - 1 \in 1..(len - 1) /\ a \in 1..((len - 1) + 1)
<1> USE DEF Old, From
<1>1. a - 1 \in 1..(len - 1) /\ a \in 1..((len - 1) + 1)
  OBVIOUS
<1>2. ASSUME NEW n \in 1..(len - 1)
      PROVE  From(j, a, n) \in (1..len) \ {a} /\ (From(j, a, n) < a => n < a)
  OBVIOUS
<1>3. ASSUME NEW n \in (1..(len - 1)) \ {a - 1}
      PROVE  /\ Old(j, n) \in (1..len) \ {j, a} /\ From(j, a, n) = Old(j, n)
             /\ n < a => Old(j, n) < a
             /\ Old(j, n) < j => n < a - 1
  OBVIOUS
<1>4. ASSUME NEW m \in 1..(len - 1), NEW n \in 1..(len - 1)
      PROVE  /\ From(j, a, m) = From(j, a, n) => m = n
             /\ Old(j, m) = Old(j, n) => m = n
             /\ Old(j, m) < Old(j, n) => m < n
  OBVIOUS
<1>5. ASSUME NEW m \in (1..len) \ {j, a}
      PROVE  \E n \in (1..(len - 1)) \ {a - 1} : Old(j, n) = m /\ (m < a => n < a)
  <2>1. PICK n \in Int : n = IF m < j THEN m ELSE m - 1
    OBVIOUS
  <2>2. n \in (1..(len - 1)) \ {a - 1} /\ Old(j, n) = m /\ (m < a => n < a)
    BY <2>1
  <2> QED
    BY <2>2
<1>6. ASSUME NEW m \in (1..len) \ {a}
      PROVE  \E n \in 1..(len - 1) : From(j, a, n) = m
  <2>1. CASE m = j
    BY <1>1, <2>1
  <2>2. CASE m # j
    BY <1>3, <1>5, <2>2
  <2> QED
    BY <2>1, <2>2
<1> HIDE DEF Old, From
<1> QED
  BY <1>1, <1>2, <1>3, <1>4, <1>5, <1>6 DEF Shifted

(* The branch at the iterator takes the place of the AND at j.             *)
Fusing(j) ==
  /\ j < at /\ at \in Places /\ IsAnd(j) /\ Once(Result(j))
  /\ code[at].op = "BR_CC" /\ code[at].uses = <<Result(j), Zero>>
  /\ UsedAt(at, 1, Result(j)) /\ Result(j) \in DOMAIN peepholeMap
  /\ at' = at /\ exported' = exported /\ peepholeMap' = peepholeMap
  /\ code' \in Seq(ToSet(code')) /\ Len(code') = Len(code) - 1
  /\ \A n \in Places' \ {at - 1} : code'[n] = code[Old(j, n)]
  /\ code'[at - 1] = swapOptBrcc(code[at], code[j])

LEMMA FuseIs ==
  ASSUME IInv, Fuse
  PROVE  \E j \in Places : Fusing(j)
<1> DEFINE r == Here.uses[1]
<1>1. /\ at <= Len(code) /\ Matches(Here) /\ Here = code[at]
      /\ at' = at /\ exported' = exported /\ peepholeMap' = peepholeMap
  BY DEF Fuse, Here
<1>2. /\ at \in Places /\ Here.uses = <<r, Zero>> /\ Here.op = "BR_CC"
      /\ r \in Registers /\ r \in DOMAIN peepholeMap /\ UsedAt(at, 1, r) /\ Once(r)
      /\ \E j \in Places : j < at /\ code[j] = peepholeMap[r]
  BY <1>1, MatchFacts
<1>3. Form /\ Assigned /\ MapKept /\ DOMAIN code = Places /\ Len(code) \in Nat /\ Places = 1..Len(code)
  BY <1>2, UsesBounds DEF IInv, Places
<1>4. PICK j \in Places : /\ code[j] = peepholeMap[r]
                          /\ code' = RemoveAt([code EXCEPT ![at] = swapOptBrcc(Here, code[j])], j)
  BY <1>3 DEF Fuse
<1>5. IsAnd(j) /\ Result(j) = r
  BY <1>2, <1>3, <1>4 DEF MapKept, IsAnd, Result
<1>6. j < at
  <2>1. DefinedAt(j, r) /\ r \in Registers \ {EX}
    BY <1>3, <1>5, AndDefines
  <2> QED
    BY <1>2, <1>3, <2>1 DEF Assigned
<1> DEFINE br == swapOptBrcc(code[at], code[j])
           S == ToSet(code) \cup {br}
           d == [code EXCEPT ![at] = br]
<1>7. /\ d \in Seq(S) /\ Len(d) = Len(code)
      /\ \A n \in 1..Len(code) : d[n] = IF n = at THEN br ELSE code[n]
  <2>1. code \in Seq(S) /\ br \in S /\ at \in 1..Len(code)
    BY <1>2, <1>3, SeqMonotonic DEF Form
  <2> HIDE DEF br, S
  <2> QED
    BY <2>1, ExceptSeq
<1>8. code' = RemoveAt(d, j)
  BY <1>1, <1>4
<1> HIDE DEF br, S, d
<1>9. /\ code' \in Seq(S) /\ Len(code') = Len(code) - 1
      /\ \A n \in 1..(Len(code) - 1) : code'[n] = IF n < j THEN d[n] ELSE d[n + 1]
  <2>1. j \in 1..Len(d)
    BY <1>3, <1>7
  <2> QED
    BY <1>7, <1>8, <2>1, Removed
<1>10. Places' = 1..(Len(code) - 1)
  BY <1>9 DEF Places
<1>11. PICK len \in Nat : len = Len(code)
  BY <1>3
<1>12. /\ at - 1 \in 1..(len - 1)
       /\ \A n \in (1..(len - 1)) \ {at - 1} : Old(j, n) \in (1..len) \ {j, at}
  BY <1>2, <1>3, <1>6, <1>11, Shift DEF Shifted
<1>13. \A n \in 1..(len - 1) : code'[n] = d[Old(j, n)]
  BY <1>9, <1>11 DEF Old
<1>14. ASSUME NEW n \in Places' \ {at - 1} PROVE code'[n] = code[Old(j, n)]
  BY <1>7, <1>10, <1>11, <1>12, <1>13
<1>15. code'[at - 1] = br
  <2>1. Old(j, at - 1) = at /\ at \in 1..len
    BY <1>2, <1>3, <1>6, <1>11 DEF Old
  <2> QED
    BY <1>7, <1>11, <1>12, <1>13, <2>1
<1>16. code' \in Seq(ToSet(code'))
  <2>1. code' \in [1..Len(code') -> ToSet(code')] /\ Len(code') \in Nat
    <3>1. DOMAIN code' = 1..Len(code') /\ Len(code') \in Nat /\ code' \in [1..Len(code') -> S]
      BY <1>9, LenProperties
    <3> QED
      BY <3>1 DEF ToSet
  <2> QED
    BY <2>1
<1> QED
  BY <1>1, <1>2, <1>5, <1>6, <1>9, <1>14, <1>15, <1>16 DEF Fusing, br

LEMMA FusedPlaces ==
  ASSUME Form, NEW j \in Places, Fusing(j)
  PROVE  /\ at - 1 \in Places' /\ at' \in 1..(Len(code') + 1)
         /\ \A n \in Places' :
              /\ From(j, at, n) \in Places \ {at}
              /\ From(j, at, n) < at => n < at
         /\ \A n \in Places' \ {at - 1} :
              /\ Old(j, n) \in Places \ {j, at} /\ From(j, at, n) = Old(j, n)
              /\ n < at => Old(j, n) < at
              /\ Old(j, n) < j => n < at - 1
         /\ \A m, n \in Places' :
              /\ From(j, at, m) = From(j, at, n) => m = n
              /\ Old(j, m) = Old(j, n) => m = n
              /\ Old(j, m) < Old(j, n) => m < n
         /\ \A m \in Places \ {at} : \E n \in Places' : From(j, at, n) = m
         /\ \A m \in Places \ {j, at} :
              \E n \in Places' \ {at - 1} : Old(j, n) = m /\ (m < at => n < at)
<1>1. at \in Places /\ j < at /\ at' = at /\ Len(code') = Len(code) - 1
  BY DEF Fusing
<1>2. PICK len \in Nat : len = Len(code)
  BY UsesBounds
<1>3. Places = 1..len /\ Places' = 1..(len - 1)
  BY <1>1, <1>2 DEF Places
<1>4. at' = at /\ Len(code') = len - 1 /\ at \in 1..len /\ j \in 1..len /\ j < at
  BY <1>1, <1>2, <1>3
<1>5. at - 1 \in 1..(len - 1) /\ at \in 1..((len - 1) + 1)
  BY <1>4
<1>6. at' \in 1..(Len(code') + 1)
  BY <1>4, <1>5
<1>7. Shifted(len, at, j)
  BY <1>4, Shift
<1> QED
  BY <1>3, <1>5, <1>6, <1>7 DEF Shifted

LEMMA FusedCode ==
  ASSUME Form, NEW j \in Places, Fusing(j)
  PROVE  /\ \A n \in Places' : /\ code'[n].uses = code[From(j, at, n)].uses
                               /\ code'[n].kills = code[From(j, at, n)].kills
         /\ \A n \in Places' \ {at - 1} : code'[n] = code[Old(j, n)]
         /\ code'[at - 1].op = "BR_CC" /\ code'[at - 1].cc \in {"B", "C"}
         /\ code'[at - 1].defs = <<>> /\ IsInstruction(code'[at - 1])
<1>1. /\ at \in Places /\ IsAnd(j) /\ code[at].op = "BR_CC" /\ at \in Int
      /\ code'[at - 1] = swapOptBrcc(code[at], code[j])
      /\ \A n \in Places' \ {at - 1} : code'[n] = code[Old(j, n)]
  BY DEF Fusing, Form
<1>2. IsInstruction(code[at]) /\ IsInstruction(code[j]) /\ code[j].op = "AND"
  BY <1>1 DEF Form, IsAnd
<1> DEFINE b == code[at]
           c == code[j]
           e == swapOptBrcc(b, c)
<1>3. /\ b \in [op : {b.op}, cc : {b.cc}, defs : Seq(Registers), uses : Seq(Operands),
                addr : {b.addr}, target : {b.target}, kills : SUBSET Nat]
      /\ c.uses \in Seq(Operands) /\ c.kills \in SUBSET Nat /\ Len(c.uses) = 2
      /\ b.op = "BR_CC" /\ b.defs = <<>>
  BY <1>1, <1>2 DEF IsInstruction
<1> HIDE DEF b, c
<1>4. /\ e.op = "BR_CC" /\ e.cc \in {"B", "C"} /\ e.defs = <<>>
      /\ e.uses = c.uses /\ e.kills = c.kills /\ e.addr = b.addr /\ e.target = b.target
      /\ e \in [op : {e.op}, cc : {e.cc}, defs : Seq(Registers), uses : Seq(Operands),
                addr : {e.addr}, target : {e.target}, kills : SUBSET Nat]
  <2> DEFINE cc == IF b.cc = "NE" THEN "B" ELSE "C"
             uses == c.uses
             kills == c.kills
  <2>1. cc \in {"B", "C"} /\ uses \in Seq(Operands) /\ kills \in SUBSET Nat
    BY <1>3
  <2>2. e = [b EXCEPT !.cc = cc, !.uses = uses, !.kills = kills]
    BY DEF swapOptBrcc
  <2> HIDE DEF cc, uses, kills, e
  <2>3. e.op = b.op /\ e.defs = b.defs /\ e.addr = b.addr /\ e.target = b.target
        /\ e.cc = cc /\ e.uses = uses /\ e.kills = kills
    BY <1>3, <2>2
  <2>4. e \in [op : {e.op}, cc : {e.cc}, defs : Seq(Registers), uses : Seq(Operands),
                addr : {e.addr}, target : {e.target}, kills : SUBSET Nat]
    BY <1>3, <2>1, <2>2, <2>3
  <2> QED
    BY <1>3, <2>1, <2>3, <2>4 DEF uses, kills
<1> HIDE DEF e
<1>5. IsInstruction(e)
  <2>1. Len(e.uses) = 2 /\ e.op # "AND" /\ e.defs = <<>>
    BY <1>3, <1>4
  <2>2. e \in [op : {e.op}, cc : {e.cc}, defs : Seq(Registers), uses : Seq(Operands),
                addr : {e.addr}, target : {e.target}, kills : SUBSET Nat]
    BY <1>4
  <2> QED
    BY <2>1, <2>2 DEF IsInstruction
<1>6. code'[at - 1] = e
  BY <1>1 DEF b, c, e
<1>7. ASSUME NEW n \in Places'
      PROVE  /\ code'[n].uses = code[From(j, at, n)].uses
             /\ code'[n].kills = code[From(j, at, n)].kills
  <2>1. CASE n = at - 1
    BY <1>4, <1>6, <2>1 DEF From, c
  <2>2. CASE n # at - 1
    BY <1>1, <2>2 DEF From
  <2> QED
    BY <2>1, <2>2
<1> QED
  BY <1>1, <1>4, <1>5, <1>6, <1>7

(* How the facts of the invariant are about the block after the step.      *)
LEMMA FusedFacts ==
  ASSUME Form, NEW j \in Places, Fusing(j)
  PROVE  /\ \A n \in Places', k \in 1..4 : \A r : UsedAt(n, k, r)' <=> UsedAt(From(j, at, n), k, r)
         /\ \A n \in Places' : \A r : DefinedAt(n, r)' <=> n # at - 1 /\ DefinedAt(Old(j, n), r)
         /\ \A n \in Places' : IsAnd(n)' <=> n # at - 1 /\ IsAnd(Old(j, n))
         /\ \A n \in Places' : IsTest(n)' <=> n # at - 1 /\ IsTest(Old(j, n))
         /\ \A n \in Places' \ {at - 1} : Result(n)' = Result(Old(j, n))
         /\ \A r : Once(r) => Once(r)'
<1>1. /\ \A n \in Places' : From(j, at, n) \in Places
      /\ \A n \in Places' \ {at - 1} : Old(j, n) \in Places
      /\ \A m, n \in Places' : From(j, at, m) = From(j, at, n) => m = n
  BY FusedPlaces
<1>2. /\ \A n \in Places' : code'[n].uses = code[From(j, at, n)].uses
      /\ \A n \in Places' \ {at - 1} : code'[n] = code[Old(j, n)]
      /\ code'[at - 1].op = "BR_CC" /\ code'[at - 1].cc \in {"B", "C"} /\ code'[at - 1].defs = <<>>
  BY FusedCode
<1>3. ASSUME NEW n \in Places', NEW k \in 1..4, NEW r
      PROVE  UsedAt(n, k, r)' <=> UsedAt(From(j, at, n), k, r)
  BY <1>1, <1>2 DEF UsedAt
<1>4. ASSUME NEW n \in Places', NEW r
      PROVE  DefinedAt(n, r)' <=> n # at - 1 /\ DefinedAt(Old(j, n), r)
  <2>1. \A q : q \notin ToSet(<<>>)
    BY DEF ToSet
  <2> QED
    BY <1>1, <1>2, <2>1 DEF DefinedAt
<1>5. ASSUME NEW n \in Places' PROVE IsAnd(n)' <=> n # at - 1 /\ IsAnd(Old(j, n))
  BY <1>1, <1>2 DEF IsAnd
<1>6. ASSUME NEW n \in Places' PROVE IsTest(n)' <=> n # at - 1 /\ IsTest(Old(j, n))
  BY <1>1, <1>2 DEF IsTest
<1>7. ASSUME NEW n \in Places' \ {at - 1} PROVE Result(n)' = Result(Old(j, n))
  BY <1>2 DEF Result
<1>8. ASSUME NEW r, Once(r) PROVE Once(r)'
  <2>1. r \notin exported'
    BY <1>8 DEF Once, Fusing
  <2>2. ASSUME NEW m \in Places', NEW n \in Places', NEW k \in 1..4, NEW l \in 1..4,
               UsedAt(m, k, r)', UsedAt(n, l, r)'
        PROVE  m = n /\ k = l
    <3>1. UsedAt(From(j, at, m), k, r) /\ UsedAt(From(j, at, n), l, r)
      BY <1>3, <2>2
    <3>2. From(j, at, m) = From(j, at, n) /\ k = l
      BY <1>1, <1>8, <3>1 DEF Once
    <3> QED
      BY <1>1, <3>2
  <2> QED
    BY <2>1, <2>2 DEF Once
<1> QED
  BY <1>3, <1>4, <1>5, <1>6, <1>7, <1>8

LEMMA FusedForm ==
  ASSUME Form, NEW j \in Places, Fusing(j)
  PROVE  Form'
<1>1. code' \in Seq(ToSet(code')) /\ at' \in 1..(Len(code') + 1)
  BY FusedPlaces DEF Fusing
<1>2. ASSUME NEW n \in Places' PROVE IsInstruction(code'[n])
  <2>1. CASE n = at - 1
    BY <2>1, FusedCode
  <2>2. CASE n # at - 1
    <3>1. code'[n] = code[Old(j, n)] /\ Old(j, n) \in Places
      BY <2>2, FusedCode, FusedPlaces
    <3> QED
      BY <3>1 DEF Form
  <2> QED
    BY <2>1, <2>2
<1> QED
  BY <1>1, <1>2 DEF Form, IsInstruction

LEMMA FusedAssigned ==
  ASSUME Form, Assigned, NEW j \in Places, Fusing(j)
  PROVE  Assigned'
<1> SUFFICES ASSUME NEW r \in Registers \ {EX}, NEW n \in Places', DefinedAt(n, r)'
             PROVE  /\ \A m \in Places' : DefinedAt(m, r)' => m = n
                    /\ \A m \in Places', k \in 1..4 : UsedAt(m, k, r)' => n < m
  BY DEF Assigned
<1>1. n # at - 1 /\ DefinedAt(Old(j, n), r)
  BY FusedFacts
<1>2. Old(j, n) \in Places
  BY <1>1, FusedPlaces
<1>3. /\ \A m \in Places : DefinedAt(m, r) => m = Old(j, n)
      /\ \A m \in Places, k \in 1..4 : UsedAt(m, k, r) => Old(j, n) < m
  BY <1>1, <1>2 DEF Assigned
<1>4. ASSUME NEW m \in Places', DefinedAt(m, r)' PROVE m = n
  <2>1. m # at - 1 /\ DefinedAt(Old(j, m), r)
    BY <1>4, FusedFacts
  <2>2. Old(j, m) = Old(j, n)
    BY <1>3, <2>1, FusedPlaces
  <2> QED
    BY <2>2, FusedPlaces
<1>5. ASSUME NEW m \in Places', NEW k \in 1..4, UsedAt(m, k, r)' PROVE n < m
  <2>1. UsedAt(From(j, at, m), k, r) /\ From(j, at, m) \in Places
    BY <1>5, FusedFacts, FusedPlaces
  <2>2. Old(j, n) < From(j, at, m)
    BY <1>3, <2>1
  <2>3. CASE m = at - 1
    <3>1. Old(j, n) < j
      BY <2>2, <2>3 DEF From
    <3> QED
      BY <1>1, <2>3, <3>1, FusedPlaces
  <2>4. CASE m # at - 1
    <3>1. Old(j, n) < Old(j, m)
      BY <2>2, <2>4 DEF From
    <3> QED
      BY <3>1, FusedPlaces
  <2> QED
    BY <2>3, <2>4
<1> QED
  BY <1>4, <1>5

LEMMA FusedKills ==
  ASSUME Form, KillsOnce, NEW j \in Places, Fusing(j)
  PROVE  KillsOnce'
<1>1. ASSUME NEW n \in Places', NEW k \in code'[n].kills
      PROVE  \E r \in Registers : k \in 1..Len(code'[n].uses) /\ code'[n].uses[k] = r /\ Once(r)'
  <2> DEFINE m == From(j, at, n)
  <2>1. m \in Places /\ code'[n].uses = code[m].uses /\ code'[n].kills = code[m].kills
    BY FusedPlaces, FusedCode
  <2>2. k \in 1..Len(code[m].uses) /\ code[m].uses[k] \in Registers /\ Once(code[m].uses[k])
    BY <2>1 DEF KillsOnce
  <2>3. PICK r \in Registers : r = code[m].uses[k] /\ Once(r)
    BY <2>2
  <2>4. Once(r)'
    BY <2>3, FusedFacts
  <2> QED
    BY <2>1, <2>2, <2>3, <2>4
<1>2. ASSUME NEW n \in Places', NEW k \in code'[n].kills
      PROVE  k \in 1..Len(code'[n].uses) /\ code'[n].uses[k] \in Registers /\ Once(code[n].uses[k])'
  <2>1. PICK r \in Registers : k \in 1..Len(code'[n].uses) /\ code'[n].uses[k] = r /\ Once(r)'
    BY <1>1
  <2> QED
    BY <2>1 DEF Once, UsedAt
<1> QED
  BY <1>2 DEF KillsOnce

LEMMA FusedMap ==
  ASSUME Form, MapKept, NEW j \in Places, Fusing(j)
  PROVE  MapKept'
<1> SUFFICES ASSUME NEW r \in DOMAIN peepholeMap
             PROVE  /\ peepholeMap[r].op = "AND" /\ peepholeMap[r].defs = <<r>>
                    /\ \/ \E m \in Places' : m < at /\ code'[m] = peepholeMap[r]
                       \/ \A n \in Places', k \in 1..4 : ~UsedAt(n, k, r)'
  BY DEF MapKept, Fusing
<1>1. /\ j < at /\ at \in Places /\ IsAnd(j) /\ Once(Result(j)) /\ UsedAt(at, 1, Result(j))
  BY DEF Fusing
<1>2. /\ peepholeMap[r].op = "AND" /\ peepholeMap[r].defs = <<r>>
      /\ \/ \E m \in Places : m < at /\ code[m] = peepholeMap[r]
         \/ \A n \in Places, k \in 1..4 : ~UsedAt(n, k, r)
  BY DEF MapKept
<1>3. ASSUME NEW n \in Places', NEW k \in 1..4, UsedAt(n, k, r)'
      PROVE  /\ UsedAt(From(j, at, n), k, r) /\ From(j, at, n) \in Places \ {at}
  BY <1>3, FusedFacts, FusedPlaces
<1>4. CASE r = Result(j)
  <2>1. \A n \in Places, k \in 1..4 : UsedAt(n, k, r) => n = at
    BY <1>1, <1>4 DEF Once
  <2> QED
    BY <1>2, <1>3, <2>1
<1>5. CASE r # Result(j)
  <2>1. ASSUME NEW m \in Places, m < at, code[m] = peepholeMap[r]
        PROVE  \E n \in Places' : n < at /\ code'[n] = peepholeMap[r]
    <3>1. m # j
      BY <1>2, <1>5, <2>1 DEF Result
    <3>2. m # at
      BY <1>1, <2>1 DEF Form
    <3>3. PICK n \in Places' \ {at - 1} : Old(j, n) = m /\ n < at
      BY <2>1, <3>1, <3>2, FusedPlaces
    <3> QED
      BY <2>1, <3>3, FusedCode
  <2> QED
    BY <1>2, <1>3, <2>1
<1> QED
  BY <1>4, <1>5

LEMMA FusedKnown ==
  ASSUME Form, AndsKnown, NEW j \in Places, Fusing(j)
  PROVE  AndsKnown'
<1> SUFFICES ASSUME NEW m \in Places', IsAnd(m)', m < at
             PROVE  \/ Result(m)' \in DOMAIN peepholeMap
                    \/ \A n \in Places', k \in 1..4 : UsedAt(n, k, Result(m))' => n < at
  BY DEF AndsKnown, Fusing
<1> DEFINE l == Old(j, m)
<1>1. m # at - 1 /\ IsAnd(l)
  BY FusedFacts
<1>2. l \in Places /\ l < at /\ Result(m)' = Result(l)
  BY <1>1, FusedFacts, FusedPlaces
<1>3. \/ Result(l) \in DOMAIN peepholeMap
      \/ \A n \in Places, k \in 1..4 : UsedAt(n, k, Result(l)) => n < at
  BY <1>1, <1>2 DEF AndsKnown
<1>4. ASSUME \A n \in Places, k \in 1..4 : UsedAt(n, k, Result(l)) => n < at,
             NEW n \in Places', NEW k \in 1..4, UsedAt(n, k, Result(m))'
      PROVE  n < at
  <2>1. \E r : r = Result(l) /\ UsedAt(n, k, r)'
    BY <1>2, <1>4 DEF UsedAt
  <2>2. UsedAt(From(j, at, n), k, Result(l)) /\ From(j, at, n) \in Places
    BY <2>1, FusedFacts, FusedPlaces
  <2>3. From(j, at, n) < at
    BY <1>4, <2>2
  <2> QED
    BY <2>3, FusedPlaces
<1> QED
  BY <1>2, <1>3, <1>4

LEMMA FusedNoneLeft ==
  ASSUME Form, NoneLeft, NEW j \in Places, Fusing(j)
  PROVE  NoneLeft'
<1> SUFFICES ASSUME NEW n \in Places', IsTest(n)', n < at,
                    code'[n].uses[2] = Zero, 1 \in code'[n].kills,
                    NEW m \in Places', IsAnd(m)'
             PROVE  Result(m)' # code'[n].uses[1]
  BY DEF NoneLeft, Fusing
<1>1. n # at - 1 /\ m # at - 1 /\ IsTest(Old(j, n)) /\ IsAnd(Old(j, m))
  BY FusedFacts
<1>2. /\ Old(j, n) \in Places /\ Old(j, n) < at /\ code'[n] = code[Old(j, n)]
      /\ Old(j, m) \in Places /\ Result(m)' = Result(Old(j, m))
  BY <1>1, FusedFacts, FusedPlaces, FusedCode
<1> QED
  BY <1>1, <1>2 DEF NoneLeft

LEMMA FusedFlags ==
  ASSUME Form, Assigned, FlagsComplete, NEW j \in Places, Fusing(j)
  PROVE  FlagsComplete'
<1> SUFFICES ASSUME NEW n \in Places', NEW m \in Places', IsTest(n)', IsAnd(m)',
                    code'[n].uses[1] = Result(m)', Once(Result(m))'
             PROVE  1 \in code'[n].kills
  BY DEF FlagsComplete
<1> DEFINE l == Old(j, m)
<1>0. PICK r : r = Result(l)
  OBVIOUS
<1>1. n # at - 1 /\ m # at - 1 /\ IsTest(Old(j, n)) /\ IsAnd(l)
  BY FusedFacts
<1>2. /\ Old(j, n) \in Places /\ code'[n] = code[Old(j, n)]
      /\ l \in Places \ {j, at} /\ Result(m)' = r
  BY <1>0, <1>1, FusedFacts, FusedPlaces, FusedCode
<1>3. at \in Places /\ IsAnd(j) /\ code[at].uses = <<Result(j), Zero>> /\ exported' = exported
  BY DEF Fusing
<1>4. r \in Registers \ {EX} /\ DefinedAt(l, r) /\ DefinedAt(j, Result(j))
  BY <1>0, <1>1, <1>2, <1>3, AndDefines
<1>5. r # Result(j) /\ r # Zero
  <2>1. r # Result(j)
    BY <1>2, <1>4 DEF Assigned
  <2>2. Zero \notin Registers
    BY BranchAssumption, PeepholeAssumption
  <2> QED
    BY <1>4, <2>1, <2>2
<1>6. \A k \in 1..4 : ~UsedAt(at, k, r)
  <2>1. \A k \in 1..Len(code[at].uses) : code[at].uses[k] # r
    BY <1>3, <1>5
  <2> QED
    BY <2>1 DEF UsedAt
<1>7. Once(r)'
  BY <1>2 DEF Once, UsedAt
<1>8. ASSUME NEW p \in Places, NEW q \in Places, NEW k \in 1..4, NEW i \in 1..4,
             UsedAt(p, k, r), UsedAt(q, i, r)
      PROVE  p = q /\ k = i
  <2>1. p # at /\ q # at
    BY <1>6, <1>8
  <2>2. PICK s \in Places' : From(j, at, s) = p
    BY <2>1, FusedPlaces
  <2>3. PICK t \in Places' : From(j, at, t) = q
    BY <2>1, FusedPlaces
  <2>4. UsedAt(s, k, r)' /\ UsedAt(t, i, r)'
    BY <1>8, <2>2, <2>3, FusedFacts
  <2>5. s = t /\ k = i
    BY <1>7, <2>4 DEF Once
  <2> QED
    BY <2>2, <2>3, <2>5
<1>9. r \notin exported
  BY <1>3, <1>7 DEF Once
<1>10. Once(r)
  BY <1>8, <1>9 DEF Once
<1> QED
  BY <1>0, <1>1, <1>2, <1>10 DEF FlagsComplete

LEMMA FuseIInv == IInv /\ Fuse => IInv'
<1> SUFFICES ASSUME IInv, Fuse PROVE IInv'
  OBVIOUS
<1>1. PICK j \in Places : Fusing(j)
  BY FuseIs
<1>2. Form /\ Assigned /\ KillsOnce /\ MapKept /\ AndsKnown /\ NoneLeft /\ FlagsComplete
  BY DEF IInv
<1>3. Form' /\ Assigned' /\ KillsOnce'
  BY <1>1, <1>2, FusedForm, FusedAssigned, FusedKills
<1>4. MapKept' /\ AndsKnown' /\ NoneLeft' /\ FlagsComplete'
  BY <1>1, <1>2, FusedMap, FusedKnown, FusedNoneLeft, FusedFlags
<1> QED
  BY <1>3, <1>4 DEF IInv

-----------------------------------------------------------------------------
(* The theorems *)

LEMMA NextIInv == IInv /\ [Next]_vars => IInv'
<1>1. IInv /\ UNCHANGED vars => IInv'
  BY DEF vars, IInv, Form, Assigned, KillsOnce, MapKept, AndsKnown, NoneLeft, FlagsComplete,
         Once, Places, UsedAt, DefinedAt, IsAnd, IsTest, Result
<1> QED
  BY <1>1, VisitAndIInv, FuseIInv, ForgetIInv, PassIInv DEF Next

LEMMA UseIs ==
  ASSUME Form, NEW n \in Places, NEW k \in 1..Len(code[n].uses)
  PROVE  k \in 1..4 /\ UsedAt(n, k, code[n].uses[k])
<1>1. Len(code[n].uses) \in 0..4
  BY UsesBounds
<1>2. \A m \in 0..4 : 1..m \subseteq 1..4
  OBVIOUS
<1>3. k \in 1..4
  BY <1>1, <1>2
<1> QED
  BY <1>3 DEF UsedAt

LEMMA ReadsIs ==
  ASSUME Form, NEW n \in Places, NEW r \in ToSet(code[n].uses)
  PROVE  \E k \in 1..4 : UsedAt(n, k, r)
<1>1. DOMAIN code[n].uses = 1..Len(code[n].uses)
  BY UsesBounds
<1>2. PICK k \in 1..Len(code[n].uses) : r = code[n].uses[k]
  BY <1>1 DEF ToSet
<1> QED
  BY <1>2, UseIs

(* The inductive invariant holds for every block that selection makes and  *)
(* every choice of the values that other blocks use.                       *)
THEOREM PeepholeInvariant == Spec => []IInv
  BY InitIInv, NextIInv, PTL DEF Spec

(* The iterator stays in the block while it shrinks, and the map holds     *)
(* ANDs under the registers they define.                                   *)
THEOREM PeepholeTypeCorrect == Spec => []TypeOK
<1>1. IInv => TypeOK
  BY DEF IInv, Form, MapKept, TypeOK
<1> QED
  BY <1>1, PeepholeInvariant, PTL

(* A register that is killed is read by no later instruction and by no     *)
(* other block, although the pass moves the last use of the AND's operands *)
(* down to the branch.                                                     *)
THEOREM KillsStayLast == Spec => []KillsAreLast
<1>1. IInv => KillsAreLast
  <2> SUFFICES ASSUME IInv, NEW n \in DOMAIN code, NEW r \in Killed(code[n])
               PROVE  /\ r \notin exported
                      /\ \A j \in n + 1 .. Len(code) : r \notin ToSet(code[j].uses)
    BY DEF KillsAreLast
  <2>1. Form /\ KillsOnce /\ Len(code) \in Nat /\ DOMAIN code = Places /\ Places = 1..Len(code)
    <3>1. Form /\ KillsOnce
      BY DEF IInv
    <3>2. DOMAIN code = 1..Len(code) /\ Len(code) \in Nat
      BY <3>1, LenProperties DEF Form
    <3> QED
      BY <3>1, <3>2 DEF Places
  <2>2. PICK k \in code[n].kills : r = code[n].uses[k]
    BY DEF Killed
  <2>3. k \in 1..Len(code[n].uses) /\ Once(r)
    BY <2>1, <2>2 DEF KillsOnce
  <2>4. k \in 1..4 /\ UsedAt(n, k, r)
    BY <2>1, <2>2, <2>3, UseIs
  <2>5. ASSUME NEW j \in n + 1 .. Len(code), r \in ToSet(code[j].uses) PROVE FALSE
    <3>1. j \in Places /\ j # n
      BY <2>1
    <3>2. PICK l \in 1..4 : UsedAt(j, l, r)
      BY <2>1, <2>5, <3>1, ReadsIs
    <3> QED
      BY <2>1, <2>3, <2>4, <3>1, <3>2 DEF Once
  <2> QED
    BY <2>3, <2>5 DEF Once
<1> QED
  BY <1>1, PeepholeInvariant, PTL

(* The pass never follows a pointer to an AND that it has erased, although *)
(* the pointer stays in the map.                                           *)
THEOREM NeverDangling == Spec => []NoDangling
<1>1. IInv => NoDangling
  <2> SUFFICES ASSUME IInv, at <= Len(code), Matches(Here)
               PROVE  peepholeMap[Here.uses[1]] \in ToSet(code)
    BY DEF NoDangling
  <2>1. PICK j \in Places : code[j] = peepholeMap[Here.uses[1]]
    BY MatchFacts
  <2>2. DOMAIN code = Places
    BY UsesBounds DEF IInv
  <2> QED
    BY <2>1, <2>2 DEF ToSet
<1> QED
  BY <1>1, PeepholeInvariant, PTL

(* When the pass ends, no AND is left whose only use is a comparison with  *)
(* zero for equality, however the two were apart and whatever was fused in *)
(* between.                                                                *)
THEOREM NothingIsMissed == Spec => []NothingMissed
<1>1. IInv => NothingMissed
  <2> SUFFICES ASSUME IInv, at = Len(code) + 1, NEW j \in DOMAIN code, NEW k \in DOMAIN code,
                      code[j].op = "AND", code[k].op = "BR_CC", code[k].cc \in {"E", "NE"},
                      code[k].uses = <<code[j].defs[1], Zero>>,
                      Uses(code, exported, code[j].defs[1]) = 1
               PROVE  FALSE
    BY DEF NothingMissed
  <2>1. Form /\ NoneLeft /\ FlagsComplete
    BY DEF IInv
  <2>2. DOMAIN code = 1..Len(code) /\ Len(code) \in Nat
    BY <2>1, LenProperties DEF Form
  <2>3. j \in Places /\ k \in Places /\ k < at
    BY <2>2 DEF Places
  <2>4. IsAnd(j) /\ IsTest(k) /\ Result(j) = code[k].uses[1] /\ code[k].uses[2] = Zero
    BY <2>3 DEF IsAnd, IsTest, Result
  <2>5. UsedAt(k, 1, Result(j)) /\ Uses(code, exported, Result(j)) = 1
    <3>1. Len(code[k].uses) = 2
      OBVIOUS
    <3> QED
      BY <2>3, <2>4, <3>1 DEF UsedAt, Result
  <2>6. Once(Result(j))
    BY <2>1, <2>3, <2>5, OnceIs
  <2>7. 1 \in code[k].kills
    BY <2>1, <2>3, <2>4, <2>6 DEF FlagsComplete
  <2> QED
    BY <2>1, <2>3, <2>4, <2>7 DEF NoneLeft
<1> QED
  BY <1>1, PeepholeInvariant, PTL
=============================================================================
