----------------------- MODULE BlockTerminatorsProofs -----------------------
(***************************************************************************)
(* The branches selected for a comparison, the reverse of a condition and  *)
(* the branches inserted for it, on words of every width.                  *)
(*                                                                         *)
(* Safety of the terminators of a block for every number of blocks,        *)
(* registers and immediates, words of every width, and any sequence of     *)
(* moves, redirections and corrections, when a comparison has two          *)
(* successors.                                                             *)
(*                                                                         *)
(* The inductive invariant says which of three forms the block has: it     *)
(* leaves the function, has one successor, or compares and has two; what   *)
(* the analysis knows after each iteration; and that what falls through    *)
(* falls into the right block, except between a move and the update that   *)
(* follows it.                                                             *)
(***************************************************************************)
EXTENDS BlockTerminators, SequenceTheorems, TLAPS

-----------------------------------------------------------------------------
(* What branches do, on words of every width: the code selected for a      *)
(* comparison, the reverse of a condition, and the branches inserted.      *)

LEMMA SignedInteger ==
  ASSUME NEW a \in Words
  PROVE  a \in Int /\ Signed(a) \in Int
  <1>1. SignBit \in Nat
    BY BranchAssumption DEF SignBit
  <1> QED  BY <1>1 DEF Words, Signed

(* The order of words, signed and unsigned, is total.                      *)
LEMMA WordOrder ==
  ASSUME NEW a \in Words, NEW b \in Words
  PROVE  /\ a < b <=> ~(a >= b)
         /\ a > b <=> ~(a <= b)
         /\ a <= b <=> a = b \/ a < b
         /\ a >= b <=> a = b \/ a > b
         /\ Signed(a) < Signed(b) <=> ~(Signed(a) >= Signed(b))
         /\ Signed(a) > Signed(b) <=> ~(Signed(a) <= Signed(b))
         /\ Signed(a) <= Signed(b) <=> a = b \/ Signed(a) < Signed(b)
         /\ Signed(a) >= Signed(b) <=> a = b \/ Signed(a) > Signed(b)
  <1>1. a \in Int /\ b \in Int /\ Signed(a) \in Int /\ Signed(b) \in Int
    BY SignedInteger
  <1>2. Signed(a) = Signed(b) <=> a = b
    <2>1. SignBit \in Nat
      BY BranchAssumption DEF SignBit
    <2> QED  BY <2>1 DEF Words, Signed
  <1>3. \A m, n \in Int :
          /\ m < n <=> ~(m >= n)
          /\ m > n <=> ~(m <= n)
          /\ m <= n <=> m = n \/ m < n
          /\ m >= n <=> m = n \/ m > n
    OBVIOUS
  <1>4. /\ a < b <=> ~(a >= b)
        /\ a > b <=> ~(a <= b)
        /\ a <= b <=> a = b \/ a < b
        /\ a >= b <=> a = b \/ a > b
    BY <1>1
  <1> DEFINE x == Signed(a)  y == Signed(b)
  <1>5. /\ x < y <=> ~(x >= y)
        /\ x > y <=> ~(x <= y)
        /\ x <= y <=> a = b \/ x < y
        /\ x >= y <=> a = b \/ x > y
    <2>1. x \in Int /\ y \in Int /\ (x = y <=> a = b)
      BY <1>1, <1>2
    <2> HIDE DEF x, y
    <2> QED  BY <2>1
  <1> QED  BY <1>4, <1>5

(* What each condition code asks of two words.                             *)
LEMMA CodeMeaning ==
  ASSUME NEW a, NEW b
  PROVE  /\ Holds("B", a, b) <=> CommonBit(a, b)
         /\ Holds("C", a, b) <=> ~CommonBit(a, b)
         /\ Holds("E", a, b) <=> (a = b)
         /\ Holds("NE", a, b) <=> (a # b)
         /\ Holds("G", a, b) <=> (a > b)
         /\ Holds("A", a, b) <=> (Signed(a) > Signed(b))
         /\ Holds("L", a, b) <=> (a < b)
         /\ Holds("U", a, b) <=> (Signed(a) < Signed(b))
         /\ Holds("GE", a, b) <=> (a >= b)
         /\ Holds("AE", a, b) <=> (Signed(a) >= Signed(b))
         /\ Holds("LE", a, b) <=> (a <= b)
         /\ Holds("UE", a, b) <=> (Signed(a) <= Signed(b))
  BY DEF Holds

(* The same for the comparisons of the program.                            *)
LEMMA SourceMeaning ==
  ASSUME NEW a, NEW b
  PROVE  /\ SourceHolds("SETEQ", a, b) <=> (a = b)
         /\ SourceHolds("SETNE", a, b) <=> (a # b)
         /\ SourceHolds("SETLT", a, b) <=> (Signed(a) < Signed(b))
         /\ SourceHolds("SETULT", a, b) <=> (a < b)
         /\ SourceHolds("SETGT", a, b) <=> (Signed(a) > Signed(b))
         /\ SourceHolds("SETUGT", a, b) <=> (a > b)
         /\ SourceHolds("SETLE", a, b) <=> (Signed(a) <= Signed(b))
         /\ SourceHolds("SETULE", a, b) <=> (a <= b)
         /\ SourceHolds("SETGE", a, b) <=> (Signed(a) >= Signed(b))
         /\ SourceHolds("SETUGE", a, b) <=> (a >= b)
         /\ SourceHolds("TESTNE", a, b) <=> CommonBit(a, b)
         /\ SourceHolds("TESTEQ", a, b) <=> ~CommonBit(a, b)
  BY DEF SourceHolds

LEMMA ShortCode ==
  ASSUME NEW t, NEW u
  PROVE  <<>> \o <<t>> = <<t>> /\ <<t>> \o <<u>> = <<t, u>>
  <1>1. <<t>> \in Seq({t, u}) /\ <<u>> \in Seq({t, u})
    OBVIOUS
  <1>2. <<>> \o <<t>> = <<t>>
    BY <1>1, ConcatEmptySeq
  <1>3. <<t>> \o <<u>> = <<t, u>>
    <2> DEFINE tu == <<t>> \o <<u>>
    <2>1. tu \in Seq({t, u}) /\ <<t, u>> \in Seq({t, u})
      BY <1>1, ConcatProperties
    <2>2. Len(tu) = 2 /\ Len(<<t, u>>) = 2 /\ tu[1] = t /\ tu[2] = u
      BY <1>1, ConcatProperties
    <2>3. \A k \in 1..2 : tu[k] = <<t, u>>[k]
      BY <2>2
    <2> HIDE DEF tu
    <2> QED  BY <2>1, <2>2, <2>3, SeqEqual DEF tu
  <1> QED  BY <1>2, <1>3

(* One conditional branch, and two with one target.                        *)
LEMMA OneBranch ==
  ASSUME NEW t, NEW after, NEW env, NEW b
  PROVE  GoesTo(<<t>>, after, env, b)
         <=> b = IF Taken(t, env) THEN t.target ELSE after
  <1>1. DOMAIN <<t>> = {1} /\ <<t>>[1] = t
    OBVIOUS
  <1>2. \A j \in 1..(1 - 1) : FALSE
    OBVIOUS
  <1> QED  BY <1>1, <1>2 DEF GoesTo

LEMMA TwoBranches ==
  ASSUME NEW t, NEW u, NEW after, NEW env, NEW b, t.target = u.target
  PROVE  GoesTo(<<t, u>>, after, env, b)
         <=> b = IF Taken(t, env) \/ Taken(u, env) THEN u.target ELSE after
  <1>1. DOMAIN <<t, u>> = {1, 2} /\ <<t, u>>[1] = t /\ <<t, u>>[2] = u
    OBVIOUS
  <1>2. 1..(1 - 1) = {} /\ 1..(2 - 1) = {1}
    OBVIOUS
  <1> DEFINE terms == <<t, u>>
  <1>3. GoesTo(terms, after, env, b)
        <=> \/ Taken(t, env) /\ b = t.target
            \/ Taken(u, env) /\ b = u.target /\ ~Taken(t, env)
            \/ ~Taken(t, env) /\ ~Taken(u, env) /\ b = after
    <2> HIDE DEF terms
    <2>1. DOMAIN terms = {1, 2} /\ terms[1] = t /\ terms[2] = u
      BY <1>1 DEF terms
    <2> QED  BY <2>1, <1>2 DEF GoesTo
  <1> QED  BY <1>3

(* ReverseBranchCondition gives the condition that holds exactly when the  *)
(* given one does not, and reversing it again gives the given one.         *)
THEOREM ReverseNegates ==
  ASSUME NEW cc \in CondCodes, NEW a \in Words, NEW b \in Words
  PROVE  /\ ReverseCC(cc) \in CondCodes
         /\ Holds(ReverseCC(cc), a, b) <=> ~Holds(cc, a, b)
         /\ ReverseCC(ReverseCC(cc)) = cc
  <1>1. ReverseCC(cc) \in CondCodes /\ ReverseCC(ReverseCC(cc)) = cc
    BY DEF ReverseCC, CondCodes, SimpleCodes, ComplexCodes
  <1>2. CASE cc \in {"B", "C", "E", "NE"}
    <2>1. Holds(ReverseCC(cc), a, b) <=> ~Holds(cc, a, b)
      BY <1>2, CodeMeaning DEF ReverseCC
    <2> QED  BY <1>1, <2>1
  <1>3. CASE cc \in {"G", "L", "GE", "LE"}
    <2>1. Holds(ReverseCC(cc), a, b) <=> ~Holds(cc, a, b)
      BY <1>3, CodeMeaning, WordOrder DEF ReverseCC
    <2> QED  BY <1>1, <2>1
  <1>4. CASE cc \in {"A", "U", "AE", "UE"}
    <2>1. Holds(ReverseCC(cc), a, b) <=> ~Holds(cc, a, b)
      BY <1>4, CodeMeaning, WordOrder DEF ReverseCC
    <2> QED  BY <1>1, <2>1
  <1> QED  BY <1>2, <1>3, <1>4 DEF CondCodes, SimpleCodes, ComplexCodes

(* InsertBranch of a condition and a destination: control goes there       *)
(* exactly when the condition holds, though the machine may need two       *)
(* branches for it.                                                        *)
THEOREM InsertionFaithful ==
  ASSUME NEW tbb, NEW cond, cond.cc \in CondCodes, NEW after, NEW b, NEW env,
         env[cond.lhs] \in Words, env[cond.rhs] \in Words
  PROVE  GoesTo(ConditionalBranches(tbb, cond), after, env, b)
         <=> b = IF Holds(cond.cc, env[cond.lhs], env[cond.rhs]) THEN tbb ELSE after
  <1> DEFINE x == env[cond.lhs]
             y == env[cond.rhs]
             Br(cc) == BR_CC(cc, cond.lhs, cond.rhs, tbb)
  <1>1. \A cc : Br(cc).target = tbb /\ (Taken(Br(cc), env) <=> Holds(cc, x, y))
    BY DEF BR_CC, Terminator, Taken
  <1>2. CASE cond.cc \in SimpleCodes
    <2> DEFINE t == Br(cond.cc)
    <2>1. cond.cc \notin ComplexCodes
      BY <1>2 DEF SimpleCodes, ComplexCodes
    <2>2. simpleCC(cond.cc) = cond.cc
      BY <2>1 DEF simpleCC, ComplexCodes
    <2>3. ConditionalBranches(tbb, cond) = <<t>>
      BY <2>1, <2>2, ShortCode DEF ConditionalBranches, IsComplexCC
    <2>4. t.target = tbb /\ (Taken(t, env) <=> Holds(cond.cc, x, y))
      BY <1>1
    <2> HIDE DEF t
    <2>5. GoesTo(<<t>>, after, env, b) <=> b = IF Taken(t, env) THEN t.target ELSE after
      BY OneBranch
    <2> QED  BY <2>3, <2>4, <2>5
  <1>3. CASE cond.cc \in ComplexCodes
    <2> DEFINE t == Br("E")  u == Br(simpleCC(cond.cc))
    <2>1. ConditionalBranches(tbb, cond) = <<t, u>>
      BY <1>3, ShortCode DEF ConditionalBranches, IsComplexCC
    <2>2. t.target = tbb /\ u.target = tbb
      BY <1>1
    <2>3. Taken(t, env) \/ Taken(u, env) <=> Holds(cond.cc, x, y)
      <3>1. Holds("E", x, y) \/ Holds(simpleCC(cond.cc), x, y) <=> Holds(cond.cc, x, y)
        <4>1. simpleCC(cond.cc) = CASE cond.cc = "GE" -> "G" [] cond.cc = "AE" -> "A"
                                    [] cond.cc = "LE" -> "L" [] cond.cc = "UE" -> "U"
          BY <1>3 DEF simpleCC, ComplexCodes
        <4> QED  BY <1>3, <4>1, WordOrder, CodeMeaning DEF ComplexCodes
      <3> QED  BY <3>1, <1>1
    <2> HIDE DEF t, u
    <2>4. GoesTo(<<t, u>>, after, env, b)
          <=> b = IF Taken(t, env) \/ Taken(u, env) THEN u.target ELSE after
      BY <2>2, TwoBranches
    <2> QED  BY <2>1, <2>2, <2>3, <2>4
  <1> QED  BY <1>2, <1>3 DEF CondCodes

(* The condition code that a comparison becomes, with equality or without. *)
CodeOf(c) ==
  CASE c = "SETEQ" -> "E" [] c = "SETNE" -> "NE" [] c = "SETULT" -> "L" [] c = "SETUGT" -> "G"
    [] c = "SETLT" -> "U" [] c = "SETGT" -> "A" [] c = "SETLE" -> "UE" [] c = "SETULE" -> "LE"
    [] c = "SETGE" -> "AE" [] c = "SETUGE" -> "GE" [] c = "TESTNE" -> "B" [] c = "TESTEQ" -> "C"

(* Selection emits the branches that InsertBranch would emit for that      *)
(* code, and the code asks what the comparison asks.                       *)
LEMMA SelectedCode ==
  ASSUME NEW c \in SourceCodes, NEW lhs, NEW rhs, NEW dest
  PROVE  /\ CodeOf(c) \in CondCodes
         /\ SelectBranch(c, lhs, rhs, dest)
              = ConditionalBranches(dest, Condition(CodeOf(c), lhs, rhs))
         /\ \A x, y : SourceHolds(c, x, y) <=> Holds(CodeOf(c), x, y)
  <1> DEFINE cond == Condition(CodeOf(c), lhs, rhs)
  <1>1. CodeOf(c) \in CondCodes
    BY DEF CodeOf, SourceCodes, TestCodes, CondCodes, SimpleCodes, ComplexCodes
  <1>2. cond.cc = CodeOf(c) /\ cond.lhs = lhs /\ cond.rhs = rhs
    BY DEF Condition
  <1> HIDE DEF cond
  <1>3. SelectBranch(c, lhs, rhs, dest) = ConditionalBranches(dest, cond)
    <2>1. CASE c \in TestCodes
      <3>1. CodeOf(c) = (IF c = "TESTNE" THEN "B" ELSE "C")
        BY <2>1 DEF TestCodes, CodeOf
      <3>2. ~IsComplexCC(CodeOf(c)) /\ simpleCC(CodeOf(c)) = CodeOf(c)
        BY <3>1 DEF IsComplexCC, ComplexCodes, simpleCC
      <3>3. SelectBranch(c, lhs, rhs, dest) = <<BR_CC(CodeOf(c), lhs, rhs, dest)>>
        BY <2>1, <3>1 DEF SelectBranch, runOptBrcc
      <3> QED  BY <1>2, <3>2, <3>3, ShortCode DEF ConditionalBranches
    <2>2. CASE c \notin TestCodes
      <3>1. /\ NeedsAdditionalEqualityCC(c) <=> IsComplexCC(CodeOf(c))
            /\ GetSimpleCC(nonEqualCC(c)) = simpleCC(CodeOf(c))
        BY <2>2 DEF SourceCodes, TestCodes, NeedsAdditionalEqualityCC, nonEqualCC, GetSimpleCC,
                    IsComplexCC, ComplexCodes, simpleCC, CodeOf
      <3> QED  BY <1>2, <2>2, <3>1 DEF SelectBranch, LowerBR_CC, ConditionalBranches
    <2> QED  BY <2>1, <2>2
  <1>4. ASSUME NEW x, NEW y PROVE SourceHolds(c, x, y) <=> Holds(CodeOf(c), x, y)
    BY CodeMeaning, SourceMeaning DEF SourceCodes, TestCodes, CodeOf
  <1> QED  BY <1>1, <1>3, <1>4 DEF cond

(* The branches selected for a comparison go to dest exactly when the      *)
(* comparison of the program holds, and otherwise fall through: LowerBR_CC *)
(* splits the comparisons that include equality and orders the signed and  *)
(* the unsigned ones right.                                                *)
THEOREM SelectionFaithful ==
  ASSUME NEW c \in SourceCodes, NEW lhs, NEW rhs, NEW dest, NEW after, NEW b, NEW env,
         env[lhs] \in Words, env[rhs] \in Words
  PROVE  GoesTo(SelectBranch(c, lhs, rhs, dest), after, env, b)
         <=> b = IF SourceHolds(c, env[lhs], env[rhs]) THEN dest ELSE after
  <1> DEFINE cond == Condition(CodeOf(c), lhs, rhs)
  <1>1. cond.cc = CodeOf(c) /\ cond.lhs = lhs /\ cond.rhs = rhs
    BY DEF Condition
  <1>2. /\ cond.cc \in CondCodes
        /\ SelectBranch(c, lhs, rhs, dest) = ConditionalBranches(dest, cond)
        /\ SourceHolds(c, env[lhs], env[rhs]) <=> Holds(cond.cc, env[lhs], env[rhs])
    BY <1>1, SelectedCode
  <1> HIDE DEF cond
  <1> QED  BY <1>1, <1>2, InsertionFaithful

(* A jump at the end takes the place of the block that follows.            *)
LEMMA JumpAtEnd ==
  ASSUME NEW S, NEW terms \in Seq(S), NEW target, NEW after, NEW env, NEW b
  PROVE  GoesTo(terms \o <<JMP(target)>>, after, env, b) <=> GoesTo(terms, target, env, b)
  <1> DEFINE j == JMP(target)  whole == terms \o <<j>>  n == Len(terms)
  <1>1. j.target = target /\ Taken(j, env)
    BY DEF JMP, Terminator, Taken
  <1> HIDE DEF j
  <1>2. terms \in Seq(S \cup {j}) /\ <<j>> \in Seq(S \cup {j})
    OBVIOUS
  <1>3. /\ n \in Nat /\ DOMAIN terms = 1..n /\ DOMAIN whole = 1..(n + 1)
        /\ \A k \in 1..n : whole[k] = terms[k]
        /\ whole[n + 1] = j
    BY <1>2, ConcatProperties, LenProperties
  <1> HIDE DEF whole, n
  <1>4. GoesTo(whole, after, env, b)
        <=> \/ \E k \in 1..n : Taken(terms[k], env) /\ b = terms[k].target
                               /\ \A i \in 1..(k - 1) : ~Taken(terms[i], env)
            \/ (\A i \in 1..n : ~Taken(terms[i], env)) /\ b = target
    BY <1>1, <1>3 DEF GoesTo
  <1> QED  BY <1>3, <1>4 DEF GoesTo, whole, j

-----------------------------------------------------------------------------
(* The hypothesis, and the code of a condition *)

DistinctSuccessors == \A e \in Edges : e[1] # e[2]

(* Of a condition and its two destinations, with a jump to F or without.   *)
Conditions == [cc : CondCodes, lhs : Operands, rhs : Operands]

Code(cond, T, F, j) == ConditionalBranches(T, cond) \o (IF j THEN <<JMP(F)>> ELSE <<>>)

Size(cond) == IF IsComplexCC(cond.cc) THEN 2 ELSE 1

-----------------------------------------------------------------------------
(* Terminators as sequences *)

Branches(cond, T) ==
  {BR_CC("E", cond.lhs, cond.rhs, T), BR_CC(simpleCC(cond.cc), cond.lhs, cond.rhs, T)}

LEMMA BranchesShape ==
  ASSUME NEW cond, NEW T
  PROVE  /\ ConditionalBranches(T, cond) \in Seq(Branches(cond, T))
         /\ Len(ConditionalBranches(T, cond)) = Size(cond)
         /\ ConditionalBranches(T, cond)[Size(cond)] = BR_CC(simpleCC(cond.cc), cond.lhs, cond.rhs, T)
         /\ Size(cond) = 2 => ConditionalBranches(T, cond)[1] = BR_CC("E", cond.lhs, cond.rhs, T)
  <1> DEFINE e == BR_CC("E", cond.lhs, cond.rhs, T)
             s == BR_CC(simpleCC(cond.cc), cond.lhs, cond.rhs, T)
             head == ConditionalBranches(T, cond)
  <1>1. Branches(cond, T) = {e, s} /\ head = (IF IsComplexCC(cond.cc) THEN <<e>> ELSE <<>>) \o <<s>>
    BY DEF Branches, ConditionalBranches
  <1> HIDE DEF e, s, head
  <1>2. head = IF IsComplexCC(cond.cc) THEN <<e, s>> ELSE <<s>>
    BY <1>1, ShortCode
  <1>3. /\ head \in Seq({e, s}) /\ Len(head) = Size(cond) /\ head[Size(cond)] = s
        /\ Size(cond) = 2 => head[1] = e
    <2>1. CASE IsComplexCC(cond.cc)
      BY <1>2, <2>1 DEF Size
    <2>2. CASE ~IsComplexCC(cond.cc)
      BY <1>2, <2>2 DEF Size
    <2> QED  BY <2>1, <2>2
  <1> QED  BY <1>1, <1>3 DEF e, s, head

LEMMA CodeWithout ==
  ASSUME NEW cond, NEW T, NEW F
  PROVE  Code(cond, T, F, FALSE) = ConditionalBranches(T, cond)
  <1> DEFINE head == ConditionalBranches(T, cond)
  <1>1. Code(cond, T, F, FALSE) = head \o <<>>
    BY DEF Code
  <1>2. head \in Seq(Branches(cond, T))
    BY BranchesShape
  <1> HIDE DEF head
  <1>3. head \o <<>> = head
    BY <1>2, ConcatEmptySeq
  <1> QED  BY <1>1, <1>3 DEF head

(* The terminators of a block that compares: one comparison or two, and    *)
(* perhaps a jump.                                                         *)
LEMMA CodeShape ==
  ASSUME NEW cond, NEW T, NEW F, NEW j \in BOOLEAN
  PROVE  LET terms == Code(cond, T, F, j)
             n == Size(cond)
         IN  /\ n \in {1, 2} /\ (n = 2 <=> IsComplexCC(cond.cc))
             /\ terms \in Seq(Branches(cond, T) \cup {JMP(F)})
             /\ Len(terms) = IF j THEN n + 1 ELSE n
             /\ DOMAIN terms = 1..Len(terms)
             /\ terms[n] = BR_CC(simpleCC(cond.cc), cond.lhs, cond.rhs, T)
             /\ n = 2 => terms[1] = BR_CC("E", cond.lhs, cond.rhs, T)
             /\ j => terms[n + 1] = JMP(F)
             /\ SubSeq(terms, 1, Len(terms)) = terms
             /\ j => SubSeq(terms, 1, n) = Code(cond, T, F, FALSE)
  <1> DEFINE e == BR_CC("E", cond.lhs, cond.rhs, T)
             s == BR_CC(simpleCC(cond.cc), cond.lhs, cond.rhs, T)
             m == JMP(F)
             n == Size(cond)
             S == Branches(cond, T) \cup {m}
             head == ConditionalBranches(T, cond)
             tail == IF j THEN <<m>> ELSE <<>>
             whole == Code(cond, T, F, j)
  <1>1. n \in {1, 2} /\ (n = 2 <=> IsComplexCC(cond.cc))
    BY DEF Size
  <1>2. head \in Seq(S) /\ Len(head) = n /\ head[n] = s /\ (n = 2 => head[1] = e)
    BY BranchesShape
  <1>3. whole = head \o tail /\ Code(cond, T, F, FALSE) = head
    BY CodeWithout DEF Code
  <1>4. tail \in Seq(S) /\ Len(tail) = (IF j THEN 1 ELSE 0) /\ (j => tail[1] = m)
    <2>1. m \in S
      OBVIOUS
    <2> HIDE DEF m, S
    <2>2. CASE j
      BY <2>1, <2>2
    <2>3. CASE ~j
      BY <2>3
    <2> QED  BY <2>2, <2>3
  <1> HIDE DEF e, s, m, n, S, head, tail, whole
  <1>5. /\ whole \in Seq(S) /\ Len(whole) = IF j THEN n + 1 ELSE n
        /\ \A k \in 1..n : whole[k] = head[k]
        /\ j => whole[n + 1] = tail[1]
    BY <1>1, <1>2, <1>3, <1>4, ConcatProperties
  <1>6. DOMAIN whole = 1..Len(whole) /\ SubSeq(whole, 1, Len(whole)) = whole
    BY <1>5, LenProperties, SubSeqFull
  <1>7. SubSeq(whole, 1, n) = head
    <2>1. 1 \in 1..Len(head) /\ n \in 1..Len(head)
      BY <1>1, <1>2
    <2>2. SubSeq(whole, 1, n) = SubSeq(head, 1, n)
      BY <1>2, <1>3, <1>4, <2>1, SubSeqOfConcat1
    <2>3. SubSeq(head, 1, n) = head
      BY <1>2, SubSeqFull
    <2> QED  BY <2>2, <2>3
  <1>8. whole[n] = s /\ (n = 2 => whole[1] = e) /\ (j => whole[n + 1] = m)
    BY <1>1, <1>2, <1>4, <1>5
  <1> QED  BY <1>1, <1>3, <1>5, <1>6, <1>7, <1>8 DEF e, s, m, n, whole, S

(* The same of a sequence that is known to be that code.                   *)
LEMMA CodeParts ==
  ASSUME NEW cond, NEW T, NEW F, NEW j \in BOOLEAN,
         NEW terms, terms = Code(cond, T, F, j), NEW n, n = Size(cond)
  PROVE  /\ n \in {1, 2} /\ (n = 2 <=> IsComplexCC(cond.cc))
         /\ DOMAIN terms = 1..Len(terms) /\ Len(terms) = (IF j THEN n + 1 ELSE n)
         /\ terms[n] = BR_CC(simpleCC(cond.cc), cond.lhs, cond.rhs, T)
         /\ n = 2 => terms[1] = BR_CC("E", cond.lhs, cond.rhs, T)
         /\ j => terms[n + 1] = JMP(F)
  <1>1. LET code1 == Code(cond, T, F, j)
            n1 == Size(cond)
        IN  /\ n1 \in {1, 2} /\ (n1 = 2 <=> IsComplexCC(cond.cc))
            /\ code1 \in Seq(Branches(cond, T) \cup {JMP(F)})
            /\ Len(code1) = IF j THEN n1 + 1 ELSE n1
            /\ DOMAIN code1 = 1..Len(code1)
            /\ code1[n1] = BR_CC(simpleCC(cond.cc), cond.lhs, cond.rhs, T)
            /\ n1 = 2 => code1[1] = BR_CC("E", cond.lhs, cond.rhs, T)
            /\ j => code1[n1 + 1] = JMP(F)
            /\ SubSeq(code1, 1, Len(code1)) = code1
            /\ j => SubSeq(code1, 1, n1) = Code(cond, T, F, FALSE)
    BY CodeShape, Zenon
  <1> QED  BY <1>1

(* Where it goes.                                                          *)
LEMMA CodeGoesTo ==
  ASSUME NEW cond \in Conditions, NEW T, NEW F, NEW j \in BOOLEAN, NEW fall, NEW b,
         NEW env \in Envs
  PROVE  GoesTo(Code(cond, T, F, j), fall, env, b)
         <=> b = IF Holds(cond.cc, env[cond.lhs], env[cond.rhs]) THEN T
                 ELSE IF j THEN F ELSE fall
  <1> DEFINE head == ConditionalBranches(T, cond)
  <1>1. /\ cond.cc \in CondCodes
        /\ env[cond.lhs] \in Words /\ env[cond.rhs] \in Words
    <2>1. cond.cc \in CondCodes /\ cond.lhs \in Operands /\ cond.rhs \in Operands
      BY DEF Conditions
    <2> QED  BY <2>1 DEF Envs
  <1>2. \A g : GoesTo(head, g, env, b)
               <=> b = IF Holds(cond.cc, env[cond.lhs], env[cond.rhs]) THEN T ELSE g
    BY <1>1, InsertionFaithful
  <1>4. head \in Seq(Branches(cond, T))
    BY BranchesShape
  <1> HIDE DEF head
  <1>5. CASE j
    <2>1. Code(cond, T, F, j) = head \o <<JMP(F)>>
      BY <1>5 DEF Code, head
    <2>2. GoesTo(head \o <<JMP(F)>>, fall, env, b) <=> GoesTo(head, F, env, b)
      BY <1>4, JumpAtEnd
    <2> QED  BY <1>2, <1>5, <2>1, <2>2
  <1>6. CASE ~j
    <2>1. Code(cond, T, F, j) = head
      BY <1>6, CodeWithout DEF head
    <2> QED  BY <1>2, <1>6, <2>1
  <1> QED  BY <1>5, <1>6

(* Branches are all that RemoveBranch finds in such a block.               *)
LEMMA AllRemoved ==
  ASSUME NEW terms, \A k \in DOMAIN terms : IsBranch(terms[k])
  PROVE  RemoveBranch(terms) = <<>>
  <1>1. {k \in DOMAIN terms : ~IsBranch(terms[k])} = {}
    OBVIOUS
  <1> QED  BY <1>1 DEF RemoveBranch

LEMMA CodeRemoved ==
  ASSUME NEW cond \in Conditions, NEW T, NEW F, NEW j \in BOOLEAN
  PROVE  RemoveBranch(Code(cond, T, F, j)) = <<>>
  <1> DEFINE terms == Code(cond, T, F, j)  n == Size(cond)
  <1>0. terms = Code(cond, T, F, j) /\ n = Size(cond)
    OBVIOUS
  <1> HIDE DEF terms, n
  <1>1. /\ n \in {1, 2} /\ DOMAIN terms = 1..Len(terms) /\ Len(terms) = (IF j THEN n + 1 ELSE n)
        /\ terms[n].op = "BR_CC" /\ (n = 2 => terms[1].op = "BR_CC")
        /\ j => terms[n + 1].op = "JMP"
    <2>1. /\ \A cc, l, r : BR_CC(cc, l, r, T).op = "BR_CC"
          /\ JMP(F).op = "JMP"
      BY DEF BR_CC, JMP, Terminator
    <2>2. /\ n \in {1, 2} /\ DOMAIN terms = 1..Len(terms) /\ Len(terms) = (IF j THEN n + 1 ELSE n)
          /\ terms[n] = BR_CC(simpleCC(cond.cc), cond.lhs, cond.rhs, T)
          /\ n = 2 => terms[1] = BR_CC("E", cond.lhs, cond.rhs, T)
          /\ j => terms[n + 1] = JMP(F)
      BY <1>0, CodeParts
    <2> QED  BY <2>1, <2>2
  <1>2. \A k \in DOMAIN terms : IsBranch(terms[k])
    BY <1>1 DEF IsBranch
  <1>3. RemoveBranch(terms) = <<>>
    BY <1>2, AllRemoved
  <1> QED  BY <1>3 DEF terms

(* What InsertBranch emits after all branches have been removed.           *)
LEMMA Inserted ==
  ASSUME NEW cond \in Conditions, NEW T \in Blocks, NEW F \in Blocks \cup {NoBlock}
  PROVE  /\ <<>> \o InsertBranch(T, F, cond) = Code(cond, T, F, F # NoBlock)
         /\ MayInsertBranch(T, F, cond)
         /\ <<>> \o InsertBranch(T, NoBlock, NoCondition) = <<JMP(T)>>
         /\ MayInsertBranch(T, NoBlock, NoCondition)
  <1>1. cond # NoCondition
    BY DEF Conditions, NoCondition, Condition, CondCodes, SimpleCodes, ComplexCodes
  <1>2. T # NoBlock
    BY BranchAssumption
  <1>3. InsertBranch(T, F, cond) = Code(cond, T, F, F # NoBlock)
    BY <1>1 DEF InsertBranch, Code
  <1>4. InsertBranch(T, F, cond) \in Seq(Branches(cond, T) \cup {JMP(F)})
    <2>1. \A j \in BOOLEAN : Code(cond, T, F, j) \in Seq(Branches(cond, T) \cup {JMP(F)})
      BY CodeShape
    <2>2. (F # NoBlock) \in BOOLEAN
      OBVIOUS
    <2> QED  BY <1>3, <2>1, <2>2
  <1>5. <<>> \o InsertBranch(T, F, cond) = InsertBranch(T, F, cond)
    BY <1>4, ConcatEmptySeq
  <1>6. <<>> \o InsertBranch(T, NoBlock, NoCondition) = <<JMP(T)>>
    BY ShortCode DEF InsertBranch
  <1> QED  BY <1>1, <1>2, <1>3, <1>5, <1>6 DEF MayInsertBranch

-----------------------------------------------------------------------------
(* The inductive invariant *)

Analysed(i, tbb, fbb, cond) == I = i /\ TBB = tbb /\ FBB = fbb /\ Cond = cond

(* A return or an indirect branch; the analysis gives up on it.            *)
Leaves(t) ==
  /\ t \in {RET, IndirectBranch}
  /\ code = <<t>>
  /\ source.trueBB = NoBlock /\ source.falseBB = NoBlock
  /\ t = RET => succs = {}
  /\ stage = "analyze" => Analysed(1, NoBlock, NoBlock, NoCondition)

(* Code that falls through falls into the block that the next layout       *)
(* block is, unless that has just changed and the update is to come.       *)
Settled == stage = "stable" \/ AllowModify

(* One successor, by a jump or by falling through.  AnalyzeBranch deletes  *)
(* a jump to the next block if it may.                                     *)
OneWay(b, j) ==
  /\ b \in Blocks /\ j \in BOOLEAN
  /\ code = IF j THEN <<JMP(b)>> ELSE <<>>
  /\ source.trueBB = b /\ source.falseBB = b /\ succs = {b}
  /\ Settled /\ ~j => next = b
  /\ stage = "analyze" =>
       \/ j /\ Analysed(1, NoBlock, NoBlock, NoCondition)
       \/ Analysed(0, IF j THEN b ELSE NoBlock, NoBlock, NoCondition) /\ (AllowModify /\ j => next # b)

(* A comparison: the program goes to T when cond holds and to F otherwise. *)
Means(cond, T, F) ==
  /\ source.trueBB \in {T, F} /\ source.falseBB \in {T, F}
  /\ \A env \in Envs :
       Destination(env) = IF Holds(cond.cc, env[cond.lhs], env[cond.rhs]) THEN T ELSE F

Simple(cond) == Condition(simpleCC(cond.cc), cond.lhs, cond.rhs)

Known(cond, T, F, j) ==
  LET n == Size(cond)
      G == IF j THEN F ELSE NoBlock
  IN  \/ j /\ Analysed(n + 1, NoBlock, NoBlock, NoCondition)
      \/ /\ \/ Analysed(n, G, NoBlock, NoCondition)
            \/ n = 2 /\ Analysed(1, T, G, Simple(cond))
            \/ Analysed(0, T, G, cond)
         /\ AllowModify /\ j => next # F

TwoWay(cond, T, F, j) ==
  /\ cond \in Conditions /\ T \in Blocks /\ F \in Blocks /\ T # F /\ j \in BOOLEAN
  /\ code = Code(cond, T, F, j)
  /\ succs = {T, F}
  /\ Means(cond, T, F)
  /\ Settled /\ ~j => next = F
  /\ stage = "analyze" => Known(cond, T, F, j)

Form ==
  \/ \E t \in {RET, IndirectBranch} : Leaves(t)
  \/ \E b \in Blocks, j \in BOOLEAN : OneWay(b, j)
  \/ \E cond \in Conditions, T, F \in Blocks, j \in BOOLEAN : TwoWay(cond, T, F, j)

(* The successor to be replaced, if there is one, is a successor.          *)
Redirects ==
  \/ redirect = <<NoBlock, NoBlock>>
  \/ /\ redirect[1] \in succs /\ redirect[2] \in Blocks
     /\ redirect[1] # redirect[2] /\ redirect # <<NoBlock, NoBlock>>

Typed ==
  /\ next \in Positions
  /\ stage \in {"stable", "analyze"}
  /\ AllowModify \in BOOLEAN
  /\ succs \subseteq Blocks
  /\ {"cond", "lhs", "rhs", "trueBB", "falseBB"} \subseteq DOMAIN source

IInv == Typed /\ (stage = "analyze" => Redirects) /\ Form

-----------------------------------------------------------------------------
(* Facts about conditions and terminators *)

LEMMA Fields ==
  /\ \A cc, l, r, t : /\ BR_CC(cc, l, r, t).op = "BR_CC" /\ BR_CC(cc, l, r, t).cc = cc
                       /\ BR_CC(cc, l, r, t).lhs = l /\ BR_CC(cc, l, r, t).rhs = r
                       /\ BR_CC(cc, l, r, t).target = t
  /\ \A t : JMP(t).op = "JMP" /\ JMP(t).target = t
  /\ \A cc, l, r : /\ Condition(cc, l, r).cc = cc
                    /\ Condition(cc, l, r).lhs = l /\ Condition(cc, l, r).rhs = r
  /\ RET.op = "RET" /\ RET.target = NoBlock
  /\ IndirectBranch.op = "Br" /\ IndirectBranch.target = NoBlock
<1> QED  BY DEF BR_CC, JMP, RET, IndirectBranch, Terminator, Condition

LEMMA ConditionFacts ==
  ASSUME NEW cond \in Conditions
  PROVE  /\ cond.cc \in CondCodes /\ cond.lhs \in Operands /\ cond.rhs \in Operands
         /\ cond = Condition(cond.cc, cond.lhs, cond.rhs)
         /\ Simple(cond) \in Conditions
         /\ cond # NoCondition
         /\ ~IsComplexCC(cond.cc) => Simple(cond) = cond
         /\ IsComplexCC(cond.cc) =>
              /\ AcceptsAdditionalEqualityCheck(Simple(cond).cc)
              /\ ~IsComplexCC(Simple(cond).cc)
              /\ [Simple(cond) EXCEPT !.cc = WithEquality(@)] = cond
  <1>1. cond.cc \in CondCodes /\ cond.lhs \in Operands /\ cond.rhs \in Operands
    BY DEF Conditions
  <1>2. cond = Condition(cond.cc, cond.lhs, cond.rhs)
    BY DEF Conditions, Condition
  <1>3. simpleCC(cond.cc) \in CondCodes
    BY <1>1 DEF simpleCC, CondCodes, SimpleCodes, ComplexCodes
  <1>4. Simple(cond) \in Conditions
    BY <1>1, <1>3 DEF Simple, Conditions, Condition
  <1>5. cond # NoCondition
    <2>1. "none" \notin CondCodes
      BY DEF CondCodes, SimpleCodes, ComplexCodes
    <2>2. NoCondition.cc = "none"
      BY DEF NoCondition, Condition
    <2> QED  BY <1>1, <2>1, <2>2
  <1>6. ASSUME ~IsComplexCC(cond.cc) PROVE Simple(cond) = cond
    <2>1. simpleCC(cond.cc) = cond.cc
      BY <1>6 DEF IsComplexCC, ComplexCodes, simpleCC
    <2> QED  BY <1>2, <2>1 DEF Simple
  <1>7. ASSUME IsComplexCC(cond.cc)
        PROVE  /\ AcceptsAdditionalEqualityCheck(Simple(cond).cc)
               /\ ~IsComplexCC(Simple(cond).cc)
               /\ [Simple(cond) EXCEPT !.cc = WithEquality(@)] = cond
    <2>1. Simple(cond).cc = simpleCC(cond.cc)
      BY Fields DEF Simple
    <2>2. /\ simpleCC(cond.cc) \in {"G", "A", "L", "U"}
          /\ WithEquality(simpleCC(cond.cc)) = cond.cc
      BY <1>7 DEF IsComplexCC, ComplexCodes, simpleCC, WithEquality
    <2>3. AcceptsAdditionalEqualityCheck(Simple(cond).cc) /\ ~IsComplexCC(Simple(cond).cc)
      BY <2>1, <2>2 DEF AcceptsAdditionalEqualityCheck, IsComplexCC, ComplexCodes
    <2>4. [Simple(cond) EXCEPT !.cc = WithEquality(@)] = cond
      <3> DEFINE cc == simpleCC(cond.cc)
      <3>1. Simple(cond) = [cc |-> cc, lhs |-> cond.lhs, rhs |-> cond.rhs]
        BY DEF Simple, Condition
      <3>2. cond = [cc |-> WithEquality(cc), lhs |-> cond.lhs, rhs |-> cond.rhs]
        BY <1>2, <2>2 DEF Condition
      <3> HIDE DEF cc
      <3> QED  BY <3>1, <3>2
    <2> QED  BY <2>3, <2>4
  <1> QED  BY <1>1, <1>2, <1>4, <1>5, <1>6, <1>7

(* Reversing a condition swaps its destinations.                           *)
LEMMA Reversed ==
  ASSUME NEW cond \in Conditions, NEW T, NEW F, Means(cond, T, F)
  PROVE  /\ ReverseBranchCondition(cond) \in Conditions
         /\ Means(ReverseBranchCondition(cond), F, T)
  <1> DEFINE rev == ReverseBranchCondition(cond)
  <1>1. cond.cc \in CondCodes /\ cond.lhs \in Operands /\ cond.rhs \in Operands
    BY ConditionFacts
  <1>2. rev.cc = ReverseCC(cond.cc) /\ rev.lhs = cond.lhs /\ rev.rhs = cond.rhs
    BY DEF ReverseBranchCondition, Conditions
  <1>3. \A a, b \in Words : /\ ReverseCC(cond.cc) \in CondCodes
                            /\ Holds(ReverseCC(cond.cc), a, b) <=> ~Holds(cond.cc, a, b)
    BY <1>1, ReverseNegates
  <1>4. ReverseCC(cond.cc) \in CondCodes
    BY <1>1 DEF ReverseCC, CondCodes, SimpleCodes, ComplexCodes
  <1>5. rev \in Conditions
    BY <1>1, <1>4 DEF ReverseBranchCondition, Conditions
  <1> HIDE DEF rev
  <1>6. ASSUME NEW env \in Envs
        PROVE  Destination(env) = IF Holds(rev.cc, env[rev.lhs], env[rev.rhs]) THEN F ELSE T
    <2>1. env[cond.lhs] \in Words /\ env[cond.rhs] \in Words
      BY <1>1 DEF Envs
    <2>2. Holds(rev.cc, env[rev.lhs], env[rev.rhs]) <=> ~Holds(cond.cc, env[cond.lhs], env[cond.rhs])
      BY <1>2, <1>3, <2>1
    <2> QED  BY <2>2 DEF Means
  <1> QED  BY <1>5, <1>6 DEF Means, rev

-----------------------------------------------------------------------------
(* The beginning *)

LEMMA SourceFields ==
  ASSUME NEW c, NEW l, NEW r, NEW t, NEW f
  PROVE  {"cond", "lhs", "rhs", "trueBB", "falseBB"} \subseteq DOMAIN Source(c, l, r, t, f)
  BY DEF Source

LEMMA InitIInv == DistinctSuccessors /\ Init => IInv
<1> SUFFICES ASSUME DistinctSuccessors, Init PROVE IInv
  OBVIOUS
<1>1. /\ stage = "stable" /\ AllowModify = FALSE /\ next \in Positions
      /\ redirect = <<NoBlock, NoBlock>>
  BY DEF Init
<1>2. CASE InitConditional
  <2>1. PICK c \in SourceCodes, l \in Operands, r \in Operands, e \in Edges :
          /\ source = Source(c, l, r, e[1], e[2])
          /\ succs = {e[1], e[2]}
          /\ code = SelectBranch(c, l, r, e[1]) \o <<JMP(e[2])>>
    BY <1>2 DEF InitConditional
  <2> DEFINE cond == Condition(CodeOf(c), l, r)  T == e[1]  F == e[2]
  <2>2. T \in Blocks /\ F \in Blocks /\ T # F
    BY TerminatorAssumption DEF DistinctSuccessors
  <2>3. cond \in Conditions /\ cond.cc = CodeOf(c) /\ cond.lhs = l /\ cond.rhs = r
    <3>1. CodeOf(c) \in CondCodes
      BY SelectedCode
    <3> QED  BY <3>1 DEF Conditions, Condition
  <2>4. code = Code(cond, T, F, TRUE)
    <3>1. SelectBranch(c, l, r, T) = ConditionalBranches(T, cond)
      BY SelectedCode
    <3> QED  BY <2>1, <3>1 DEF Code
  <2>5. /\ source.trueBB = T /\ source.falseBB = F
        /\ source.cond = c /\ source.lhs = l /\ source.rhs = r
    BY <2>1 DEF Source
  <2> HIDE DEF cond, T, F
  <2>6. Means(cond, T, F)
    <3>1. \A x, y : SourceHolds(c, x, y) <=> Holds(cond.cc, x, y)
      BY <2>3, SelectedCode
    <3> QED  BY <2>3, <2>5, <3>1 DEF Means, Destination
  <2>7. succs = {T, F}
    BY <2>1 DEF T, F
  <2>8. TwoWay(cond, T, F, TRUE)
    BY <1>1, <2>2, <2>3, <2>4, <2>6, <2>7 DEF TwoWay
  <2>9. Form
    BY <2>2, <2>3, <2>8 DEF Form
  <2>10. {"cond", "lhs", "rhs", "trueBB", "falseBB"} \subseteq DOMAIN source
    BY <2>1, SourceFields
  <2> QED  BY <1>1, <2>2, <2>7, <2>9, <2>10 DEF IInv, Typed
<1>3. CASE InitUnconditional
  <2>1. PICK l \in Operands, b \in Blocks :
          /\ source = Source("SETEQ", l, l, b, b)
          /\ succs = {b}
          /\ code = IF next = b THEN <<>> ELSE <<JMP(b)>>
    BY <1>3 DEF InitUnconditional, isLayoutSuccessor
  <2>2. OneWay(b, next # b)
    BY <1>1, <2>1 DEF OneWay, Source
  <2>3. (next # b) \in BOOLEAN
    OBVIOUS
  <2> QED  BY <1>1, <2>1, <2>2, <2>3, SourceFields DEF IInv, Typed, Form
<1>4. CASE InitLeaving
  <2>1. PICK l \in Operands, t \in {RET, IndirectBranch} :
          /\ source = Source("SETEQ", l, l, NoBlock, NoBlock)
          /\ succs = IF t = RET THEN {} ELSE Blocks
          /\ code = <<t>>
    BY <1>4 DEF InitLeaving
  <2>2. Leaves(t)
    BY <1>1, <2>1 DEF Leaves, Source
  <2>3. succs \subseteq Blocks
    BY <2>1
  <2> QED  BY <1>1, <2>1, <2>2, <2>3, SourceFields DEF IInv, Typed, Form
<1> QED  BY <1>2, <1>3, <1>4 DEF Init

-----------------------------------------------------------------------------
(* The passes start *)

(* A step that starts the analysis keeps the form of the block; the next   *)
(* block may be another one if the analysis is for the update.             *)
LEMMA StartKeepsForm ==
  ASSUME Form, stage = "stable", NEW a \in BOOLEAN, StartAnalysis(a),
         UNCHANGED <<source, succs, code>>, a => UNCHANGED next
  PROVE  Form'
  <1>1. /\ stage' = "analyze" /\ AllowModify' = a
        /\ Analysed(Len(code), NoBlock, NoBlock, NoCondition)'
    BY DEF StartAnalysis, Analysed
  <1>2. CASE \E t \in {RET, IndirectBranch} : Leaves(t)
    <2>1. PICK t \in {RET, IndirectBranch} : Leaves(t)
      BY <1>2
    <2>2. Len(code) = 1
      BY <2>1 DEF Leaves
    <2>3. Leaves(t)'
      BY <1>1, <2>1, <2>2 DEF Leaves
    <2> QED  BY <2>3 DEF Form
  <1>3. CASE \E b \in Blocks, j \in BOOLEAN : OneWay(b, j)
    <2>1. PICK b \in Blocks, j \in BOOLEAN : OneWay(b, j)
      BY <1>3
    <2>2. Len(code) = IF j THEN 1 ELSE 0
      BY <2>1 DEF OneWay
    <2>3. OneWay(b, j)'
      BY <1>1, <2>1, <2>2 DEF OneWay, Settled
    <2> QED  BY <2>3 DEF Form
  <1>4. CASE \E cond \in Conditions, T, F \in Blocks, j \in BOOLEAN : TwoWay(cond, T, F, j)
    <2>1. PICK cond \in Conditions, T \in Blocks, F \in Blocks, j \in BOOLEAN : TwoWay(cond, T, F, j)
      BY <1>4
    <2>2. Len(code) = IF j THEN Size(cond) + 1 ELSE Size(cond)
      BY <2>1, CodeShape DEF TwoWay
    <2>3. Means(cond, T, F)'
      BY <2>1 DEF TwoWay, Means, Destination
    <2>4. Known(cond, T, F, j)'
      BY <1>1, <2>2 DEF Known
    <2>5. TwoWay(cond, T, F, j)'
      BY <1>1, <2>1, <2>3, <2>4 DEF TwoWay, Settled
    <2> QED  BY <2>5 DEF Form
  <1> QED  BY <1>2, <1>3, <1>4 DEF Form

LEMMA StartIInv ==
  ASSUME IInv, PlaceBlock \/ TailDuplicate \/ FixCFG
  PROVE  IInv'
  <1>1. CASE PlaceBlock
    <2>1. Form'
      BY <1>1, StartKeepsForm DEF IInv, PlaceBlock
    <2> QED  BY <1>1, <2>1 DEF IInv, Typed, PlaceBlock, StartAnalysis, Redirects
  <1>2. CASE FixCFG
    <2>1. Form'
      BY <1>2, StartKeepsForm DEF IInv, FixCFG
    <2> QED  BY <1>2, <2>1 DEF IInv, Typed, FixCFG, StartAnalysis, Redirects
  <1>3. CASE TailDuplicate
    <2>1. Form'
      BY <1>3, StartKeepsForm DEF IInv, TailDuplicate
    <2>2. PICK tail \in succs, target \in Blocks : tail # target /\ redirect' = <<tail, target>>
      BY <1>3 DEF TailDuplicate
    <2>3. Redirects'
      <3>1. succs \subseteq Blocks /\ succs' = succs
        BY <1>3 DEF IInv, Typed, TailDuplicate
      <3>2. redirect'[1] = tail /\ redirect'[2] = target /\ tail # NoBlock
        BY <2>2, <3>1, BranchAssumption
      <3> QED  BY <2>2, <3>1, <3>2 DEF Redirects
    <2> QED  BY <1>3, <2>1, <2>3 DEF IInv, Typed, TailDuplicate, StartAnalysis
  <1> QED  BY <1>1, <1>2, <1>3

-----------------------------------------------------------------------------
(* The loop of AnalyzeBranch *)

(* Which terminator an iteration looks at.                                 *)
LEMMA LookedAt ==
  ASSUME NEW cond \in Conditions, NEW T \in Blocks, NEW F \in Blocks, NEW j \in BOOLEAN,
         TwoWay(cond, T, F, j), Analyzing
  PROVE  LET n == Size(cond)
             G == IF j THEN F ELSE NoBlock
         IN  /\ n \in {1, 2} /\ (n = 2 <=> IsComplexCC(cond.cc))
             /\ \/ /\ j /\ I = n + 1 /\ code[I] = JMP(F)
                   /\ Analysed(n + 1, NoBlock, NoBlock, NoCondition)
                \/ /\ I = n /\ code[I] = BR_CC(simpleCC(cond.cc), cond.lhs, cond.rhs, T)
                   /\ Analysed(n, G, NoBlock, NoCondition)
                   /\ AllowModify /\ j => next # F
                \/ /\ n = 2 /\ I = 1 /\ code[I] = BR_CC("E", cond.lhs, cond.rhs, T)
                   /\ Analysed(1, T, G, Simple(cond))
                   /\ AllowModify /\ j => next # F
  <1> DEFINE n == Size(cond)  G == IF j THEN F ELSE NoBlock
  <1>1. /\ n \in {1, 2} /\ (n = 2 <=> IsComplexCC(cond.cc))
        /\ code[n] = BR_CC(simpleCC(cond.cc), cond.lhs, cond.rhs, T)
        /\ n = 2 => code[1] = BR_CC("E", cond.lhs, cond.rhs, T)
        /\ j => code[n + 1] = JMP(F)
    <2>1. code = Code(cond, T, F, j) /\ n = Size(cond)
      BY DEF TwoWay
    <2> HIDE DEF n
    <2> QED  BY <2>1, CodeParts
  <1>2. I > 0 /\ Known(cond, T, F, j)
    BY DEF TwoWay, Analyzing
  <1>3. CASE j /\ Analysed(n + 1, NoBlock, NoBlock, NoCondition)
    BY <1>1, <1>3 DEF Analysed
  <1>4. CASE Analysed(n, G, NoBlock, NoCondition) /\ (AllowModify /\ j => next # F)
    BY <1>1, <1>4 DEF Analysed
  <1>5. CASE n = 2 /\ Analysed(1, T, G, Simple(cond)) /\ (AllowModify /\ j => next # F)
    BY <1>1, <1>5 DEF Analysed
  <1>6. ~Analysed(0, T, G, cond)
    BY <1>2 DEF Analysed
  <1> QED  BY <1>2, <1>3, <1>4, <1>5, <1>6 DEF Known

(* The block with one successor has only a jump to look at.                *)
LEMMA JumpLookedAt ==
  ASSUME NEW b \in Blocks, NEW j \in BOOLEAN, OneWay(b, j), Analyzing
  PROVE  /\ j /\ I = 1 /\ code = <<JMP(b)>> /\ code[I] = JMP(b)
         /\ Analysed(1, NoBlock, NoBlock, NoCondition)
  <1>1. j /\ Analysed(1, NoBlock, NoBlock, NoCondition)
    BY DEF OneWay, Analyzing, Analysed
  <1> QED  BY <1>1 DEF OneWay, Analysed

LEMMA GivesUpIInv ==
  ASSUME IInv, AnalyzeGivesUp
  PROVE  IInv' /\ \A k \in DOMAIN code' : code'[k].op # "JMP"
  <1>1. /\ Analyzing /\ code[I].op \in {"RET", "Br"}
        /\ stage' = "stable" /\ UNCHANGED <<source, succs, next, code, redirect>>
        /\ UNCHANGED <<AllowModify, I, TBB, FBB, Cond>>
    BY DEF AnalyzeGivesUp, analysis
  <1>2. ASSUME NEW b \in Blocks, NEW j \in BOOLEAN, OneWay(b, j) PROVE FALSE
    BY <1>1, <1>2, JumpLookedAt, Fields
  <1>3. ASSUME NEW cond \in Conditions, NEW T \in Blocks, NEW F \in Blocks, NEW j \in BOOLEAN,
               TwoWay(cond, T, F, j)
        PROVE  FALSE
    BY <1>1, <1>3, LookedAt, Fields
  <1>4. PICK t \in {RET, IndirectBranch} : Leaves(t)
    BY <1>2, <1>3 DEF IInv, Form
  <1>5. Leaves(t)'
    BY <1>1, <1>4 DEF Leaves
  <1>6. code' = <<t>> /\ t.op # "JMP"
    BY <1>1, <1>4, Fields DEF Leaves
  <1> QED  BY <1>1, <1>5, <1>6 DEF IInv, Typed, Form

(* A jump: deleted if it goes to the next block and may be deleted.        *)
LEMMA JumpIInv ==
  ASSUME IInv, AnalyzeJump
  PROVE  IInv'
  <1>1. /\ Analyzing /\ code[I].op = "JMP"
        /\ UNCHANGED <<source, succs, next, stage, AllowModify, redirect>>
        /\ stage = "analyze"
    BY DEF AnalyzeJump, Analyzing
  <1>2. I' = I - 1
    BY DEF AnalyzeJump
  <1>3. \/ /\ ~AllowModify \/ next # code[I].target
           /\ TBB' = code[I].target
           /\ code' = code \/ code' = SubSeq(code, 1, I)
           /\ UNCHANGED <<FBB, Cond>> \/ (FBB' = NoBlock /\ Cond' = NoCondition)
        \/ /\ AllowModify /\ next = code[I].target
           /\ TBB' = NoBlock /\ FBB' = NoBlock /\ Cond' = NoCondition
           /\ code' = SubSeq(code, 1, I - 1)
    BY DEF AnalyzeJump, isLayoutSuccessor
  <1>4. ASSUME NEW b \in Blocks, NEW j \in BOOLEAN, OneWay(b, j) PROVE Form'
    <2>1. /\ j /\ I = 1 /\ code = <<JMP(b)>> /\ code[I].target = b
          /\ FBB = NoBlock /\ Cond = NoCondition
      BY <1>1, <1>4, JumpLookedAt, Fields DEF Analysed
    <2>2. CASE ~AllowModify \/ next # b
      <3>1. SubSeq(code, 1, 1) = code
        <4> DEFINE m == JMP(b)
        <4>1. code = <<m>>
          BY <2>1
        <4> HIDE DEF m
        <4>2. code \in Seq({m}) /\ Len(code) = 1
          BY <4>1
        <4> QED  BY <4>2, SubSeqFull
      <3>2. code' = code /\ TBB' = b /\ FBB' = NoBlock /\ Cond' = NoCondition /\ I' = 0
        BY <1>2, <1>3, <2>1, <2>2, <3>1
      <3>3. OneWay(b, TRUE)'
        BY <1>1, <1>4, <2>1, <2>2, <3>2 DEF OneWay, Settled, Analysed
      <3> QED  BY <3>3 DEF Form
    <2>3. CASE AllowModify /\ next = b
      <3>1. SubSeq(code, 1, 0) = <<>>
        BY SubSeqEmpty
      <3>2. code' = <<>> /\ TBB' = NoBlock /\ FBB' = NoBlock /\ Cond' = NoCondition /\ I' = 0
        BY <1>2, <1>3, <2>1, <2>3, <3>1
      <3>3. OneWay(b, FALSE)'
        BY <1>1, <1>4, <2>1, <2>3, <3>2 DEF OneWay, Settled, Analysed
      <3> QED  BY <3>3 DEF Form
    <2> QED  BY <2>2, <2>3
  <1>5. ASSUME NEW cond \in Conditions, NEW T \in Blocks, NEW F \in Blocks, NEW j \in BOOLEAN,
               TwoWay(cond, T, F, j)
        PROVE  Form'
    <2> DEFINE n == Size(cond)
    <2>1. /\ n \in {1, 2} /\ j /\ I = n + 1 /\ code[I].target = F
          /\ FBB = NoBlock /\ Cond = NoCondition
      BY <1>1, <1>5, LookedAt, Fields DEF Analysed
    <2>2. /\ Len(code) = n + 1 /\ SubSeq(code, 1, n + 1) = code
          /\ SubSeq(code, 1, n) = Code(cond, T, F, FALSE)
      <3>1. code = Code(cond, T, F, TRUE)
        BY <1>5, <2>1 DEF TwoWay
      <3> QED  BY <3>1, CodeShape
    <2>3. Means(cond, T, F)'
      BY <1>1, <1>5 DEF TwoWay, Means, Destination
    <2>4. CASE ~AllowModify \/ next # F
      <3>1. code' = code /\ TBB' = F /\ FBB' = NoBlock /\ Cond' = NoCondition /\ I' = n
        BY <1>2, <1>3, <2>1, <2>2, <2>4
      <3>2. Known(cond, T, F, TRUE)'
        BY <1>1, <2>4, <3>1 DEF Known, Analysed
      <3>3. TwoWay(cond, T, F, TRUE)'
        BY <1>1, <1>5, <2>1, <2>3, <3>1, <3>2 DEF TwoWay, Settled
      <3> QED  BY <3>3 DEF Form
    <2>5. CASE AllowModify /\ next = F
      <3>1. /\ code' = Code(cond, T, F, FALSE)
            /\ TBB' = NoBlock /\ FBB' = NoBlock /\ Cond' = NoCondition /\ I' = n
        <4>1. I - 1 = n
          <5> HIDE DEF n
          <5> QED  BY <2>1
        <4>2. code' = SubSeq(code, 1, I - 1) /\ TBB' = NoBlock /\ FBB' = NoBlock /\ Cond' = NoCondition
          BY <1>3, <2>1, <2>5
        <4> QED  BY <1>2, <2>2, <4>1, <4>2
      <3>2. Known(cond, T, F, FALSE)'
        BY <1>1, <3>1 DEF Known, Analysed
      <3>3. TwoWay(cond, T, F, FALSE)'
        BY <1>1, <1>5, <2>3, <2>5, <3>1, <3>2 DEF TwoWay, Settled
      <3> QED  BY <3>3 DEF Form
    <2> QED  BY <2>4, <2>5
  <1>6. ASSUME NEW t \in {RET, IndirectBranch}, Leaves(t) PROVE FALSE
    BY <1>1, <1>6, Fields DEF Leaves, Analyzing, Analysed
  <1>7. Form'
    BY <1>4, <1>5, <1>6 DEF IInv, Form
  <1> QED  BY <1>1, <1>7 DEF IInv, Typed, Redirects

(* The first comparison from the end: the successor that was known becomes *)
(* the false one.                                                          *)
LEMMA ConditionalIInv ==
  ASSUME IInv, AnalyzeConditional
  PROVE  IInv'
  <1>1. /\ Analyzing /\ code[I].op = "BR_CC" /\ Cond = NoCondition /\ stage = "analyze"
        /\ FBB' = TBB /\ TBB' = code[I].target /\ I' = I - 1
        /\ Cond' = Condition(code[I].cc, code[I].lhs, code[I].rhs)
        /\ UNCHANGED <<source, succs, next, code, stage, AllowModify, redirect>>
    BY DEF AnalyzeConditional, Analyzing
  <1>2. ASSUME NEW b \in Blocks, NEW j \in BOOLEAN, OneWay(b, j) PROVE FALSE
    BY <1>1, <1>2, JumpLookedAt, Fields
  <1>3. ASSUME NEW t \in {RET, IndirectBranch}, Leaves(t) PROVE FALSE
    BY <1>1, <1>3, Fields DEF Leaves, Analyzing, Analysed
  <1>4. PICK cond \in Conditions, T \in Blocks, F \in Blocks, j \in BOOLEAN : TwoWay(cond, T, F, j)
    BY <1>2, <1>3 DEF IInv, Form
  <1> DEFINE n == Size(cond)  G == IF j THEN F ELSE NoBlock
  <1>5. Simple(cond) # NoCondition
    BY ConditionFacts
  <1>6. /\ n \in {1, 2} /\ (n = 2 <=> IsComplexCC(cond.cc))
        /\ I = n /\ code[I] = BR_CC(simpleCC(cond.cc), cond.lhs, cond.rhs, T)
        /\ Analysed(n, G, NoBlock, NoCondition)
        /\ AllowModify /\ j => next # F
    BY <1>1, <1>4, <1>5, LookedAt, Fields DEF Analysed
  <1>7. TBB' = T /\ FBB' = G /\ Cond' = Simple(cond) /\ I' = n - 1
    BY <1>1, <1>6, Fields DEF Analysed, Simple
  <1>8. n = 1 => Simple(cond) = cond
    BY <1>6, ConditionFacts
  <1>9. Known(cond, T, F, j)'
    BY <1>1, <1>6, <1>7, <1>8 DEF Known, Analysed
  <1>10. Means(cond, T, F)'
    BY <1>1, <1>4 DEF TwoWay, Means, Destination
  <1>11. TwoWay(cond, T, F, j)'
    BY <1>1, <1>4, <1>9, <1>10 DEF TwoWay, Settled
  <1> QED  BY <1>1, <1>11 DEF IInv, Typed, Form, Redirects

(* The second: it can only be the comparison for equality of a condition   *)
(* that takes two, and gives that condition back.                          *)
LEMMA SecondConditionalIInv ==
  ASSUME IInv, AnalyzeSecondConditional
  PROVE  IInv'
  <1>1. /\ Analyzing /\ code[I].op = "BR_CC" /\ Cond # NoCondition /\ stage = "analyze"
        /\ I' = I - 1
        /\ UNCHANGED <<source, succs, next, code, TBB, FBB, AllowModify, redirect>>
    BY DEF AnalyzeSecondConditional, Analyzing
  <1>2. ASSUME NEW b \in Blocks, NEW j \in BOOLEAN, OneWay(b, j) PROVE FALSE
    BY <1>1, <1>2, JumpLookedAt, Fields
  <1>3. ASSUME NEW t \in {RET, IndirectBranch}, Leaves(t) PROVE FALSE
    BY <1>1, <1>3, Fields DEF Leaves, Analyzing, Analysed
  <1>4. PICK cond \in Conditions, T \in Blocks, F \in Blocks, j \in BOOLEAN : TwoWay(cond, T, F, j)
    BY <1>2, <1>3 DEF IInv, Form
  <1> DEFINE n == Size(cond)  G == IF j THEN F ELSE NoBlock
  <1>5. /\ IsComplexCC(cond.cc) /\ I = 1
        /\ code[I] = BR_CC("E", cond.lhs, cond.rhs, T)
        /\ TBB = T /\ FBB = G /\ Cond = Simple(cond)
        /\ AllowModify /\ j => next # F
    BY <1>1, <1>4, LookedAt, Fields DEF Analysed
  <1>6. /\ AcceptsAdditionalEqualityCheck(Cond.cc) /\ ~IsComplexCC(Cond.cc)
        /\ [Cond EXCEPT !.cc = WithEquality(@)] = cond
    BY <1>5, ConditionFacts
  <1>7. SameTypes(Cond, code[I])
    BY <1>5, Fields DEF SameTypes, SameType, Simple
  <1>8. stage' = "analyze" /\ Cond' = cond
    BY <1>1, <1>5, <1>6, <1>7, Fields DEF AnalyzeSecondConditional
  <1>9. Known(cond, T, F, j)'
    BY <1>1, <1>5, <1>8 DEF Known, Analysed
  <1>10. Means(cond, T, F)'
    BY <1>1, <1>4 DEF TwoWay, Means, Destination
  <1>11. TwoWay(cond, T, F, j)'
    BY <1>1, <1>4, <1>8, <1>9, <1>10 DEF TwoWay, Settled
  <1> QED  BY <1>1, <1>8, <1>11 DEF IInv, Typed, Form, Redirects

-----------------------------------------------------------------------------
(* What is done with the result *)

NoJumpToNext == \A k \in DOMAIN code : code[k].op = "JMP" => code[k].target # next

(* What an analysis has found when it ends.                                *)
LEMMA Found ==
  ASSUME Form, Analyzed
  PROVE  \/ \E b \in Blocks, j \in BOOLEAN :
               /\ OneWay(b, j)
               /\ Analysed(0, IF j THEN b ELSE NoBlock, NoBlock, NoCondition)
               /\ AllowModify /\ j => next # b
         \/ \E cond \in Conditions, T, F \in Blocks, j \in BOOLEAN :
               /\ TwoWay(cond, T, F, j)
               /\ Analysed(0, T, IF j THEN F ELSE NoBlock, cond)
               /\ AllowModify /\ j => next # F
  <1>1. I = 0 /\ stage = "analyze"
    BY DEF Analyzed
  <1>2. ASSUME NEW t \in {RET, IndirectBranch}, Leaves(t) PROVE FALSE
    BY <1>1, <1>2 DEF Leaves, Analysed
  <1>3. ASSUME NEW b \in Blocks, NEW j \in BOOLEAN, OneWay(b, j)
        PROVE  /\ Analysed(0, IF j THEN b ELSE NoBlock, NoBlock, NoCondition)
               /\ AllowModify /\ j => next # b
    BY <1>1, <1>3 DEF OneWay, Analysed
  <1>4. ASSUME NEW cond \in Conditions, NEW T \in Blocks, NEW F \in Blocks, NEW j \in BOOLEAN,
               TwoWay(cond, T, F, j)
        PROVE  /\ Analysed(0, T, IF j THEN F ELSE NoBlock, cond)
               /\ AllowModify /\ j => next # F
    <2>1. Size(cond) \in {1, 2}
      BY DEF Size
    <2> QED  BY <1>1, <1>4, <2>1 DEF TwoWay, Known, Analysed
  <1> QED  BY <1>2, <1>3, <1>4 DEF Form

(* The only jump of a block that compares.                                 *)
LEMMA CodeJump ==
  ASSUME NEW cond \in Conditions, NEW T, NEW F, NEW j \in BOOLEAN
  PROVE  \A k \in DOMAIN Code(cond, T, F, j) :
           Code(cond, T, F, j)[k].op = "JMP" => j /\ Code(cond, T, F, j)[k].target = F
  <1> DEFINE terms == Code(cond, T, F, j)  n == Size(cond)
  <1>0. terms = Code(cond, T, F, j) /\ n = Size(cond)
    OBVIOUS
  <1> HIDE DEF n, terms
  <1>1. /\ n \in {1, 2} /\ DOMAIN terms = 1..Len(terms) /\ Len(terms) = (IF j THEN n + 1 ELSE n)
        /\ terms[n] = BR_CC(simpleCC(cond.cc), cond.lhs, cond.rhs, T)
        /\ n = 2 => terms[1] = BR_CC("E", cond.lhs, cond.rhs, T)
        /\ j => terms[n + 1] = JMP(F)
    BY <1>0, CodeParts
  <1>2. /\ terms[n].op = "BR_CC" /\ (n = 2 => terms[1].op = "BR_CC")
        /\ j => terms[n + 1].target = F
    <2>1. /\ \A cc, l, r : BR_CC(cc, l, r, T).op = "BR_CC"
          /\ JMP(F).target = F
      BY DEF BR_CC, JMP, Terminator
    <2> QED  BY <1>1, <2>1
  <1>3. ASSUME NEW k \in DOMAIN terms, terms[k].op = "JMP" PROVE j /\ terms[k].target = F
    <2>1. k # n /\ (n = 2 => k # 1)
      BY <1>2, <1>3
    <2>2. k \in 1..Len(terms) /\ Len(terms) = (IF j THEN n + 1 ELSE n) /\ n \in {1, 2}
      BY <1>1, <1>3
    <2>3. j /\ k = n + 1
      BY <2>1, <2>2
    <2> QED  BY <1>2, <2>3
  <1> QED  BY <1>3 DEF terms

(* The two forms in which a block is left.                                 *)
LEMMA OneWayLeft ==
  ASSUME NEW b \in Blocks, stage' = "stable",
         code' = (IF next' = b THEN <<>> ELSE <<JMP(b)>>),
         source'.trueBB = b, source'.falseBB = b, succs' = {b}
  PROVE  Form' /\ NoJumpToNext'
  <1>1. ASSUME NEW j \in BOOLEAN, j = (next' # b) PROVE OneWay(b, j)'
    BY <1>1 DEF OneWay
  <1>2. (next' # b) \in BOOLEAN
    OBVIOUS
  <1>3. Form'
    BY <1>1, <1>2 DEF Form
  <1>4. NoJumpToNext'
    <2>1. JMP(b).target = b
      BY Fields
    <2> QED  BY <2>1 DEF NoJumpToNext
  <1> QED  BY <1>3, <1>4

LEMMA TwoWayLeft ==
  ASSUME NEW cond \in Conditions, NEW T \in Blocks, NEW F \in Blocks, T # F, stage' = "stable",
         NEW j \in BOOLEAN, j <=> next' # F, code' = Code(cond, T, F, j),
         Means(cond, T, F)', succs' = {T, F}
  PROVE  Form' /\ NoJumpToNext'
  <1>1. TwoWay(cond, T, F, j)'
    BY DEF TwoWay
  <1>2. NoJumpToNext'
    BY CodeJump DEF NoJumpToNext
  <1> QED  BY <1>1, <1>2 DEF Form

(* What RemoveBranch and InsertBranch make of a block.                     *)
LEMMA OneWayRemoved ==
  ASSUME NEW b, NEW j \in BOOLEAN, OneWay(b, j)
  PROVE  RemoveBranch(code) = <<>>
  <1>1. \A k \in DOMAIN code : IsBranch(code[k])
    BY Fields DEF OneWay, IsBranch
  <1> QED  BY <1>1, AllRemoved

LEMMA UpdateOneWay ==
  ASSUME IInv, Update, NEW b \in Blocks, NEW j \in BOOLEAN, OneWay(b, j),
         Analysed(0, IF j THEN b ELSE NoBlock, NoBlock, NoCondition)
  PROVE  IInv' /\ NoJumpToNext'
  <1>1. UpdateUnconditional
    BY DEF Update, UpdateTwoWay, UpdateFallthrough, Analysed
  <1>2. /\ TBB = (IF j THEN b ELSE NoBlock) /\ b # NoBlock /\ succs = {b}
        /\ code = (IF j THEN <<JMP(b)>> ELSE <<>>)
        /\ RemoveBranch(code) = <<>>
    BY OneWayRemoved, BranchAssumption DEF Analysed, OneWay
  <1>3. <<>> \o InsertBranch(b, NoBlock, NoCondition) = <<JMP(b)>>
    BY ShortCode DEF InsertBranch
  <1>4. /\ stage' = "stable" /\ UNCHANGED <<source, succs, next, analysis, redirect>>
        /\ code' = (IF next = b THEN <<>> ELSE <<JMP(b)>>)
    BY <1>1, <1>2, <1>3 DEF UpdateUnconditional, Become, isLayoutSuccessor
  <1>5. Form' /\ NoJumpToNext'
    BY <1>4, OneWayLeft DEF OneWay
  <1> QED  BY <1>4, <1>5 DEF IInv, Typed, analysis

(* The update of a block that compares.  Three outcomes: the condition is  *)
(* reversed because the true successor follows, the false successor        *)
(* follows, or neither does and the jump to the false one is there.        *)
LEMMA UpdateCompares ==
  ASSUME IInv, Update, NEW cond \in Conditions, NEW T \in Blocks, NEW F \in Blocks,
         NEW j \in BOOLEAN, TwoWay(cond, T, F, j),
         Analysed(0, T, IF j THEN F ELSE NoBlock, cond)
  PROVE  /\ stage' = "stable" /\ UNCHANGED <<source, succs, next, analysis, redirect>>
         /\ \/ next = T /\ code' = Code(ReverseBranchCondition(cond), F, T, FALSE)
            \/ next # T /\ code' = Code(cond, T, F, next # F)
  <1>1. /\ TBB = T /\ FBB = (IF j THEN F ELSE NoBlock) /\ Cond = cond /\ cond # NoCondition
        /\ T # F /\ F # NoBlock /\ succs = {T, F}
        /\ code = Code(cond, T, F, j) /\ RemoveBranch(code) = <<>>
    BY ConditionFacts, CodeRemoved, BranchAssumption DEF TwoWay, Analysed
  <1> DEFINE rev == ReverseBranchCondition(cond)
  <1>2. rev \in Conditions
    BY Reversed DEF TwoWay
  <1> HIDE DEF rev
  <1>3. /\ <<>> \o InsertBranch(F, NoBlock, rev) = Code(rev, F, T, FALSE)
        /\ MayInsertBranch(F, NoBlock, rev)
    <2>1. /\ <<>> \o InsertBranch(F, NoBlock, rev) = Code(rev, F, NoBlock, NoBlock # NoBlock)
          /\ MayInsertBranch(F, NoBlock, rev)
      BY <1>2, Inserted
    <2>2. Code(rev, F, NoBlock, FALSE) = Code(rev, F, T, FALSE)
      BY CodeWithout
    <2> QED  BY <2>1, <2>2
  <1>4. /\ <<>> \o InsertBranch(T, NoBlock, cond) = Code(cond, T, F, FALSE)
        /\ MayInsertBranch(T, NoBlock, cond)
    <2>1. /\ <<>> \o InsertBranch(T, NoBlock, cond) = Code(cond, T, NoBlock, NoBlock # NoBlock)
          /\ MayInsertBranch(T, NoBlock, cond)
      BY Inserted
    <2>2. Code(cond, T, NoBlock, FALSE) = Code(cond, T, F, FALSE)
      BY CodeWithout
    <2> QED  BY <2>1, <2>2
  <1>5. /\ <<>> \o InsertBranch(T, F, cond) = Code(cond, T, F, TRUE)
        /\ MayInsertBranch(T, F, cond)
    <2>1. /\ <<>> \o InsertBranch(T, F, cond) = Code(cond, T, F, F # NoBlock)
          /\ MayInsertBranch(T, F, cond)
      BY Inserted
    <2> QED  BY <1>1, <2>1
  <1>6. CASE j
    <2>1. UpdateTwoWay
      BY <1>1, <1>6 DEF Update, UpdateUnconditional, UpdateFallthrough
    <2>2. CASE next = T
      <3>1. Rewrite(F, NoBlock, rev)
        BY <1>1, <1>6, <2>1, <2>2 DEF UpdateTwoWay, isLayoutSuccessor, rev
      <3> QED  BY <1>1, <1>3, <2>2, <3>1 DEF Rewrite, rev
    <2>3. CASE next # T /\ next = F
      <3>1. Rewrite(T, NoBlock, cond)
        BY <1>1, <1>6, <2>1, <2>3 DEF UpdateTwoWay, isLayoutSuccessor
      <3> QED  BY <1>1, <1>4, <2>3, <3>1 DEF Rewrite
    <2>4. CASE next # T /\ next # F
      <3>1. Become(code)
        BY <1>1, <1>6, <2>1, <2>4 DEF UpdateTwoWay, isLayoutSuccessor
      <3> QED  BY <1>1, <1>6, <2>4, <3>1 DEF Become
    <2> QED  BY <2>2, <2>3, <2>4
  <1>7. CASE ~j
    <2>1. UpdateFallthrough
      BY <1>1, <1>7 DEF Update, UpdateUnconditional, UpdateTwoWay
    <2>2. FallthroughBB = F
      BY <1>1 DEF FallthroughBB
    <2>3. CASE next = T
      <3>1. Rewrite(F, NoBlock, rev)
        BY <1>1, <1>7, <2>1, <2>2, <2>3 DEF UpdateFallthrough, isLayoutSuccessor, rev
      <3> QED  BY <1>1, <1>3, <2>3, <3>1 DEF Rewrite, rev
    <2>4. CASE next # T /\ next = F
      <3>1. Become(code)
        BY <1>1, <1>7, <2>1, <2>2, <2>4 DEF UpdateFallthrough, isLayoutSuccessor
      <3> QED  BY <1>1, <1>7, <2>4, <3>1 DEF Become
    <2>5. CASE next # T /\ next # F
      <3>1. Rewrite(T, F, cond)
        BY <1>1, <1>7, <2>1, <2>2, <2>5 DEF UpdateFallthrough, isLayoutSuccessor
      <3> QED  BY <1>1, <1>5, <2>5, <3>1 DEF Rewrite
    <2> QED  BY <2>3, <2>4, <2>5
  <1> QED  BY <1>6, <1>7

LEMMA UpdateIInv ==
  ASSUME IInv, Update
  PROVE  IInv' /\ NoJumpToNext'
  <1>1. Analyzed
    BY DEF Update, UpdateUnconditional, UpdateTwoWay, UpdateFallthrough, Updating
  <1>2. ASSUME NEW cond \in Conditions, NEW T \in Blocks, NEW F \in Blocks, NEW j \in BOOLEAN,
               TwoWay(cond, T, F, j), Analysed(0, T, IF j THEN F ELSE NoBlock, cond)
        PROVE  IInv' /\ NoJumpToNext'
    <2>1. /\ stage' = "stable" /\ UNCHANGED <<source, succs, next, analysis, redirect>>
          /\ \/ next = T /\ code' = Code(ReverseBranchCondition(cond), F, T, FALSE)
             \/ next # T /\ code' = Code(cond, T, F, next # F)
      BY <1>2, UpdateCompares
    <2>2. T # F /\ succs = {T, F} /\ Means(cond, T, F)
      BY <1>2 DEF TwoWay
    <2>3. \A c, x, y : Means(c, x, y) => Means(c, x, y)'
      BY <2>1 DEF Means, Destination
    <2>4. Form' /\ NoJumpToNext'
      <3>1. CASE next = T /\ code' = Code(ReverseBranchCondition(cond), F, T, FALSE)
        <4> DEFINE rev == ReverseBranchCondition(cond)
        <4>1. rev \in Conditions /\ Means(rev, F, T)'
          BY <2>2, <2>3, Reversed
        <4>2. succs' = {F, T}
          BY <2>1, <2>2
        <4> QED  BY <2>1, <2>2, <3>1, <4>1, <4>2, TwoWayLeft
      <3>2. CASE next # T /\ code' = Code(cond, T, F, next # F)
        <4>1. (next # F) \in BOOLEAN
          OBVIOUS
        <4> QED  BY <2>1, <2>2, <2>3, <3>2, <4>1, TwoWayLeft
      <3> QED  BY <2>1, <3>1, <3>2
    <2> QED  BY <2>1, <2>4 DEF IInv, Typed, analysis
  <1> QED  BY <1>1, <1>2, Found, UpdateOneWay DEF IInv

(* Tail duplication sends the edges to one successor elsewhere, both of    *)
(* them if the other destination is the new one.                           *)
LEMMA DuplicateOneWay ==
  ASSUME IInv, DuplicateSimpleBB, NEW b \in Blocks, NEW j \in BOOLEAN, OneWay(b, j),
         Analysed(0, IF j THEN b ELSE NoBlock, NoBlock, NoCondition)
  PROVE  IInv' /\ NoJumpToNext'
  <1> DEFINE c == Redirected(b)
  <1>1. /\ redirect[1] = b /\ redirect[2] \in Blocks /\ redirect[1] # redirect[2]
        /\ stage = "analyze" /\ AllowModify /\ succs = {b}
        /\ source.trueBB = b /\ source.falseBB = b
    BY DEF DuplicateSimpleBB, Duplicating, Analyzed, IInv, Redirects, OneWay
  <1>2. c = redirect[2] /\ c \in Blocks
    BY <1>1 DEF Redirected
  <1>3. PredTBB = c /\ PredFBB = c
    <2>1. Explicit(TBB) = b
      BY <1>1, BranchAssumption DEF Analysed, OneWay, Settled, Explicit
    <2> QED  BY <2>1 DEF PredTBB, PredFBB, Analysed
  <1>4. RemoveBranch(code) = <<>>
    BY OneWayRemoved
  <1>5. /\ <<>> \o InsertBranch(c, NoBlock, NoCondition) = <<JMP(c)>>
        /\ MayInsertBranch(c, NoBlock, NoCondition)
        /\ <<>> \o <<>> = <<>>
    <2>1. <<>> \o <<>> = <<>>
      BY <<>> \in Seq({}), ConcatEmptySeq
    <2>2. InsertBranch(c, NoBlock, NoCondition) = <<JMP(c)>> /\ MayInsertBranch(c, NoBlock, NoCondition)
      BY <1>2, BranchAssumption DEF InsertBranch, MayInsertBranch
    <2> HIDE DEF c
    <2> QED  BY <2>1, <2>2, ShortCode
  <1> HIDE DEF c
  <1>6. /\ code' = (IF next = c THEN <<>> ELSE <<JMP(c)>>) /\ stage' = "stable"
        /\ UNCHANGED <<next, analysis, redirect>>
    BY <1>2, <1>3, <1>4, <1>5 DEF DuplicateSimpleBB, isLayoutSuccessor
  <1>7. /\ succs' = {c} /\ source'.trueBB = c /\ source'.falseBB = c
        /\ {"cond", "lhs", "rhs", "trueBB", "falseBB"} \subseteq DOMAIN source'
    <2>1. source' = [source EXCEPT !.trueBB = c, !.falseBB = c]
      BY <1>1 DEF DuplicateSimpleBB, c
    <2>2. /\ {"cond", "lhs", "rhs", "trueBB", "falseBB"} \subseteq DOMAIN source
          /\ DOMAIN source' = DOMAIN source
      BY <2>1 DEF IInv, Typed
    <2>3. source'.trueBB = c /\ source'.falseBB = c
      BY <2>1, <2>2
    <2>4. succs' = {c}
      BY <1>1, <1>2 DEF DuplicateSimpleBB
    <2> QED  BY <2>2, <2>3, <2>4
  <1>8. Form' /\ NoJumpToNext'
    BY <1>2, <1>6, <1>7, OneWayLeft
  <1> QED  BY <1>2, <1>6, <1>7, <1>8 DEF IInv, Typed, analysis

(* The program follows the edges.                                          *)
LEMMA SourceRedirected ==
  ASSUME IInv, DuplicateSimpleBB
  PROVE  /\ {"cond", "lhs", "rhs", "trueBB", "falseBB"} \subseteq DOMAIN source'
         /\ source'.trueBB = Redirected(source.trueBB)
         /\ source'.falseBB = Redirected(source.falseBB)
         /\ source'.cond = source.cond /\ source'.lhs = source.lhs /\ source'.rhs = source.rhs
  <1> DEFINE t == Redirected(source.trueBB)  f == Redirected(source.falseBB)
  <1>1. source' = [source EXCEPT !.trueBB = t, !.falseBB = f]
    BY DEF DuplicateSimpleBB
  <1>2. {"cond", "lhs", "rhs", "trueBB", "falseBB"} \subseteq DOMAIN source
    BY DEF IInv, Typed
  <1> HIDE DEF t, f
  <1>3. /\ source'.trueBB = t /\ source'.falseBB = f /\ source'.cond = source.cond
        /\ source'.lhs = source.lhs /\ source'.rhs = source.rhs
    BY <1>1, <1>2
  <1>4. {"cond", "lhs", "rhs", "trueBB", "falseBB"} \subseteq DOMAIN source'
    BY <1>1, <1>2
  <1> QED  BY <1>3, <1>4 DEF t, f

LEMMA DuplicateTwoWay ==
  ASSUME IInv, DuplicateSimpleBB, NEW cond \in Conditions, NEW T \in Blocks, NEW F \in Blocks,
         NEW j \in BOOLEAN, TwoWay(cond, T, F, j),
         Analysed(0, T, IF j THEN F ELSE NoBlock, cond)
  PROVE  IInv' /\ NoJumpToNext'
  <1>1. /\ redirect[1] \in {T, F} /\ redirect[2] \in Blocks
        /\ AllowModify /\ succs = {T, F} /\ T # F
    BY DEF DuplicateSimpleBB, Duplicating, Analyzed, IInv, Redirects, TwoWay
  <1>a. PICK c \in Blocks : c = Redirected(T)
    BY <1>1 DEF Redirected
  <1>b. PICK d \in Blocks : d = Redirected(F)
    BY <1>1 DEF Redirected
  <1> DEFINE fbb == IF d = next THEN NoBlock ELSE d
  <1>2. succs' = {c, d}
    BY <1>1, <1>a, <1>b DEF Redirected, DuplicateSimpleBB
  <1>3. PredTBB = c /\ PredFBB = d /\ Cond = cond /\ cond # NoCondition
    <2>1. Explicit(TBB) = T
      BY BranchAssumption DEF Analysed, Explicit
    <2>2. Cond = cond /\ cond # NoCondition
      BY ConditionFacts DEF Analysed
    <2>3. Explicit(FBB) = F
      BY <1>1, BranchAssumption DEF Analysed, TwoWay, Settled, Explicit
    <2> QED  BY <1>a, <1>b, <2>1, <2>2, <2>3 DEF PredTBB, PredFBB
  <1>4. RemoveBranch(code) = <<>> /\ <<>> \o <<>> = <<>>
    <2>1. <<>> \o <<>> = <<>>
      BY <<>> \in Seq({}), ConcatEmptySeq
    <2> QED  BY <2>1, CodeRemoved DEF TwoWay
  <1>5. /\ source.trueBB \in {T, F} /\ source.falseBB \in {T, F}
        /\ \A env \in Envs : Destination(env) = IF Holds(cond.cc, env[cond.lhs], env[cond.rhs])
                                                THEN T ELSE F
    BY DEF TwoWay, Means
  <1>6. /\ {"cond", "lhs", "rhs", "trueBB", "falseBB"} \subseteq DOMAIN source'
        /\ UNCHANGED <<next, analysis, redirect>>
    BY SourceRedirected DEF DuplicateSimpleBB
  <1>7. CASE c = d
    <2>1. /\ <<>> \o InsertBranch(c, NoBlock, NoCondition) = <<JMP(c)>>
          /\ MayInsertBranch(c, NoBlock, NoCondition)
      BY <1>2, Inserted
    <2>2. source'.trueBB = c /\ source'.falseBB = c
      BY <1>5, <1>7, <1>a, <1>b, SourceRedirected
    <2>3. code' = (IF next = c THEN <<>> ELSE <<JMP(c)>>) /\ stage' = "stable"
      BY <1>2, <1>3, <1>4, <1>7, <2>1 DEF DuplicateSimpleBB, isLayoutSuccessor
    <2>4. succs' = {c}
      BY <1>2, <1>7
    <2>5. Form' /\ NoJumpToNext'
      BY <1>2, <1>6, <2>2, <2>3, <2>4, OneWayLeft
    <2> QED  BY <1>2, <1>6, <2>3, <2>4, <2>5 DEF IInv, Typed, analysis
  <1>8. CASE c # d
    <2>1. fbb \in Blocks \cup {NoBlock} /\ (fbb # NoBlock <=> next # d) /\ fbb \in {NoBlock, d}
      BY <1>2, BranchAssumption
    <2>2. ~(c = next /\ fbb = NoBlock)
      BY <1>8, <2>1
    <2>3. fbb = IF PredFBB \in {PredTBB, next} THEN NoBlock ELSE PredFBB
      BY <1>3, <1>8
    <2>4. code' = <<>> \o InsertBranch(c, fbb, cond)
          /\ stage' = IF MayInsertBranch(c, fbb, cond) THEN "stable" ELSE "unreachable"
      BY <1>3, <1>4, <1>8, <2>2, <2>3 DEF DuplicateSimpleBB, isLayoutSuccessor
    <2>5. /\ <<>> \o InsertBranch(c, fbb, cond) = Code(cond, c, fbb, fbb # NoBlock)
          /\ MayInsertBranch(c, fbb, cond)
      <3> HIDE DEF fbb
      <3> QED  BY <1>2, <2>1, Inserted
    <2>6. Code(cond, c, fbb, fbb # NoBlock) = Code(cond, c, d, next # d)
      <3>1. CASE next = d
        BY <2>1, <3>1 DEF Code
      <3>2. CASE next # d
        BY <2>1, <3>2
      <3> QED  BY <3>1, <3>2
    <2>7. Means(cond, c, d)'
      <3>1. source'.trueBB \in {c, d} /\ source'.falseBB \in {c, d}
        BY <1>5, <1>a, <1>b, SourceRedirected
      <3>2. \A env \in Envs :
              Destination(env)' = IF Holds(cond.cc, env[cond.lhs], env[cond.rhs]) THEN c ELSE d
        <4> TAKE env \in Envs
        <4>1. Destination(env)' = Redirected(Destination(env))
          BY SourceRedirected DEF Destination
        <4> QED  BY <1>5, <1>a, <1>b, <4>1
      <3> QED  BY <3>1, <3>2 DEF Means
    <2> HIDE DEF fbb
    <2>8. (next # d) \in BOOLEAN
      OBVIOUS
    <2>9. Form' /\ NoJumpToNext'
      BY <1>2, <1>6, <1>8, <2>4, <2>5, <2>6, <2>7, <2>8, TwoWayLeft
    <2> QED  BY <1>2, <1>6, <2>4, <2>5, <2>9 DEF IInv, Typed, analysis
  <1> QED  BY <1>7, <1>8

LEMMA DuplicateIInv ==
  ASSUME IInv, DuplicateSimpleBB
  PROVE  IInv' /\ NoJumpToNext'
  <1>1. Analyzed
    BY DEF DuplicateSimpleBB, Duplicating
  <1> QED  BY <1>1, Found, DuplicateOneWay, DuplicateTwoWay DEF IInv

(* The correction of the CFG finds the edges that the block has.           *)
LEMMA CorrectIInv ==
  ASSUME IInv, CorrectExtraCFGEdges
  PROVE  IInv' /\ NoJumpToNext'
  <1>1. Analyzed /\ AllowModify /\ UNCHANGED <<source, next, code, analysis, redirect>>
    BY DEF CorrectExtraCFGEdges
  <1>2. ASSUME NEW b \in Blocks, NEW j \in BOOLEAN, OneWay(b, j),
               Analysed(0, IF j THEN b ELSE NoBlock, NoBlock, NoCondition), j => next # b
        PROVE  IInv' /\ NoJumpToNext'
    <2>1. Explicit(TBB) = b /\ Cond = NoCondition /\ FBB = NoBlock
      BY <1>1, <1>2, BranchAssumption DEF Analysed, OneWay, Settled, Explicit
    <2>2. succs' = {b} /\ stage' = "stable"
      BY <1>2, <2>1 DEF CorrectExtraCFGEdges, OneWay
    <2>3. code' = IF next' = b THEN <<>> ELSE <<JMP(b)>>
      BY <1>1, <1>2 DEF OneWay, Settled
    <2>4. source'.trueBB = b /\ source'.falseBB = b
      BY <1>1, <1>2 DEF OneWay
    <2>5. Form' /\ NoJumpToNext'
      BY <2>2, <2>3, <2>4, OneWayLeft
    <2> QED  BY <1>1, <2>2, <2>5 DEF IInv, Typed, analysis
  <1>3. ASSUME NEW cond \in Conditions, NEW T \in Blocks, NEW F \in Blocks, NEW j \in BOOLEAN,
               TwoWay(cond, T, F, j), Analysed(0, T, IF j THEN F ELSE NoBlock, cond),
               j => next # F
        PROVE  IInv' /\ NoJumpToNext'
    <2>1. TBB = T /\ Cond = cond /\ cond # NoCondition /\ T # NoBlock
      BY <1>3, ConditionFacts, BranchAssumption DEF Analysed
    <2>2. Explicit(TBB) = T /\ Explicit(FBB) = F
      BY <1>1, <1>3, <2>1, BranchAssumption DEF Analysed, TwoWay, Settled, Explicit
    <2>3. succs' = {T, F} /\ stage' = "stable"
      BY <1>3, <2>1, <2>2 DEF CorrectExtraCFGEdges, TwoWay
    <2>4. j <=> next' # F
      BY <1>1, <1>3 DEF TwoWay, Settled
    <2>5. Means(cond, T, F)' /\ code' = Code(cond, T, F, j) /\ T # F
      BY <1>1, <1>3 DEF TwoWay, Means, Destination
    <2>6. Form' /\ NoJumpToNext'
      BY <2>3, <2>4, <2>5, TwoWayLeft
    <2> QED  BY <1>1, <2>3, <2>6 DEF IInv, Typed, analysis
  <1> QED  BY <1>1, <1>2, <1>3, Found DEF IInv

LEMMA NextIInv == IInv /\ [Next]_vars => IInv'
<1> SUFFICES ASSUME IInv, [Next]_vars PROVE IInv'
  OBVIOUS
<1>1. CASE PlaceBlock \/ TailDuplicate \/ FixCFG
  BY <1>1, StartIInv
<1>2. CASE Analyze
  BY <1>2, GivesUpIInv, JumpIInv, ConditionalIInv, SecondConditionalIInv DEF Analyze
<1>3. CASE UseAnalysis
  BY <1>3, UpdateIInv, DuplicateIInv, CorrectIInv DEF UseAnalysis
<1>4. CASE UNCHANGED vars
  BY <1>4 DEF vars, analysis, IInv, Typed, Redirects, Form, Leaves, OneWay, TwoWay, Settled,
     Known, Analysed, Means, Destination
<1> QED  BY <1>1, <1>2, <1>3, <1>4 DEF Next

-----------------------------------------------------------------------------
(* The theorems *)

(* Whatever the passes do with a block that compares and has two           *)
(* successors, or one successor, or none, it keeps its form, and the       *)
(* analysis knows after each iteration what the form says it knows.        *)
THEOREM TerminatorsInvariant ==
  ASSUME DistinctSuccessors
  PROVE  Spec => []IInv
<1>1. Init => IInv
  BY InitIInv
<1> QED  BY <1>1, NextIInv, PTL DEF Spec

(* No llvm_unreachable and no assertion of the hooks is reached.           *)
THEOREM HooksNeverUnreachable ==
  ASSUME DistinctSuccessors
  PROVE  Spec => []NeverUnreachable
<1>1. IInv => NeverUnreachable
  BY DEF IInv, Typed, NeverUnreachable
<1>2. Spec => []IInv
  BY TerminatorsInvariant
<1> QED  BY <1>1, <1>2, PTL

LEMMA LeavingGoesTo ==
  ASSUME NEW t, t.op # "BR_CC", NEW fall, NEW env
  PROVE  GoesTo(<<t>>, fall, env, t.target)
  BY OneBranch DEF Taken

(* Where control goes from a block in one of the three forms.              *)
LEMMA FormGoesTo ==
  ASSUME NEW env \in Envs
  PROVE  /\ \A b \in Blocks, j \in BOOLEAN :
              OneWay(b, j) /\ (j \/ next = b) => GoesTo(code, next, env, b)
         /\ \A cond \in Conditions, T, F \in Blocks, j \in BOOLEAN :
              TwoWay(cond, T, F, j)
                => GoesTo(code, next, env,
                          IF Holds(cond.cc, env[cond.lhs], env[cond.rhs]) THEN T
                          ELSE IF j THEN F ELSE next)
  <1>1. ASSUME NEW b \in Blocks, NEW j \in BOOLEAN, OneWay(b, j), j \/ next = b
        PROVE  GoesTo(code, next, env, b)
    <2>1. CASE j
      <3>1. code = <<JMP(b)>>
        BY <1>1, <2>1 DEF OneWay
      <3>2. GoesTo(<<JMP(b)>>, next, env, JMP(b).target)
        BY LeavingGoesTo, Fields
      <3> QED  BY <3>1, <3>2, Fields
    <2>2. CASE ~j
      <3>1. code = <<>> /\ next = b
        BY <1>1, <2>2 DEF OneWay
      <3>2. DOMAIN code = {}
        BY <3>1
      <3> QED  BY <3>1, <3>2 DEF GoesTo
    <2> QED  BY <2>1, <2>2
  <1>2. ASSUME NEW cond \in Conditions, NEW T \in Blocks, NEW F \in Blocks, NEW j \in BOOLEAN,
               TwoWay(cond, T, F, j)
        PROVE  GoesTo(code, next, env,
                      IF Holds(cond.cc, env[cond.lhs], env[cond.rhs]) THEN T
                      ELSE IF j THEN F ELSE next)
    <2>1. code = Code(cond, T, F, j)
      BY <1>2 DEF TwoWay
    <2> QED  BY <2>1, CodeGoesTo
  <1> QED  BY <1>1, <1>2

(* However often blocks are moved and edges redirected, control leaves the *)
(* block for the successor that the comparison of the program selects, for *)
(* all values of the operands and words of every width.                    *)
THEOREM BranchesStayFaithful ==
  ASSUME DistinctSuccessors
  PROVE  Spec => []BranchesFaithful
<1>1. IInv => BranchesFaithful
  <2> SUFFICES ASSUME IInv, stage = "stable", NEW env \in Envs
               PROVE  GoesTo(code, next, env, Destination(env))
    BY DEF BranchesFaithful
  <2>1. ASSUME NEW t \in {RET, IndirectBranch}, Leaves(t)
        PROVE  GoesTo(code, next, env, Destination(env))
    <3>1. t.op # "BR_CC" /\ t.target = NoBlock
      BY DEF RET, IndirectBranch, Terminator
    <3>2. code = <<t>> /\ Destination(env) = NoBlock
      BY <2>1 DEF Leaves, Destination
    <3> QED  BY <3>1, <3>2, LeavingGoesTo
  <2>2. ASSUME NEW b \in Blocks, NEW j \in BOOLEAN, OneWay(b, j)
        PROVE  GoesTo(code, next, env, Destination(env))
    <3>1. (j \/ next = b) /\ Destination(env) = b
      BY <2>2 DEF OneWay, Settled, Destination
    <3> QED  BY <2>2, <3>1, FormGoesTo
  <2>3. ASSUME NEW cond \in Conditions, NEW T \in Blocks, NEW F \in Blocks, NEW j \in BOOLEAN,
               TwoWay(cond, T, F, j)
        PROVE  GoesTo(code, next, env, Destination(env))
    <3>1. Destination(env) = IF Holds(cond.cc, env[cond.lhs], env[cond.rhs]) THEN T
                             ELSE IF j THEN F ELSE next
      BY <2>3 DEF TwoWay, Settled, Means
    <3>2. GoesTo(code, next, env,
                 IF Holds(cond.cc, env[cond.lhs], env[cond.rhs]) THEN T
                 ELSE IF j THEN F ELSE next)
      BY <2>3, FormGoesTo
    <3> QED  BY <3>1, <3>2
  <2> QED  BY <2>1, <2>2, <2>3 DEF IInv, Form
<1>2. Spec => []IInv
  BY TerminatorsInvariant
<1> QED  BY <1>1, <1>2, PTL

(* When AnalyzeBranch ends its results say where control goes.             *)
THEOREM AnalysisStaysFaithful ==
  ASSUME DistinctSuccessors
  PROVE  Spec => []AnalysisFaithful
<1>1. IInv => AnalysisFaithful
  <2> DEFINE Goes(env) == LET holds == Cond = NoCondition \/ Holds(Cond.cc, env[Cond.lhs], env[Cond.rhs])
                          IN  GoesTo(code, next, env, Explicit(IF holds THEN TBB ELSE FBB))
  <2> SUFFICES ASSUME IInv, Analyzed, NEW env \in Envs PROVE Goes(env)
    BY DEF AnalysisFaithful
  <2>1. ASSUME NEW b \in Blocks, NEW j \in BOOLEAN, OneWay(b, j),
               Analysed(0, IF j THEN b ELSE NoBlock, NoBlock, NoCondition)
        PROVE  Goes(env)
    <3>1. Cond = NoCondition /\ Explicit(TBB) = (IF j THEN b ELSE next)
      BY <2>1, BranchAssumption DEF Analysed, Explicit
    <3>2. GoesTo(code, next, env, IF j THEN b ELSE next)
      <4>1. CASE j
        BY <2>1, <4>1, FormGoesTo
      <4>2. CASE ~j
        <5>1. code = <<>>
          BY <2>1, <4>2 DEF OneWay
        <5>2. DOMAIN code = {}
          BY <5>1
        <5> QED  BY <4>2, <5>2 DEF GoesTo
      <4> QED  BY <4>1, <4>2
    <3> QED  BY <3>1, <3>2
  <2>2. ASSUME NEW cond \in Conditions, NEW T \in Blocks, NEW F \in Blocks, NEW j \in BOOLEAN,
               TwoWay(cond, T, F, j), Analysed(0, T, IF j THEN F ELSE NoBlock, cond)
        PROVE  Goes(env)
    <3>1. /\ Cond = cond /\ cond # NoCondition /\ Explicit(TBB) = T
          /\ Explicit(FBB) = (IF j THEN F ELSE next)
      BY <2>2, ConditionFacts, BranchAssumption DEF Analysed, Explicit
    <3>2. GoesTo(code, next, env,
                 IF Holds(cond.cc, env[cond.lhs], env[cond.rhs]) THEN T
                 ELSE IF j THEN F ELSE next)
      BY <2>2, FormGoesTo
    <3> QED  BY <3>1, <3>2
  <2> QED  BY <2>1, <2>2, Found DEF IInv
<1>2. Spec => []IInv
  BY TerminatorsInvariant
<1> QED  BY <1>1, <1>2, PTL

(* The terminators of a block that compares, one by one.                   *)
LEMMA CodeTerminators ==
  ASSUME NEW cond \in Conditions, NEW T, NEW F, NEW j \in BOOLEAN
  PROVE  LET terms == Code(cond, T, F, j)
         IN  /\ \A k \in DOMAIN terms : \/ terms[k].op = "BR_CC" /\ terms[k].target = T
                                        \/ j /\ terms[k].op = "JMP" /\ terms[k].target = F
             /\ \E k \in DOMAIN terms : terms[k].target = T
             /\ j => \E k \in DOMAIN terms : terms[k].op = "JMP" /\ terms[k].target = F
  <1> DEFINE terms == Code(cond, T, F, j)  n == Size(cond)
  <1>0. terms = Code(cond, T, F, j) /\ n = Size(cond)
    OBVIOUS
  <1> HIDE DEF n, terms
  <1>1. /\ n \in {1, 2} /\ DOMAIN terms = 1..Len(terms) /\ Len(terms) = (IF j THEN n + 1 ELSE n)
        /\ terms[n] = BR_CC(simpleCC(cond.cc), cond.lhs, cond.rhs, T)
        /\ n = 2 => terms[1] = BR_CC("E", cond.lhs, cond.rhs, T)
        /\ j => terms[n + 1] = JMP(F)
    BY <1>0, CodeParts
  <1>2. /\ terms[n].op = "BR_CC" /\ terms[n].target = T
        /\ n = 2 => terms[1].op = "BR_CC" /\ terms[1].target = T
        /\ j => terms[n + 1].op = "JMP" /\ terms[n + 1].target = F
    <2>1. /\ \A cc, l, r : BR_CC(cc, l, r, T).op = "BR_CC" /\ BR_CC(cc, l, r, T).target = T
          /\ JMP(F).op = "JMP" /\ JMP(F).target = F
      BY DEF BR_CC, JMP, Terminator
    <2> QED  BY <1>1, <2>1
  <1>3. DOMAIN terms = {k \in {1, n, n + 1} : k = n + 1 => j}
    <2>1. \A m \in Nat : 1..m = {k \in Nat : 1 <= k /\ k <= m}
      OBVIOUS
    <2>2. CASE n = 1
      BY <1>1, <2>1, <2>2
    <2>3. CASE n = 2
      BY <1>1, <2>1, <2>3
    <2> QED  BY <1>1, <2>2, <2>3
  <1>4. n \in DOMAIN terms /\ (j => n + 1 \in DOMAIN terms)
    BY <1>1, <1>3
  <1>5. n = 1 \/ n = 2
    BY <1>1
  <1> QED  BY <1>2, <1>3, <1>4, <1>5 DEF terms

(* The CFG has the edges the code has, no more and no fewer.               *)
THEOREM SuccessorsStayInStep ==
  ASSUME DistinctSuccessors
  PROVE  Spec => []SuccessorsMatchCode
<1>1. IInv => SuccessorsMatchCode
  <2> DEFINE Matches == /\ \A k \in DOMAIN code : IsBranch(code[k]) => code[k].target \in succs
                        /\ FallsThrough => next \in succs
                        /\ \A b \in succs : \/ FallsThrough /\ b = next
                                            \/ \E k \in DOMAIN code : code[k].target = b
  <2> SUFFICES ASSUME IInv, stage = "stable", \A k \in DOMAIN code : code[k].op # "Br"
               PROVE  Matches
    BY DEF SuccessorsMatchCode
  <2>1. ASSUME NEW t \in {RET, IndirectBranch}, Leaves(t) PROVE Matches
    <3>1. code = <<t>> /\ DOMAIN code = {1} /\ code[1] = t
      BY <2>1 DEF Leaves
    <3>2. t = RET /\ t.op = "RET" /\ succs = {}
      BY <2>1, <3>1 DEF Leaves, RET, IndirectBranch, Terminator
    <3> QED  BY <3>1, <3>2 DEF FallsThrough, IsBranch
  <2>2. ASSUME NEW b \in Blocks, NEW j \in BOOLEAN, OneWay(b, j) PROVE Matches
    <3>1. CASE j
      <4>1. DOMAIN code = {1} /\ code[1] = JMP(b) /\ succs = {b}
        BY <2>2, <3>1 DEF OneWay
      <4>2. code[1].op = "JMP" /\ code[1].target = b
        BY <4>1, Fields
      <4> QED  BY <4>1, <4>2 DEF FallsThrough
    <3>2. CASE ~j
      <4>1. DOMAIN code = {} /\ next = b /\ succs = {b}
        BY <2>2, <3>2 DEF OneWay, Settled
      <4> QED  BY <4>1 DEF FallsThrough
    <3> QED  BY <3>1, <3>2
  <2>3. ASSUME NEW cond \in Conditions, NEW T \in Blocks, NEW F \in Blocks, NEW j \in BOOLEAN,
               TwoWay(cond, T, F, j)
        PROVE  Matches
    <3>1. succs = {T, F} /\ (~j => next = F) /\ code = Code(cond, T, F, j)
      BY <2>3 DEF TwoWay, Settled
    <3>2. /\ \A k \in DOMAIN code : \/ code[k].op = "BR_CC" /\ code[k].target = T
                                    \/ j /\ code[k].op = "JMP" /\ code[k].target = F
          /\ \E k \in DOMAIN code : code[k].target = T
          /\ j => \E k \in DOMAIN code : code[k].op = "JMP" /\ code[k].target = F
      BY <3>1, CodeTerminators
    <3>3. FallsThrough <=> ~j
      BY <3>2 DEF FallsThrough
    <3> QED  BY <3>1, <3>2, <3>3
  <2> QED  BY <2>1, <2>2, <2>3 DEF IInv, Form
<1>2. Spec => []IInv
  BY TerminatorsInvariant
<1> QED  BY <1>1, <1>2, PTL

LEMMA AnalyzeMakesNoJumpStable ==
  ASSUME IInv, Analyze, stage' = "stable"
  PROVE  NoJumpToNext'
  <1>1. CASE AnalyzeGivesUp
    BY <1>1, GivesUpIInv DEF NoJumpToNext
  <1>2. CASE ~AnalyzeGivesUp
    BY <1>2 DEF Analyze, AnalyzeJump, AnalyzeConditional, AnalyzeSecondConditional, Analyzing
  <1> QED  BY <1>1, <1>2

(* No pass leaves a jump to the block that follows.                        *)
THEOREM NoJumpLeft ==
  ASSUME DistinctSuccessors
  PROVE  Spec => NoJumpToLayoutSuccessor
<1> DEFINE A == stage = "analyze" /\ stage' = "stable" =>
                  \A k \in DOMAIN code' : code'[k].op = "JMP" => code'[k].target # next'
<1>1. IInv /\ [Next]_vars => [A]_vars
  <2> SUFFICES ASSUME IInv, Next, stage = "analyze", stage' = "stable"
               PROVE  NoJumpToNext'
    BY DEF NoJumpToNext
  <2>1. CASE PlaceBlock \/ TailDuplicate \/ FixCFG
    BY <2>1 DEF PlaceBlock, TailDuplicate, FixCFG
  <2>2. CASE Analyze
    BY <2>2, AnalyzeMakesNoJumpStable
  <2>3. CASE UseAnalysis
    BY <2>3, UpdateIInv, DuplicateIInv, CorrectIInv DEF UseAnalysis
  <2> QED  BY <2>1, <2>2, <2>3 DEF Next
<1>2. Spec => []IInv
  BY TerminatorsInvariant
<1> QED  BY <1>1, <1>2, PTL DEF Spec, NoJumpToLayoutSuccessor

=============================================================================
