------------------------- MODULE FrameExecutionProofs -------------------------
(***************************************************************************)
(* Proofs about PrologEpilogInserter and FrameExecution, for every machine *)
(* function, stack and schedule.                                           *)
(*                                                                         *)
(* The pass searches the code for the pushes and pops that its earlier     *)
(* calls inserted, computes sums over the locals recursively and picks the *)
(* used registers out of a list.  The lemmas of the first part say what    *)
(* each of these operators returns; Compiled says what the pass has made   *)
(* of a function before each stage, in closed form; PassCompiles is that   *)
(* Compiled is an invariant, and the last lemmas of the part index the     *)
(* instructions of the result.                                             *)
(*                                                                         *)
(* ExecutionInvariant, in the second part, says for each of these          *)
(* instructions where the stack pointer is and what the registers and the  *)
(* stack hold when the processor is there.  One lemma per instruction      *)
(* shows that it takes one such place to the next; the properties of       *)
(* FrameExecution, and that it implements CallABI, follow from the         *)
(* invariant.                                                              *)
(***************************************************************************)
EXTENDS FrameExecution, FiniteSetTheorems, SequenceTheorems, TLAPS

-----------------------------------------------------------------------------
(***************************************************************************)
(* Recursive functions.  The library's induction theorems take an operator *)
(* as a parameter; induction over a set does not.                          *)
(***************************************************************************)

\* A set of naturals that is not empty has a least element.
LEMMA LeastNatural ==
    ASSUME NEW T \in SUBSET Nat, T # {}
    PROVE  \E x \in T : \A y \in T : x <= y
<1> DEFINE Less == {ss \in Nat \X Nat : ss[1] < ss[2]}
<1>1. IsWellFoundedOn(Less, Nat)
    BY NatLessThanWellFounded DEF OpToRel
<1>2. PICK x \in T : \A y \in T : <<y, x>> \notin Less
    BY <1>1, WFMin
<1>3. ASSUME NEW y \in T PROVE x <= y
    <2>1. x \in Nat /\ y \in Nat
        OBVIOUS
    <2>2. ~(y < x)
        BY <1>2, <2>1
    <2> QED BY <2>1, <2>2
<1> QED BY <1>3

\* A set that holds 0 and with n also n + 1 holds every natural.
LEMMA SetInduction ==
    ASSUME NEW S, 0 \in S, \A n \in Nat : n \in S => n + 1 \in S
    PROVE  Nat \subseteq S
<1> DEFINE T == Nat \ S
<1>1. SUFFICES ASSUME T # {} PROVE FALSE
    OBVIOUS
<1>2. PICK x \in T : \A y \in T : x <= y
    BY <1>1, LeastNatural
<1>3. x # 0 /\ x - 1 \in Nat
    BY <1>2
<1>4. x - 1 \in S
    BY <1>2, <1>3
<1> QED BY <1>2, <1>3, <1>4

Iterates(f, base, step, m) == f[0] = base /\ \A n \in 1 .. m : f[n] = step[n][f[n - 1]]

\* A function defined by recursion over 0 .. m exists.
LEMMA PrimitiveRecursion ==
    ASSUME NEW T, NEW base \in T, NEW m \in Nat, NEW step \in [1 .. m -> [T -> T]]
    PROVE  \E f \in [0 .. m -> T] : Iterates(f, base, step, m)
<1> USE DEF Iterates
<1> DEFINE Follows(f, k) == Iterates(f, base, step, k)
           S == {k \in Nat : k <= m => \E f \in [0 .. k -> T] : Follows(f, k)}
<1>1. 0 \in S
    <2> DEFINE f == [n \in 0 .. 0 |-> base]
    <2>1. f \in [0 .. 0 -> T] /\ Follows(f, 0)
        OBVIOUS
    <2> QED BY <2>1
<1>2. ASSUME NEW k \in Nat, k \in S PROVE k + 1 \in S
    <2>1. SUFFICES ASSUME k + 1 <= m PROVE \E g \in [0 .. k + 1 -> T] : Follows(g, k + 1)
        OBVIOUS
    <2>2. PICK f \in [0 .. k -> T] : Follows(f, k)
        BY <1>2, <2>1
    <2> DEFINE last == step[k + 1][f[k]]
               g == [n \in 0 .. k + 1 |-> IF n = k + 1 THEN last ELSE f[n]]
    <2>3. last \in T
        BY <2>1
    <2>4. g \in [0 .. k + 1 -> T]
        BY <2>3
    <2>5. ASSUME NEW n \in 1 .. k + 1 PROVE g[n] = step[n][g[n - 1]]
        <3>1. n - 1 \in 0 .. k /\ n \in 0 .. k + 1 /\ n - 1 # k + 1 /\ n - 1 \in 0 .. k + 1
            OBVIOUS
        <3>2. g[n - 1] = f[n - 1]
            BY <3>1
        <3>3. CASE n = k + 1
            <4>1. g[n] = last /\ n - 1 = k
                BY <3>1, <3>3
            <4> QED BY <3>2, <3>3, <4>1
        <3>4. CASE n # k + 1
            <4>1. g[n] = f[n] /\ n \in 1 .. k
                BY <3>1, <3>4
            <4> QED BY <2>2, <3>2, <4>1
        <3> QED BY <3>3, <3>4
    <2>6. g[0] = base
        BY <2>2
    <2> QED BY <2>4, <2>5, <2>6
<1>3. Nat \subseteq S
    <2> HIDE DEF S
    <2> QED BY <1>1, <1>2, SetInduction
<1> QED BY <1>3

\* The equations of WordsOf.
LEMMA WordsOfStep ==
    ASSUME NEW objects \in Seq(Nat)
    PROVE  /\ WordsOf(objects, 0) = 0
           /\ \A k \in 1 .. Len(objects) : WordsOf(objects, k) = WordsOf(objects, k - 1) + objects[k]
           /\ \A k \in 0 .. Len(objects) : WordsOf(objects, k) \in Nat
<1> DEFINE m == Len(objects)
           step == [n \in 1 .. m |-> [t \in Nat |-> t + objects[n]]]
           Is(f) == f = [n \in 0 .. m |-> IF n = 0 THEN 0 ELSE f[n - 1] + objects[n]]
           words == CHOOSE f : Is(f)
<1>1. 0 \in Nat /\ m \in Nat /\ step \in [1 .. m -> [Nat -> Nat]]
    OBVIOUS
<1>2. PICK f \in [0 .. m -> Nat] : f[0] = 0 /\ \A n \in 1 .. m : f[n] = step[n][f[n - 1]]
    <2> HIDE DEF step, m
    <2>2. \E f \in [0 .. m -> Nat] : Iterates(f, 0, step, m)
        BY <1>1, PrimitiveRecursion
    <2> QED BY <2>2 DEF Iterates
<1>3. ASSUME NEW n \in 1 .. m PROVE f[n] = f[n - 1] + objects[n]
    <2>1. n - 1 \in 0 .. m
        BY <1>1
    <2>3. f[n - 1] \in Nat
        BY <2>1
    <2>2. step[n][f[n - 1]] = f[n - 1] + objects[n]
        BY <2>3
    <2> QED BY <1>2, <2>2
<1>4. Is(f)
    BY <1>1, <1>2, <1>3
<1>5. Is(words)
    BY <1>4
<1>6. \A k : WordsOf(objects, k) = words[k]
    BY DEF WordsOf
<1>7. words[0] = 0 /\ \A k \in 1 .. m : words[k] = words[k - 1] + objects[k]
    <2> HIDE DEF words
    <2> QED BY <1>1, <1>5
<1> DEFINE S == {k \in Nat : k <= m => words[k] \in Nat}
<1>8. Nat \subseteq S
    <2>1. 0 \in S
        BY <1>7
    <2>2. ASSUME NEW k \in Nat, k \in S PROVE k + 1 \in S
        <3> HIDE DEF words
        <3>1. k + 1 <= m => words[k + 1] = words[k] + objects[k + 1] /\ objects[k + 1] \in Nat
            <4>1. CASE k + 1 <= m
                <5>1. k + 1 \in 1 .. m /\ k + 1 - 1 = k
                    BY <1>1, <4>1
                <5>2. objects[k + 1] \in Nat
                    BY <5>1
                <5> QED BY <1>7, <5>1, <5>2
            <4> QED BY <4>1
        <3>2. k + 1 <= m => words[k] \in Nat
            BY <1>1, <2>2
        <3> QED BY <1>1, <3>1, <3>2
    <2> HIDE DEF S
    <2> QED BY <2>1, <2>2, SetInduction
<1>9. \A k \in 0 .. m : words[k] \in Nat
    BY <1>1, <1>8
<1> HIDE DEF words
<1> QED BY <1>6, <1>7, <1>9

\* Appending an element adds it to the range.
LEMMA RangeOfAppend ==
    ASSUME NEW R, NEW s \in Seq(R), NEW x \in R
    PROVE  Append(s, x) \in Seq(R) /\ Range(Append(s, x)) = Range(s) \cup {x}
<1> DEFINE t == Append(s, x)
           n == Len(s)
<1>1. /\ t \in Seq(R) /\ Len(t) = n + 1 /\ n \in Nat
      /\ t[n + 1] = x /\ \A k \in 1 .. n : t[k] = s[k]
    BY AppendProperties, LenProperties
<1>2. DOMAIN t = 1 .. n + 1 /\ DOMAIN s = 1 .. n
    BY <1>1, LenProperties
<1> HIDE DEF t, n
<1>3. Range(t) = {t[k] : k \in 1 .. n + 1} /\ Range(s) = {s[k] : k \in 1 .. n}
    BY <1>2 DEF Range
<1>4. 1 .. n + 1 = (1 .. n) \cup {n + 1}
    BY <1>1
<1>5. {t[k] : k \in 1 .. n + 1} = {t[k] : k \in 1 .. n} \cup {t[n + 1]}
    BY <1>4
<1>6. {t[k] : k \in 1 .. n} = {s[k] : k \in 1 .. n}
    BY <1>1
<1> QED BY <1>1, <1>3, <1>5, <1>6 DEF t

\* UsedOf returns the elements of the list that are used.
LEMMA UsedOfRange ==
    ASSUME NEW R, NEW list \in Seq(R), NEW used
    PROVE  /\ UsedOf(list, used) \in Seq(R)
           /\ Range(UsedOf(list, used)) = Range(list) \cap used
<1> DEFINE m == Len(list)
           next(s, n) == IF list[n] \in used THEN Append(s, list[n]) ELSE s
           step == [n \in 1 .. m |-> [s \in Seq(R) |-> next(s, n)]]
           Is(f) == f = [k \in 0 .. m |-> IF k = 0 THEN <<>> ELSE next(f[k - 1], k)]
           upTo == CHOOSE f : Is(f)
<1>1. <<>> \in Seq(R) /\ m \in Nat /\ step \in [1 .. m -> [Seq(R) -> Seq(R)]]
    OBVIOUS
<1>2. PICK f \in [0 .. m -> Seq(R)] :
          f[0] = <<>> /\ \A n \in 1 .. m : f[n] = step[n][f[n - 1]]
    <2> HIDE DEF step, m
    <2>2. \E f \in [0 .. m -> Seq(R)] : Iterates(f, <<>>, step, m)
        BY <1>1, PrimitiveRecursion
    <2> QED BY <2>2 DEF Iterates
<1>6. UsedOf(list, used) = upTo[m]
    BY DEF UsedOf
<1> HIDE DEF m, next
<1>3. ASSUME NEW n \in 1 .. m
      PROVE  f[n] = next(f[n - 1], n)
    <2>1. n - 1 \in 0 .. m
        BY <1>1
    <2>2. f[n - 1] \in Seq(R)
        BY <2>1
    <2>3. step[n][f[n - 1]] = next(f[n - 1], n)
        BY <2>2
    <2> QED BY <1>2, <2>3
<1>4. Is(f)
    BY <1>1, <1>2, <1>3
<1>5. Is(upTo)
    BY <1>4
<1> HIDE DEF upTo
<1>7. upTo[0] = <<>> /\ \A n \in 1 .. m : upTo[n] = next(upTo[n - 1], n)
    BY <1>1, <1>5
<1> DEFINE Before(k) == {list[n] : n \in 1 .. k}
           S == {k \in Nat : k <= m => /\ upTo[k] \in Seq(R)
                                       /\ Range(upTo[k]) = Before(k) \cap used}
<1>8. Nat \subseteq S
    <2>1. 0 \in S
        <3>1. upTo[0] \in Seq(R) /\ Range(upTo[0]) = {}
            BY <1>7 DEF Range
        <3>2. Before(0) = {}
            OBVIOUS
        <3> QED BY <3>1, <3>2
    <2>2. ASSUME NEW k \in Nat, k \in S, k + 1 <= m
          PROVE  upTo[k + 1] \in Seq(R) /\ Range(upTo[k + 1]) = Before(k + 1) \cap used
        <3>1. k + 1 \in 1 .. m /\ k + 1 - 1 = k /\ k <= m
            BY <1>1, <2>2
        <3>2. list[k + 1] \in R
            BY <3>1, ElementOfSeq DEF m
        <3>3. upTo[k] \in Seq(R) /\ Range(upTo[k]) = Before(k) \cap used
            BY <2>2, <3>1
        <3>4. Before(k + 1) = Before(k) \cup {list[k + 1]}
            BY <3>1
        <3>7. upTo[k + 1] = next(upTo[k], k + 1)
            BY <1>7, <3>1
        <3>5. CASE list[k + 1] \in used
            <4>1. upTo[k + 1] = Append(upTo[k], list[k + 1])
                BY <3>7, <3>5 DEF next
            <4>2. upTo[k + 1] \in Seq(R) /\ Range(upTo[k + 1]) = Range(upTo[k]) \cup {list[k + 1]}
                BY <3>2, <3>3, <4>1, RangeOfAppend
            <4> HIDE DEF Before
            <4> QED BY <3>3, <3>4, <3>5, <4>2
        <3>6. CASE list[k + 1] \notin used
            <4>1. upTo[k + 1] = upTo[k]
                BY <3>7, <3>6 DEF next
            <4> HIDE DEF Before
            <4> QED BY <3>3, <3>4, <3>6, <4>1
        <3> QED BY <3>5, <3>6
    <2>3. ASSUME NEW k \in Nat, k \in S PROVE k + 1 \in S
        <3>1. SUFFICES ASSUME k + 1 <= m
                       PROVE  upTo[k + 1] \in Seq(R) /\ Range(upTo[k + 1]) = Before(k + 1) \cap used
            OBVIOUS
        <3> HIDE DEF S, Before
        <3> QED BY <2>2, <2>3, <3>1
    <2> HIDE DEF S
    <2> QED BY <2>1, <2>3, SetInduction
<1>9. Before(m) = Range(list)
    BY <1>1, LenProperties DEF Range, m
<1>10. m \in S
    BY <1>1, <1>8
<1> QED BY <1>1, <1>6, <1>9, <1>10

\* The maximum of a finite set of naturals is in it and bounds it.
LEMMA MaxOfFinite ==
    ASSUME NEW S \in SUBSET Nat, IsFiniteSet(S), S # {}
    PROVE  Max(S) \in S /\ \A n \in S : n <= Max(S)
<1>1. PICK seq \in Seq(S) : \A n \in S : \E k \in 1 .. Len(seq) : seq[k] = n
    BY DEF IsFiniteSet
<1>a. Len(seq) \in Nat /\ \A k \in 1 .. Len(seq) : seq[k] \in Nat
    BY LenProperties, ElementOfSeq
<1> DEFINE Bounded == {k \in Nat : k <= Len(seq) =>
                          \E b \in Nat : \A n \in 1 .. k : seq[n] <= b}
           Bounds == {b \in Nat : \A n \in S : n <= b}
<1>2. Nat \subseteq Bounded
    <2>1. 0 \in Bounded
        OBVIOUS
    <2>2. ASSUME NEW k \in Nat, k \in Bounded, k + 1 <= Len(seq)
          PROVE  \E b \in Nat : \A n \in 1 .. k + 1 : seq[n] <= b
        <3>1. PICK b \in Nat : \A n \in 1 .. k : seq[n] <= b
            BY <2>2
        <3>3. seq[k + 1] \in Nat
            BY <1>a, <2>2
        <3>4. ASSUME NEW n \in 1 .. k + 1 PROVE seq[n] <= b + seq[k + 1]
            <4>1. CASE n = k + 1
                BY <3>3, <4>1
            <4>2. CASE n \in 1 .. k
                <5>1. seq[n] <= b /\ seq[n] \in Nat
                    BY <1>a, <2>2, <3>1, <4>2
                <5> QED BY <3>3, <5>1
            <4> QED BY <4>1, <4>2
        <3>5. b + seq[k + 1] \in Nat
            BY <3>3
        <3> QED BY <3>4, <3>5
    <2>3. ASSUME NEW k \in Nat, k \in Bounded PROVE k + 1 \in Bounded
        <3>1. SUFFICES ASSUME k + 1 <= Len(seq)
                       PROVE  \E b \in Nat : \A n \in 1 .. k + 1 : seq[n] <= b
            OBVIOUS
        <3> HIDE DEF Bounded
        <3> QED BY <2>2, <2>3, <3>1
    <2> HIDE DEF Bounded
    <2> QED BY <2>1, <2>3, SetInduction
<1>3. Bounds # {}
    <2>1. PICK b \in Nat : \A n \in 1 .. Len(seq) : seq[n] <= b
        <3>1. Len(seq) \in Bounded
            BY <1>a, <1>2
        <3> QED BY <1>a, <3>1
    <2> QED BY <1>1, <2>1
<1>4. PICK b \in Bounds : \A c \in Bounds : b <= c
    BY <1>3, LeastNatural
<1>5. b \in S
    <2>1. SUFFICES ASSUME b \notin S PROVE FALSE
        OBVIOUS
    <2>2. b \in Nat /\ \A n \in S : n \in Nat /\ n <= b /\ n # b
        BY <1>4, <2>1
    <2>3. b # 0
        <3>1. PICK n \in S : TRUE
            OBVIOUS
        <3> QED BY <2>2, <3>1
    <2>4. b - 1 \in Bounds
        BY <1>4, <2>2, <2>3
    <2> QED BY <1>4, <2>4
<1>6. \E x \in S : \A y \in S : x >= y
    BY <1>4, <1>5
<1> QED BY <1>6 DEF Max

-----------------------------------------------------------------------------
(***************************************************************************)
(* The searches of emitPrologue and emitEpilogue.                          *)
(***************************************************************************)

\* What is before the last instruction of a block.
LEMMA FrontLast ==
    ASSUME NEW I, NEW s \in Seq(I), NEW x \in I
    PROVE  Front(s \o <<x>>) = s /\ Last(s \o <<x>>) = x
<1> DEFINE t == s \o <<x>>
           n == Len(s)
<1>1. <<x>> \in Seq(I) /\ Len(<<x>>) = 1 /\ <<x>>[1] = x
    OBVIOUS
<1>2. /\ t \in Seq(I) /\ Len(t) = n + 1 /\ n \in Nat
      /\ \A k \in 1 .. n : t[k] = s[k] /\ t[n + 1] = x
    BY <1>1, ConcatProperties, LenProperties
<1>3. SubSeq(t, 1, n) \in Seq(I) /\ Len(SubSeq(t, 1, n)) = n
      /\ \A k \in 1 .. n : SubSeq(t, 1, n)[k] = t[k]
    <2>1. \A k \in 1 .. n : t[k] \in I
        BY <1>2, ElementOfSeq
    <2> HIDE DEF t, n
    <2> QED BY <1>2, <2>1, SubSeqProperties
<1>4. SubSeq(t, 1, n) = s
    BY <1>2, <1>3, SeqEqual
<1> QED BY <1>2, <1>4 DEF Front, Last

\* Splitting a concatenation where its parts meet.
LEMMA SplitConcat ==
    ASSUME NEW I, NEW s \in Seq(I), NEW t \in Seq(I)
    PROVE  /\ SubSeq(s \o t, 1, Len(s)) = s
           /\ SubSeq(s \o t, Len(s) + 1, Len(s \o t)) = t
<1> DEFINE u == s \o t
           m == Len(s)
           n == Len(t)
           l == SubSeq(u, 1, m)
           r == SubSeq(u, m + 1, m + n)
<1>1. m \in Nat /\ n \in Nat /\ u \in Seq(I) /\ Len(u) = m + n
    BY ConcatProperties, LenProperties
<1>2. \A k \in 1 .. m + n : u[k] \in I /\ u[k] = IF k <= m THEN s[k] ELSE t[k - m]
    BY ConcatProperties, ElementOfSeq
<1>3. l \in Seq(I) /\ Len(l) = m /\ \A k \in 1 .. m : l[k] = u[k]
    <2>1. \A k \in 1 .. m : u[k] \in I
        BY <1>1, <1>2
    <2> HIDE DEF u, m
    <2> QED BY <1>1, <2>1, SubSeqProperties
<1>4. r \in Seq(I) /\ Len(r) = n /\ \A k \in 1 .. n : r[k] = u[m + k]
    <2>1. \A k \in m + 1 .. m + n : u[k] \in I
        BY <1>1, <1>2
    <2> HIDE DEF u, m, n
    <2>2. m + 1 \in Int /\ m + n \in Int /\ (m + n) - (m + 1) + 1 = n
        BY <1>1
    <2>3. /\ r \in Seq(I)
          /\ Len(r) = IF m + 1 <= m + n THEN (m + n) - (m + 1) + 1 ELSE 0
          /\ \A k \in 1 .. (m + n) - (m + 1) + 1 : r[k] = u[m + 1 + k - 1]
        BY <2>1, <2>2, SubSeqProperties
    <2> HIDE DEF r
    <2> QED BY <1>1, <2>3
<1>5. l = s
    <2>1. \A k \in 1 .. m : l[k] = s[k]
        BY <1>1, <1>2, <1>3
    <2> HIDE DEF l
    <2> QED BY <1>3, <2>1, SeqEqual
<1>6. r = t
    <2>1. ASSUME NEW k \in 1 .. n PROVE r[k] = t[k]
        <3> HIDE DEF r, u, m, n
        <3>1. r[k] = u[m + k]
            BY <1>4
        <3>2. m + k \in 1 .. m + n /\ ~(m + k <= m) /\ (m + k) - m = k
            BY <1>1
        <3>3. u[m + k] = t[(m + k) - m]
            BY <1>2, <3>2
        <3> QED BY <3>1, <3>2, <3>3
    <2> HIDE DEF r
    <2> QED BY <1>4, <2>1, SeqEqual
<1> QED BY <1>1, <1>5, <1>6

\* The search for the end of the pushes finds the instruction after them.
LEMMA AfterPushesInserts ==
    ASSUME NEW I, NEW pushes \in Seq(I), NEW rest \in Seq(I), NEW instrs,
           \A k \in 1 .. Len(pushes) : pushes[k].op = "PUSH",
           rest # <<>>, rest[1].op # "PUSH"
    PROVE  AfterPushes(pushes \o rest, instrs) = pushes \o instrs \o rest
<1> DEFINE block == pushes \o rest
           m == Len(pushes)
           S == {n \in 0 .. Len(block) : \A k \in 1 .. n : block[k].op = "PUSH"}
<1>1. m \in Nat /\ Len(rest) \in Nat \ {0} /\ Len(block) = m + Len(rest)
    BY ConcatProperties, LenProperties, EmptySeq
<1>2. /\ \A k \in 1 .. m : block[k] = pushes[k]
      /\ block[m + 1] = rest[1]
    BY <1>1, ConcatProperties
<1>3. m \in S
    BY <1>1, <1>2
<1>4. ASSUME NEW n \in S PROVE n <= m
    BY <1>1, <1>2, <1>4
<1>5. Max(S) = m
    <2>1. S \subseteq Nat
        BY <1>1
    <2> HIDE DEF S, m
    <2>2. \A x \in S : (\A y \in S : x >= y) => x = m
        BY <1>1, <1>3, <1>4, <2>1
    <2>3. \A y \in S : m >= y
        BY <1>1, <1>3, <1>4, <2>1
    <2> QED BY <1>3, <2>2, <2>3 DEF Max
<1> QED BY <1>5, SplitConcat DEF AfterPushes

\* The search back from the return finds the instruction before the pops.
LEMMA BeforePopsInserts ==
    ASSUME NEW I, NEW front \in Seq(I), NEW pops \in Seq(I), NEW instrs,
           \A k \in 1 .. Len(pops) : pops[k].op = "POP" \/ isReturn(pops[k]),
           front # <<>>, pops # <<>>,
           ~(Last(front).op = "POP" \/ isReturn(Last(front)))
    PROVE  BeforePops(front \o pops, instrs) = front \o instrs \o pops
<1> DEFINE block == front \o pops
           m == Len(front)
           Skipped(k) == block[k].op = "POP" \/ isReturn(block[k])
           S == {n \in 1 .. Len(block) : \A k \in n .. Len(block) : Skipped(k)}
<1>1. m \in Nat \ {0} /\ Len(pops) \in Nat \ {0} /\ Len(block) = m + Len(pops)
    BY ConcatProperties, LenProperties, EmptySeq
<1>2. /\ \A k \in m + 1 .. Len(block) : block[k] = pops[k - m]
      /\ block[m] = Last(front)
    BY <1>1, ConcatProperties DEF Last
<1>3. m + 1 \in S
    <2>1. ASSUME NEW k \in m + 1 .. Len(block) PROVE Skipped(k)
        <3>1. k - m \in 1 .. Len(pops)
            BY <1>1
        <3> QED BY <1>2, <3>1
    <2> HIDE DEF Skipped
    <2> QED BY <1>1, <2>1
<1>4. ASSUME NEW n \in S PROVE m + 1 <= n
    <2>1. ~Skipped(m)
        BY <1>2
    <2> HIDE DEF Skipped
    <2> QED BY <1>1, <1>4, <2>1
<1>5. Min(S) = m + 1
    <2>1. S \subseteq Nat
        BY <1>1
    <2> HIDE DEF S, m
    <2>2. \A x \in S : (\A y \in S : x <= y) => x = m + 1
        BY <1>1, <1>3, <1>4, <2>1
    <2>3. \A y \in S : m + 1 <= y
        BY <1>4
    <2> QED BY <1>3, <2>2, <2>3 DEF Min
<1>6. BeforePops(block, instrs) =
          SubSeq(block, 1, Min(S) - 1) \o instrs \o SubSeq(block, Min(S), Len(block))
    BY DEF BeforePops
<1>7. SubSeq(block, 1, m) = front /\ SubSeq(block, m + 1, Len(block)) = pops
    BY SplitConcat
<1>8. SubSeq(block, 1, Min(S) - 1) = front /\ SubSeq(block, Min(S), Len(block)) = pops
    <2> HIDE DEF S, m, block
    <2>1. Min(S) - 1 = m
        BY <1>1, <1>5
    <2> QED BY <1>5, <1>7, <2>1
<1> HIDE DEF S, block
<1> QED BY <1>6, <1>8 DEF block

-----------------------------------------------------------------------------
(***************************************************************************)
(* Concatenation, hidden behind a name so that its lemmas are cited and    *)
(* not expanded.                                                           *)
(***************************************************************************)

Cat(s, t) == s \o t

List(T) == Seq(T)

LEMMA ListCat ==
    \A T : \A s, t \in List(T) :
        /\ Cat(s, t) \in List(T)
        /\ Len(s) \in Nat
        /\ Len(Cat(s, t)) = Len(s) + Len(t)
        /\ \A k \in 1 .. Len(s) + Len(t) :
               Cat(s, t)[k] = IF k <= Len(s) THEN s[k] ELSE t[k - Len(s)]
BY ConcatProperties, LenProperties DEF Cat, List

\* Sequences with the same elements are equal.
LEMMA ListEqual ==
    \A T : \A s, t \in List(T) :
        Len(s) = Len(t) /\ (\A i \in 1 .. Len(s) : s[i] = t[i]) => s = t
BY SeqEqual DEF List

LEMMA ListPair ==
    ASSUME NEW T, NEW x \in T, NEW y \in T
    PROVE  Cat(<<x>>, <<y>>) = <<x, y>>
<1> DEFINE f == <<x>>
           g == <<y>>
           h == <<x, y>>
<1>1. f \in List(T) /\ g \in List(T) /\ h \in List(T) /\ Len(f) = 1 /\ Len(g) = 1 /\ Len(h) = 2
     /\ f[1] = x /\ g[1] = y /\ h[1] = x /\ h[2] = y
    BY DEF List
<1> HIDE DEF f, g, h
<1>2. Cat(f, g) \in List(T) /\ Len(Cat(f, g)) = 2 /\ Cat(f, g)[1] = x /\ Cat(f, g)[2] = y
    <2>1. /\ Cat(f, g) \in List(T) /\ Len(Cat(f, g)) = Len(f) + Len(g)
          /\ \A b \in 1 .. Len(f) + Len(g) :
                 Cat(f, g)[b] = IF b <= Len(f) THEN f[b] ELSE g[b - Len(f)]
        BY <1>1, ListCat
    <2>2. 1 \in 1 .. 1 + 1 /\ 2 \in 1 .. 1 + 1 /\ 1 <= 1 /\ ~(2 <= 1) /\ 2 - 1 = 1 /\ 1 + 1 = 2
        OBVIOUS
    <2>3. \A b \in 1 .. 1 + 1 : Cat(f, g)[b] = IF b <= 1 THEN f[b] ELSE g[b - 1]
        BY <1>1, <2>1
    <2>4. Cat(f, g)[1] = f[1]
        BY <2>2, <2>3
    <2>5. Cat(f, g)[2] = g[1]
        BY <2>2, <2>3
    <2> QED BY <1>1, <2>1, <2>2, <2>4, <2>5
<1>3. Cat(f, g) = h
    BY <1>1, <1>2, ListEqual
<1> QED BY <1>3 DEF f, g, h

Repeated(y, n) == [b \in 1 .. n |-> y]

OneThen(x, y, n) == [b \in 1 .. n + 1 |-> IF b = 1 THEN x ELSE y]

\* One block before equal ones, as Blocks builds them.
LEMMA ListPrepend ==
    \A x, y, n : n \in Nat => Cat(<<x>>, Repeated(y, n)) = OneThen(x, y, n)
<1> SUFFICES ASSUME NEW x, NEW y, NEW n, n \in Nat
             PROVE  Cat(<<x>>, Repeated(y, n)) = OneThen(x, y, n)
    OBVIOUS
<1> DEFINE T == {x, y}
           first == <<x>>
           rest == [b \in 1 .. n |-> y]
           all == [b \in 1 .. n + 1 |-> IF b = 1 THEN x ELSE y]
<1>1. first \in List(T) /\ Len(first) = 1 /\ first[1] = x
    BY DEF List
<1>2. rest \in List(T) /\ Len(rest) = n /\ all \in List(T) /\ Len(all) = n + 1
    BY DEF List
<1>3. /\ Cat(first, rest) \in List(T) /\ Len(Cat(first, rest)) = 1 + n
      /\ \A b \in 1 .. 1 + n : Cat(first, rest)[b] = IF b <= 1 THEN first[b] ELSE rest[b - 1]
    <2>1. /\ Cat(first, rest) \in List(T) /\ Len(Cat(first, rest)) = Len(first) + Len(rest)
          /\ \A b \in 1 .. Len(first) + Len(rest) :
                 Cat(first, rest)[b] = IF b <= Len(first) THEN first[b] ELSE rest[b - Len(first)]
        <3>1. first \in List(T) /\ rest \in List(T)
            BY <1>1, <1>2
        <3> HIDE DEF first, rest
        <3> QED BY <3>1, ListCat
    <2> HIDE DEF first, rest
    <2> QED BY <1>1, <1>2, <2>1
<1>4. ASSUME NEW b \in 1 .. 1 + n PROVE Cat(first, rest)[b] = all[b]
    <2>1. CASE b = 1
        BY <1>1, <1>3, <2>1
    <2>2. CASE b # 1
        <3>1. b - 1 \in 1 .. n /\ ~(b <= 1) /\ b \in 1 .. n + 1
            BY <2>2
        <3>2. rest[b - 1] = y /\ all[b] = y
            BY <2>2, <3>1
        <3> HIDE DEF rest, all, first
        <3> QED BY <1>3, <3>1, <3>2
    <2> QED BY <2>1, <2>2
<1> HIDE DEF first, rest, all
<1>5. Cat(first, rest) = all
    BY <1>2, <1>3, <1>4, ListEqual
<1> QED BY <1>5 DEF first, rest, all, Repeated, OneThen

-----------------------------------------------------------------------------
(***************************************************************************)
(* What the pass computes for a function f.                                *)
(***************************************************************************)

Saved(f) == UsedOf(getCalleeSavedRegs(f), f.used)

Words(f) == WordsOf(f.objects, Len(f.objects))

Reserved(f) == IF f.calls # {} /\ hasReservedCallFrame(f) THEN MaxCallFrameSize(f) ELSE 0

Room(f) == Words(f) + Reserved(f)

Pushes(f) == [n \in 1 .. Len(Saved(f)) |-> PUSH(Saved(f)[Len(Saved(f)) + 1 - n])]

Pops(f) == [n \in 1 .. Len(Saved(f)) |-> POP(Saved(f)[n])]

EnterFrame(f) == IF hasFP(f) THEN <<PUSH("J"), MOV("J", "SP")>> ELSE <<>>

LeaveFrame(f) == IF hasFP(f) THEN <<POP("J")>> ELSE <<>>

Allocate(f) == IfNonzero(Room(f), SUBSP(Room(f)))

Release(f) ==
    IF f.varSized THEN <<MOV("SP", "J")>> \o IfNonzero(Len(Saved(f)), SUBSP(Len(Saved(f))))
                  ELSE IfNonzero(Room(f), ADDSP(Room(f)))

Returns(f, b) == f.returnBlocks = 1 \/ b > 1

NumBlocks(f) == IF f.returnBlocks = 1 THEN 1 ELSE f.returnBlocks + 1

\* The code with pro at the entry and epi before the returns.
Before(b, pro) == IF b = 1 THEN pro ELSE <<>>

Ending(f, b, epi) == IF Returns(f, b) THEN Cat(epi, <<ReturnOf(f)>>) ELSE <<>>

Block(f, b, pro, epi) == Cat(Before(b, pro), Cat(<<BODY>>, Ending(f, b, epi)))

CodeWith(f, pro, epi) == [b \in 1 .. NumBlocks(f) |-> Block(f, b, pro, epi)]

Prologue(f) == Cat(EnterFrame(f), Cat(Pushes(f), Allocate(f)))

Epilogue(f) == Cat(Release(f), Cat(Pops(f), LeaveFrame(f)))

\* The state of the compilation before each stage.
Compiled ==
    /\ mf \in Functions
    /\ stage \in Range(Stages)
    /\ stage \in {"calls", "csr", "spills"} => code = CodeWith(mf, <<>>, <<>>)
    /\ stage \in {"finalize", "layout", "prologue"} =>
           code = CodeWith(mf, Pushes(mf), Pops(mf))
    /\ stage = "epilogue" => code = CodeWith(mf, Prologue(mf), Pops(mf))
    /\ stage \in {"indices", "compiled"} => code = CodeWith(mf, Prologue(mf), Epilogue(mf))
    /\ stage # "calls" =>
           callCode = [n \in mf.calls |-> eliminateCallFramePseudoInstr(mf, n)]
    /\ stage \notin {"calls", "csr"} => csi = Saved(mf)
    /\ stage \notin {"calls", "csr", "spills"} => csSize = Len(Saved(mf))
    /\ stage \in {"calls", "csr", "spills", "finalize"} => fixed = FixedObjects(mf)
    /\ stage \notin {"calls", "csr", "spills", "finalize"} =>
           fixed = [o \in FixedIndices(mf) \cup (IF hasFP(mf) THEN {SavedFP} ELSE {}) |->
                      IF o = SavedFP THEN -1 ELSE FixedObjects(mf)[o]]
    /\ stage \in {"prologue", "epilogue", "indices", "compiled"} =>
           /\ objOffset = [o \in Locals(mf) \cup DOMAIN fixed |->
                             IF o \in DOMAIN fixed
                             THEN fixed[o]
                             ELSE -(LocalAreaOffset + Len(Saved(mf)) + WordsOf(mf.objects, o[2]))]
           /\ stackSize = Len(Saved(mf)) + Room(mf)
    /\ stage = "compiled" => reference = [o \in DOMAIN objOffset |-> eliminateFrameIndex(o)]

Instruction ==
    {BODY, RET, RETI, MOV("J", "SP"), MOV("SP", "J")}
        \cup {PUSH(r) : r \in Registers} \cup {POP(r) : r \in Registers}
        \cup {SUBSP(n) : n \in Nat} \cup {ADDSP(n) : n \in Nat}

Code == Seq(Instruction)

LEMMA CatProperties ==
    \A s, t \in Code :
        /\ Cat(s, t) \in Code
        /\ Len(s) \in Nat
        /\ Len(Cat(s, t)) = Len(s) + Len(t)
        /\ \A k \in 1 .. Len(s) + Len(t) :
               Cat(s, t)[k] = IF k <= Len(s) THEN s[k] ELSE t[k - Len(s)]
BY ConcatProperties, LenProperties DEF Code, Cat

LEMMA CatType ==
    \A s, t \in Code : Cat(s, t) \in Code
BY CatProperties

LEMMA CatAssociative ==
    \A s, t, u \in Code : Cat(Cat(s, t), u) = Cat(s, Cat(t, u))
BY ConcatAssociative DEF Code, Cat

LEMMA CatEmpty ==
    \A s \in Code : Cat(s, <<>>) = s /\ Cat(<<>>, s) = s
BY ConcatEmptySeq DEF Code, Cat

LEMMA CatSingle ==
    \A s \in Code, x \in Instruction :
        /\ Front(Cat(s, <<x>>)) = s /\ Last(Cat(s, <<x>>)) = x
        /\ Cat(s, <<x>>) # <<>>
<1>1. SUFFICES ASSUME NEW s \in Code, NEW x \in Instruction
               PROVE  /\ Front(Cat(s, <<x>>)) = s /\ Last(Cat(s, <<x>>)) = x
                      /\ Cat(s, <<x>>) # <<>>
    OBVIOUS
<1>2. Front(Cat(s, <<x>>)) = s /\ Last(Cat(s, <<x>>)) = x
    BY FrontLast DEF Cat, Code
<1>3. <<x>> \in Code /\ Len(<<x>>) = 1
    BY DEF Code
<1>4. Len(Cat(s, <<x>>)) = Len(s) + 1 /\ Len(s) \in Nat
    BY <1>3, CatProperties
<1> QED BY <1>2, <1>4

\* The types of what the pass computes, and the room it keeps for calls.
LEMMA CompiledFunction ==
    ASSUME NEW f \in Functions
    PROVE  /\ Saved(f) \in Seq(Registers)
           /\ Range(Saved(f)) = Range(getCalleeSavedRegs(f)) \cap f.used
           /\ Len(Saved(f)) \in Nat
           /\ Words(f) \in Nat /\ Reserved(f) \in Nat /\ Room(f) \in Nat
           /\ \A n \in f.calls : n \in Nat /\ (hasReservedCallFrame(f) => n <= Reserved(f))
<1>1. /\ f \in MachineFunction /\ IsFiniteSet(f.calls)
      /\ f.objects \in Seq(Nat \ {0}) /\ f.calls \subseteq Nat
    BY FunctionsAssumption DEF WellFormed, MachineFunction
<1>2. getCalleeSavedRegs(f) \in Seq(Registers)
    <2>1. /\ "A" \in Registers /\ "B" \in Registers /\ "C" \in Registers
          /\ "X" \in Registers /\ "Y" \in Registers /\ "Z" \in Registers
          /\ "I" \in Registers /\ "J" \in Registers /\ "EX" \in Registers
        BY DEF Registers
    <2>2. CalleeSavedRegs \in Seq(Registers)
        BY <2>1 DEF CalleeSavedRegs
    <2>3. CalleeSavedRegsIntr \in Seq(Registers)
        BY <2>1 DEF CalleeSavedRegsIntr
    <2> QED BY <2>2, <2>3 DEF getCalleeSavedRegs
<1>3. Saved(f) \in Seq(Registers) /\ Range(Saved(f)) = Range(getCalleeSavedRegs(f)) \cap f.used
    BY <1>2, UsedOfRange DEF Saved
<1>4. Words(f) \in Nat
    <2>1. f.objects \in Seq(Nat)
        BY <1>1, SeqMonotonic
    <2>2. Len(f.objects) \in 0 .. Len(f.objects)
        BY <2>1, LenProperties
    <2> QED BY <2>1, <2>2, WordsOfStep DEF Words
<1>5. IsFiniteSet(f.calls \cup {0})
    BY <1>1, FS_AddElement
<1>6. MaxCallFrameSize(f) \in Nat /\ \A n \in f.calls : n <= MaxCallFrameSize(f)
    <2>1. f.calls \cup {0} \in SUBSET Nat
        BY <1>1
    <2> QED BY <1>5, <2>1, MaxOfFinite DEF MaxCallFrameSize
<1>7. Reserved(f) \in Nat /\ \A n \in f.calls : hasReservedCallFrame(f) => n <= Reserved(f)
    BY <1>6 DEF Reserved
<1>8. Len(Saved(f)) \in Nat
    BY <1>3, LenProperties
<1> QED BY <1>1, <1>3, <1>4, <1>7, <1>8 DEF Room

\* The parts of the frame code are instruction sequences.
LEMMA CompiledCode ==
    ASSUME NEW f \in Functions
    PROVE  /\ Pushes(f) \in Code /\ Pops(f) \in Code
           /\ EnterFrame(f) \in Code /\ LeaveFrame(f) \in Code
           /\ Allocate(f) \in Code /\ Release(f) \in Code
           /\ Prologue(f) \in Code /\ Epilogue(f) \in Code
           /\ Len(Pushes(f)) = Len(Saved(f)) /\ Len(Pops(f)) = Len(Saved(f))
           /\ BODY \in Instruction /\ ReturnOf(f) \in Instruction
           /\ <<BODY>> \in Code /\ <<ReturnOf(f)>> \in Code /\ <<>> \in Code
<1> DEFINE n == Len(Saved(f))
<1>1. /\ n \in Nat /\ Room(f) \in Nat /\ \A k \in 1 .. n : Saved(f)[k] \in Registers
    BY CompiledFunction, ElementOfSeq
<1>2. /\ \A r \in Registers : PUSH(r) \in Instruction /\ POP(r) \in Instruction
      /\ \A k \in Nat : SUBSP(k) \in Instruction /\ ADDSP(k) \in Instruction
      /\ MOV("J", "SP") \in Instruction /\ MOV("SP", "J") \in Instruction
      /\ BODY \in Instruction /\ ReturnOf(f) \in Instruction
    BY DEF Instruction, ReturnOf
<1>3. "J" \in Registers
    BY DEF Registers
<1>4. Pushes(f) \in Code /\ Len(Pushes(f)) = n
    <2>1. \A k \in 1 .. n : n + 1 - k \in 1 .. n
        BY <1>1
    <2>2. \A k \in 1 .. n : PUSH(Saved(f)[n + 1 - k]) \in Instruction
        BY <1>1, <1>2, <2>1
    <2> QED BY <1>1, <2>2 DEF Pushes, Code
<1>5. Pops(f) \in Code /\ Len(Pops(f)) = n
    BY <1>1, <1>2 DEF Pops, Code
<1>6. EnterFrame(f) \in Code /\ LeaveFrame(f) \in Code
    BY <1>2, <1>3 DEF EnterFrame, LeaveFrame, Code
<1>7. /\ Allocate(f) \in Code
      /\ IfNonzero(Room(f), ADDSP(Room(f))) \in Code
      /\ IfNonzero(n, SUBSP(n)) \in Code
      /\ <<MOV("SP", "J")>> \in Code
    BY <1>1, <1>2 DEF Allocate, IfNonzero, Code
<1>8. Release(f) \in Code
    BY <1>7, CatProperties DEF Release, Cat
<1>9. <<BODY>> \in Code /\ <<ReturnOf(f)>> \in Code /\ <<>> \in Code
    BY <1>2 DEF Code
<1> QED BY <1>9, <1>2, <1>4, <1>5, <1>6, <1>7, <1>8, CatProperties DEF Prologue, Epilogue

-----------------------------------------------------------------------------
(***************************************************************************)
(* How the blocks of a function change.                                    *)
(***************************************************************************)

LEMMA BlockType ==
    ASSUME NEW f \in Functions, NEW b, NEW pro \in Code, NEW epi \in Code
    PROVE  /\ Block(f, b, pro, epi) \in Code
           /\ Block(f, b, pro, epi) = Cat(Before(b, pro), Block(f, b, <<>>, epi))
           /\ Block(f, b, <<>>, epi) \in Code
           /\ Block(f, b, <<>>, epi) # <<>> /\ Block(f, b, <<>>, epi)[1] = BODY
<1> DEFINE tail == Ending(f, b, epi)
           rest == Cat(<<BODY>>, tail)
<1>1. tail \in Code /\ Before(b, pro) \in Code /\ Before(b, <<>>) = <<>>
    BY CompiledCode, CatProperties DEF Before, Ending
<1>2. Len(<<BODY>>) = 1 /\ <<BODY>>[1] = BODY /\ <<BODY>> \in Code
    BY CompiledCode
<1>3. rest \in Code /\ Len(rest) = 1 + Len(tail) /\ Len(tail) \in Nat /\ rest[1] = BODY
    <2> DEFINE body == <<BODY>>
    <2>1. /\ rest \in Code /\ Len(tail) \in Nat /\ Len(rest) = Len(body) + Len(tail)
          /\ \A k \in 1 .. Len(body) + Len(tail) :
                 rest[k] = IF k <= Len(body) THEN body[k] ELSE tail[k - Len(body)]
        BY <1>1, <1>2, CatProperties
    <2>2. Len(body) = 1 /\ body[1] = BODY
        BY <1>2
    <2> HIDE DEF body, rest, tail
    <2> QED BY <2>1, <2>2
<1>4. rest # <<>>
    BY <1>3
<1>5. Block(f, b, pro, epi) = Cat(Before(b, pro), rest) /\ Block(f, b, <<>>, epi) = Cat(Before(b, <<>>), rest)
    BY DEF Block
<1> HIDE DEF rest
<1>6. Cat(<<>>, rest) = rest
    BY <1>3, CatEmpty
<1>7. Block(f, b, <<>>, epi) = rest
    BY <1>1, <1>5, <1>6
<1>8. Cat(Before(b, pro), rest) \in Code
    BY <1>1, <1>3, CatType
<1> QED BY <1>3, <1>4, <1>5, <1>7, <1>8

LEMMA BlockWithoutPrologue ==
    ASSUME NEW f \in Functions, NEW b, NEW epi \in Code
    PROVE  /\ Block(f, b, <<>>, epi) \in Code
           /\ Block(f, b, <<>>, epi) # <<>> /\ Block(f, b, <<>>, epi)[1] = BODY
<1>1. <<>> \in Code
    BY CompiledCode
<1> QED BY <1>1, BlockType, ZenonT(60)

LEMMA BlockReturns ==
    ASSUME NEW f \in Functions, NEW b, NEW pro \in Code, NEW epi \in Code, Returns(f, b)
    PROVE  /\ Front(Block(f, b, pro, epi)) = Cat(Cat(Before(b, pro), <<BODY>>), epi)
           /\ Last(Block(f, b, pro, epi)) = ReturnOf(f)
           /\ Block(f, b, pro, epi) = Cat(Cat(Before(b, pro), <<BODY>>), Cat(epi, <<ReturnOf(f)>>))
           /\ isReturn(Last(Block(f, b, pro, epi)))
<1> DEFINE pre == Before(b, pro)
           ret == <<ReturnOf(f)>>
           body == <<BODY>>
<1>1. body \in Code /\ ret \in Code /\ pre \in Code /\ ReturnOf(f) \in Instruction
    BY CompiledCode DEF Before
<1>2. Block(f, b, pro, epi) = Cat(pre, Cat(body, Cat(epi, ret)))
    BY DEF Block, Ending
<1>3. isReturn(ReturnOf(f))
    BY DEF isReturn, ReturnOf
<1>4. Cat(Cat(pre, body), epi) \in Code
    <2> HIDE DEF pre, body
    <2> QED BY <1>1, CatType
<1>5. /\ Front(Cat(Cat(Cat(pre, body), epi), ret)) = Cat(Cat(pre, body), epi)
      /\ Last(Cat(Cat(Cat(pre, body), epi), ret)) = ReturnOf(f)
    BY <1>1, <1>4, CatSingle
<1>6. Cat(pre, Cat(body, Cat(epi, ret))) = Cat(Cat(pre, body), Cat(epi, ret))
    <2> HIDE DEF pre, body, ret
    <2> QED BY <1>1, CatType, CatAssociative
<1>7. Cat(Cat(pre, body), Cat(epi, ret)) = Cat(Cat(Cat(pre, body), epi), ret)
    <2> HIDE DEF pre, body, ret
    <2> QED BY <1>1, CatType, CatAssociative
<1> QED BY <1>2, <1>3, <1>5, <1>6, <1>7

LEMMA BlockGoesOn ==
    ASSUME NEW f \in Functions, NEW b, NEW pro \in Code, NEW epi \in Code, ~Returns(f, b)
    PROVE  /\ Block(f, b, pro, epi) = Cat(Before(b, pro), <<BODY>>)
           /\ Last(Block(f, b, pro, epi)) = BODY
           /\ ~isReturn(Last(Block(f, b, pro, epi)))
<1>1. Block(f, b, pro, epi) = Cat(Before(b, pro), <<BODY>>)
    BY CompiledCode, CatEmpty DEF Block, Ending
<1>2. Last(Cat(Before(b, pro), <<BODY>>)) = BODY
    BY CompiledCode, CatSingle DEF Before
<1>3. ~isReturn(BODY)
    BY DEF isReturn, BODY, RET, RETI
<1> QED BY <1>1, <1>2, <1>3

\* Inserting before the return adds to the end of the epilogue.
LEMMA InsertBeforeReturn ==
    ASSUME NEW f \in Functions, NEW b, NEW pro \in Code, NEW epi \in Code,
           NEW instrs \in Code, Returns(f, b)
    PROVE  LET block == Block(f, b, pro, epi)
           IN  /\ Cat(Cat(Front(block), instrs), <<Last(block)>>) = Block(f, b, pro, Cat(epi, instrs))
               /\ Cat(Front(block), Cat(instrs, <<Last(block)>>)) = Block(f, b, pro, Cat(epi, instrs))
<1> DEFINE pre == Cat(Before(b, pro), <<BODY>>)
           ret == <<ReturnOf(f)>>
           block == Block(f, b, pro, epi)
<1>1. ret \in Code /\ pre \in Code /\ Cat(epi, instrs) \in Code
    BY CompiledCode, CatProperties DEF Before
<1>2. Front(block) = Cat(pre, epi) /\ <<Last(block)>> = ret
    <2>1. Front(block) = Cat(pre, epi)
        BY BlockReturns, ZenonT(60)
    <2>2. Last(block) = ReturnOf(f)
        BY BlockReturns
    <2> QED BY <2>1, <2>2
<1>3. Block(f, b, pro, Cat(epi, instrs)) = Cat(pre, Cat(Cat(epi, instrs), ret))
    BY <1>1, BlockReturns
<1> HIDE DEF pre, ret, block
<1>4. /\ Cat(pre, Cat(Cat(epi, instrs), ret)) = Cat(Cat(pre, epi), Cat(instrs, ret))
      /\ Cat(Cat(Cat(pre, epi), instrs), ret) = Cat(Cat(pre, epi), Cat(instrs, ret))
    BY <1>1, CatType, CatAssociative
<1> QED BY <1>2, <1>3, <1>4 DEF block

\* Inserting before the pops adds to the start of the epilogue.
LEMMA InsertBeforePops ==
    ASSUME NEW f \in Functions, NEW b, NEW pro \in Code, NEW pops \in Code,
           NEW instrs \in Code, Returns(f, b),
           \A k \in 1 .. Len(pops) : pops[k].op = "POP"
    PROVE  BeforePops(Block(f, b, pro, pops), instrs) = Block(f, b, pro, Cat(instrs, pops))
<1> DEFINE front == Before(b, pro)
           pre == Cat(front, <<BODY>>)
           ret == <<ReturnOf(f)>>
           tail == Cat(pops, ret)
<1>1. ret \in Code /\ front \in Code /\ BODY \in Instruction
    BY CompiledCode DEF Before
<1>2. pre \in Code /\ tail \in Code /\ Cat(instrs, pops) \in Code
    BY CompiledCode, <1>1, CatType
<1>3. Block(f, b, pro, pops) = Cat(pre, tail)
    BY BlockReturns
<1>4. Block(f, b, pro, Cat(instrs, pops)) = Cat(pre, Cat(Cat(instrs, pops), ret))
    BY <1>2, BlockReturns
<1>5. /\ Len(ret) = 1 /\ ret[1] = ReturnOf(f) /\ isReturn(ReturnOf(f))
      /\ ~(BODY.op = "POP" \/ isReturn(BODY))
    BY DEF isReturn, ReturnOf, BODY, RET, RETI
<1> HIDE DEF front, ret
<1>6. Last(pre) = BODY /\ pre # <<>>
    BY <1>1, CatSingle
<1>7. /\ Len(tail) = Len(pops) + 1 /\ Len(pops) \in Nat
      /\ \A k \in 1 .. Len(tail) : tail[k] = IF k <= Len(pops) THEN pops[k] ELSE ret[k - Len(pops)]
    <2>1. /\ Len(pops) \in Nat /\ Len(tail) = Len(pops) + Len(ret)
          /\ \A k \in 1 .. Len(pops) + Len(ret) :
                 tail[k] = IF k <= Len(pops) THEN pops[k] ELSE ret[k - Len(pops)]
        BY <1>1, CatProperties
    <2> HIDE DEF tail
    <2> QED BY <1>5, <2>1
<1>8. tail # <<>>
    BY <1>7
<1>9. \A k \in 1 .. Len(tail) : tail[k].op = "POP" \/ isReturn(tail[k])
    BY <1>5, <1>7
<1> HIDE DEF tail, pre
<1>10. BeforePops(Cat(pre, tail), instrs) = Cat(Cat(pre, instrs), tail)
    BY <1>2, <1>5, <1>6, <1>8, <1>9, BeforePopsInserts DEF Code, Cat
<1>11. Cat(Cat(pre, instrs), tail) = Cat(pre, Cat(Cat(instrs, pops), ret))
    BY <1>1, <1>2, CatType, CatAssociative DEF tail
<1> QED BY <1>3, <1>4, <1>10, <1>11

-----------------------------------------------------------------------------
(***************************************************************************)
(* The stages of the pass.                                                 *)
(***************************************************************************)

LEMMA StageNames ==
    /\ Len(Stages) = 9
    /\ Stages[1] = "calls" /\ Stages[2] = "csr" /\ Stages[3] = "spills"
    /\ Stages[4] = "finalize" /\ Stages[5] = "layout" /\ Stages[6] = "prologue"
    /\ Stages[7] = "epilogue" /\ Stages[8] = "indices" /\ Stages[9] = "compiled"
    /\ Range(Stages) = {"calls", "csr", "spills", "finalize", "layout", "prologue",
                        "epilogue", "indices", "compiled"}
<1>1. /\ Len(Stages) = 9
      /\ Stages[1] = "calls" /\ Stages[2] = "csr" /\ Stages[3] = "spills"
      /\ Stages[4] = "finalize" /\ Stages[5] = "layout" /\ Stages[6] = "prologue"
      /\ Stages[7] = "epilogue" /\ Stages[8] = "indices" /\ Stages[9] = "compiled"
    BY DEF Stages
<1>2. DOMAIN Stages = {1, 2, 3, 4, 5, 6, 7, 8, 9}
    <2>1. DOMAIN Stages = 1 .. 9
        BY DEF Stages
    <2>2. 1 .. 9 = {1, 2, 3, 4, 5, 6, 7, 8, 9}
        OBVIOUS
    <2> QED BY <2>1, <2>2
<1>3. Range(Stages) = {Stages[n] : n \in {1, 2, 3, 4, 5, 6, 7, 8, 9}}
    BY <1>2 DEF Range
<1> HIDE DEF Stages
<1> QED BY <1>1, <1>3

\* Each stage is followed by the next one.
LEMMA EnterNext ==
    /\ Enter("calls") => stage = "calls" /\ stage' = "csr"
    /\ Enter("csr") => stage = "csr" /\ stage' = "spills"
    /\ Enter("spills") => stage = "spills" /\ stage' = "finalize"
    /\ Enter("finalize") => stage = "finalize" /\ stage' = "layout"
    /\ Enter("layout") => stage = "layout" /\ stage' = "prologue"
    /\ Enter("prologue") => stage = "prologue" /\ stage' = "epilogue"
    /\ Enter("epilogue") => stage = "epilogue" /\ stage' = "indices"
    /\ Enter("indices") => stage = "indices" /\ stage' = "compiled"
<1>1. 1 .. 9 - 1 = {1, 2, 3, 4, 5, 6, 7, 8}
    OBVIOUS
<1>2. ASSUME NEW s, Enter(s)
      PROVE  stage = s /\ \E n \in {1, 2, 3, 4, 5, 6, 7, 8} : Stages[n] = s /\ stage' = Stages[n + 1]
    BY <1>1, <1>2, StageNames DEF Enter
<1>3. /\ 1 + 1 = 2 /\ 2 + 1 = 3 /\ 3 + 1 = 4 /\ 4 + 1 = 5
      /\ 5 + 1 = 6 /\ 6 + 1 = 7 /\ 7 + 1 = 8 /\ 8 + 1 = 9
    OBVIOUS
<1>4. ASSUME NEW s, Enter(s)
      PROVE  \/ s = "calls" /\ stage' = "csr"
             \/ s = "csr" /\ stage' = "spills"
             \/ s = "spills" /\ stage' = "finalize"
             \/ s = "finalize" /\ stage' = "layout"
             \/ s = "layout" /\ stage' = "prologue"
             \/ s = "prologue" /\ stage' = "epilogue"
             \/ s = "epilogue" /\ stage' = "indices"
             \/ s = "indices" /\ stage' = "compiled"
    <2>1. PICK n \in {1, 2, 3, 4, 5, 6, 7, 8} : Stages[n] = s /\ stage' = Stages[n + 1]
        BY <1>2, <1>4
    <2> QED BY <2>1, <1>3, StageNames
<1> QED BY <1>2, <1>4

\* The function before the pass has neither prologue nor epilogue.
LEMMA BlocksAre ==
    ASSUME NEW f \in Functions
    PROVE  Blocks(f) = CodeWith(f, <<>>, <<>>)
<1>1. f.returnBlocks \in Nat \ {0}
    BY FunctionsAssumption DEF MachineFunction
<1> DEFINE ret == ReturnOf(f)
<1>2. ASSUME NEW b, Returns(f, b) PROVE Block(f, b, <<>>, <<>>) = <<BODY, ret>>
    <2>1. Block(f, b, <<>>, <<>>) = Cat(<<>>, Cat(<<BODY>>, Cat(<<>>, <<ret>>)))
        BY <1>2 DEF Block, Before, Ending
    <2>2. Cat(<<>>, <<ret>>) = <<ret>>
        BY CompiledCode, CatEmpty
    <2>3. Cat(<<BODY>>, <<ret>>) = <<BODY, ret>>
        <3>1. BODY \in {BODY, ret} /\ ret \in {BODY, ret}
            OBVIOUS
        <3> HIDE DEF ret
        <3> QED BY <3>1, ListPair
    <2>4. Cat(<<BODY>>, <<ret>>) \in Code
        BY CompiledCode, CatType
    <2> QED BY <2>1, <2>2, <2>3, <2>4, CatEmpty
<1>3. ASSUME NEW b, ~Returns(f, b) PROVE Block(f, b, <<>>, <<>>) = <<BODY>>
    <2>1. Block(f, b, <<>>, <<>>) = Cat(<<>>, <<BODY>>)
        BY <1>3, BlockGoesOn, CompiledCode DEF Before
    <2> QED BY <2>1, CompiledCode, CatEmpty
<1> HIDE DEF ret
<1>4. CASE f.returnBlocks = 1
    <2>1. NumBlocks(f) = 1 /\ Returns(f, 1)
        BY <1>4 DEF NumBlocks, Returns
    <2>2. CodeWith(f, <<>>, <<>>) = [b \in 1 .. 1 |-> <<BODY, ret>>]
        BY <1>2, <1>4, <2>1 DEF CodeWith, Returns
    <2>3. Blocks(f) = << <<BODY, ret>> >>
        BY <1>4 DEF Blocks, ret
    <2> QED BY <2>2, <2>3
<1>5. CASE f.returnBlocks # 1
    <2> DEFINE n == f.returnBlocks
               rest == [b \in 1 .. n |-> <<BODY, ret>>]
               all == [b \in 1 .. n + 1 |-> IF b = 1 THEN <<BODY>> ELSE <<BODY, ret>>]
    <2>1. NumBlocks(f) = n + 1 /\ \A b \in 1 .. n + 1 : Returns(f, b) <=> b # 1
        BY <1>1, <1>5 DEF NumBlocks, Returns
    <2>2. CodeWith(f, <<>>, <<>>) = all
        BY <1>2, <1>3, <2>1 DEF CodeWith
    <2>3. Blocks(f) = Cat(<< <<BODY>> >>, rest)
        BY <1>5 DEF Blocks, ret, Cat
    <2>4. Cat(<< <<BODY>> >>, rest) = all
        <3>1. Cat(<< <<BODY>> >>, Repeated(<<BODY, ret>>, n)) = OneThen(<<BODY>>, <<BODY, ret>>, n)
            BY <1>1, ListPrepend
        <3> QED BY <3>1 DEF Repeated, OneThen
    <2> QED BY <2>2, <2>3, <2>4
<1> QED BY <1>4, <1>5

-----------------------------------------------------------------------------
(***************************************************************************)
(* The three calls that insert code.                                       *)
(***************************************************************************)

LEMMA CodeIs ==
    ASSUME NEW f, NEW pro, NEW epi
    PROVE  /\ DOMAIN CodeWith(f, pro, epi) = 1 .. NumBlocks(f)
           /\ \A b \in 1 .. NumBlocks(f) : CodeWith(f, pro, epi)[b] = Block(f, b, pro, epi)
BY DEF CodeWith

LEMMA BlockOnly ==
    ASSUME NEW f, NEW b, NEW pro, NEW epi, NEW other
    PROVE  /\ b # 1 => Block(f, b, pro, epi) = Block(f, b, other, epi)
           /\ ~Returns(f, b) => Block(f, b, pro, epi) = Block(f, b, pro, other)
BY DEF Block, Before, Ending

LEMMA SpilledBlock ==
    ASSUME NEW f \in Functions, NEW b, csi = Saved(f)
    PROVE  LET block == Block(f, b, <<>>, <<>>)
               spilled == IF b = 1 THEN spillCalleeSavedRegisters(block) ELSE block
           IN  (IF isReturn(Last(spilled)) THEN restoreCalleeSavedRegisters(spilled) ELSE spilled)
                   = Block(f, b, Pushes(f), Pops(f))
<1> DEFINE block == Block(f, b, <<>>, <<>>)
           spilled == IF b = 1 THEN spillCalleeSavedRegisters(block) ELSE block
<1>1. Pushes(f) \in Code /\ Pops(f) \in Code /\ <<>> \in Code
    BY CompiledCode
<1>2. spilled = Block(f, b, Pushes(f), <<>>)
    <2>1. CASE b = 1
        <3>1. Block(f, b, Pushes(f), <<>>) = Cat(Pushes(f), block)
            BY <1>1, <2>1, BlockType DEF Before
        <3>2. spilled = Cat(Pushes(f), block)
            BY <2>1 DEF spillCalleeSavedRegisters, Pushes, Cat
        <3> QED BY <3>1, <3>2
    <2>2. CASE b # 1
        BY <2>2, BlockOnly
    <2> QED BY <2>1, <2>2
<1> HIDE DEF spilled, block
<1>3. CASE Returns(f, b)
    <2>1. restoreCalleeSavedRegisters(spilled) =
              Cat(Cat(Front(spilled), Pops(f)), <<Last(spilled)>>)
        BY DEF restoreCalleeSavedRegisters, Pops, Cat
    <2>2. Cat(Cat(Front(spilled), Pops(f)), <<Last(spilled)>>) =
              Block(f, b, Pushes(f), Cat(<<>>, Pops(f)))
        BY <1>1, <1>2, <1>3, InsertBeforeReturn
    <2>3. isReturn(Last(spilled))
        BY <1>1, <1>2, <1>3, BlockReturns
    <2>4. Cat(<<>>, Pops(f)) = Pops(f)
        BY <1>1, CatEmpty
    <2> QED BY <2>1, <2>2, <2>3, <2>4 DEF spilled, block
<1>4. CASE ~Returns(f, b)
    <2>1. ~isReturn(Last(spilled))
        BY <1>1, <1>2, <1>4, BlockGoesOn
    <2>2. Block(f, b, Pushes(f), <<>>) = Block(f, b, Pushes(f), Pops(f))
        BY <1>4, BlockOnly
    <2> QED BY <1>2, <2>1, <2>2 DEF spilled, block
<1> QED BY <1>3, <1>4

LEMMA PrologueBlock ==
    ASSUME NEW f \in Functions, mf = f, NumBytes = Room(f)
    PROVE  emitPrologue(Block(f, 1, Pushes(f), Pops(f))) = Block(f, 1, Prologue(f), Pops(f))
<1> DEFINE rest == Block(f, 1, <<>>, Pops(f))
<1>1. /\ Pushes(f) \in Code /\ Pops(f) \in Code /\ Allocate(f) \in Code
      /\ EnterFrame(f) \in Code /\ Prologue(f) \in Code
    BY CompiledCode
<1>2. rest \in Code /\ rest # <<>> /\ rest[1] = BODY
    BY <1>1, BlockWithoutPrologue
<1>3. /\ Block(f, 1, Pushes(f), Pops(f)) = Cat(Pushes(f), rest)
      /\ Block(f, 1, Prologue(f), Pops(f)) = Cat(Prologue(f), rest)
    BY <1>1, BlockType DEF Before
<1>4. \A k \in 1 .. Len(Pushes(f)) : Pushes(f)[k].op = "PUSH"
    <2>1. Len(Pushes(f)) = Len(Saved(f)) /\ Len(Saved(f)) \in Nat
        BY CompiledCode, CompiledFunction
    <2> QED BY <2>1 DEF Pushes, PUSH
<1>5. BODY.op # "PUSH"
    BY DEF BODY
<1> HIDE DEF rest
<1>6. AfterPushes(Pushes(f) \o rest, Allocate(f)) = Pushes(f) \o Allocate(f) \o rest
    BY <1>1, <1>2, <1>4, <1>5, AfterPushesInserts DEF Code
<1>7. emitPrologue(Cat(Pushes(f), rest)) =
          Cat(EnterFrame(f), Cat(Cat(Pushes(f), Allocate(f)), rest))
    BY <1>6 DEF emitPrologue, SaveFP, EnterFrame, AllocateLocals, Allocate, Cat
<1>8. Cat(EnterFrame(f), Cat(Cat(Pushes(f), Allocate(f)), rest)) = Cat(Prologue(f), rest)
    BY <1>1, <1>2, CatType, CatAssociative DEF Prologue
<1> QED BY <1>3, <1>7, <1>8

LEMMA EpilogueBlock ==
    ASSUME NEW f \in Functions, NEW b, mf = f, NumBytes = Room(f), csSize = Len(Saved(f))
    PROVE  LET block == Block(f, b, Prologue(f), Pops(f))
           IN  (IF isReturn(Last(block)) THEN emitEpilogue(block) ELSE block)
                   = Block(f, b, Prologue(f), Epilogue(f))
<1> DEFINE block == Block(f, b, Prologue(f), Pops(f))
<1>1. /\ Pops(f) \in Code /\ LeaveFrame(f) \in Code /\ Release(f) \in Code
      /\ Prologue(f) \in Code /\ Epilogue(f) \in Code
    BY CompiledCode
<1> HIDE DEF block
<1>2. CASE Returns(f, b)
    <2> DEFINE pops == Cat(Pops(f), LeaveFrame(f))
    <2>1. isReturn(Last(block))
        BY <1>1, <1>2, BlockReturns DEF block
    <2>2. RestoreFP(block) = Block(f, b, Prologue(f), pops)
        <3>1. CASE hasFP(f)
            <4>1. Front(block) \o <<POP("J"), Last(block)>> =
                      Cat(Front(block), Cat(LeaveFrame(f), <<Last(block)>>))
                <5>1. <<POP("J"), Last(block)>> = Cat(<<POP("J")>>, <<Last(block)>>)
                    <6>1. \A x, y : <<x, y>> = Cat(<<x>>, <<y>>)
                        <7>1. SUFFICES ASSUME NEW x, NEW y PROVE <<x, y>> = Cat(<<x>>, <<y>>)
                            OBVIOUS
                        <7>2. x \in {x, y} /\ y \in {x, y}
                            OBVIOUS
                        <7> QED BY <7>2, ListPair
                    <6> QED BY <6>1
                <5> QED BY <3>1, <5>1 DEF LeaveFrame, Cat
            <4>2. Cat(Front(block), Cat(LeaveFrame(f), <<Last(block)>>)) =
                      Block(f, b, Prologue(f), pops)
                BY <1>1, <1>2, InsertBeforeReturn DEF block
            <4> QED BY <3>1, <4>1, <4>2 DEF RestoreFP
        <3>2. CASE ~hasFP(f)
            <4>1. pops = Pops(f)
                BY <1>1, <3>2, CatEmpty DEF LeaveFrame
            <4> QED BY <3>2, <4>1 DEF RestoreFP, block
        <3> QED BY <3>1, <3>2
    <2>3. pops \in Code /\ \A k \in 1 .. Len(pops) : pops[k].op = "POP"
        <3>1. /\ pops \in Code /\ Len(Pops(f)) \in Nat /\ Len(LeaveFrame(f)) \in Nat
              /\ Len(pops) = Len(Pops(f)) + Len(LeaveFrame(f))
              /\ \A k \in 1 .. Len(Pops(f)) + Len(LeaveFrame(f)) :
                     pops[k] = IF k <= Len(Pops(f)) THEN Pops(f)[k]
                                                    ELSE LeaveFrame(f)[k - Len(Pops(f))]
            <4>1. Len(LeaveFrame(f)) \in Nat
                BY DEF LeaveFrame
            <4> QED BY <1>1, <4>1, CatProperties
        <3>2. Len(Pops(f)) = Len(Saved(f)) /\ Len(Saved(f)) \in Nat
            BY CompiledCode, CompiledFunction
        <3>3. \A k \in 1 .. Len(Pops(f)) : Pops(f)[k].op = "POP"
            BY <3>2 DEF Pops, POP
        <3>4. \A k \in 1 .. Len(LeaveFrame(f)) : LeaveFrame(f)[k].op = "POP"
            BY DEF LeaveFrame, POP
        <3> HIDE DEF pops
        <3>5. \A k \in 1 .. Len(Pops(f)) + Len(LeaveFrame(f)) :
                  k <= Len(Pops(f)) \/ k - Len(Pops(f)) \in 1 .. Len(LeaveFrame(f))
            BY <3>1
        <3> QED BY <3>1, <3>3, <3>4, <3>5
    <2> HIDE DEF pops
    <2>4. emitEpilogue(block) = BeforePops(RestoreFP(block), Release(f))
        BY DEF emitEpilogue, Release
    <2>5. BeforePops(Block(f, b, Prologue(f), pops), Release(f)) =
              Block(f, b, Prologue(f), Cat(Release(f), pops))
        BY <1>1, <1>2, <2>3, InsertBeforePops
    <2> QED BY <2>1, <2>2, <2>4, <2>5 DEF block, pops, Epilogue
<1>3. CASE ~Returns(f, b)
    <2>1. ~isReturn(Last(block))
        BY <1>1, <1>3, BlockGoesOn DEF block
    <2>2. block = Block(f, b, Prologue(f), Epilogue(f))
        BY <1>3, BlockOnly DEF block
    <2> QED BY <2>1, <2>2 DEF block
<1> QED BY <1>2, <1>3

-----------------------------------------------------------------------------
(***************************************************************************)
(* Compiled is an invariant of the pass, whatever else a step does.        *)
(***************************************************************************)

LEMMA InitCompiled ==
    Init => Compiled
<1>1. SUFFICES ASSUME Init PROVE Compiled
    OBVIOUS
<1>2. mf \in Functions /\ stage = "calls" /\ fixed = FixedObjects(mf) /\ code = Blocks(mf)
    BY <1>1 DEF Init
<1>3. code = CodeWith(mf, <<>>, <<>>)
    BY <1>2, BlocksAre
<1> QED BY <1>2, <1>3, StageNames DEF Compiled

\* One step of the pass, and what it leaves alone.
LEMMA StepCompiled ==
    ASSUME Compiled, runOnMachineFunction
    PROVE  Compiled'
<1>1. mf \in Functions /\ stage \in Range(Stages)
    BY DEF Compiled
<1>2. CASE calculateCallsInformation
    <2>1. /\ stage = "calls" /\ stage' = "csr" /\ mf' = mf /\ code' = code /\ fixed' = fixed
          /\ callCode' = [n \in mf.calls |-> eliminateCallFramePseudoInstr(mf, n)]
        BY <1>2, EnterNext DEF calculateCallsInformation
    <2>2. code = CodeWith(mf, <<>>, <<>>) /\ fixed = FixedObjects(mf)
        BY <2>1 DEF Compiled
    <2> QED BY <1>1, <2>1, <2>2, StageNames DEF Compiled
<1>3. CASE calculateCalleeSavedRegisters
    <2>1. /\ stage = "csr" /\ stage' = "spills" /\ mf' = mf /\ code' = code /\ fixed' = fixed
          /\ callCode' = callCode /\ csi' = Saved(mf)
        BY <1>3, EnterNext DEF calculateCalleeSavedRegisters, Saved
    <2>2. /\ code = CodeWith(mf, <<>>, <<>>) /\ fixed = FixedObjects(mf)
          /\ callCode = [n \in mf.calls |-> eliminateCallFramePseudoInstr(mf, n)]
        BY <2>1 DEF Compiled
    <2> QED BY <1>1, <2>1, <2>2, StageNames DEF Compiled
<1>4. CASE insertCSRSpillsAndRestores
    <2>1. /\ stage = "spills" /\ stage' = "finalize" /\ mf' = mf /\ fixed' = fixed
          /\ callCode' = callCode /\ csi' = csi /\ csSize' = Len(csi)
        BY <1>4, EnterNext DEF insertCSRSpillsAndRestores
    <2>2. /\ code = CodeWith(mf, <<>>, <<>>) /\ fixed = FixedObjects(mf) /\ csi = Saved(mf)
          /\ callCode = [n \in mf.calls |-> eliminateCallFramePseudoInstr(mf, n)]
        BY <2>1 DEF Compiled
    <2>3. code' = CodeWith(mf, Pushes(mf), Pops(mf))
        <3>1. code' = [b \in DOMAIN code |->
                  LET spilled == IF b = 1 THEN spillCalleeSavedRegisters(code[b]) ELSE code[b]
                  IN  IF isReturn(Last(spilled)) THEN restoreCalleeSavedRegisters(spilled)
                                                 ELSE spilled]
            BY <1>4 DEF insertCSRSpillsAndRestores
        <3>2. ASSUME NEW b \in 1 .. NumBlocks(mf)
              PROVE  LET spilled == IF b = 1 THEN spillCalleeSavedRegisters(code[b]) ELSE code[b]
                     IN  (IF isReturn(Last(spilled)) THEN restoreCalleeSavedRegisters(spilled)
                                                     ELSE spilled)
                             = Block(mf, b, Pushes(mf), Pops(mf))
            BY <1>1, <2>2, CodeIs, SpilledBlock
        <3>3. DOMAIN code = 1 .. NumBlocks(mf)
            BY <2>2, CodeIs
        <3> QED BY <3>1, <3>2, <3>3 DEF CodeWith
    <2> QED BY <1>1, <2>1, <2>2, <2>3, StageNames DEF Compiled
<1>5. CASE processFunctionBeforeFrameFinalized
    <2>1. /\ stage = "finalize" /\ stage' = "layout" /\ mf' = mf /\ code' = code
          /\ callCode' = callCode /\ csi' = csi /\ csSize' = csSize
        BY <1>5, EnterNext DEF processFunctionBeforeFrameFinalized
    <2>2. /\ code = CodeWith(mf, Pushes(mf), Pops(mf)) /\ fixed = FixedObjects(mf)
          /\ callCode = [n \in mf.calls |-> eliminateCallFramePseudoInstr(mf, n)]
          /\ csi = Saved(mf) /\ csSize = Len(Saved(mf))
        BY <2>1 DEF Compiled
    <2>3. fixed' = [o \in FixedIndices(mf) \cup (IF hasFP(mf) THEN {SavedFP} ELSE {}) |->
                      IF o = SavedFP THEN -1 ELSE FixedObjects(mf)[o]]
        <3>1. fixed = [o \in FixedIndices(mf) |-> FixedObjects(mf)[o]]
              /\ DOMAIN fixed = FixedIndices(mf)
            BY <2>2 DEF FixedObjects
        <3>2. SavedFP \notin FixedIndices(mf)
            BY DEF SavedFP, FixedIndices, Arguments, ReturnAddress
        <3>3. fixed' = IF hasFP(mf)
                       THEN [o \in DOMAIN fixed \cup {SavedFP} |->
                               IF o = SavedFP THEN -1 ELSE fixed[o]]
                       ELSE fixed
            BY <1>5 DEF processFunctionBeforeFrameFinalized
        <3>4. CASE hasFP(mf)
            BY <2>2, <3>1, <3>3, <3>4
        <3>5. CASE ~hasFP(mf)
            <4>1. fixed' = [o \in FixedIndices(mf) |-> IF o = SavedFP THEN -1 ELSE FixedObjects(mf)[o]]
                BY <3>1, <3>2, <3>3, <3>5
            <4> QED BY <3>5, <4>1
        <3> QED BY <3>4, <3>5
    <2> QED BY <1>1, <2>1, <2>2, <2>3, StageNames DEF Compiled
<1>6. CASE calculateFrameObjectOffsets
    <2>1. /\ stage = "layout" /\ stage' = "prologue" /\ mf' = mf /\ code' = code
          /\ callCode' = callCode /\ csi' = csi /\ csSize' = csSize /\ fixed' = fixed
          /\ objOffset' = [o \in Locals(mf) \cup DOMAIN fixed |->
                       IF o \in DOMAIN fixed
                       THEN fixed[o]
                       ELSE -(LocalAreaOffset + Len(csi) + WordsOf(mf.objects, o[2]))]
          /\ stackSize' = Len(csi) + WordsOf(mf.objects, Len(mf.objects))
                    + (IF mf.calls # {} /\ hasReservedCallFrame(mf)
                       THEN MaxCallFrameSize(mf) ELSE 0)
        BY <1>6, EnterNext DEF calculateFrameObjectOffsets
    <2>2. /\ code = CodeWith(mf, Pushes(mf), Pops(mf))
          /\ callCode = [n \in mf.calls |-> eliminateCallFramePseudoInstr(mf, n)]
          /\ csi = Saved(mf) /\ csSize = Len(Saved(mf))
          /\ fixed = [o \in FixedIndices(mf) \cup (IF hasFP(mf) THEN {SavedFP} ELSE {}) |->
                      IF o = SavedFP THEN -1 ELSE FixedObjects(mf)[o]]
        BY <2>1 DEF Compiled
    <2>3. stackSize' = Len(Saved(mf)) + Room(mf)
        <3>1. Len(Saved(mf)) \in Nat /\ Words(mf) \in Nat /\ Reserved(mf) \in Nat
            BY <1>1, CompiledFunction
        <3>2. stackSize' = Len(Saved(mf)) + Words(mf) + Reserved(mf)
            BY <2>1, <2>2 DEF Words, Reserved
        <3> QED BY <3>1, <3>2 DEF Room
    <2> QED BY <1>1, <2>1, <2>2, <2>3, StageNames DEF Compiled
<1>7. CASE insertPrologCode
    <2>1. /\ stage = "prologue" /\ stage' = "epilogue" /\ mf' = mf
          /\ code' = [code EXCEPT ![1] = emitPrologue(code[1])]
          /\ callCode' = callCode /\ csi' = csi /\ csSize' = csSize /\ fixed' = fixed
          /\ objOffset' = objOffset /\ stackSize' = stackSize
        BY <1>7, EnterNext DEF insertPrologCode
    <2>2. /\ code = CodeWith(mf, Pushes(mf), Pops(mf))
          /\ callCode = [n \in mf.calls |-> eliminateCallFramePseudoInstr(mf, n)]
          /\ csi = Saved(mf) /\ csSize = Len(Saved(mf))
          /\ fixed = [o \in FixedIndices(mf) \cup (IF hasFP(mf) THEN {SavedFP} ELSE {}) |->
                      IF o = SavedFP THEN -1 ELSE FixedObjects(mf)[o]]
          /\ objOffset = [o \in Locals(mf) \cup DOMAIN fixed |->
                             IF o \in DOMAIN fixed
                             THEN fixed[o]
                             ELSE -(LocalAreaOffset + Len(Saved(mf)) + WordsOf(mf.objects, o[2]))]
          /\ stackSize = Len(Saved(mf)) + Room(mf)
        BY <2>1 DEF Compiled
    <2>3. code' = CodeWith(mf, Prologue(mf), Pops(mf))
        <3>1. NumBytes = Room(mf)
            BY <1>1, <2>2, CompiledFunction DEF NumBytes
        <3>2. 1 \in 1 .. NumBlocks(mf)
            <4>1. mf.returnBlocks \in Nat
                BY <1>1, FunctionsAssumption DEF MachineFunction
            <4> QED BY <4>1 DEF NumBlocks
        <3>3. code'[1] = Block(mf, 1, Prologue(mf), Pops(mf))
            BY <1>1, <2>1, <2>2, <3>1, <3>2, CodeIs, PrologueBlock
        <3>4. ASSUME NEW b \in 1 .. NumBlocks(mf), b # 1
              PROVE  code'[b] = Block(mf, b, Prologue(mf), Pops(mf))
            BY <2>1, <2>2, <3>4, CodeIs, BlockOnly
        <3>5. code' = [b \in 1 .. NumBlocks(mf) |-> code'[b]]
            BY <2>1, <2>2, CodeIs
        <3> QED BY <3>3, <3>4, <3>5 DEF CodeWith
    <2> QED BY <1>1, <2>1, <2>2, <2>3, StageNames DEF Compiled
<1>8. CASE insertEpilogCode
    <2>1. /\ stage = "epilogue" /\ stage' = "indices" /\ mf' = mf
          /\ code' = [b \in DOMAIN code |->
                        IF isReturn(Last(code[b])) THEN emitEpilogue(code[b]) ELSE code[b]]
          /\ callCode' = callCode /\ csi' = csi /\ csSize' = csSize /\ fixed' = fixed
          /\ objOffset' = objOffset /\ stackSize' = stackSize
        BY <1>8, EnterNext DEF insertEpilogCode
    <2>2. /\ code = CodeWith(mf, Prologue(mf), Pops(mf))
          /\ callCode = [n \in mf.calls |-> eliminateCallFramePseudoInstr(mf, n)]
          /\ csi = Saved(mf) /\ csSize = Len(Saved(mf))
          /\ fixed = [o \in FixedIndices(mf) \cup (IF hasFP(mf) THEN {SavedFP} ELSE {}) |->
                      IF o = SavedFP THEN -1 ELSE FixedObjects(mf)[o]]
          /\ objOffset = [o \in Locals(mf) \cup DOMAIN fixed |->
                             IF o \in DOMAIN fixed
                             THEN fixed[o]
                             ELSE -(LocalAreaOffset + Len(Saved(mf)) + WordsOf(mf.objects, o[2]))]
          /\ stackSize = Len(Saved(mf)) + Room(mf)
        BY <2>1 DEF Compiled
    <2>3. code' = CodeWith(mf, Prologue(mf), Epilogue(mf))
        <3>1. NumBytes = Room(mf)
            BY <1>1, <2>2, CompiledFunction DEF NumBytes
        <3>2. \A b \in 1 .. NumBlocks(mf) :
                  (IF isReturn(Last(code[b])) THEN emitEpilogue(code[b]) ELSE code[b])
                      = Block(mf, b, Prologue(mf), Epilogue(mf))
            BY <1>1, <2>2, <3>1, CodeIs, EpilogueBlock
        <3>3. DOMAIN code = 1 .. NumBlocks(mf)
            BY <2>2, CodeIs
        <3> QED BY <2>1, <3>2, <3>3 DEF CodeWith
    <2> QED BY <1>1, <2>1, <2>2, <2>3, StageNames DEF Compiled
<1>9. CASE replaceFrameIndices
    <2>1. /\ stage = "indices" /\ stage' = "compiled" /\ mf' = mf /\ code' = code
          /\ callCode' = callCode /\ csi' = csi /\ csSize' = csSize /\ fixed' = fixed
          /\ objOffset' = objOffset /\ stackSize' = stackSize
          /\ reference' = [o \in DOMAIN objOffset |-> eliminateFrameIndex(o)]
        BY <1>9, EnterNext DEF replaceFrameIndices
    <2>2. /\ code = CodeWith(mf, Prologue(mf), Epilogue(mf))
          /\ callCode = [n \in mf.calls |-> eliminateCallFramePseudoInstr(mf, n)]
          /\ csi = Saved(mf) /\ csSize = Len(Saved(mf))
          /\ fixed = [o \in FixedIndices(mf) \cup (IF hasFP(mf) THEN {SavedFP} ELSE {}) |->
                      IF o = SavedFP THEN -1 ELSE FixedObjects(mf)[o]]
          /\ objOffset = [o \in Locals(mf) \cup DOMAIN fixed |->
                             IF o \in DOMAIN fixed
                             THEN fixed[o]
                             ELSE -(LocalAreaOffset + Len(Saved(mf)) + WordsOf(mf.objects, o[2]))]
          /\ stackSize = Len(Saved(mf)) + Room(mf)
        BY <2>1 DEF Compiled
    <2>3. reference' = [o \in DOMAIN objOffset' |-> eliminateFrameIndex(o)']
        BY <2>1 DEF eliminateFrameIndex, BasePtr
    <2> QED BY <1>1, <2>1, <2>2, <2>3, StageNames DEF Compiled
<1> QED BY <1>2, <1>3, <1>4, <1>5, <1>6, <1>7, <1>8, <1>9 DEF runOnMachineFunction

LEMMA StutterCompiled ==
    ASSUME Compiled, UNCHANGED compileVars
    PROVE  Compiled'
BY DEF Compiled, compileVars, eliminateFrameIndex, BasePtr

\* The pass alone.
PassSpec == Init /\ [][runOnMachineFunction]_compileVars

(***************************************************************************)
(* Whatever the function, the code of every stage of the pass is its       *)
(* blocks with exactly the prologue and the epilogues that the calls made  *)
(* so far insert, and the offsets and frame references are those of its    *)
(* layout: the insertions of PEI and of emitPrologue and emitEpilogue,     *)
(* which search for the pushes and pops of the earlier calls, find them.   *)
(***************************************************************************)
THEOREM PassCompiles == PassSpec => []Compiled
<1>1. Init => Compiled
    BY InitCompiled
<1>2. Compiled /\ [runOnMachineFunction]_compileVars => Compiled'
    BY StepCompiled, StutterCompiled
<1> QED BY <1>1, <1>2, PTL DEF PassSpec

-----------------------------------------------------------------------------
(***************************************************************************)
(* The instruction at each index of the compiled code.                     *)
(***************************************************************************)

\* Words and instructions of the parts of the frame code.
FPWords(f) == IF hasFP(f) THEN 1 ELSE 0

EnterLength(f) == IF hasFP(f) THEN 2 ELSE 0

AllocateLength(f) == IF Room(f) # 0 THEN 1 ELSE 0

ReleaseLength(f) ==
    IF f.varSized THEN (IF Len(Saved(f)) # 0 THEN 2 ELSE 1) ELSE AllocateLength(f)

BodyIndex(f, b) == IF b = 1 THEN EnterLength(f) + Len(Saved(f)) + AllocateLength(f) + 1 ELSE 1

ReturnIndex(f, b) ==
    BodyIndex(f, b) + ReleaseLength(f) + Len(Saved(f)) + FPWords(f) + 1

\* The instructions of the prologue.
LEMMA PrologueAt ==
    ASSUME NEW f \in Functions
    PROVE  LET n == Len(Saved(f))
               p == EnterLength(f)
           IN  /\ Len(Prologue(f)) = p + n + AllocateLength(f)
               /\ hasFP(f) => Prologue(f)[1] = PUSH("J") /\ Prologue(f)[2] = MOV("J", "SP")
               /\ \A k \in 1 .. n : Prologue(f)[p + k] = PUSH(Saved(f)[n + 1 - k])
               /\ Room(f) # 0 => Prologue(f)[p + n + 1] = SUBSP(Room(f))
<1> DEFINE n == Len(Saved(f))
           p == EnterLength(f)
           enter == EnterFrame(f)
           pushes == Pushes(f)
           alloc == Allocate(f)
           tail == Cat(pushes, alloc)
<1>1. /\ enter \in Code /\ pushes \in Code /\ alloc \in Code /\ tail \in Code
      /\ n \in Nat /\ Len(pushes) = n /\ Room(f) \in Nat
    BY CompiledCode, CompiledFunction, CatType
<1>2. /\ Len(enter) = p /\ p \in Nat
      /\ hasFP(f) => p = 2 /\ enter[1] = PUSH("J") /\ enter[2] = MOV("J", "SP")
    BY DEF EnterFrame, EnterLength
<1>3. /\ Len(alloc) = AllocateLength(f) /\ AllocateLength(f) \in Nat
      /\ Room(f) # 0 => AllocateLength(f) = 1 /\ alloc[1] = SUBSP(Room(f))
    BY DEF Allocate, AllocateLength, IfNonzero
<1>4. \A k \in 1 .. n : pushes[k] = PUSH(Saved(f)[n + 1 - k])
    BY <1>1 DEF Pushes
<1>5. /\ Len(tail) = Len(pushes) + Len(alloc)
      /\ \A k \in 1 .. Len(pushes) + Len(alloc) :
             tail[k] = IF k <= Len(pushes) THEN pushes[k] ELSE alloc[k - Len(pushes)]
    <2> HIDE DEF pushes, alloc
    <2> QED BY <1>1, CatProperties
<1>6. /\ Len(Prologue(f)) = Len(enter) + Len(tail)
      /\ \A k \in 1 .. Len(enter) + Len(tail) :
             Prologue(f)[k] = IF k <= Len(enter) THEN enter[k] ELSE tail[k - Len(enter)]
    <2>1. Prologue(f) = Cat(enter, tail)
        BY DEF Prologue
    <2> HIDE DEF enter, tail
    <2> QED BY <1>1, <2>1, CatProperties
<1> HIDE DEF n, p, enter, pushes, alloc, tail
<1>7. Len(Prologue(f)) = p + n + AllocateLength(f)
    BY <1>1, <1>2, <1>3, <1>5, <1>6
<1>8. ASSUME hasFP(f) PROVE Prologue(f)[1] = PUSH("J") /\ Prologue(f)[2] = MOV("J", "SP")
    BY <1>1, <1>2, <1>3, <1>5, <1>6, <1>8
<1>9. ASSUME NEW k \in 1 .. n PROVE Prologue(f)[p + k] = PUSH(Saved(f)[n + 1 - k])
    <2>0. PICK i \in Int : i = p + k
        BY <1>2
    <2>1. i \in 1 .. Len(enter) + Len(tail) /\ ~(i <= Len(enter)) /\ i - Len(enter) = k
        BY <1>1, <1>2, <1>3, <1>5, <2>0
    <2>2. Prologue(f)[i] = tail[k]
        BY <1>6, <2>1
    <2>3. tail[k] = pushes[k]
        BY <1>1, <1>3, <1>5
    <2> QED BY <1>4, <2>0, <2>2, <2>3
<1>10. ASSUME Room(f) # 0 PROVE Prologue(f)[p + n + 1] = SUBSP(Room(f))
    <2>0. PICK i \in Int, j \in Int : i = p + n + 1 /\ j = n + 1
        BY <1>1, <1>2
    <2>1. i \in 1 .. Len(enter) + Len(tail) /\ ~(i <= Len(enter)) /\ i - Len(enter) = j
        BY <1>1, <1>2, <1>3, <1>5, <1>10, <2>0
    <2>2. Prologue(f)[i] = tail[j]
        BY <1>6, <2>1
    <2>3. j \in 1 .. Len(pushes) + Len(alloc) /\ ~(j <= Len(pushes)) /\ j - Len(pushes) = 1
        BY <1>1, <1>3, <1>10, <2>0
    <2>4. tail[j] = alloc[1]
        BY <1>5, <2>3
    <2> QED BY <1>3, <1>10, <2>0, <2>2, <2>4
<1> QED BY <1>7, <1>8, <1>9, <1>10 DEF n, p

\* The instructions of the epilogues.
LEMMA EpilogueAt ==
    ASSUME NEW f \in Functions
    PROVE  LET n == Len(Saved(f))
               q == ReleaseLength(f)
           IN  /\ Len(Epilogue(f)) = q + n + FPWords(f)
               /\ f.varSized => Epilogue(f)[1] = MOV("SP", "J")
               /\ f.varSized /\ n # 0 => Epilogue(f)[2] = SUBSP(n)
               /\ ~f.varSized /\ Room(f) # 0 => Epilogue(f)[1] = ADDSP(Room(f))
               /\ \A k \in 1 .. n : Epilogue(f)[q + k] = POP(Saved(f)[k])
               /\ hasFP(f) => Epilogue(f)[q + n + 1] = POP("J")
<1> DEFINE n == Len(Saved(f))
           q == ReleaseLength(f)
           release == Release(f)
           pops == Pops(f)
           leave == LeaveFrame(f)
           tail == Cat(pops, leave)
<1>1. /\ release \in Code /\ pops \in Code /\ leave \in Code /\ tail \in Code
      /\ n \in Nat /\ Len(pops) = n /\ Room(f) \in Nat
    BY CompiledCode, CompiledFunction, CatType
<1>2. /\ Len(release) = q /\ q \in Nat
      /\ f.varSized => q > 0 /\ release[1] = MOV("SP", "J")
      /\ f.varSized /\ n # 0 => q = 2 /\ release[2] = SUBSP(n)
      /\ ~f.varSized /\ Room(f) # 0 => q = 1 /\ release[1] = ADDSP(Room(f))
    <2>1. CASE f.varSized /\ n # 0
        <3>1. release = Cat(<<MOV("SP", "J")>>, <<SUBSP(n)>>)
            BY <2>1 DEF Release, IfNonzero, Cat
        <3>2. \A x, y : Cat(<<x>>, <<y>>) = <<x, y>>
            <4>1. SUFFICES ASSUME NEW x, NEW y PROVE Cat(<<x>>, <<y>>) = <<x, y>>
                OBVIOUS
            <4>2. x \in {x, y} /\ y \in {x, y}
                OBVIOUS
            <4> QED BY <4>2, ListPair
        <3>3. release = <<MOV("SP", "J"), SUBSP(n)>> /\ q = 2
            BY <2>1, <3>1, <3>2 DEF ReleaseLength
        <3> HIDE DEF release, q
        <3> QED BY <2>1, <3>3
    <2>2. CASE f.varSized /\ n = 0
        <3>1. release = Cat(<<MOV("SP", "J")>>, <<>>) /\ q = 1
            BY <2>2 DEF Release, IfNonzero, Cat, ReleaseLength
        <3>2. <<MOV("SP", "J")>> \in Code
            BY DEF Code, Instruction
        <3>3. release = <<MOV("SP", "J")>>
            BY <3>1, <3>2, CatEmpty
        <3> HIDE DEF release, q
        <3> QED BY <2>2, <3>1, <3>3
    <2>3. CASE ~f.varSized
        BY <2>3 DEF Release, ReleaseLength, AllocateLength, IfNonzero
    <2> QED BY <2>1, <2>2, <2>3
<1>3. /\ Len(leave) = FPWords(f) /\ FPWords(f) \in Nat
      /\ hasFP(f) => FPWords(f) = 1 /\ leave[1] = POP("J")
    BY DEF LeaveFrame, FPWords
<1>4. \A k \in 1 .. n : pops[k] = POP(Saved(f)[k])
    BY <1>1 DEF Pops
<1>5. /\ Len(tail) = Len(pops) + Len(leave)
      /\ \A k \in 1 .. Len(pops) + Len(leave) :
             tail[k] = IF k <= Len(pops) THEN pops[k] ELSE leave[k - Len(pops)]
    <2> HIDE DEF pops, leave
    <2> QED BY <1>1, CatProperties
<1>6. /\ Len(Epilogue(f)) = Len(release) + Len(tail)
      /\ \A k \in 1 .. Len(release) + Len(tail) :
             Epilogue(f)[k] = IF k <= Len(release) THEN release[k] ELSE tail[k - Len(release)]
    <2>1. Epilogue(f) = Cat(release, tail)
        BY DEF Epilogue
    <2> HIDE DEF release, tail
    <2> QED BY <1>1, <2>1, CatProperties
<1> HIDE DEF n, q, release, pops, leave, tail
<1>7. Len(Epilogue(f)) = q + n + FPWords(f)
    BY <1>1, <1>2, <1>3, <1>5, <1>6
<1>8. \A k \in 1 .. q : Epilogue(f)[k] = release[k]
    BY <1>1, <1>2, <1>3, <1>5, <1>6
<1>9. ASSUME NEW k \in 1 .. n PROVE Epilogue(f)[q + k] = POP(Saved(f)[k])
    <2>0. PICK i \in Int : i = q + k
        BY <1>2
    <2>1. i \in 1 .. Len(release) + Len(tail) /\ ~(i <= Len(release)) /\ i - Len(release) = k
        BY <1>1, <1>2, <1>3, <1>5, <2>0
    <2>2. Epilogue(f)[i] = tail[k]
        BY <1>6, <2>1
    <2>3. tail[k] = pops[k]
        BY <1>1, <1>3, <1>5
    <2> QED BY <1>4, <2>0, <2>2, <2>3
<1>10. ASSUME hasFP(f) PROVE Epilogue(f)[q + n + 1] = POP("J")
    <2>0. PICK i \in Int, j \in Int : i = q + n + 1 /\ j = n + 1
        BY <1>1, <1>2
    <2>1. i \in 1 .. Len(release) + Len(tail) /\ ~(i <= Len(release)) /\ i - Len(release) = j
        BY <1>1, <1>2, <1>3, <1>5, <1>10, <2>0
    <2>2. Epilogue(f)[i] = tail[j]
        BY <1>6, <2>1
    <2>3. j \in 1 .. Len(pops) + Len(leave) /\ ~(j <= Len(pops)) /\ j - Len(pops) = 1
        BY <1>1, <1>3, <1>10, <2>0
    <2>4. tail[j] = leave[1]
        BY <1>5, <2>3
    <2> QED BY <1>3, <1>10, <2>0, <2>2, <2>4
<1>11. /\ f.varSized => Epilogue(f)[1] = MOV("SP", "J")
       /\ f.varSized /\ n # 0 => Epilogue(f)[2] = SUBSP(n)
       /\ ~f.varSized /\ Room(f) # 0 => Epilogue(f)[1] = ADDSP(Room(f))
    BY <1>2, <1>8
<1> QED BY <1>7, <1>9, <1>10, <1>11 DEF n, q

(***************************************************************************)
(* The instruction at an index of a block of the compiled function.        *)
(***************************************************************************)
LEMMA BlockAt ==
    ASSUME NEW f \in Functions, NEW b
    PROVE  LET block == Block(f, b, Prologue(f), Epilogue(f))
               body == BodyIndex(f, b)
           IN  /\ body \in Nat \ {0}
               /\ b = 1 => \A k \in 1 .. body - 1 : block[k] = Prologue(f)[k]
               /\ block[body] = BODY
               /\ Returns(f, b) =>
                      /\ Len(block) = ReturnIndex(f, b)
                      /\ \A k \in 1 .. ReturnIndex(f, b) - body - 1 : block[body + k] = Epilogue(f)[k]
                      /\ block[ReturnIndex(f, b)] = ReturnOf(f)
               /\ ~Returns(f, b) => Len(block) = body
<1> DEFINE before == Before(b, Prologue(f))
           body == BodyIndex(f, b)
           one == <<BODY>>
           ending == Ending(f, b, Epilogue(f))
           rest == Cat(one, ending)
           block == Block(f, b, Prologue(f), Epilogue(f))
<1>1. /\ Prologue(f) \in Code /\ Epilogue(f) \in Code /\ one \in Code /\ <<>> \in Code
      /\ <<ReturnOf(f)>> \in Code
      /\ Len(Saved(f)) \in Nat /\ EnterLength(f) \in Nat /\ AllocateLength(f) \in Nat
      /\ ReleaseLength(f) \in Nat /\ FPWords(f) \in Nat
    BY CompiledCode, CompiledFunction
       DEF EnterLength, AllocateLength, ReleaseLength, FPWords
<1>2. before \in Code /\ body \in Nat \ {0} /\ Len(before) = body - 1
    <2>1. CASE b = 1
        BY <1>1, <2>1, PrologueAt DEF Before, BodyIndex
    <2>2. CASE b # 1
        BY <1>1, <2>2 DEF Before, BodyIndex
    <2> QED BY <2>1, <2>2
<1>3. /\ ending \in Code /\ Len(ending) \in Nat
      /\ ~Returns(f, b) => Len(ending) = 0
      /\ Returns(f, b) =>
             /\ Len(ending) = Len(Epilogue(f)) + 1
             /\ \A k \in 1 .. Len(Epilogue(f)) : ending[k] = Epilogue(f)[k]
             /\ ending[Len(Epilogue(f)) + 1] = ReturnOf(f)
    <2>1. CASE Returns(f, b)
        <3> DEFINE ret == <<ReturnOf(f)>>
        <3>1. ending = Cat(Epilogue(f), ret)
            BY <2>1 DEF Ending
        <3>2. /\ ending \in Code /\ Len(Epilogue(f)) \in Nat
              /\ Len(ending) = Len(Epilogue(f)) + Len(ret)
              /\ \A k \in 1 .. Len(Epilogue(f)) + Len(ret) :
                     ending[k] = IF k <= Len(Epilogue(f)) THEN Epilogue(f)[k]
                                                          ELSE ret[k - Len(Epilogue(f))]
            <4> HIDE DEF ending, ret
            <4>1. ret \in Code
                BY <1>1 DEF ret
            <4> QED BY <1>1, <3>1, <4>1, CatProperties
        <3>3. Len(ret) = 1 /\ ret[1] = ReturnOf(f)
            OBVIOUS
        <3> HIDE DEF ending, ret
        <3> QED BY <2>1, <3>2, <3>3
    <2>2. CASE ~Returns(f, b)
        BY <1>1, <2>2 DEF Ending
    <2> QED BY <2>1, <2>2
<1>4. /\ rest \in Code /\ Len(rest) = 1 + Len(ending) /\ rest[1] = BODY
      /\ \A k \in 1 .. Len(ending) : rest[1 + k] = ending[k]
    <2>1. /\ rest \in Code /\ Len(rest) = Len(one) + Len(ending)
          /\ \A k \in 1 .. Len(one) + Len(ending) :
                 rest[k] = IF k <= Len(one) THEN one[k] ELSE ending[k - Len(one)]
        <3> HIDE DEF one, ending
        <3> QED BY <1>1, <1>3, CatProperties
    <2>2. Len(one) = 1 /\ one[1] = BODY
        OBVIOUS
    <2> HIDE DEF rest, one, ending
    <2> QED BY <1>3, <2>1, <2>2
<1>5. /\ Len(block) = Len(before) + Len(rest)
      /\ \A k \in 1 .. Len(before) + Len(rest) :
             block[k] = IF k <= Len(before) THEN before[k] ELSE rest[k - Len(before)]
    <2>1. block = Cat(before, rest)
        BY DEF Block
    <2> HIDE DEF block, before, rest
    <2> QED BY <1>2, <1>4, <2>1, CatProperties
<1>6. Returns(f, b) => ReturnIndex(f, b) = body + Len(Epilogue(f)) + 1 /\ Len(Epilogue(f)) \in Nat
    BY <1>1, <1>2, EpilogueAt DEF ReturnIndex
<1>7. b = 1 => before = Prologue(f)
    BY DEF Before
<1> HIDE DEF before, body, one, ending, rest, block
<1>8. b = 1 => \A k \in 1 .. body - 1 : block[k] = Prologue(f)[k]
    BY <1>2, <1>3, <1>4, <1>5, <1>7
<1>9. block[body] = BODY
    <2>1. /\ body \in 1 .. Len(before) + Len(rest) /\ ~(body <= Len(before))
          /\ body - Len(before) = 1
        BY <1>2, <1>3, <1>4
    <2> QED BY <1>4, <1>5, <2>1
<1>10. \A k \in 1 .. Len(ending) : block[body + k] = ending[k]
    <2>1. SUFFICES ASSUME NEW k \in 1 .. Len(ending) PROVE block[body + k] = ending[k]
        OBVIOUS
    <2>2. PICK i \in Int, j \in Int : i = body + k /\ j = 1 + k
        BY <1>2
    <2>3. i \in 1 .. Len(before) + Len(rest) /\ ~(i <= Len(before)) /\ i - Len(before) = j
        BY <1>2, <1>3, <1>4, <2>2
    <2>4. block[i] = rest[j]
        BY <1>5, <2>3
    <2>5. rest[j] = ending[k]
        BY <1>4, <2>2
    <2> QED BY <2>2, <2>4, <2>5
<1>11. ASSUME Returns(f, b)
       PROVE  /\ Len(block) = ReturnIndex(f, b)
              /\ \A k \in 1 .. ReturnIndex(f, b) - body - 1 : block[body + k] = Epilogue(f)[k]
              /\ block[ReturnIndex(f, b)] = ReturnOf(f)
    <2>1. ReturnIndex(f, b) - body - 1 = Len(Epilogue(f)) /\ ReturnIndex(f, b) = body + Len(ending)
        BY <1>2, <1>3, <1>6, <1>11
    <2>2. Len(block) = ReturnIndex(f, b)
        BY <1>2, <1>3, <1>4, <1>5, <2>1
    <2>3. \A k \in 1 .. Len(Epilogue(f)) : block[body + k] = Epilogue(f)[k]
        BY <1>3, <1>6, <1>10, <1>11
    <2>4. block[body + Len(ending)] = ReturnOf(f)
        BY <1>3, <1>6, <1>10, <1>11
    <2> QED BY <2>1, <2>2, <2>3, <2>4
<1>12. ~Returns(f, b) => Len(block) = body
    BY <1>2, <1>3, <1>4, <1>5
<1> QED BY <1>2, <1>8, <1>9, <1>11, <1>12 DEF body, block

-----------------------------------------------------------------------------
(***************************************************************************)
(* What is assumed of the functions and of the stack.                      *)
(***************************************************************************)

\* The frame, the dynamic allocations and the arguments fit in the stack.
Fits(f) ==
    /\ FPWords(f) + Len(Saved(f)) + Room(f)
         + (IF f.varSized THEN AllocaBound + MaxCallFrameSize(f) ELSE 0) <= EntrySP
    /\ FirstArg(f) + f.args <= StackTop + 1

\* A handler that moves SP by SUB or ADD has EX among its used registers.
KeepsEX(f) == f.intr /\ f.objects # <<>> => "EX" \in f.used

\* An interrupt between MOV SP, J and SUB SP finds nothing below SP.
UnexposedTo(f) ==
    f \in Interruptible /\ ~f.intr /\ f.varSized => f.used \cap Range(CalleeSavedRegs) = {}

Hypotheses ==
    /\ LocalAreaOffset = 1
    /\ \A f \in Functions : Fits(f) /\ KeepsEX(f) /\ UnexposedTo(f)

-----------------------------------------------------------------------------
(***************************************************************************)
(* The frame of the running function.                                      *)
(***************************************************************************)

NumSaved(f) == Len(Saved(f))

\* The saved words are at Slot(f, 1) .. Slot(f, NumSaved(f)), the last one highest.
Slot(f, j) == EntrySP - FPWords(f) - NumSaved(f) - 1 + j

\* The lowest word of the frame without dynamic allocation.
Base(f) == EntrySP - FPWords(f) - NumSaved(f) - Room(f)

\* The lowest word of a local.
ObjectWord(f, k) == EntrySP - FPWords(f) - NumSaved(f) - WordsOf(f.objects, k)

CalleeSaved(f) == Range(getCalleeSavedRegs(f))

\* What PUSH finds in a register: J holds the frame pointer already.
SavedWord(f, r) == IF hasFP(f) /\ r = "J" THEN Address(EntrySP - 1) ELSE Entry(r)

\* With registers regs and stack m: those of the list up to lo hold what is to
\* be saved or was restored, and the words of the others are in the frame.
FrameLinked(f, regs, m) ==
    hasFP(f) => m[EntrySP - 1] = Entry("J") /\ regs["J"] = Address(EntrySP - 1)

Untouched(f, regs) ==
    \A r \in CalleeSaved(f) \ f.used : (hasFP(f) /\ r = "J") \/ regs[r] = Entry(r)

Frame(f, regs, m, lo) ==
    /\ FrameLinked(f, regs, m)
    /\ Untouched(f, regs)
    /\ \A j \in 1 .. lo - 1 : regs[Saved(f)[j]] = SavedWord(f, Saved(f)[j])
    /\ \A j \in lo .. NumSaved(f) : m[Slot(f, j)] = SavedWord(f, Saved(f)[j])

AllEntry(f, regs) == \A r \in CalleeSaved(f) : regs[r] = Entry(r)

\* The stack from the entry on is as the caller left it.
CallerKept(f, m) == \A a \in EntrySP .. StackTop : m[a] = EntryWord(f, a)

-----------------------------------------------------------------------------
(***************************************************************************)
(* Where the processor is, and what it finds there.                        *)
(***************************************************************************)

NothingStored == call = NoCall /\ stored = {} /\ allocated = {}

BodyOf == BodyIndex(mf, pc.block)

AtEntry ==
    /\ hasFP(mf)
    /\ pc = [block |-> 1, index |-> 1] /\ SP = EntrySP
    /\ AllEntry(mf, reg) /\ NothingStored

AtSetFP ==
    /\ hasFP(mf)
    /\ pc = [block |-> 1, index |-> 2] /\ SP = EntrySP - 1
    /\ mem[EntrySP - 1] = Entry("J")
    /\ AllEntry(mf, reg) /\ NothingStored

\* The registers above lo have been pushed.
Saving(lo) ==
    /\ pc = [block |-> 1, index |-> EnterLength(mf) + NumSaved(mf) + 2 - lo]
    /\ SP = Slot(mf, lo)
    /\ Frame(mf, reg, mem, lo) /\ NothingStored

InPrologue(lo) == (lo > 1 \/ Room(mf) # 0) /\ Saving(lo)

\* The words a dynamic call frame takes.
CallWords == IF mf.varSized THEN call.words ELSE 0

ObjectsStored ==
    \A k \in 1 .. Len(mf.objects) :
        <<"local", k>> \in stored =>
            \A a \in ObjectWord(mf, k) .. ObjectWord(mf, k) + mf.objects[k] - 1 :
                mem[a] = Object(<<"local", k>>)

AllocatedKept ==
    /\ allocated = Base(mf) - Cardinality(allocated) .. Base(mf) - 1
    /\ IsFiniteSet(allocated)
    /\ ~mf.varSized => allocated = {}
    /\ Cardinality(allocated) <= AllocaBound
    /\ \A a \in allocated : mem[a] = Allocated

CallKept ==
    \/ call = NoCall
    \/ /\ call.phase \in {"setup", "passed", "returned"}
       /\ call.words \in mf.calls
       /\ call = [phase |-> call.phase, words |-> call.words]
       /\ call.phase = "passed" => \A k \in 0 .. call.words - 1 : mem[SP + k] = OutArg(k)

InTheBody ==
    /\ pc.index = BodyOf
    /\ SP = Base(mf) - Cardinality(allocated) - CallWords
    /\ Frame(mf, reg, mem, 1)
    /\ stored \subseteq Locals(mf)
    /\ ObjectsStored /\ AllocatedKept /\ CallKept

Releasing ==
    /\ Returns(mf, pc.block) /\ ReleaseLength(mf) # 0
    /\ pc.index = BodyOf + 1
    /\ SP \in Int /\ SP <= Slot(mf, 1)
    /\ ~mf.varSized => SP = Base(mf)
    /\ Frame(mf, reg, mem, 1) /\ call = NoCall

Lowering ==
    /\ Returns(mf, pc.block)
    /\ mf.varSized /\ NumSaved(mf) # 0
    /\ pc.index = BodyOf + 2
    /\ SP = EntrySP - 1
    /\ Frame(mf, reg, mem, 1) /\ call = NoCall

\* The registers up to lo have been popped.
Popping(lo) ==
    /\ Returns(mf, pc.block)
    /\ pc.index = BodyOf + ReleaseLength(mf) + lo
    /\ SP = Slot(mf, lo)
    /\ Frame(mf, reg, mem, lo) /\ call = NoCall

Restoring(lo) == (lo <= NumSaved(mf) \/ hasFP(mf)) /\ Popping(lo)

Returning ==
    /\ Returns(mf, pc.block)
    /\ pc.index = ReturnIndex(mf, pc.block)
    /\ SP = EntrySP
    /\ AllEntry(mf, reg) /\ call = NoCall

Position ==
    \/ AtEntry
    \/ AtSetFP
    \/ \E lo \in 1 .. NumSaved(mf) + 1 : InPrologue(lo)
    \/ InTheBody
    \/ Releasing
    \/ Lowering
    \/ \E lo \in 1 .. NumSaved(mf) + 1 : Restoring(lo)
    \/ Returning

AtStart ==
    /\ pc = [block |-> 1, index |-> 1] /\ SP = EntrySP
    /\ \A r \in Registers : reg[r] = EntryRegister(mf, r)
    /\ NothingStored

BackInCaller ==
    /\ SP = FirstArg(mf) /\ resume = ReturnPC /\ call = NoCall
    /\ \A r \in Preserved(mf) : reg[r] = Entry(r)

\* The function, the machine's variables and the block it is in.
Shape ==
    /\ mf \in Functions
    /\ DOMAIN reg = Registers /\ DOMAIN mem = StackWords
    /\ pc = [block |-> pc.block, index |-> pc.index]
    /\ pc.block \in 1 .. NumBlocks(mf)

Machine ==
    /\ Shape
    /\ CallerKept(mf, mem)
    /\ stage # "compiled" => AtStart /\ resume = NotReturned
    /\ stage = "compiled" => \/ resume = NotReturned /\ Position
                             \/ BackInCaller

ExecutionInvariant == Compiled /\ Machine

-----------------------------------------------------------------------------
(***************************************************************************)
(* Facts about one function and its frame.                                 *)
(***************************************************************************)

LEMMA CallsBounded ==
    ASSUME NEW f \in Functions
    PROVE  /\ MaxCallFrameSize(f) \in Nat
           /\ \A n \in f.calls : n \in Nat /\ n <= MaxCallFrameSize(f)
<1>1. /\ IsFiniteSet(f.calls) /\ f.calls \subseteq Nat
    BY FunctionsAssumption DEF WellFormed, MachineFunction
<1>2. IsFiniteSet(f.calls \cup {0}) /\ f.calls \cup {0} \in SUBSET Nat
    BY <1>1, FS_AddElement
<1> QED BY <1>1, <1>2, MaxOfFinite DEF MaxCallFrameSize

LEMMA FrameFacts ==
    ASSUME Hypotheses, NEW f \in Functions
    PROVE  /\ EntrySP \in Nat /\ StackTop \in Nat
           /\ NumSaved(f) \in Nat
           /\ Words(f) \in Nat /\ Reserved(f) \in Nat /\ Room(f) = Words(f) + Reserved(f)
           /\ FPWords(f) = (IF hasFP(f) THEN 1 ELSE 0)
           /\ EnterLength(f) = (IF hasFP(f) THEN 2 ELSE 0)
           /\ AllocateLength(f) = (IF Room(f) # 0 THEN 1 ELSE 0)
           /\ ReleaseLength(f) = (IF f.varSized THEN (IF NumSaved(f) # 0 THEN 2 ELSE 1)
                                                ELSE AllocateLength(f))
           /\ FPWords(f) + NumSaved(f) + Room(f) <= EntrySP
           /\ f.varSized => FPWords(f) + NumSaved(f) + Room(f) + AllocaBound + MaxCallFrameSize(f)
                                <= EntrySP
           /\ AllocaBound \in Nat
           /\ FirstArg(f) = EntrySP + (IF f.intr THEN 2 ELSE 1)
           /\ FirstArg(f) + f.args <= StackTop + 1 /\ f.args \in Nat
           /\ f.varSized => hasFP(f)
           /\ f.varSized => Reserved(f) = 0
<1>1. Fits(f) /\ EntrySP \in Nat /\ StackTop \in Nat /\ AllocaBound \in Nat
    BY ExecutionAssumption DEF Hypotheses
<1>2. /\ NumSaved(f) \in Nat
      /\ Words(f) \in Nat /\ Reserved(f) \in Nat /\ Room(f) = Words(f) + Reserved(f)
    BY CompiledFunction DEF NumSaved, Room
<1>3. f.args \in Nat
    BY FunctionsAssumption DEF MachineFunction
<1>4. FPWords(f) = (IF hasFP(f) THEN 1 ELSE 0)
    BY DEF FPWords
<1>5. /\ FPWords(f) + NumSaved(f) + Room(f) <= EntrySP
      /\ f.varSized => FPWords(f) + NumSaved(f) + Room(f) + AllocaBound + MaxCallFrameSize(f)
                           <= EntrySP
    <2>1. MaxCallFrameSize(f) \in Nat
        BY CallsBounded
    <2>2. NumSaved(f) + FPWords(f) + Room(f) \in Nat
        BY <1>2, <1>4
    <2> QED BY <1>1, <1>2, <1>4, <2>1, <2>2 DEF Fits, NumSaved
<1>6. /\ FirstArg(f) = EntrySP + (IF f.intr THEN 2 ELSE 1)
      /\ FirstArg(f) + f.args <= StackTop + 1
    BY <1>1 DEF Fits, FirstArg, Pushed
<1>7. (f.varSized => hasFP(f)) /\ (f.varSized => Reserved(f) = 0)
    BY DEF hasFP, Reserved, hasReservedCallFrame
<1>8. /\ EnterLength(f) = (IF hasFP(f) THEN 2 ELSE 0)
      /\ AllocateLength(f) = (IF Room(f) # 0 THEN 1 ELSE 0)
      /\ ReleaseLength(f) = (IF f.varSized THEN (IF NumSaved(f) # 0 THEN 2 ELSE 1)
                                           ELSE AllocateLength(f))
    BY DEF EnterLength, AllocateLength, ReleaseLength, NumSaved
<1> QED BY <1>1, <1>2, <1>3, <1>4, <1>5, <1>6, <1>7, <1>8

LEMMA SavedFacts ==
    ASSUME NEW f \in Functions
    PROVE  /\ \A j \in 1 .. NumSaved(f) : /\ Saved(f)[j] \in Registers
                                          /\ Saved(f)[j] \in CalleeSaved(f) \cap f.used
           /\ \A r \in CalleeSaved(f) \cap f.used : \E j \in 1 .. NumSaved(f) : Saved(f)[j] = r
<1>1. /\ Saved(f) \in Seq(Registers)
      /\ Range(Saved(f)) = CalleeSaved(f) \cap f.used
    BY CompiledFunction DEF CalleeSaved
<1>2. DOMAIN Saved(f) = 1 .. NumSaved(f)
    BY <1>1, LenProperties DEF NumSaved
<1>3. \A j \in 1 .. NumSaved(f) : Saved(f)[j] \in Registers
    BY <1>1, ElementOfSeq DEF NumSaved
<1> QED BY <1>1, <1>2, <1>3 DEF Range

LEMMA CalleeSavedIs ==
    ASSUME NEW f
    PROVE  /\ f.intr => CalleeSaved(f) = {"EX", "B", "C", "X", "Y", "Z", "I", "J"}
           /\ ~f.intr => CalleeSaved(f) = {"X", "Y", "Z", "I", "J"}
           /\ Range(CalleeSavedRegs) = {"X", "Y", "Z", "I", "J"}
<1>1. Range(CalleeSavedRegs) = {"X", "Y", "Z", "I", "J"}
    <2>1. DOMAIN CalleeSavedRegs = {1, 2, 3, 4, 5}
        <3>1. DOMAIN CalleeSavedRegs = 1 .. 5 /\ 1 .. 5 = {1, 2, 3, 4, 5}
            BY DEF CalleeSavedRegs
        <3> QED BY <3>1
    <2>2. /\ CalleeSavedRegs[1] = "X" /\ CalleeSavedRegs[2] = "Y" /\ CalleeSavedRegs[3] = "Z"
          /\ CalleeSavedRegs[4] = "I" /\ CalleeSavedRegs[5] = "J"
        BY DEF CalleeSavedRegs
    <2> QED BY <2>1, <2>2 DEF Range
<1>2. Range(CalleeSavedRegsIntr) = {"EX", "B", "C", "X", "Y", "Z", "I", "J"}
    <2>1. DOMAIN CalleeSavedRegsIntr = {1, 2, 3, 4, 5, 6, 7, 8}
        <3>1. DOMAIN CalleeSavedRegsIntr = 1 .. 8 /\ 1 .. 8 = {1, 2, 3, 4, 5, 6, 7, 8}
            BY DEF CalleeSavedRegsIntr
        <3> QED BY <3>1
    <2>2. /\ CalleeSavedRegsIntr[1] = "EX" /\ CalleeSavedRegsIntr[2] = "B"
          /\ CalleeSavedRegsIntr[3] = "C" /\ CalleeSavedRegsIntr[4] = "X"
          /\ CalleeSavedRegsIntr[5] = "Y" /\ CalleeSavedRegsIntr[6] = "Z"
          /\ CalleeSavedRegsIntr[7] = "I" /\ CalleeSavedRegsIntr[8] = "J"
        BY DEF CalleeSavedRegsIntr
    <2> QED BY <2>1, <2>2 DEF Range
<1> QED BY <1>1, <1>2 DEF CalleeSaved, getCalleeSavedRegs

LEMMA WordsMonotone ==
    ASSUME NEW f \in Functions
    PROVE  /\ Len(f.objects) \in Nat
           /\ \A k \in 0 .. Len(f.objects) : WordsOf(f.objects, k) \in Nat
           /\ \A k \in 1 .. Len(f.objects) :
                  /\ f.objects[k] \in Nat \ {0}
                  /\ WordsOf(f.objects, k) = WordsOf(f.objects, k - 1) + f.objects[k]
           /\ \A j, k \in 0 .. Len(f.objects) :
                  j <= k => WordsOf(f.objects, j) <= WordsOf(f.objects, k)
<1> DEFINE m == Len(f.objects)
           w(k) == WordsOf(f.objects, k)
           size(k) == f.objects[k]
<1>1. f.objects \in Seq(Nat \ {0}) /\ f.objects \in Seq(Nat)
    BY FunctionsAssumption, SeqMonotonic DEF MachineFunction
<1>2. /\ m \in Nat
      /\ \A k \in 1 .. m : size(k) \in Nat \ {0} /\ w(k) = w(k - 1) + size(k)
      /\ \A k \in 0 .. m : w(k) \in Nat
    BY <1>1, LenProperties, ElementOfSeq, WordsOfStep
<1> HIDE DEF m, w, size
<1> DEFINE S == {d \in Nat : \A j \in 0 .. m : j + d \in 0 .. m => w(j) <= w(j + d)}
<1>3. Nat \subseteq S
    <2>1. 0 \in S
        BY <1>2
    <2>2. ASSUME NEW d \in Nat, d \in S PROVE d + 1 \in S
        <3>1. ASSUME NEW j \in 0 .. m, j + (d + 1) \in 0 .. m PROVE w(j) <= w(j + (d + 1))
            <4>1. PICK i \in Int : i = j + (d + 1)
                BY <1>2
            <4>2. i \in 1 .. m /\ i - 1 = j + d /\ i - 1 \in 0 .. m
                BY <1>2, <3>1, <4>1
            <4>3. w(j) <= w(i - 1)
                BY <2>2, <4>2
            <4>4. w(i) = w(i - 1) + size(i) /\ size(i) \in Nat /\ w(i - 1) \in Nat /\ w(j) \in Nat
                BY <1>2, <4>2
            <4>5. w(j) <= w(i)
                BY <4>3, <4>4
            <4> QED BY <4>1, <4>5
        <3> QED BY <3>1
    <2> HIDE DEF S
    <2> QED BY <2>1, <2>2, SetInduction
<1>4. ASSUME NEW j \in 0 .. m, NEW k \in 0 .. m, j <= k PROVE w(j) <= w(k)
    <2>1. k - j \in Nat /\ j + (k - j) = k
        BY <1>2, <1>4
    <2>2. k - j \in S
        BY <1>3, <2>1
    <2> QED BY <2>1, <2>2
<1> QED BY <1>2, <1>4 DEF m, w, size

(***************************************************************************)
(* How the frame changes, whatever the registers and the stack hold.       *)
(***************************************************************************)

LEMMA SlotFacts ==
    ASSUME Hypotheses, NEW f \in Functions
    PROVE  /\ \A j \in Int : Slot(f, j) \in Int /\ Slot(f, j + 1) = Slot(f, j) + 1
           /\ \A j \in 1 .. NumSaved(f) + 1 : Slot(f, j) \in StackWords
           /\ \A j \in 1 .. NumSaved(f) : Slot(f, j) < EntrySP - FPWords(f)
           /\ \A j, k \in Int : j < k => Slot(f, j) < Slot(f, k)
           /\ Slot(f, NumSaved(f) + 1) = EntrySP - FPWords(f)
           /\ Slot(f, 1) = Base(f) + Room(f)
           /\ Base(f) \in Nat /\ EntrySP \in StackWords
           /\ hasFP(f) => EntrySP - 1 \in StackWords /\ FPWords(f) = 1
BY FrameFacts DEF Slot, Base, StackWords

LEMMA FrameStable ==
    ASSUME Hypotheses, NEW f \in Functions, NEW regs, NEW m, NEW n,
           NEW lo \in 1 .. NumSaved(f) + 1,
           Frame(f, regs, m, lo),
           \A a \in StackWords : a >= Slot(f, lo) => n[a] = m[a]
    PROVE  Frame(f, regs, n, lo)
<1>1. NumSaved(f) \in Nat
    BY FrameFacts
<1>2. ASSUME NEW j \in lo .. NumSaved(f) PROVE n[Slot(f, j)] = m[Slot(f, j)]
    <2>1. j \in 1 .. NumSaved(f) + 1 /\ (lo < j \/ lo = j) /\ lo \in Int
        BY <1>1
    <2>2. Slot(f, j) \in StackWords /\ Slot(f, j) >= Slot(f, lo)
        BY <2>1, SlotFacts
    <2> QED BY <2>2
<1>3. ASSUME hasFP(f) PROVE n[EntrySP - 1] = m[EntrySP - 1]
    <2>1. EntrySP - 1 = Slot(f, NumSaved(f) + 1) /\ EntrySP - 1 \in StackWords
        BY <1>3, SlotFacts
    <2>2. lo < NumSaved(f) + 1 \/ lo = NumSaved(f) + 1
        BY <1>1
    <2>3. Slot(f, lo) <= Slot(f, NumSaved(f) + 1) /\ Slot(f, lo) \in Int
        BY <1>1, <2>2, SlotFacts
    <2> QED BY <2>1, <2>3
<1> QED BY <1>2, <1>3 DEF Frame, FrameLinked

LEMMA FrameRegisters ==
    ASSUME NEW f \in Functions, NEW regs, NEW m, NEW new,
           Frame(f, regs, m, 1),
           \A r \in CalleeSaved(f) :
               new[r] = regs[r] \/ (r \in f.used /\ ~(hasFP(f) /\ r = "J"))
    PROVE  Frame(f, new, m, 1)
<1>1. "J" \in CalleeSaved(f)
    BY CalleeSavedIs
<1> QED BY <1>1 DEF Frame, FrameLinked, Untouched

LEMMA FramePush ==
    ASSUME Hypotheses, NEW f \in Functions, NEW regs, NEW m, NEW n,
           NEW lo \in 2 .. NumSaved(f) + 1,
           Frame(f, regs, m, lo),
           \A a \in StackWords : a >= Slot(f, lo) => n[a] = m[a],
           n[Slot(f, lo - 1)] = regs[Saved(f)[lo - 1]]
    PROVE  Frame(f, regs, n, lo - 1)
<1>1. NumSaved(f) \in Nat /\ lo \in 1 .. NumSaved(f) + 1
    BY FrameFacts
<1>2. Frame(f, regs, n, lo)
    BY <1>1, FrameStable
<1>3. lo - 1 \in 1 .. lo - 1
    BY <1>1
<1>4. n[Slot(f, lo - 1)] = SavedWord(f, Saved(f)[lo - 1])
    BY <1>2, <1>3 DEF Frame
<1>5. \A j \in lo - 1 .. NumSaved(f) : j = lo - 1 \/ j \in lo .. NumSaved(f)
    BY <1>1
<1>6. \A j \in 1 .. lo - 1 - 1 : j \in 1 .. lo - 1
    BY <1>1
<1> QED BY <1>2, <1>4, <1>5, <1>6 DEF Frame

LEMMA FramePop ==
    ASSUME Hypotheses, NEW f \in Functions, NEW regs, NEW m, NEW new,
           NEW lo \in 1 .. NumSaved(f),
           Frame(f, regs, m, lo),
           \A r \in Registers : new[r] = IF r = Saved(f)[lo] THEN m[Slot(f, lo)] ELSE regs[r]
    PROVE  Frame(f, new, m, lo + 1)
<1>1. NumSaved(f) \in Nat /\ lo \in lo .. NumSaved(f)
    BY FrameFacts
<1>2. new[Saved(f)[lo]] = SavedWord(f, Saved(f)[lo])
    BY <1>1, SavedFacts DEF Frame
<1>3. ASSUME NEW r \in Registers PROVE new[r] = regs[r] \/ (r = Saved(f)[lo] /\ new[r] = SavedWord(f, r))
    BY <1>2
<1>4. CalleeSaved(f) \subseteq Registers /\ "J" \in Registers
    BY CalleeSavedIs DEF Registers
<1>5. FrameLinked(f, new, m)
    BY <1>3, <1>4 DEF Frame, FrameLinked, SavedWord
<1>6. Untouched(f, new)
    BY <1>1, <1>3, <1>4, SavedFacts DEF Frame, Untouched
<1>7. ASSUME NEW j \in 1 .. (lo + 1) - 1 PROVE new[Saved(f)[j]] = SavedWord(f, Saved(f)[j])
    <2>1. CASE j = lo
        BY <1>2, <2>1
    <2>2. CASE j # lo
        <3>1. j \in 1 .. lo - 1 /\ j \in 1 .. NumSaved(f)
            BY <1>1, <2>2
        <3>2. regs[Saved(f)[j]] = SavedWord(f, Saved(f)[j]) /\ Saved(f)[j] \in Registers
            BY <3>1, SavedFacts DEF Frame
        <3> QED BY <1>3, <3>2
    <2> QED BY <2>1, <2>2
<1>8. \A j \in lo + 1 .. NumSaved(f) : j \in lo .. NumSaved(f)
    BY <1>1
<1> QED BY <1>5, <1>6, <1>7, <1>8 DEF Frame

LEMMA FrameStarts ==
    ASSUME Hypotheses, NEW f \in Functions, NEW regs, NEW m, NEW new,
           AllEntry(f, regs),
           \A r \in Registers :
               new[r] = IF hasFP(f) /\ r = "J" THEN Address(EntrySP - 1) ELSE regs[r],
           hasFP(f) => m[EntrySP - 1] = Entry("J")
    PROVE  Frame(f, new, m, NumSaved(f) + 1)
<1>1. NumSaved(f) \in Nat
    BY FrameFacts
<1>2. CalleeSaved(f) \subseteq Registers /\ "J" \in Registers
    BY CalleeSavedIs DEF Registers
<1>3. FrameLinked(f, new, m) /\ Untouched(f, new)
    BY <1>2 DEF FrameLinked, Untouched, AllEntry
<1>4. \A j \in 1 .. (NumSaved(f) + 1) - 1 : j \in 1 .. NumSaved(f)
    BY <1>1
<1>5. \A j \in 1 .. NumSaved(f) : new[Saved(f)[j]] = SavedWord(f, Saved(f)[j])
    BY <1>2, SavedFacts DEF AllEntry, SavedWord
<1>6. \A j \in NumSaved(f) + 1 .. NumSaved(f) : m[Slot(f, j)] = SavedWord(f, Saved(f)[j])
    BY <1>1
<1>7. \A j \in 1 .. (NumSaved(f) + 1) - 1 : new[Saved(f)[j]] = SavedWord(f, Saved(f)[j])
    BY <1>4, <1>5
<1> QED BY <1>3, <1>6, <1>7 DEF Frame

LEMMA FrameEnds ==
    ASSUME Hypotheses, NEW f \in Functions, NEW regs, NEW m, NEW new,
           Frame(f, regs, m, NumSaved(f) + 1),
           \A r \in Registers :
               new[r] = IF hasFP(f) /\ r = "J" THEN m[EntrySP - 1] ELSE regs[r]
    PROVE  AllEntry(f, new)
<1>1. NumSaved(f) \in Nat
    BY FrameFacts
<1>2. SUFFICES ASSUME NEW r \in CalleeSaved(f) PROVE new[r] = Entry(r)
    BY DEF AllEntry
<1>3. r \in Registers
    BY CalleeSavedIs DEF Registers
<1>4. CASE hasFP(f) /\ r = "J"
    BY <1>3, <1>4 DEF Frame, FrameLinked
<1>5. CASE ~(hasFP(f) /\ r = "J") /\ r \notin f.used
    BY <1>3, <1>5 DEF Frame, Untouched
<1>6. CASE ~(hasFP(f) /\ r = "J") /\ r \in f.used
    <2>1. PICK j \in 1 .. NumSaved(f) : Saved(f)[j] = r
        BY <1>6, SavedFacts
    <2>2. j \in 1 .. (NumSaved(f) + 1) - 1
        BY <1>1
    <2>3. \A i \in 1 .. (NumSaved(f) + 1) - 1 : regs[Saved(f)[i]] = SavedWord(f, Saved(f)[i])
        BY DEF Frame
    <2>4. regs[r] = SavedWord(f, r)
        BY <2>1, <2>2, <2>3
    <2> QED BY <1>3, <1>6, <2>4 DEF SavedWord
<1> QED BY <1>4, <1>5, <1>6

LEMMA EXIsSaved ==
    ASSUME Hypotheses, NEW f \in Functions
    PROVE  /\ Room(f) # 0 \/ f.varSized \/ f.calls # {} => "EX" \notin CalleeSaved(f) \/ "EX" \in f.used
           /\ f.calls # {} => \A r \in {"A", "B", "C", "EX"} : r \notin CalleeSaved(f) \/ r \in f.used
<1>1. WellFormed(f) /\ KeepsEX(f)
    BY FunctionsAssumption DEF Hypotheses
<1>2. ASSUME Room(f) # 0, f.calls = {} PROVE f.objects # <<>>
    <2>1. SUFFICES ASSUME f.objects = <<>> PROVE FALSE
        OBVIOUS
    <2>2. Words(f) = 0
        <3>1. Len(<<>>) = 0 /\ <<>> \in Seq(Nat)
            OBVIOUS
        <3> QED BY <2>1, <3>1, WordsOfStep DEF Words
    <2>3. Reserved(f) = 0
        BY <1>2 DEF Reserved
    <2> QED BY <1>2, <2>2, <2>3, FrameFacts
<1>3. ~f.intr => CalleeSaved(f) = {"X", "Y", "Z", "I", "J"}
    BY CalleeSavedIs
<1>4. f.calls # {} => {"A", "B", "C", "EX"} \subseteq f.used
    BY <1>1 DEF WellFormed
<1>5. f.varSized => "EX" \in f.used
    BY <1>1 DEF WellFormed
<1>6. f.intr /\ f.objects # <<>> => "EX" \in f.used
    BY <1>1 DEF KeepsEX
<1> QED BY <1>2, <1>3, <1>4, <1>5, <1>6

LEMMA EntryWords ==
    ASSUME Hypotheses, NEW f \in Functions
    PROVE  /\ f.intr => EntryWord(f, EntrySP) = Entry("A") /\ EntryWord(f, EntrySP + 1) = ReturnPC
           /\ ~f.intr => EntryWord(f, EntrySP) = ReturnPC
           /\ \A k \in 0 .. f.args - 1 : EntryWord(f, FirstArg(f) + k) = Arg(k)
           /\ EntrySP + (IF f.intr THEN 1 ELSE 0) <= StackTop
<1>1. /\ EntrySP \in Nat /\ StackTop \in Nat /\ FirstArg(f) \in Nat /\ f.args \in Nat
      /\ f.intr => FirstArg(f) = EntrySP + 2
      /\ ~f.intr => FirstArg(f) = EntrySP + 1
      /\ FirstArg(f) + f.args <= StackTop + 1
    BY FrameFacts
<1>2. ASSUME NEW a, ~(a < EntrySP), a = FirstArg(f) - 1
      PROVE  EntryWord(f, a) = ReturnPC
    <2>1. ~(a = EntrySP /\ f.intr)
        BY <1>1, <1>2
    <2>2. ~(a \in FirstArg(f) .. FirstArg(f) + f.args - 1)
        BY <1>1, <1>2
    <2> QED BY <1>2, <2>1, <2>2 DEF EntryWord
<1>3. ASSUME f.intr PROVE EntryWord(f, EntrySP) = Entry("A")
    <2>1. ~(EntrySP < EntrySP) /\ EntrySP # FirstArg(f) - 1
        BY <1>1, <1>3
    <2>2. ~(EntrySP \in FirstArg(f) .. FirstArg(f) + f.args - 1)
        BY <1>1, <1>3
    <2> QED BY <1>3, <2>1, <2>2 DEF EntryWord
<1>4. ASSUME NEW k \in 0 .. f.args - 1 PROVE EntryWord(f, FirstArg(f) + k) = Arg(k)
    <2>1. PICK a \in Int : a = FirstArg(f) + k
        BY <1>1
    <2>2. /\ ~(a < EntrySP) /\ a # FirstArg(f) - 1 /\ a # EntrySP
          /\ a \in FirstArg(f) .. FirstArg(f) + f.args - 1
          /\ a - FirstArg(f) = k
        BY <1>1, <2>1
    <2>3. EntryWord(f, a) = Arg(a - FirstArg(f))
        BY <2>2 DEF EntryWord
    <2> QED BY <2>1, <2>2, <2>3
<1>5. f.intr => EntryWord(f, EntrySP + 1) = ReturnPC
    <2>1. f.intr => ~(EntrySP + 1 < EntrySP) /\ EntrySP + 1 = FirstArg(f) - 1
        BY <1>1
    <2> QED BY <1>2, <2>1
<1>6. ~f.intr => EntryWord(f, EntrySP) = ReturnPC
    <2>1. ~f.intr => ~(EntrySP < EntrySP) /\ EntrySP = FirstArg(f) - 1
        BY <1>1
    <2> QED BY <1>2, <2>1
<1>7. EntrySP + (IF f.intr THEN 1 ELSE 0) <= StackTop
    BY <1>1
<1> QED BY <1>3, <1>4, <1>5, <1>6, <1>7

-----------------------------------------------------------------------------
(***************************************************************************)
(* Where the processor arrives.                                            *)
(***************************************************************************)

SomeSaving == \E lo \in 1 .. NumSaved(mf) + 1 : Saving(lo)

SomePopping == \E lo \in 1 .. NumSaved(mf) + 1 : Popping(lo)

AtBody ==
    pc.index = BodyOf /\ SP = Base(mf) /\ Frame(mf, reg, mem, 1) /\ NothingStored

LEMMA NoneAllocated ==
    Cardinality({}) = 0 /\ IsFiniteSet({})
BY FS_EmptySet

LEMMA BodyArrives ==
    ASSUME Hypotheses
    PROVE  Shape /\ AtBody => InTheBody
<1>1. SUFFICES ASSUME Shape, pc.index = BodyOf, SP = Base(mf), Frame(mf, reg, mem, 1),
                      NothingStored
               PROVE  InTheBody
    BY DEF AtBody
<1>2. mf \in Functions
    BY <1>1 DEF Shape
<1>3. Base(mf) \in Nat /\ AllocaBound \in Nat
    BY <1>2, SlotFacts, FrameFacts
<1>4. CallWords = 0 /\ CallKept
    BY <1>1 DEF CallWords, CallKept, NothingStored, NoCall
<1>5. ObjectsStored /\ stored \subseteq Locals(mf)
    BY <1>1 DEF ObjectsStored, NothingStored
<1>6. AllocatedKept /\ Cardinality(allocated) = 0
    <2>1. allocated = {} /\ Cardinality(allocated) = 0 /\ IsFiniteSet(allocated)
        BY <1>1, NoneAllocated DEF NothingStored
    <2>2. Base(mf) - 0 .. Base(mf) - 1 = {}
        BY <1>3
    <2> QED BY <1>3, <2>1, <2>2 DEF AllocatedKept
<1>7. SP = Base(mf) - Cardinality(allocated) - CallWords
    BY <1>1, <1>3, <1>4, <1>6
<1> QED BY <1>1, <1>4, <1>5, <1>6, <1>7 DEF InTheBody

LEMMA SavingArrives ==
    ASSUME Hypotheses
    PROVE  Shape /\ SomeSaving => Position
<1>1. SUFFICES ASSUME Shape, NEW lo \in 1 .. NumSaved(mf) + 1, Saving(lo)
               PROVE  Position
    BY DEF SomeSaving
<1>2. mf \in Functions
    BY <1>1 DEF Shape
<1>3. CASE lo > 1 \/ Room(mf) # 0
    BY <1>1, <1>3 DEF Position, InPrologue
<1>4. CASE ~(lo > 1 \/ Room(mf) # 0)
    <2>1. lo = 1 /\ Room(mf) = 0 /\ NumSaved(mf) \in Nat /\ EnterLength(mf) \in Nat
        BY <1>2, <1>4, FrameFacts
    <2>2. /\ pc = [block |-> 1, index |-> EnterLength(mf) + NumSaved(mf) + 2 - 1]
          /\ SP = Slot(mf, 1) /\ Frame(mf, reg, mem, 1) /\ NothingStored
        BY <1>1, <2>1 DEF Saving
    <2>3. pc.index = BodyOf
        BY <2>1, <2>2 DEF BodyOf, BodyIndex, AllocateLength, NumSaved
    <2>4. SP = Base(mf)
        BY <1>2, <2>1, <2>2, SlotFacts
    <2> QED BY <1>1, <2>2, <2>3, <2>4, BodyArrives DEF Position, AtBody
<1> QED BY <1>3, <1>4

LEMMA StartArrives ==
    ASSUME Hypotheses
    PROVE  Shape /\ AtStart => Position
<1>1. SUFFICES ASSUME Shape, AtStart PROVE Position
    OBVIOUS
<1>2. mf \in Functions
    BY <1>1 DEF Shape
<1>3. AllEntry(mf, reg)
    <2>1. CalleeSaved(mf) \subseteq Registers /\ "A" \notin CalleeSaved(mf)
        BY CalleeSavedIs DEF Registers
    <2> QED BY <1>1, <2>1 DEF AtStart, AllEntry, EntryRegister
<1>4. CASE hasFP(mf)
    BY <1>1, <1>3, <1>4 DEF AtStart, AtEntry, Position
<1>5. CASE ~hasFP(mf)
    <2>1. NumSaved(mf) \in Nat /\ EnterLength(mf) = 0 /\ FPWords(mf) = 0 /\ EntrySP \in Nat
        BY <1>2, <1>5, FrameFacts
    <2>2. Frame(mf, reg, mem, NumSaved(mf) + 1)
        BY <1>2, <1>3, <1>5, FrameStarts
    <2>3. Slot(mf, NumSaved(mf) + 1) = EntrySP
        BY <1>2, <2>1, SlotFacts
    <2>4. EnterLength(mf) + NumSaved(mf) + 2 - (NumSaved(mf) + 1) = 1
        BY <2>1
    <2>5. Saving(NumSaved(mf) + 1)
        BY <1>1, <2>2, <2>3, <2>4 DEF Saving, AtStart
    <2>6. NumSaved(mf) + 1 \in 1 .. NumSaved(mf) + 1
        BY <2>1
    <2> QED BY <1>1, <2>5, <2>6, SavingArrives DEF SomeSaving
<1> QED BY <1>4, <1>5

LEMMA PoppingArrives ==
    ASSUME Hypotheses
    PROVE  Shape /\ SomePopping => Position
<1>1. SUFFICES ASSUME Shape, NEW lo \in 1 .. NumSaved(mf) + 1, Popping(lo)
               PROVE  Position
    BY DEF SomePopping
<1>2. mf \in Functions
    BY <1>1 DEF Shape
<1>3. CASE lo <= NumSaved(mf) \/ hasFP(mf)
    BY <1>1, <1>3 DEF Position, Restoring
<1>4. CASE ~(lo <= NumSaved(mf) \/ hasFP(mf))
    <2>1. /\ NumSaved(mf) \in Nat /\ FPWords(mf) = 0 /\ EntrySP \in Nat
          /\ lo = NumSaved(mf) + 1 /\ ReleaseLength(mf) \in Nat
        BY <1>2, <1>4, FrameFacts
    <2>2. /\ pc.index = BodyOf + ReleaseLength(mf) + (NumSaved(mf) + 1)
          /\ SP = Slot(mf, NumSaved(mf) + 1) /\ Frame(mf, reg, mem, NumSaved(mf) + 1)
          /\ call = NoCall /\ Returns(mf, pc.block)
        BY <1>1, <2>1 DEF Popping
    <2>3. BodyOf \in Nat
        BY <1>2, BlockAt DEF BodyOf
    <2>4. pc.index = ReturnIndex(mf, pc.block)
        BY <2>1, <2>2, <2>3 DEF ReturnIndex, BodyOf, NumSaved
    <2>5. SP = EntrySP
        BY <1>2, <2>1, <2>2, SlotFacts
    <2>6. AllEntry(mf, reg)
        BY <1>2, <1>4, <2>2, FrameEnds
    <2> QED BY <2>2, <2>4, <2>5, <2>6 DEF Returning, Position
<1> QED BY <1>3, <1>4

-----------------------------------------------------------------------------
(***************************************************************************)
(* The instruction the processor finds where it is.                        *)
(***************************************************************************)

LEMMA InstrInBlock ==
    ASSUME Hypotheses, Compiled, stage = "compiled", Shape
    PROVE  /\ code[pc.block] = Block(mf, pc.block, Prologue(mf), Epilogue(mf))
           /\ Len(code) = NumBlocks(mf)
<1>1. code = CodeWith(mf, Prologue(mf), Epilogue(mf)) /\ pc.block \in 1 .. NumBlocks(mf)
    BY DEF Compiled, Shape
<1>2. NumBlocks(mf) \in Nat
    BY FunctionsAssumption DEF Shape, MachineFunction, NumBlocks
<1>3. code[pc.block] = Block(mf, pc.block, Prologue(mf), Epilogue(mf))
    BY <1>1, CodeIs
<1>4. Len(code) = NumBlocks(mf)
    BY <1>1, <1>2 DEF CodeWith
<1> QED BY <1>3, <1>4

LEMMA InstrAt ==
    ASSUME Hypotheses, Compiled, stage = "compiled", Shape
    PROVE  /\ AtEntry => Instr = PUSH("J")
           /\ AtSetFP => Instr = MOV("J", "SP")
           /\ \A lo \in 1 .. NumSaved(mf) + 1 :
                  InPrologue(lo) => Instr = IF lo > 1 THEN PUSH(Saved(mf)[lo - 1])
                                                      ELSE SUBSP(Room(mf))
           /\ InTheBody => Instr = BODY
           /\ Releasing => Instr = IF mf.varSized THEN MOV("SP", "J") ELSE ADDSP(Room(mf))
           /\ Lowering => Instr = SUBSP(NumSaved(mf))
           /\ \A lo \in 1 .. NumSaved(mf) + 1 :
                  Restoring(lo) => Instr = IF lo <= NumSaved(mf) THEN POP(Saved(mf)[lo])
                                                                 ELSE POP("J")
           /\ Returning => Instr = ReturnOf(mf)
<1> DEFINE n == NumSaved(mf)
           p == EnterLength(mf)
           q == ReleaseLength(mf)
           blk == Block(mf, pc.block, Prologue(mf), Epilogue(mf))
<1>1. mf \in Functions
    BY DEF Shape
<1>2. Instr = blk[pc.index]
    BY InstrInBlock DEF Instr
<1>3. /\ n \in Nat /\ Room(mf) \in Nat
      /\ p = (IF hasFP(mf) THEN 2 ELSE 0)
      /\ AllocateLength(mf) = (IF Room(mf) # 0 THEN 1 ELSE 0)
      /\ q = (IF mf.varSized THEN (IF n # 0 THEN 2 ELSE 1) ELSE AllocateLength(mf))
      /\ FPWords(mf) = (IF hasFP(mf) THEN 1 ELSE 0)
    BY <1>1, FrameFacts
<1>4. /\ BodyOf \in Nat \ {0}
      /\ pc.block = 1 => /\ BodyOf = p + n + AllocateLength(mf) + 1
                         /\ \A k \in 1 .. BodyOf - 1 : blk[k] = Prologue(mf)[k]
      /\ blk[BodyOf] = BODY
      /\ Returns(mf, pc.block) =>
             /\ \A k \in 1 .. ReturnIndex(mf, pc.block) - BodyOf - 1 : blk[BodyOf + k] = Epilogue(mf)[k]
             /\ blk[ReturnIndex(mf, pc.block)] = ReturnOf(mf)
             /\ ReturnIndex(mf, pc.block) = BodyOf + q + n + FPWords(mf) + 1
    BY <1>1, BlockAt DEF BodyOf, BodyIndex, NumSaved, ReturnIndex
<1>5. /\ hasFP(mf) => Prologue(mf)[1] = PUSH("J") /\ Prologue(mf)[2] = MOV("J", "SP")
      /\ \A k \in 1 .. n : Prologue(mf)[p + k] = PUSH(Saved(mf)[n + 1 - k])
      /\ Room(mf) # 0 => Prologue(mf)[p + n + 1] = SUBSP(Room(mf))
    BY <1>1, PrologueAt DEF NumSaved
<1>6. /\ mf.varSized => Epilogue(mf)[1] = MOV("SP", "J")
      /\ mf.varSized /\ n # 0 => Epilogue(mf)[2] = SUBSP(n)
      /\ ~mf.varSized /\ Room(mf) # 0 => Epilogue(mf)[1] = ADDSP(Room(mf))
      /\ \A k \in 1 .. n : Epilogue(mf)[q + k] = POP(Saved(mf)[k])
      /\ hasFP(mf) => Epilogue(mf)[q + n + 1] = POP("J")
    BY <1>1, EpilogueAt DEF NumSaved
<1> HIDE DEF n, p, q, blk
<1>7. AtEntry => Instr = PUSH("J")
    <2>1. SUFFICES ASSUME AtEntry PROVE Instr = PUSH("J")
        OBVIOUS
    <2>2. hasFP(mf) /\ pc.block = 1 /\ pc.index = 1
        BY <2>1 DEF AtEntry
    <2>3. 1 \in 1 .. BodyOf - 1
        BY <1>3, <1>4, <2>2
    <2> QED BY <1>2, <1>4, <1>5, <2>2, <2>3
<1>8. AtSetFP => Instr = MOV("J", "SP")
    <2>1. SUFFICES ASSUME AtSetFP PROVE Instr = MOV("J", "SP")
        OBVIOUS
    <2>2. hasFP(mf) /\ pc.block = 1 /\ pc.index = 2
        BY <2>1 DEF AtSetFP
    <2>3. 2 \in 1 .. BodyOf - 1
        BY <1>3, <1>4, <2>2
    <2> QED BY <1>2, <1>4, <1>5, <2>2, <2>3
<1>9. ASSUME NEW lo \in 1 .. NumSaved(mf) + 1, InPrologue(lo)
      PROVE  Instr = IF lo > 1 THEN PUSH(Saved(mf)[lo - 1]) ELSE SUBSP(Room(mf))
    <2>1. pc.block = 1 /\ pc.index = p + n + 2 - lo /\ (lo > 1 \/ Room(mf) # 0)
        BY <1>9 DEF InPrologue, Saving, n, p
    <2>2. lo \in 1 .. n + 1
        BY DEF n
    <2>3. pc.index \in 1 .. BodyOf - 1
        BY <1>3, <1>4, <2>1, <2>2
    <2>4. Instr = Prologue(mf)[pc.index]
        BY <1>2, <1>4, <2>1, <2>3
    <2>5. CASE lo > 1
        <3>1. PICK k \in Int : k = n + 2 - lo
            BY <1>3, <2>2
        <3>2. k \in 1 .. n /\ pc.index = p + k /\ n + 1 - k = lo - 1
            BY <1>3, <2>1, <2>2, <2>5, <3>1
        <3>3. Prologue(mf)[p + k] = PUSH(Saved(mf)[n + 1 - k])
            BY <1>5, <3>2
        <3> QED BY <2>4, <2>5, <3>2, <3>3
    <2>6. CASE ~(lo > 1)
        <3>1. pc.index = p + n + 1 /\ Room(mf) # 0
            BY <1>3, <2>1, <2>2, <2>6
        <3> QED BY <1>5, <2>4, <2>6, <3>1
    <2> QED BY <2>5, <2>6
<1>10. InTheBody => Instr = BODY
    BY <1>2, <1>4 DEF InTheBody
<1>11. ASSUME NEW k \in 1 .. q + n + FPWords(mf), Returns(mf, pc.block), pc.index = BodyOf + k
       PROVE  Instr = Epilogue(mf)[k]
    <2>1. k \in 1 .. ReturnIndex(mf, pc.block) - BodyOf - 1
        BY <1>3, <1>4, <1>11
    <2> QED BY <1>2, <1>4, <1>11, <2>1
<1>12. Releasing => Instr = IF mf.varSized THEN MOV("SP", "J") ELSE ADDSP(Room(mf))
    <2>1. SUFFICES ASSUME Releasing
                   PROVE  Instr = IF mf.varSized THEN MOV("SP", "J") ELSE ADDSP(Room(mf))
        OBVIOUS
    <2>2. Returns(mf, pc.block) /\ q # 0 /\ pc.index = BodyOf + 1
        BY <2>1 DEF Releasing, q
    <2>3. 1 \in 1 .. q + n + FPWords(mf)
        BY <1>3, <2>2
    <2>4. Instr = Epilogue(mf)[1]
        BY <1>11, <2>2, <2>3
    <2> QED BY <1>3, <1>6, <2>2, <2>4
<1>13. Lowering => Instr = SUBSP(NumSaved(mf))
    <2>1. SUFFICES ASSUME Lowering PROVE Instr = SUBSP(n)
        BY DEF n
    <2>2. Returns(mf, pc.block) /\ mf.varSized /\ n # 0 /\ pc.index = BodyOf + 2
        BY <2>1 DEF Lowering, n
    <2>3. 2 \in 1 .. q + n + FPWords(mf)
        BY <1>3, <2>2
    <2> QED BY <1>6, <1>11, <2>2, <2>3
<1>14. ASSUME NEW lo \in 1 .. NumSaved(mf) + 1, Restoring(lo)
       PROVE  Instr = IF lo <= NumSaved(mf) THEN POP(Saved(mf)[lo]) ELSE POP("J")
    <2>1. /\ Returns(mf, pc.block) /\ pc.index = BodyOf + q + lo
          /\ lo <= n \/ hasFP(mf)
        BY <1>14 DEF Restoring, Popping, n, q
    <2>2. lo \in 1 .. n + 1
        BY DEF n
    <2>3. PICK k \in Int : k = q + lo
        BY <1>3, <2>2
    <2>4. k \in 1 .. q + n + FPWords(mf) /\ pc.index = BodyOf + k
        BY <1>3, <1>4, <2>1, <2>2, <2>3
    <2>5. Instr = Epilogue(mf)[k]
        BY <1>11, <2>1, <2>4
    <2>6. CASE lo <= n
        <3>1. lo \in 1 .. n
            BY <1>3, <2>2, <2>6
        <3> QED BY <1>6, <2>3, <2>5, <2>6, <3>1 DEF n
    <2>7. CASE ~(lo <= n)
        <3>1. k = q + n + 1 /\ hasFP(mf)
            BY <1>3, <2>1, <2>2, <2>3, <2>7
        <3> QED BY <1>6, <2>5, <2>7, <3>1 DEF n
    <2> QED BY <2>6, <2>7
<1>15. Returning => Instr = ReturnOf(mf)
    BY <1>2, <1>4 DEF Returning
<1> QED BY <1>7, <1>8, <1>9, <1>10, <1>12, <1>13, <1>14, <1>15

LEMMA WhereIs ==
    ASSUME Hypotheses, Compiled, stage = "compiled", Shape, Position
    PROVE  /\ Instr.op = "PUSH" => AtEntry \/ \E lo \in 2 .. NumSaved(mf) + 1 : InPrologue(lo)
           /\ Instr.op = "MOV" => AtSetFP \/ (Releasing /\ mf.varSized)
           /\ Instr.op \in {"SUBSP", "ADDSP"} =>
                  InPrologue(1) \/ Lowering \/ (Releasing /\ ~mf.varSized)
           /\ Instr.op = "POP" => \E lo \in 1 .. NumSaved(mf) + 1 : Restoring(lo)
           /\ Instr.op = "BODY" => InTheBody
           /\ Instr.op = "RET" => Returning /\ ~mf.intr
           /\ Instr.op = "RETI" => Returning /\ mf.intr
<1> DEFINE n == NumSaved(mf)
<1>1. n \in Nat
    BY FrameFacts DEF Shape
<1>2. /\ \A r : PUSH(r).op = "PUSH" /\ POP(r).op = "POP"
      /\ \A r, s : MOV(r, s).op = "MOV"
      /\ \A k : SUBSP(k).op = "SUBSP" /\ ADDSP(k).op = "ADDSP"
      /\ BODY.op = "BODY"
      /\ mf.intr => ReturnOf(mf).op = "RETI"
      /\ ~mf.intr => ReturnOf(mf).op = "RET"
    BY DEF PUSH, POP, MOV, SUBSP, ADDSP, BODY, ReturnOf, RET, RETI
<1>3. CASE AtEntry
    <2>1. Instr.op = "PUSH"
        BY <1>2, <1>3, InstrAt
    <2> QED BY <1>3, <2>1
<1>4. CASE AtSetFP
    <2>1. Instr.op = "MOV"
        BY <1>2, <1>4, InstrAt
    <2> QED BY <1>4, <2>1
<1>5. ASSUME NEW lo \in 1 .. n + 1, InPrologue(lo)
      PROVE  \/ Instr.op = "PUSH" /\ \E i \in 2 .. n + 1 : InPrologue(i)
             \/ Instr.op = "SUBSP" /\ InPrologue(1)
    <2>1. Instr = IF lo > 1 THEN PUSH(Saved(mf)[lo - 1]) ELSE SUBSP(Room(mf))
        BY <1>5, InstrAt
    <2>2. CASE lo > 1
        <3>1. lo \in 2 .. n + 1
            BY <1>1, <2>2
        <3> QED BY <1>2, <1>5, <2>1, <2>2, <3>1
    <2>3. CASE ~(lo > 1)
        <3>1. lo = 1
            BY <1>1, <2>3
        <3> QED BY <1>2, <1>5, <2>1, <3>1
    <2> QED BY <2>2, <2>3
<1>6. CASE InTheBody
    <2>1. Instr.op = "BODY"
        BY <1>2, <1>6, InstrAt
    <2> QED BY <1>6, <2>1
<1>7. CASE Releasing
    <2>1. Instr.op = IF mf.varSized THEN "MOV" ELSE "ADDSP"
        BY <1>2, <1>7, InstrAt
    <2> QED BY <1>7, <2>1
<1>8. CASE Lowering
    <2>1. Instr.op = "SUBSP"
        BY <1>2, <1>8, InstrAt
    <2> QED BY <1>8, <2>1
<1>9. ASSUME NEW lo \in 1 .. n + 1, Restoring(lo)
      PROVE  Instr.op = "POP" /\ \E i \in 1 .. n + 1 : Restoring(i)
    <2>1. Instr = IF lo <= n THEN POP(Saved(mf)[lo]) ELSE POP("J")
        BY <1>9, InstrAt
    <2> QED BY <1>2, <1>9, <2>1
<1>10. CASE Returning
    <2>1. Instr.op = IF mf.intr THEN "RETI" ELSE "RET"
        BY <1>2, <1>10, InstrAt
    <2> QED BY <1>10, <2>1
<1>11. CASE \E lo \in 1 .. n + 1 : InPrologue(lo)
    <2>1. PICK lo \in 1 .. n + 1 : InPrologue(lo)
        BY <1>11
    <2>2. \/ Instr.op = "PUSH" /\ \E i \in 2 .. n + 1 : InPrologue(i)
          \/ Instr.op = "SUBSP" /\ InPrologue(1)
        BY <1>5, <2>1
    <2> QED BY <2>2
<1>12. CASE \E lo \in 1 .. n + 1 : Restoring(lo)
    <2>1. Instr.op = "POP"
        BY <1>9, <1>12
    <2> QED BY <1>12, <2>1
<1> QED BY <1>3, <1>4, <1>6, <1>7, <1>8, <1>10, <1>11, <1>12 DEF Position

-----------------------------------------------------------------------------
(***************************************************************************)
(* The words of the body.                                                  *)
(***************************************************************************)

LEMMA ObjectFacts ==
    ASSUME Hypotheses, NEW f \in Functions
    PROVE  \A k \in 1 .. Len(f.objects) :
               /\ ObjectWord(f, k) \in Nat /\ f.objects[k] \in Nat \ {0}
               /\ Base(f) + Reserved(f) <= ObjectWord(f, k)
               /\ ObjectWord(f, k) + f.objects[k] <= Slot(f, 1)
               /\ \A j \in 1 .. Len(f.objects) :
                      j < k => ObjectWord(f, k) + f.objects[k] <= ObjectWord(f, j)
<1>1. SUFFICES ASSUME NEW k \in 1 .. Len(f.objects)
               PROVE  /\ ObjectWord(f, k) \in Nat /\ f.objects[k] \in Nat \ {0}
                      /\ Base(f) + Reserved(f) <= ObjectWord(f, k)
                      /\ ObjectWord(f, k) + f.objects[k] <= Slot(f, 1)
                      /\ \A j \in 1 .. Len(f.objects) :
                             j < k => ObjectWord(f, k) + f.objects[k] <= ObjectWord(f, j)
    OBVIOUS
<1> DEFINE m == Len(f.objects)
           w(i) == WordsOf(f.objects, i)
           size == f.objects[k]
<1>2. /\ m \in Nat /\ k \in 0 .. m /\ k - 1 \in 0 .. m /\ m \in 0 .. m
      /\ size \in Nat \ {0} /\ w(k) = w(k - 1) + size
      /\ w(k) \in Nat /\ w(k - 1) \in Nat
      /\ w(k) <= w(m) /\ w(m) = Words(f)
    <2>1. m \in Nat
        BY WordsMonotone
    <2>2. k \in 0 .. m /\ k - 1 \in 0 .. m /\ m \in 0 .. m /\ k <= m
        BY <2>1
    <2> QED BY <2>1, <2>2, WordsMonotone DEF Words
<1>3. \A j \in 1 .. m : j < k => w(j) <= w(k - 1) /\ w(j) \in Nat
    <2>1. SUFFICES ASSUME NEW j \in 1 .. m, j < k PROVE w(j) <= w(k - 1) /\ w(j) \in Nat
        OBVIOUS
    <2>2. j \in 0 .. m /\ j <= k - 1
        BY <1>2, <2>1
    <2> QED BY <1>2, <2>2, WordsMonotone
<1>4. /\ EntrySP \in Nat /\ NumSaved(f) \in Nat /\ FPWords(f) \in Nat
      /\ Words(f) \in Nat /\ Reserved(f) \in Nat /\ Room(f) = Words(f) + Reserved(f)
      /\ FPWords(f) + NumSaved(f) + Room(f) <= EntrySP
    BY FrameFacts
<1>5. \A i : ObjectWord(f, i) = EntrySP - FPWords(f) - NumSaved(f) - w(i)
    BY DEF ObjectWord
<1>6. Slot(f, 1) = EntrySP - FPWords(f) - NumSaved(f) - 1 + 1
      /\ Base(f) = EntrySP - FPWords(f) - NumSaved(f) - Room(f)
    BY DEF Slot, Base
<1> HIDE DEF m, w, size
<1>7. /\ ObjectWord(f, k) \in Nat
      /\ Base(f) + Reserved(f) <= ObjectWord(f, k)
      /\ ObjectWord(f, k) + size <= Slot(f, 1)
    <2>1. ObjectWord(f, k) = EntrySP - FPWords(f) - NumSaved(f) - w(k)
        BY <1>5
    <2>2. ObjectWord(f, k) \in Int /\ Base(f) + Reserved(f) <= ObjectWord(f, k)
        <3>1. PICK top \in Int : top = EntrySP - FPWords(f) - NumSaved(f)
            BY <1>4
        <3>2. Base(f) + Reserved(f) = top - Words(f)
            BY <1>4, <1>6, <3>1
        <3>3. w(k) \in Nat /\ Words(f) \in Nat /\ w(k) <= Words(f)
            BY <1>2, <1>4
        <3>4. ObjectWord(f, k) = top - w(k)
            BY <2>1, <3>1
        <3> QED BY <3>1, <3>2, <3>3, <3>4
    <2>3. ObjectWord(f, k) >= 0
        BY <1>2, <1>4, <2>1
    <2>4. ObjectWord(f, k) + size <= Slot(f, 1)
        <3>1. PICK top \in Int : top = EntrySP - FPWords(f) - NumSaved(f)
            BY <1>4
        <3>2. ObjectWord(f, k) = top - w(k) /\ Slot(f, 1) = top
            BY <1>6, <2>1, <3>1
        <3>3. w(k) = w(k - 1) + size /\ w(k - 1) \in Nat /\ size \in Nat
            BY <1>2
        <3> QED BY <3>2, <3>3
    <2> QED BY <2>2, <2>3, <2>4
<1>8. ASSUME NEW j \in 1 .. m, j < k PROVE ObjectWord(f, k) + size <= ObjectWord(f, j)
    <2>1. /\ ObjectWord(f, k) = EntrySP - FPWords(f) - NumSaved(f) - w(k)
          /\ ObjectWord(f, j) = EntrySP - FPWords(f) - NumSaved(f) - w(j)
        BY <1>5
    <2>2. w(j) <= w(k - 1) /\ w(j) \in Nat
        BY <1>3, <1>8
    <2>3. PICK top \in Int : top = EntrySP - FPWords(f) - NumSaved(f)
        BY <1>4
    <2>4. ObjectWord(f, k) = top - w(k) /\ ObjectWord(f, j) = top - w(j)
        BY <2>1, <2>3
    <2>5. w(k) = w(k - 1) + size /\ w(k - 1) \in Nat /\ size \in Nat
        BY <1>2
    <2> QED BY <2>2, <2>4, <2>5
<1> QED BY <1>2, <1>7, <1>8 DEF m, size

LEMMA BodyBounds ==
    ASSUME Hypotheses, Shape, InTheBody
    PROVE  /\ mf \in Functions /\ Base(mf) \in Nat /\ Slot(mf, 1) \in Nat
           /\ Reserved(mf) \in Nat /\ Base(mf) + Reserved(mf) <= Slot(mf, 1)
           /\ Slot(mf, 1) <= EntrySP /\ EntrySP <= StackTop /\ EntrySP \in Nat /\ StackTop \in Nat
           /\ Cardinality(allocated) \in Nat /\ Cardinality(allocated) <= AllocaBound
           /\ call.words \in Nat /\ SP \in Nat /\ SP <= Base(mf)
           /\ SP + call.words <= Base(mf) + Reserved(mf)
           /\ ~mf.varSized => /\ SP = Base(mf) /\ allocated = {}
                              /\ call # NoCall => call.words <= Reserved(mf)
           /\ mf.varSized => SP = Base(mf) - Cardinality(allocated) - call.words
           /\ mf.varSized =>
                  Base(mf) - Cardinality(allocated) - MaxCallFrameSize(mf) \in Nat
           /\ allocated \subseteq {a \in StackWords : a < Base(mf)}
           /\ call = NoCall => call.words = 0
<1>1. mf \in Functions
    BY DEF Shape
<1>2. /\ Base(mf) \in Nat /\ Slot(mf, 1) \in Nat /\ Reserved(mf) \in Nat
      /\ Base(mf) + Reserved(mf) <= Slot(mf, 1)
      /\ Slot(mf, 1) <= EntrySP /\ EntrySP <= StackTop /\ EntrySP \in Nat /\ StackTop \in Nat
    BY <1>1, FrameFacts DEF Base, Slot
<1>3. /\ Cardinality(allocated) \in Nat /\ Cardinality(allocated) <= AllocaBound
    BY FS_CardinalityType DEF InTheBody, AllocatedKept
<1>4. call = NoCall => call.words = 0
    BY DEF NoCall
<1>5. call # NoCall => call.words \in mf.calls
    BY DEF InTheBody, CallKept
<1>6. call.words \in Nat /\ call.words <= MaxCallFrameSize(mf) /\ MaxCallFrameSize(mf) \in Nat
    BY <1>1, <1>4, <1>5, CallsBounded
<1>7. ASSUME ~mf.varSized
      PROVE  /\ SP = Base(mf) /\ allocated = {}
             /\ call # NoCall => call.words <= Reserved(mf)
    <2>1. allocated = {} /\ Cardinality(allocated) = 0
        BY <1>7, NoneAllocated DEF InTheBody, AllocatedKept
    <2>2. SP = Base(mf) - 0 - 0
        BY <1>7, <2>1 DEF InTheBody, CallWords
    <2>3. call # NoCall => call.words <= Reserved(mf)
        BY <1>1, <1>5, <1>7, CompiledFunction DEF hasReservedCallFrame
    <2> QED BY <1>2, <2>1, <2>2, <2>3
<1>8. ASSUME mf.varSized
      PROVE  /\ SP = Base(mf) - Cardinality(allocated) - call.words
             /\ Base(mf) - Cardinality(allocated) - MaxCallFrameSize(mf) \in Nat
             /\ SP \in Nat
    <2>1. SP = Base(mf) - Cardinality(allocated) - call.words
        BY <1>8 DEF InTheBody, CallWords
    <2>2. Base(mf) >= AllocaBound + MaxCallFrameSize(mf) /\ AllocaBound \in Nat
        BY <1>1, <1>6, <1>8, FrameFacts DEF Base
    <2> QED BY <1>2, <1>3, <1>6, <2>1, <2>2
<1>9. allocated \subseteq {a \in StackWords : a < Base(mf)}
    <2>1. CASE mf.varSized
        <3>1. allocated = Base(mf) - Cardinality(allocated) .. Base(mf) - 1
            BY DEF InTheBody, AllocatedKept
        <3>2. Base(mf) - Cardinality(allocated) \in Nat
            BY <1>2, <1>3, <1>6, <1>8, <2>1
        <3> QED BY <1>2, <3>1, <3>2 DEF StackWords
    <2>2. CASE ~mf.varSized
        BY <1>7, <2>2
    <2> QED BY <2>1, <2>2
<1>10. SP <= Base(mf) /\ SP + call.words <= Base(mf) + Reserved(mf)
    <2>1. CASE mf.varSized
        <3>1. SP = Base(mf) - Cardinality(allocated) - call.words
            BY <1>8, <2>1
        <3> QED BY <1>2, <1>3, <1>6, <3>1
    <2>2. CASE ~mf.varSized
        <3>1. call.words <= Reserved(mf)
            BY <1>2, <1>4, <1>7, <2>2
        <3> QED BY <1>2, <1>6, <1>7, <2>2, <3>1
    <2> QED BY <2>1, <2>2
<1> QED BY <1>1, <1>2, <1>3, <1>4, <1>6, <1>7, <1>8, <1>9, <1>10

\* A word of an object that ends below the slots is a word of the stack.
LEMMA WordOfObject ==
    ASSUME NEW w \in Nat, NEW n \in Nat, NEW top \in Nat, w + n <= top, top <= StackTop,
           StackTop \in Nat, NEW a \in w .. w + n - 1
    PROVE  a \in StackWords /\ a \in Int /\ w <= a /\ a < w + n
<1>1. a \in Int /\ w <= a /\ a < w + n
    OBVIOUS
<1>2. 0 <= a /\ a <= StackTop
    BY <1>1
<1> QED BY <1>1, <1>2 DEF StackWords

\* A step that writes neither to the locals nor above them, and not to the
\* memory allocated dynamically.
LEMMA BodyMemory ==
    ASSUME Hypotheses, Shape, InTheBody, UNCHANGED <<mf, stored, allocated>>,
           \A a \in StackWords :
               a >= Base(mf) + Reserved(mf) \/ a \in allocated => mem'[a] = mem[a]
    PROVE  /\ ObjectsStored' /\ AllocatedKept' /\ (stored \subseteq Locals(mf))'
           /\ Frame(mf, reg, mem', 1)
           /\ CallerKept(mf, mem) => CallerKept(mf, mem')
<1>1. /\ mf \in Functions /\ Base(mf) \in Nat /\ Reserved(mf) \in Nat
      /\ Slot(mf, 1) \in Nat /\ Base(mf) + Reserved(mf) <= Slot(mf, 1)
      /\ Slot(mf, 1) <= EntrySP /\ EntrySP <= StackTop /\ EntrySP \in Nat /\ StackTop \in Nat
      /\ allocated \subseteq StackWords
    BY BodyBounds
<1>2. ObjectsStored'
    <2>1. ASSUME NEW k \in 1 .. Len(mf.objects), <<"local", k>> \in stored,
                 NEW a \in ObjectWord(mf, k) .. ObjectWord(mf, k) + mf.objects[k] - 1
          PROVE  mem'[a] = Object(<<"local", k>>)
        <3>1. mem[a] = Object(<<"local", k>>)
            BY <2>1 DEF InTheBody, ObjectsStored
        <3>2. /\ ObjectWord(mf, k) \in Nat /\ mf.objects[k] \in Nat
              /\ Base(mf) + Reserved(mf) <= ObjectWord(mf, k)
              /\ ObjectWord(mf, k) + mf.objects[k] <= Slot(mf, 1)
            BY <1>1, ObjectFacts
        <3>3. Slot(mf, 1) \in Nat /\ Slot(mf, 1) <= StackTop /\ StackTop \in Nat
            BY <1>1
        <3>4. a \in StackWords /\ a \in Int /\ ObjectWord(mf, k) <= a
            BY <3>2, <3>3, WordOfObject
        <3>5. a >= Base(mf) + Reserved(mf)
            BY <1>1, <3>2, <3>4
        <3> QED BY <3>1, <3>4, <3>5
    <2> QED BY <2>1 DEF ObjectsStored
<1>3. AllocatedKept'
    BY <1>1 DEF InTheBody, AllocatedKept
<1>4. Frame(mf, reg, mem', 1)
    <2>1. 1 \in 1 .. NumSaved(mf) + 1
        BY <1>1, FrameFacts
    <2>2. Frame(mf, reg, mem, 1)
        BY DEF InTheBody
    <2>3. \A a \in StackWords : a >= Slot(mf, 1) => mem'[a] = mem[a]
        BY <1>1 DEF StackWords
    <2> QED BY <1>1, <2>1, <2>2, <2>3, FrameStable
<1>5. CallerKept(mf, mem) => CallerKept(mf, mem')
    <2>1. \A a \in EntrySP .. StackTop : a \in StackWords /\ a >= Base(mf) + Reserved(mf)
        BY <1>1 DEF StackWords
    <2> QED BY <2>1 DEF CallerKept
<1>6. (stored \subseteq Locals(mf))'
    BY DEF InTheBody
<1> QED BY <1>2, <1>3, <1>4, <1>5, <1>6

-----------------------------------------------------------------------------
(***************************************************************************)
(* The instructions the pass inserts.                                      *)
(***************************************************************************)

Runs ==
    /\ Compiled /\ stage = "compiled" /\ resume = NotReturned
    /\ Shape /\ CallerKept(mf, mem) /\ Position

RunsOn == Shape /\ CallerKept(mf, mem) /\ Position

LEMMA ArrivesNext ==
    ASSUME Hypotheses, Shape'
    PROVE  /\ SomeSaving' => Position'
           /\ SomePopping' => Position'
           /\ AtBody' => Position'
<1>1. Shape' /\ SomeSaving' => Position'
    BY SavingArrives, PTL
<1>2. Shape' /\ SomePopping' => Position'
    BY PoppingArrives, PTL
<1>3. Shape' /\ AtBody' => InTheBody'
    BY BodyArrives, PTL
<1> QED BY <1>1, <1>2, <1>3 DEF Position

LEMMA AdvanceTo ==
    ASSUME Shape, Advance
    PROVE  pc' = [block |-> pc.block, index |-> pc.index + 1]
BY DEF Shape, Advance

LEMMA ShapeNext ==
    ASSUME Shape, mf' = mf, DOMAIN reg' = Registers, DOMAIN mem' = StackWords,
           NEW b \in 1 .. NumBlocks(mf), NEW i, pc' = [block |-> b, index |-> i]
    PROVE  Shape'
BY DEF Shape

\* The step keeps what the pass computed.
LEMMA SameFunction ==
    ASSUME UNCHANGED compileVars
    PROVE  mf' = mf /\ stage' = stage
BY DEF compileVars

LEMMA StoreAt ==
    ASSUME NEW range, NEW w, mem' = [a \in StackWords |-> IF a \in range THEN w ELSE mem[a]]
    PROVE  /\ DOMAIN mem' = StackWords
           /\ \A a \in StackWords : mem'[a] = IF a \in range THEN w ELSE mem[a]
OBVIOUS

LEMMA PushStep ==
    ASSUME Hypotheses, Runs, Push
    PROVE  RunsOn'
<1>1. /\ mf \in Functions /\ mf' = mf /\ reg' = reg
      /\ call' = call /\ stored' = stored /\ allocated' = allocated /\ SP' = SP - 1
      /\ pc' = [block |-> pc.block, index |-> pc.index + 1]
      /\ Shape
    BY AdvanceTo, SameFunction DEF Runs, Shape, Push
<1>2. /\ DOMAIN mem' = StackWords
      /\ \A a \in StackWords : mem'[a] = IF a = SP - 1 THEN reg[Instr.reg] ELSE mem[a]
    BY DEF Push, Store
<1>3. Shape'
    <2>1. pc.block \in 1 .. NumBlocks(mf) /\ DOMAIN reg' = Registers
        BY <1>1 DEF Shape
    <2> QED BY <1>1, <1>2, <2>1, ShapeNext
<1>4. AtEntry \/ \E lo \in 2 .. NumSaved(mf) + 1 : InPrologue(lo)
    BY WhereIs DEF Runs, Push, At
<1>5. NumSaved(mf) \in Nat /\ EntrySP \in Nat /\ EnterLength(mf) \in Nat
    BY <1>1, FrameFacts
<1>6. CASE AtEntry
    <2>1. /\ hasFP(mf) /\ pc = [block |-> 1, index |-> 1] /\ SP = EntrySP
          /\ AllEntry(mf, reg) /\ NothingStored
        BY <1>6 DEF AtEntry
    <2>2. Instr = PUSH("J")
        BY <1>6, InstrAt DEF Runs
    <2>3. mem'[EntrySP - 1] = Entry("J")
        <3>1. EntrySP - 1 \in StackWords
            BY <1>1, <2>1, SlotFacts
        <3>2. Instr.reg = "J" /\ "J" \in CalleeSaved(mf)
            BY <2>2, CalleeSavedIs DEF PUSH
        <3> QED BY <1>2, <2>1, <3>1, <3>2 DEF AllEntry
    <2>4. AtSetFP'
        BY <1>1, <1>5, <2>1, <2>3 DEF AtSetFP, NothingStored
    <2>5. CallerKept(mf, mem)'
        BY <1>1, <1>2, <1>5, <2>1 DEF CallerKept, Runs, StackWords
    <2> QED BY <1>3, <2>4, <2>5 DEF RunsOn, Position
<1>7. CASE \E lo \in 2 .. NumSaved(mf) + 1 : InPrologue(lo)
    <2>1. PICK lo \in 2 .. NumSaved(mf) + 1 : InPrologue(lo)
        BY <1>7
    <2>2. /\ pc = [block |-> 1, index |-> EnterLength(mf) + NumSaved(mf) + 2 - lo]
          /\ SP = Slot(mf, lo) /\ Frame(mf, reg, mem, lo) /\ NothingStored
        BY <2>1 DEF InPrologue, Saving
    <2>3. lo \in Int /\ lo - 1 \in 1 .. NumSaved(mf) /\ lo \in 1 .. NumSaved(mf) + 1 /\ lo > 1
        BY <1>5
    <2>4. Instr.reg = Saved(mf)[lo - 1]
        <3>1. Instr = PUSH(Saved(mf)[lo - 1])
            BY <2>1, <2>3, InstrAt DEF Runs
        <3> QED BY <3>1 DEF PUSH
    <2>5. /\ Slot(mf, lo) \in Int /\ Slot(mf, lo - 1) = Slot(mf, lo) - 1
          /\ Slot(mf, lo - 1) \in StackWords /\ Slot(mf, lo - 1) < EntrySP
        <3>1. lo - 1 \in Int /\ (lo - 1) + 1 = lo /\ lo - 1 \in 1 .. NumSaved(mf) + 1
            BY <1>5, <2>3
        <3>2. Slot(mf, lo - 1) \in Int /\ Slot(mf, lo) = Slot(mf, lo - 1) + 1 /\ Slot(mf, lo) \in Int
            BY <1>1, <2>3, <3>1, SlotFacts
        <3>3. Slot(mf, lo - 1) < EntrySP - FPWords(mf) /\ FPWords(mf) \in Nat
            <4>1. PICK j \in 1 .. NumSaved(mf) : j = lo - 1
                BY <2>3
            <4>2. Slot(mf, j) < EntrySP - FPWords(mf)
                BY <1>1, SlotFacts
            <4> QED BY <1>1, <4>1, <4>2, FrameFacts
        <3>4. Slot(mf, lo - 1) \in StackWords
            BY <1>1, <3>1, SlotFacts
        <3> QED BY <1>5, <3>2, <3>3, <3>4
    <2>6. Frame(mf, reg, mem', lo - 1)
        <3>1. \A a \in StackWords : a >= Slot(mf, lo) => mem'[a] = mem[a]
            BY <1>2, <2>2, <2>5 DEF StackWords
        <3>2. mem'[Slot(mf, lo - 1)] = reg[Saved(mf)[lo - 1]]
            BY <1>2, <2>2, <2>4, <2>5
        <3> QED BY <1>1, <2>2, <3>1, <3>2, FramePush
    <2>7. Saving(lo - 1)'
        <3>1. pc' = [block |-> 1, index |-> EnterLength(mf) + NumSaved(mf) + 2 - (lo - 1)]
            <4>1. EnterLength(mf) + NumSaved(mf) + 2 - lo + 1 = EnterLength(mf) + NumSaved(mf) + 2 - (lo - 1)
                BY <1>5, <2>3
            <4> QED BY <1>1, <2>2, <4>1
        <3>2. SP' = Slot(mf, lo - 1)
            BY <1>1, <2>2, <2>5
        <3> QED BY <1>1, <2>2, <2>6, <3>1, <3>2 DEF Saving, NothingStored
    <2>8. SomeSaving'
        <3>1. lo - 1 \in 1 .. NumSaved(mf') + 1
            BY <1>1, <1>5, <2>3
        <3> QED BY <2>7, <3>1 DEF SomeSaving
    <2>9. CallerKept(mf, mem)'
        <3>1. \A a \in EntrySP .. StackTop : a \in StackWords /\ a # SP - 1
            BY <1>5, <2>2, <2>5, ExecutionAssumption DEF StackWords
        <3> QED BY <1>1, <1>2, <3>1 DEF CallerKept, Runs
    <2> QED BY <1>3, <2>8, <2>9, ArrivesNext DEF RunsOn
<1> QED BY <1>4, <1>6, <1>7

LEMMA PopStep ==
    ASSUME Hypotheses, Runs, Pop
    PROVE  RunsOn'
<1>1. /\ mf \in Functions /\ mf' = mf /\ mem' = mem
      /\ call' = call /\ stored' = stored /\ allocated' = allocated /\ SP' = SP + 1
      /\ pc' = [block |-> pc.block, index |-> pc.index + 1]
      /\ Shape
    BY AdvanceTo, SameFunction DEF Runs, Shape, Pop
<1>2. PICK lo \in 1 .. NumSaved(mf) + 1 : Restoring(lo)
    BY WhereIs DEF Runs, Pop, At
<1>3. /\ NumSaved(mf) \in Nat /\ EntrySP \in Nat /\ ReleaseLength(mf) \in Nat
      /\ FPWords(mf) = (IF hasFP(mf) THEN 1 ELSE 0)
      /\ lo \in Int /\ BodyOf \in Nat
    <2>1. BodyOf \in Nat
        BY <1>1, BlockAt DEF BodyOf
    <2> QED BY <1>1, <2>1, FrameFacts
<1>4. /\ Returns(mf, pc.block)
      /\ pc.index = BodyOf + ReleaseLength(mf) + lo
      /\ SP = Slot(mf, lo) /\ Frame(mf, reg, mem, lo) /\ call = NoCall
      /\ lo <= NumSaved(mf) \/ hasFP(mf)
    BY <1>2 DEF Restoring, Popping
<1>5. ReadWord(SP) = mem[Slot(mf, lo)] /\ Slot(mf, lo) \in StackWords
    BY <1>1, <1>4, SlotFacts DEF ReadWord
<1>6. /\ DOMAIN reg' = Registers
      /\ \A r \in Registers : reg'[r] = IF r = Instr.reg THEN mem[Slot(mf, lo)] ELSE reg[r]
    BY <1>1, <1>5 DEF Pop, Shape
<1>7. Shape'
    <2>1. pc.block \in 1 .. NumBlocks(mf) /\ DOMAIN mem' = StackWords
        BY <1>1 DEF Shape
    <2> QED BY <1>1, <1>6, <2>1, ShapeNext
<1>8. CallerKept(mf, mem)'
    BY <1>1 DEF Runs
<1>9. SP' = Slot(mf, lo + 1)
    BY <1>1, <1>3, <1>4, SlotFacts
<1>10. BodyOf' = BodyOf
    BY <1>1 DEF BodyOf
<1>11. CASE lo <= NumSaved(mf)
    <2>1. lo \in 1 .. NumSaved(mf) /\ lo + 1 \in 1 .. NumSaved(mf) + 1
        BY <1>3, <1>11
    <2>2. Instr.reg = Saved(mf)[lo]
        <3>1. Instr = POP(Saved(mf)[lo])
            BY <1>2, <1>11, InstrAt DEF Runs
        <3> QED BY <3>1 DEF POP
    <2>3. Frame(mf, reg', mem, lo + 1)
        BY <1>1, <1>4, <1>6, <2>1, <2>2, FramePop
    <2>4. Popping(lo + 1)'
        <3>1. pc.index + 1 = BodyOf + ReleaseLength(mf) + (lo + 1)
            BY <1>3, <1>4
        <3> QED BY <1>1, <1>4, <1>9, <1>10, <2>3, <3>1 DEF Popping
    <2>5. SomePopping'
        BY <1>1, <2>1, <2>4 DEF SomePopping
    <2> QED BY <1>7, <1>8, <2>5, ArrivesNext DEF RunsOn
<1>12. CASE ~(lo <= NumSaved(mf))
    <2>1. lo = NumSaved(mf) + 1 /\ hasFP(mf) /\ FPWords(mf) = 1
        BY <1>3, <1>4, <1>12
    <2>2. Slot(mf, lo) = EntrySP - 1
        BY <1>1, <2>1, SlotFacts
    <2>3. Instr.reg = "J"
        <3>1. Instr = POP("J")
            BY <1>2, <1>12, InstrAt DEF Runs
        <3> QED BY <3>1 DEF POP
    <2>4. AllEntry(mf, reg')
        <3>1. Frame(mf, reg, mem, NumSaved(mf) + 1)
            BY <1>4, <2>1
        <3>2. \A r \in Registers : reg'[r] = IF hasFP(mf) /\ r = "J" THEN mem[EntrySP - 1] ELSE reg[r]
            BY <1>6, <2>1, <2>2, <2>3
        <3> QED BY <1>1, <3>1, <3>2, FrameEnds
    <2>5. SP' = EntrySP
        BY <1>1, <1>3, <1>4, <2>2
    <2>6. pc.index + 1 = ReturnIndex(mf, pc.block)
        BY <1>3, <1>4, <2>1 DEF ReturnIndex, BodyOf, NumSaved
    <2>7. Returning'
        BY <1>1, <1>4, <2>4, <2>5, <2>6 DEF Returning
    <2> QED BY <1>7, <1>8, <2>7 DEF RunsOn, Position
<1> QED BY <1>11, <1>12

LEMMA MoveStep ==
    ASSUME Hypotheses, Runs, Move
    PROVE  RunsOn'
<1>1. /\ mf \in Functions /\ mf' = mf /\ mem' = mem
      /\ call' = call /\ stored' = stored /\ allocated' = allocated
      /\ pc' = [block |-> pc.block, index |-> pc.index + 1]
      /\ Shape
    BY AdvanceTo, SameFunction DEF Runs, Shape, Move
<1>2. AtSetFP \/ (Releasing /\ mf.varSized)
    BY WhereIs DEF Runs, Move, At
<1>3. /\ NumSaved(mf) \in Nat /\ EntrySP \in Nat
      /\ EnterLength(mf) = (IF hasFP(mf) THEN 2 ELSE 0)
      /\ FPWords(mf) = (IF hasFP(mf) THEN 1 ELSE 0)
      /\ mf.varSized => hasFP(mf)
    BY <1>1, FrameFacts
<1>4. CallerKept(mf, mem)'
    BY <1>1 DEF Runs
<1>5. /\ pc.block \in 1 .. NumBlocks(mf) /\ DOMAIN mem' = StackWords /\ DOMAIN reg = Registers
    BY <1>1 DEF Shape
<1>6. CASE AtSetFP
    <2>1. /\ hasFP(mf) /\ pc = [block |-> 1, index |-> 2] /\ SP = EntrySP - 1
          /\ mem[EntrySP - 1] = Entry("J")
          /\ AllEntry(mf, reg) /\ NothingStored
        BY <1>6 DEF AtSetFP
    <2>2. Instr.dst = "J" /\ Instr.src = "SP"
        <3>1. Instr = MOV("J", "SP")
            BY <1>6, InstrAt DEF Runs
        <3> QED BY <3>1 DEF MOV
    <2>3. SP' = SP /\ reg' = [reg EXCEPT !["J"] = Address(SP)]
        <3>1. "J" # "SP"
            OBVIOUS
        <3> QED BY <2>2, <3>1 DEF Move
    <2>4. /\ DOMAIN reg' = Registers
          /\ \A r \in Registers :
                 reg'[r] = IF hasFP(mf) /\ r = "J" THEN Address(EntrySP - 1) ELSE reg[r]
        BY <1>5, <2>1, <2>3
    <2>5. Shape'
        BY <1>1, <1>5, <2>4, ShapeNext
    <2>6. Frame(mf, reg', mem, NumSaved(mf) + 1)
        BY <1>1, <2>1, <2>4, FrameStarts
    <2>7. Saving(NumSaved(mf) + 1)'
        <3>1. EnterLength(mf) + NumSaved(mf) + 2 - (NumSaved(mf) + 1) = 2 + 1
            BY <1>3, <2>1
        <3>2. Slot(mf, NumSaved(mf) + 1) = EntrySP - 1
            BY <1>1, <1>3, <2>1, SlotFacts
        <3> QED BY <1>1, <2>1, <2>3, <2>6, <3>1, <3>2 DEF Saving, NothingStored
    <2>8. SomeSaving'
        <3>1. NumSaved(mf') + 1 \in 1 .. NumSaved(mf') + 1
            BY <1>1, <1>3
        <3> QED BY <1>1, <2>7, <3>1 DEF SomeSaving
    <2> QED BY <1>4, <2>5, <2>8, ArrivesNext DEF RunsOn
<1>7. CASE Releasing /\ mf.varSized
    <2>1. /\ Returns(mf, pc.block) /\ pc.index = BodyOf + 1
          /\ Frame(mf, reg, mem, 1) /\ call = NoCall /\ hasFP(mf)
        BY <1>3, <1>7 DEF Releasing
    <2>2. Instr.dst = "SP" /\ Instr.src = "J"
        <3>1. Instr = MOV("SP", "J")
            BY <1>7, InstrAt DEF Runs
        <3> QED BY <3>1 DEF MOV
    <2>3. SP' = EntrySP - 1 /\ reg' = reg
        <3>1. SP' = AsAddress(reg["J"]) /\ reg' = reg
            <4>1. "J" # "SP"
                OBVIOUS
            <4> QED BY <2>2, <4>1 DEF Move
        <3>2. reg["J"] = Address(EntrySP - 1)
            BY <2>1 DEF Frame, FrameLinked
        <3> QED BY <3>1, <3>2 DEF AsAddress, Address
    <2>4. Shape'
        BY <1>1, <1>5, <2>3, ShapeNext
    <2>5. BodyOf' = BodyOf /\ BodyOf \in Nat
        BY <1>1, BlockAt DEF BodyOf
    <2>6. CASE NumSaved(mf) # 0
        <3>1. Lowering'
            BY <1>1, <1>7, <2>1, <2>3, <2>5, <2>6 DEF Lowering
        <3> QED BY <1>4, <2>4, <3>1 DEF RunsOn, Position
    <2>7. CASE NumSaved(mf) = 0
        <3>1. ReleaseLength(mf) = 1 /\ Slot(mf, 1) = EntrySP - 1
            <4>1. ReleaseLength(mf) = 1
                BY <1>1, <1>7, <2>7, FrameFacts
            <4>2. FPWords(mf) = 1
                BY <1>3, <2>1
            <4> QED BY <1>3, <2>7, <4>1, <4>2 DEF Slot
        <3>2. pc.index + 1 = BodyOf + 1 + 1
            BY <2>1
        <3>3. Popping(1)'
            BY <1>1, <2>1, <2>3, <2>5, <3>1, <3>2 DEF Popping
        <3>4. SomePopping'
            <4>1. 1 \in 1 .. NumSaved(mf') + 1
                BY <1>1, <1>3
            <4> QED BY <3>3, <4>1 DEF SomePopping
        <3> QED BY <1>4, <2>4, <3>4, ArrivesNext DEF RunsOn
    <2> QED BY <2>6, <2>7
<1> QED BY <1>2, <1>6, <1>7

LEMMA AdjustStep ==
    ASSUME Hypotheses, Runs, AdjustSP
    PROVE  RunsOn'
<1>1. /\ mf \in Functions /\ mf' = mf /\ mem' = mem
      /\ call' = call /\ stored' = stored /\ allocated' = allocated
      /\ pc' = [block |-> pc.block, index |-> pc.index + 1]
      /\ SP' = AfterAdjust(Instr, SP)
      /\ Shape
    BY AdvanceTo, SameFunction DEF Runs, Shape, AdjustSP
<1>2. /\ DOMAIN reg' = Registers
      /\ \A r \in Registers : reg'[r] = IF r = "EX" THEN Junk ELSE reg[r]
    BY DEF AdjustSP, Clobber
<1>3. Shape'
    <2>1. pc.block \in 1 .. NumBlocks(mf) /\ DOMAIN mem' = StackWords
        BY <1>1 DEF Shape
    <2> QED BY <1>1, <1>2, <2>1, ShapeNext
<1>4. CallerKept(mf, mem)'
    BY <1>1 DEF Runs
<1>5. InPrologue(1) \/ Lowering \/ (Releasing /\ ~mf.varSized)
    BY WhereIs DEF Runs, AdjustSP, At
<1>6. /\ NumSaved(mf) \in Nat /\ EntrySP \in Nat /\ Room(mf) \in Nat
      /\ EnterLength(mf) \in Nat /\ FPWords(mf) = (IF hasFP(mf) THEN 1 ELSE 0)
      /\ AllocateLength(mf) = (IF Room(mf) # 0 THEN 1 ELSE 0)
      /\ ReleaseLength(mf) = (IF mf.varSized THEN (IF NumSaved(mf) # 0 THEN 2 ELSE 1)
                                             ELSE AllocateLength(mf))
      /\ mf.varSized => hasFP(mf)
    BY <1>1, FrameFacts
<1>7. /\ Slot(mf, 1) \in Int /\ Base(mf) \in Nat /\ Slot(mf, 1) = Base(mf) + Room(mf)
      /\ Slot(mf, 1) = EntrySP - FPWords(mf) - NumSaved(mf)
    BY <1>1, <1>6, SlotFacts DEF Slot
<1>8. BodyOf' = BodyOf /\ BodyOf \in Nat
    BY <1>1, BlockAt DEF BodyOf
<1>9. Room(mf) # 0 \/ mf.varSized
    BY <1>5, <1>6 DEF InPrologue, Lowering, Releasing
<1>10. Frame(mf, reg, mem, 1) => Frame(mf, reg', mem, 1)
    <2>1. "EX" \notin CalleeSaved(mf) \/ "EX" \in mf.used
        BY <1>1, <1>9, EXIsSaved
    <2>2. CalleeSaved(mf) \subseteq Registers
        BY CalleeSavedIs DEF Registers
    <2>3. \A r \in CalleeSaved(mf) : reg'[r] = reg[r] \/ (r \in mf.used /\ ~(hasFP(mf) /\ r = "J"))
        BY <1>2, <2>1, <2>2
    <2> QED BY <1>1, <2>3, FrameRegisters
<1>11. CASE InPrologue(1)
    <2>1. /\ Room(mf) # 0
          /\ pc = [block |-> 1, index |-> EnterLength(mf) + NumSaved(mf) + 2 - 1]
          /\ SP = Slot(mf, 1) /\ Frame(mf, reg, mem, 1) /\ NothingStored
        BY <1>11 DEF InPrologue, Saving
    <2>2. SP' = Base(mf)
        <3>1. Instr = SUBSP(Room(mf))
            <4>1. 1 \in 1 .. NumSaved(mf) + 1 /\ ~(1 > 1)
                BY <1>6
            <4> QED BY <1>11, <4>1, InstrAt DEF Runs
        <3>2. SP' = SP - Room(mf)
            BY <1>1, <3>1 DEF AfterAdjust, SUBSP
        <3> QED BY <1>6, <1>7, <2>1, <3>2
    <2>3. BodyOf = EnterLength(mf) + NumSaved(mf) + 2 - 1 + 1
        BY <1>6, <2>1 DEF BodyOf, BodyIndex, NumSaved
    <2>4. AtBody'
        BY <1>1, <1>8, <1>10, <2>1, <2>2, <2>3 DEF AtBody, NothingStored
    <2> QED BY <1>3, <1>4, <2>4, ArrivesNext DEF RunsOn
<1>12. CASE Lowering
    <2>1. /\ Returns(mf, pc.block) /\ mf.varSized /\ NumSaved(mf) # 0
          /\ pc.index = BodyOf + 2 /\ SP = EntrySP - 1
          /\ Frame(mf, reg, mem, 1) /\ call = NoCall
        BY <1>12 DEF Lowering
    <2>2. SP' = Slot(mf, 1)
        <3>1. Instr = SUBSP(NumSaved(mf))
            BY <1>12, InstrAt DEF Runs
        <3>2. SP' = SP - NumSaved(mf)
            BY <1>1, <3>1 DEF AfterAdjust, SUBSP
        <3> QED BY <1>6, <1>7, <2>1, <3>2
    <2>3. ReleaseLength(mf) = 2
        BY <1>6, <2>1
    <2>4. Popping(1)'
        <3>1. pc.index + 1 = BodyOf + 2 + 1
            BY <2>1
        <3> QED BY <1>1, <1>8, <1>10, <2>1, <2>2, <2>3, <3>1 DEF Popping
    <2>5. SomePopping'
        <3>1. 1 \in 1 .. NumSaved(mf') + 1
            BY <1>1, <1>6
        <3> QED BY <2>4, <3>1 DEF SomePopping
    <2> QED BY <1>3, <1>4, <2>5, ArrivesNext DEF RunsOn
<1>13. CASE Releasing /\ ~mf.varSized
    <2>1. /\ Returns(mf, pc.block) /\ ReleaseLength(mf) # 0
          /\ pc.index = BodyOf + 1 /\ SP = Base(mf)
          /\ Frame(mf, reg, mem, 1) /\ call = NoCall
        BY <1>13 DEF Releasing
    <2>2. SP' = Slot(mf, 1)
        <3>1. Instr = ADDSP(Room(mf))
            BY <1>13, InstrAt DEF Runs
        <3>2. SP' = SP + Room(mf)
            BY <1>1, <3>1 DEF AfterAdjust, ADDSP
        <3> QED BY <1>7, <2>1, <3>2
    <2>3. ReleaseLength(mf) = 1
        BY <1>6, <1>13, <2>1
    <2>4. Popping(1)'
        <3>1. pc.index + 1 = BodyOf + 1 + 1
            BY <2>1
        <3> QED BY <1>1, <1>8, <1>10, <2>1, <2>2, <2>3, <3>1 DEF Popping
    <2>5. SomePopping'
        <3>1. 1 \in 1 .. NumSaved(mf') + 1
            BY <1>1, <1>6
        <3> QED BY <2>4, <3>1 DEF SomePopping
    <2> QED BY <1>3, <1>4, <2>5, ArrivesNext DEF RunsOn
<1> QED BY <1>5, <1>11, <1>12, <1>13

LEMMA ReturnStep ==
    ASSUME Hypotheses, Runs, Return
    PROVE  Shape' /\ CallerKept(mf, mem)' /\ BackInCaller' /\ ~mf.intr /\ SP = EntrySP
<1>1. /\ mf \in Functions /\ mf' = mf /\ mem' = mem /\ reg' = reg /\ pc' = pc
      /\ call' = call /\ SP' = SP + 1 /\ resume' = ReadWord(SP)
    BY SameFunction DEF Runs, Shape, Return
<1>2. Returning /\ ~mf.intr
    BY WhereIs DEF Runs, Return, At
<1>3. SP = EntrySP /\ AllEntry(mf, reg) /\ call = NoCall
    BY <1>2 DEF Returning
<1>4. resume' = ReturnPC
    <2>1. EntrySP \in EntrySP .. StackTop /\ EntrySP \in StackWords
        <3>1. EntrySP \in Nat /\ StackTop \in Nat
            BY <1>1, FrameFacts
        <3>2. EntrySP <= StackTop
            BY <1>1, <1>2, <3>1, EntryWords
        <3> QED BY <3>1, <3>2 DEF StackWords
    <2>2. EntryWord(mf, EntrySP) = ReturnPC
        BY <1>1, <1>2, EntryWords
    <2> QED BY <1>1, <1>3, <2>1, <2>2 DEF ReadWord, Runs, CallerKept
<1>5. SP' = FirstArg(mf')
    BY <1>1, <1>2, <1>3, FrameFacts
<1>6. \A r \in Preserved(mf') : reg'[r] = Entry(r)
    BY <1>1, <1>2, <1>3, CalleeSavedIs DEF Preserved, AllEntry
<1> QED BY <1>1, <1>2, <1>3, <1>4, <1>5, <1>6 DEF BackInCaller, Runs, Shape

LEMMA ReturnFromInterruptStep ==
    ASSUME Hypotheses, Runs, ReturnFromInterrupt
    PROVE  Shape' /\ CallerKept(mf, mem)' /\ BackInCaller' /\ mf.intr /\ SP = EntrySP
<1>1. /\ mf \in Functions /\ mf' = mf /\ mem' = mem /\ pc' = pc
      /\ reg' = [reg EXCEPT !["A"] = ReadWord(SP)]
      /\ call' = call /\ SP' = SP + 2 /\ resume' = ReadWord(SP + 1)
    BY SameFunction DEF Runs, Shape, ReturnFromInterrupt
<1>2. Returning /\ mf.intr
    BY WhereIs DEF Runs, ReturnFromInterrupt, At
<1>3. SP = EntrySP /\ AllEntry(mf, reg) /\ call = NoCall
    BY <1>2 DEF Returning
<1>4. /\ EntrySP \in Nat /\ StackTop \in Nat /\ FirstArg(mf) = EntrySP + 2
      /\ EntrySP + 1 <= StackTop
    BY <1>1, <1>2, FrameFacts
<1>5. resume' = ReturnPC
    <2>1. EntryWord(mf, EntrySP + 1) = ReturnPC
        BY <1>1, <1>2, EntryWords
    <2>2. EntrySP + 1 \in EntrySP .. StackTop /\ EntrySP + 1 \in StackWords
        BY <1>4 DEF StackWords
    <2>3. mem[EntrySP + 1] = EntryWord(mf, EntrySP + 1)
        BY <2>2 DEF Runs, CallerKept
    <2> QED BY <1>1, <1>3, <2>1, <2>2, <2>3 DEF ReadWord
<1>6. ReadWord(SP) = Entry("A")
    <2>1. EntryWord(mf, EntrySP) = Entry("A")
        BY <1>1, <1>2, EntryWords
    <2>2. EntrySP \in EntrySP .. StackTop /\ EntrySP \in StackWords
        BY <1>4 DEF StackWords
    <2>3. mem[EntrySP] = EntryWord(mf, EntrySP)
        BY <2>2 DEF Runs, CallerKept
    <2> QED BY <1>3, <2>1, <2>2, <2>3 DEF ReadWord
<1>7. SP' = FirstArg(mf')
    BY <1>1, <1>3, <1>4
<1>8. /\ DOMAIN reg' = Registers
      /\ \A r \in Registers : reg'[r] = IF r = "A" THEN Entry("A") ELSE reg[r]
    BY <1>1, <1>6 DEF Runs, Shape
<1>9. \A r \in Preserved(mf') : reg'[r] = Entry(r)
    <2>1. \A r \in Registers : r = "A" \/ r \in CalleeSaved(mf)
        BY <1>2, CalleeSavedIs DEF Registers
    <2> QED BY <1>1, <1>2, <1>3, <1>8, <2>1 DEF Preserved, AllEntry
<1>10. Shape'
    BY <1>1, <1>8 DEF Shape, Runs
<1> QED BY <1>1, <1>2, <1>3, <1>5, <1>7, <1>9, <1>10 DEF BackInCaller, Runs

-----------------------------------------------------------------------------
(***************************************************************************)
(* Interrupts and the program's own instructions.                          *)
(***************************************************************************)

\* A step in the body that leaves the objects, the saved words and the
\* registers that are not saved alone.
LEMMA BodyNext ==
    ASSUME Hypotheses, Shape, InTheBody, CallerKept(mf, mem),
           mf' = mf, pc' = pc, stored' = stored, allocated' = allocated,
           DOMAIN reg' = Registers, DOMAIN mem' = StackWords,
           \A a \in StackWords :
               a >= Base(mf) + Reserved(mf) \/ a \in allocated => mem'[a] = mem[a],
           \A r \in CalleeSaved(mf) :
               reg'[r] = reg[r] \/ (r \in mf.used /\ ~(hasFP(mf) /\ r = "J")),
           SP' = Base(mf) - Cardinality(allocated) - CallWords',
           CallKept'
    PROVE  RunsOn'
<1>1. mf \in Functions
    BY DEF Shape
<1>2. Shape'
    <2>1. pc' = [block |-> pc.block, index |-> pc.index] /\ pc.block \in 1 .. NumBlocks(mf)
        BY DEF Shape
    <2> QED BY <2>1, ShapeNext
<1>3. /\ ObjectsStored' /\ AllocatedKept' /\ (stored \subseteq Locals(mf))'
      /\ Frame(mf, reg, mem', 1)
      /\ CallerKept(mf, mem')
    BY BodyMemory
<1>4. Frame(mf, reg', mem', 1)
    BY <1>1, <1>3, FrameRegisters
<1>5. (pc.index = BodyOf)'
    BY DEF InTheBody, BodyOf
<1>6. (SP = Base(mf) - Cardinality(allocated) - CallWords)'
    OBVIOUS
<1>7. InTheBody'
    BY <1>3, <1>4, <1>5, <1>6 DEF InTheBody
<1> QED BY <1>2, <1>3, <1>7 DEF RunsOn, Position

LEMMA InterruptStep ==
    ASSUME Hypotheses, Runs, Interrupt
    PROVE  RunsOn'
<1>1. /\ mf \in Functions /\ mf' = mf /\ pc' = pc /\ SP' = SP /\ reg' = reg
      /\ call' = call /\ stored' = stored /\ allocated' = allocated
      /\ Shape /\ CallerKept(mf, mem) /\ DOMAIN reg = Registers
      /\ mf \in Interruptible /\ ~mf.intr
    BY SameFunction DEF Runs, Shape, Interrupt
<1>2. /\ DOMAIN mem' = StackWords
      /\ \A a \in StackWords : ~(a < SP) => mem'[a] = mem[a]
    BY DEF Interrupt, Store
<1>3. Shape'
    <2>1. pc' = [block |-> pc.block, index |-> pc.index] /\ pc.block \in 1 .. NumBlocks(mf)
        BY <1>1 DEF Shape
    <2> QED BY <1>1, <1>2, <2>1, ShapeNext
<1>4. /\ EntrySP \in Nat /\ StackTop \in Nat /\ NumSaved(mf) \in Nat
      /\ \A lo \in 1 .. NumSaved(mf) + 1 : Slot(mf, lo) \in StackWords /\ Slot(mf, lo) <= EntrySP
    <2>1. /\ EntrySP \in Nat /\ StackTop \in Nat /\ NumSaved(mf) \in Nat /\ FPWords(mf) \in Nat
        BY <1>1, FrameFacts
    <2>2. \A lo \in 1 .. NumSaved(mf) + 1 : Slot(mf, lo) <= EntrySP
        BY <2>1 DEF Slot
    <2> QED BY <1>1, <2>1, <2>2, SlotFacts
<1>5. ASSUME SP <= EntrySP, SP \in Int PROVE CallerKept(mf, mem')
    <2>1. \A a \in EntrySP .. StackTop : a \in StackWords /\ ~(a < SP)
        BY <1>4, <1>5 DEF StackWords
    <2> QED BY <1>1, <1>2, <2>1 DEF CallerKept
<1>6. ASSUME NEW lo \in 1 .. NumSaved(mf) + 1, Frame(mf, reg, mem, lo), SP <= Slot(mf, lo),
             SP \in Int
      PROVE  Frame(mf, reg', mem', lo) /\ CallerKept(mf, mem')
    <2>1. \A a \in StackWords : a >= Slot(mf, lo) => ~(a < SP)
        BY <1>4, <1>6 DEF StackWords
    <2>2. Frame(mf, reg, mem', lo)
        BY <1>1, <1>2, <1>6, <2>1, FrameStable
    <2>3. SP <= EntrySP
        BY <1>4, <1>6 DEF StackWords
    <2> QED BY <1>1, <1>5, <1>6, <2>2, <2>3
<1>7. CASE AtEntry
    <2>1. AtEntry' /\ SP <= EntrySP /\ SP \in Int
        BY <1>1, <1>4, <1>7 DEF AtEntry, NothingStored
    <2> QED BY <1>1, <1>3, <1>5, <2>1 DEF RunsOn, Position
<1>8. CASE AtSetFP
    <2>1. hasFP(mf) /\ SP = EntrySP - 1 /\ mem[EntrySP - 1] = Entry("J")
        BY <1>8 DEF AtSetFP
    <2>2. EntrySP - 1 \in StackWords /\ ~(EntrySP - 1 < SP) /\ SP <= EntrySP /\ SP \in Int
        BY <1>1, <1>4, <2>1, SlotFacts
    <2>3. mem'[EntrySP - 1] = Entry("J")
        BY <1>2, <2>1, <2>2
    <2>4. AtSetFP'
        BY <1>1, <1>8, <2>3 DEF AtSetFP, NothingStored
    <2> QED BY <1>1, <1>3, <1>5, <2>2, <2>4 DEF RunsOn, Position
<1>9. CASE \E lo \in 1 .. NumSaved(mf) + 1 : InPrologue(lo)
    <2>1. PICK lo \in 1 .. NumSaved(mf) + 1 : InPrologue(lo)
        BY <1>9
    <2>2. SP = Slot(mf, lo) /\ Frame(mf, reg, mem, lo)
        BY <2>1 DEF InPrologue, Saving
    <2>3. SP <= Slot(mf, lo) /\ SP \in Int
        BY <1>4, <2>2 DEF StackWords
    <2>4. Frame(mf, reg', mem', lo) /\ CallerKept(mf, mem')
        BY <1>6, <2>2, <2>3
    <2>5. InPrologue(lo)'
        BY <1>1, <2>1, <2>4 DEF InPrologue, Saving, NothingStored
    <2> QED BY <1>1, <1>3, <2>4, <2>5 DEF RunsOn, Position
<1>10. CASE InTheBody
    <2>1. /\ Base(mf) \in Nat /\ Reserved(mf) \in Nat /\ SP \in Nat /\ call.words \in Nat
          /\ Cardinality(allocated) \in Nat
          /\ ~mf.varSized => /\ SP = Base(mf) /\ allocated = {}
                             /\ call # NoCall => call.words <= Reserved(mf)
          /\ mf.varSized => SP = Base(mf) - Cardinality(allocated) - call.words
          /\ Base(mf) + Reserved(mf) <= Slot(mf, 1) /\ Slot(mf, 1) <= EntrySP
          /\ EntrySP <= StackTop /\ Slot(mf, 1) \in Nat
        BY <1>1, <1>10, BodyBounds
    <2>2. SP + call.words <= StackTop /\ SP \in Nat /\ call.words \in Nat /\ StackTop \in Nat
        <3>1. SP + call.words <= Base(mf) + Reserved(mf)
            BY <1>1, <1>10, BodyBounds
        <3> QED BY <1>4, <2>1, <3>1
    <2>3. allocated = Base(mf) - Cardinality(allocated) .. Base(mf) - 1
        BY <1>10 DEF InTheBody, AllocatedKept
    <2>4. \A a \in StackWords : a >= Base(mf) + Reserved(mf) \/ a \in allocated => ~(a < SP)
        BY <2>1, <2>3 DEF StackWords
    <2>5. CallKept'
        <3>1. CallKept
            BY <1>10 DEF InTheBody
        <3>2. CASE call = NoCall
            BY <1>1, <3>2 DEF CallKept
        <3>3. CASE call # NoCall
            <4>1. ASSUME NEW k \in 0 .. call.words - 1 PROVE mem'[SP + k] = mem[SP + k]
                <5>1. k \in Int /\ 0 <= k /\ k < call.words
                    BY <2>2
                <5>2. SP + call.words <= StackTop
                    BY <2>2
                <5>3. SP + k \in StackWords /\ ~(SP + k < SP)
                    BY <2>2, <5>1, <5>2 DEF StackWords
                <5> QED BY <1>2, <5>3
            <4> QED BY <1>1, <3>1, <3>3, <4>1 DEF CallKept
        <3> QED BY <3>2, <3>3
    <2>6. SP' = Base(mf) - Cardinality(allocated) - CallWords'
        BY <1>1, <1>10 DEF InTheBody, CallWords
    <2>7. \A r \in CalleeSaved(mf) : reg'[r] = reg[r]
        BY <1>1
    <2>8. DOMAIN reg' = Registers
        BY <1>1
    <2> QED BY <1>1, <1>2, <1>10, <2>4, <2>5, <2>6, <2>7, <2>8, BodyNext
<1>11. CASE Releasing
    <2>1. SP <= Slot(mf, 1) /\ Frame(mf, reg, mem, 1) /\ 1 \in 1 .. NumSaved(mf) + 1
        BY <1>4, <1>11 DEF Releasing
    <2>2. SP \in Int
        BY <1>11 DEF Releasing
    <2>3. Frame(mf, reg', mem', 1) /\ CallerKept(mf, mem')
        BY <1>6, <2>1, <2>2
    <2>4. Releasing'
        BY <1>1, <1>11, <2>3 DEF Releasing, BodyOf
    <2> QED BY <1>1, <1>3, <2>3, <2>4 DEF RunsOn, Position
<1>12. CASE Lowering
    <2>1. mf.varSized /\ NumSaved(mf) # 0
        BY <1>12 DEF Lowering
    <2>2. mf.used \cap Range(CalleeSavedRegs) = {}
        BY <1>1, <2>1 DEF Hypotheses, UnexposedTo
    <2>3. CalleeSaved(mf) = Range(CalleeSavedRegs)
        BY <1>1, CalleeSavedIs
    <2>4. 1 \in 1 .. NumSaved(mf)
        BY <1>4, <2>1
    <2>5. Saved(mf)[1] \in CalleeSaved(mf) \cap mf.used
        BY <1>1, <2>4, SavedFacts
    <2> QED BY <2>2, <2>3, <2>5
<1>13. CASE \E lo \in 1 .. NumSaved(mf) + 1 : Restoring(lo)
    <2>1. PICK lo \in 1 .. NumSaved(mf) + 1 : Restoring(lo)
        BY <1>13
    <2>2. SP = Slot(mf, lo) /\ Frame(mf, reg, mem, lo)
        BY <2>1 DEF Restoring, Popping
    <2>3. SP <= Slot(mf, lo) /\ SP \in Int
        BY <1>4, <2>2 DEF StackWords
    <2>4. Frame(mf, reg', mem', lo) /\ CallerKept(mf, mem')
        BY <1>6, <2>2, <2>3
    <2>5. Restoring(lo)'
        BY <1>1, <2>1, <2>4 DEF Restoring, Popping, BodyOf
    <2> QED BY <1>1, <1>3, <2>4, <2>5 DEF RunsOn, Position
<1>14. CASE Returning
    <2>1. Returning' /\ SP <= EntrySP /\ SP \in Int
        BY <1>1, <1>4, <1>14 DEF Returning
    <2> QED BY <1>1, <1>3, <1>5, <2>1 DEF RunsOn, Position
<1> QED BY <1>7, <1>8, <1>9, <1>10, <1>11, <1>12, <1>13, <1>14 DEF Runs, Position

-----------------------------------------------------------------------------
(***************************************************************************)
(* The words that frame indices denote.                                    *)
(***************************************************************************)

\* The offset of a word above the entry's stack pointer that frame index o has.
EntryOffset(f, o) ==
    IF o = ReturnAddress THEN -1
    ELSE IF o \in Locals(f) THEN -(1 + NumSaved(f) + WordsOf(f.objects, o[2]))
    ELSE o[2]

LEMMA Offsets ==
    ASSUME Hypotheses, Compiled, stage = "compiled",
           NEW o \in Locals(mf) \cup FixedIndices(mf)
    PROVE  /\ reference[o].base = BasePtr
           /\ reference[o].disp = EntryOffset(mf, o) + 1 + (IF hasFP(mf) THEN 0 ELSE stackSize)
           /\ stackSize = NumSaved(mf) + Room(mf)
<1>1. /\ objOffset = [i \in Locals(mf) \cup DOMAIN fixed |->
                         IF i \in DOMAIN fixed
                         THEN fixed[i]
                         ELSE -(LocalAreaOffset + Len(Saved(mf)) + WordsOf(mf.objects, i[2]))]
      /\ stackSize = NumSaved(mf) + Room(mf)
      /\ fixed = [i \in FixedIndices(mf) \cup (IF hasFP(mf) THEN {SavedFP} ELSE {}) |->
                    IF i = SavedFP THEN -1 ELSE FixedObjects(mf)[i]]
      /\ reference = [i \in DOMAIN objOffset |-> eliminateFrameIndex(i)]
    BY DEF Compiled, NumSaved
<1>2. o \in Locals(mf) => o \notin FixedIndices(mf) /\ o # SavedFP /\ o # ReturnAddress
    BY DEF Locals, FixedIndices, Arguments, ReturnAddress, SavedFP
<1>3. SavedFP \notin FixedIndices(mf)
    BY DEF FixedIndices, Arguments, ReturnAddress, SavedFP
<1>4. DOMAIN fixed = FixedIndices(mf) \cup (IF hasFP(mf) THEN {SavedFP} ELSE {})
    BY <1>1
<1>5. o \in DOMAIN objOffset
    BY <1>1, <1>4
<1>6. objOffset[o] = EntryOffset(mf, o)
    <2>1. CASE o \in Locals(mf)
        <3>1. o \notin DOMAIN fixed
            BY <1>2, <1>4, <2>1
        <3>2. objOffset[o] = -(LocalAreaOffset + Len(Saved(mf)) + WordsOf(mf.objects, o[2]))
            BY <1>1, <1>5, <3>1
        <3>3. LocalAreaOffset = 1
            BY DEF Hypotheses
        <3> QED BY <1>2, <2>1, <3>2, <3>3 DEF EntryOffset, NumSaved
    <2>2. CASE o \in FixedIndices(mf)
        <3>1. o \in DOMAIN fixed /\ o # SavedFP /\ o \notin Locals(mf)
            BY <1>2, <1>3, <1>4, <2>2
        <3>2. objOffset[o] = FixedObjects(mf)[o]
            BY <1>1, <1>4, <1>5, <3>1
        <3> QED BY <2>2, <3>1, <3>2 DEF EntryOffset, FixedObjects
    <2> QED BY <2>1, <2>2
<1>7. reference[o] = eliminateFrameIndex(o)
    BY <1>1, <1>5
<1> QED BY <1>1, <1>6, <1>7 DEF eliminateFrameIndex

LEMMA Addresses ==
    ASSUME Hypotheses, Compiled, stage = "compiled", Shape, InTheBody
    PROVE  /\ \A k \in 1 .. Len(mf.objects) : AddressOf(<<"local", k>>) = ObjectWord(mf, k)
           /\ ~hasFP(mf) =>
                  /\ \A k \in 0 .. mf.args - 1 : AddressOf(<<"arg", k>>) = EntrySP + 1 + k
                  /\ mf.returnAddressTaken => AddressOf(ReturnAddress) = EntrySP
<1>1. /\ mf \in Functions /\ EntrySP \in Nat /\ NumSaved(mf) \in Nat /\ Room(mf) \in Nat
      /\ Words(mf) \in Nat /\ Reserved(mf) \in Nat
      /\ FPWords(mf) = (IF hasFP(mf) THEN 1 ELSE 0) /\ mf.args \in Nat
      /\ mf.varSized => hasFP(mf)
      /\ Room(mf) = Words(mf) + Reserved(mf)
    BY FrameFacts DEF Shape
<1>2. ASSUME NEW o \in Locals(mf) \cup FixedIndices(mf), EntryOffset(mf, o) \in Int
      PROVE  AddressOf(o) = EntryOffset(mf, o) + EntrySP + (IF hasFP(mf) THEN 0 ELSE 1)
    <2>1. /\ reference[o].base = BasePtr
          /\ reference[o].disp = EntryOffset(mf, o) + 1 + (IF hasFP(mf) THEN 0 ELSE stackSize)
          /\ stackSize = NumSaved(mf) + Room(mf)
        BY Offsets
    <2>2. CASE hasFP(mf)
        <3>1. reg["J"] = Address(EntrySP - 1)
            BY <2>2 DEF InTheBody, Frame, FrameLinked
        <3>2. AsAddress(reg["J"]) = EntrySP - 1
            BY <3>1 DEF AsAddress, Address
        <3>3. reference[o].base # "SP"
            BY <2>1, <2>2 DEF BasePtr
        <3>4. AddressOf(o) = (EntryOffset(mf, o) + 1 + 0) + (EntrySP - 1)
            BY <2>1, <2>2, <3>2, <3>3 DEF AddressOf
        <3> QED BY <1>1, <1>2, <2>2, <3>4
    <2>3. CASE ~hasFP(mf)
        <3>1. SP = EntrySP - NumSaved(mf) - Room(mf)
            <4>1. SP = Base(mf)
                BY <1>1, <2>3, BodyBounds
            <4> QED BY <1>1, <2>3, <4>1 DEF Base
        <3>2. reference[o].base = "SP"
            BY <2>1, <2>3 DEF BasePtr
        <3>3. AddressOf(o) = (EntryOffset(mf, o) + 1 + (NumSaved(mf) + Room(mf))) + SP
            BY <2>1, <2>3, <3>2 DEF AddressOf
        <3> QED BY <1>1, <1>2, <2>3, <3>1, <3>3
    <2> QED BY <2>2, <2>3
<1>3. ASSUME NEW k \in 1 .. Len(mf.objects)
      PROVE  AddressOf(<<"local", k>>) = ObjectWord(mf, k)
    <2>1. <<"local", k>> \in Locals(mf) /\ <<"local", k>> # ReturnAddress
        BY DEF Locals, ReturnAddress
    <2>2. WordsOf(mf.objects, k) \in Nat
        <3>1. k \in 0 .. Len(mf.objects)
            BY <1>1, WordsMonotone
        <3> QED BY <1>1, <3>1, WordsMonotone
    <2>3. EntryOffset(mf, <<"local", k>>) = -(1 + NumSaved(mf) + WordsOf(mf.objects, k))
        BY <2>1 DEF EntryOffset
    <2>4. EntryOffset(mf, <<"local", k>>) \in Int
        BY <1>1, <2>2, <2>3
    <2>5. AddressOf(<<"local", k>>)
              = EntryOffset(mf, <<"local", k>>) + EntrySP + (IF hasFP(mf) THEN 0 ELSE 1)
        BY <1>2, <2>1, <2>4
    <2> QED BY <1>1, <2>2, <2>3, <2>5 DEF ObjectWord
<1>4. ASSUME ~hasFP(mf), NEW k \in 0 .. mf.args - 1
      PROVE  AddressOf(<<"arg", k>>) = EntrySP + 1 + k
    <2>1. /\ <<"arg", k>> \in FixedIndices(mf) /\ <<"arg", k>> # ReturnAddress
          /\ <<"arg", k>> \notin Locals(mf)
        BY DEF FixedIndices, Arguments, ReturnAddress, Locals
    <2>2. EntryOffset(mf, <<"arg", k>>) = k /\ k \in Int
        BY <1>1, <2>1 DEF EntryOffset
    <2>3. AddressOf(<<"arg", k>>) = EntryOffset(mf, <<"arg", k>>) + EntrySP + 1
        BY <1>2, <1>4, <2>1, <2>2
    <2> QED BY <1>1, <2>2, <2>3
<1>5. ASSUME ~hasFP(mf), mf.returnAddressTaken
      PROVE  AddressOf(ReturnAddress) = EntrySP
    <2>1. ReturnAddress \in FixedIndices(mf)
        BY <1>5 DEF FixedIndices
    <2>2. EntryOffset(mf, ReturnAddress) = -1
        BY DEF EntryOffset
    <2>3. AddressOf(ReturnAddress) = EntryOffset(mf, ReturnAddress) + EntrySP + 1
        BY <1>2, <1>5, <2>1, <2>2
    <2> QED BY <1>1, <2>2, <2>3
<1> QED BY <1>3, <1>4, <1>5

-----------------------------------------------------------------------------
(***************************************************************************)
(* The program's own instructions keep the frame.                          *)
(***************************************************************************)

LEMMA InBodyIs ==
    ASSUME Hypotheses, Runs, InBody
    PROVE  InTheBody /\ Shape /\ mf \in Functions /\ CallerKept(mf, mem)
BY WhereIs DEF InBody, At, Runs, Shape

LEMMA ClobberIs ==
    ASSUME NEW rs, Clobber(rs)
    PROVE  /\ DOMAIN reg' = Registers
           /\ \A r \in Registers : reg'[r] = IF r \in rs THEN Junk ELSE reg[r]
BY DEF Clobber

LEMMA CalleeSavedRegisters ==
    ASSUME NEW f
    PROVE  CalleeSaved(f) \subseteq Registers
BY CalleeSavedIs DEF Registers

\* What a call frame pseudo was replaced by, and what it does to SP.
LEMMA CallCodeIs ==
    ASSUME Hypotheses, Compiled, stage = "compiled", mf \in Functions,
           NEW n \in mf.calls, NEW sp \in Int
    PROVE  /\ Adjusted(callCode[n].setup, sp) = sp - (IF mf.varSized THEN n ELSE 0)
           /\ Adjusted(callCode[n].destroy, sp) = sp + (IF mf.varSized THEN n ELSE 0)
<1>1. n \in Nat
    BY CallsBounded
<1>2. callCode[n] = eliminateCallFramePseudoInstr(mf, n)
    BY DEF Compiled
<1>3. CASE mf.varSized /\ n # 0
    <2>1. callCode[n] = [setup |-> <<SUBSP(n)>>, destroy |-> <<ADDSP(n)>>]
        BY <1>2, <1>3 DEF eliminateCallFramePseudoInstr, hasReservedCallFrame
    <2>2. \A i : <<i>> # <<>> /\ Head(<<i>>) = i
        OBVIOUS
    <2>3. /\ Adjusted(callCode[n].setup, sp) = AfterAdjust(SUBSP(n), sp)
          /\ Adjusted(callCode[n].destroy, sp) = AfterAdjust(ADDSP(n), sp)
        BY <2>1, <2>2 DEF Adjusted
    <2> QED BY <1>3, <2>3 DEF AfterAdjust, SUBSP, ADDSP
<1>4. CASE ~(mf.varSized /\ n # 0)
    <2>1. callCode[n] = [setup |-> <<>>, destroy |-> <<>>]
        BY <1>2, <1>4 DEF eliminateCallFramePseudoInstr, hasReservedCallFrame
    <2>2. Adjusted(callCode[n].setup, sp) = sp /\ Adjusted(callCode[n].destroy, sp) = sp
        BY <2>1 DEF Adjusted
    <2> QED BY <1>1, <1>4, <2>2
<1> QED BY <1>3, <1>4

LEMMA WriteRegisterStep ==
    ASSUME Hypotheses, Runs, NEW r \in Registers, WriteRegister(r)
    PROVE  RunsOn'
<1>1. InTheBody /\ Shape /\ mf \in Functions /\ CallerKept(mf, mem)
    BY InBodyIs DEF WriteRegister, BetweenCalls
<1>2. /\ mf' = mf /\ pc' = pc /\ SP' = SP /\ mem' = mem /\ call' = call
      /\ stored' = stored /\ allocated' = allocated /\ call = NoCall
    BY SameFunction DEF WriteRegister, BetweenCalls
<1>3. r \in mf.used /\ ~(hasFP(mf) /\ r = "J")
    BY DEF WriteRegister, getReservedRegs
<1>4. /\ DOMAIN reg' = Registers
      /\ \A s \in Registers : reg'[s] = IF s \in {r} THEN Junk ELSE reg[s]
    BY ClobberIs DEF WriteRegister
<1>5. \A s \in CalleeSaved(mf) : reg'[s] = reg[s] \/ (s \in mf.used /\ ~(hasFP(mf) /\ s = "J"))
    BY <1>3, <1>4, CalleeSavedRegisters
<1>6. CallKept'
    BY <1>2 DEF CallKept
<1>7. SP' = Base(mf) - Cardinality(allocated) - CallWords'
    BY <1>1, <1>2 DEF InTheBody, CallWords
<1>8. DOMAIN mem' = StackWords /\ \A a \in StackWords : mem'[a] = mem[a]
    BY <1>1, <1>2 DEF Shape
<1> QED BY <1>1, <1>2, <1>4, <1>5, <1>6, <1>7, <1>8, BodyNext

LEMMA BeginCallStep ==
    ASSUME Hypotheses, Runs, NEW n \in mf.calls, BeginCall(n)
    PROVE  RunsOn'
<1>1. InTheBody /\ Shape /\ mf \in Functions /\ CallerKept(mf, mem)
    BY InBodyIs DEF BeginCall, BetweenCalls
<1>2. /\ mf' = mf /\ pc' = pc /\ mem' = mem /\ call' = [phase |-> "setup", words |-> n]
      /\ stored' = stored /\ allocated' = allocated /\ call = NoCall
    BY SameFunction DEF BeginCall, BetweenCalls
<1>3. /\ DOMAIN reg' = Registers
      /\ \A s \in Registers : reg'[s] = reg[s] \/ s = "EX"
    BY ClobberIs DEF BeginCall
<1>4. "EX" \notin CalleeSaved(mf) \/ "EX" \in mf.used
    BY <1>1, EXIsSaved
<1>5. \A s \in CalleeSaved(mf) : reg'[s] = reg[s] \/ (s \in mf.used /\ ~(hasFP(mf) /\ s = "J"))
    <2>1. "EX" # "J"
        OBVIOUS
    <2> QED BY <1>3, <1>4, <2>1, CalleeSavedRegisters
<1>6. CallKept'
    BY <1>2 DEF CallKept
<1>7. SP' = Base(mf) - Cardinality(allocated) - CallWords'
    <2>1. SP \in Int /\ call.words = 0 /\ Base(mf) \in Nat /\ Cardinality(allocated) \in Nat /\ n \in Nat
        BY <1>1, <1>2, BodyBounds, CallsBounded
    <2>2. SP = Base(mf) - Cardinality(allocated)
        BY <1>1, <2>1 DEF InTheBody, CallWords
    <2>3. SP' = SP - (IF mf.varSized THEN n ELSE 0)
        BY <1>1, <2>1, CallCodeIs DEF BeginCall, Runs
    <2>4. CallWords' = IF mf.varSized THEN n ELSE 0
        BY <1>2 DEF CallWords
    <2> QED BY <2>1, <2>2, <2>3, <2>4
<1>8. DOMAIN mem' = StackWords /\ \A a \in StackWords : mem'[a] = mem[a]
    BY <1>1, <1>2 DEF Shape
<1> QED BY <1>1, <1>2, <1>3, <1>5, <1>6, <1>7, <1>8, BodyNext

LEMMA EndCallStep ==
    ASSUME Hypotheses, Runs, EndCall
    PROVE  RunsOn'
<1>1. InTheBody /\ Shape /\ mf \in Functions /\ CallerKept(mf, mem)
    BY InBodyIs DEF EndCall
<1>2. /\ mf' = mf /\ pc' = pc /\ mem' = mem /\ call' = NoCall
      /\ stored' = stored /\ allocated' = allocated
    BY SameFunction DEF EndCall
<1>3. call.words \in mf.calls
    <2>1. call.phase = "returned"
        BY DEF EndCall
    <2>2. call # NoCall
        BY <2>1 DEF NoCall
    <2> QED BY <1>1, <2>2 DEF InTheBody, CallKept
<1>4. /\ DOMAIN reg' = Registers
      /\ \A s \in Registers : reg'[s] = reg[s] \/ s = "EX"
    BY ClobberIs DEF EndCall
<1>5. \A s \in CalleeSaved(mf) : reg'[s] = reg[s] \/ (s \in mf.used /\ ~(hasFP(mf) /\ s = "J"))
    <2>1. "EX" # "J"
        OBVIOUS
    <2>2. "EX" \notin CalleeSaved(mf) \/ "EX" \in mf.used
        BY <1>1, <1>3, EXIsSaved
    <2> QED BY <1>4, <2>1, <2>2, CalleeSavedRegisters
<1>6. CallKept'
    BY <1>2 DEF CallKept
<1>7. SP' = Base(mf) - Cardinality(allocated) - CallWords'
    <2>1. SP \in Int /\ call.words \in Nat /\ Base(mf) \in Nat /\ Cardinality(allocated) \in Nat
        BY <1>1, BodyBounds
    <2>2. SP = Base(mf) - Cardinality(allocated) - (IF mf.varSized THEN call.words ELSE 0)
        BY <1>1 DEF InTheBody, CallWords
    <2>3. SP' = SP + (IF mf.varSized THEN call.words ELSE 0)
        BY <1>1, <1>3, <2>1, CallCodeIs DEF EndCall, Runs
    <2>4. CallWords' = 0
        BY <1>2 DEF CallWords, NoCall
    <2> QED BY <2>1, <2>2, <2>3, <2>4
<1>8. DOMAIN mem' = StackWords /\ \A a \in StackWords : mem'[a] = mem[a]
    BY <1>1, <1>2 DEF Shape
<1> QED BY <1>1, <1>2, <1>4, <1>5, <1>6, <1>7, <1>8, BodyNext

LEMMA PassArgumentsStep ==
    ASSUME Hypotheses, Runs, PassArguments
    PROVE  RunsOn'
<1>1. InTheBody /\ Shape /\ mf \in Functions /\ CallerKept(mf, mem)
    BY InBodyIs DEF PassArguments
<1>2. /\ mf' = mf /\ pc' = pc /\ SP' = SP /\ stored' = stored /\ allocated' = allocated
      /\ call.phase = "setup" /\ call' = [call EXCEPT !.phase = "passed"]
    BY SameFunction DEF PassArguments
<1>3. /\ call.words \in mf.calls /\ call # NoCall
      /\ call = [phase |-> call.phase, words |-> call.words]
    <2>1. call # NoCall
        BY <1>2 DEF NoCall
    <2> QED BY <1>1, <2>1 DEF InTheBody, CallKept
<1>4. call' = [phase |-> "passed", words |-> call.words]
    BY <1>2, <1>3
<1>5. /\ SP \in Nat /\ call.words \in Nat /\ Base(mf) \in Nat /\ Reserved(mf) \in Nat
      /\ SP + call.words <= Base(mf) + Reserved(mf)
      /\ Base(mf) + Reserved(mf) <= StackTop /\ StackTop \in Nat
      /\ Cardinality(allocated) \in Nat
      /\ ~mf.varSized => allocated = {}
      /\ mf.varSized => SP = Base(mf) - Cardinality(allocated) - call.words
    <2>1. /\ Base(mf) + Reserved(mf) <= Slot(mf, 1) /\ Slot(mf, 1) <= EntrySP
          /\ EntrySP <= StackTop /\ Slot(mf, 1) \in Nat /\ EntrySP \in Nat /\ StackTop \in Nat
          /\ Base(mf) \in Nat /\ Reserved(mf) \in Nat
        BY <1>1, BodyBounds
    <2>2. Base(mf) + Reserved(mf) <= StackTop
        BY <2>1
    <2> QED BY <1>1, <2>1, <2>2, BodyBounds
<1>6. allocated = Base(mf) - Cardinality(allocated) .. Base(mf) - 1
    BY <1>1 DEF InTheBody, AllocatedKept
<1> DEFINE words == SP .. SP + call.words - 1
<1>7. /\ DOMAIN mem' = StackWords
      /\ \A a \in StackWords : mem'[a] = IF a \in words THEN OutArg(a - SP) ELSE mem[a]
    BY DEF PassArguments, Store, ArgumentBase
<1>8. \A a \in StackWords : a >= Base(mf) + Reserved(mf) \/ a \in allocated => mem'[a] = mem[a]
    <2>1. \A a \in StackWords : a >= Base(mf) + Reserved(mf) => a \notin words
        BY <1>5 DEF StackWords
    <2>2. \A a \in allocated : a \notin words
        BY <1>5, <1>6
    <2> QED BY <1>7, <2>1, <2>2
<1>9. \A k \in 0 .. call.words - 1 : mem'[SP + k] = OutArg(k)
    <2>1. SUFFICES ASSUME NEW k \in 0 .. call.words - 1 PROVE mem'[SP + k] = OutArg(k)
        OBVIOUS
    <2>2. PICK a \in Int : a = SP + k
        BY <1>5
    <2>3. k \in Int /\ 0 <= k /\ k < call.words
        BY <1>5, <2>1
    <2>4. SP + call.words <= StackTop
        BY <1>5
    <2>5. a \in words /\ a \in StackWords /\ a - SP = k
        BY <1>5, <2>2, <2>3, <2>4 DEF StackWords
    <2>6. mem'[a] = OutArg(a - SP)
        BY <1>7, <2>5
    <2> QED BY <2>2, <2>5, <2>6
<1>10. CallKept'
    BY <1>2, <1>3, <1>4, <1>9 DEF CallKept
<1>11. /\ DOMAIN reg' = Registers
       /\ \A s \in Registers : reg'[s] = IF s \in {"A", "B", "C"} THEN Junk ELSE reg[s]
    BY ClobberIs DEF PassArguments
<1>12. \A s \in CalleeSaved(mf) : reg'[s] = reg[s] \/ (s \in mf.used /\ ~(hasFP(mf) /\ s = "J"))
    <2>1. mf.calls # {}
        BY <1>3
    <2>2. \A r \in {"A", "B", "C"} : r # "J" /\ (r \notin CalleeSaved(mf) \/ r \in mf.used)
        BY <1>1, <2>1, EXIsSaved
    <2> QED BY <1>11, <2>2, CalleeSavedRegisters
<1>13. SP' = Base(mf) - Cardinality(allocated) - CallWords'
    BY <1>1, <1>2, <1>4 DEF InTheBody, CallWords
<1> HIDE DEF words
<1> QED BY <1>1, <1>2, <1>7, <1>8, <1>10, <1>11, <1>12, <1>13, BodyNext

LEMMA CalleeStep ==
    ASSUME Hypotheses, Runs, Callee
    PROVE  RunsOn'
<1>1. InTheBody /\ Shape /\ mf \in Functions /\ CallerKept(mf, mem)
    BY InBodyIs DEF Callee
<1>2. /\ mf' = mf /\ pc' = pc /\ SP' = SP /\ stored' = stored /\ allocated' = allocated
      /\ call.phase = "passed" /\ call' = [call EXCEPT !.phase = "returned"]
    BY SameFunction DEF Callee
<1>3. /\ call.words \in mf.calls /\ call # NoCall
      /\ call = [phase |-> call.phase, words |-> call.words]
    <2>1. call # NoCall
        BY <1>2 DEF NoCall
    <2> QED BY <1>1, <2>1 DEF InTheBody, CallKept
<1>4. call' = [phase |-> "returned", words |-> call.words]
    BY <1>2, <1>3
<1>5. /\ SP \in Nat /\ call.words \in Nat /\ Base(mf) \in Nat /\ Reserved(mf) \in Nat
      /\ SP + call.words <= Base(mf) + Reserved(mf)
      /\ Cardinality(allocated) \in Nat
      /\ ~mf.varSized => allocated = {}
      /\ mf.varSized => SP = Base(mf) - Cardinality(allocated) - call.words
    BY <1>1, BodyBounds
<1>6. allocated = Base(mf) - Cardinality(allocated) .. Base(mf) - 1
    BY <1>1 DEF InTheBody, AllocatedKept
<1>7. /\ DOMAIN mem' = StackWords
      /\ \A a \in StackWords : ~(a < SP + call.words) => mem'[a] = mem[a]
    BY DEF Callee, Store
<1>8. \A a \in StackWords : a >= Base(mf) + Reserved(mf) \/ a \in allocated => mem'[a] = mem[a]
    <2>1. \A a \in StackWords : a >= Base(mf) + Reserved(mf) => ~(a < SP + call.words)
        BY <1>5 DEF StackWords
    <2>2. \A a \in allocated : ~(a < SP + call.words)
        <3>1. CASE mf.varSized
            <4>1. SP + call.words = Base(mf) - Cardinality(allocated)
                BY <1>5, <3>1
            <4> QED BY <1>5, <1>6, <4>1
        <3>2. CASE ~mf.varSized
            BY <1>5, <3>2
        <3> QED BY <3>1, <3>2
    <2> QED BY <1>7, <2>1, <2>2
<1>9. CallKept'
    BY <1>3, <1>4, <1>2 DEF CallKept
<1>10. /\ DOMAIN reg' = Registers
       /\ \A s \in Registers : reg'[s] = reg[s] \/ s \notin Range(CalleeSavedRegs)
    BY ClobberIs DEF Callee
<1>11. \A s \in CalleeSaved(mf) : reg'[s] = reg[s] \/ (s \in mf.used /\ ~(hasFP(mf) /\ s = "J"))
    <2>1. SUFFICES ASSUME NEW s \in CalleeSaved(mf), s \notin Range(CalleeSavedRegs)
                   PROVE  s \in mf.used /\ s # "J"
        BY <1>10, CalleeSavedRegisters
    <2>2. s \in {"EX", "B", "C"}
        BY <2>1, CalleeSavedIs
    <2>3. mf.calls # {}
        BY <1>3
    <2> QED BY <1>1, <2>1, <2>2, <2>3, EXIsSaved
<1>12. SP' = Base(mf) - Cardinality(allocated) - CallWords'
    BY <1>1, <1>2, <1>4 DEF InTheBody, CallWords
<1> QED BY <1>1, <1>2, <1>7, <1>8, <1>9, <1>10, <1>11, <1>12, BodyNext

LEMMA LeaveBodyStep ==
    ASSUME Hypotheses, Runs, LeaveBody
    PROVE  RunsOn'
<1>1. InTheBody /\ Shape /\ mf \in Functions /\ CallerKept(mf, mem)
    BY InBodyIs DEF LeaveBody, BetweenCalls
<1>2. /\ mf' = mf /\ SP' = SP /\ mem' = mem /\ reg' = reg /\ call' = call
      /\ stored' = stored /\ allocated' = allocated /\ call = NoCall
    BY SameFunction DEF LeaveBody, BetweenCalls
<1>3. CallerKept(mf, mem)'
    BY <1>1, <1>2
<1>4. pc.index = BodyOf /\ Frame(mf, reg, mem, 1)
    BY <1>1 DEF InTheBody
<1>5. DOMAIN reg' = Registers /\ DOMAIN mem' = StackWords /\ pc.block \in 1 .. NumBlocks(mf)
    BY <1>1, <1>2 DEF Shape
<1>6. /\ code[pc.block] = Block(mf, pc.block, Prologue(mf), Epilogue(mf))
      /\ Len(code) = NumBlocks(mf)
    BY <1>1, InstrInBlock DEF Runs
<1>7. CASE pc.index < Len(code[pc.block]) /\ Advance
    <2>1. Returns(mf, pc.block)
        <3>1. ~Returns(mf, pc.block) => Len(code[pc.block]) = BodyOf
            BY <1>1, <1>6, BlockAt DEF BodyOf
        <3>2. BodyOf \in Nat
            BY <1>1, BlockAt DEF BodyOf
        <3> QED BY <1>4, <1>7, <3>1, <3>2
    <2>2. pc' = [block |-> pc.block, index |-> BodyOf + 1]
        BY <1>1, <1>4, <1>7, AdvanceTo
    <2>3. Shape'
        BY <1>1, <1>2, <1>5, <2>2, ShapeNext
    <2>4. BodyOf' = BodyOf
        BY <1>2, <2>2 DEF BodyOf
    <2>5. /\ SP \in Nat /\ SP <= Base(mf) /\ Base(mf) \in Nat /\ Slot(mf, 1) \in Nat
          /\ ~mf.varSized => SP = Base(mf)
        BY <1>1, BodyBounds
    <2>6. /\ Slot(mf, 1) = Base(mf) + Room(mf) /\ Room(mf) \in Nat /\ NumSaved(mf) \in Nat
          /\ ReleaseLength(mf) = (IF mf.varSized THEN (IF NumSaved(mf) # 0 THEN 2 ELSE 1)
                                                 ELSE AllocateLength(mf))
          /\ AllocateLength(mf) = (IF Room(mf) # 0 THEN 1 ELSE 0)
        BY <1>1, FrameFacts, SlotFacts
    <2>7. CASE ReleaseLength(mf) # 0
        <3>1. SP <= Slot(mf, 1)
            BY <2>5, <2>6
        <3>2. Releasing'
            BY <1>2, <1>4, <2>1, <2>2, <2>4, <2>5, <2>7, <3>1 DEF Releasing
        <3> QED BY <1>3, <2>3, <3>2 DEF RunsOn, Position
    <2>8. CASE ReleaseLength(mf) = 0
        <3>1. SP = Slot(mf, 1)
            <4>1. ~mf.varSized /\ Room(mf) = 0
                BY <2>6, <2>8
            <4> QED BY <2>5, <2>6, <4>1
        <3>2. BodyOf + 1 = BodyOf + ReleaseLength(mf) + 1
            <4>1. BodyOf \in Nat
                BY <1>1, BlockAt DEF BodyOf
            <4> QED BY <2>8, <4>1
        <3>3. Popping(1)'
            BY <1>2, <1>4, <2>1, <2>2, <2>4, <3>1, <3>2 DEF Popping
        <3>4. SomePopping'
            <4>1. 1 \in 1 .. NumSaved(mf') + 1
                BY <1>2, <2>6
            <4> QED BY <3>3, <4>1 DEF SomePopping
        <3> QED BY <1>3, <2>3, <3>4, ArrivesNext DEF RunsOn
    <2> QED BY <2>7, <2>8
<1>8. CASE \E b \in 2 .. Len(code) : pc' = [block |-> b, index |-> 1]
    <2>1. PICK b \in 2 .. Len(code) : pc' = [block |-> b, index |-> 1]
        BY <1>8
    <2>2. b \in 1 .. NumBlocks(mf) /\ b # 1
        <3>1. NumBlocks(mf) \in Nat
            BY <1>1, FunctionsAssumption DEF MachineFunction, NumBlocks
        <3> QED BY <1>6, <3>1
    <2>3. Shape'
        BY <1>1, <1>2, <1>5, <2>1, <2>2, ShapeNext
    <2>4. pc'.index = BodyOf'
        BY <1>2, <2>1, <2>2 DEF BodyOf, BodyIndex
    <2>5. InTheBody'
        <3>1. ObjectsStored' /\ AllocatedKept' /\ CallKept' /\ CallWords' = CallWords
            BY <1>1, <1>2 DEF InTheBody, ObjectsStored, AllocatedKept, CallKept, CallWords
        <3>2. (SP = Base(mf) - Cardinality(allocated) - CallWords)'
            BY <1>1, <1>2, <3>1 DEF InTheBody
        <3>3. (stored \subseteq Locals(mf))'
            BY <1>1, <1>2 DEF InTheBody
        <3> QED BY <1>2, <1>4, <2>4, <3>1, <3>2, <3>3 DEF InTheBody
    <2> QED BY <1>3, <2>3, <2>5 DEF RunsOn, Position
<1> QED BY <1>7, <1>8 DEF LeaveBody

LEMMA StoreObjectStep ==
    ASSUME Hypotheses, Runs, NEW o \in Locals(mf), StoreObject(o)
    PROVE  RunsOn'
<1>1. InTheBody /\ Shape /\ mf \in Functions /\ CallerKept(mf, mem)
    BY InBodyIs DEF StoreObject, BetweenCalls
<1>2. /\ mf' = mf /\ pc' = pc /\ SP' = SP /\ reg' = reg /\ call' = call
      /\ stored' = stored \cup {o} /\ allocated' = allocated /\ call = NoCall
    BY SameFunction DEF StoreObject, BetweenCalls
<1>3. PICK j \in 1 .. Len(mf.objects) : o = <<"local", j>>
    BY DEF Locals
<1> DEFINE words == ObjectWord(mf, j) .. ObjectWord(mf, j) + mf.objects[j] - 1
<1>4. WordsOfObject(o) = words
    <2>1. AddressOf(o) = ObjectWord(mf, j)
        BY <1>1, <1>3, Addresses DEF Runs
    <2>2. o[2] = j
        BY <1>3
    <2> QED BY <2>1, <2>2 DEF WordsOfObject
<1>5. /\ DOMAIN mem' = StackWords
      /\ \A a \in StackWords : mem'[a] = IF a \in words THEN Object(o) ELSE mem[a]
    <2>1. mem' = [a \in StackWords |-> IF a \in WordsOfObject(o) THEN Object(o) ELSE mem[a]]
        BY DEF StoreObject, Store
    <2> QED BY <1>4, <2>1
<1>6. /\ Base(mf) \in Nat /\ Reserved(mf) \in Nat /\ Slot(mf, 1) \in Nat
      /\ Slot(mf, 1) <= EntrySP /\ EntrySP <= StackTop /\ EntrySP \in Nat /\ StackTop \in Nat
      /\ Base(mf) + Reserved(mf) <= Slot(mf, 1)
    BY <1>1, BodyBounds
<1>7. \A k \in 1 .. Len(mf.objects) :
          /\ ObjectWord(mf, k) \in Nat /\ mf.objects[k] \in Nat \ {0}
          /\ Base(mf) + Reserved(mf) <= ObjectWord(mf, k)
          /\ ObjectWord(mf, k) + mf.objects[k] <= Slot(mf, 1)
          /\ \A i \in 1 .. Len(mf.objects) :
                 i < k => ObjectWord(mf, k) + mf.objects[k] <= ObjectWord(mf, i)
    BY <1>1, ObjectFacts
<1>8. /\ ObjectWord(mf, j) \in Nat /\ mf.objects[j] \in Nat
      /\ Base(mf) <= ObjectWord(mf, j)
      /\ ObjectWord(mf, j) + mf.objects[j] <= Slot(mf, 1)
    <2>1. /\ ObjectWord(mf, j) \in Nat /\ mf.objects[j] \in Nat
          /\ Base(mf) + Reserved(mf) <= ObjectWord(mf, j)
          /\ ObjectWord(mf, j) + mf.objects[j] <= Slot(mf, 1)
        BY <1>7
    <2> QED BY <1>6, <2>1
<1>9. ObjectsStored'
    <2>1. SUFFICES ASSUME NEW k \in 1 .. Len(mf.objects), <<"local", k>> \in stored \cup {o},
                          NEW a \in ObjectWord(mf, k) .. ObjectWord(mf, k) + mf.objects[k] - 1
                   PROVE  mem'[a] = Object(<<"local", k>>)
        BY <1>2 DEF ObjectsStored
    <2>2. /\ ObjectWord(mf, k) \in Nat /\ mf.objects[k] \in Nat
          /\ ObjectWord(mf, k) + mf.objects[k] <= Slot(mf, 1)
        BY <1>7
    <2>3. a \in StackWords /\ a \in Int /\ ObjectWord(mf, k) <= a /\ a < ObjectWord(mf, k) + mf.objects[k]
        <3>1. Slot(mf, 1) \in Nat /\ Slot(mf, 1) <= StackTop /\ StackTop \in Nat
            BY <1>6
        <3> QED BY <2>2, <3>1, WordOfObject
    <2>4. CASE k = j
        BY <1>3, <1>5, <2>3, <2>4
    <2>5. CASE k # j
        <3>1. <<"local", k>> \in stored
            <4>1. <<"local", k>> # o
                BY <1>3, <2>5
            <4> QED BY <2>1, <4>1
        <3>2. mem[a] = Object(<<"local", k>>)
            BY <1>1, <3>1 DEF InTheBody, ObjectsStored
        <3>3. \/ ObjectWord(mf, k) + mf.objects[k] <= ObjectWord(mf, j)
              \/ ObjectWord(mf, j) + mf.objects[j] <= ObjectWord(mf, k)
            <4>1. j < k \/ k < j
                BY <2>5
            <4> QED BY <1>7, <4>1
        <3>4. a \notin words
            <4>1. ASSUME a \in words
                  PROVE  ObjectWord(mf, j) <= a /\ a < ObjectWord(mf, j) + mf.objects[j]
                BY <1>8, <4>1
            <4> HIDE DEF words
            <4> QED BY <1>8, <2>2, <2>3, <3>3, <4>1
        <3> QED BY <1>5, <2>3, <3>2, <3>4
    <2> QED BY <2>4, <2>5
<1>10. AllocatedKept'
    <2>1. \A a \in allocated : a \in StackWords /\ a < Base(mf)
        BY <1>1, BodyBounds
    <2>2. \A a \in allocated : a \notin words
        BY <1>6, <1>8, <2>1 DEF StackWords
    <2>3. \A a \in allocated : mem'[a] = mem[a]
        BY <1>5, <2>1, <2>2
    <2> QED BY <1>1, <1>2, <2>3 DEF InTheBody, AllocatedKept
<1>11. Frame(mf, reg', mem', 1) /\ CallerKept(mf, mem)'
    <2>1. \A a \in StackWords : a >= Slot(mf, 1) => mem'[a] = mem[a]
        <3>1. \A a \in StackWords : a >= Slot(mf, 1) => a \notin words
            BY <1>6, <1>8 DEF StackWords
        <3> QED BY <1>5, <3>1
    <2>2. 1 \in 1 .. NumSaved(mf) + 1 /\ Frame(mf, reg, mem, 1)
        BY <1>1, FrameFacts DEF InTheBody
    <2>3. Frame(mf, reg', mem', 1)
        BY <1>1, <1>2, <2>1, <2>2, FrameStable
    <2>4. \A a \in EntrySP .. StackTop : a \in StackWords /\ a >= Slot(mf, 1)
        BY <1>6 DEF StackWords
    <2> QED BY <1>1, <1>2, <2>1, <2>3, <2>4 DEF CallerKept
<1> HIDE DEF words
<1>12. Shape'
    <2>1. /\ pc' = [block |-> pc.block, index |-> pc.index] /\ pc.block \in 1 .. NumBlocks(mf)
          /\ DOMAIN reg' = Registers
        BY <1>1, <1>2 DEF Shape
    <2> QED BY <1>1, <1>2, <1>5, <2>1, ShapeNext
<1>13. InTheBody'
    <2>1. (pc.index = BodyOf)' /\ CallKept'
        BY <1>1, <1>2 DEF InTheBody, BodyOf, CallKept
    <2>2. (SP = Base(mf) - Cardinality(allocated) - CallWords)'
        BY <1>1, <1>2 DEF InTheBody, CallWords
    <2>3. (stored \subseteq Locals(mf))'
        BY <1>1, <1>2 DEF InTheBody
    <2> QED BY <1>2, <1>9, <1>10, <1>11, <2>1, <2>2, <2>3 DEF InTheBody
<1> QED BY <1>11, <1>12, <1>13 DEF RunsOn, Position

LEMMA IntervalSize ==
    ASSUME NEW a \in Int, NEW n \in Nat
    PROVE  IsFiniteSet(a .. a + n - 1) /\ Cardinality(a .. a + n - 1) = n
<1>1. a + n - 1 \in Int
    OBVIOUS
<1>2. /\ IsFiniteSet(a .. a + n - 1)
      /\ Cardinality(a .. a + n - 1) = IF a > a + n - 1 THEN 0 ELSE (a + n - 1) - a + 1
    BY <1>1, FS_Interval
<1> QED BY <1>2

LEMMA DynamicAllocaStep ==
    ASSUME Hypotheses, Runs, DynamicAlloca
    PROVE  RunsOn'
<1>1. InTheBody /\ Shape /\ mf \in Functions /\ CallerKept(mf, mem)
    BY InBodyIs DEF DynamicAlloca, BetweenCalls
<1> DEFINE words == SP - AllocaSize .. SP - 1
           size == Cardinality(allocated)
<1>2. /\ mf' = mf /\ pc' = pc /\ SP' = SP - AllocaSize /\ call' = call
      /\ stored' = stored /\ allocated' = allocated \cup words /\ call = NoCall
      /\ mf.varSized /\ size + AllocaSize <= AllocaBound
    BY SameFunction DEF DynamicAlloca, BetweenCalls
<1>3. /\ Base(mf) \in Nat /\ Reserved(mf) \in Nat /\ Slot(mf, 1) \in Nat
      /\ Slot(mf, 1) <= EntrySP /\ EntrySP <= StackTop /\ EntrySP \in Nat /\ StackTop \in Nat
      /\ Base(mf) + Reserved(mf) <= Slot(mf, 1)
      /\ size \in Nat /\ SP = Base(mf) - size /\ AllocaSize \in Nat
    <2>1. call.words = 0
        BY <1>1, <1>2, BodyBounds
    <2>2. SP = Base(mf) - size - 0
        BY <1>1, <1>2, <2>1, BodyBounds
    <2>3. AllocaSize \in Nat
        BY ExecutionAssumption
    <2>4. /\ Base(mf) \in Nat /\ Reserved(mf) \in Nat /\ Slot(mf, 1) \in Nat
          /\ Slot(mf, 1) <= EntrySP /\ EntrySP <= StackTop /\ EntrySP \in Nat /\ StackTop \in Nat
          /\ Base(mf) + Reserved(mf) <= Slot(mf, 1)
          /\ size \in Nat
        BY <1>1, BodyBounds
    <2> QED BY <2>2, <2>3, <2>4
<1>4. size + AllocaSize <= Base(mf)
    <2>1. MaxCallFrameSize(mf) \in Nat
        BY <1>1, CallsBounded
    <2>2. Base(mf) >= AllocaBound + MaxCallFrameSize(mf) /\ AllocaBound \in Nat
        BY <1>1, <1>2, <2>1, FrameFacts DEF Base
    <2> QED BY <1>2, <1>3, <2>1, <2>2
<1>5. /\ DOMAIN mem' = StackWords
      /\ \A a \in StackWords : mem'[a] = IF a \in words THEN Allocated ELSE mem[a]
    BY DEF DynamicAlloca, Store
<1>6. /\ DOMAIN reg' = Registers
      /\ \A s \in Registers : reg'[s] = IF s \in {"EX"} THEN Junk ELSE reg[s]
    BY ClobberIs DEF DynamicAlloca
<1>7. allocated = Base(mf) - size .. Base(mf) - 1 /\ \A a \in allocated : mem[a] = Allocated
    BY <1>1 DEF InTheBody, AllocatedKept
<1> HIDE DEF size
<1>8. allocated' = Base(mf) - (size + AllocaSize) .. Base(mf) - 1
    <2>1. words = Base(mf) - (size + AllocaSize) .. Base(mf) - size - 1
        BY <1>3
    <2>2. (Base(mf) - size .. Base(mf) - 1) \cup (Base(mf) - (size + AllocaSize) .. Base(mf) - size - 1)
              = Base(mf) - (size + AllocaSize) .. Base(mf) - 1
        BY <1>3
    <2> QED BY <1>2, <1>7, <2>1, <2>2
<1>9. IsFiniteSet(allocated') /\ Cardinality(allocated') = size + AllocaSize
    <2>1. PICK low \in Int : low = Base(mf) - (size + AllocaSize)
        BY <1>3
    <2>2. size + AllocaSize \in Nat /\ low + (size + AllocaSize) - 1 = Base(mf) - 1
        BY <1>3, <2>1
    <2>3. /\ IsFiniteSet(low .. low + (size + AllocaSize) - 1)
          /\ Cardinality(low .. low + (size + AllocaSize) - 1) = size + AllocaSize
        BY <2>2, IntervalSize
    <2> QED BY <1>8, <2>1, <2>2, <2>3
<1>10. \A a \in allocated' : a \in StackWords /\ mem'[a] = Allocated
    <2>1. \A a \in allocated' : a \in StackWords
        BY <1>3, <1>4, <1>8 DEF StackWords
    <2> QED BY <1>2, <1>5, <1>7, <2>1
<1>11. AllocatedKept'
    BY <1>2, <1>8, <1>9, <1>10 DEF AllocatedKept
<1>12. \A a \in StackWords : a >= Base(mf) => mem'[a] = mem[a]
    <2>1. \A a \in StackWords : a >= Base(mf) => a \notin words
        BY <1>3 DEF StackWords
    <2> QED BY <1>5, <2>1
<1> HIDE DEF words
<1>13. ObjectsStored'
    <2>1. SUFFICES ASSUME NEW k \in 1 .. Len(mf.objects), <<"local", k>> \in stored,
                          NEW a \in ObjectWord(mf, k) .. ObjectWord(mf, k) + mf.objects[k] - 1
                   PROVE  mem'[a] = Object(<<"local", k>>)
        BY <1>2 DEF ObjectsStored
    <2>2. /\ ObjectWord(mf, k) \in Nat /\ mf.objects[k] \in Nat
          /\ Base(mf) + Reserved(mf) <= ObjectWord(mf, k)
          /\ ObjectWord(mf, k) + mf.objects[k] <= Slot(mf, 1)
        BY <1>1, ObjectFacts
    <2>3. a \in StackWords /\ a >= Base(mf)
        <3>1. Base(mf) \in Nat /\ Base(mf) <= ObjectWord(mf, k)
            BY <1>3, <2>2
        <3>2. Slot(mf, 1) \in Nat /\ Slot(mf, 1) <= StackTop /\ StackTop \in Nat
            BY <1>3
        <3>3. a \in StackWords /\ a \in Int /\ ObjectWord(mf, k) <= a
            BY <2>2, <3>2, WordOfObject
        <3> QED BY <2>2, <3>1, <3>3
    <2>4. mem[a] = Object(<<"local", k>>)
        BY <1>1, <2>1 DEF InTheBody, ObjectsStored
    <2> QED BY <1>12, <2>3, <2>4
<1>14. Frame(mf, reg', mem', 1)
    <2>1. \A a \in StackWords : a >= Slot(mf, 1) => mem'[a] = mem[a]
        BY <1>3, <1>12 DEF StackWords
    <2>2. 1 \in 1 .. NumSaved(mf) + 1 /\ Frame(mf, reg, mem, 1)
        BY <1>1, FrameFacts DEF InTheBody
    <2>3. Frame(mf, reg, mem', 1)
        BY <1>1, <2>1, <2>2, FrameStable
    <2>4. "EX" \notin CalleeSaved(mf) \/ "EX" \in mf.used
        BY <1>1, <1>2, EXIsSaved
    <2>5. \A s \in CalleeSaved(mf) : reg'[s] = reg[s] \/ (s \in mf.used /\ ~(hasFP(mf) /\ s = "J"))
        <3>1. "EX" # "J"
            OBVIOUS
        <3> QED BY <1>6, <2>4, <3>1, CalleeSavedRegisters
    <2> QED BY <1>1, <2>3, <2>5, FrameRegisters
<1>15. CallerKept(mf, mem)'
    <2>1. \A a \in EntrySP .. StackTop : a \in StackWords /\ a >= Base(mf)
        BY <1>3 DEF StackWords
    <2> QED BY <1>1, <1>2, <1>12, <2>1 DEF CallerKept
<1>16. Shape'
    <2>1. pc' = [block |-> pc.block, index |-> pc.index] /\ pc.block \in 1 .. NumBlocks(mf)
        BY <1>1, <1>2 DEF Shape
    <2> QED BY <1>1, <1>2, <1>5, <1>6, <2>1, ShapeNext
<1>17. InTheBody'
    <2>1. (pc.index = BodyOf)' /\ CallKept'
        BY <1>1, <1>2 DEF InTheBody, BodyOf, CallKept
    <2>2. CallWords' = 0
        BY <1>2 DEF CallWords, NoCall
    <2>3. (SP = Base(mf) - Cardinality(allocated) - CallWords)'
        BY <1>2, <1>3, <1>9, <2>2
    <2>4. (stored \subseteq Locals(mf))'
        BY <1>1, <1>2 DEF InTheBody
    <2> QED BY <1>2, <1>11, <1>13, <1>14, <2>1, <2>3, <2>4 DEF InTheBody
<1> QED BY <1>15, <1>16, <1>17 DEF RunsOn, Position

-----------------------------------------------------------------------------
(***************************************************************************)
(* The invariant.                                                          *)
(***************************************************************************)

LEMMA InitInvariant ==
    ASSUME Hypotheses, ExecInit
    PROVE  ExecutionInvariant
<1>1. Compiled /\ mf \in Functions /\ stage # "compiled"
    BY InitCompiled DEF ExecInit, Init
<1>2. NumBlocks(mf) \in Nat \ {0}
    BY <1>1, FunctionsAssumption DEF MachineFunction, NumBlocks
<1>3. Shape
    BY <1>1, <1>2 DEF ExecInit, Shape
<1>4. CallerKept(mf, mem)
    <2>1. \A a \in EntrySP .. StackTop : a \in StackWords
        BY ExecutionAssumption DEF StackWords
    <2> QED BY <2>1 DEF ExecInit, CallerKept
<1>5. AtStart /\ resume = NotReturned
    BY DEF ExecInit, AtStart, NothingStored
<1> QED BY <1>1, <1>3, <1>4, <1>5 DEF ExecutionInvariant, Machine

LEMMA CompileKeeps ==
    ASSUME Hypotheses, ExecutionInvariant, Compile
    PROVE  ExecutionInvariant'
<1>1. Compiled'
    BY StepCompiled DEF ExecutionInvariant, Compile
<1>2. stage # "compiled" /\ mf' = mf
    <2>1. ASSUME NEW s, Enter(s), s \in {"calls", "csr", "spills", "finalize", "layout",
                                         "prologue", "epilogue", "indices"}
          PROVE  stage # "compiled"
        BY <2>1 DEF Enter
    <2> QED BY <2>1 DEF Compile, runOnMachineFunction, calculateCallsInformation,
                        calculateCalleeSavedRegisters, insertCSRSpillsAndRestores,
                        processFunctionBeforeFrameFinalized, calculateFrameObjectOffsets,
                        insertPrologCode, insertEpilogCode, replaceFrameIndices
<1>3. /\ pc' = pc /\ SP' = SP /\ reg' = reg /\ mem' = mem /\ call' = call
      /\ resume' = resume /\ stored' = stored /\ allocated' = allocated
    BY DEF Compile, machineVars
<1>4. Shape /\ CallerKept(mf, mem) /\ AtStart /\ resume = NotReturned
    BY <1>2 DEF ExecutionInvariant, Machine
<1>5. Shape'
    BY <1>2, <1>3, <1>4 DEF Shape
<1>6. AtStart' /\ CallerKept(mf, mem)'
    BY <1>2, <1>3, <1>4 DEF AtStart, NothingStored
<1>7. Shape' /\ AtStart' => Position'
    BY StartArrives, PTL
<1> QED BY <1>1, <1>3, <1>4, <1>5, <1>6, <1>7 DEF ExecutionInvariant, Machine

LEMMA RunningIs ==
    ASSUME ExecutionInvariant, Running
    PROVE  Runs
<1>1. NotReturned # ReturnPC
    BY DEF NotReturned, ReturnPC
<1> QED BY <1>1 DEF ExecutionInvariant, Machine, Running, Runs, BackInCaller

\* The processor goes on in the function.
LEMMA RunsOnKeeps ==
    ASSUME ExecutionInvariant, Running, RunsOn', UNCHANGED compileVars, resume' = resume
    PROVE  ExecutionInvariant'
<1>1. Compiled' /\ stage' = "compiled" /\ resume' = NotReturned
    BY StutterCompiled, SameFunction DEF ExecutionInvariant, Running
<1> QED BY <1>1 DEF ExecutionInvariant, Machine, RunsOn

LEMMA ReturnKeeps ==
    ASSUME ExecutionInvariant, Running, UNCHANGED compileVars,
           Shape', CallerKept(mf, mem)', BackInCaller'
    PROVE  ExecutionInvariant'
<1>1. Compiled' /\ stage' = "compiled"
    BY StutterCompiled, SameFunction DEF ExecutionInvariant, Running
<1> QED BY <1>1 DEF ExecutionInvariant, Machine

LEMMA ProcessorKeeps ==
    ASSUME Hypotheses, ExecutionInvariant, Processor
    PROVE  ExecutionInvariant'
<1>1. Running /\ UNCHANGED compileVars
    BY DEF Processor, Push, Pop, Move, AdjustSP, Return, ReturnFromInterrupt, Interrupt, At
<1>2. Runs
    BY <1>1, RunningIs
<1>3. CASE Push
    <2>1. RunsOn' /\ resume' = resume
        BY <1>2, <1>3, PushStep DEF Push
    <2> QED BY <1>1, <2>1, RunsOnKeeps
<1>4. CASE Pop
    <2>1. RunsOn' /\ resume' = resume
        BY <1>2, <1>4, PopStep DEF Pop
    <2> QED BY <1>1, <2>1, RunsOnKeeps
<1>5. CASE Move
    <2>1. RunsOn' /\ resume' = resume
        BY <1>2, <1>5, MoveStep DEF Move
    <2> QED BY <1>1, <2>1, RunsOnKeeps
<1>6. CASE AdjustSP
    <2>1. RunsOn' /\ resume' = resume
        BY <1>2, <1>6, AdjustStep DEF AdjustSP
    <2> QED BY <1>1, <2>1, RunsOnKeeps
<1>7. CASE Return
    BY <1>1, <1>2, <1>7, ReturnStep, ReturnKeeps
<1>8. CASE ReturnFromInterrupt
    BY <1>1, <1>2, <1>8, ReturnFromInterruptStep, ReturnKeeps
<1>9. CASE Interrupt
    <2>1. RunsOn' /\ resume' = resume
        BY <1>2, <1>9, InterruptStep DEF Interrupt
    <2> QED BY <1>1, <2>1, RunsOnKeeps
<1> QED BY <1>3, <1>4, <1>5, <1>6, <1>7, <1>8, <1>9 DEF Processor

LEMMA ProgramRuns ==
    ASSUME Program
    PROVE  Running /\ UNCHANGED compileVars /\ resume' = resume
BY DEF Program, WriteRegister, StoreObject, DynamicAlloca, BeginCall, PassArguments, Callee,
       EndCall, LeaveBody, BetweenCalls, InBody, At

LEMMA ProgramKeeps ==
    ASSUME Hypotheses, ExecutionInvariant, Program
    PROVE  ExecutionInvariant'
<1>1. Running /\ UNCHANGED compileVars /\ resume' = resume
    BY ProgramRuns
<1>2. Runs
    BY <1>1, RunningIs
<1>3. RunsOn'
    <2>1. CASE \E r \in Registers : WriteRegister(r)
        BY <1>2, <2>1, WriteRegisterStep
    <2>2. CASE \E o \in Locals(mf) : StoreObject(o)
        BY <1>2, <2>2, StoreObjectStep
    <2>3. CASE DynamicAlloca
        BY <1>2, <2>3, DynamicAllocaStep
    <2>4. CASE \E n \in mf.calls : BeginCall(n)
        BY <1>2, <2>4, BeginCallStep
    <2>5. CASE PassArguments
        BY <1>2, <2>5, PassArgumentsStep
    <2>6. CASE Callee
        BY <1>2, <2>6, CalleeStep
    <2>7. CASE EndCall
        BY <1>2, <2>7, EndCallStep
    <2>8. CASE LeaveBody
        BY <1>2, <2>8, LeaveBodyStep
    <2> QED BY <2>1, <2>2, <2>3, <2>4, <2>5, <2>6, <2>7, <2>8 DEF Program
<1> QED BY <1>1, <1>3, RunsOnKeeps

LEMMA StutterKeeps ==
    ASSUME ExecutionInvariant, UNCHANGED vars
    PROVE  ExecutionInvariant'
<1>1. /\ UNCHANGED compileVars /\ pc' = pc /\ SP' = SP /\ reg' = reg /\ mem' = mem
      /\ call' = call /\ resume' = resume /\ stored' = stored /\ allocated' = allocated
    BY DEF vars, machineVars
<1>2. Compiled' /\ mf' = mf /\ stage' = stage
    BY <1>1, StutterCompiled, SameFunction DEF ExecutionInvariant
<1>3. Shape => Shape'
    BY <1>1, <1>2 DEF Shape
<1>4. /\ AtStart => AtStart'
      /\ BackInCaller => BackInCaller'
    BY <1>1, <1>2 DEF AtStart, BackInCaller, NothingStored
<1>5. Position => Position'
    <2>1. BodyOf' = BodyOf /\ NothingStored' = NothingStored /\ CallWords' = CallWords
        BY <1>1, <1>2 DEF BodyOf, NothingStored, CallWords
    <2>2. (AtEntry => AtEntry') /\ (AtSetFP => AtSetFP')
        BY <1>1, <1>2, <2>1 DEF AtEntry, AtSetFP
    <2>3. \A lo : InPrologue(lo) => InPrologue(lo)'
        BY <1>1, <1>2, <2>1 DEF InPrologue, Saving
    <2>4. InTheBody => InTheBody'
        BY <1>1, <1>2, <2>1 DEF InTheBody, ObjectsStored, AllocatedKept, CallKept
    <2>5. (Releasing => Releasing') /\ (Lowering => Lowering') /\ (Returning => Returning')
        BY <1>1, <1>2, <2>1 DEF Releasing, Lowering, Returning
    <2>6. \A lo : Restoring(lo) => Restoring(lo)'
        BY <1>1, <1>2, <2>1 DEF Restoring, Popping
    <2> QED BY <1>2, <2>2, <2>3, <2>4, <2>5, <2>6 DEF Position
<1> QED BY <1>1, <1>2, <1>3, <1>4, <1>5 DEF ExecutionInvariant, Machine

LEMMA ExecutionKeeps ==
    ASSUME Hypotheses, ExecutionInvariant, [Next]_vars
    PROVE  ExecutionInvariant'
<1>1. CASE Compile
    BY <1>1, CompileKeeps
<1>2. CASE Processor
    BY <1>2, ProcessorKeeps
<1>3. CASE Program
    BY <1>3, ProgramKeeps
<1>4. CASE Finished
    BY <1>4, StutterKeeps DEF Finished
<1>5. CASE UNCHANGED vars
    BY <1>5, StutterKeeps
<1> QED BY <1>1, <1>2, <1>3, <1>4, <1>5 DEF Next

\* The inductive invariant: between any two instructions the code is the one
\* the pass is to emit, and the stack, the stack pointer and the registers are
\* those of the instruction that the processor is at.
THEOREM ExecutionInvariantHolds ==
    ASSUME Hypotheses
    PROVE  Spec => []ExecutionInvariant
<1>1. ExecInit => ExecutionInvariant
    BY InitInvariant
<1>2. ExecutionInvariant /\ [Next]_vars => ExecutionInvariant'
    BY ExecutionKeeps
<1> QED BY <1>1, <1>2, PTL DEF Spec

-----------------------------------------------------------------------------
(***************************************************************************)
(* What the invariant means to the caller and to the body.                 *)
(***************************************************************************)

LEMMA InvariantReturned ==
    ASSUME ExecutionInvariant, stage = "compiled", ~Running
    PROVE  BackInCaller
BY DEF ExecutionInvariant, Machine, Running

LEMMA InvariantInBody ==
    ASSUME Hypotheses, ExecutionInvariant, InBody
    PROVE  InTheBody /\ Shape /\ mf \in Functions /\ CallerKept(mf, mem) /\ Runs
BY InBodyIs, RunningIs DEF InBody, At

\* Whatever the function does in between, when it returns the registers that
\* the caller, or the interrupted program, needs are those of the entry.
THEOREM RegistersAreRestored ==
    ASSUME Hypotheses
    PROVE  Spec => []RegistersRestored
<1>1. ExecutionInvariant => RegistersRestored
    BY InvariantReturned DEF RegistersRestored, BackInCaller
<1> QED BY <1>1, ExecutionInvariantHolds, PTL

\* The return pops the return address, and the stack pointer is above the
\* words that the entry pushed.
THEOREM StackIsBalanced ==
    ASSUME Hypotheses
    PROVE  Spec => []StackBalanced
<1>1. ExecutionInvariant => StackBalanced
    BY InvariantReturned DEF StackBalanced, BackInCaller
<1> QED BY <1>1, ExecutionInvariantHolds, PTL

LEMMA InvariantKeepsObjects ==
    ASSUME Hypotheses, ExecutionInvariant
    PROVE  ObjectsKept
<1>1. SUFFICES ASSUME InBody
               PROVE  /\ \A o \in stored : \A a \in WordsOfObject(o) : ReadWord(a) = Object(o)
                      /\ \A a \in allocated : ReadWord(a) = Allocated
    BY DEF ObjectsKept
<1>2. InTheBody /\ Shape /\ mf \in Functions /\ Runs
    BY <1>1, InvariantInBody
<1>3. ASSUME NEW o \in stored, NEW a \in WordsOfObject(o) PROVE ReadWord(a) = Object(o)
    <2>1. PICK k \in 1 .. Len(mf.objects) : o = <<"local", k>>
        BY <1>2, <1>3 DEF InTheBody, Locals
    <2>2. AddressOf(o) = ObjectWord(mf, k) /\ o[2] = k
        BY <1>2, <2>1, Addresses DEF Runs
    <2>3. a \in ObjectWord(mf, k) .. ObjectWord(mf, k) + mf.objects[k] - 1
        BY <1>3, <2>2 DEF WordsOfObject
    <2>4. mem[a] = Object(o)
        BY <1>2, <1>3, <2>1, <2>3 DEF InTheBody, ObjectsStored
    <2>5. a \in StackWords
        <3>1. /\ ObjectWord(mf, k) \in Nat /\ mf.objects[k] \in Nat
              /\ ObjectWord(mf, k) + mf.objects[k] <= Slot(mf, 1)
            BY <1>2, ObjectFacts
        <3>2. Slot(mf, 1) <= EntrySP /\ EntrySP <= StackTop /\ EntrySP \in Nat /\ StackTop \in Nat
              /\ Slot(mf, 1) \in Nat
            BY <1>2, BodyBounds
        <3>3. a \in Int /\ 0 <= a /\ a <= StackTop
            BY <2>3, <3>1, <3>2
        <3> QED BY <3>3 DEF StackWords
    <2> QED BY <2>4, <2>5 DEF ReadWord
<1>4. ASSUME NEW a \in allocated PROVE ReadWord(a) = Allocated
    <2>1. a \in StackWords
        BY <1>2, BodyBounds
    <2>2. mem[a] = Allocated
        BY <1>2 DEF InTheBody, AllocatedKept
    <2> QED BY <2>1, <2>2 DEF ReadWord
<1> QED BY <1>3, <1>4

\* What the program stored in an object or in allocated memory stays there.
THEOREM ObjectsAreKept ==
    ASSUME Hypotheses
    PROVE  Spec => []ObjectsKept
<1>1. ExecutionInvariant => ObjectsKept
    BY InvariantKeepsObjects
<1> QED BY <1>1, ExecutionInvariantHolds, PTL

LEMMA PassedInBody ==
    ASSUME Hypotheses, ExecutionInvariant, call.phase = "passed"
    PROVE  InTheBody
<1>1. call # NoCall
    BY DEF NoCall
<1>2. ~NothingStored /\ ~BackInCaller
    BY <1>1 DEF NothingStored, BackInCaller
<1>3. stage = "compiled" /\ Position
    BY <1>2 DEF ExecutionInvariant, Machine, AtStart
<1> QED BY <1>1, <1>2, <1>3 DEF Position, AtEntry, AtSetFP, InPrologue, Saving, Releasing,
                                Lowering, Restoring, Popping, Returning

LEMMA InvariantPassesArguments ==
    ASSUME Hypotheses, ExecutionInvariant
    PROVE  OutgoingArgumentsInPlace
<1>1. SUFFICES ASSUME call.phase = "passed", NEW k \in 0 .. call.words - 1
               PROVE  ReadWord(SP + k) = OutArg(k)
    BY DEF OutgoingArgumentsInPlace
<1>2. InTheBody /\ Shape
    BY <1>1, PassedInBody DEF ExecutionInvariant, Machine
<1>3. mem[SP + k] = OutArg(k)
    <2>1. call # NoCall
        BY <1>1 DEF NoCall
    <2> QED BY <1>1, <1>2, <2>1 DEF InTheBody, CallKept
<1>4. SP + k \in StackWords
    <2>1. /\ SP \in Nat /\ call.words \in Nat /\ StackTop \in Nat
          /\ SP + call.words <= Base(mf) + Reserved(mf)
        BY <1>2, BodyBounds
    <2>2. Base(mf) + Reserved(mf) <= StackTop /\ Base(mf) \in Nat /\ Reserved(mf) \in Nat
        <3>1. /\ Base(mf) + Reserved(mf) <= Slot(mf, 1) /\ Slot(mf, 1) <= EntrySP
              /\ EntrySP <= StackTop /\ Slot(mf, 1) \in Nat /\ EntrySP \in Nat /\ StackTop \in Nat
              /\ Base(mf) \in Nat /\ Reserved(mf) \in Nat
            BY <1>2, BodyBounds
        <3> QED BY <3>1
    <2>3. SP + call.words <= StackTop
        BY <2>1, <2>2
    <2>4. k \in Int /\ 0 <= k /\ k < call.words
        BY <2>1
    <2> QED BY <2>1, <2>3, <2>4 DEF StackWords
<1> QED BY <1>3, <1>4 DEF ReadWord

\* A callee finds the arguments that were stored for it.
THEOREM OutgoingArgumentsAreInPlace ==
    ASSUME Hypotheses
    PROVE  Spec => []OutgoingArgumentsInPlace
<1>1. ExecutionInvariant => OutgoingArgumentsInPlace
    BY InvariantPassesArguments
<1> QED BY <1>1, ExecutionInvariantHolds, PTL

LEMMA InvariantChains ==
    ASSUME Hypotheses, ExecutionInvariant
    PROVE  FrameChain
<1>1. SUFFICES ASSUME InBody, hasFP(mf), ~mf.intr
               PROVE  /\ ReadWord(AsAddress(reg["J"])) = Entry("J")
                      /\ ReadWord(AsAddress(reg["J"]) + 1) = ReturnPC
    BY DEF FrameChain
<1>2. InTheBody /\ Shape /\ mf \in Functions /\ CallerKept(mf, mem)
    BY <1>1, InvariantInBody
<1>3. mem[EntrySP - 1] = Entry("J") /\ reg["J"] = Address(EntrySP - 1)
    BY <1>1, <1>2 DEF InTheBody, Frame, FrameLinked
<1>4. AsAddress(reg["J"]) = EntrySP - 1
    BY <1>3 DEF AsAddress, Address
<1>5. /\ EntrySP - 1 \in StackWords /\ EntrySP \in Nat /\ EntrySP \in StackWords
      /\ EntrySP <= StackTop /\ StackTop \in Nat
    BY <1>1, <1>2, SlotFacts, BodyBounds
<1>6. (EntrySP - 1) + 1 = EntrySP /\ EntrySP \in EntrySP .. StackTop
    BY <1>5
<1>7. mem[EntrySP] = ReturnPC
    BY <1>1, <1>2, <1>6, EntryWords DEF CallerKept
<1> QED BY <1>3, <1>4, <1>5, <1>6, <1>7 DEF ReadWord

\* With a frame pointer the frames are linked.
THEOREM FramesAreChained ==
    ASSUME Hypotheses
    PROVE  Spec => []FrameChain
<1>1. ExecutionInvariant => FrameChain
    BY InvariantChains
<1> QED BY <1>1, ExecutionInvariantHolds, PTL

\* Only a function whose frame is addressed from SP reads words above the
\* saved frame pointer, and no handler takes its return address.
ReadsArguments(f) ==
    /\ hasFP(f) => f.args = 0 /\ ~f.returnAddressTaken
    /\ f.intr => ~f.returnAddressTaken

LEMMA InvariantReachesArguments ==
    ASSUME Hypotheses, \A f \in Functions : ReadsArguments(f), ExecutionInvariant
    PROVE  ArgumentsReachable
<1>1. SUFFICES ASSUME InBody
               PROVE  /\ \A k \in 0 .. mf.args - 1 : ReadWord(AddressOf(<<"arg", k>>)) = Arg(k)
                      /\ mf.returnAddressTaken => ReadWord(AddressOf(ReturnAddress)) = ReturnPC
    BY DEF ArgumentsReachable
<1>2. InTheBody /\ Shape /\ mf \in Functions /\ CallerKept(mf, mem) /\ Runs
    BY <1>1, InvariantInBody
<1>3. /\ hasFP(mf) => mf.args = 0 /\ ~mf.returnAddressTaken
      /\ mf.intr => ~mf.returnAddressTaken /\ mf.args = 0
    BY <1>2, FunctionsAssumption DEF ReadsArguments, WellFormed
<1>4. /\ EntrySP \in Nat /\ StackTop \in Nat /\ mf.args \in Nat /\ EntrySP <= StackTop
      /\ FirstArg(mf) = EntrySP + (IF mf.intr THEN 2 ELSE 1)
      /\ FirstArg(mf) + mf.args <= StackTop + 1
    BY <1>2, FrameFacts, BodyBounds
<1>5. ASSUME NEW k \in 0 .. mf.args - 1 PROVE ReadWord(AddressOf(<<"arg", k>>)) = Arg(k)
    <2>1. ~hasFP(mf) /\ ~mf.intr
        BY <1>3, <1>4
    <2>2. PICK a \in Int : a = FirstArg(mf) + k
        BY <1>4, <2>1
    <2>3. a \in EntrySP .. StackTop /\ a \in StackWords /\ a = EntrySP + 1 + k
        BY <1>4, <2>1, <2>2 DEF StackWords
    <2>4. AddressOf(<<"arg", k>>) = a
        BY <1>2, <2>1, <2>3, Addresses DEF Runs
    <2>5. EntryWord(mf, a) = Arg(k)
        BY <1>2, <2>2, EntryWords
    <2> QED BY <1>2, <2>3, <2>4, <2>5 DEF ReadWord, CallerKept
<1>6. ASSUME mf.returnAddressTaken PROVE ReadWord(AddressOf(ReturnAddress)) = ReturnPC
    <2>1. ~hasFP(mf) /\ ~mf.intr
        BY <1>3, <1>6
    <2>2. AddressOf(ReturnAddress) = EntrySP
        BY <1>2, <1>6, <2>1, Addresses DEF Runs
    <2>3. EntrySP \in EntrySP .. StackTop /\ EntrySP \in StackWords
        BY <1>4 DEF StackWords
    <2>4. EntryWord(mf, EntrySP) = ReturnPC
        BY <1>2, <2>1, EntryWords
    <2> QED BY <1>2, <2>2, <2>3, <2>4 DEF ReadWord, CallerKept
<1> QED BY <1>5, <1>6

\* A frame index of an incoming argument denotes the word the caller stored.
THEOREM ArgumentsAreReachable ==
    ASSUME Hypotheses, \A f \in Functions : ReadsArguments(f)
    PROVE  Spec => []ArgumentsReachable
<1>1. ExecutionInvariant => ArgumentsReachable
    BY InvariantReachesArguments
<1> QED BY <1>1, ExecutionInvariantHolds, PTL

-----------------------------------------------------------------------------
(***************************************************************************)
(* The function keeps the calling convention.                              *)
(***************************************************************************)

LEMMA ABIStutter ==
    ASSUME mf' = mf, ~HasReturned, ~HasReturned'
    PROVE  UNCHANGED ABI!abiVars
BY DEF ABI!abiVars, HasReturned, Preserved, Pushed, EntryWord, FirstArg

LEMMA ABIFinished ==
    ASSUME UNCHANGED vars
    PROVE  UNCHANGED ABI!abiVars
<1>1. mf' = mf /\ SP' = SP /\ reg' = reg /\ mem' = mem /\ resume' = resume
    BY DEF vars, machineVars, compileVars
<1> QED BY <1>1 DEF ABI!abiVars, HasReturned, Preserved, Pushed, EntryWord, FirstArg

\* What the caller sees of the step that returns.
LEMMA ABIReturns ==
    ASSUME Hypotheses, mf \in Functions, mf' = mf, ~HasReturned,
           resume' = ReturnPC, SP' = FirstArg(mf),
           \A r \in Preserved(mf) : reg'[r] = Entry(r),
           DOMAIN mem' = StackWords, CallerKept(mf, mem')
    PROVE  ABI!Return
<1>1. HasReturned'
    BY DEF HasReturned, NotReturned, ReturnPC
<1>2. /\ EntrySP \in Nat /\ StackTop \in Nat /\ mf.args \in Nat
      /\ FirstArg(mf) = EntrySP + Pushed(mf) /\ Pushed(mf) = (IF mf.intr THEN 2 ELSE 1)
      /\ EntrySP + Pushed(mf) - 1 <= StackTop
    BY FrameFacts DEF FirstArg, Pushed
<1>3. EntryWord(mf, EntrySP + Pushed(mf) - 1) = ReturnPC
    <2>1. EntrySP + Pushed(mf) - 1 = EntrySP + (IF mf.intr THEN 1 ELSE 0)
        BY <1>2
    <2>2. CASE mf.intr
        BY <2>1, <2>2, EntryWords
    <2>3. CASE ~mf.intr
        <3>1. EntrySP + Pushed(mf) - 1 = EntrySP
            BY <1>2, <2>3
        <3> QED BY <2>3, <3>1, EntryWords
    <2> QED BY <2>2, <2>3
<1>4. EntrySP + Pushed(mf) - 1 \in StackWords
    BY <1>2 DEF StackWords
<1>5. Preserved(mf) \subseteq Registers
    BY CalleeSavedIs DEF Preserved, Registers
<1>6. \A a \in StackWords : a >= EntrySP + Pushed(mf) + mf.args => mem'[a] = EntryWord(mf, a)
    <2>1. \A a \in StackWords :
              a >= EntrySP + Pushed(mf) + mf.args => a \in EntrySP .. StackTop
        BY <1>2 DEF StackWords
    <2> QED BY <2>1 DEF CallerKept
<1>7. ABI!Called
    BY DEF ABI!Called
<1>8. ABI!ReturnWord = ReturnPC
    BY <1>3, <1>4 DEF ABI!ReturnWord
<1> QED BY <1>1, <1>2, <1>5, <1>6, <1>7, <1>8 DEF ABI!Return, ABI!CallerFrame

LEMMA ABIStep ==
    ASSUME Hypotheses, ExecutionInvariant, [Next]_vars
    PROVE  [ABI!Return]_(ABI!abiVars)
<1>1. CASE Compile
    <2>1. mf' = mf /\ resume' = resume /\ stage # "compiled"
        <3>1. ASSUME NEW s, Enter(s), s \in {"calls", "csr", "spills", "finalize", "layout",
                                             "prologue", "epilogue", "indices"}
              PROVE  stage # "compiled"
            BY <3>1 DEF Enter
        <3> QED BY <1>1, <3>1 DEF Compile, machineVars, runOnMachineFunction,
                calculateCallsInformation, calculateCalleeSavedRegisters,
                insertCSRSpillsAndRestores, processFunctionBeforeFrameFinalized,
                calculateFrameObjectOffsets, insertPrologCode, insertEpilogCode,
                replaceFrameIndices
    <2>2. resume = NotReturned
        BY <2>1 DEF ExecutionInvariant, Machine
    <2> QED BY <2>1, <2>2, ABIStutter DEF HasReturned
<1>2. CASE Processor
    <2>1. Running /\ UNCHANGED compileVars
        BY <1>2 DEF Processor, Push, Pop, Move, AdjustSP, Return, ReturnFromInterrupt,
                    Interrupt, At
    <2>2. Runs /\ mf \in Functions /\ mf' = mf /\ resume = NotReturned
        BY <2>1, RunningIs, SameFunction DEF Running, Runs, Shape
    <2>3. CASE Return \/ ReturnFromInterrupt
        <3>1. Shape' /\ CallerKept(mf, mem)' /\ BackInCaller'
            BY <2>2, <2>3, ReturnStep, ReturnFromInterruptStep
        <3>2. /\ resume' = ReturnPC /\ SP' = FirstArg(mf) /\ DOMAIN mem' = StackWords
              /\ \A r \in Preserved(mf) : reg'[r] = Entry(r)
              /\ CallerKept(mf, mem')
            BY <2>2, <3>1 DEF Shape, BackInCaller
        <3> QED BY <2>2, <3>2, ABIReturns DEF HasReturned
    <2>4. CASE ~(Return \/ ReturnFromInterrupt)
        <3>1. resume' = resume
            BY <1>2, <2>4 DEF Processor, Push, Pop, Move, AdjustSP, Interrupt
        <3> QED BY <2>2, <3>1, ABIStutter DEF HasReturned
    <2> QED BY <2>3, <2>4
<1>3. CASE Program
    <2>1. Running /\ mf' = mf /\ resume' = resume
        BY <1>3, ProgramRuns, SameFunction
    <2> QED BY <2>1, ABIStutter DEF HasReturned, Running
<1>4. CASE Finished \/ UNCHANGED vars
    BY <1>4, ABIFinished DEF Finished
<1> QED BY <1>1, <1>2, <1>3, <1>4 DEF Next

(***************************************************************************)
(* The compiled function implements the calling convention: seen from the  *)
(* caller, or from the interrupted program, the pass, the frame code, the  *)
(* body, its calls and the interrupts are one step, the one of CallABI.    *)
(***************************************************************************)
THEOREM KeepsCallingConvention ==
    ASSUME Hypotheses
    PROVE  Spec => ImplementsCallABI
<1>1. ExecInit => ABI!Called
    BY DEF ExecInit, ABI!Called, HasReturned
<1>2. ExecutionInvariant /\ [Next]_vars => [ABI!Return]_(ABI!abiVars)
    BY ABIStep
<1> QED BY <1>1, <1>2, ExecutionInvariantHolds, PTL DEF Spec, ImplementsCallABI, ABI!Spec
=============================================================================
