--------------------------- MODULE PositionsProofs ---------------------------
(***************************************************************************)
(* Proofs about Positions, for positions of any number and size: the loops *)
(* of Union and Intersect give the union and the intersection, ascending.  *)
(***************************************************************************)
EXTENDS Positions, FiniteSetTheorems, SequenceTheorems, WellFoundedInduction, TLAPS

In(x, s) == \E i \in DOMAIN s : x = s[i]
Ascending(s) == s \in Seq(Nat) /\ \A i, j \in DOMAIN s : i < j => s[i] < s[j]

-----------------------------------------------------------------------------
(***************************************************************************)
(* Sequences that ascend.                                                  *)
(***************************************************************************)
LEMMA Indices ==
    ASSUME NEW s \in Seq(Nat)
    PROVE  /\ Len(s) \in Nat /\ DOMAIN s = 1 .. Len(s)
           /\ \A i \in 1 .. Len(s) : s[i] \in Nat
  OBVIOUS

LEMMA AscendingOne ==
    ASSUME NEW n \in Nat
    PROVE  Ascending(<<n>>) /\ \A x : In(x, <<n>>) <=> x = n
<1>1. <<n>> \in Seq(Nat) /\ DOMAIN <<n>> = {1} /\ <<n>>[1] = n
  OBVIOUS
<1> QED BY <1>1 DEF Ascending, In

LEMMA InConcat ==
    ASSUME NEW s \in Seq(Nat), NEW t \in Seq(Nat)
    PROVE  \A x : In(x, s \o t) <=> In(x, s) \/ In(x, t)
<1> DEFINE u == s \o t
<1>1. /\ u \in Seq(Nat) /\ Len(u) = Len(s) + Len(t)
      /\ \A i \in 1 .. Len(u) : u[i] = IF i <= Len(s) THEN s[i] ELSE t[i - Len(s)]
  BY ConcatProperties
<1> HIDE DEF u
<1>2. /\ Len(s) \in Nat /\ Len(t) \in Nat
      /\ DOMAIN s = 1 .. Len(s) /\ DOMAIN t = 1 .. Len(t) /\ DOMAIN u = 1 .. Len(u)
  BY <1>1, Indices
<1>3. \A i \in DOMAIN s : i \in DOMAIN u /\ u[i] = s[i]
  BY <1>1, <1>2
<1>4. ASSUME NEW i \in DOMAIN t
      PROVE  i + Len(s) \in DOMAIN u /\ u[i + Len(s)] = t[i]
  <2>1. i + Len(s) \in 1 .. Len(u) /\ ~(i + Len(s) <= Len(s)) /\ (i + Len(s)) - Len(s) = i
    BY <1>1, <1>2
  <2> QED BY <1>1, <1>2, <2>1
<1>5. \A i \in DOMAIN u : \/ i \in DOMAIN s /\ u[i] = s[i]
                          \/ i - Len(s) \in DOMAIN t /\ u[i] = t[i - Len(s)]
  BY <1>1, <1>2
<1>6. ASSUME NEW x
      PROVE  In(x, u) <=> In(x, s) \/ In(x, t)
  BY <1>3, <1>4, <1>5 DEF In
<1> QED BY <1>6 DEF u

LEMMA AscendingConcat ==
    ASSUME NEW s, NEW t, Ascending(s), Ascending(t),
           \A x, y \in Nat : In(x, s) /\ In(y, t) => x < y
    PROVE  Ascending(s \o t)
<1> DEFINE u == s \o t
<1>1. /\ u \in Seq(Nat) /\ Len(u) = Len(s) + Len(t)
      /\ \A i \in 1 .. Len(u) : u[i] = IF i <= Len(s) THEN s[i] ELSE t[i - Len(s)]
  BY ConcatProperties DEF Ascending
<1> HIDE DEF u
<1>2. /\ Len(s) \in Nat /\ Len(t) \in Nat
      /\ DOMAIN s = 1 .. Len(s) /\ DOMAIN t = 1 .. Len(t) /\ DOMAIN u = 1 .. Len(u)
  BY <1>1, Indices DEF Ascending
<1>3. ASSUME NEW i \in DOMAIN u, NEW j \in DOMAIN u, i < j
      PROVE  u[i] < u[j]
  <2>1. CASE j <= Len(s)
    <3>1. i \in DOMAIN s /\ j \in DOMAIN s /\ u[i] = s[i] /\ u[j] = s[j]
      BY <1>1, <1>2, <1>3, <2>1
    <3> QED BY <1>3, <3>1 DEF Ascending
  <2>2. CASE ~(j <= Len(s))
    <3>1. j - Len(s) \in DOMAIN t /\ u[j] = t[j - Len(s)]
      BY <1>1, <1>2, <2>2
    <3>2. CASE i <= Len(s)
      <4>1. i \in DOMAIN s /\ u[i] = s[i]
        BY <1>1, <1>2, <3>2
      <4>2. In(u[i], s) /\ In(u[j], t) /\ u[i] \in Nat /\ u[j] \in Nat
        BY <1>1, <1>2, <3>1, <4>1, Indices DEF In
      <4> QED BY <4>2
    <3>3. CASE ~(i <= Len(s))
      <4>1. i - Len(s) \in DOMAIN t /\ u[i] = t[i - Len(s)]
        BY <1>1, <1>2, <3>3
      <4>2. i - Len(s) < j - Len(s)
        BY <1>2, <1>3
      <4> QED BY <3>1, <4>1, <4>2 DEF Ascending
    <3> QED BY <3>2, <3>3
  <2> QED BY <2>1, <2>2
<1> QED BY <1>1, <1>3 DEF Ascending, u

(* What is left of b behind its first k elements, and these.               *)
LEMMA Shift ==
    ASSUME NEW n \in Nat, NEW k \in 0 .. n
    PROVE  /\ (IF k + 1 <= n THEN n - (k + 1) + 1 ELSE 0) = n - k /\ n - k \in Nat
           /\ (IF 1 <= k THEN k - 1 + 1 ELSE 0) = k /\ k \in Nat /\ k <= n
           /\ \A i \in 1 .. k : i \in 1 .. k - 1 + 1 /\ 1 + i - 1 = i /\ i \in 1 .. n
           /\ \A i \in 1 .. n - k : /\ i \in 1 .. n - (k + 1) + 1 /\ (k + 1) + i - 1 = i + k
                                    /\ i + k \in k + 1 .. n
           /\ \A i \in k + 1 .. n : i - k \in 1 .. n - k /\ (i - k) + k = i /\ i \in 1 .. n
           /\ \A i \in 1 .. n : i \in 1 .. k \/ i \in k + 1 .. n
  OBVIOUS

LEMMA AscendingParts ==
    ASSUME NEW b, Ascending(b), NEW n \in Nat, n = Len(b), NEW k \in 0 .. n
    PROVE  /\ Ascending(SubSeq(b, 1, k)) /\ Ascending(Drop(b, k))
           /\ Len(Drop(b, k)) = n - k
           /\ \A i \in 1 .. n - k : Drop(b, k)[i] = b[i + k]
           /\ \A x : In(x, SubSeq(b, 1, k)) <=> \E i \in 1 .. k : x = b[i]
           /\ \A x : In(x, Drop(b, k)) <=> \E i \in k + 1 .. n : x = b[i]
<1> DEFINE s == SubSeq(b, 1, k)
           t == SubSeq(b, k + 1, n)
<1>1. b \in Seq(Nat) /\ DOMAIN b = 1 .. n /\ \A i \in 1 .. n : b[i] \in Nat
  BY Indices DEF Ascending
<1>2. s \in Seq(Nat) /\ Len(s) = k /\ \A i \in 1 .. k : s[i] = b[i]
  <2>1. \A i \in 1 .. k : b[i] \in Nat
    BY <1>1, Shift
  <2>2. 1 \in Int /\ k \in Int
    BY Shift
  <2>3. /\ s \in Seq(Nat) /\ Len(s) = IF 1 <= k THEN k - 1 + 1 ELSE 0
        /\ \A i \in 1 .. k - 1 + 1 : s[i] = b[1 + i - 1]
    BY <2>1, <2>2, SubSeqProperties
  <2> HIDE DEF s
  <2> QED BY <2>3, Shift
<1>3. t \in Seq(Nat) /\ Len(t) = n - k /\ \A i \in 1 .. n - k : t[i] = b[i + k]
  <2>1. \A i \in k + 1 .. n : b[i] \in Nat
    BY <1>1, Shift
  <2>2. k + 1 \in Int /\ n \in Int
    BY Shift
  <2>3. /\ t \in Seq(Nat) /\ Len(t) = IF k + 1 <= n THEN n - (k + 1) + 1 ELSE 0
        /\ \A i \in 1 .. n - (k + 1) + 1 : t[i] = b[(k + 1) + i - 1]
    BY <2>1, <2>2, SubSeqProperties
  <2> HIDE DEF t
  <2> QED BY <2>3, Shift
<1> HIDE DEF s, t
<1>4. DOMAIN s = 1 .. k /\ DOMAIN t = 1 .. n - k
  BY <1>2, <1>3, Indices
<1>5. Ascending(s)
  <2>1. \A i, j \in 1 .. k : i < j => b[i] < b[j]
    BY <1>1, Shift DEF Ascending
  <2> QED BY <1>2, <1>4, <2>1 DEF Ascending
<1>6. Ascending(t)
  <2>1. \A i, j \in 1 .. n - k : i < j => i + k < j + k
    BY Shift
  <2>2. \A i, j \in 1 .. n - k : i < j => b[i + k] < b[j + k]
    <3>1. \A i \in 1 .. n - k : i + k \in DOMAIN b
      BY <1>1, Shift
    <3> QED BY <2>1, <3>1 DEF Ascending
  <2> QED BY <1>3, <1>4, <2>2 DEF Ascending
<1>7. \A x : In(x, s) <=> \E i \in 1 .. k : x = b[i]
  BY <1>2, <1>4 DEF In
<1>8. ASSUME NEW x
      PROVE  In(x, t) <=> \E i \in k + 1 .. n : x = b[i]
  <2>1. \A i \in 1 .. n - k : i + k \in k + 1 .. n /\ t[i] = b[i + k]
    BY <1>3, Shift
  <2>2. \A i \in k + 1 .. n : i - k \in 1 .. n - k /\ t[i - k] = b[i]
    BY <1>3, Shift
  <2> QED BY <1>4, <2>1, <2>2 DEF In
<1> QED BY <1>3, <1>5, <1>6, <1>7, <1>8 DEF s, t, Drop

LEMMA EmptyOrNot ==
    ASSUME NEW s \in Seq(Nat)
    PROVE  /\ s = <<>> <=> Len(s) = 0
           /\ \A x : ~In(x, <<>>)
           /\ Ascending(<<>>)
<1>1. s = <<>> <=> Len(s) = 0
  BY EmptySeq
<1>2. DOMAIN <<>> = {} /\ <<>> \in Seq(Nat)
  BY EmptySeq
<1> QED BY <1>1, <1>2 DEF In, Ascending

-----------------------------------------------------------------------------
(***************************************************************************)
(* The inner loop splits b at pos.                                         *)
(***************************************************************************)
LEMMA Least ==
    ASSUME NEW S \in SUBSET Nat, S # {}
    PROVE  Min(S) \in S /\ \A n \in S : Min(S) <= n
<1> DEFINE R == OpToRel(<, Nat)
<1>1. IsWellFoundedOn(R, Nat)
  BY NatLessThanWellFounded
<1>2. \A m, n \in Nat : n < m => <<n, m>> \in R
  BY DEF OpToRel
<1> HIDE DEF R
<1>3. PICK m \in S : \A n \in S : ~(<<n, m>> \in R)
  BY <1>1, WFMin
<1>4. \A n \in S : n \in Nat /\ m \in Nat /\ ~(n < m)
  BY <1>2, <1>3
<1>5. \A n \in S : m =< n
  BY <1>4
<1> QED BY <1>5 DEF Min

LEMMA BelowIs ==
    ASSUME NEW b, Ascending(b), NEW pos \in Nat, NEW n \in Nat, n = Len(b)
    PROVE  /\ Below(b, pos) \in 0 .. n
           /\ \A i \in 1 .. Below(b, pos) : b[i] < pos
           /\ \A i \in Below(b, pos) + 1 .. n : b[i] >= pos
<1> DEFINE K == {k \in 0 .. n : k = n \/ b[k + 1] >= pos}
<1>1. DOMAIN b = 1 .. n /\ \A i \in 1 .. n : b[i] \in Nat
  BY Indices DEF Ascending
<1>2. K \in SUBSET Nat /\ n \in K
  OBVIOUS
<1>3. PICK k \in K : k = Below(b, pos) /\ \A j \in K : k <= j
  <2>1. Below(b, pos) = Min(K)
    BY DEF Below
  <2> HIDE DEF K
  <2> QED BY <1>2, <2>1, Least
<1>4. k \in 0 .. n /\ (k = n \/ b[k + 1] >= pos)
  BY <1>3
<1>5. \A j \in 0 .. n : j < k => ~(b[j + 1] >= pos)
  <2>1. \A j \in 0 .. n : j < k => ~(k <= j)
    BY <1>4
  <2> QED BY <1>3, <2>1
<1> HIDE DEF K
<1>6. ASSUME NEW i \in 1 .. k
      PROVE  b[i] < pos
  <2>1. i - 1 \in 0 .. n /\ i - 1 < k /\ (i - 1) + 1 = i /\ i \in 1 .. n
    BY <1>4
  <2>2. b[i] \in Nat /\ ~(b[i] >= pos)
    BY <1>1, <1>5, <2>1
  <2> QED BY <2>2
<1>7. ASSUME NEW i \in k + 1 .. n
      PROVE  b[i] >= pos
  <2>1. k + 1 \in 1 .. n /\ i \in 1 .. n /\ k # n /\ (i = k + 1 \/ k + 1 < i)
    BY <1>4
  <2>2. b[k + 1] >= pos /\ b[k + 1] \in Nat /\ b[i] \in Nat
    BY <1>1, <1>4, <2>1
  <2>3. k + 1 < i => b[k + 1] < b[i]
    BY <1>1, <2>1 DEF Ascending
  <2> QED BY <2>1, <2>2, <2>3
<1> QED BY <1>3, <1>4, <1>6, <1>7

LEMMA Split ==
    ASSUME NEW b, Ascending(b), NEW pos \in Nat
    PROVE  LET lo == SubSeq(b, 1, Below(b, pos))
               rest == Drop(b, Below(b, pos))
               hi == DropEqual(rest, pos)
           IN  /\ Ascending(lo) /\ Ascending(hi)
               /\ \A x \in Nat : In(x, lo) <=> In(x, b) /\ x < pos
               /\ \A x \in Nat : In(x, hi) <=> In(x, b) /\ x > pos
               /\ hi # rest <=> In(pos, b)
<1> DEFINE lo == SubSeq(b, 1, Below(b, pos))
           rest == Drop(b, Below(b, pos))
           hi == DropEqual(rest, pos)
<1>1. PICK n \in Nat : n = Len(b) /\ DOMAIN b = 1 .. n /\ \A i \in 1 .. n : b[i] \in Nat
  BY Indices DEF Ascending
<1>2. PICK k \in 0 .. n :
         /\ k = Below(b, pos)
         /\ \A i \in 1 .. k : b[i] < pos
         /\ \A i \in k + 1 .. n : b[i] >= pos
  BY <1>1, BelowIs
<1>3. /\ Ascending(lo) /\ Ascending(rest)
      /\ \A x : In(x, lo) <=> \E i \in 1 .. k : x = b[i]
      /\ \A x : In(x, rest) <=> \E i \in k + 1 .. n : x = b[i]
  <2>1. lo = SubSeq(b, 1, k) /\ rest = Drop(b, k)
    BY <1>2
  <2> HIDE DEF lo, rest
  <2>2. /\ Ascending(SubSeq(b, 1, k)) /\ Ascending(Drop(b, k))
        /\ \A x : In(x, SubSeq(b, 1, k)) <=> \E i \in 1 .. k : x = b[i]
        /\ \A x : In(x, Drop(b, k)) <=> \E i \in k + 1 .. n : x = b[i]
    BY <1>1, AscendingParts
  <2> QED BY <2>1, <2>2
<1> HIDE DEF lo, rest
<1>4. /\ \A i \in 1 .. n : i \in 1 .. k \/ i \in k + 1 .. n
      /\ \A i \in 1 .. k : i \in 1 .. n /\ b[i] \in Nat
      /\ \A i \in k + 1 .. n : i \in 1 .. n /\ b[i] \in Nat
  BY <1>1, Shift
<1> DEFINE BelowPos(i) == b[i] < pos
           Reaches(i) == b[i] >= pos
<1>5. /\ \A i \in 1 .. k : BelowPos(i) /\ ~Reaches(i)
      /\ \A i \in k + 1 .. n : Reaches(i) /\ ~BelowPos(i)
  BY <1>2, <1>4
<1>6. ASSUME NEW x \in Nat
      PROVE  /\ In(x, lo) <=> In(x, b) /\ x < pos
             /\ In(x, rest) <=> In(x, b) /\ x >= pos
  <2>1. In(x, b) <=> \E i \in 1 .. n : x = b[i]
    BY <1>1 DEF In
  <2>2. \A i : x = b[i] => (x < pos <=> BelowPos(i)) /\ (x >= pos <=> Reaches(i))
    OBVIOUS
  <2> HIDE DEF BelowPos, Reaches
  <2> QED BY <1>3, <1>4, <1>5, <2>1, <2>2
<1> HIDE DEF BelowPos, Reaches
<1>7. PICK m \in Nat : /\ m = Len(rest) /\ rest \in Seq(Nat) /\ DOMAIN rest = 1 .. m
                       /\ \A i \in 1 .. m : rest[i] \in Nat
  BY <1>3, Indices DEF Ascending
<1>8. CASE rest # <<>> /\ rest[1] = pos
  <2>1. 1 \in 0 .. m /\ 1 \in 1 .. m
    <3>1. m # 0
      BY <1>7, <1>8, EmptySeq
    <3> QED BY <3>1
  <2>2. hi = Tail(rest) /\ Tail(rest) = SubSeq(rest, 2, Len(rest))
    BY <1>7, <1>8, TailIsSubSeq DEF DropEqual
  <2>3. hi = Drop(rest, 1)
    BY <2>2 DEF Drop
  <2>4. /\ Ascending(hi) /\ Len(hi) = m - 1
        /\ \A x : In(x, hi) <=> \E i \in 1 + 1 .. m : x = rest[i]
    <3>1. /\ Ascending(Drop(rest, 1)) /\ Len(Drop(rest, 1)) = m - 1
          /\ \A x : In(x, Drop(rest, 1)) <=> \E i \in 1 + 1 .. m : x = rest[i]
      <4>1. PICK j \in 0 .. m : j = 1
        BY <2>1
      <4>2. /\ Ascending(Drop(rest, j)) /\ Len(Drop(rest, j)) = m - j
            /\ \A x : In(x, Drop(rest, j)) <=> \E i \in j + 1 .. m : x = rest[i]
        <5>1. Ascending(rest) /\ m = Len(rest)
          BY <1>3, <1>7
        <5> QED BY <5>1, AscendingParts
      <4> QED BY <4>1, <4>2
    <3> HIDE DEF hi
    <3> QED BY <2>3, <3>1
  <2>5. In(pos, rest)
    BY <1>7, <1>8, <2>1 DEF In
  <2>6. hi # rest
    BY <1>7, <2>4
  <2>7. ASSUME NEW x \in Nat
        PROVE  In(x, hi) <=> In(x, rest) /\ x # pos
    <3>1. \A i \in 1 + 1 .. m : i \in 1 .. m /\ 1 < i
      OBVIOUS
    <3>2. ASSUME NEW i \in 1 + 1 .. m
          PROVE  rest[i] # pos
      <4>1. rest[1] < rest[i] /\ rest[i] \in Nat
        BY <1>3, <1>7, <2>1, <3>1 DEF Ascending
      <4> QED BY <1>8, <4>1
    <3>3. \A i \in 1 .. m : i = 1 \/ i \in 1 + 1 .. m
      OBVIOUS
    <3>4. In(x, rest) <=> \E i \in 1 .. m : x = rest[i]
      BY <1>7 DEF In
    <3> HIDE DEF hi
    <3> QED BY <1>8, <2>4, <3>1, <3>2, <3>3, <3>4
  <2>8. \A x \in Nat : x >= pos /\ x # pos <=> x > pos
    OBVIOUS
  <2>9. In(pos, b)
    BY <1>6, <2>5
  <2> HIDE DEF hi
  <2>10. \A x \in Nat : In(x, hi) <=> In(x, b) /\ x > pos
    BY <1>6, <2>7, <2>8
  <2> QED BY <1>3, <1>6, <2>4, <2>6, <2>9, <2>10 DEF lo, rest, hi
<1>9. CASE ~(rest # <<>> /\ rest[1] = pos)
  <2>1. hi = rest
    BY <1>9 DEF DropEqual
  <2>2. ~In(pos, rest)
    <3>1. SUFFICES ASSUME NEW i \in DOMAIN rest, rest[i] = pos
                   PROVE  FALSE
      BY DEF In
    <3>2. i \in 1 .. m /\ 1 \in 1 .. m /\ (i = 1 \/ 1 < i)
      BY <1>7
    <3>3. rest # <<>> /\ rest[1] # pos
      BY <1>7, <1>9, <3>2, EmptySeq
    <3>4. rest[1] \in Nat /\ In(rest[1], rest)
      BY <1>7, <3>2 DEF In
    <3>5. rest[1] >= pos
      BY <1>6, <3>4
    <3>6. 1 < i => rest[1] < rest[i]
      BY <1>3, <1>7, <3>2 DEF Ascending
    <3> QED BY <3>1, <3>2, <3>3, <3>4, <3>5, <3>6
  <2>3. ~In(pos, b)
    <3>1. pos >= pos
      OBVIOUS
    <3> QED BY <1>6, <2>2, <3>1
  <2>4. \A x \in Nat : In(x, rest) <=> In(x, b) /\ x > pos
    <3>1. \A x \in Nat : x > pos <=> x >= pos /\ x # pos
      OBVIOUS
    <3> QED BY <1>6, <2>3, <3>1
  <2> HIDE DEF hi
  <2> QED BY <1>3, <1>6, <2>1, <2>3, <2>4 DEF lo, rest, hi
<1> QED BY <1>8, <1>9

-----------------------------------------------------------------------------
(***************************************************************************)
(* The loop over a.  FoldLeft goes through the sets of its indices, of     *)
(* which SmallestSet gives one for an induction.                           *)
(***************************************************************************)
Step(union, s, pos) == IF union THEN UnionStep(s, pos) ELSE IntersectStep(s, pos)

Round(union, a, b, h, S) ==
    IF S = {} THEN Unstarted(b) ELSE Step(union, h[S \ {Max(S)}], a[Max(S)])

IsLoop(h, union, a, b, T) == h = [S \in SUBSET T |-> Round(union, a, b, h, S)]

HasLoop(union, a, b, T) == \E h : IsLoop(h, union, a, b, T)

IsFamily(D, N) == IsFiniteSet(N) /\ D # {} /\ D \in SUBSET (SUBSET N)

LEMMA SmallestSet ==
    ASSUME NEW N, NEW D, IsFamily(D, N)
    PROVE  \E s \in D : \A u \in D : u \subseteq s => u = s
<1> DEFINE R == StrictSubsetOrdering(N)
<1> USE DEF IsFamily
<1>1. IsWellFoundedOn(R, FiniteSubsetsOf(N)) /\ FiniteSubsetsOf(N) = SUBSET N
  BY FS_StrictSubsetOrderingWellFounded, FS_FiniteSubsetsOfFinite
<1>2. \E s \in D : \A u \in D : <<u, s>> \notin R
  <2> HIDE DEF R
  <2> QED BY <1>1, WFMin
<1> QED BY <1>2 DEF StrictSubsetOrdering

(* A finite set of numbers, and a part of a set.                           *)
Finite(S) == S \in SUBSET Nat /\ IsFiniteSet(S)
Within(T, S) == T \in SUBSET S

LEMMA FiniteWithin ==
    ASSUME NEW S, NEW T, Finite(S), Within(T, S)
    PROVE  Finite(T)
BY FS_Subset DEF Finite, Within

LEMMA MaxIs ==
    ASSUME NEW S, Finite(S), S # {}
    PROVE  Max(S) \in S /\ \A i \in S : Max(S) >= i
<1> DEFINE From(i) == {j \in S : j >= i}
           D == {From(i) : i \in S}
<1> USE DEF Finite
<1>1. IsFamily(D, S)
  BY DEF IsFamily
<1>2. PICK s \in D : \A u \in D : u \subseteq s => u = s
  <2> HIDE DEF D
  <2> QED BY <1>1, SmallestSet
<1>3. PICK m \in S : s = From(m)
  OBVIOUS
<1>4. ASSUME NEW i \in S
      PROVE  m >= i
  <2>1. SUFFICES ASSUME i > m PROVE FALSE
    OBVIOUS
  <2>2. From(i) \subseteq From(m) /\ m \in From(m) /\ m \notin From(i)
    <3>1. \A j \in S : j >= i => j >= m
      BY <2>1
    <3>2. m >= m /\ ~(m >= i)
      BY <2>1
    <3> QED BY <3>1, <3>2
  <2>3. From(i) \in D
    OBVIOUS
  <2> QED BY <1>2, <1>3, <2>2, <2>3
<1> QED BY <1>4 DEF Max

LEMMA LoopsAgree ==
    ASSUME NEW union, NEW a, NEW b, NEW S, NEW T, Finite(S), Within(T, S), NEW g, NEW h,
           IsLoop(g, union, a, b, S), IsLoop(h, union, a, b, T)
    PROVE  g[T] = h[T]
<1> DEFINE D == {s \in SUBSET T : g[s] # h[s]}
<1>1. SUFFICES ASSUME D # {}
               PROVE  FALSE
  BY DEF Within
<1>2. IsFamily(D, S)
  BY <1>1 DEF IsFamily, Finite, Within
<1>3. PICK s \in D : \A u \in D : u \subseteq s => u = s
  <2> HIDE DEF D
  <2> QED BY <1>2, SmallestSet
<1>4. s \in SUBSET T /\ s \in SUBSET S /\ g[s] # h[s] /\ Within(s, S)
  BY DEF Within
<1>5. g[s] = Round(union, a, b, g, s)
  BY <1>4 DEF IsLoop
<1>6. h[s] = Round(union, a, b, h, s)
  BY <1>4 DEF IsLoop
<1>7. s # {} => Max(s) \in s
  BY <1>4, FiniteWithin, MaxIs
<1>8. s # {} => g[s \ {Max(s)}] = h[s \ {Max(s)}]
  BY <1>3, <1>4, <1>7
<1> QED BY <1>4, <1>5, <1>6, <1>8 DEF Round

Loop(union, a, b, T) == (CHOOSE h : IsLoop(h, union, a, b, T))[T]

LEMMA LoopNext ==
    ASSUME NEW union, NEW a, NEW b, NEW S, Finite(S), S # {}, NEW T, T = S \ {Max(S)},
           NEW g, IsLoop(g, union, a, b, S), HasLoop(union, a, b, T)
    PROVE  g[S] = Step(union, Loop(union, a, b, T), a[Max(S)])
<1>1. PICK h : h = CHOOSE k : IsLoop(k, union, a, b, T)
  OBVIOUS
<1>2. IsLoop(h, union, a, b, T) /\ Loop(union, a, b, T) = h[T]
  BY <1>1 DEF Loop, HasLoop
<1>3. g[S] = Step(union, g[T], a[Max(S)])
  BY DEF IsLoop, Round
<1>4. Within(T, S)
  BY DEF Within
<1>5. g[T] = h[T]
  BY <1>2, <1>4, LoopsAgree
<1> QED BY <1>2, <1>3, <1>5

LEMMA LoopExists ==
    ASSUME NEW union, NEW a, NEW b, NEW S, Finite(S)
    PROVE  HasLoop(union, a, b, S)
<1> DEFINE D == {s \in SUBSET S : ~HasLoop(union, a, b, s)}
<1>1. SUFFICES ASSUME D # {}
               PROVE  FALSE
  OBVIOUS
<1>2. IsFamily(D, S)
  BY <1>1 DEF IsFamily, Finite
<1>3. PICK M \in D : \A u \in D : u \subseteq M => u = M
  <2> HIDE DEF D
  <2> QED BY <1>2, SmallestSet
<1>4. M \in SUBSET S /\ ~HasLoop(union, a, b, M)
  OBVIOUS
<1>5. ASSUME NEW u \in SUBSET M, u # M
      PROVE  Finite(u) /\ HasLoop(union, a, b, u)
  <2>1. u \in SUBSET S /\ u \notin D
    BY <1>3, <1>4, <1>5
  <2>2. Within(u, S)
    BY <2>1 DEF Within
  <2> QED BY <2>1, <2>2, FiniteWithin
<1> HIDE DEF D
<1> DEFINE F(s) == IF s = {} THEN Unstarted(b)
                   ELSE Step(union, Loop(union, a, b, s \ {Max(s)}), a[Max(s)])
           g == [s \in SUBSET M |-> F(s)]
<1>6. ASSUME NEW u \in SUBSET M, u # M
      PROVE  g[u] = Loop(union, a, b, u)
  <2>1. g[u] = F(u)
    <3> HIDE DEF F
    <3> QED OBVIOUS
  <2>2. PICK h : h = CHOOSE k : IsLoop(k, union, a, b, u)
    OBVIOUS
  <2>3. Finite(u) /\ IsLoop(h, union, a, b, u) /\ Loop(union, a, b, u) = h[u]
    BY <1>5, <1>6, <2>2 DEF Loop, HasLoop
  <2>4. CASE u = {}
    <3>1. h[u] = Unstarted(b)
      BY <2>3, <2>4 DEF IsLoop, Round
    <3> QED BY <2>1, <2>3, <2>4, <3>1
  <2>5. CASE u # {}
    <3>1. Max(u) \in u
      BY <2>3, <2>5, MaxIs
    <3>2. u \ {Max(u)} \in SUBSET M /\ u \ {Max(u)} # M
      BY <3>1
    <3>3. HasLoop(union, a, b, u \ {Max(u)})
      BY <1>5, <3>2
    <3>4. h[u] = Step(union, Loop(union, a, b, u \ {Max(u)}), a[Max(u)])
      <4> DEFINE T == u \ {Max(u)}
      <4>1. T = u \ {Max(u)} /\ HasLoop(union, a, b, T)
        BY <3>3
      <4> HIDE DEF F, g, T
      <4>2. h[u] = Step(union, Loop(union, a, b, T), a[Max(u)])
        BY <2>3, <2>5, <4>1, LoopNext
      <4> QED BY <4>1, <4>2
    <3> QED BY <2>1, <2>3, <2>5, <3>4
  <2> QED BY <2>4, <2>5
<1>7. ASSUME NEW s \in SUBSET M
      PROVE  F(s) = Round(union, a, b, g, s)
  <2>1. CASE s # {}
    <3>1. Max(s) \in s
      <4>1. Within(s, S)
        BY <1>4 DEF Within
      <4> QED BY <2>1, <4>1, FiniteWithin, MaxIs
    <3>2. s \ {Max(s)} \in SUBSET M /\ s \ {Max(s)} # M
      BY <3>1
    <3>3. g[s \ {Max(s)}] = Loop(union, a, b, s \ {Max(s)})
      <4> HIDE DEF g
      <4> QED BY <1>6, <3>2
    <3> HIDE DEF g
    <3> QED BY <2>1, <3>3 DEF Round
  <2> HIDE DEF g
  <2> QED BY <2>1 DEF Round
<1>8. IsLoop(g, union, a, b, M)
  <2>1. g = [s \in SUBSET M |-> F(s)]
    OBVIOUS
  <2> HIDE DEF g
  <2> QED BY <1>7, <2>1 DEF IsLoop
<1> QED BY <1>4, <1>8 DEF HasLoop

(* What the loop has after the first i elements of a.                      *)
LEMMA LoopRounds ==
    ASSUME NEW union, NEW a, NEW b
    PROVE  /\ Loop(union, a, b, {}) = Unstarted(b)
           /\ \A i \in Nat : Loop(union, a, b, 1 .. i + 1)
                             = Step(union, Loop(union, a, b, 1 .. i), a[i + 1])
<1>1. Loop(union, a, b, {}) = Unstarted(b)
  <2>1. PICK h : h = CHOOSE k : IsLoop(k, union, a, b, {})
    OBVIOUS
  <2>2. {} \in SUBSET {} /\ Finite({})
    BY FS_EmptySet DEF Finite
  <2>3. IsLoop(h, union, a, b, {}) /\ Loop(union, a, b, {}) = h[{}]
    BY <2>1, <2>2, LoopExists DEF Loop, HasLoop
  <2> QED BY <2>2, <2>3 DEF IsLoop, Round
<1>2. ASSUME NEW i \in Nat
      PROVE  Loop(union, a, b, 1 .. i + 1) = Step(union, Loop(union, a, b, 1 .. i), a[i + 1])
  <2> DEFINE S == 1 .. i + 1
  <2>1. Finite(S) /\ S # {} /\ i + 1 \in S
    <3>1. 1 \in Int /\ i + 1 \in Int
      OBVIOUS
    <3>2. IsFiniteSet(S)
      BY <3>1, FS_Interval
    <3>3. \A j \in S : j \in Nat
      OBVIOUS
    <3> QED BY <3>2, <3>3 DEF Finite
  <2>2. Max(S) = i + 1
    <3>1. Max(S) \in S /\ Max(S) >= i + 1
      <4> HIDE DEF S
      <4> QED BY <2>1, MaxIs
    <3> QED BY <3>1
  <2>3. S \ {i + 1} = 1 .. i
    OBVIOUS
  <2>4. PICK g : g = CHOOSE k : IsLoop(k, union, a, b, S)
    OBVIOUS
  <2> HIDE DEF S
  <2>5. IsLoop(g, union, a, b, S) /\ Loop(union, a, b, S) = g[S]
    BY <2>1, <2>4, LoopExists DEF Loop, HasLoop
  <2> DEFINE T == S \ {Max(S)}
  <2>6. T = S \ {Max(S)} /\ HasLoop(union, a, b, T)
    <3>1. Within(T, S)
      BY DEF Within
    <3> QED BY <2>1, <3>1, FiniteWithin, LoopExists
  <2> HIDE DEF T
  <2>7. g[S] = Step(union, Loop(union, a, b, T), a[Max(S)])
    BY <2>1, <2>5, <2>6, LoopNext
  <2> QED BY <2>2, <2>3, <2>5, <2>6, <2>7 DEF S
<1> QED BY <1>1, <1>2

LEMMA FoldsAreLoops ==
    ASSUME NEW a, NEW b
    PROVE  /\ FoldLeft(UnionStep, Unstarted(b), a) = Loop(TRUE, a, b, DOMAIN a)
           /\ FoldLeft(IntersectStep, Unstarted(b), a) = Loop(FALSE, a, b, DOMAIN a)
<1>1. FoldLeft(UnionStep, Unstarted(b), a) = Loop(TRUE, a, b, DOMAIN a)
  BY DEF FoldLeft, MapThenFoldSet, Loop, IsLoop, Round, Step
<1>2. FoldLeft(IntersectStep, Unstarted(b), a) = Loop(FALSE, a, b, DOMAIN a)
  BY DEF FoldLeft, MapThenFoldSet, Loop, IsLoop, Round, Step
<1> QED BY <1>1, <1>2

-----------------------------------------------------------------------------
(***************************************************************************)
(* What the loop has done when it has taken the elements of a up to m: out *)
(* is the result up to m, and of b what is above m is left.                *)
(***************************************************************************)
Wanted(union, a, b, x) == IF union THEN In(x, a) \/ In(x, b) ELSE In(x, a) /\ In(x, b)

Done(union, a, b, s, m) ==
    /\ Ascending(s.out) /\ Ascending(s.b)
    /\ \A x \in Nat : In(x, s.b) <=> In(x, b) /\ x > m
    /\ \A x \in Nat : In(x, s.out) <=> Wanted(union, a, b, x) /\ x <= m

LEMMA AscendingIn ==
    ASSUME NEW s, Ascending(s)
    PROVE  s \in Seq(Nat) /\ \A x : In(x, s) => x \in Nat
BY Indices DEF Ascending, In

(* A round with pos, the next element of a after m: nothing of a is between*)
(* m and pos, so what is there of b is all that is wanted there.           *)
LEMMA UnionRound ==
    ASSUME NEW a, NEW b, Ascending(a), NEW m \in Int, NEW s, Done(TRUE, a, b, s, m),
           NEW pos \in Nat, m < pos, In(pos, a), \A x \in Nat : In(x, a) /\ m < x => pos <= x
    PROVE  Done(TRUE, a, b, UnionStep(s, pos), pos)
<1> DEFINE lo == SubSeq(s.b, 1, Below(s.b, pos))
           hi == DropEqual(Drop(s.b, Below(s.b, pos)), pos)
           out == s.out \o lo \o <<pos>>
<1>1. UnionStep(s, pos).out = out /\ UnionStep(s, pos).b = hi
  BY DEF UnionStep
<1>2. /\ Ascending(lo) /\ Ascending(hi)
      /\ \A x \in Nat : In(x, lo) <=> In(x, s.b) /\ x < pos
      /\ \A x \in Nat : In(x, hi) <=> In(x, s.b) /\ x > pos
  BY Split DEF Done
<1> HIDE DEF lo, hi
<1>3. /\ Ascending(s.out)
      /\ \A x \in Nat : In(x, s.b) <=> In(x, b) /\ x > m
      /\ \A x \in Nat : In(x, s.out) <=> (In(x, a) \/ In(x, b)) /\ x <= m
  BY DEF Done, Wanted
<1>4. Ascending(<<pos>>) /\ \A x : In(x, <<pos>>) <=> x = pos
  BY AscendingOne
<1>5. /\ s.out \in Seq(Nat) /\ lo \in Seq(Nat) /\ <<pos>> \in Seq(Nat)
  BY <1>2, <1>3, <1>4, AscendingIn
<1>6. Ascending(s.out \o lo) /\ s.out \o lo \in Seq(Nat)
  <2>1. \A x, y \in Nat : In(x, s.out) /\ In(y, lo) => x < y
    BY <1>2, <1>3
  <2>2. Ascending(s.out \o lo)
    BY <1>2, <1>3, <2>1, AscendingConcat
  <2> QED BY <2>2, AscendingIn
<1>7. \A x : In(x, s.out \o lo) <=> In(x, s.out) \/ In(x, lo)
  BY <1>5, InConcat
<1>8. Ascending(out)
  <2>1. \A x, y \in Nat : In(x, s.out \o lo) /\ In(y, <<pos>>) => x < y
    BY <1>2, <1>3, <1>4, <1>7
  <2> QED BY <1>4, <1>6, <2>1, AscendingConcat
<1>9. \A x : In(x, out) <=> In(x, s.out) \/ In(x, lo) \/ x = pos
  <2>1. \A x : In(x, out) <=> In(x, s.out \o lo) \/ In(x, <<pos>>)
    BY <1>5, <1>6, InConcat
  <2> QED BY <1>4, <1>7, <2>1
<1> HIDE DEF out
<1>10. \A x \in Nat : In(x, hi) <=> In(x, b) /\ x > pos
  BY <1>2, <1>3
<1>11. ASSUME NEW x \in Nat
       PROVE  In(x, out) <=> (In(x, a) \/ In(x, b)) /\ x <= pos
  <2>1. CASE x <= m
    BY <1>2, <1>3, <1>9, <2>1
  <2>2. CASE m < x /\ x < pos
    BY <1>2, <1>3, <1>9, <2>2
  <2>3. CASE x = pos
    BY <1>9, <2>3
  <2>4. CASE x > pos
    BY <1>2, <1>3, <1>9, <2>4
  <2> QED BY <2>1, <2>2, <2>3, <2>4
<1> QED BY <1>1, <1>2, <1>8, <1>10, <1>11 DEF Done, Wanted

LEMMA IntersectRound ==
    ASSUME NEW a, NEW b, Ascending(a), NEW m \in Int, NEW s, Done(FALSE, a, b, s, m),
           NEW pos \in Nat, m < pos, In(pos, a), \A x \in Nat : In(x, a) /\ m < x => pos <= x
    PROVE  Done(FALSE, a, b, IntersectStep(s, pos), pos)
<1> DEFINE rest == Drop(s.b, Below(s.b, pos))
           hi == DropEqual(rest, pos)
           out == IF hi # rest THEN s.out \o <<pos>> ELSE s.out
<1>1. IntersectStep(s, pos).out = out /\ IntersectStep(s, pos).b = hi
  <2>1. Append(s.out, pos) = s.out \o <<pos>>
    BY AppendIsConcat, AscendingIn DEF Done
  <2> QED BY <2>1 DEF IntersectStep
<1>2. /\ Ascending(hi)
      /\ \A x \in Nat : In(x, hi) <=> In(x, s.b) /\ x > pos
      /\ hi # rest <=> In(pos, s.b)
  BY Split DEF Done
<1> HIDE DEF hi, rest
<1>3. /\ Ascending(s.out)
      /\ \A x \in Nat : In(x, s.b) <=> In(x, b) /\ x > m
      /\ \A x \in Nat : In(x, s.out) <=> (In(x, a) /\ In(x, b)) /\ x <= m
  BY DEF Done, Wanted
<1>4. Ascending(<<pos>>) /\ \A x : In(x, <<pos>>) <=> x = pos
  BY AscendingOne
<1>5. Ascending(s.out \o <<pos>>) /\ \A x : In(x, s.out \o <<pos>>) <=> In(x, s.out) \/ x = pos
  <2>1. \A x, y \in Nat : In(x, s.out) /\ In(y, <<pos>>) => x < y
    BY <1>3, <1>4
  <2>2. Ascending(s.out \o <<pos>>)
    BY <1>3, <1>4, <2>1, AscendingConcat
  <2>3. \A x : In(x, s.out \o <<pos>>) <=> In(x, s.out) \/ In(x, <<pos>>)
    BY <1>3, <1>4, AscendingIn, InConcat
  <2> QED BY <1>4, <2>2, <2>3
<1>6. Ascending(out)
  BY <1>3, <1>5
<1>7. \A x \in Nat : In(x, out) <=> In(x, s.out) \/ (x = pos /\ In(pos, b))
  <2>1. hi # rest <=> In(pos, b)
    BY <1>2, <1>3
  <2> QED BY <1>5, <2>1
<1> HIDE DEF out
<1>8. \A x \in Nat : In(x, hi) <=> In(x, b) /\ x > pos
  BY <1>2, <1>3
<1>9. ASSUME NEW x \in Nat
      PROVE  In(x, out) <=> (In(x, a) /\ In(x, b)) /\ x <= pos
  <2>1. CASE x <= m
    BY <1>3, <1>7, <2>1
  <2>2. CASE m < x /\ x < pos
    BY <1>3, <1>7, <2>2
  <2>3. CASE x = pos
    BY <1>3, <1>7, <2>3
  <2>4. CASE x > pos
    BY <1>3, <1>7, <2>4
  <2> QED BY <2>1, <2>2, <2>3, <2>4
<1> QED BY <1>1, <1>2, <1>6, <1>8, <1>9 DEF Done, Wanted

(* By a smallest counterexample among the lengths of what was taken of a.  *)
LEMMA LoopIsDone ==
    ASSUME NEW union \in BOOLEAN, NEW a, NEW b, Ascending(a), Ascending(b)
    PROVE  \A i \in 1 .. Len(a) : Done(union, a, b, Loop(union, a, b, 1 .. i), a[i])
<1> DEFINE n == Len(a)
           Taken(i) == IF i = 0 THEN -1 ELSE a[i]
           Good(i) == Done(union, a, b, Loop(union, a, b, 1 .. i), Taken(i))
           Bad == {i \in 0 .. n : ~Good(i)}
<1>1. /\ n \in Nat /\ DOMAIN a = 1 .. n /\ \A i \in 1 .. n : a[i] \in Nat
      /\ \A i, j \in 1 .. n : i < j => a[i] < a[j]
  BY Indices DEF Ascending
<1>2. Good(0)
  <2>1. Loop(union, a, b, 1 .. 0) = Unstarted(b)
    <3>1. 1 .. 0 = {}
      OBVIOUS
    <3> QED BY <3>1, LoopRounds
  <2>2. Ascending(<<>>) /\ \A x : ~In(x, <<>>)
    BY DEF Ascending, In
  <2>3. \A x \in Nat : x > -1 /\ ~(x <= -1)
    OBVIOUS
  <2>4. Taken(0) = -1
    OBVIOUS
  <2> HIDE DEF Taken
  <2> QED BY <2>1, <2>2, <2>3, <2>4 DEF Done, Unstarted
<1>3. ASSUME NEW i \in 0 .. n - 1, Good(i)
      PROVE  Good(i + 1)
  <2> DEFINE s == Loop(union, a, b, 1 .. i)
             m == Taken(i)
             pos == a[i + 1]
  <2>1. i \in Nat /\ i + 1 \in 1 .. n /\ i + 1 # 0 /\ (i # 0 => i \in 1 .. n)
    BY <1>1
  <2>2. pos \in Nat /\ m \in Int /\ m < pos /\ In(pos, a)
    <3>1. pos \in Nat /\ In(pos, a)
      BY <1>1, <2>1 DEF In
    <3>2. CASE i = 0
      BY <3>1, <3>2
    <3>3. CASE i # 0
      <4>1. m = a[i] /\ i < i + 1
        BY <2>1, <3>3
      <4>2. a[i] \in Nat /\ a[i] < pos
        BY <1>1, <2>1, <3>3, <4>1
      <4> QED BY <3>1, <4>1, <4>2
    <3> QED BY <3>2, <3>3
  <2>3. ASSUME NEW x \in Nat, In(x, a), m < x
        PROVE  pos <= x
    <3>1. PICK j \in 1 .. n : x = a[j]
      BY <1>1, <2>3 DEF In
    <3>2. i # 0 => ~(j < i) /\ j # i
      <4>1. i # 0 => a[i] < x /\ a[i] \in Nat /\ x \in Nat
        BY <1>1, <2>1, <2>3
      <4>2. i # 0 /\ j < i => x < a[i]
        BY <1>1, <2>1, <3>1
      <4>3. i # 0 => ~(x < a[i]) /\ x # a[i]
        BY <4>1
      <4> QED BY <3>1, <4>2, <4>3
    <3>3. j = i + 1 \/ i + 1 < j
      BY <2>1, <3>2
    <3>4. i + 1 < j => pos < x
      BY <1>1, <2>1, <3>1
    <3> QED BY <2>2, <3>1, <3>3, <3>4
  <2>4. Loop(union, a, b, 1 .. i + 1) = Step(union, s, pos)
    BY <2>1, LoopRounds
  <2>5. Taken(i + 1) = pos
    BY <2>1
  <2>6. Done(union, a, b, s, m)
    BY <1>3
  <2> HIDE DEF s, m, pos, Taken
  <2>7. CASE union = TRUE
    <3>1. Done(TRUE, a, b, UnionStep(s, pos), pos)
      BY <2>2, <2>3, <2>6, <2>7, UnionRound
    <3> QED BY <2>4, <2>5, <2>7, <3>1 DEF Step
  <2>8. CASE union = FALSE
    <3>1. Done(FALSE, a, b, IntersectStep(s, pos), pos)
      BY <2>2, <2>3, <2>6, <2>8, IntersectRound
    <3> QED BY <2>4, <2>5, <2>8, <3>1 DEF Step
  <2> QED BY <2>7, <2>8
<1>4. Bad = {}
  <2> HIDE DEF Good
  <2>1. SUFFICES ASSUME Bad # {} PROVE FALSE
    OBVIOUS
  <2>2. Bad \in SUBSET Nat
    OBVIOUS
  <2>3. PICK i \in Bad : \A j \in Bad : i <= j
    <3> HIDE DEF Bad
    <3> QED BY <2>1, <2>2, Least
  <2>4. i \in 0 .. n /\ ~Good(i) /\ i # 0
    BY <1>2
  <2>5. i - 1 \in 0 .. n - 1 /\ (i - 1) + 1 = i /\ ~(i <= i - 1)
    BY <1>1, <2>4
  <2>6. Good(i - 1)
    BY <1>1, <2>3, <2>5
  <2>7. Good((i - 1) + 1)
    BY <1>3, <2>5, <2>6
  <2> QED BY <2>4, <2>5, <2>7
<1> QED
  <2>1. ASSUME NEW i \in 1 .. n
        PROVE  Good(i) /\ Taken(i) = a[i]
    <3>1. i \in 0 .. n /\ i # 0
      BY <1>1
    <3>2. Good(i)
      <4> HIDE DEF Good
      <4> QED BY <1>4, <3>1
    <3> QED BY <3>1, <3>2
  <2> QED BY <2>1

-----------------------------------------------------------------------------
(***************************************************************************)
(* Union and Intersect.  A value of type Positions is an ascending sequence*)
(* of offsets, or AllPositions, which is none and stands for every offset. *)
(***************************************************************************)
LEMMA AscendingIsNotAll ==
    ASSUME NEW s, Ascending(s)
    PROVE  ~IsAllPositions(s)
<1>1. DOMAIN <<-1>> = {1} /\ <<-1>>[1] = -1
  OBVIOUS
<1>2. In(-1, <<-1>>) /\ -1 \notin Nat
  BY <1>1 DEF In
<1> QED BY <1>2, AscendingIn DEF IsAllPositions, AllPositions

IsPositions(p) == Ascending(p) \/ IsAllPositions(p)
Stands(x, p) == IsAllPositions(p) \/ In(x, p)

(* Whatever offsets two arguments stand for, ascending or all of them,     *)
(* Union (base.go, Positions.Union) gives those that one of them stands    *)
(* for, again ascending or all of them.                                    *)
THEOREM UnionIsUnion ==
    ASSUME NEW a, NEW b, IsPositions(a), IsPositions(b)
    PROVE  /\ IsPositions(Union(a, b))
           /\ \A x \in Nat : Stands(x, Union(a, b)) <=> Stands(x, a) \/ Stands(x, b)
<1>1. CASE IsAllPositions(a) \/ IsAllPositions(b)
  <2>1. \A p : IsAllPositions(p) => p # <<>>
    BY DEF IsAllPositions, AllPositions
  <2>2. \A p, q : IsAllPositions(p) /\ IsAllPositions(q) => p = q
    BY DEF IsAllPositions
  <2>3. Union(a, b) = IF IsAllPositions(a) THEN a ELSE b
    BY <1>1, <2>1, <2>2 DEF Union
  <2> QED BY <1>1, <2>3 DEF IsPositions, Stands
<1>2. CASE ~IsAllPositions(a) /\ ~IsAllPositions(b) /\ (a = <<>> \/ b = <<>>)
  <2>1. \A x : ~In(x, <<>>)
    BY DEF In
  <2>2. Union(a, b) = IF a = <<>> THEN b ELSE a
    BY <1>2 DEF Union
  <2> QED BY <1>2, <2>1, <2>2 DEF IsPositions, Stands
<1>3. CASE ~IsAllPositions(a) /\ ~IsAllPositions(b) /\ a # <<>> /\ b # <<>>
  <2>1. Ascending(a) /\ Ascending(b)
    BY <1>3 DEF IsPositions
  <2>2. PICK n \in Nat : n = Len(a) /\ n \in 1 .. n /\ DOMAIN a = 1 .. n /\ a[n] \in Nat
    BY <1>3, <2>1, Indices, EmptySeq DEF Ascending
  <2> DEFINE s == Loop(TRUE, a, b, 1 .. n)
  <2>3. Union(a, b) = s.out \o s.b
    <3>1. Union(a, b) = FoldLeft(UnionStep, Unstarted(b), a).out \o FoldLeft(UnionStep, Unstarted(b), a).b
      BY <1>3 DEF Union
    <3> QED BY <2>2, <3>1, FoldsAreLoops
  <2>4. Done(TRUE, a, b, s, a[n])
    BY <2>1, <2>2, LoopIsDone
  <2> HIDE DEF s
  <2>5. /\ Ascending(s.out) /\ Ascending(s.b)
        /\ \A x \in Nat : In(x, s.b) <=> In(x, b) /\ x > a[n]
        /\ \A x \in Nat : In(x, s.out) <=> (In(x, a) \/ In(x, b)) /\ x <= a[n]
    BY <2>4 DEF Done, Wanted
  <2>6. Ascending(s.out \o s.b)
    <3>1. \A x, y \in Nat : In(x, s.out) /\ In(y, s.b) => x < y
      BY <2>2, <2>5
    <3> QED BY <2>5, <3>1, AscendingConcat
  <2>7. \A x \in Nat : In(x, a) => x <= a[n]
    <3>1. \A i \in 1 .. n : a[i] \in Nat /\ (i < n => a[i] < a[n]) /\ (i = n \/ i < n)
      BY <2>1, <2>2, Indices DEF Ascending
    <3> QED BY <2>2, <3>1 DEF In
  <2>8. \A x \in Nat : In(x, s.out \o s.b) <=> In(x, a) \/ In(x, b)
    <3>1. \A x : In(x, s.out \o s.b) <=> In(x, s.out) \/ In(x, s.b)
      BY <2>5, AscendingIn, InConcat
    <3>2. \A x \in Nat : x > a[n] \/ x <= a[n]
      BY <2>2
    <3> QED BY <2>5, <2>7, <3>1, <3>2
  <2>9. ~IsAllPositions(s.out \o s.b)
    BY <2>6, AscendingIsNotAll
  <2> QED BY <1>3, <2>3, <2>6, <2>8, <2>9 DEF IsPositions, Stands
<1> QED BY <1>1, <1>2, <1>3

(* Likewise Intersect (base.go, Positions.Intersect) gives those that both *)
(* stand for.                                                              *)
THEOREM IntersectIsIntersection ==
    ASSUME NEW a, NEW b, IsPositions(a), IsPositions(b)
    PROVE  /\ IsPositions(Intersect(a, b))
           /\ \A x \in Nat : Stands(x, Intersect(a, b)) <=> Stands(x, a) /\ Stands(x, b)
<1>1. CASE IsAllPositions(a) \/ IsAllPositions(b)
  <2>1. \A p : IsAllPositions(p) => p # <<>>
    BY DEF IsAllPositions, AllPositions
  <2>2. \A p, q : IsAllPositions(p) /\ IsAllPositions(q) => p = q
    BY DEF IsAllPositions
  <2>3. Intersect(a, b) = IF IsAllPositions(a) THEN b ELSE a
    BY <1>1, <2>1, <2>2 DEF Intersect
  <2> QED BY <1>1, <2>3 DEF IsPositions, Stands
<1>2. CASE ~IsAllPositions(a) /\ ~IsAllPositions(b) /\ (a = <<>> \/ b = <<>>)
  <2>1. \A x : ~In(x, <<>>)
    BY DEF In
  <2>2. Intersect(a, b) = <<>>
    BY <1>2 DEF Intersect
  <2> QED BY <1>2, <2>1, <2>2 DEF IsPositions, Stands
<1>3. CASE ~IsAllPositions(a) /\ ~IsAllPositions(b) /\ a # <<>> /\ b # <<>>
  <2>1. Ascending(a) /\ Ascending(b)
    BY <1>3 DEF IsPositions
  <2>2. PICK n \in Nat : n = Len(a) /\ n \in 1 .. n /\ DOMAIN a = 1 .. n /\ a[n] \in Nat
    BY <1>3, <2>1, Indices, EmptySeq DEF Ascending
  <2> DEFINE s == Loop(FALSE, a, b, 1 .. n)
  <2>3. Intersect(a, b) = s.out
    <3>1. Intersect(a, b) = FoldLeft(IntersectStep, Unstarted(b), a).out
      BY <1>3 DEF Intersect
    <3> QED BY <2>2, <3>1, FoldsAreLoops
  <2>4. Done(FALSE, a, b, s, a[n])
    BY <2>1, <2>2, LoopIsDone
  <2> HIDE DEF s
  <2>5. /\ Ascending(s.out)
        /\ \A x \in Nat : In(x, s.out) <=> (In(x, a) /\ In(x, b)) /\ x <= a[n]
    BY <2>4 DEF Done, Wanted
  <2>6. \A x \in Nat : In(x, a) => x <= a[n]
    <3>1. \A i \in 1 .. n : a[i] \in Nat /\ (i < n => a[i] < a[n]) /\ (i = n \/ i < n)
      BY <2>1, <2>2, Indices DEF Ascending
    <3> QED BY <2>2, <3>1 DEF In
  <2>7. ~IsAllPositions(s.out)
    BY <2>5, AscendingIsNotAll
  <2> QED BY <1>3, <2>3, <2>5, <2>6, <2>7 DEF IsPositions, Stands
<1> QED BY <1>1, <1>2, <1>3

=============================================================================
