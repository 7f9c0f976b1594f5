---------------------------- MODULE ThreadProofs ----------------------------
(***************************************************************************)
(* Proofs about Thread and about Env.  No query or debug handler is left   *)
(* with a closed file, SyncFiles leaves no more files than allowed, and    *)
(* only the oldest ones go, for any set of files and any number of         *)
(* queries.  With the deaths and restarts of both programs this stays so,  *)
(* removeOldFiles breaks no pair of files, and a stenotype starts on clean *)
(* directories.                                                            *)
(***************************************************************************)
EXTENDS Env, FiniteSetTheorems, TLAPS

(***************************************************************************)
(* Sets of files.  The smallest number of a finite set exists because the  *)
(* strict inclusion of its initial segments is well founded.               *)
(***************************************************************************)
LEMMA FilesFinite ==
    ASSUME NEW S \in SUBSET Names
    PROVE  IsFiniteSet(S) /\ Cardinality(S) \in Nat /\ S \subseteq Nat
  BY NamesAssumption, FS_Subset, FS_CardinalityType

UpTo(S, n) == {m \in S : m <= n}

LEMMA MinOfFinite ==
    ASSUME NEW S \in SUBSET Nat, IsFiniteSet(S), S # {}
    PROVE  Min(S) \in S /\ \A n \in S : Min(S) <= n
<1> DEFINE T == {UpTo(S, n) : n \in S}
           R == StrictSubsetOrdering(S)
<1>1. IsWellFoundedOn(R, FiniteSubsetsOf(S))
  BY FS_StrictSubsetOrderingWellFounded
<1>2. T \subseteq FiniteSubsetsOf(S) /\ T # {}
  <2>1. \A n \in S : UpTo(S, n) \in FiniteSubsetsOf(S)
    <3>1. \A n \in S : UpTo(S, n) \in SUBSET S
      BY DEF UpTo
    <3>2. FiniteSubsetsOf(S) = SUBSET S
      BY FS_FiniteSubsetsOfFinite
    <3> QED BY <3>1, <3>2
  <2> QED BY <2>1
<1>3. \E X \in T : \A Y \in T : <<Y, X>> \notin R
  <2> HIDE DEF T, R
  <2> QED BY <1>1, <1>2, WFMin
<1>4. PICK x \in S : \A y \in S : <<UpTo(S, y), UpTo(S, x)>> \notin R
  BY <1>3
<1>5. ASSUME NEW y \in S, y < x
      PROVE  FALSE
  <2>1. UpTo(S, y) \subseteq UpTo(S, x) /\ x \in UpTo(S, x) /\ x \notin UpTo(S, y)
    <3>1. \A m \in S : m \in Nat /\ (m <= y => m <= x)
      BY <1>5
    <3>2. x <= x /\ ~(x <= y)
      BY <1>5
    <3> QED BY <3>1, <3>2 DEF UpTo
  <2>2. UpTo(S, y) \subseteq S /\ UpTo(S, x) \subseteq S
    BY DEF UpTo
  <2> QED BY <2>1, <2>2, <1>4 DEF StrictSubsetOrdering
<1>6. \A y \in S : x =< y
  BY <1>5
<1> QED BY <1>6 DEF Min

(* The oldest k files are older than the rest.                             *)
LEMMA OldestAreOlder ==
    ASSUME files \subseteq Names, NEW k \in Int,
           NEW n \in Oldest(k), NEW m \in files \ Oldest(k)
    PROVE  n < m
<1> DEFINE Older(x) == {y \in files : y < x}
<1>1. files \subseteq Nat /\ n \in files /\ n # m
  BY FilesFinite DEF Oldest
<1>2. SUFFICES ASSUME m < n
               PROVE  FALSE
  BY <1>1
<1>3. Older(m) \subseteq Older(n)
  <2>1. \A y \in files : y < m => y < n
    BY <1>1, <1>2
  <2> QED BY <2>1
<1>4. /\ IsFiniteSet(Older(n))
      /\ Cardinality(Older(n)) \in Nat /\ Cardinality(Older(m)) \in Nat
  BY FilesFinite
<1>5. Cardinality(Older(m)) <= Cardinality(Older(n))
  BY <1>3, <1>4, FS_Subset
<1>6. Cardinality(Older(n)) < k /\ ~(Cardinality(Older(m)) < k)
  BY DEF Oldest
<1> QED BY <1>4, <1>5, <1>6

-----------------------------------------------------------------------------
(***************************************************************************)
(* The size of a set of files.  The fold goes through the set in an order  *)
(* of its own; the lemmas end with SizeOfSplit, which forgets that order.  *)
(* A set of sets of files has one of which no part is in it as well: it    *)
(* stands for an induction over finite sets.                               *)
(***************************************************************************)
LEMMA SmallestSet ==
    ASSUME NEW D \in SUBSET (SUBSET Names), D # {}
    PROVE  \E s \in D : \A u \in D : u \subseteq s => u = s
<1> DEFINE R == StrictSubsetOrdering(Names)
<1>1. IsWellFoundedOn(R, FiniteSubsetsOf(Names)) /\ FiniteSubsetsOf(Names) = SUBSET Names
  BY NamesAssumption, FS_StrictSubsetOrderingWellFounded, FS_FiniteSubsetsOfFinite
<1>2. \E s \in D : \A u \in D : <<u, s>> \notin R
  <2> HIDE DEF R
  <2> QED BY <1>1, WFMin
<1> QED BY <1>2 DEF StrictSubsetOrdering

Pick(S) == CHOOSE x \in S : TRUE
Summed(h, S) ==
    h = [s \in SUBSET S |-> IF s = {} THEN 0 ELSE Size[Pick(s)] + h[s \ {Pick(s)}]]

LEMMA SizeOfIsSum ==
    ASSUME NEW S
    PROVE  SizeOf(S) = (CHOOSE h : Summed(h, S))[S]
  BY DEF SizeOf, MapThenSumSet, MapThenFoldSet, Summed, Pick

LEMMA PickIsIn ==
    ASSUME NEW S, S # {}
    PROVE  Pick(S) \in S
  BY DEF Pick

LEMMA SummedUnfolds ==
    ASSUME NEW S, NEW h, Summed(h, S), NEW s \in SUBSET S
    PROVE  /\ s = {} => h[s] = 0
           /\ s # {} => h[s] = Size[Pick(s)] + h[s \ {Pick(s)}]
<1> DEFINE F(u) == IF u = {} THEN 0 ELSE Size[Pick(u)] + h[u \ {Pick(u)}]
<1>1. h = [u \in SUBSET S |-> F(u)]
  BY DEF Summed
<1>2. h[s] = F(s)
  <2> HIDE DEF F
  <2> QED BY <1>1
<1> QED BY <1>2

LEMMA SumsAgree ==
    ASSUME NEW S \in SUBSET Names, NEW T \in SUBSET S, NEW g, NEW h,
           Summed(g, S), Summed(h, T)
    PROVE  g[T] = h[T]
<1> DEFINE D == {s \in SUBSET T : g[s] # h[s]}
<1>1. SUFFICES ASSUME D # {}
               PROVE  FALSE
  OBVIOUS
<1>2. D \in SUBSET (SUBSET Names)
  OBVIOUS
<1>3. PICK s \in D : \A u \in D : u \subseteq s => u = s
  <2> HIDE DEF D
  <2> QED BY <1>1, <1>2, SmallestSet
<1>4. s \in SUBSET T /\ s \in SUBSET S /\ g[s] # h[s]
  OBVIOUS
<1>5. s # {}
  BY <1>4, SummedUnfolds
<1>6. Pick(s) \in s
  BY <1>5, PickIsIn
<1>7. g[s \ {Pick(s)}] = h[s \ {Pick(s)}]
  BY <1>3, <1>4, <1>6
<1>8. g[s] = Size[Pick(s)] + g[s \ {Pick(s)}] /\ h[s] = Size[Pick(s)] + h[s \ {Pick(s)}]
  BY <1>4, <1>5, SummedUnfolds
<1> QED BY <1>4, <1>7, <1>8

LEMMA SumUnfolds ==
    ASSUME NEW S \in SUBSET Names, NEW g, Summed(g, S), S # {},
           NEW h, Summed(h, S \ {Pick(S)})
    PROVE  g[S] = Size[Pick(S)] + h[S \ {Pick(S)}]
<1>1. g[S] = Size[Pick(S)] + g[S \ {Pick(S)}]
  BY SummedUnfolds
<1>2. S \ {Pick(S)} \in SUBSET S
  OBVIOUS
<1>3. g[S \ {Pick(S)}] = h[S \ {Pick(S)}]
  BY <1>2, SumsAgree
<1> QED BY <1>1, <1>3

LEMMA SumExists ==
    ASSUME NEW S \in SUBSET Names
    PROVE  \E h : Summed(h, S)
<1> DEFINE D == {s \in SUBSET Names : ~\E h : Summed(h, s)}
<1>1. SUFFICES ASSUME D # {}
               PROVE  FALSE
  OBVIOUS
<1>2. D \in SUBSET (SUBSET Names)
  OBVIOUS
<1>3. PICK M \in D : \A u \in D : u \subseteq M => u = M
  <2> HIDE DEF D
  <2> QED BY <1>1, <1>2, SmallestSet
<1>4. M \in SUBSET Names /\ ~\E h : Summed(h, M)
  OBVIOUS
<1>5. ASSUME NEW u \in SUBSET M, u # M
      PROVE  u \in SUBSET Names /\ Summed(CHOOSE h : Summed(h, u), u)
  <2>1. u \in SUBSET Names /\ u \notin D
    BY <1>3, <1>4, <1>5
  <2>2. \E h : Summed(h, u)
    BY <2>1
  <2> QED BY <2>1, <2>2
<1> HIDE DEF D
<1> DEFINE F(s) == IF s = {} THEN 0 ELSE Size[Pick(s)] + SizeOf(s \ {Pick(s)})
           g == [s \in SUBSET M |-> F(s)]
<1>6. ASSUME NEW u \in SUBSET M, u # M
      PROVE  g[u] = SizeOf(u)
  <2>1. g[u] = F(u)
    <3> HIDE DEF F
    <3> QED OBVIOUS
  <2>2. PICK h : h = CHOOSE k : Summed(k, u)
    OBVIOUS
  <2>3. u \in SUBSET Names /\ Summed(h, u) /\ SizeOf(u) = h[u]
    BY <1>5, <1>6, <2>2, SizeOfIsSum
  <2>4. CASE u = {}
    <3>1. h[u] = 0
      BY <2>3, <2>4, SummedUnfolds
    <3> QED BY <2>1, <2>3, <2>4, <3>1
  <2>5. CASE u # {}
    <3> DEFINE v == u \ {Pick(u)}
    <3>1. Pick(u) \in u
      BY <2>5, PickIsIn
    <3>2. v \in SUBSET M /\ v # M
      BY <3>1
    <3> HIDE DEF v
    <3>3. PICK k : k = CHOOSE j : Summed(j, v)
      OBVIOUS
    <3>4. Summed(k, v) /\ SizeOf(v) = k[v]
      BY <1>5, <3>2, <3>3, SizeOfIsSum
    <3>5. h[u] = Size[Pick(u)] + k[v]
      BY <2>3, <2>5, <3>4, SumUnfolds DEF v
    <3>6. F(u) = Size[Pick(u)] + SizeOf(v)
      BY <2>5 DEF v
    <3> QED BY <2>1, <2>3, <3>4, <3>5, <3>6
  <2> QED BY <2>4, <2>5
<1>7. ASSUME NEW s \in SUBSET M
      PROVE  F(s) = IF s = {} THEN 0 ELSE Size[Pick(s)] + g[s \ {Pick(s)}]
  <2>1. CASE s # {}
    <3>1. Pick(s) \in s
      BY <2>1, PickIsIn
    <3>2. s \ {Pick(s)} \in SUBSET M /\ s \ {Pick(s)} # M
      BY <3>1
    <3>3. g[s \ {Pick(s)}] = SizeOf(s \ {Pick(s)})
      <4> HIDE DEF g
      <4> QED BY <1>6, <3>2
    <3> HIDE DEF g
    <3> QED BY <3>3
  <2> QED BY <2>1
<1>8. Summed(g, M)
  <2>1. g = [s \in SUBSET M |-> F(s)]
    OBVIOUS
  <2> HIDE DEF g
  <2> QED BY <1>7, <2>1 DEF Summed
<1> QED BY <1>4, <1>8

LEMMA SizeOfUnfolds ==
    ASSUME NEW S \in SUBSET Names
    PROVE  /\ S = {} => SizeOf(S) = 0
           /\ S # {} => Pick(S) \in S /\ SizeOf(S) = Size[Pick(S)] + SizeOf(S \ {Pick(S)})
<1>1. \A s \in SUBSET Names : \E h : Summed(h, s) /\ SizeOf(s) = h[s]
  <2> TAKE s \in SUBSET Names
  <2>1. Summed(CHOOSE h : Summed(h, s), s)
    BY SumExists
  <2> QED BY <2>1, SizeOfIsSum
<1>2. PICK g : Summed(g, S) /\ SizeOf(S) = g[S]
  BY <1>1
<1>3. PICK h : Summed(h, S \ {Pick(S)}) /\ SizeOf(S \ {Pick(S)}) = h[S \ {Pick(S)}]
  BY <1>1
<1>4. S = {} => g[S] = 0
  BY <1>2, SummedUnfolds
<1>5. S # {} => g[S] = Size[Pick(S)] + h[S \ {Pick(S)}]
  BY <1>2, <1>3, SumUnfolds
<1> QED BY <1>2, <1>3, <1>4, <1>5, PickIsIn

LEMMA SizeOfIsNumber ==
    ASSUME NEW S \in SUBSET Names
    PROVE  SizeOf(S) \in Nat
<1> DEFINE D == {s \in SUBSET Names : SizeOf(s) \notin Nat}
<1>1. SUFFICES ASSUME D # {}
               PROVE  FALSE
  OBVIOUS
<1>2. D \in SUBSET (SUBSET Names)
  OBVIOUS
<1>3. PICK s \in D : \A u \in D : u \subseteq s => u = s
  <2> HIDE DEF D
  <2> QED BY <1>1, <1>2, SmallestSet
<1>4. s \in SUBSET Names /\ SizeOf(s) \notin Nat
  OBVIOUS
<1>5. Pick(s) \in s /\ SizeOf(s) = Size[Pick(s)] + SizeOf(s \ {Pick(s)})
  BY <1>4, SizeOfUnfolds
<1>6. SizeOf(s \ {Pick(s)}) \in Nat
  BY <1>3, <1>4, <1>5
<1>7. Size[Pick(s)] \in Nat
  BY <1>4, <1>5, SizeAssumption
<1> QED BY <1>4, <1>5, <1>6, <1>7

LEMMA SizeOfSplit ==
    ASSUME NEW S \in SUBSET Names, NEW x \in S
    PROVE  SizeOf(S) = Size[x] + SizeOf(S \ {x})
<1> DEFINE D == {s \in SUBSET Names : \E y \in s : SizeOf(s) # Size[y] + SizeOf(s \ {y})}
<1>1. SUFFICES ASSUME D # {}
               PROVE  FALSE
  OBVIOUS
<1>2. D \in SUBSET (SUBSET Names)
  OBVIOUS
<1>3. PICK s \in D : \A u \in D : u \subseteq s => u = s
  <2> HIDE DEF D
  <2> QED BY <1>1, <1>2, SmallestSet
<1>4. PICK y \in s : SizeOf(s) # Size[y] + SizeOf(s \ {y})
  OBVIOUS
<1>5. s \in SUBSET Names /\ \A u \in SUBSET s : u # s => u \notin D
  BY <1>3
<1> DEFINE z == Pick(s)
<1>6. z \in s /\ SizeOf(s) = Size[z] + SizeOf(s \ {z})
  BY <1>5, SizeOfUnfolds
<1> HIDE DEF z
<1>7. y # z
  BY <1>4, <1>6
<1>8. PICK r \in SUBSET Names : r = s \ {y, z}
  BY <1>5
<1>9. SizeOf(s \ {z}) = Size[y] + SizeOf(r)
  <2>1. y \in s \ {z} /\ s \ {z} \in SUBSET s /\ s \ {z} # s /\ (s \ {z}) \ {y} = r
    BY <1>6, <1>7, <1>8
  <2> QED BY <1>5, <2>1
<1>10. SizeOf(s \ {y}) = Size[z] + SizeOf(r)
  <2>1. z \in s \ {y} /\ s \ {y} \in SUBSET s /\ s \ {y} # s /\ (s \ {y}) \ {z} = r
    BY <1>6, <1>7, <1>8
  <2> QED BY <1>5, <2>1
<1>11. SizeOf(r) \in Nat /\ Size[y] \in Nat /\ Size[z] \in Nat
  BY <1>5, <1>6, SizeOfIsNumber, SizeAssumption
<1> HIDE DEF D
<1>12. PICK a \in Nat, b \in Nat, c \in Nat : a = SizeOf(r) /\ b = Size[y] /\ c = Size[z]
  BY <1>11
<1>13. SizeOf(s) = c + (b + a) /\ Size[y] + SizeOf(s \ {y}) = b + (c + a)
  BY <1>6, <1>9, <1>10, <1>12
<1> QED BY <1>4, <1>12, <1>13

(* The largest of a set of files, whose segment from there on is smallest. *)
LEMMA MaxOfFiles ==
    ASSUME NEW S \in SUBSET Names, S # {}
    PROVE  Max(S) \in S /\ \A n \in S : Max(S) >= n
<1> DEFINE From(n) == {m \in S : m >= n}
           D == {From(n) : n \in S}
<1>1. S \subseteq Nat
  BY FilesFinite
<1>2. D \in SUBSET (SUBSET Names) /\ D # {}
  OBVIOUS
<1>3. PICK s \in D : \A u \in D : u \subseteq s => u = s
  <2> HIDE DEF D
  <2> QED BY <1>2, SmallestSet
<1>4. PICK x \in S : s = From(x)
  OBVIOUS
<1>5. ASSUME NEW n \in S
      PROVE  x >= n
  <2>1. SUFFICES ASSUME n > x PROVE FALSE
    BY <1>1
  <2>2. From(n) \subseteq From(x) /\ x \in From(x) /\ x \notin From(n)
    <3>1. \A m \in S : m >= n => m >= x
      BY <1>1, <2>1
    <3>2. x >= x /\ ~(x >= n)
      BY <1>1, <2>1
    <3> QED BY <3>1, <3>2
  <2>3. From(n) \in D
    OBVIOUS
  <2> QED BY <1>3, <1>4, <2>2, <2>3
<1> QED BY <1>5 DEF Max

(* The one file by which the oldest k are more than the oldest k - 1 is    *)
(* the newest of them.                                                     *)
LEMMA OldestNext ==
    ASSUME files \subseteq Names, NEW k \in Nat, Oldest(k) # Oldest(k - 1)
    PROVE  /\ Oldest(k) \in SUBSET Names /\ Max(Oldest(k)) \in Oldest(k)
           /\ Oldest(k) \ {Max(Oldest(k))} = Oldest(k - 1)
<1> DEFINE Older(x) == {y \in files : y < x}
<1>1. files \subseteq Nat /\ \A x \in files : IsFiniteSet(Older(x)) /\ Cardinality(Older(x)) \in Nat
  BY FilesFinite
<1>2. ASSUME NEW x \in files, NEW y \in files, x < y
      PROVE  Cardinality(Older(x)) < Cardinality(Older(y))
  <2>1. Older(x) \in SUBSET Older(y) /\ x \in Older(y) /\ x \notin Older(x)
    <3>1. \A m \in files : m < x => m < y
      BY <1>1, <1>2
    <3>2. ~(x < x)
      BY <1>1
    <3> QED BY <1>2, <3>1, <3>2
  <2>2. /\ Cardinality(Older(x)) <= Cardinality(Older(y))
        /\ Cardinality(Older(x)) # Cardinality(Older(y))
    <3> HIDE DEF Older
    <3> QED BY <1>1, <2>1, FS_Subset
  <2> HIDE DEF Older
  <2> QED BY <1>1, <2>2
<1>3. \A i, x : x \in Oldest(i) <=> x \in files /\ Cardinality(Older(x)) < i
  BY DEF Oldest
<1> HIDE DEF Older
<1>4. Oldest(k - 1) \subseteq Oldest(k)
  <2>1. \A x \in files : Cardinality(Older(x)) < k - 1 => Cardinality(Older(x)) < k
    BY <1>1
  <2> QED BY <1>3, <2>1
<1>5. PICK n \in Oldest(k) : n \notin Oldest(k - 1)
  BY <1>4
<1>6. n \in files /\ Cardinality(Older(n)) = k - 1
  <2>1. n \in files /\ Cardinality(Older(n)) < k /\ ~(Cardinality(Older(n)) < k - 1)
    BY <1>3, <1>5
  <2>2. Cardinality(Older(n)) \in Nat
    BY <1>1, <2>1
  <2> QED BY <2>1, <2>2
<1>7. \A m \in Oldest(k) : m = n \/ m < n
  BY <1>1, <1>2, <1>3, <1>6
<1>8. Oldest(k) \ {n} = Oldest(k - 1)
  <2>1. \A m \in Oldest(k) : m # n => m \in Oldest(k - 1)
    BY <1>2, <1>1, <1>3, <1>6, <1>7
  <2> QED BY <1>4, <1>5, <2>1
<1>9. Oldest(k) \in SUBSET Names /\ Oldest(k) \subseteq files
  BY <1>3
<1>10. Max(Oldest(k)) = n
  <2>1. Max(Oldest(k)) \in Oldest(k) /\ Max(Oldest(k)) >= n
    BY <1>5, <1>9, MaxOfFiles
  <2>2. PICK m \in Oldest(k) : m = Max(Oldest(k))
    BY <2>1
  <2>3. m \in Nat /\ n \in Nat /\ m >= n /\ (m = n \/ m < n)
    BY <1>1, <1>6, <1>7, <1>9, <2>1, <2>2
  <2>4. m = n
    BY <2>3
  <2> QED BY <2>2, <2>4
<1> QED BY <1>5, <1>8, <1>9, <1>10

LEMMA OldestAll ==
    ASSUME files \subseteq Names
    PROVE  Oldest(Cardinality(files)) = files
<1>1. ASSUME NEW n \in files
      PROVE  Cardinality({m \in files : m < n}) < Cardinality(files)
  <2> DEFINE S == {m \in files : m < n}
  <2>1. S \in SUBSET files /\ n \notin S
    BY FilesFinite
  <2>2. IsFiniteSet(files) /\ Cardinality(files) \in Nat /\ Cardinality(S) \in Nat
    BY FilesFinite
  <2> HIDE DEF S
  <2>3. Cardinality(S) <= Cardinality(files) /\ Cardinality(S) # Cardinality(files)
    BY <2>1, <2>2, FS_Subset
  <2>4. Cardinality(S) < Cardinality(files)
    BY <2>2, <2>3
  <2> QED BY <2>4 DEF S
<1> QED BY <1>1 DEF Oldest

LEMMA PruneCountIsLeast ==
    ASSUME files \subseteq Names
    PROVE  LET Exceeds(k) == SizeOf(Oldest(k)) > Size[Max(files)] IN
           /\ PruneCount \in 0 .. Cardinality(files)
           /\ PruneCount = Cardinality(files) \/ Exceeds(PruneCount)
           /\ \A k \in 0 .. Cardinality(files) : k < PruneCount => ~Exceeds(k)
<1> DEFINE c == Cardinality(files)
           Exceeds(k) == SizeOf(Oldest(k)) > Size[Max(files)]
           K == {k \in 0 .. c : Exceeds(k)} \cup {c}
<1>1. c \in Nat
  BY FilesFinite
<1>2. K \subseteq 0 .. c /\ K # {}
  BY <1>1
<1>3. IsFiniteSet(K) /\ K \subseteq Nat
  <2>1. IsFiniteSet(0 .. c)
    BY <1>1, FS_Interval
  <2> HIDE DEF K
  <2>2. K \in SUBSET (0 .. c)
    BY <1>2
  <2>3. IsFiniteSet(K)
    BY <2>1, <2>2, FS_Subset
  <2> QED BY <1>1, <2>2, <2>3
<1>4. Min(K) \in K /\ \A k \in K : Min(K) <= k
  <2> HIDE DEF K
  <2> QED BY <1>2, <1>3, MinOfFinite
<1>5. PruneCount = Min(K)
  BY DEF PruneCount
<1>6. PruneCount \in 0 .. c /\ (PruneCount = c \/ Exceeds(PruneCount))
  BY <1>2, <1>4, <1>5
<1>7. \A k \in 0 .. c : Exceeds(k) => PruneCount <= k
  BY <1>4, <1>5
<1> HIDE DEF K, Exceeds
<1>8. \A k \in 0 .. c : k < PruneCount => ~Exceeds(k)
  BY <1>1, <1>6, <1>7
<1> QED BY <1>6, <1>8 DEF Exceeds

(* What a pruning frees: enough, and too much by its last file at most.    *)
LEMMA PruneFrees ==
    ASSUME files \subseteq Names, files # {}
    PROVE  LET newest == Size[Max(files)]
               S == Oldest(PruneCount)
           IN  SizeOf(S) >= newest /\ SizeOf(S) <= newest + Size[Max(S)]
<1> DEFINE newest == Size[Max(files)]
           c == PruneCount
           S == Oldest(c)
           Exceeds(k) == SizeOf(Oldest(k)) > newest
<1>1. /\ c \in 0 .. Cardinality(files) /\ Cardinality(files) \in Nat
      /\ c = Cardinality(files) \/ Exceeds(c)
      /\ \A k \in 0 .. Cardinality(files) : k < c => ~Exceeds(k)
  BY PruneCountIsLeast, FilesFinite
<1>2. Max(files) \in files /\ newest \in Nat
  BY MaxOfFiles, SizeAssumption
<1>3. \A k : Oldest(k) \in SUBSET Names /\ SizeOf(Oldest(k)) \in Nat
  <2>1. \A k : Oldest(k) \in SUBSET Names
    BY DEF Oldest
  <2> QED BY <2>1, SizeOfIsNumber
<1>4. CASE Exceeds(c)
  <2>1. c # 0
    <3>1. Oldest(0) = {}
      <4>1. \A n \in files : Cardinality({m \in files : m < n}) \in Nat
        BY FilesFinite
      <4> QED BY <4>1 DEF Oldest
    <3>2. SizeOf({}) = 0
      BY SizeOfUnfolds
    <3> QED BY <1>2, <1>4, <3>1, <3>2
  <2>2. c \in Nat /\ c - 1 \in 0 .. Cardinality(files) /\ c - 1 < c
    BY <1>1, <2>1
  <2>3. ~Exceeds(c - 1)
    BY <1>1, <2>2
  <2>4. Oldest(c) # Oldest(c - 1)
    BY <1>4, <2>3
  <2>5. Max(S) \in S /\ S \ {Max(S)} = Oldest(c - 1)
    BY <2>2, <2>4, OldestNext
  <2>6. SizeOf(S) = Size[Max(S)] + SizeOf(Oldest(c - 1)) /\ Size[Max(S)] \in Nat
    BY <1>3, <2>5, SizeOfSplit, SizeAssumption
  <2>7. /\ SizeOf(S) > newest /\ ~(SizeOf(Oldest(c - 1)) > newest)
        /\ SizeOf(S) \in Nat /\ SizeOf(Oldest(c - 1)) \in Nat
    BY <1>3, <1>4, <2>3
  <2> HIDE DEF S, newest, c
  <2>8. SizeOf(S) >= newest /\ SizeOf(S) <= newest + Size[Max(S)]
    BY <1>2, <2>6, <2>7
  <2> QED BY <2>8 DEF S, newest, c
<1>5. CASE ~Exceeds(c)
  <2>1. S = files
    BY <1>1, <1>5, OldestAll
  <2>2. /\ SizeOf(files) = newest + SizeOf(files \ {Max(files)})
        /\ SizeOf(files \ {Max(files)}) \in Nat /\ SizeOf(files) \in Nat
    BY <1>2, SizeOfSplit, SizeOfIsNumber
  <2>3. ~(SizeOf(files) > newest)
    BY <1>5, <2>1
  <2>4. SizeOf(files) >= newest /\ SizeOf(files) <= newest + newest
    <3> HIDE DEF newest
    <3> QED BY <1>2, <2>2, <2>3
  <2> QED BY <2>1, <2>4
<1> QED BY <1>4, <1>5

-----------------------------------------------------------------------------
(***************************************************************************)
(* The invariant: what SyncFiles has still to do in each stage, and that   *)
(* the limit holds from one SyncFiles to the next, also while it waits for *)
(* t.mu.                                                                   *)
(***************************************************************************)
StagesInv ==
    /\ listing # {} => sync = "track"
    /\ doomed # {} => sync = "untrack"
    /\ debug # {} => sync \in {"idle", "lock"}

LimitInv == sync \in {"idle", "lock"} => Cardinality(files) <= MaxDirectoryFiles

DoomedAreOlder == \A n \in doomed, m \in files \ doomed : n < m

IInv ==
    /\ TypeOK
    /\ todo \in [Queries -> SUBSET Names]
    /\ LookupsOpen
    /\ StagesInv
    /\ LimitInv
    /\ DoomedAreOlder

LEMMA InvInit == Init => IInv
<1> SUFFICES ASSUME Init
             PROVE  IInv
  OBVIOUS
<1>1. Cardinality(files) <= MaxDirectoryFiles
  BY FS_EmptySet, MaxDirectoryFilesAssumption DEF Init
<1> QED
  BY <1>1 DEF Init, IInv, TypeOK, Status, LookupsOpen, StagesInv, LimitInv, DoomedAreOlder

LEMMA DeleteOldestStep ==
    ASSUME IInv, NEW k \in Int, DeleteOldestThreadFiles(k), sync \in {"clean", "prune"}
    PROVE  IInv'
<1>1. Oldest(k) \subseteq files
  BY DEF Oldest
<1>2. \A n \in Oldest(k), m \in files \ Oldest(k) : n < m
  BY OldestAreOlder DEF IInv, TypeOK
<1>3. BothHalves(doomed') \subseteq {"pkt", "idx"} \X Names
  BY <1>1 DEF DeleteOldestThreadFiles, BothHalves, IInv, TypeOK
<1>4. TypeOK'
  BY <1>1, <1>3 DEF DeleteOldestThreadFiles, IInv, TypeOK, dirVars, queryVars, debugVars
<1>5. (LookupsOpen /\ StagesInv /\ LimitInv)'
  BY DEF DeleteOldestThreadFiles, IInv, LookupsOpen, StagesInv, LimitInv, queryVars, debugVars
<1>6. DoomedAreOlder'
  BY <1>2 DEF DeleteOldestThreadFiles, DoomedAreOlder
<1> QED
  BY <1>4, <1>5, <1>6 DEF IInv, DeleteOldestThreadFiles, queryVars

LEMMA UntrackStep ==
    ASSUME IInv, UntrackFile
    PROVE  /\ IInv'
           /\ \A n \in files \ files', m \in files' : n < m
<1>1. PICK n \in doomed :
          /\ Closing(n) /\ Unused(n)
          /\ files' = files \ {n}
          /\ todo' = [q \in Queries |-> todo[q] \ {n}]
          /\ doomed' = doomed \ {n}
  BY DEF UntrackFile, Remaining
<1> USE DEF UntrackFile, dirVars, debugVars
<1>2. TypeOK'
  BY <1>1 DEF IInv, TypeOK
<1>3. todo' \in [Queries -> SUBSET Names] /\ LookupsOpen'
  BY <1>1 DEF IInv, TypeOK, LookupsOpen, StagesInv, Closing, Unused
<1>4. (StagesInv /\ LimitInv)'
  BY <1>1 DEF IInv, StagesInv, LimitInv, Closing
<1>5. DoomedAreOlder'
  BY <1>1 DEF IInv, DoomedAreOlder
<1>6. \A m \in files' : n < m
  <2>1. doomed \in SUBSET Names /\ doomed # {}
    BY <1>1 DEF IInv, TypeOK
  <2>2. \A d \in doomed : n <= d /\ d \in Nat /\ n \in Nat
    <3>1. IsFiniteSet(doomed) /\ doomed \subseteq Nat
      BY <2>1, FilesFinite
    <3> QED BY <1>1, <2>1, <3>1, MinOfFinite DEF Closing
  <2>3. \A m \in files' \cap doomed : n < m
    BY <1>1, <2>2
  <2> QED BY <1>1, <2>3 DEF IInv, DoomedAreOlder
<1> QED BY <1>1, <1>2, <1>3, <1>4, <1>5, <1>6 DEF IInv

LEMMA DirectoryStep ==
    ASSUME IInv, Stenotype \/ TryToDeleteFile
    PROVE  IInv' /\ files' = files
<1>1. TypeOK' /\ UNCHANGED <<syncVars, queryVars, debugVars>>
  <2>1. CASE Stenotype
    BY <2>1 DEF Stenotype, RotateTo, PublishPackets, WriteIndex, PublishIndex, Change, IInv,
                TypeOK, Status, syncVars, queryVars, debugVars
  <2>2. CASE TryToDeleteFile
    BY <2>2 DEF TryToDeleteFile, IInv, TypeOK, Status, syncVars, queryVars, debugVars
  <2> QED BY <2>1, <2>2
<1> QED
  BY <1>1 DEF IInv, LookupsOpen, StagesInv, LimitInv, DoomedAreOlder, syncVars, queryVars,
              debugVars

(* The stages of SyncFiles that neither track nor give up a file.          *)
LEMMA StageStep ==
    ASSUME IInv,
           \/ SyncFiles \/ ListPacketFilesOnDisk \/ CleanUpOnLowDiskSpace
           \/ DiskSufficient \/ DiskFull \/ AllUntracked
           \/ (files = {} /\ PruneOldestThreadFiles)
    PROVE  IInv' /\ files' = files
<1> USE DEF dirVars, queryVars, debugVars
<1>1. UNCHANGED <<dirVars, files, removals, queryVars, debugVars>>
  BY DEF SyncFiles, ListPacketFilesOnDisk, CleanUpOnLowDiskSpace, DiskSufficient, DiskFull,
         AllUntracked, PruneOldestThreadFiles
<1>2. /\ sync' \in {"idle", "lock", "track", "clean", "prune", "untrack"}
      /\ listing' \subseteq Names /\ doomed' = doomed /\ StagesInv'
  BY DEF SyncFiles, ListPacketFilesOnDisk, CleanUpOnLowDiskSpace, DiskSufficient, DiskFull,
         AllUntracked, PruneOldestThreadFiles, Listed, IInv, TypeOK, StagesInv
<1>3. LimitInv'
  <2>1. CASE CleanUpOnLowDiskSpace
    <3>1. files = {} => Cardinality(files) <= MaxDirectoryFiles
      BY FS_EmptySet, MaxDirectoryFilesAssumption
    <3> QED BY <2>1, <3>1 DEF CleanUpOnLowDiskSpace, LimitInv
  <2>2. CASE DiskSufficient
    <3>1. Cardinality(files) \in Nat
      BY FilesFinite DEF IInv, TypeOK
    <3> QED BY <2>2, <3>1, MaxDirectoryFilesAssumption DEF DiskSufficient, TooMany, LimitInv
  <2>3. CASE SyncFiles \/ ListPacketFilesOnDisk \/ DiskFull \/ AllUntracked
             \/ (files = {} /\ PruneOldestThreadFiles)
    BY <2>3 DEF SyncFiles, ListPacketFilesOnDisk, DiskFull, AllUntracked,
                PruneOldestThreadFiles, IInv, LimitInv
  <2> QED BY <2>1, <2>2, <2>3
<1> QED
  BY <1>1, <1>2, <1>3 DEF IInv, TypeOK, LookupsOpen, DoomedAreOlder

LEMMA TrackStep ==
    ASSUME IInv, TrackNewFile
    PROVE  IInv' /\ files \subseteq files'
<1> USE DEF TrackNewFile, dirVars, queryVars, debugVars
<1>1. Min(listing) \in listing /\ listing \subseteq Names
  <2>1. IsFiniteSet(listing) /\ listing \subseteq Nat
    BY FilesFinite DEF IInv, TypeOK
  <2> QED BY <2>1, MinOfFinite DEF IInv, TypeOK
<1>2. files \subseteq files' /\ files' \subseteq Names /\ listing' \subseteq Names
  BY <1>1 DEF IInv, TypeOK
<1>3. TypeOK' /\ LookupsOpen'
  BY <1>2 DEF IInv, TypeOK, LookupsOpen
<1>4. (StagesInv /\ LimitInv)'
  BY DEF IInv, StagesInv, LimitInv
<1>5. DoomedAreOlder'
  BY DEF IInv, StagesInv, DoomedAreOlder
<1> QED BY <1>2, <1>3, <1>4, <1>5 DEF IInv

LEMMA DeleteStep ==
    ASSUME IInv, DeleteAboveLimit \/ (files # {} /\ PruneOldestThreadFiles)
    PROVE  IInv' /\ files' = files
<1>1. files \subseteq Names /\ Cardinality(files) \in Nat
  BY FilesFinite DEF IInv, TypeOK
<1>2. PICK k \in Int : DeleteOldestThreadFiles(k) /\ sync \in {"clean", "prune"}
  <2>1. Cardinality(files) - MaxDirectoryFiles \in Int
    BY <1>1, MaxDirectoryFilesAssumption
  <2>2. PruneCount \in Int
    BY <1>1, PruneCountIsLeast
  <2> QED BY <2>1, <2>2 DEF DeleteAboveLimit, PruneOldestThreadFiles
<1> QED BY <1>2, DeleteOldestStep DEF DeleteOldestThreadFiles

LEMMA QueryStep ==
    ASSUME IInv, Querying
    PROVE  IInv' /\ files' = files
<1>1. PICK q \in Queries :
          \/ Lookup(q)
          \/ \E n \in Names : BlockFileLookup(q, n) \/ LookupEnds(q, n) \/ LookupStopped(q, n)
  BY DEF Querying
<1> USE DEF dirVars, syncVars, queryVars, debugVars
<1>2. UNCHANGED <<dirVars, syncVars, removals, debugVars>>
  BY <1>1 DEF Lookup, BlockFileLookup, LookupEnds, LookupStopped
<1>3. /\ todo' \in [Queries -> SUBSET Names]
      /\ lookups' \subseteq Queries \X Names
      /\ \A r \in Queries : todo'[r] \subseteq files
      /\ \A r \in Queries, n \in Names : <<r, n>> \in lookups' => n \in files
  <2>1. CASE Lookup(q)
    BY <2>1 DEF Lookup, IInv, TypeOK, LookupsOpen
  <2>2. ASSUME NEW n \in Names, BlockFileLookup(q, n)
        PROVE  <1>3!:
    BY <2>2 DEF BlockFileLookup, IInv, TypeOK, LookupsOpen
  <2>3. ASSUME NEW n \in Names, LookupEnds(q, n)
        PROVE  <1>3!:
    BY <2>3 DEF LookupEnds, IInv, TypeOK, LookupsOpen
  <2> QED BY <1>1, <2>1, <2>2, <2>3 DEF LookupStopped
<1> QED
  BY <1>2, <1>3 DEF IInv, TypeOK, LookupsOpen, StagesInv, LimitInv, DoomedAreOlder

LEMMA DebugStep ==
    ASSUME IInv, Debugging
    PROVE  IInv' /\ files' = files
<1> USE DEF dirVars, syncVars, queryVars
<1>1. UNCHANGED <<dirVars, syncVars, removals, queryVars>>
  BY DEF Debugging, DebugHandler, DebugHandlerReturns, AllPacketsEnds
<1>2. /\ debug' \subseteq files /\ dumps' \subseteq files
      /\ debug' # {} => sync \in {"idle", "lock"}
  BY DEF Debugging, DebugHandler, DebugHandlerReturns, AllPacketsEnds, IInv, LookupsOpen,
         StagesInv
<1> QED
  BY <1>1, <1>2 DEF IInv, TypeOK, LookupsOpen, StagesInv, LimitInv, DoomedAreOlder

(***************************************************************************)
(* Every step keeps the invariant, and the files it gives up are older     *)
(* than those that stay.                                                   *)
(***************************************************************************)
LEMMA InvStep ==
    ASSUME IInv, [Next]_vars
    PROVE  IInv' /\ \A n \in files \ files', m \in files' : n < m
<1>1. CASE Stenotype \/ TryToDeleteFile
  BY <1>1, DirectoryStep
<1>2. CASE SyncFiles
  BY <1>2, StageStep
<1>3. CASE Syncing
  <2>1. CASE ListPacketFilesOnDisk \/ CleanUpOnLowDiskSpace \/ DiskSufficient \/ DiskFull
             \/ AllUntracked
    BY <2>1, StageStep
  <2>2. CASE TrackNewFile
    BY <2>2, TrackStep
  <2>3. CASE DeleteAboveLimit
    BY <2>3, DeleteStep
  <2>4. CASE PruneOldestThreadFiles
    BY <2>4, StageStep, DeleteStep
  <2>5. CASE UntrackFile
    BY <2>5, UntrackStep
  <2> QED BY <1>3, <2>1, <2>2, <2>3, <2>4, <2>5 DEF Syncing
<1>4. CASE Querying
  BY <1>4, QueryStep
<1>5. CASE Debugging
  BY <1>5, DebugStep
<1>6. CASE UNCHANGED vars
  BY <1>6 DEF vars, dirVars, syncVars, queryVars, debugVars, IInv, TypeOK, LookupsOpen,
              StagesInv, LimitInv, DoomedAreOlder
<1> QED BY <1>1, <1>2, <1>3, <1>4, <1>5, <1>6 DEF Next

LEMMA InvHolds == Spec => []IInv
<1>1. IInv /\ [Next]_vars => IInv'
  BY InvStep
<1> QED BY <1>1, InvInit, PTL DEF Spec

(* The types hold, and every file to be untracked is tracked: log.Fatalf   *)
(* of untrackFile is never reached.                                        *)
THEOREM TypeOKHolds == Spec => []TypeOK
<1>1. IInv => TypeOK
  BY DEF IInv
<1> QED BY <1>1, InvHolds, PTL

(* No reader of a thread is left with a BlockFile that was closed.         *)
THEOREM LookupsOpenHolds == Spec => []LookupsOpen
<1>1. IInv => LookupsOpen
  BY DEF IInv
<1> QED BY <1>1, InvHolds, PTL

(* Between two runs of SyncFiles a thread has no more files than allowed.  *)
THEOREM WithinLimitHolds == Spec => []WithinLimit
<1>1. IInv => WithinLimit
  BY DEF IInv, LimitInv, WithinLimit
<1> QED BY <1>1, InvHolds, PTL

(* A file is given up only when all that stay are newer.                   *)
THEOREM OldestGoFirstHolds == Spec => OldestGoFirst
<1>1. IInv /\ [Next]_vars => [\A n \in files \ files', m \in files' : n < m]_vars
  BY InvStep
<1> QED BY <1>1, InvHolds, PTL DEF Spec, OldestGoFirst

LEMMA PruneStep ==
    ASSUME files \subseteq Names, [Next]_vars, sync = "prune", sync' = "untrack"
    PROVE  LET newest == Size[Max(files)]
               freed == SizeOf(doomed')
           IN  freed >= newest /\ freed <= newest + Size[Max(doomed')]
<1>1. PruneOldestThreadFiles
  BY DEF vars, Next, syncVars, Stenotype, SyncFiles, TryToDeleteFile, Querying, Debugging,
     Syncing, ListPacketFilesOnDisk, TrackNewFile, CleanUpOnLowDiskSpace, DeleteAboveLimit,
     DiskSufficient, DiskFull, UntrackFile, AllUntracked, Lookup, BlockFileLookup, LookupEnds,
     LookupStopped, DebugHandler, AllPacketsEnds, DebugHandlerReturns
<1>2. files # {} /\ doomed' = Oldest(PruneCount)
  BY <1>1 DEF PruneOldestThreadFiles, DeleteOldestThreadFiles
<1> QED BY <1>2, PruneFrees

(* A pruning frees at least the size of the newest file, and exceeds it by *)
(* no more than the size of the last file it deletes, whatever the sizes.  *)
THEOREM PruneFreesEnoughHolds == Spec => PruneFreesEnough
<1> DEFINE Enough == sync = "prune" /\ sync' = "untrack" =>
               LET newest == Size[Max(files)]
                   freed == SizeOf(doomed')
               IN  freed >= newest /\ freed <= newest + Size[Max(doomed')]
<1>1. IInv /\ [Next]_vars => [Enough]_vars
  BY PruneStep DEF IInv, TypeOK
<1> QED BY <1>1, InvHolds, PTL DEF Spec, PruneFreesEnough

-----------------------------------------------------------------------------
(***************************************************************************)
(* The steps Env adds to Thread keep the invariant of Thread.              *)
(***************************************************************************)
LEMMA ThreadUnmoved ==
    ASSUME IInv, UNCHANGED <<syncVars, removals, queryVars, debugVars>>,
           pkt' \in [Names -> Status], idx' \in [Names -> Status]
    PROVE  IInv'
  BY DEF IInv, TypeOK, LookupsOpen, StagesInv, LimitInv, DoomedAreOlder, syncVars,
         queryVars, debugVars

LEMMA DirsTyped ==
    ASSUME pkt \in [Names -> Status], idx \in [Names -> Status]
    PROVE  /\ Shown(pkt) \in [Names -> Status] /\ Shown(idx) \in [Names -> Status]
           /\ Left(pkt) \in [Names -> Status] /\ Left(idx) \in [Names -> Status]
           /\ \A r \in {"pkt", "idx"} \X Names :
                 /\ [pkt EXCEPT ![r[2]] = "removed"] \in [Names -> Status]
                 /\ [idx EXCEPT ![r[2]] = "removed"] \in [Names -> Status]
  BY DEF Shown, Left, Status

(* A stenographer that starts anew has no files, readers or deletions.     *)
LEMMA RestartStep ==
    ASSUME IInv, StenographerRestarts
    PROVE  IInv'
<1>1. pkt' \in [Names -> Status] /\ idx' \in [Names -> Status]
  BY DirsTyped DEF StenographerRestarts, IInv, TypeOK
<1>2. Cardinality(files') <= MaxDirectoryFiles
  BY FS_EmptySet, MaxDirectoryFilesAssumption DEF StenographerRestarts
<1> QED
  BY <1>1, <1>2
  DEF StenographerRestarts, IInv, TypeOK, LookupsOpen, StagesInv, LimitInv, DoomedAreOlder

(* The marks of removeOldFiles are names of the directories.               *)
MarksInv ==
    /\ env \in {"hidden", "packets", "indexes", "remove", "wait"}
    /\ stale \subseteq {"pkt", "idx"} \X Names
    /\ stale # {} => env = "remove"

(***************************************************************************)
(* While stenotype does not run, nothing becomes visible; so what was not  *)
(* visible when it was listed, or when it was compared, is not so later.   *)
(***************************************************************************)
SeenInv == env = "indexes" => \A n \in Names : pkt[n] = "visible" => n \in seen

StaleInv ==
    \A n \in Names :
        /\ <<"pkt", n>> \in stale => idx[n] # "visible"
        /\ <<"idx", n>> \in stale => pkt[n] # "visible"

(* Without errors, what is hidden is left by a stenotype that died, and is *)
(* gone once the hidden files were removed.                                *)
HiddenInv ==
    /\ env # "wait" => \A n \in Names : pkt[n] # "hidden" /\ idx[n] # "hidden"
    /\ env \in {"packets", "indexes", "remove"} /\ ~erred =>
          \A n \in Names : pkt[n] # "dead" /\ idx[n] # "dead"

(* A deletion that has not removed one half removed the other or will.     *)
PairInv ==
    \A n \in Names :
        /\ <<"pkt", n>> \in removals => <<"idx", n>> \in removals \/ idx[n] = "removed"
        /\ <<"idx", n>> \in removals => <<"pkt", n>> \in removals \/ pkt[n] = "removed"

(* A visible half that is alone will be removed: it is marked or a deletion*)
(* is under way.  Between the listings the packet file may go too.         *)
LonelyInv ==
    /\ env = "indexes" /\ ~erred =>
          \A n \in seen : pkt[n] # "visible" =>
              <<"idx", n>> \in removals \/ idx[n] # "visible"
    /\ env = "remove" /\ ~erred =>
          \A n \in Names :
              /\ pkt[n] = "visible" /\ idx[n] # "visible" =>
                    <<"pkt", n>> \in stale \cup removals
              /\ idx[n] = "visible" /\ pkt[n] # "visible" =>
                    <<"idx", n>> \in stale \cup removals

CleanInv == MarksInv /\ SeenInv /\ StaleInv /\ HiddenInv /\ PairInv /\ LonelyInv
EnvInv == IInv /\ seen \subseteq Names /\ CleanInv

LEMMA EnvInvInit == EnvInit => EnvInv
<1> SUFFICES ASSUME EnvInit
             PROVE  EnvInv
  OBVIOUS
<1>1. IInv
  BY InvInit DEF EnvInit
<1>2. CleanInv /\ seen \subseteq Names
  BY DEF EnvInit, Init, CleanInv, MarksInv, SeenInv, StaleInv, HiddenInv, PairInv, LonelyInv
<1> QED BY <1>1, <1>2 DEF EnvInv

(***************************************************************************)
(* What a step of the thread does to the directories, with and without     *)
(* stenotype, and to the deletions under way.                              *)
(***************************************************************************)
LEMMA DeletionStep ==
    ASSUME EnvInv, TryToDeleteFile, UNCHANGED envVars
    PROVE  CleanInv'
<1>1. PICK r \in removals :
          /\ removals' = removals \ {r}
          /\ IF r[1] = "pkt"
             THEN pkt' = [pkt EXCEPT ![r[2]] = "removed"] /\ UNCHANGED idx
             ELSE idx' = [idx EXCEPT ![r[2]] = "removed"] /\ UNCHANGED pkt
  BY DEF TryToDeleteFile
<1>2. PICK m \in Names : r = <<"pkt", m>> \/ r = <<"idx", m>>
  BY <1>1 DEF EnvInv, IInv, TypeOK
<1> USE DEF EnvInv, envVars, CleanInv, IInv, TypeOK
<1>3. CASE r = <<"pkt", m>>
  <2>1. /\ pkt' = [pkt EXCEPT ![m] = "removed"] /\ UNCHANGED idx
        /\ removals' = removals \ {<<"pkt", m>>}
    BY <1>1, <1>3
  <2>2. (MarksInv /\ SeenInv /\ StaleInv /\ HiddenInv)'
    BY <2>1 DEF MarksInv, SeenInv, StaleInv, HiddenInv
  <2>3. PairInv' /\ (idx[m] = "visible" => <<"idx", m>> \in removals')
    BY <1>1, <1>3, <2>1 DEF PairInv
  <2>4. LonelyInv'
    BY <2>1, <2>3 DEF LonelyInv
  <2> QED BY <2>2, <2>3, <2>4
<1>4. CASE r = <<"idx", m>>
  <2>1. /\ idx' = [idx EXCEPT ![m] = "removed"] /\ UNCHANGED pkt
        /\ removals' = removals \ {<<"idx", m>>}
    BY <1>1, <1>4
  <2>2. (MarksInv /\ SeenInv /\ StaleInv /\ HiddenInv)'
    BY <2>1 DEF MarksInv, SeenInv, StaleInv, HiddenInv
  <2>3. PairInv' /\ (pkt[m] = "visible" => <<"pkt", m>> \in removals')
    BY <1>1, <1>4, <2>1 DEF PairInv
  <2>4. LonelyInv'
    BY <2>1, <2>3 DEF LonelyInv
  <2> QED BY <2>2, <2>3, <2>4
<1> QED BY <1>2, <1>3, <1>4

LEMMA SyncingStep ==
    ASSUME EnvInv, SyncFiles \/ Syncing \/ Querying \/ Debugging, UNCHANGED envVars
    PROVE  CleanInv'
<1> USE DEF dirVars
<1>1. UNCHANGED dirVars
  BY DEF SyncFiles, Syncing, ListPacketFilesOnDisk, TrackNewFile, CleanUpOnLowDiskSpace,
         DeleteAboveLimit, DeleteOldestThreadFiles, DiskSufficient, DiskFull,
         PruneOldestThreadFiles, UntrackFile, AllUntracked, Querying, Lookup,
         BlockFileLookup, LookupEnds, LookupStopped, Debugging, DebugHandler,
         DebugHandlerReturns, AllPacketsEnds
<1>2. \E S : removals' = removals \cup BothHalves(S)
  <2>1. CASE DeleteAboveLimit \/ PruneOldestThreadFiles
    <3>1. BothHalves({}) = {}
      BY DEF BothHalves
    <3> QED
      BY <2>1, <3>1 DEF DeleteAboveLimit, DeleteOldestThreadFiles, PruneOldestThreadFiles
  <2>2. CASE UNCHANGED removals
    <3>1. removals' = removals \cup BothHalves({})
      BY <2>2 DEF BothHalves
    <3> QED BY <3>1
  <2> QED
    BY <2>1, <2>2
    DEF SyncFiles, Syncing, ListPacketFilesOnDisk, TrackNewFile, CleanUpOnLowDiskSpace,
        DiskSufficient, DiskFull, UntrackFile, AllUntracked, Querying, Lookup,
        BlockFileLookup, LookupEnds, LookupStopped, Debugging, DebugHandler,
        DebugHandlerReturns, AllPacketsEnds
<1>3. /\ removals \subseteq removals'
      /\ \A n \in Names : \/ {<<"pkt", n>>, <<"idx", n>>} \subseteq removals'
                          \/ /\ <<"pkt", n>> \in removals' => <<"pkt", n>> \in removals
                             /\ <<"idx", n>> \in removals' => <<"idx", n>> \in removals
  BY <1>2 DEF BothHalves
<1> USE <1>1, <1>3 DEF EnvInv, CleanInv, envVars
<1>4. (MarksInv /\ SeenInv /\ StaleInv /\ HiddenInv)'
  BY DEF MarksInv, SeenInv, StaleInv, HiddenInv
<1>5. PairInv'
  BY DEF PairInv
<1>6. LonelyInv'
  BY DEF LonelyInv
<1> QED BY <1>4, <1>5, <1>6

LEMMA StenotypeStep ==
    ASSUME EnvInv, StenotypeRuns /\ Stenotype, UNCHANGED envVars
    PROVE  CleanInv'
<1>1. env = "wait" /\ UNCHANGED removals
  BY DEF StenotypeRuns, Stenotype
<1>2. \A n \in Names : /\ pkt[n] = "removed" => pkt'[n] = "removed"
                       /\ idx[n] = "removed" => idx'[n] = "removed"
  BY DEF Stenotype, RotateTo, PublishPackets, WriteIndex, PublishIndex, Change, EnvInv,
         IInv, TypeOK
<1> QED
  BY <1>1, <1>2
  DEF EnvInv, CleanInv, envVars, MarksInv, SeenInv, StaleInv, HiddenInv, PairInv, LonelyInv

(***************************************************************************)
(* RunStenotype and the two deaths.                                        *)
(***************************************************************************)
LEMMA RemovalStep ==
    ASSUME EnvInv, RemoveMismatched
    PROVE  EnvInv'
<1>1. PICK r \in stale :
          /\ stale' = stale \ {r}
          /\ IF r[1] = "pkt"
             THEN pkt' = [pkt EXCEPT ![r[2]] = "removed"] /\ UNCHANGED idx
             ELSE idx' = [idx EXCEPT ![r[2]] = "removed"] /\ UNCHANGED pkt
  BY DEF RemoveMismatched
<1>2. PICK m \in Names : r = <<"pkt", m>> \/ r = <<"idx", m>>
  BY <1>1 DEF EnvInv, CleanInv, MarksInv
<1>3. /\ UNCHANGED <<syncVars, removals, queryVars, debugVars, env, seen, erred>>
      /\ env = "remove"
  BY DEF RemoveMismatched
<1>4. IInv'
  <2>1. pkt' \in [Names -> Status] /\ idx' \in [Names -> Status]
    BY <1>1, <1>2, DirsTyped DEF EnvInv, IInv, TypeOK
  <2> QED BY <1>3, <2>1, ThreadUnmoved DEF EnvInv
<1> USE DEF EnvInv, CleanInv, IInv, TypeOK
<1>5. CASE r = <<"pkt", m>>
  <2>1. pkt' = [pkt EXCEPT ![m] = "removed"] /\ UNCHANGED idx /\ idx[m] # "visible"
    BY <1>1, <1>5 DEF StaleInv
  <2>2. (MarksInv /\ SeenInv /\ StaleInv /\ HiddenInv /\ PairInv)'
    BY <1>1, <1>3, <1>5, <2>1 DEF MarksInv, SeenInv, StaleInv, HiddenInv, PairInv
  <2>3. LonelyInv'
    BY <1>1, <1>3, <1>5, <2>1 DEF LonelyInv
  <2> QED BY <1>3, <1>4, <2>2, <2>3
<1>6. CASE r = <<"idx", m>>
  <2>1. idx' = [idx EXCEPT ![m] = "removed"] /\ UNCHANGED pkt /\ pkt[m] # "visible"
    BY <1>1, <1>6 DEF StaleInv
  <2>2. (MarksInv /\ SeenInv /\ StaleInv /\ HiddenInv /\ PairInv)'
    BY <1>1, <1>3, <1>6, <2>1 DEF MarksInv, SeenInv, StaleInv, HiddenInv, PairInv
  <2>3. LonelyInv'
    BY <1>1, <1>3, <1>6, <2>1 DEF LonelyInv
  <2> QED BY <1>3, <1>4, <2>2, <2>3
<1> QED BY <1>2, <1>5, <1>6

LEMMA ListingStep ==
    ASSUME EnvInv, RemoveHiddenFiles \/ ListPackets \/ ListIndexes \/ StartStenotype
    PROVE  EnvInv'
<1> USE DEF EnvInv, CleanInv
<1>1. CASE RemoveHiddenFiles
  <2>1. /\ UNCHANGED <<syncVars, removals, queryVars, debugVars, seen, stale, erred>>
        /\ pkt' = Shown(pkt) /\ idx' = Shown(idx) /\ env = "hidden" /\ env' = "packets"
    BY <1>1 DEF RemoveHiddenFiles
  <2>2. IInv'
    BY <2>1, DirsTyped, ThreadUnmoved DEF IInv, TypeOK
  <2>3. \A n \in Names : /\ pkt[n] # "hidden" => pkt'[n] \notin {"hidden", "dead"}
                         /\ idx[n] # "hidden" => idx'[n] \notin {"hidden", "dead"}
                         /\ pkt'[n] = "visible" => pkt[n] = "visible"
                         /\ idx'[n] = "visible" => idx[n] = "visible"
                         /\ pkt[n] = "removed" => pkt'[n] = "removed"
                         /\ idx[n] = "removed" => idx'[n] = "removed"
    BY <2>1 DEF Shown
  <2>4. (MarksInv /\ SeenInv /\ StaleInv /\ HiddenInv /\ PairInv /\ LonelyInv)'
    BY <2>1, <2>3 DEF MarksInv, SeenInv, StaleInv, HiddenInv, PairInv, LonelyInv
  <2> QED BY <2>1, <2>2, <2>4
<1>2. CASE ListPackets
  <2>1. /\ UNCHANGED <<vars, stale, erred>> /\ env = "packets" /\ env' = "indexes"
        /\ seen' = {n \in Names : pkt[n] = "visible"}
    BY <1>2 DEF ListPackets
  <2>2. IInv'
    BY <2>1, InvStep
  <2>3. (MarksInv /\ SeenInv /\ StaleInv /\ HiddenInv /\ PairInv /\ LonelyInv)'
    BY <2>1
    DEF MarksInv, SeenInv, StaleInv, HiddenInv, PairInv, LonelyInv, vars, dirVars
  <2> QED BY <2>1, <2>2, <2>3
<1>3. CASE ListIndexes
  <2>1. /\ UNCHANGED <<vars, seen, erred>> /\ env = "indexes" /\ env' = "remove"
        /\ stale' = Mismatched
    BY <1>3 DEF ListIndexes
  <2>2. IInv'
    BY <2>1, InvStep
  <2>3. \A n \in Names : /\ <<"pkt", n>> \in stale' <=> n \in seen /\ idx[n] # "visible"
                         /\ <<"idx", n>> \in stale' <=> idx[n] = "visible" /\ n \notin seen
    BY <2>1 DEF Mismatched, Listed
  <2>4. MarksInv'
    BY <2>1 DEF MarksInv, Mismatched, Listed
  <2>5. (SeenInv /\ StaleInv /\ HiddenInv /\ PairInv /\ LonelyInv)'
    BY <2>1, <2>3 DEF SeenInv, StaleInv, HiddenInv, PairInv, LonelyInv, vars, dirVars
  <2> QED BY <2>1, <2>2, <2>4, <2>5
<1>4. CASE StartStenotype
  <2>1. UNCHANGED <<vars, seen, stale, erred>> /\ env' = "wait" /\ stale = {}
    BY <1>4 DEF StartStenotype, NothingStale
  <2>2. IInv'
    BY <2>1, InvStep
  <2>3. (MarksInv /\ SeenInv /\ StaleInv /\ HiddenInv /\ PairInv /\ LonelyInv)'
    BY <2>1
    DEF MarksInv, SeenInv, StaleInv, HiddenInv, PairInv, LonelyInv, vars, dirVars
  <2> QED BY <2>1, <2>2, <2>3
<1> QED BY <1>1, <1>2, <1>3, <1>4

LEMMA ErrorStep ==
    ASSUME EnvInv, DirError
    PROVE  EnvInv'
<1> USE DEF EnvInv, CleanInv
<1>1. /\ UNCHANGED <<vars, seen>> /\ erred'
      /\ env' \in {"packets", "remove"} /\ env # "wait"
      /\ stale' \subseteq stale /\ (stale' # {} => env' = "remove")
  BY DEF DirError, HiddenStay, ListingFails, RemoveFails, MarksInv
<1>2. IInv'
  BY <1>1, InvStep
<1>3. (MarksInv /\ SeenInv /\ StaleInv /\ HiddenInv /\ PairInv /\ LonelyInv)'
  BY <1>1
  DEF MarksInv, SeenInv, StaleInv, HiddenInv, PairInv, LonelyInv, vars, dirVars
<1> QED BY <1>1, <1>2, <1>3

LEMMA DeathStep ==
    ASSUME EnvInv, StenotypeDies \/ StenographerRestarts
    PROVE  EnvInv'
<1> USE DEF EnvInv, CleanInv
<1>1. /\ env' = "hidden" /\ stale' = {} /\ seen' \subseteq Names /\ removals' \subseteq removals
      /\ (removals' = removals \/ removals' = {})
      /\ pkt' = Left(pkt) /\ idx' = Left(idx)
  BY DEF StenotypeDies, StenographerRestarts, MarksInv
<1>2. IInv'
  <2>1. CASE StenotypeDies
    BY <1>1, <2>1, DirsTyped, ThreadUnmoved DEF StenotypeDies, IInv, TypeOK
  <2> QED BY <2>1, RestartStep
<1>3. \A n \in Names : /\ pkt'[n] # "hidden" /\ idx'[n] # "hidden"
                       /\ pkt[n] = "removed" => pkt'[n] = "removed"
                       /\ idx[n] = "removed" => idx'[n] = "removed"
  BY <1>1 DEF Left
<1>4. (MarksInv /\ SeenInv /\ StaleInv /\ HiddenInv /\ PairInv /\ LonelyInv)'
  BY <1>1, <1>3 DEF MarksInv, SeenInv, StaleInv, HiddenInv, PairInv, LonelyInv
<1> QED BY <1>1, <1>2, <1>4

LEMMA EnvInvStep == ASSUME EnvInv, [EnvNext]_allVars PROVE EnvInv'
<1>1. CASE RemoveOldFiles \/ StartStenotype
  BY <1>1, ListingStep, RemovalStep, ErrorStep DEF RemoveOldFiles
<1>2. CASE StenotypeDies \/ StenographerRestarts
  BY <1>2, DeathStep
<1>3. CASE \/ ThreadStep(StenotypeRuns /\ Stenotype)
           \/ ThreadStep(SyncFiles \/ Syncing \/ TryToDeleteFile \/ Querying \/ Debugging)
  <2>1. IInv' /\ UNCHANGED envVars
    BY <1>3, InvStep DEF ThreadStep, Next, EnvInv
  <2>2. CleanInv'
    BY <1>3, StenotypeStep, SyncingStep, DeletionStep DEF ThreadStep
  <2> QED BY <2>1, <2>2 DEF EnvInv, envVars
<1>4. CASE UNCHANGED allVars
  <2>1. UNCHANGED vars /\ UNCHANGED envVars
    BY <1>4 DEF allVars
  <2>2. IInv'
    BY <2>1, InvStep DEF EnvInv
  <2> QED
    BY <2>1, <2>2
    DEF EnvInv, CleanInv, MarksInv, SeenInv, StaleInv, HiddenInv, PairInv, LonelyInv,
        vars, dirVars, envVars
<1> QED BY <1>1, <1>2, <1>3, <1>4 DEF EnvNext

LEMMA EnvInvariant == EnvSpec => []EnvInv
<1>1. EnvInv /\ [EnvNext]_allVars => EnvInv'
  BY EnvInvStep
<1> QED BY <1>1, EnvInvInit, PTL DEF EnvSpec

-----------------------------------------------------------------------------
(* With crashes and restarts of both programs too, no reader is left with  *)
(* a closed BlockFile, and the limit holds whenever SyncFiles is done.     *)
THEOREM ThreadSafeInEnv == EnvSpec => [](LookupsOpen /\ WithinLimit)
<1>1. EnvInv => LookupsOpen /\ WithinLimit
  BY DEF EnvInv, IInv, LimitInv, WithinLimit
<1> QED BY <1>1, EnvInvariant, PTL

(* removeOldFiles removes a visible file only when its other half is not   *)
(* visible, whatever SyncFiles does between its listings and the removal.  *)
THEOREM NoPairBrokenHolds == EnvSpec => NoPairBroken
<1>1. EnvInv =>
        \A n \in Names :
          /\ <<"pkt", n>> \in stale \ stale' => idx[n] # "visible"
          /\ <<"idx", n>> \in stale \ stale' => pkt[n] # "visible"
  BY DEF EnvInv, CleanInv, StaleInv
<1> QED BY <1>1, EnvInvariant, PTL DEF EnvSpec, NoPairBroken

(* Unless an error was logged since the last stenotype ended, the next one *)
(* starts with nothing hidden, and no half file that is not being deleted. *)
THEOREM StartsCleanHolds == EnvSpec => StartsClean
<1>1. EnvInv /\ [EnvNext]_allVars =>
        (env = "remove" /\ env' = "wait" /\ ~erred =>
          \A n \in Names :
              /\ {pkt[n], idx[n]} \cap {"hidden", "dead"} = {}
              /\ (pkt[n] = "visible") # (idx[n] = "visible") =>
                    {<<"pkt", n>>, <<"idx", n>>} \cap removals # {})
  <2> SUFFICES ASSUME EnvInv, [EnvNext]_allVars, env = "remove", env' = "wait", ~erred,
                      NEW n \in Names
               PROVE  /\ {pkt[n], idx[n]} \cap {"hidden", "dead"} = {}
                      /\ (pkt[n] = "visible") # (idx[n] = "visible") =>
                            {<<"pkt", n>>, <<"idx", n>>} \cap removals # {}
    OBVIOUS
  <2>1. stale = {}
    BY DEF EnvNext, RemoveOldFiles, RemoveHiddenFiles, ListPackets, ListIndexes,
           RemoveMismatched, DirError, HiddenStay, ListingFails, RemoveFails,
           StartStenotype, NothingStale, StenotypeDies, StenographerRestarts, ThreadStep,
           envVars, allVars
  <2>2. {pkt[n], idx[n]} \cap {"hidden", "dead"} = {}
    BY DEF EnvInv, CleanInv, HiddenInv
  <2>3. ASSUME (pkt[n] = "visible") # (idx[n] = "visible")
        PROVE  {<<"pkt", n>>, <<"idx", n>>} \cap removals # {}
    BY <2>1, <2>3 DEF EnvInv, CleanInv, LonelyInv
  <2> QED BY <2>2, <2>3
<1> QED BY <1>1, EnvInvariant, PTL DEF EnvSpec, StartsClean

=============================================================================
