--------------------------- MODULE FileCacheProofs ---------------------------
(***************************************************************************)
(* Proofs about FileCache for any number of cached files, of goroutines    *)
(* and of files that may be open: the pointers are one list, and the cache *)
(* implements the order of last use.                                       *)
(***************************************************************************)
EXTENDS FileCache, FiniteSetTheorems, SequenceTheorems, TLAPS

(* The set OpenFiles is what the count is of.                              *)
OpenFiles == {c \in CachedFiles : file[c]}

-----------------------------------------------------------------------------
(***************************************************************************)
(* The list.                                                               *)
(***************************************************************************)

(* s is what the pointers f, l, p and n list: each file once, both         *)
(* directions agree, and a file that is not on the list has no links.      *)
IsList(s, f, l, p, n) ==
    /\ s \in Seq(CachedFiles)
    /\ \A i, j \in DOMAIN s : s[i] = s[j] => i = j
    /\ f = IF s = <<>> THEN Nil ELSE s[1]
    /\ l = IF s = <<>> THEN Nil ELSE s[Len(s)]
    /\ p \in [CachedFiles -> CachedFiles \cup {Nil}]
    /\ n \in [CachedFiles -> CachedFiles \cup {Nil}]
    /\ \A i \in DOMAIN s :
          /\ p[s[i]] = IF i = 1 THEN Nil ELSE s[i - 1]
          /\ n[s[i]] = IF i = Len(s) THEN Nil ELSE s[i + 1]
    /\ \A c \in CachedFiles : (\A i \in DOMAIN s : s[i] # c) => p[c] = Nil /\ n[c] = Nil

(* A nonempty set of numbers up to a bound has a least element.            *)
UpTo(S, n) == {m \in S : m <= n}

LEMMA LeastNumber ==
    ASSUME NEW b \in Nat, NEW S \in SUBSET (0 .. b), S # {}
    PROVE  \E m \in S : \A n \in S : m <= n
<1> DEFINE T == {UpTo(S, n) : n \in S}
           R == StrictSubsetOrdering(S)
<1>1. IsWellFoundedOn(R, FiniteSubsetsOf(S))
  BY FS_StrictSubsetOrderingWellFounded
<1>2. T \subseteq FiniteSubsetsOf(S) /\ T # {}
  <2>1. IsFiniteSet(S)
    <3>1. IsFiniteSet(0 .. b)
      BY FS_Interval
    <3> QED BY <3>1, FS_Subset
  <2>2. FiniteSubsetsOf(S) = SUBSET S
    BY <2>1, FS_FiniteSubsetsOfFinite
  <2>3. \A n \in S : UpTo(S, n) \in SUBSET S
    BY DEF UpTo
  <2>4. T \subseteq SUBSET S
    BY <2>3
  <2>5. T # {}
    <3>1. PICK k \in S : TRUE
      OBVIOUS
    <3>2. UpTo(S, k) \in T
      BY <3>1
    <3> QED BY <3>2
  <2> QED BY <2>2, <2>4, <2>5
<1>3. \E X \in T : \A Y \in T : <<Y, X>> \notin R
  <2> HIDE DEF T, R
  <2> QED BY <1>1, <1>2, WFMin
<1>4. PICK m \in S : \A n \in S : <<UpTo(S, n), UpTo(S, m)>> \notin R
  BY <1>3
<1>5. ASSUME NEW n \in S, n < m
      PROVE  FALSE
  <2>1. UpTo(S, n) \subseteq UpTo(S, m) /\ m \in UpTo(S, m) /\ m \notin UpTo(S, n)
    <3>1. \A k \in S : k \in Nat /\ (k <= n => k <= m)
      BY <1>5
    <3>2. m <= m /\ ~(m <= n)
      BY <1>5
    <3> QED BY <3>1, <3>2 DEF UpTo
  <2>2. UpTo(S, n) \subseteq S /\ UpTo(S, m) \subseteq S
    BY DEF UpTo
  <2> QED BY <2>1, <2>2, <1>4 DEF StrictSubsetOrdering
<1> QED BY <1>5

(* A list has no more elements than there are files.                       *)
LEMMA ListLength ==
    ASSUME NEW s, NEW f, NEW l, NEW p, NEW n, IsList(s, f, l, p, n)
    PROVE  /\ NumFiles \in Nat /\ Len(s) \in 0 .. NumFiles
           /\ DOMAIN s = 1 .. Len(s)
           /\ IsFiniteSet({s[i] : i \in DOMAIN s})
           /\ Cardinality({s[i] : i \in DOMAIN s}) = Len(s)
<1> DEFINE D == 1 .. Len(s)
           S == {s[i] : i \in DOMAIN s}
<1>1. s \in Seq(CachedFiles) /\ Len(s) \in Nat /\ DOMAIN s = D /\ s \in [D -> CachedFiles]
  BY DEF IsList
<1>2. IsFiniteSet(D) /\ Cardinality(D) = Len(s)
  BY <1>1, FS_Interval
<1>3. IsFiniteSet(S) /\ Cardinality(S) = Len(s)
  <2>1. s \in Bijection(D, S)
    <3>1. s \in [D -> S] /\ \A x \in S : \E i \in D : s[i] = x
      BY <1>1
    <3>2. \A i, j \in D : s[i] = s[j] => i = j
      BY <1>1 DEF IsList
    <3> HIDE DEF D, S
    <3> QED BY <3>1, <3>2 DEF Bijection, Injection, Surjection, IsInjective
  <2>2. ExistsBijection(D, S)
    BY <2>1 DEF ExistsBijection
  <2> HIDE DEF D, S
  <2> QED BY <1>2, <2>2, FS_Bijection
<1>4. S \subseteq CachedFiles
  BY <1>1
<1>5. NumFiles \in Nat /\ Cardinality(S) <= NumFiles
  BY <1>4, CachedFilesAssumption, FS_CardinalityType, FS_Subset DEF NumFiles
<1>6. Len(s) \in 0 .. NumFiles
  <2> HIDE DEF S
  <2> QED BY <1>1, <1>3, <1>5
<1> QED BY <1>1, <1>3, <1>5, <1>6

(* The walk from first goes through the list and then stays at its end.    *)
WalkOf(s) == [n \in 0 .. NumFiles |-> IF n < Len(s) THEN s[n + 1] ELSE Nil]

WalkStep(w) ==
    w = [n \in 0 .. NumFiles |->
            IF n = 0 THEN first ELSE IF w[n - 1] = Nil THEN Nil ELSE next[w[n - 1]]]

LEMMA WalkIs ==
    ASSUME NEW s, IsList(s, first, last, prev, next)
    PROVE  Walk = WalkOf(s)
<1> DEFINE w == WalkOf(s)
<1>1. /\ NumFiles \in Nat /\ Len(s) \in 0 .. NumFiles /\ s \in Seq(CachedFiles)
      /\ DOMAIN s = 1 .. Len(s)
  <2>1. NumFiles \in Nat /\ Len(s) \in 0 .. NumFiles /\ DOMAIN s = 1 .. Len(s)
    BY ListLength
  <2> QED BY <2>1 DEF IsList
<1>2. \A n \in 0 .. NumFiles : w[n] = IF n < Len(s) THEN s[n + 1] ELSE Nil
  BY DEF WalkOf
<1>3. ASSUME NEW n \in 0 .. NumFiles
      PROVE  w[n] = IF n = 0 THEN first ELSE IF w[n - 1] = Nil THEN Nil ELSE next[w[n - 1]]
  <2> HIDE DEF w
  <2>1. CASE n = 0
    <3>1. first = IF Len(s) = 0 THEN Nil ELSE s[1]
      BY <1>1 DEF IsList
    <3> QED BY <1>1, <1>2, <2>1, <3>1
  <2>2. CASE n # 0
    <3>1. n - 1 \in 0 .. NumFiles /\ w[n - 1] = IF n - 1 < Len(s) THEN s[n] ELSE Nil
      BY <1>1, <1>2, <2>2
    <3>2. CASE n - 1 < Len(s)
      <4>1. n \in DOMAIN s /\ s[n] \in CachedFiles
        BY <1>1, <2>2, <3>2
      <4>2. w[n - 1] # Nil /\ next[w[n - 1]] = IF n = Len(s) THEN Nil ELSE s[n + 1]
        BY <3>1, <3>2, <4>1, CachedFilesAssumption DEF IsList
      <4>3. w[n] = IF n = Len(s) THEN Nil ELSE s[n + 1]
        <5>1. w[n] = (IF n < Len(s) THEN s[n + 1] ELSE Nil) /\ n <= Len(s)
          BY <1>1, <1>2, <3>2
        <5>2. CASE n = Len(s)
          <6>1. ~(n < Len(s))
            BY <1>1, <5>2
          <6> QED BY <5>1, <5>2, <6>1
        <5>3. CASE n # Len(s)
          <6>1. n < Len(s)
            <7> DEFINE m == Len(s)
            <7>1. m \in Nat /\ n \in Nat /\ n <= m /\ n # m
              <8>1. m \in Nat
                BY <1>1
              <8>2. n \in Nat
                BY <1>1
              <8>3. n <= m
                BY <5>1
              <8> QED BY <8>1, <8>2, <8>3, <5>3
            <7> HIDE DEF m
            <7>2. n < m
              BY <7>1
            <7> QED BY <7>2 DEF m
          <6> QED BY <5>1, <5>3, <6>1
        <5> QED BY <5>2, <5>3
      <4> QED BY <2>2, <4>2, <4>3
    <3>3. CASE ~(n - 1 < Len(s))
      BY <1>1, <1>2, <2>2, <3>1, <3>3
    <3> QED BY <3>2, <3>3
  <2> QED BY <2>1, <2>2
<1>4. WalkStep(w)
  BY <1>3 DEF WalkStep, WalkOf
<1>5. WalkStep(Walk)
  <2>1. Walk = CHOOSE v : WalkStep(v)
    BY DEF Walk, WalkStep
  <2> HIDE DEF w
  <2> QED BY <1>4, <2>1
<1>6. ASSUME NEW v, WalkStep(v)
      PROVE  v = w
  <2> DEFINE Differ == {n \in 0 .. NumFiles : v[n] # w[n]}
  <2>1. /\ v = [n \in 0 .. NumFiles |-> v[n]]
        /\ \A n \in 0 .. NumFiles :
              v[n] = IF n = 0 THEN first ELSE IF v[n - 1] = Nil THEN Nil ELSE next[v[n - 1]]
    BY <1>6 DEF WalkStep
  <2>2. w = [n \in 0 .. NumFiles |-> w[n]]
    BY DEF WalkOf
  <2> HIDE DEF w
  <2>3. SUFFICES ASSUME Differ # {} PROVE FALSE
    BY <2>1, <2>2
  <2>4. PICK m \in Differ : \A n \in Differ : m <= n
    <3>1. Differ \in SUBSET (0 .. NumFiles)
      OBVIOUS
    <3> HIDE DEF Differ
    <3> QED BY <1>1, <2>3, <3>1, LeastNumber
  <2>5. m \in 0 .. NumFiles /\ v[m] # w[m]
    BY <2>4
  <2>6. m # 0
    BY <1>3, <2>1, <2>5
  <2>7. m - 1 \in 0 .. NumFiles /\ m - 1 \notin Differ
    BY <1>1, <2>4, <2>5, <2>6
  <2>8. v[m - 1] = w[m - 1]
    BY <2>7
  <2> QED BY <1>3, <2>1, <2>5, <2>6, <2>8
<1> QED BY <1>5, <1>6

(* A list is what ListOK says, and Order is it.                            *)
ListFact ==
    \A s : IsList(s, first, last, prev, next) =>
        Order = s /\ Listed = {s[i] : i \in DOMAIN s} /\ ListOK

LEMMA ListIs == ListFact
<1> SUFFICES ASSUME NEW s, IsList(s, first, last, prev, next)
             PROVE  Order = s /\ Listed = {s[i] : i \in DOMAIN s} /\ ListOK
  BY DEF ListFact
<1> DEFINE S == {s[i] : i \in DOMAIN s}
<1>1. /\ NumFiles \in Nat /\ Len(s) \in 0 .. NumFiles
      /\ DOMAIN s = 1 .. Len(s) /\ Cardinality(S) = Len(s)
  BY ListLength
<1>2. s \in Seq(CachedFiles)
  BY DEF IsList
<1>3. \A n \in 0 .. NumFiles : Walk[n] = IF n < Len(s) THEN s[n + 1] ELSE Nil
  BY WalkIs DEF WalkOf
<1>4. \A i \in DOMAIN s : s[i] \in CachedFiles /\ s[i] # Nil /\ i - 1 \in 0 .. NumFiles
                         /\ Walk[i - 1] = s[i]
  BY <1>1, <1>2, <1>3, CachedFilesAssumption
<1>5. Listed = S
  <2>1. ASSUME NEW x \in Listed PROVE x \in S
    <3>1. PICK n \in 0 .. NumFiles : x = Walk[n] /\ Walk[n] # Nil
      BY <2>1 DEF Listed
    <3>2. n < Len(s) /\ x = s[n + 1] /\ n + 1 \in DOMAIN s
      BY <1>1, <1>3, <3>1
    <3> QED BY <3>2
  <2>2. ASSUME NEW x \in S PROVE x \in Listed
    <3>1. PICK i \in DOMAIN s : x = s[i]
      BY <2>2
    <3> QED BY <1>4, <3>1 DEF Listed
  <2> QED BY <2>1, <2>2
<1>6. Cardinality(Listed) = Len(s)
  BY <1>1, <1>5
<1>7. Order = s
  <2>1. Order = [n \in 1 .. Len(s) |-> Walk[n - 1]]
    BY <1>6 DEF Order
  <2>2. s = [n \in 1 .. Len(s) |-> s[n]]
    BY <1>1, <1>2
  <2> QED BY <1>1, <1>4, <2>1, <2>2
<1>8. ListOK
  <2>1. Walk[NumFiles] = Nil
    BY <1>1, <1>3
  <2>2. last = IF Listed = {} THEN Nil ELSE s[Len(s)]
    <3>1. Listed = {} <=> s = <<>>
      <4>1. CASE s = <<>>
        BY <1>5, <4>1
      <4>2. CASE s # <<>>
        <5>1. 1 \in DOMAIN s
          BY <1>1, <1>2, <4>2
        <5>2. s[1] \in S
          BY <5>1
        <5> QED BY <1>5, <4>2, <5>2
      <4> QED BY <4>1, <4>2
    <3> QED BY <3>1 DEF IsList
  <2>3. \A n \in 1 .. Len(s) : prev[s[n]] = IF n = 1 THEN Nil ELSE s[n - 1]
    BY <1>1 DEF IsList
  <2>4. \A c \in CachedFiles \ Listed : prev[c] = Nil /\ next[c] = Nil
    BY <1>5 DEF IsList
  <2> QED BY <1>6, <1>7, <2>1, <2>2, <2>3, <2>4 DEF ListOK
<1> QED BY <1>5, <1>7, <1>8

(* s with c, which is its k-th element or none, in front.                  *)
IsPlace(k, s, c) ==
    \/ k \in DOMAIN s /\ s[k] = c
    \/ k = Len(s) + 1 /\ \A i \in DOMAIN s : s[i] # c

Moved(s, c, k) ==
    [i \in 1 .. IF k \in DOMAIN s THEN Len(s) ELSE k |->
        IF i = 1 THEN c ELSE IF i <= k THEN s[i - 1] ELSE s[i]]

(* Moving a file to the front does that to the list.                       *)
LEMMA MovedIsList ==
    ASSUME NEW s, IsList(s, first, last, prev, next),
           NEW c \in CachedFiles, NEW k, IsPlace(k, s, c), MoveToFront(c)
    PROVE  IsList(Moved(s, c, k), first', last', prev', next')
<1> DEFINE t == Moved(s, c, k)
           m == Len(s)
<1>1. /\ s \in Seq(CachedFiles) /\ m \in Nat /\ DOMAIN s = 1 .. m
      /\ \A i \in 1 .. m : s[i] \in CachedFiles
  BY DEF IsList
<1>2. c # Nil /\ (\A i \in 1 .. m : s[i] # Nil)
  BY <1>1, CachedFilesAssumption
<1>3. \A i, j \in 1 .. m : s[i] = s[j] => i = j
  BY <1>1 DEF IsList
<1>4. /\ k \in 1 .. m + 1 /\ (k <= m => s[k] = c)
      /\ k = m + 1 => \A i \in 1 .. m : s[i] # c
  BY <1>1 DEF IsPlace
<1>5. /\ first = (IF m = 0 THEN Nil ELSE s[1]) /\ last = (IF m = 0 THEN Nil ELSE s[m])
      /\ prev \in [CachedFiles -> CachedFiles \cup {Nil}]
      /\ next \in [CachedFiles -> CachedFiles \cup {Nil}]
  BY <1>1 DEF IsList
<1>6. \A i \in 1 .. m : /\ prev[s[i]] = IF i = 1 THEN Nil ELSE s[i - 1]
                        /\ next[s[i]] = IF i = m THEN Nil ELSE s[i + 1]
  BY <1>1 DEF IsList
<1>7. \A x \in CachedFiles : (\A i \in 1 .. m : s[i] # x) => prev[x] = Nil /\ next[x] = Nil
  BY <1>1 DEF IsList
<1> DEFINE q == IF k <= m THEN m ELSE k
<1>8. /\ t = [i \in 1 .. q |-> IF i = 1 THEN c ELSE IF i <= k THEN s[i - 1] ELSE s[i]]
      /\ q \in Nat \ {0}
  BY <1>1, <1>4 DEF Moved
<1>8a. /\ m \in Nat /\ k \in Nat /\ q \in Nat /\ 1 <= k /\ k <= m + 1 /\ 1 <= q
       /\ (k <= m => q = m) /\ (k = m + 1 => q = m + 1)
  <2>1. m \in Nat /\ k \in 1 .. m + 1
    BY <1>1, <1>4
  <2> HIDE DEF m
  <2> QED BY <2>1
<1>9. /\ t \in Seq(CachedFiles) /\ Len(t) = q /\ DOMAIN t = 1 .. q /\ t # <<>>
      /\ \A i \in 1 .. q : t[i] = IF i = 1 THEN c ELSE IF i <= k THEN s[i - 1] ELSE s[i]
  <2> HIDE DEF t, q
  <2>1. \A i \in 1 .. q : (IF i = 1 THEN c ELSE IF i <= k THEN s[i - 1] ELSE s[i]) \in CachedFiles
    BY <1>1, <1>4 DEF q
  <2>2. t \in [1 .. q -> CachedFiles]
    BY <1>8, <2>1
  <2> QED BY <1>8, <2>2
<1> HIDE DEF t, q
<1>10. \A i, j \in 1 .. q : t[i] = t[j] => i = j
  <2> SUFFICES ASSUME NEW i \in 1 .. q, NEW j \in 1 .. q, t[i] = t[j], i < j
               PROVE  FALSE
    BY <1>8
  <2>1. CASE i = 1
    BY <1>1, <1>3, <1>4, <1>8, <1>9, <2>1 DEF q
  <2>2. CASE i # 1
    BY <1>1, <1>3, <1>4, <1>8, <1>9, <2>2 DEF q
  <2> QED BY <2>1, <2>2
<1>11. \A x \in CachedFiles : (\A i \in 1 .. q : t[i] # x) <=> x # c /\ \A i \in 1 .. m : s[i] # x
  <2> TAKE x \in CachedFiles
  <2>1. ASSUME NEW i \in 1 .. m, s[i] = x PROVE \E j \in 1 .. q : t[j] = x
    <3>1. CASE i < k
      <4>1. i + 1 \in 1 .. q /\ t[i + 1] = x
        BY <1>1, <1>4, <1>8, <1>9, <2>1, <3>1 DEF q
      <4> QED BY <4>1
    <3>2. CASE i = k
      <4>1. 1 \in 1 .. q /\ t[1] = x
        BY <1>1, <1>4, <1>8, <1>9, <2>1, <3>2 DEF q
      <4> QED BY <4>1
    <3>3. CASE i > k
      <4>1. i \in 1 .. q /\ t[i] = x
        BY <1>1, <1>4, <1>8, <1>9, <2>1, <3>3 DEF q
      <4> QED BY <4>1
    <3> QED BY <1>1, <1>4, <3>1, <3>2, <3>3
  <2>2. ASSUME NEW j \in 1 .. q, t[j] = x, x # c PROVE \E i \in 1 .. m : s[i] = x
    <3>1. CASE j <= k
      <4>1. j - 1 \in 1 .. m /\ s[j - 1] = x
        BY <1>1, <1>4, <1>8, <1>9, <2>2, <3>1 DEF q
      <4> QED BY <4>1
    <3>2. CASE j > k
      <4>1. j \in 1 .. m /\ s[j] = x
        BY <1>1, <1>4, <1>8, <1>9, <2>2, <3>2 DEF q
      <4> QED BY <4>1
    <3> QED BY <1>1, <1>4, <3>1, <3>2
  <2>3. 1 \in 1 .. q /\ t[1] = c
    BY <1>8, <1>9
  <2> QED BY <2>1, <2>2, <2>3
<1>12. CASE first = c
  <2>1. k = 1 /\ m > 0 /\ q = m
    <3>1. m > 0 /\ s[1] = c /\ 1 \in 1 .. m
      BY <1>1, <1>2, <1>5, <1>12
    <3>2. k <= m
      BY <1>1, <1>4, <3>1
    <3>3. k \in 1 .. m /\ s[k] = s[1]
      BY <1>1, <1>4, <3>1, <3>2
    <3> QED BY <1>3, <3>1, <3>2, <3>3 DEF q
  <2>2. t = s
    <3>1. \A i \in 1 .. m : t[i] = s[i]
      BY <1>1, <1>4, <1>8, <1>9, <2>1
    <3>2. Len(t) = Len(s)
      BY <1>9, <2>1
    <3> QED BY <1>1, <1>9, <2>1, <3>1, <3>2
  <2> QED BY <1>12, <2>2 DEF MoveToFront, listVars, t
<1>13. CASE first # c
  <2>1. k > 1 \/ m = 0
    BY <1>1, <1>4, <1>5, <1>13
  <2>2. /\ prev[c] = (IF k \in 2 .. m THEN s[k - 1] ELSE Nil)
        /\ next[c] = (IF k \in 2 .. m - 1 THEN s[k + 1] ELSE Nil)
    <3>1. CASE k = m + 1
      BY <1>1, <1>4, <1>7, <3>1
    <3>2. CASE k <= m
      <4>1. k \in 1 .. m /\ k # 1 /\ s[k] = c
        BY <1>1, <1>4, <2>1, <3>2
      <4>2. prev[c] = s[k - 1] /\ next[c] = IF k = m THEN Nil ELSE s[k + 1]
        BY <1>6, <4>1
      <4>3. CASE k = m
        <5>1. k \in 2 .. m /\ k \notin 2 .. m - 1
          BY <1>8a, <4>1, <4>3
        <5> QED BY <4>2, <4>3, <5>1
      <4>4. CASE k # m
        <5>1. k \in 2 .. m /\ k \in 2 .. m - 1
          BY <1>8a, <4>1, <4>4
        <5> QED BY <4>2, <4>4, <5>1
      <4> QED BY <4>3, <4>4
    <3> QED BY <1>8a, <3>1, <3>2
  <2>3. /\ first' = c
        /\ prev' \in [CachedFiles -> CachedFiles \cup {Nil}]
        /\ next' \in [CachedFiles -> CachedFiles \cup {Nil}]
    BY <1>1, <1>2, <1>5, <1>13, <2>2 DEF MoveToFront, Unlinked
  <2>4. last' = t[q]
    <3>1. last' = IF last = Nil THEN c ELSE IF last = c THEN prev[c] ELSE last
      BY <1>13 DEF MoveToFront, LastWithout
    <3>2. q \in 1 .. q /\ t[q] = IF q = 1 THEN c ELSE IF q <= k THEN s[q - 1] ELSE s[q]
      BY <1>8, <1>9
    <3>3. CASE m = 0
      BY <1>4, <1>5, <3>1, <3>2, <3>3 DEF q
    <3>4. CASE m > 0 /\ k = m + 1
      <4>1. last # Nil /\ last # c /\ last = s[m] /\ q = m + 1
        BY <1>1, <1>2, <1>4, <1>5, <3>4 DEF q
      <4> QED BY <1>1, <3>1, <3>2, <3>4, <4>1
    <3>5. CASE m > 0 /\ k = m
      <4>1. q = m /\ m >= 2 /\ k \in 2 .. m /\ q # 1 /\ q <= k
        BY <1>8a, <2>1, <3>5
      <4>2. last = s[m] /\ s[m] = c /\ prev[c] = s[m - 1]
        BY <1>4, <1>5, <1>8a, <2>2, <3>5, <4>1
      <4>3. last # Nil
        BY <1>2, <4>2
      <4> QED BY <3>1, <3>2, <4>1, <4>2, <4>3
    <3>6. CASE m > 0 /\ k < m
      <4>1. q = m /\ m # 0 /\ k \in 1 .. m /\ m \in 1 .. m /\ q # 1 /\ ~(q <= k) /\ m # k
        BY <1>8a, <2>1, <3>6
      <4>2. last = s[m] /\ s[m] # Nil /\ s[k] = c
        BY <1>2, <1>4, <1>5, <1>8a, <4>1
      <4>3. last # c
        BY <1>3, <4>1, <4>2
      <4> QED BY <3>1, <3>2, <4>1, <4>2, <4>3
    <3>7. k < m \/ k = m \/ k = m + 1
      BY <1>8a
    <3>8. m = 0 \/ m > 0
      BY <1>8a
    <3> QED BY <3>3, <3>4, <3>5, <3>6, <3>7, <3>8
  <2>5. \A x \in CachedFiles :
           next'[x] = IF x = c /\ m > 0 THEN s[1]
                      ELSE IF k \in 2 .. m /\ x = s[k - 1] THEN next[c] ELSE next[x]
    BY <1>1, <1>2, <1>5, <1>13, <2>2 DEF MoveToFront, Unlinked
  <2>6. \A x \in CachedFiles :
           prev'[x] = IF x = c THEN Nil
                      ELSE IF m > 0 /\ x = s[1] THEN c
                      ELSE IF k \in 2 .. m - 1 /\ x = s[k + 1] THEN prev[c] ELSE prev[x]
    BY <1>1, <1>2, <1>5, <1>13, <2>2 DEF MoveToFront, Unlinked
  <2>7. ASSUME NEW i \in 1 .. q
        PROVE  next'[t[i]] = IF i = q THEN Nil ELSE t[i + 1]
    <3>1. CASE i = 1
      BY <1>1, <1>2, <1>3, <1>4, <1>8, <1>9, <2>1, <2>2, <2>5, <3>1 DEF q
    <3>2. CASE i > 1 /\ i < k
      <4>1. /\ i - 1 \in 1 .. m /\ i # q /\ i + 1 \in 1 .. q
            /\ t[i] = s[i - 1] /\ t[i + 1] = s[i]
        <5>1. /\ i - 1 \in 1 .. m /\ i # q /\ i + 1 \in 1 .. q
              /\ i # 1 /\ i <= k /\ i + 1 # 1 /\ i + 1 <= k /\ (i + 1) - 1 = i
          BY <1>8a, <3>2
        <5> QED BY <1>9, <5>1
      <4>2. s[i - 1] # c
        <5>1. CASE k <= m
          <6>1. k \in 1 .. m /\ i - 1 # k
            BY <1>1, <1>4, <3>2, <5>1
          <6> QED BY <1>3, <1>4, <4>1, <5>1, <6>1
        <5>2. CASE k = m + 1
          BY <1>4, <4>1, <5>2
        <5> QED BY <1>1, <1>4, <5>1, <5>2
      <4>3. k \in 2 .. m => s[i - 1] # s[k - 1]
        <5>1. k \in 2 .. m => k - 1 \in 1 .. m /\ i - 1 # k - 1
          BY <1>1, <3>2
        <5> QED BY <1>3, <4>1, <5>1
      <4>4. next[s[i - 1]] = s[i]
        <5>1. i - 1 # m /\ (i - 1) + 1 = i
          BY <1>1, <1>4, <3>2
        <5> QED BY <1>6, <4>1, <5>1
      <4> QED BY <1>1, <2>5, <4>1, <4>2, <4>3, <4>4
    <3>3. CASE i > 1 /\ i = k
      <4>1. i - 1 \in 1 .. m /\ t[i] = s[i - 1] /\ s[i - 1] # c
        <5>1. i - 1 \in 1 .. m /\ t[i] = s[i - 1] /\ i - 1 # k
          BY <1>1, <1>4, <1>9, <3>3 
        <5>2. CASE k <= m
          <6>1. k \in 1 .. m
            BY <1>1, <1>4, <5>2
          <6> QED BY <1>3, <1>4, <5>1, <5>2, <6>1
        <5>3. CASE k = m + 1
          BY <1>4, <5>1, <5>3
        <5> QED BY <1>1, <1>4, <5>1, <5>2, <5>3
      <4>2. CASE k = m + 1
        <5>1. i = q /\ i - 1 = m /\ k \notin 2 .. m
          BY <1>1, <3>3, <4>2 DEF q
        <5>2. next[s[i - 1]] = Nil
          BY <1>6, <4>1, <5>1
        <5> QED BY <1>1, <2>5, <4>1, <5>1, <5>2
      <4>3. CASE k <= m
        <5>1. k \in 2 .. m /\ q = m
          BY <1>1, <1>4, <3>3, <4>3 DEF q
        <5>2. next'[t[i]] = next[c]
          BY <1>1, <2>5, <3>3, <4>1, <5>1
        <5>3. k # m => i + 1 \in 1 .. q /\ t[i + 1] = s[k + 1]
          <6>1. k # m => i + 1 \in 1 .. q /\ i + 1 # 1 /\ ~(i + 1 <= k) /\ i + 1 = k + 1
            BY <1>8a, <3>3, <5>1
          <6> QED BY <1>9, <6>1
        <5>4. CASE k = m
          <6>1. k \notin 2 .. m - 1 /\ i = q
            BY <1>8a, <3>3, <5>1, <5>4
          <6> QED BY <2>2, <5>2, <6>1
        <5>5. CASE k # m
          <6>1. k \in 2 .. m - 1 /\ i # q
            BY <1>8a, <3>3, <5>1, <5>5
          <6> QED BY <2>2, <5>2, <5>3, <5>5, <6>1
        <5> QED BY <5>4, <5>5
      <4> QED BY <1>1, <1>4, <4>2, <4>3
    <3>4. CASE i > 1 /\ i > k
      <4>1. q = m /\ k \in 1 .. m /\ i \in 1 .. m /\ t[i] = s[i] /\ s[k] = c
        <5>1. k <= m /\ q = m /\ k \in 1 .. m /\ i \in 1 .. m /\ i # 1 /\ ~(i <= k)
          BY <1>8a, <3>4
        <5> QED BY <1>4, <1>9, <5>1
      <4>2. s[i] # c
        BY <1>3, <3>4, <4>1
      <4>3. k \in 2 .. m => s[i] # s[k - 1]
        <5>1. k \in 2 .. m => k - 1 \in 1 .. m /\ i # k - 1
          BY <1>1, <3>4
        <5> QED BY <1>3, <4>1, <5>1
      <4>4. next[s[i]] = IF i = m THEN Nil ELSE s[i + 1]
        BY <1>6, <4>1
      <4>5. i # m => t[i + 1] = s[i + 1]
        <5>1. i # m => i + 1 \in 1 .. q /\ i + 1 # 1 /\ ~(i + 1 <= k)
          BY <1>8a, <3>4, <4>1
        <5> QED BY <1>9, <5>1
      <4> QED BY <1>1, <2>5, <4>1, <4>2, <4>3, <4>4, <4>5
    <3> QED BY <1>1, <1>4, <1>8, <3>1, <3>2, <3>3, <3>4
  <2>8. ASSUME NEW i \in 1 .. q
        PROVE  prev'[t[i]] = IF i = 1 THEN Nil ELSE t[i - 1]
    <3>1. CASE i = 1
      BY <1>9, <2>6, <3>1
    <3>2. CASE i = 2
      <4>1. m > 0 /\ k >= 2 /\ t[i] = s[1] /\ t[i - 1] = c /\ s[1] \in CachedFiles
        BY <1>1, <1>4, <1>8, <1>9, <2>1, <3>2 DEF q
      <4>2. s[1] # c
        BY <1>5, <1>13, <4>1
      <4> QED BY <2>6, <3>2, <4>1, <4>2
    <3>3. CASE i > 2 /\ i <= k
      <4>1. /\ i - 1 \in 1 .. m /\ i - 1 # k /\ 1 \in 1 .. m
            /\ t[i] = s[i - 1] /\ t[i - 1] = s[i - 2] /\ i - 1 # 1
        BY <1>1, <1>4, <1>8, <1>9, <3>3 DEF q
      <4>2. s[i - 1] # c
        <5>1. CASE k <= m
          <6>1. k \in 1 .. m
            BY <1>1, <1>4, <5>1
          <6> QED BY <1>3, <1>4, <4>1, <5>1, <6>1
        <5>2. CASE k = m + 1
          BY <1>4, <4>1, <5>2
        <5> QED BY <1>1, <1>4, <5>1, <5>2
      <4>3. s[i - 1] # s[1]
        BY <1>3, <4>1
      <4>4. k \in 2 .. m - 1 => s[i - 1] # s[k + 1]
        <5>1. k \in 2 .. m - 1 => k + 1 \in 1 .. m /\ i - 1 # k + 1
          BY <1>1, <3>3
        <5> QED BY <1>3, <4>1, <5>1
      <4>5. prev[s[i - 1]] = s[i - 2]
        <5>1. (i - 1) - 1 = i - 2
          OBVIOUS
        <5> QED BY <1>6, <4>1, <5>1
      <4> QED BY <1>1, <2>6, <3>3, <4>1, <4>2, <4>3, <4>4, <4>5
    <3>4. CASE i > 2 /\ i > k
      <4>1. /\ q = m /\ k \in 2 .. m - 1 /\ k \in 1 .. m /\ i \in 1 .. m /\ 1 \in 1 .. m
            /\ t[i] = s[i] /\ s[k] = c /\ k + 1 \in 1 .. m
        <5>1. /\ k <= m /\ q = m /\ k \in 2 .. m - 1 /\ k \in 1 .. m /\ i \in 1 .. m
              /\ 1 \in 1 .. m /\ k + 1 \in 1 .. m /\ i # 1 /\ ~(i <= k)
          BY <1>8a, <2>1, <3>4
        <5> QED BY <1>4, <1>9, <5>1
      <4>2. s[i] # c /\ s[i] # s[1]
        BY <1>3, <3>4, <4>1
      <4>3. CASE i = k + 1
        <5>1. i - 1 \in 1 .. q /\ t[i - 1] = s[k - 1]
          BY <1>1, <1>9, <3>4, <4>1, <4>3
        <5>2. prev'[t[i]] = prev[c]
          BY <1>1, <2>6, <4>1, <4>2, <4>3
        <5>3. prev[c] = s[k - 1]
          BY <1>1, <2>2, <4>1
        <5> QED BY <3>4, <5>1, <5>2, <5>3
      <4>4. CASE i # k + 1
        <5>1. i - 1 \in 1 .. q /\ t[i - 1] = s[i - 1]
          BY <1>1, <1>9, <3>4, <4>1, <4>4
        <5>2. s[i] # s[k + 1]
          BY <1>3, <4>1, <4>4
        <5>3. prev'[t[i]] = prev[s[i]]
          BY <1>1, <2>6, <4>1, <4>2, <5>2
        <5>4. prev[s[i]] = s[i - 1]
          BY <1>6, <3>4, <4>1
        <5> QED BY <3>4, <5>1, <5>3, <5>4
      <4> QED BY <4>3, <4>4
    <3> QED BY <1>1, <1>4, <1>8, <3>1, <3>2, <3>3, <3>4
  <2>9. \A x \in CachedFiles : (\A i \in 1 .. q : t[i] # x) => prev'[x] = Nil /\ next'[x] = Nil
    BY <1>1, <1>4, <1>7, <1>11, <2>5, <2>6
  <2>10. first' = t[1]
    BY <1>8, <1>9, <2>3
  <2> QED BY <1>9, <1>10, <2>3, <2>4, <2>7, <2>8, <2>9, <2>10 DEF IsList, t
<1> QED BY <1>12, <1>13

(* An eviction takes the last file off a list of two or more.              *)
Shorter(s) == [i \in 1 .. Len(s) - 1 |-> s[i]]

EvictList ==
    LET cut == [next EXCEPT ![last] = Nil]
    IN  /\ first' = first
        /\ last' = prev[last]
        /\ next' = IF last' = Nil THEN cut ELSE [cut EXCEPT ![last'] = Nil]
        /\ prev' = [prev EXCEPT ![last] = Nil]

LEMMA ShorterIsList ==
    ASSUME NEW s, IsList(s, first, last, prev, next), Len(s) >= 2, EvictList
    PROVE  IsList(Shorter(s), first', last', prev', next')
<1> DEFINE t == Shorter(s)
           m == Len(s)
           q == m - 1
<1>1. /\ s \in Seq(CachedFiles) /\ m \in Nat /\ DOMAIN s = 1 .. m
      /\ \A i \in 1 .. m : s[i] \in CachedFiles
  BY DEF IsList
<1>2. \A i \in 1 .. m : s[i] # Nil
  BY <1>1, CachedFilesAssumption
<1>3. \A i, j \in 1 .. m : s[i] = s[j] => i = j
  BY <1>1 DEF IsList
<1>4. /\ prev \in [CachedFiles -> CachedFiles \cup {Nil}]
      /\ next \in [CachedFiles -> CachedFiles \cup {Nil}]
  BY DEF IsList
<1>5. \A i \in 1 .. m : /\ prev[s[i]] = IF i = 1 THEN Nil ELSE s[i - 1]
                        /\ next[s[i]] = IF i = m THEN Nil ELSE s[i + 1]
  BY <1>1 DEF IsList
<1>6. \A x \in CachedFiles : (\A i \in 1 .. m : s[i] # x) => prev[x] = Nil /\ next[x] = Nil
  BY <1>1 DEF IsList
<1>7. s # <<>>
  BY <1>1
<1>8. first = s[1] /\ last = s[m]
  BY <1>7 DEF IsList
<1>9. t = [i \in 1 .. q |-> s[i]]
  BY DEF Shorter
<1>10. m >= 2
  OBVIOUS
<1> HIDE DEF m
<1>11. q \in Nat /\ 1 <= q /\ q + 1 = m /\ m # 1 /\ m # q /\ q \in 1 .. m /\ m \in 1 .. m /\ 1 \in 1 .. q
       /\ 1 .. q \subseteq 1 .. m /\ 1 .. m = 1 .. q \cup {m} /\ m \notin 1 .. q /\ m - 1 = q
  BY <1>1, <1>10
<1>12. /\ t \in Seq(CachedFiles) /\ Len(t) = q /\ DOMAIN t = 1 .. q /\ t # <<>>
       /\ \A i \in 1 .. q : t[i] = s[i]
  <2> HIDE DEF t, q
  <2>1. t \in [1 .. q -> CachedFiles]
    BY <1>1, <1>9, <1>11
  <2> QED BY <1>9, <1>11, <2>1
<1> HIDE DEF t, q
<1>13. prev[last] = s[q] /\ s[q] # Nil /\ s[q] # s[m] /\ last \in CachedFiles /\ s[q] \in CachedFiles
  BY <1>1, <1>2, <1>3, <1>5, <1>8, <1>11
<1>14. /\ first' = t[1] /\ last' = t[q]
       /\ next' = [[next EXCEPT ![s[m]] = Nil] EXCEPT ![s[q]] = Nil]
       /\ prev' = [prev EXCEPT ![s[m]] = Nil]
  BY <1>8, <1>11, <1>12, <1>13 DEF EvictList
<1>15. /\ prev' \in [CachedFiles -> CachedFiles \cup {Nil}]
       /\ next' \in [CachedFiles -> CachedFiles \cup {Nil}]
  BY <1>4, <1>14
<1>16. \A x \in CachedFiles :
          /\ next'[x] = IF x = s[m] \/ x = s[q] THEN Nil ELSE next[x]
          /\ prev'[x] = IF x = s[m] THEN Nil ELSE prev[x]
  BY <1>4, <1>14
<1>17. ASSUME NEW i \in 1 .. q
       PROVE  /\ prev'[t[i]] = IF i = 1 THEN Nil ELSE t[i - 1]
              /\ next'[t[i]] = IF i = q THEN Nil ELSE t[i + 1]
  <2>1. t[i] = s[i] /\ i \in 1 .. m /\ i # m /\ s[i] \in CachedFiles /\ s[i] # s[m]
    BY <1>1, <1>3, <1>11, <1>12
  <2>2. prev'[t[i]] = IF i = 1 THEN Nil ELSE t[i - 1]
    <3>1. i # 1 => i - 1 \in 1 .. q
      BY <1>11
    <3>2. prev'[t[i]] = prev[s[i]]
      BY <1>16, <2>1
    <3> QED BY <1>5, <1>12, <2>1, <3>1, <3>2
  <2>3. next'[t[i]] = IF i = q THEN Nil ELSE t[i + 1]
    <3>1. CASE i = q
      BY <1>16, <2>1, <3>1
    <3>2. CASE i # q
      <4>1. i + 1 \in 1 .. q
        BY <1>11, <3>2
      <4>2. s[i] # s[q]
        BY <1>3, <1>11, <2>1, <3>2
      <4>3. next'[t[i]] = next[s[i]]
        BY <1>16, <2>1, <4>2
      <4> QED BY <1>5, <1>12, <2>1, <3>2, <4>1, <4>3
    <3> QED BY <3>1, <3>2
  <2> QED BY <2>2, <2>3
<1>18. ASSUME NEW x \in CachedFiles, \A i \in 1 .. q : t[i] # x
       PROVE  prev'[x] = Nil /\ next'[x] = Nil
  <2>1. CASE x = s[m]
    BY <1>16, <2>1
  <2>2. CASE x # s[m]
    <3>1. \A i \in 1 .. m : s[i] # x
      BY <1>11, <1>12, <1>18, <2>2
    <3> QED BY <1>6, <1>16, <2>2, <3>1
  <2> QED BY <2>1, <2>2
<1>19. \A i, j \in 1 .. q : t[i] = t[j] => i = j
  BY <1>3, <1>11, <1>12
<1>20. \A i \in DOMAIN t : /\ prev'[t[i]] = IF i = 1 THEN Nil ELSE t[i - 1]
                          /\ next'[t[i]] = IF i = Len(t) THEN Nil ELSE t[i + 1]
  BY <1>12, <1>17
<1>21. \A x \in CachedFiles : (\A i \in DOMAIN t : t[i] # x) => prev'[x] = Nil /\ next'[x] = Nil
  BY <1>12, <1>18
<1>22. IsList(t, first', last', prev', next')
  BY <1>12, <1>14, <1>15, <1>19, <1>20, <1>21 DEF IsList
<1> QED BY <1>22 DEF t

(* A file has a place on a list: where it is, or behind its end.           *)
LEMMA HasPlace ==
    ASSUME NEW s, NEW c
    PROVE  \E k : IsPlace(k, s, c)
<1>1. CASE \E i \in DOMAIN s : s[i] = c
  BY <1>1 DEF IsPlace
<1>2. CASE ~ \E i \in DOMAIN s : s[i] = c
  BY <1>2 DEF IsPlace
<1> QED BY <1>1, <1>2

(* Who is on the list stays on it when it is moved, with c; when it is cut *)
(* only the last leaves.                                                   *)
On(c, s) == \E i \in DOMAIN s : s[i] = c

LEMMA OnMoved ==
    ASSUME NEW s \in Seq(CachedFiles), NEW c \in CachedFiles, NEW k, IsPlace(k, s, c),
           NEW x, x = c \/ On(x, s)
    PROVE  On(x, Moved(s, c, k))
<1> DEFINE t == Moved(s, c, k)
           m == Len(s)
<1>1. m \in Nat /\ DOMAIN s = 1 .. m
  OBVIOUS
<1>2. k \in 1 .. m + 1 /\ (k <= m => s[k] = c)
  BY <1>1 DEF IsPlace
<1> DEFINE q == IF k <= m THEN m ELSE k
<1>3. t = [i \in 1 .. q |-> IF i = 1 THEN c ELSE IF i <= k THEN s[i - 1] ELSE s[i]]
  BY <1>1, <1>2 DEF Moved
<1> HIDE DEF m, t
<1>4. q \in Nat /\ 1 <= q /\ m <= q /\ k \in Nat /\ 1 <= k /\ k <= q
  BY <1>1, <1>2
<1> HIDE DEF q
<1>5. DOMAIN t = 1 .. q /\ t[1] = c /\ 1 \in 1 .. q
  BY <1>3, <1>4
<1>6. CASE x = c
  BY <1>5, <1>6 DEF On, t
<1>7. CASE x # c
  <2>1. PICK i \in 1 .. m : s[i] = x
    BY <1>1, <1>7 DEF On
  <2>2. CASE i < k
    <3>1. i + 1 \in 1 .. q /\ i + 1 # 1 /\ i + 1 <= k /\ (i + 1) - 1 = i
      BY <1>1, <1>4, <2>2
    <3>2. t[i + 1] = x
      BY <1>3, <2>1, <3>1
    <3> QED BY <1>5, <3>1, <3>2 DEF On, t
  <2>3. CASE ~(i < k)
    <3>1. i # k
      BY <1>1, <1>2, <1>7, <2>1
    <3>2. i \in 1 .. q /\ i # 1 /\ ~(i <= k)
      BY <1>1, <1>4, <2>3, <3>1
    <3>3. t[i] = x
      BY <1>3, <2>1, <3>2
    <3> QED BY <1>5, <3>2, <3>3 DEF On, t
  <2> QED BY <2>2, <2>3
<1> QED BY <1>6, <1>7

LEMMA OnShorter ==
    ASSUME NEW s \in Seq(CachedFiles), NEW x, On(x, s), x # s[Len(s)]
    PROVE  On(x, Shorter(s))
<1> DEFINE m == Len(s)
<1>1. m \in Nat /\ DOMAIN s = 1 .. m
  OBVIOUS
<1>2. PICK i \in 1 .. m : s[i] = x
  BY <1>1 DEF On
<1>3. Shorter(s) = [j \in 1 .. m - 1 |-> s[j]] /\ i # m
  BY <1>2 DEF Shorter
<1> HIDE DEF m
<1>4. i \in 1 .. m - 1
  BY <1>1, <1>3
<1> QED BY <1>2, <1>3, <1>4 DEF On

-----------------------------------------------------------------------------
(***************************************************************************)
(* The invariant.                                                          *)
(***************************************************************************)
Labels == {"idle", "rlock", "read", "open", "opening", "evict", "closing"}

TypeInv ==
    /\ file \in [CachedFiles -> BOOLEAN]
    /\ pc \in [Goroutines -> Labels]
    /\ arg \in [Goroutines -> CachedFiles \cup {Nil}]
    /\ \A g \in Goroutines : pc[g] # "idle" => arg[g] \in CachedFiles

(* Cache.mu is held from openFile's and Close's lock to their unlock.      *)
MuInv == \A g \in Goroutines : pc[g] \in {"opening", "evict", "closing"} => cacheMu = g

(* The pointers are a list, and every open file is on it.                  *)
ListInv ==
    \E s : /\ IsList(s, first, last, prev, next)
           /\ \A c \in OpenFiles : On(c, s)

(* The count, which is above the limit only during an eviction.            *)
CountInv ==
    /\ opened = Cardinality(OpenFiles)
    /\ opened > MaxOpened => \E g \in Goroutines : pc[g] = "evict"

(* What openFile opened is open and first until it is done.                *)
EvictInv ==
    \A g \in Goroutines : pc[g] = "evict" => file[arg[g]] /\ first = arg[g]

CacheInv == TypeInv /\ MuInv /\ ListInv /\ CountInv /\ EvictInv

LEMMA OpenFinite == IsFiniteSet(OpenFiles) /\ Cardinality(OpenFiles) \in Nat
<1>1. OpenFiles \subseteq CachedFiles
  BY DEF OpenFiles
<1>2. IsFiniteSet(OpenFiles)
  BY <1>1, CachedFilesAssumption, FS_Subset
<1> QED BY <1>2, FS_CardinalityType

(* Above the limit the list has two files or more.                         *)
LEMMA TwoListed ==
    ASSUME NEW s, IsList(s, first, last, prev, next), \A c \in OpenFiles : On(c, s),
           CountInv, AboveMax
    PROVE  /\ Len(s) >= 2 /\ first # last /\ s # <<>> /\ last = s[Len(s)]
           /\ first \in CachedFiles /\ last \in CachedFiles
<1> DEFINE S == {s[i] : i \in DOMAIN s}
<1>1. DOMAIN s = 1 .. Len(s) /\ IsFiniteSet(S) /\ Cardinality(S) = Len(s) /\ Len(s) \in Nat
      /\ s \in Seq(CachedFiles)
  <2>1. s \in Seq(CachedFiles)
    BY DEF IsList
  <2>2. DOMAIN s = 1 .. Len(s) /\ IsFiniteSet(S) /\ Cardinality(S) = Len(s)
    BY ListLength
  <2>3. Len(s) \in Nat
    BY <2>1
  <2> QED BY <2>1, <2>2, <2>3
<1>2. OpenFiles \subseteq S
  BY DEF On
<1>3. Cardinality(OpenFiles) <= Len(s)
  <2> HIDE DEF S
  <2> QED BY <1>1, <1>2, FS_Subset
<1>4. Cardinality(OpenFiles) > MaxOpened /\ Cardinality(OpenFiles) \in Nat
  BY OpenFinite DEF CountInv, AboveMax
<1>5. Len(s) >= 2
  BY <1>1, <1>3, <1>4, MaxOpenedAssumption
<1>6. s # <<>> /\ 1 \in DOMAIN s /\ Len(s) \in DOMAIN s /\ Len(s) # 1
  BY <1>1, <1>5
<1>7. first = s[1] /\ last = s[Len(s)]
  BY <1>6 DEF IsList
<1>8. s[1] # s[Len(s)]
  BY <1>6 DEF IsList
<1> QED BY <1>1, <1>5, <1>6, <1>7, <1>8

LEMMA InvInit == Init => CacheInv
<1> SUFFICES ASSUME Init PROVE CacheInv
  OBVIOUS
<1>1. OpenFiles = {}
  BY DEF Init, OpenFiles
<1>2. IsList(<<>>, first, last, prev, next)
  BY DEF Init, IsList
<1>3. ListInv
  BY <1>1, <1>2 DEF ListInv
<1>4. CountInv
  <2>1. opened = 0 /\ Cardinality(OpenFiles) = 0
    BY <1>1, FS_EmptySet DEF Init
  <2> QED BY <2>1, MaxOpenedAssumption DEF CountInv
<1>5. TypeInv /\ MuInv /\ EvictInv
  BY DEF Init, TypeInv, MuInv, EvictInv, Labels
<1> QED BY <1>3, <1>4, <1>5 DEF CacheInv

(* Nobody is evicting when Cache.mu is free, or held for something else.   *)
LEMMA NobodyEvicts ==
    ASSUME CacheInv, cacheMu = NoOne \/ \E g \in Goroutines : pc[g] # "evict" /\ cacheMu = g
    PROVE  (\A h \in Goroutines : pc[h] # "evict") /\ opened <= MaxOpened
<1>1. ASSUME NEW h \in Goroutines, pc[h] = "evict"
      PROVE  FALSE
  <2>1. cacheMu = h
    BY <1>1 DEF CacheInv, MuInv
  <2> QED BY <1>1, <2>1, GoroutinesAssumption
<1>2. ~(opened > MaxOpened)
  BY <1>1 DEF CacheInv, CountInv
<1>3. opened \in Nat
  BY OpenFinite DEF CacheInv, CountInv
<1> QED BY <1>1, <1>2, <1>3, MaxOpenedAssumption

(* A move keeps the list, with c on it.                                    *)
LEMMA ListAfterMove ==
    ASSUME ListInv, NEW c \in CachedFiles, MoveToFront(c)
    PROVE  \E s, k : /\ IsList(s, first, last, prev, next) /\ IsPlace(k, s, c)
                     /\ IsList(Moved(s, c, k), first', last', prev', next')
                     /\ \A x \in OpenFiles \cup {c} : On(x, Moved(s, c, k))
<1>1. PICK s : IsList(s, first, last, prev, next) /\ \A x \in OpenFiles : On(x, s)
  BY DEF ListInv
<1>2. PICK k : IsPlace(k, s, c)
  BY HasPlace
<1>3. IsList(Moved(s, c, k), first', last', prev', next')
  BY <1>1, <1>2, MovedIsList
<1>4. s \in Seq(CachedFiles)
  BY <1>1 DEF IsList
<1>5. \A x \in OpenFiles \cup {c} : On(x, Moved(s, c, k))
  BY <1>1, <1>2, <1>4, OnMoved
<1> QED BY <1>1, <1>2, <1>3, <1>5

(* An eviction keeps the list, without the file it closed.                 *)
LEMMA ListAfterEvict ==
    ASSUME ListInv, CountInv, NEW g \in Goroutines, Evict(g)
    PROVE  \E s : /\ IsList(s, first, last, prev, next) /\ Len(s) >= 2 /\ last = s[Len(s)]
                  /\ IsList(Shorter(s), first', last', prev', next')
                  /\ \A x \in OpenFiles \ {last} : On(x, Shorter(s))
<1>1. PICK s : IsList(s, first, last, prev, next) /\ \A x \in OpenFiles : On(x, s)
  BY DEF ListInv
<1>2. EvictList /\ AboveMax
  BY DEF Evict, EvictList, Oldest
<1>3. Len(s) >= 2 /\ last = s[Len(s)]
  BY <1>1, <1>2, TwoListed
<1>4. IsList(Shorter(s), first', last', prev', next')
  BY <1>1, <1>2, <1>3, ShorterIsList
<1>5. s \in Seq(CachedFiles)
  BY <1>1 DEF IsList
<1>6. \A x \in OpenFiles \ {last} : On(x, Shorter(s))
  BY <1>1, <1>3, <1>5, OnShorter
<1> QED BY <1>1, <1>3, <1>4, <1>6

(* Closing a file takes it, and its count, out if it was open.             *)
LEMMA CountAfterClose ==
    ASSUME TypeInv, opened = Cardinality(OpenFiles), NEW c \in CachedFiles, CloseFile(c)
    PROVE  /\ OpenFiles' = OpenFiles \ {c} /\ opened' = Cardinality(OpenFiles')
           /\ opened' <= opened /\ file' \in [CachedFiles -> BOOLEAN]
           /\ ~file'[c] /\ \A d \in CachedFiles \ {c} : file'[d] = file[d]
<1>1. file' = [file EXCEPT ![c] = FALSE] /\ file \in [CachedFiles -> BOOLEAN]
  BY DEF CloseFile, TypeInv
<1>2. ~file'[c] /\ (\A d \in CachedFiles \ {c} : file'[d] = file[d]) /\ file' \in [CachedFiles -> BOOLEAN]
  BY <1>1
<1>3. OpenFiles' = OpenFiles \ {c}
  BY <1>2 DEF OpenFiles
<1>4. CASE file[c]
  <2>1. c \in OpenFiles /\ opened' = opened - 1
    BY <1>4 DEF OpenFiles, CloseFile, CountWithout
  <2>2. Cardinality(OpenFiles \ {c}) = Cardinality(OpenFiles) - 1
    BY <2>1, OpenFinite, FS_RemoveElement
  <2> QED BY <1>2, <1>3, <2>1, <2>2, OpenFinite
<1>5. CASE ~file[c]
  <2>1. OpenFiles \ {c} = OpenFiles /\ opened' = opened
    BY <1>5 DEF OpenFiles, CloseFile, CountWithout
  <2> QED BY <1>2, <1>3, <2>1, OpenFinite
<1> QED BY <1>4, <1>5

(* Opening one adds it.                                                    *)
LEMMA CountAfterOpen ==
    ASSUME TypeInv, opened = Cardinality(OpenFiles), NEW c \in CachedFiles, ~file[c],
           file' = [file EXCEPT ![c] = TRUE], opened' = opened + 1
    PROVE  /\ OpenFiles' = OpenFiles \cup {c} /\ opened' = Cardinality(OpenFiles')
           /\ file' \in [CachedFiles -> BOOLEAN] /\ file'[c]
<1>1. file'[c] /\ (\A d \in CachedFiles \ {c} : file'[d] = file[d]) /\ file' \in [CachedFiles -> BOOLEAN]
  BY DEF TypeInv
<1>2. OpenFiles' = OpenFiles \cup {c} /\ c \notin OpenFiles
  BY <1>1 DEF OpenFiles
<1>3. Cardinality(OpenFiles \cup {c}) = Cardinality(OpenFiles) + 1
  BY <1>2, OpenFinite, FS_AddElement
<1> QED BY <1>1, <1>2, <1>3

-----------------------------------------------------------------------------
(***************************************************************************)
(* Each action keeps the invariant.  Most leave the list and the files as  *)
(* they are.                                                               *)
(***************************************************************************)
Still == UNCHANGED <<listVars, opened, file>>

LEMMA StillKeeps ==
    ASSUME ListInv, Still
    PROVE  ListInv' /\ OpenFiles' = OpenFiles /\ opened' = opened
<1>1. PICK s : IsList(s, first, last, prev, next) /\ \A c \in OpenFiles : On(c, s)
  BY DEF ListInv
<1>2. first' = first /\ last' = last /\ prev' = prev /\ next' = next /\ opened' = opened /\ file' = file
  BY DEF Still, listVars
<1>3. OpenFiles' = OpenFiles
  BY <1>2 DEF OpenFiles
<1>4. IsList(s, first', last', prev', next') /\ \A c \in OpenFiles' : On(c, s)
  BY <1>1, <1>2, <1>3
<1> QED BY <1>2, <1>3, <1>4 DEF ListInv

(* A step of g that leaves list and files alone and neither begins nor     *)
(* ends an eviction.                                                       *)
LEMMA StillStep ==
    ASSUME CacheInv, NEW g \in Goroutines, Still, TypeInv', MuInv',
           \A h \in Goroutines : pc'[h] = "evict" <=> pc[h] = "evict",
           \A h \in Goroutines : pc[h] = "evict" => arg'[h] = arg[h]
    PROVE  CacheInv'
<1>1. ListInv' /\ OpenFiles' = OpenFiles /\ opened' = opened
  BY StillKeeps DEF CacheInv
<1>2. CountInv'
  BY <1>1 DEF CacheInv, CountInv
<1>3. EvictInv'
  BY DEF CacheInv, EvictInv, Still, listVars
<1> QED BY <1>1, <1>2, <1>3 DEF CacheInv

LEMMA TypeStep == CacheInv /\ [Next]_vars => TypeInv'
<1> SUFFICES ASSUME CacheInv, [Next]_vars PROVE TypeInv'
  OBVIOUS
<1> USE DEF TypeInv, Labels
<1>1. TypeInv /\ opened = Cardinality(OpenFiles)
  BY DEF CacheInv, CountInv
<1>2. ASSUME NEW g \in Goroutines, BeginRead(g) PROVE TypeInv'
  BY <1>1, <1>2 DEF BeginRead, Goto
<1>3. ASSUME NEW g \in Goroutines, BeginClose(g) PROVE TypeInv'
  BY <1>1, <1>3 DEF BeginClose, Goto
<1>4. ASSUME NEW g \in Goroutines, ReadLock(g) PROVE TypeInv'
  BY <1>1, <1>4 DEF ReadLock, Goto
<1>5. ASSUME NEW g \in Goroutines, ReadFile(g) PROVE TypeInv'
  BY <1>1, <1>5 DEF ReadFile, Return, Goto
<1>6. ASSUME NEW g \in Goroutines, LockCache(g, "open", "opening") PROVE TypeInv'
  BY <1>1, <1>6 DEF LockCache, Goto
<1>7. ASSUME NEW g \in Goroutines, Open(g) PROVE TypeInv'
  <2>1. arg' = arg /\ arg[g] \in CachedFiles
    BY <1>1, <1>7 DEF Open
  <2>2. file' \in [CachedFiles -> BOOLEAN]
    BY <1>1, <1>7, <2>1 DEF Open
  <2>3. pc' \in [Goroutines -> Labels] /\ \A h \in Goroutines : pc'[h] # "idle" => pc[h] # "idle"
    BY <1>1, <1>7 DEF Open, Goto, Return
  <2> QED BY <1>1, <2>1, <2>2, <2>3
<1>8. ASSUME NEW g \in Goroutines, Evict(g) PROVE TypeInv'
  BY <1>1, <1>8 DEF Evict, CloseFile
<1>9. ASSUME NEW g \in Goroutines, EvictDone(g) PROVE TypeInv'
  BY <1>1, <1>9 DEF EvictDone, Goto
<1>10. ASSUME NEW g \in Goroutines, Close(g) PROVE TypeInv'
  BY <1>1, <1>10 DEF Close, CloseFile, Return, Goto
<1>11. CASE UNCHANGED vars
  BY <1>1, <1>11 DEF vars
<1> QED BY <1>2, <1>3, <1>4, <1>5, <1>6, <1>7, <1>8, <1>9, <1>10, <1>11 DEF Next, Running

LEMMA MuStep == CacheInv /\ [Next]_vars => MuInv'
<1> SUFFICES ASSUME CacheInv, [Next]_vars PROVE MuInv'
  OBVIOUS
<1> USE DEF MuInv
<1>1. MuInv /\ pc \in [Goroutines -> Labels]
  BY DEF CacheInv, TypeInv
<1>2. ASSUME NEW g \in Goroutines, BeginRead(g) PROVE MuInv'
  BY <1>1, <1>2 DEF BeginRead, Goto
<1>3. ASSUME NEW g \in Goroutines, BeginClose(g) PROVE MuInv'
  BY <1>1, <1>3, GoroutinesAssumption DEF BeginClose, Goto
<1>4. ASSUME NEW g \in Goroutines, ReadLock(g) PROVE MuInv'
  BY <1>1, <1>4 DEF ReadLock, Goto
<1>5. ASSUME NEW g \in Goroutines, ReadFile(g) PROVE MuInv'
  BY <1>1, <1>5 DEF ReadFile, Return, Goto
<1>6. ASSUME NEW g \in Goroutines, LockCache(g, "open", "opening") PROVE MuInv'
  BY <1>1, <1>6, GoroutinesAssumption DEF LockCache, Goto
<1>7. ASSUME NEW g \in Goroutines, Open(g) PROVE MuInv'
  <2>1. cacheMu = g /\ \A h \in Goroutines \ {g} : pc[h] \notin {"opening", "evict", "closing"} /\ pc'[h] = pc[h]
    BY <1>1, <1>7 DEF Open, Goto, Return
  <2>2. pc'[g] \notin {"opening", "evict", "closing"} \/ cacheMu' = cacheMu
    BY <1>1, <1>7 DEF Open, Goto, Return
  <2> QED BY <2>1, <2>2
<1>8. ASSUME NEW g \in Goroutines, Evict(g) PROVE MuInv'
  BY <1>1, <1>8 DEF Evict
<1>9. ASSUME NEW g \in Goroutines, EvictDone(g) PROVE MuInv'
  BY <1>1, <1>9 DEF EvictDone, Goto
<1>10. ASSUME NEW g \in Goroutines, Close(g) PROVE MuInv'
  BY <1>1, <1>10 DEF Close, Return, Goto
<1>11. CASE UNCHANGED vars
  BY <1>1, <1>11 DEF vars
<1> QED BY <1>2, <1>3, <1>4, <1>5, <1>6, <1>7, <1>8, <1>9, <1>10, <1>11 DEF Next, Running

LEMMA InvStep == CacheInv /\ [Next]_vars => CacheInv'
<1> SUFFICES ASSUME CacheInv, [Next]_vars PROVE CacheInv'
  OBVIOUS
<1>0. TypeInv' /\ MuInv'
  BY TypeStep, MuStep
<1>1. TypeInv /\ MuInv /\ ListInv /\ CountInv /\ EvictInv /\ pc \in [Goroutines -> Labels]
  BY DEF CacheInv, TypeInv
<1>2. ASSUME NEW g \in Goroutines, BeginRead(g) PROVE CacheInv'
  <2>1. cacheMu = NoOne /\ opened' = opened /\ file' = file /\ pc' = [pc EXCEPT ![g] = "rlock"]
    BY <1>2 DEF BeginRead, Goto
  <2>2. PICK c \in CachedFiles : MoveToFront(c)
    BY <1>2 DEF BeginRead
  <2>3. OpenFiles' = OpenFiles
    BY <2>1 DEF OpenFiles
  <2>4. ListInv'
    <3>1. PICK s, k : /\ IsList(Moved(s, c, k), first', last', prev', next')
                      /\ \A x \in OpenFiles \cup {c} : On(x, Moved(s, c, k))
      BY <1>1, <2>2, ListAfterMove
    <3> QED BY <2>3, <3>1 DEF ListInv
  <2>5. (\A h \in Goroutines : pc[h] # "evict") /\ opened <= MaxOpened
    BY <2>1, NobodyEvicts
  <2>6. \A h \in Goroutines : pc'[h] # "evict"
    BY <1>1, <2>1, <2>5
  <2>7. CountInv'
    BY <1>1, <2>1, <2>3, <2>5, OpenFinite, MaxOpenedAssumption DEF CountInv
  <2>8. EvictInv'
    BY <2>6 DEF EvictInv
  <2> QED BY <1>0, <2>4, <2>7, <2>8 DEF CacheInv
<1>3. ASSUME NEW g \in Goroutines, BeginClose(g) PROVE CacheInv'
  <2>1. Still /\ pc[g] = "idle" /\ pc' = [pc EXCEPT ![g] = "closing"]
    BY <1>3 DEF BeginClose, Goto, Still
  <2>2. \A h \in Goroutines \ {g} : arg'[h] = arg[h]
    BY <1>1, <1>3 DEF BeginClose, TypeInv
  <2>3. /\ \A h \in Goroutines : pc'[h] = "evict" <=> pc[h] = "evict"
        /\ \A h \in Goroutines : pc[h] = "evict" => arg'[h] = arg[h]
    BY <1>1, <2>1, <2>2
  <2> QED BY <1>0, <2>1, <2>3, StillStep
<1>4. ASSUME NEW g \in Goroutines, ReadLock(g) PROVE CacheInv'
  <2>1. /\ Still /\ arg' = arg
        /\ \A h \in Goroutines : pc'[h] = "evict" <=> pc[h] = "evict"
    BY <1>1, <1>4 DEF ReadLock, Goto, Still
  <2> QED BY <1>0, <2>1, StillStep
<1>5. ASSUME NEW g \in Goroutines, ReadFile(g) PROVE CacheInv'
  <2>1. /\ Still /\ arg' = arg
        /\ \A h \in Goroutines : pc'[h] = "evict" <=> pc[h] = "evict"
    BY <1>1, <1>5 DEF ReadFile, Return, Goto, Still
  <2> QED BY <1>0, <2>1, StillStep
<1>6. ASSUME NEW g \in Goroutines, LockCache(g, "open", "opening") PROVE CacheInv'
  <2>1. /\ Still /\ arg' = arg
        /\ \A h \in Goroutines : pc'[h] = "evict" <=> pc[h] = "evict"
    BY <1>1, <1>6 DEF LockCache, Goto, Still
  <2> QED BY <1>0, <2>1, StillStep
<1>7. ASSUME NEW g \in Goroutines, Open(g) PROVE CacheInv'
  <2> DEFINE c == arg[g]
  <2>1. /\ pc[g] = "opening" /\ cacheMu = g /\ c \in CachedFiles /\ arg' = arg
    BY <1>1, <1>7 DEF Open, MuInv, TypeInv
  <2>2. (\A h \in Goroutines : pc[h] # "evict") /\ opened <= MaxOpened
    BY <2>1, NobodyEvicts
  <2>3. CASE file[c]
    <3>1. Still /\ pc' = [pc EXCEPT ![g] = "rlock"]
      BY <1>7, <2>3 DEF Open, Goto, Still
    <3>2. \A h \in Goroutines : pc'[h] = "evict" <=> pc[h] = "evict"
      BY <1>1, <2>1, <3>1
    <3> QED BY <1>0, <2>1, <3>1, <3>2, StillStep
  <2>4. CASE Still /\ pc' = [pc EXCEPT ![g] = "idle"]
    <3>1. \A h \in Goroutines : pc'[h] = "evict" <=> pc[h] = "evict"
      BY <1>1, <2>1, <2>4
    <3> QED BY <1>0, <2>1, <2>4, <3>1, StillStep
  <2>5. CASE /\ ~file[c] /\ file' = [file EXCEPT ![c] = TRUE] /\ MoveToFront(c)
             /\ opened' = opened + 1 /\ pc' = [pc EXCEPT ![g] = "evict"]
    <3>1. /\ OpenFiles' = OpenFiles \cup {c} /\ opened' = Cardinality(OpenFiles')
          /\ file'[c]
      BY <1>1, <2>1, <2>5, CountAfterOpen DEF CountInv
    <3>2. ListInv'
      <4>1. PICK s, k : /\ IsList(Moved(s, c, k), first', last', prev', next')
                        /\ \A x \in OpenFiles \cup {c} : On(x, Moved(s, c, k))
        BY <1>1, <2>1, <2>5, ListAfterMove
      <4> QED BY <3>1, <4>1 DEF ListInv
    <3>3. pc'[g] = "evict" /\ \A h \in Goroutines \ {g} : pc'[h] # "evict"
      BY <1>1, <2>2, <2>5
    <3>4. CountInv'
      BY <3>1, <3>3 DEF CountInv
    <3>5. first' = c
      BY <2>5 DEF MoveToFront, listVars
    <3>6. EvictInv'
      BY <2>1, <3>1, <3>3, <3>5 DEF EvictInv
    <3> QED BY <1>0, <3>2, <3>4, <3>6 DEF CacheInv
  <2> QED BY <1>7, <2>3, <2>4, <2>5 DEF Open, OpenCounted, Goto, Return, Still
<1>8. ASSUME NEW g \in Goroutines, Evict(g) PROVE CacheInv'
  <2>1. PICK s : /\ IsList(s, first, last, prev, next) /\ Len(s) >= 2 /\ last = s[Len(s)]
                 /\ IsList(Shorter(s), first', last', prev', next')
                 /\ \A x \in OpenFiles \ {last} : On(x, Shorter(s))
    BY <1>1, <1>8, ListAfterEvict
  <2>2. /\ pc[g] = "evict" /\ pc' = pc /\ arg' = arg /\ first' = first /\ CloseFile(last)
        /\ AboveMax
    BY <1>8 DEF Evict, Oldest
  <2>3. last \in CachedFiles /\ first # last
    <3>1. PICK r : IsList(r, first, last, prev, next) /\ \A x \in OpenFiles : On(x, r)
      BY <1>1 DEF ListInv
    <3> QED BY <1>1, <2>2, <3>1, TwoListed
  <2>4. /\ OpenFiles' = OpenFiles \ {last} /\ opened' = Cardinality(OpenFiles')
        /\ \A d \in CachedFiles \ {last} : file'[d] = file[d]
    BY <1>1, <2>2, <2>3, CountAfterClose DEF CountInv
  <2>5. ListInv'
    BY <2>1, <2>4 DEF ListInv
  <2>6. CountInv'
    BY <2>2, <2>4 DEF CountInv
  <2>7. EvictInv'
    <3> SUFFICES ASSUME NEW h \in Goroutines, pc[h] = "evict"
                 PROVE  file'[arg[h]] /\ first = arg[h]
      BY <2>2 DEF EvictInv
    <3>1. file[arg[h]] /\ first = arg[h] /\ arg[h] \in CachedFiles
      BY <1>1 DEF EvictInv, TypeInv
    <3>2. file'[arg[h]] = file[arg[h]]
      BY <2>3, <2>4, <3>1
    <3> QED BY <3>1, <3>2
  <2> QED BY <1>0, <2>5, <2>6, <2>7 DEF CacheInv
<1>9. ASSUME NEW g \in Goroutines, EvictDone(g) PROVE CacheInv'
  <2>1. Still /\ arg' = arg /\ ~AboveMax /\ pc' = [pc EXCEPT ![g] = "rlock"]
    BY <1>9 DEF EvictDone, Goto, Still
  <2>2. ListInv' /\ OpenFiles' = OpenFiles /\ opened' = opened
    BY <1>1, <2>1, StillKeeps
  <2>3. CountInv'
    BY <1>1, <2>1, <2>2 DEF CountInv, AboveMax
  <2>4. \A h \in Goroutines : pc'[h] = "evict" => pc[h] = "evict"
    BY <1>1, <2>1
  <2>5. EvictInv'
    BY <1>1, <2>1, <2>4 DEF EvictInv, Still, listVars
  <2> QED BY <1>0, <2>2, <2>3, <2>5 DEF CacheInv
<1>10. ASSUME NEW g \in Goroutines, Close(g) PROVE CacheInv'
  <2> DEFINE c == arg[g]
  <2>1. /\ pc[g] = "closing" /\ cacheMu = g /\ c \in CachedFiles /\ arg' = arg
        /\ UNCHANGED listVars /\ CloseFile(c) /\ pc' = [pc EXCEPT ![g] = "idle"]
    BY <1>1, <1>10 DEF Close, Return, Goto, MuInv, TypeInv
  <2>2. (\A h \in Goroutines : pc[h] # "evict") /\ opened <= MaxOpened
    BY <2>1, NobodyEvicts
  <2>3. /\ OpenFiles' = OpenFiles \ {c} /\ opened' = Cardinality(OpenFiles')
        /\ opened' <= opened
    BY <1>1, <2>1, CountAfterClose DEF CountInv
  <2>4. ListInv'
    <3>1. PICK s : IsList(s, first, last, prev, next) /\ \A x \in OpenFiles : On(x, s)
      BY <1>1 DEF ListInv
    <3>2. IsList(s, first', last', prev', next') /\ \A x \in OpenFiles' : On(x, s)
      BY <2>1, <2>3, <3>1 DEF listVars
    <3> QED BY <3>2 DEF ListInv
  <2>5. \A h \in Goroutines : pc'[h] # "evict"
    BY <1>1, <2>1, <2>2
  <2>6. CountInv'
    <3>1. opened \in Nat /\ opened' \in Nat
      <4>1. opened \in Nat
        BY <1>1, OpenFinite DEF CountInv
      <4>2. IsFiniteSet(OpenFiles \ {c})
        BY OpenFinite, FS_Subset
      <4>3. opened' \in Nat
        BY <2>3, <4>2, FS_CardinalityType
      <4> QED BY <4>1, <4>3
    <3>2. ~(opened' > MaxOpened)
      BY <2>2, <2>3, <3>1, MaxOpenedAssumption
    <3> QED BY <2>3, <3>2 DEF CountInv
  <2>7. EvictInv'
    BY <2>5 DEF EvictInv
  <2> QED BY <1>0, <2>4, <2>6, <2>7 DEF CacheInv
<1>11. CASE UNCHANGED vars
  <2>1. Still /\ pc' = pc /\ arg' = arg
    BY <1>11 DEF vars, Still
  <2>2. ListInv' /\ OpenFiles' = OpenFiles /\ opened' = opened
    BY <1>1, <2>1, StillKeeps
  <2>3. CountInv' /\ EvictInv'
    BY <1>1, <2>1, <2>2 DEF CountInv, EvictInv, Still, listVars
  <2> QED BY <1>0, <2>2, <2>3 DEF CacheInv
<1> QED BY <1>2, <1>3, <1>4, <1>5, <1>6, <1>7, <1>8, <1>9, <1>10, <1>11 DEF Next, Running

(* The cache keeps its invariant.                                          *)
THEOREM CacheInvHolds == Spec => []CacheInv
BY InvInit, InvStep, PTL DEF Spec

-----------------------------------------------------------------------------
(***************************************************************************)
(* What follows from it.                                                   *)
(***************************************************************************)

(* The pointers that readers, opens, evictions and closes leave behind are *)
(* one list, in both directions, and a file that is not on it has none.    *)
THEOREM ListOKHolds == Spec => []ListOK
<1>1. CacheInv => ListOK
  BY ListIs DEF CacheInv, ListInv, ListFact
<1> QED BY <1>1, CacheInvHolds, PTL

(* The count is that of the open files, above the limit only while one is  *)
(* being opened; eviction always finds another file than that to close.    *)
THEOREM OpenedExactHolds == Spec => []OpenedExact
<1>1. ASSUME CacheInv PROVE OpenedExact
  <2>1. PICK s : IsList(s, first, last, prev, next) /\ \A c \in OpenFiles : On(c, s)
    BY <1>1 DEF CacheInv, ListInv
  <2>2. TypeInv /\ CountInv /\ EvictInv
    BY <1>1 DEF CacheInv
  <2>3. \A c \in OpenFiles : c \in Listed
    BY <2>1, ListIs DEF ListFact, On
  <2>4. opened > MaxOpened => first # last
    BY <2>1, <2>2, TwoListed DEF AboveMax
  <2> QED BY <2>2, <2>3, <2>4 DEF OpenedExact, CountInv, EvictInv, OpenFiles
<1> QED BY <1>1, CacheInvHolds, PTL

(* What LruOrder does to its order, on the list.                           *)
LEMMA UseIs ==
    ASSUME NEW s \in Seq(CachedFiles), \A i, j \in DOMAIN s : s[i] = s[j] => i = j,
           NEW c \in CachedFiles, NEW k, IsPlace(k, s, c),
           Order = s, Order' = Moved(s, c, k)
    PROVE  Lru!Use(c)
<1> DEFINE m == Len(s)
           q == IF k <= m THEN m ELSE k
           r == <<c>> \o (SubSeq(s, 1, k - 1) \o SubSeq(s, k + 1, m))
<1>1. m \in Nat /\ DOMAIN s = 1 .. m
  OBVIOUS
<1>2. k \in 1 .. m + 1
  BY <1>1 DEF IsPlace
<1>3. Lru!Position(c) = k
  <2>1. CASE k \in DOMAIN s /\ s[k] = c
    <3>1. c \in Lru!ToSet(s)
      BY <2>1 DEF Lru!ToSet
    <3>2. (CHOOSE i \in DOMAIN s : s[i] = c) = k
      BY <2>1
    <3> QED BY <3>1, <3>2 DEF Lru!Position
  <2>2. CASE k = Len(s) + 1 /\ \A i \in DOMAIN s : s[i] # c
    <3>1. c \notin Lru!ToSet(s)
      BY <2>2 DEF Lru!ToSet
    <3> QED BY <2>2, <3>1 DEF Lru!Position
  <2> QED BY <2>1, <2>2 DEF IsPlace
<1>4. Moved(s, c, k) =
         [i \in 1 .. q |-> IF i = 1 THEN c ELSE IF i <= k THEN s[i - 1] ELSE s[i]]
  BY <1>1, <1>2 DEF Moved
<1>5. r = Moved(s, c, k)
  <2> DEFINE a == SubSeq(s, 1, k - 1)
             b == SubSeq(s, k + 1, m)
             M == Moved(s, c, k)
             n == IF k <= m THEN m - k ELSE 0
  <2>1. m \in Nat /\ k \in Nat /\ 1 <= k /\ k <= m + 1 /\ n \in Nat /\ q \in Nat /\ q = 1 + (k - 1) + n
    <3> HIDE DEF m
    <3> QED BY <1>1, <1>2
  <2>2. a \in Seq(CachedFiles) /\ Len(a) = k - 1 /\ \A i \in 1 .. k - 1 : a[i] = s[i]
    BY <1>1, <1>2
  <2>3. b \in Seq(CachedFiles) /\ Len(b) = n /\ \A i \in 1 .. n : b[i] = s[k + i]
    BY <1>1, <1>2
  <2>4. M \in Seq(CachedFiles) /\ Len(M) = q
    <3>1. \A i \in 1 .. q : (IF i = 1 THEN c ELSE IF i <= k THEN s[i - 1] ELSE s[i]) \in CachedFiles
      BY <1>1, <1>2
    <3>2. M \in [1 .. q -> CachedFiles]
      BY <1>4, <3>1
    <3> QED BY <2>1, <3>2
  <2> HIDE DEF a, b, M, m, n, q
  <2>5. r = <<c>> \o (a \o b)
    BY DEF a, b, m
  <2>6. /\ r \in Seq(CachedFiles) /\ Len(r) = q
        /\ \A i \in 1 .. q : r[i] = IF i = 1 THEN c ELSE IF i <= k THEN a[i - 1] ELSE b[i - k]
    <3> DEFINE d == a \o b
               p == <<c>>
    <3>1. /\ d \in Seq(CachedFiles) /\ Len(d) = (k - 1) + n
          /\ \A i \in 1 .. (k - 1) + n : d[i] = IF i <= k - 1 THEN a[i] ELSE b[i - (k - 1)]
      <4>1. /\ d \in Seq(CachedFiles) /\ Len(d) = Len(a) + Len(b)
            /\ \A i \in 1 .. Len(a) + Len(b) : d[i] = IF i <= Len(a) THEN a[i] ELSE b[i - Len(a)]
        <5>1. a \in Seq(CachedFiles) /\ b \in Seq(CachedFiles)
          BY <2>2, <2>3
        <5> QED BY <5>1, ConcatProperties
      <4>2. Len(a) = k - 1 /\ Len(b) = n
        BY <2>2, <2>3
      <4> HIDE DEF d
      <4> QED BY <4>1, <4>2
    <3>2. p \in Seq(CachedFiles) /\ Len(p) = 1 /\ p[1] = c
      OBVIOUS
    <3> HIDE DEF d, p
    <3>3. /\ p \o d \in Seq(CachedFiles) /\ Len(p \o d) = Len(p) + Len(d)
          /\ \A i \in 1 .. Len(p) + Len(d) : (p \o d)[i] = IF i <= Len(p) THEN p[i] ELSE d[i - Len(p)]
      <4>1. p \in Seq(CachedFiles) /\ d \in Seq(CachedFiles)
        BY <3>1, <3>2
      <4> QED BY <4>1, ConcatProperties
    <3>4. r = p \o d
      BY <2>5 DEF d, p
    <3> HIDE DEF r
    <3>5. r \in Seq(CachedFiles) /\ Len(r) = q
      BY <2>1, <3>1, <3>2, <3>3, <3>4
    <3>6. \A i \in 1 .. q : r[i] = IF i = 1 THEN c ELSE d[i - 1]
      <4>1. \A i \in 1 .. q : r[i] = IF i <= 1 THEN p[i] ELSE d[i - 1]
        BY <2>1, <3>1, <3>2, <3>3, <3>4
      <4> QED BY <2>1, <3>2, <4>1
    <3>7. ASSUME NEW i \in 1 .. q
          PROVE  r[i] = IF i = 1 THEN c ELSE IF i <= k THEN a[i - 1] ELSE b[i - k]
      <4>1. CASE i = 1
        BY <3>6, <4>1
      <4>2. CASE i # 1
        <5>1. /\ i - 1 \in 1 .. (k - 1) + n /\ (i - 1 <= k - 1 <=> i <= k)
              /\ (i - 1) - (k - 1) = i - k
          BY <2>1, <4>2
        <5> QED BY <3>1, <3>6, <4>2, <5>1
      <4> QED BY <4>1, <4>2
    <3> QED BY <3>5, <3>7
  <2>7. \A i \in 1 .. q : r[i] = M[i]
    <3> HIDE DEF r
    <3>1. ASSUME NEW i \in 1 .. q PROVE r[i] = M[i]
      <4>1. M[i] = IF i = 1 THEN c ELSE IF i <= k THEN s[i - 1] ELSE s[i]
        BY <1>4 DEF M
      <4>2. i \in 1 .. q /\ (i # 1 /\ i <= k => i - 1 \in 1 .. k - 1)
            /\ (i # 1 /\ ~(i <= k) => i - k \in 1 .. n /\ k + (i - k) = i)
        BY <2>1
      <4> QED BY <2>2, <2>3, <2>6, <4>1, <4>2
    <3> QED BY <3>1
  <2>8. r = M
    <3> HIDE DEF r
    <3> QED BY <2>1, <2>4, <2>6, <2>7, SeqEqual
  <2> QED BY <2>8 DEF M
<1>6. Lru!RemoveAt(s, k) = SubSeq(s, 1, k - 1) \o SubSeq(s, k + 1, m)
  BY DEF Lru!RemoveAt
<1> QED BY <1>3, <1>5, <1>6 DEF Lru!Use

LEMMA ShorterIs ==
    ASSUME NEW s \in Seq(CachedFiles), s # <<>>
    PROVE  Lru!Front(s) = Shorter(s) /\ Lru!Last(s) = s[Len(s)]
BY DEF Lru!Front, Lru!Last, Shorter

(* The pointers, the count and the mutexes implement an order of last use, *)
(* and only its oldest file is closed to make room.                        *)
THEOREM ImplementsLruHolds == Spec => ImplementsLru
<1> DEFINE o == {c \in CachedFiles : file[c]}
<1>1. Init => Lru!LruInit
  <2> SUFFICES ASSUME Init PROVE Lru!LruInit
    OBVIOUS
  <2>1. IsList(<<>>, first, last, prev, next)
    BY DEF Init, IsList
  <2>2. Order = <<>>
    BY <2>1, ListIs DEF ListFact
  <2>3. o = {}
    BY DEF Init
  <2> QED BY <2>2, <2>3 DEF Lru!LruInit
<1>2. ListFact'
  BY ListIs, PTL
<1>3. CacheInv /\ [Next]_vars => [Lru!LruNext]_<<Order, o>>
  <2> SUFFICES ASSUME CacheInv, [Next]_vars
               PROVE  Lru!LruNext \/ (Order' = Order /\ o' = o)
    OBVIOUS
  <2>1. TypeInv /\ MuInv /\ ListInv /\ CountInv /\ OpenFiles = o /\ OpenFiles' = o'
    BY DEF CacheInv, OpenFiles
  <2>2. \A s : IsList(s, first, last, prev, next) => Order = s /\ s \in Seq(CachedFiles)
                /\ \A i, j \in DOMAIN s : s[i] = s[j] => i = j
    BY ListIs DEF ListFact, IsList
  <2>3. \A s : IsList(s, first', last', prev', next') => Order' = s
    BY <1>2 DEF ListFact
  <2>4. ASSUME NEW c \in CachedFiles, MoveToFront(c) PROVE Lru!Use(c)
    <3>1. PICK s, k : /\ IsList(s, first, last, prev, next) /\ IsPlace(k, s, c)
                      /\ IsList(Moved(s, c, k), first', last', prev', next')
      BY <2>1, <2>4, ListAfterMove
    <3> QED BY <2>2, <2>3, <3>1, UseIs
  <2>5. ASSUME UNCHANGED listVars PROVE Order' = Order
    <3>1. PICK s : IsList(s, first, last, prev, next)
      BY <2>1 DEF ListInv
    <3>2. IsList(s, first', last', prev', next')
      BY <2>5, <3>1 DEF listVars
    <3> QED BY <2>2, <2>3, <3>1, <3>2
  <2>6. ASSUME NEW g \in Goroutines, BeginRead(g) PROVE Lru!LruNext
    <3>1. PICK c \in CachedFiles : MoveToFront(c)
      BY <2>6 DEF BeginRead
    <3>2. o' = o
      BY <2>6 DEF BeginRead
    <3> QED BY <2>4, <3>1, <3>2 DEF Lru!LruNext
  <2>7. ASSUME NEW g \in Goroutines, Open(g) PROVE Lru!LruNext \/ (Order' = Order /\ o' = o)
    <3>1. arg[g] \in CachedFiles
      BY <2>1, <2>7 DEF Open, TypeInv
    <3>2. CASE Still
      BY <2>5, <3>2 DEF Still
    <3>3. CASE /\ ~file[arg[g]] /\ file' = [file EXCEPT ![arg[g]] = TRUE]
               /\ MoveToFront(arg[g]) /\ opened' = opened + 1
      <4>1. o' = o \cup {arg[g]}
        BY <2>1, <3>1, <3>3, CountAfterOpen DEF CountInv
      <4> QED BY <2>4, <3>1, <3>3, <4>1 DEF Lru!LruNext
    <3> QED BY <2>7, <3>2, <3>3 DEF Open, OpenCounted, Still
  <2>8. ASSUME NEW g \in Goroutines, Evict(g) PROVE Lru!LruNext
    <3>1. PICK s : /\ IsList(s, first, last, prev, next) /\ Len(s) >= 2 /\ last = s[Len(s)]
                   /\ IsList(Shorter(s), first', last', prev', next')
      BY <2>1, <2>8, ListAfterEvict
    <3>2. s \in Seq(CachedFiles) /\ s # <<>> /\ Order = s /\ Order' = Shorter(s)
      BY <2>2, <2>3, <3>1
    <3>3. last \in CachedFiles
      BY <3>1, <3>2
    <3>4. CloseFile(last)
      BY <2>8 DEF Evict, Oldest
    <3>5. o' = o \ {last}
      BY <2>1, <3>3, <3>4, CountAfterClose DEF CountInv
    <3> QED BY <3>1, <3>2, <3>5, ShorterIs DEF Lru!LruNext
  <2>9. ASSUME NEW g \in Goroutines, Close(g) PROVE Lru!LruNext \/ (Order' = Order /\ o' = o)
    <3>1. arg[g] \in CachedFiles /\ CloseFile(arg[g]) /\ UNCHANGED listVars
      BY <2>1, <2>9 DEF Close, TypeInv
    <3>2. o' = o \ {arg[g]} /\ Order' = Order
      BY <2>1, <2>5, <3>1, CountAfterClose DEF CountInv
    <3> QED BY <3>2 DEF Lru!LruNext
  <2>10. CASE Still
    BY <2>5, <2>10 DEF Still
  <2>11. ASSUME NEW g \in Goroutines,
                BeginClose(g) \/ ReadLock(g) \/ ReadFile(g) \/ EvictDone(g)
                  \/ LockCache(g, "open", "opening")
         PROVE  Still
    BY <2>11 DEF BeginClose, ReadLock, ReadFile, EvictDone, LockCache, Still
  <2>12. UNCHANGED vars => Still
    BY DEF vars, Still
  <2> QED BY <2>6, <2>7, <2>8, <2>9, <2>10, <2>11, <2>12 DEF Next, Running
<1> QED BY <1>1, <1>3, CacheInvHolds, PTL DEF Spec, ImplementsLru, Lru!LruSpec

=============================================================================
