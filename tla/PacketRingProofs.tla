-------------------------- MODULE PacketRingProofs --------------------------
(***************************************************************************)
(* Proofs about PacketRing for a ring of any length and any number of      *)
(* captures.                                                               *)
(***************************************************************************)
EXTENDS PacketRing, TLAPS

(* The only multiple of N between -N and N is 0.                           *)
LEMMA SmallMultiple ==
    ASSUME NEW N \in Nat \ {0}, NEW d \in Int, -N < N * d, N * d < N
    PROVE  d = 0
<1>1. CASE d >= 1
  <2>1. N * d >= N * 1
    BY <1>1
  <2> QED BY <2>1
<1>2. CASE d <= -1
  <2>1. N * d <= N * (-1)
    BY <1>2
  <2> QED BY <2>1
<1> QED BY <1>1, <1>2

(* % is determined by the equation that defines it.                        *)
LEMMA Remainder ==
    ASSUME NEW N \in Nat \ {0}, NEW q \in Int, NEW r \in 0 .. N - 1
    PROVE  (N * q + r) % N = r
<1> DEFINE m == N * q + r
           p == m \div N
           s == m % N
<1>1. m \in Int /\ p \in Int /\ s \in 0 .. N - 1 /\ m = N * p + s
  OBVIOUS
<1>2. N * (q - p) = s - r
  <2>1. N * (q - p) = N * q - N * p
    BY <1>1
  <2> HIDE DEF m, p, s
  <2> QED BY <1>1, <2>1 DEF m
<1>3. q - p = 0
  <2> HIDE DEF m, p, s
  <2> QED BY <1>1, <1>2, SmallMultiple
<1> QED BY <1>1, <1>2, <1>3

(* Going round the ring and counting on commute.                           *)
LEMMA NextSlot ==
    ASSUME NEW n \in Nat
    PROVE  /\ n % NumBlocks \in Slots
           /\ ((n % NumBlocks) + 1) % NumBlocks = (n + 1) % NumBlocks
<1> DEFINE q == n \div NumBlocks
           r == n % NumBlocks
<1>1. q \in Int /\ r \in 0 .. NumBlocks - 1 /\ n = NumBlocks * q + r
  BY NumBlocksAssumption
<1> HIDE DEF q, r
<1>2. (r + 1) % NumBlocks = (n + 1) % NumBlocks
  <2>1. CASE r + 1 < NumBlocks
    <3>1. (NumBlocks * q + (r + 1)) % NumBlocks = r + 1
      BY <1>1, <2>1, NumBlocksAssumption, Remainder
    <3>2. (NumBlocks * 0 + (r + 1)) % NumBlocks = r + 1
      BY <1>1, <2>1, NumBlocksAssumption, Remainder
    <3>3. NumBlocks * q + (r + 1) = n + 1 /\ NumBlocks * 0 + (r + 1) = r + 1
      BY <1>1, NumBlocksAssumption
    <3> QED BY <3>1, <3>2, <3>3
  <2>2. CASE r + 1 = NumBlocks
    <3>1. (NumBlocks * (q + 1) + 0) % NumBlocks = 0
      BY <1>1, NumBlocksAssumption, Remainder
    <3>2. (NumBlocks * 1 + 0) % NumBlocks = 0
      BY NumBlocksAssumption, Remainder
    <3>3. NumBlocks * (q + 1) = NumBlocks * q + NumBlocks
      BY <1>1, NumBlocksAssumption
    <3>4. NumBlocks * (q + 1) + 0 = n + 1 /\ NumBlocks * 1 + 0 = r + 1
      BY <1>1, <2>2, <3>3, NumBlocksAssumption
    <3> QED BY <3>1, <3>2, <3>4
  <2> QED BY <1>1, <2>1, <2>2, NumBlocksAssumption
<1> QED BY <1>1, <1>2 DEF Slots, r
-----------------------------------------------------------------------------
(***************************************************************************)
(* The inductive invariant.  As long as the ring lives, offset_ and fill   *)
(* are the numbers of delivered and captured blocks, modulo the length.    *)
(***************************************************************************)
Live == call \in {"out", "lock", "poll"}

(* pos_ is the block at offset_; which steps of NextBlock have one.        *)
Phase ==
    /\ call \in {"lock", "destroy", "gone"} => pos = NoBlock
    /\ call = "poll" => pos # NoBlock
    /\ pos # NoBlock => pos = ringOffset

(* The reader stands on the next block to hand out, or just before it.     *)
ReaderPosition ==
    Live => IF call = "out" /\ pos = NoBlock
            THEN (ringOffset + 1) % NumBlocks = delivered % NumBlocks
            ELSE ringOffset = delivered % NumBlocks

KernelPosition == fill = captured % NumBlocks /\ delivered <= captured

Locks ==
    /\ \A s \in Slots : mu[s] = "pos" => s = pos
    /\ pos # NoBlock => mu[pos] = "pos"

(* A block in a user's hands is not the kernel's.                          *)
HeldReady == \A s \in Slots : mu[s] = "user" => status[s] = "user"

(* A ready block nobody holds is one of those still to be handed out.      *)
ReadyPending ==
    Live => \A s \in Slots :
        status[s] = "user" /\ mu[s] # "user" =>
            cap[s] \in delivered + 1 .. captured /\ s = (cap[s] - 1) % NumBlocks

RingInv == /\ RingTypeOK /\ Phase /\ ReaderPosition /\ KernelPosition /\ Locks
           /\ HeldReady /\ ReadyPending /\ NothingOverrun

(* The ring starts with nothing captured and the reader before block 0.    *)
LEMMA RingInitInv == RingInit => RingInv
<1> SUFFICES ASSUME RingInit PROVE RingInv
  OBVIOUS
<1>1. RingTypeOK /\ Phase /\ Locks /\ HeldReady
  BY NumBlocksAssumption, MaxCapturesAssumption
  DEF RingInit, RingTypeOK, Phase, Locks, HeldReady, Slots, NoBlock, LastSlot
<1>2. ReaderPosition /\ KernelPosition
  <2>1. (NumBlocks * 1 + 0) % NumBlocks = 0 /\ (NumBlocks * 0 + 0) % NumBlocks = 0
    BY NumBlocksAssumption, Remainder
  <2>2. NumBlocks % NumBlocks = 0 /\ 0 % NumBlocks = 0
    BY <2>1, NumBlocksAssumption
  <2> QED
    BY <2>2, NumBlocksAssumption
    DEF RingInit, ReaderPosition, KernelPosition, Live, LastSlot
<1>3. ReadyPending /\ NothingOverrun
  BY DEF RingInit, ReadyPending, NothingOverrun
<1> QED BY <1>1, <1>2, <1>3 DEF RingInv

(* The next block to hand out is ready exactly where offset_ points.       *)
LEMMA NextReady ==
    ASSUME RingInv, call = "poll", status[pos] = "user"
    PROVE  pos \in Slots /\ delivered < captured /\ cap[pos] = delivered + 1
<1> USE DEF RingInv
<1>1. pos \in Slots /\ pos = delivered % NumBlocks /\ mu[pos] = "pos"
  BY DEF Phase, ReaderPosition, Locks, Live, RingTypeOK
<1>2. cap[pos] \in delivered + 1 .. captured
  BY <1>1 DEF ReadyPending, Live
<1>3. delivered \in Nat /\ captured \in Nat /\ delivered < captured
  BY <1>2, MaxCapturesAssumption DEF RingTypeOK
<1>4. PICK s \in Slots : cap[s] = delivered + 1 /\ s = (delivered + 1 - 1) % NumBlocks
  BY <1>3 DEF NothingOverrun
<1>5. delivered + 1 - 1 = delivered
  BY <1>3
<1> QED BY <1>1, <1>3, <1>4, <1>5

(* The block the kernel retires becomes the last one the reader awaits.    *)
LEMMA KernelFillInv ==
    ASSUME RingInv, KernelFill
    PROVE  RingInv'
<1> USE DEF RingInv
<1>1. /\ fill \in Slots /\ fill = captured % NumBlocks
      /\ captured \in Nat /\ delivered \in Nat
      /\ captured' = captured + 1
      /\ fill' = (fill + 1) % NumBlocks
      /\ status[fill] = "kernel"
      /\ UNCHANGED <<ringOffset, pos, mu, delivered, call>>
      /\ delivered <= captured /\ captured + 1 \in 0 .. MaxCaptures
  BY MaxCapturesAssumption DEF KernelFill, KernelPosition, RingTypeOK
<1>2. /\ cap' \in [Slots -> 0 .. MaxCaptures]
      /\ cap'[fill] = captured + 1
      /\ \A s \in Slots : s # fill => cap'[s] = cap[s]
  BY <1>1 DEF KernelFill, RingTypeOK
<1>3. /\ status' \in [Slots -> {"kernel", "user"}]
      /\ status'[fill] = "user"
      /\ \A s \in Slots : s # fill => status'[s] = status[s]
  BY <1>1 DEF KernelFill, RingTypeOK
<1>4. KernelPosition' /\ fill' \in Slots
  BY <1>1, NextSlot DEF KernelPosition
<1>5. RingTypeOK'
  BY <1>1, <1>4, <1>2, <1>3 DEF RingTypeOK
<1>6. Phase' /\ ReaderPosition' /\ Locks'
  BY <1>1 DEF Phase, ReaderPosition, Locks, Live
<1>7. HeldReady'
  BY <1>1, <1>3 DEF HeldReady
<1>8. captured + 1 - 1 = captured
  BY <1>1
<1>9. ReadyPending'
  <2> SUFFICES ASSUME Live, NEW s \in Slots, status'[s] = "user", mu[s] # "user"
               PROVE  /\ cap'[s] \in delivered + 1 .. captured + 1
                      /\ s = (cap'[s] - 1) % NumBlocks
    BY <1>1 DEF ReadyPending, Live
  <2>1. CASE s = fill
    BY <1>1, <1>8, <1>2, <2>1
  <2>2. CASE s # fill
    BY <1>1, <1>2, <1>3, <2>2 DEF ReadyPending
  <2> QED BY <2>1, <2>2
<1>10. NothingOverrun'
  <2> SUFFICES ASSUME Live, NEW n \in delivered + 1 .. captured + 1
               PROVE  \E s \in Slots : /\ cap'[s] = n /\ status'[s] = "user"
                                       /\ mu[s] # "user" /\ s = (n - 1) % NumBlocks
    BY <1>1 DEF NothingOverrun, Live
  <2>1. CASE n = captured + 1
    <3>1. mu[fill] # "user"
      BY <1>1 DEF HeldReady
    <3> QED BY <1>1, <1>8, <1>2, <1>3, <2>1, <3>1
  <2>2. CASE n # captured + 1
    <3>1. n \in delivered + 1 .. captured
      BY <1>1, <2>2
    <3>2. PICK s \in Slots : /\ cap[s] = n /\ status[s] = "user"
                             /\ mu[s] # "user" /\ s = (n - 1) % NumBlocks
      BY <3>1 DEF NothingOverrun, Live
    <3> QED BY <1>1, <1>2, <1>3, <3>2
  <2> QED BY <2>1, <2>2
<1> QED BY <1>4, <1>5, <1>6, <1>7, <1>9, <1>10
(* NextBlock hands out the first of the blocks awaited, or moves pos_.     *)
LEMMA NextBlockInv ==
    ASSUME RingInv, NextBlock
    PROVE  RingInv'
<1> USE DEF RingInv, ringKernelVars
<1>1. UNCHANGED <<status, cap, fill, captured>>
  BY DEF NextBlock, NextBlockEnter, ResetTo, NextBlockGet, NextBlockEmpty
<1>2. CASE NextBlockEnter
  <2>1. /\ call = "out" /\ UNCHANGED <<pos, mu, delivered>>
        /\ \/ /\ pos = NoBlock /\ call' = "lock"
              /\ ringOffset' = (ringOffset + 1) % NumBlocks
           \/ pos # NoBlock /\ call' = "poll" /\ UNCHANGED ringOffset
    BY <1>2 DEF NextBlockEnter
  <2>2. delivered \in Nat /\ delivered % NumBlocks \in Slots
    BY NextSlot, MaxCapturesAssumption DEF RingTypeOK
  <2>3. ReaderPosition' /\ ringOffset' \in Slots
    BY <2>1, <2>2 DEF ReaderPosition, Live, RingTypeOK
  <2>4. RingTypeOK' /\ Phase' /\ KernelPosition' /\ Locks' /\ HeldReady'
    BY <1>1, <2>1, <2>3 DEF RingTypeOK, Phase, KernelPosition, Locks, HeldReady
  <2>5. ReadyPending' /\ NothingOverrun'
    BY <1>1, <2>1 DEF ReadyPending, NothingOverrun, Live
  <2> QED BY <2>3, <2>4, <2>5
<1>3. CASE ResetTo
  <2>1. /\ call = "lock" /\ call' = "poll" /\ pos = NoBlock /\ pos' = ringOffset
        /\ ringOffset \in Slots /\ mu[ringOffset] = "free"
        /\ UNCHANGED <<ringOffset, delivered>>
    BY <1>3 DEF ResetTo, Unlocked, RingTypeOK, Phase
  <2>2. /\ mu' \in [Slots -> {"free", "pos", "user"}]
        /\ mu'[ringOffset] = "pos"
        /\ \A s \in Slots : s # ringOffset => mu'[s] = mu[s]
    BY <1>3, <2>1 DEF ResetTo, RingTypeOK
  <2>3. ringOffset # NoBlock
    BY <2>1, NumBlocksAssumption DEF Slots, NoBlock
  <2>4. RingTypeOK' /\ Phase' /\ ReaderPosition' /\ KernelPosition'
    BY <1>1, <2>1, <2>2, <2>3
    DEF RingTypeOK, Phase, ReaderPosition, KernelPosition, Live
  <2>5. Locks' /\ HeldReady'
    BY <1>1, <2>1, <2>2, <2>3, NumBlocksAssumption
    DEF Locks, HeldReady, Slots, NoBlock
  <2>6. ReadyPending' /\ NothingOverrun'
    BY <1>1, <2>1, <2>2 DEF ReadyPending, NothingOverrun, Live
  <2> QED BY <2>4, <2>5, <2>6
<1>4. CASE NextBlockGet
  <2>1. /\ pos \in Slots /\ delivered < captured /\ cap[pos] = delivered + 1
        /\ pos = ringOffset /\ pos = delivered % NumBlocks /\ status[pos] = "user"
        /\ mu[pos] = "pos" /\ call = "poll"
    BY <1>4, NextReady
    DEF NextBlockGet, ReadyForUser, Phase, ReaderPosition, Live, Locks
  <2>2. /\ delivered' = delivered + 1 /\ pos' = NoBlock /\ call' = "out"
        /\ UNCHANGED ringOffset
        /\ delivered \in Nat /\ captured \in 0 .. MaxCaptures
    BY <1>4, <2>1, MaxCapturesAssumption DEF NextBlockGet, RingTypeOK
  <2>3. /\ mu' \in [Slots -> {"free", "pos", "user"}]
        /\ mu'[pos] = "user"
        /\ \A s \in Slots : s # pos => mu'[s] = mu[s]
    BY <1>4, <2>1 DEF NextBlockGet, RingTypeOK
  <2>4. RingTypeOK'
    BY <1>1, <2>1, <2>2, <2>3, MaxCapturesAssumption DEF RingTypeOK
  <2>5. ReaderPosition'
    BY <2>1, <2>2, NextSlot DEF ReaderPosition, Live
  <2>6. Phase' /\ Locks' /\ HeldReady'
    BY <1>1, <2>1, <2>2, <2>3 DEF Phase, Locks, HeldReady
  <2>7. KernelPosition'
    BY <1>1, <2>1, <2>2, MaxCapturesAssumption DEF KernelPosition
  <2>8. ReadyPending'
    <3> SUFFICES ASSUME NEW s \in Slots, status[s] = "user", mu'[s] # "user"
                 PROVE  /\ cap[s] \in delivered + 2 .. captured
                        /\ s = (cap[s] - 1) % NumBlocks
      BY <1>1, <2>2 DEF ReadyPending, Live
    <3>1. s # pos /\ mu[s] # "user"
      BY <2>3
    <3>2. cap[s] \in delivered + 1 .. captured /\ s = (cap[s] - 1) % NumBlocks
      BY <2>1, <3>1 DEF ReadyPending, Live
    <3>3. cap[s] # delivered + 1
      BY <2>1, <2>2, <3>1, <3>2
    <3> QED BY <2>2, <3>2, <3>3
  <2>9. NothingOverrun'
    <3> SUFFICES ASSUME NEW n \in delivered + 2 .. captured
                 PROVE  \E s \in Slots : /\ cap[s] = n /\ status[s] = "user"
                                         /\ mu'[s] # "user" /\ s = (n - 1) % NumBlocks
      BY <1>1, <2>2 DEF NothingOverrun
    <3>1. n \in delivered + 1 .. captured /\ n # delivered + 1
      BY <2>2
    <3>2. PICK s \in Slots : /\ cap[s] = n /\ status[s] = "user"
                             /\ mu[s] # "user" /\ s = (n - 1) % NumBlocks
      BY <2>1, <3>1 DEF NothingOverrun
    <3>3. s # pos
      BY <2>1, <3>1, <3>2
    <3> QED BY <2>3, <3>2, <3>3
  <2> QED BY <2>4, <2>5, <2>6, <2>7, <2>8, <2>9
<1>5. CASE NextBlockEmpty
  <2>1. call = "poll" /\ call' = "out" /\ UNCHANGED <<ringOffset, pos, mu, delivered>>
    BY <1>5 DEF NextBlockEmpty
  <2>2. pos # NoBlock
    BY <2>1 DEF Phase
  <2>3. RingTypeOK' /\ Phase' /\ ReaderPosition' /\ KernelPosition' /\ Locks' /\ HeldReady'
    BY <1>1, <2>1, <2>2
    DEF RingTypeOK, Phase, ReaderPosition, KernelPosition, Locks, HeldReady, Live
  <2>4. ReadyPending' /\ NothingOverrun'
    BY <1>1, <2>1 DEF ReadyPending, NothingOverrun, Live
  <2> QED BY <2>3, <2>4
<1> QED BY <1>2, <1>3, <1>4, <1>5 DEF NextBlock

(* A block given back was held, so it is not one the reader still awaits.  *)
LEMMA DoneInv ==
    ASSUME RingInv, NEW s \in Slots, Done(s)
    PROVE  RingInv'
<1> USE DEF RingInv
<1>1. /\ mu[s] = "user" /\ call = "out"
      /\ UNCHANGED <<ringOffset, pos, cap, fill, captured, delivered, call>>
  BY DEF Done
<1>2. /\ mu' \in [Slots -> {"free", "pos", "user"}]
      /\ mu'[s] = "free"
      /\ \A t \in Slots : t # s => mu'[t] = mu[t]
  BY DEF Done, RingTypeOK
<1>3. /\ status' \in [Slots -> {"kernel", "user"}]
      /\ status'[s] = "kernel"
      /\ \A t \in Slots : t # s => status'[t] = status[t]
  BY DEF Done, RingTypeOK
<1>4. RingTypeOK' /\ Phase' /\ ReaderPosition' /\ KernelPosition'
  BY <1>1, <1>2, <1>3 DEF RingTypeOK, Phase, ReaderPosition, KernelPosition, Live
<1>5. Locks'
  BY <1>1, <1>2 DEF Locks, RingTypeOK
<1>6. HeldReady'
  BY <1>1, <1>2, <1>3 DEF HeldReady
<1>7. ReadyPending' /\ NothingOverrun'
  BY <1>1, <1>2, <1>3 DEF ReadyPending, NothingOverrun, Live
<1> QED BY <1>4, <1>5, <1>6, <1>7

(* The destructor gives up what pos_ holds; nothing is awaited after it.   *)
LEMMA DestroyInv ==
    ASSUME RingInv, DestroyRing \/ RingDestroyed
    PROVE  RingInv'
<1> USE DEF RingInv, ringKernelVars
<1>1. CASE DestroyRing
  <2>1. /\ call' = "destroy" /\ pos' = NoBlock
        /\ UNCHANGED <<ringOffset, cap, fill, captured, delivered>>
    BY <1>1 DEF DestroyRing
  <2>2. /\ mu' \in [Slots -> {"free", "pos", "user"}]
        /\ status' \in [Slots -> {"kernel", "user"}]
        /\ \A s \in Slots : s # pos => mu'[s] = mu[s] /\ status'[s] = status[s]
        /\ pos \in Slots => mu'[pos] = "free"
    BY <1>1, NumBlocksAssumption DEF DestroyRing, RingTypeOK, Slots, NoBlock
  <2>3. RingTypeOK' /\ KernelPosition'
    BY <2>1, <2>2 DEF RingTypeOK, KernelPosition
  <2>4. Phase' /\ ReaderPosition' /\ Locks' /\ HeldReady'
    BY <2>1, <2>2 DEF Phase, ReaderPosition, Locks, HeldReady, Live
  <2>5. ReadyPending' /\ NothingOverrun'
    BY <2>1 DEF ReadyPending, NothingOverrun, Live
  <2> QED BY <2>3, <2>4, <2>5
<1>2. CASE RingDestroyed
  BY <1>2
  DEF RingDestroyed, RingTypeOK, Phase, ReaderPosition, KernelPosition, Locks,
      HeldReady, ReadyPending, NothingOverrun, Live
<1> QED BY <1>1, <1>2

(* The invariant holds in every reachable state.                           *)
THEOREM RingInvariant == RingSpec => []RingInv
<1>1. RingInv /\ UNCHANGED ringVars => RingInv'
  BY DEF RingInv, RingTypeOK, Phase, ReaderPosition, KernelPosition, Locks,
         HeldReady, ReadyPending, NothingOverrun, Live, ringVars, ringKernelVars
<1>2. RingInv /\ [RingNext]_ringVars => RingInv'
  BY <1>1, KernelFillInv, NextBlockInv, DoneInv, DestroyInv DEF RingNext
<1> QED BY <1>2, RingInitInv, PTL DEF RingSpec

(* The types of the ring's variables.                                      *)
THEOREM RingTypeCorrect == RingSpec => []RingTypeOK
<1>1. RingInv => RingTypeOK
  BY DEF RingInv
<1> QED BY <1>1, RingInvariant, PTL

(* A captured block that was not handed out is in the ring, ready and in   *)
(* its place: the kernel overruns nothing, in a ring of any length.        *)
THEOREM NothingOverrunHolds == RingSpec => []NothingOverrun
<1>1. RingInv => NothingOverrun
  BY DEF RingInv
<1> QED BY <1>1, RingInvariant, PTL

(* NextBlock hands out the captures in order, none skipped, none twice.    *)
THEOREM InOrderDeliveryHolds == RingSpec => InOrderDelivery
<1>1. RingInv /\ [RingNext]_ringVars
        => [delivered' # delivered => delivered' = delivered + 1]_ringVars
  <2> SUFFICES ASSUME RingInv, RingNext, delivered' # delivered
               PROVE  delivered' = delivered + 1
    BY DEF ringVars
  <2>1. NextBlockGet
    BY DEF RingNext, NextBlock, KernelFill, NextBlockEnter, ResetTo, NextBlockEmpty,
           Done, DestroyRing, RingDestroyed
  <2> QED BY <2>1, NextReady DEF NextBlockGet, ReadyForUser
<1> QED BY <1>1, RingInvariant, PTL DEF RingSpec, InOrderDelivery

(* Nobody touches a block that is handed out before its Done.              *)
THEOREM HeldBlockStableHolds == RingSpec => HeldBlockStable
<1> DEFINE Stable(s) == cap'[s] = cap[s] /\ (status'[s] = "kernel" => mu'[s] # "user")
<1>1. ASSUME RingInv, [RingNext]_ringVars, NEW s \in Slots, mu[s] = "user"
      PROVE  Stable(s)
  <2> USE <1>1 DEF RingInv, ringKernelVars
  <2>1. status[s] = "user" /\ s # pos
    BY NumBlocksAssumption DEF HeldReady, Locks, Slots, NoBlock
  <2>2. CASE KernelFill
    BY <2>1, <2>2 DEF KernelFill, RingTypeOK
  <2>3. CASE NextBlock
    BY <2>1, <2>3 DEF NextBlock, NextBlockEnter, ResetTo, NextBlockGet, NextBlockEmpty
  <2>4. ASSUME NEW t \in Slots, Done(t) PROVE Stable(s)
    BY <2>1, <2>4 DEF Done, RingTypeOK
  <2>5. CASE DestroyRing \/ RingDestroyed
    BY <2>1, <2>5 DEF DestroyRing, RingDestroyed, RingTypeOK
  <2>6. CASE UNCHANGED ringVars
    BY <2>1, <2>6 DEF ringVars
  <2> QED BY <2>2, <2>3, <2>4, <2>5, <2>6 DEF RingNext
<1>2. RingInv /\ [RingNext]_ringVars
        => [\A s \in Slots : mu[s] = "user" => Stable(s)]_ringVars
  BY <1>1
<1> QED BY <1>2, RingInvariant, PTL DEF RingSpec, HeldBlockStable
=============================================================================
