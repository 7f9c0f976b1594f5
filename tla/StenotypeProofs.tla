-------------------------- MODULE StenotypeProofs --------------------------
(***************************************************************************)
(* Proofs about Stenotype: its ring and its packet files behave as         *)
(* PacketRing and AioOutput do alone, so what is proved of them holds in   *)
(* the whole thread; no write in flight ever loses its memory; a visible   *)
(* index leads to the blocks it was made of; and a process that exits has  *)
(* put every block it took on disk and in an index; for any number of      *)
(* files, blocks and AIO slots and any set of failing calls.               *)
(***************************************************************************)
EXTENDS Stenotype, SequenceTheorems, TLAPS

OutP == INSTANCE AioOutputProofs
         WITH MaxBlocks <- BlocksPerFile + 1, Failures <- Failures \ {"index"}
RingP == INSTANCE PacketRingProofs

-----------------------------------------------------------------------------
(***************************************************************************)
(* Every step of the thread is one step of the ring, or none.              *)
(***************************************************************************)
LEMMA RingStep ==
    ASSUME [Next]_vars
    PROVE  Ring!RingNext \/ UNCHANGED ringVars
<1> USE DEF ringVars
<1>1. CASE RunThread
  <2>1. CASE GetBlock
    BY <2>1 DEF GetBlock, Ring!RingNext, Ring!NextBlock
  <2>2. CASE HandleEvent
    BY <2>2 DEF HandleEvent, Ring!RingNext
  <2>3. CASE DestroyRing
    BY <2>3 DEF DestroyRing, Ring!RingNext
  <2> QED
    BY <1>1, <2>1, <2>2, <2>3
    DEF RunThread, Start, LoopRound, PollDone, RotateFile, KeepFile, PutIndex,
        IndexBlock, WriteBlock, LeaveLoop, PutLastIndex, Flush, Abort
<1>2. CASE KernelFill
  BY <1>2 DEF KernelFill, Ring!RingNext
<1>3. CASE UNCHANGED vars
  BY <1>3 DEF vars
<1> QED
  BY <1>1, <1>2, <1>3
  DEF Next, WriteIndexes, GetIndex, FlushIndex, RenameIndex, Main, CloseQueue,
      Exit, HandleSignals, KernelWrite

(* The ring inside the thread is a run of PacketRing.                      *)
THEOREM ImplementsRing == Spec => Ring!RingSpec
<1>1. Init => Ring!RingInit
  BY DEF Init
<1>2. [Next]_vars => [Ring!RingNext]_(Ring!ringVars)
  BY RingStep DEF Ring!ringVars, Ring!ringKernelVars, ringVars
<1> QED BY <1>1, <1>2, PTL DEF Spec, Ring!RingSpec

(***************************************************************************)
(* Every step of the thread is one step of the packet files, or none.      *)
(***************************************************************************)
LEMMA OutStep ==
    ASSUME [Next]_vars
    PROVE  Out!Next \/ UNCHANGED outVars
<1> USE DEF outVars
<1>1. CASE RunThread
  <2>1. CASE Start \/ RotateFile
    BY <2>1 DEF Start, RotateFile, Out!Next, Out!Call
  <2>2. CASE LoopRound \/ PollDone
    BY <2>2 DEF LoopRound, Poll, PollDone, Out!Next, Out!Call, Out!InCall
  <2>3. CASE WriteBlock
    BY <2>3 DEF WriteBlock, Out!Next, Out!Call, Out!InCall
  <2>4. CASE HandleEvent
    BY <2>4 DEF HandleEvent, Out!Next, Out!InCall
  <2>5. CASE Flush
    BY <2>5 DEF Flush, Out!Next, Out!Call, Out!InCall
  <2>6. CASE Abort
    BY <2>6 DEF Abort, Out!Next, Out!Call, Out!InCall
  <2> QED
    BY <1>1, <2>1, <2>2, <2>3, <2>4, <2>5, <2>6
    DEF RunThread, KeepFile, PutIndex, GetBlock, IndexBlock, LeaveLoop,
        PutLastIndex, DestroyRing
<1>2. CASE KernelWrite
  BY <1>2 DEF KernelWrite, Out!Next, Out!Kernel
<1>3. CASE UNCHANGED vars
  BY <1>3 DEF vars
<1> QED
  BY <1>1, <1>2, <1>3
  DEF Next, WriteIndexes, GetIndex, FlushIndex, RenameIndex, Main, CloseQueue,
      Exit, HandleSignals, KernelFill

(* The packet files of the thread are a run of AioOutput.                  *)
THEOREM ImplementsOutput == Spec => Out!Spec
<1>1. Init => Out!Init
  BY DEF Init
<1>2. [Next]_vars => [Out!Next]_(Out!vars)
  BY OutStep DEF Out!vars, Out!kernelVars, Out!callVars, outVars
<1> QED BY <1>1, <1>2, PTL DEF Spec, Out!Spec
-----------------------------------------------------------------------------
(***************************************************************************)
(* The theorems about PacketRing and AioOutput are about their own         *)
(* instances of the two modules, whose definitions say the same.           *)
(***************************************************************************)
(* A step of the one is a step of the other.                               *)
LEMMA RingNextSame == Ring!RingNext => RingP!RingNext
<1> USE DEF Ring!Slots, RingP!Slots, Ring!NoBlock, RingP!NoBlock,
            Ring!ringKernelVars, RingP!ringKernelVars
<1>1. Ring!KernelFill => RingP!KernelFill
  BY DEF Ring!KernelFill, RingP!KernelFill
<1>2. Ring!NextBlock => RingP!NextBlock
  BY DEF Ring!NextBlock, RingP!NextBlock, Ring!NextBlockEnter, RingP!NextBlockEnter,
         Ring!ResetTo, RingP!ResetTo, Ring!NextBlockGet, RingP!NextBlockGet,
         Ring!NextBlockEmpty, RingP!NextBlockEmpty, Ring!Unlocked, RingP!Unlocked,
         Ring!ReadyForUser, RingP!ReadyForUser
<1>3. ASSUME NEW s, Ring!Done(s) PROVE RingP!Done(s)
  BY <1>3 DEF Ring!Done, RingP!Done
<1>4. Ring!DestroyRing => RingP!DestroyRing
  BY DEF Ring!DestroyRing, RingP!DestroyRing
<1>5. Ring!RingDestroyed => RingP!RingDestroyed
  BY DEF Ring!RingDestroyed, RingP!RingDestroyed
<1> QED BY <1>1, <1>2, <1>3, <1>4, <1>5 DEF Ring!RingNext, RingP!RingNext

(* So are the specifications.                                              *)
LEMMA RingSpecSame == Ring!RingSpec => RingP!RingSpec
<1>1. Ring!RingInit => RingP!RingInit
  BY DEF Ring!RingInit, RingP!RingInit, Ring!LastSlot, RingP!LastSlot,
         Ring!Slots, RingP!Slots, Ring!NoBlock, RingP!NoBlock
<1>2. [Ring!RingNext]_(Ring!ringVars) => [RingP!RingNext]_(RingP!ringVars)
  BY RingNextSame
  DEF Ring!ringVars, RingP!ringVars, Ring!ringKernelVars, RingP!ringKernelVars
<1> QED BY <1>1, <1>2, PTL DEF Ring!RingSpec, RingP!RingSpec

(* The thread gets the captured blocks in order, none twice, none skipped. *)
THEOREM RingInOrder == Spec => Ring!InOrderDelivery
<1>1. RingP!RingSpec => RingP!InOrderDelivery
  BY RingAssumption, RingP!InOrderDeliveryHolds
<1>2. [delivered' # delivered => delivered' = delivered + 1]_(RingP!ringVars)
        => [delivered' # delivered => delivered' = delivered + 1]_(Ring!ringVars)
  BY DEF Ring!ringVars, RingP!ringVars, Ring!ringKernelVars, RingP!ringKernelVars
<1> QED
  BY <1>1, <1>2, RingSpecSame, ImplementsRing, PTL
  DEF Ring!InOrderDelivery, RingP!InOrderDelivery

(* The ring's inductive invariant holds in the thread.                     *)
LEMMA RingInvariant == Spec => []RingP!RingInv
<1>1. RingP!RingSpec => []RingP!RingInv
  BY RingAssumption, RingP!RingInvariant
<1> QED BY <1>1, RingSpecSame, ImplementsRing, PTL

(* The two instances also have a Cardinality each.                         *)
LEMMA SameCardinality ==
    ASSUME NEW S
    PROVE  Out!Cardinality(S) = OutP!Cardinality(S)
  BY DEF Out!Cardinality, OutP!Cardinality

(* A step of the one is a step of the other.                               *)
LEMMA OutNextSame == Out!Next => OutP!Next
<1> USE DEF Out!callVars, OutP!callVars, Out!kernelVars, OutP!kernelVars
<1>1. /\ Out!Requested = OutP!Requested
      /\ \A f, outs, trunc : Out!Closable(f, outs, trunc) <=> OutP!Closable(f, outs, trunc)
      /\ \A f, t : Out!Truncated(f, t) = OutP!Truncated(f, t)
  BY DEF Out!Requested, OutP!Requested, Out!Closable, OutP!Closable, Out!OfFile,
         OutP!OfFile, Out!Truncated, OutP!Truncated
<1>2. Out!ClosesNow <=> OutP!ClosesNow
  BY <1>1 DEF Out!ClosesNow, OutP!ClosesNow
<1>3. ASSUME NEW f, NEW t
      PROVE  /\ Out!Close(f, t) => OutP!Close(f, t)
             /\ Out!CloseFails(f, t) => OutP!CloseFails(f, t)
  BY <1>1 DEF Out!Close, OutP!Close, Out!CloseFails, OutP!CloseFails
<1>4. Out!GetEvents => OutP!GetEvents
  BY SameCardinality DEF Out!GetEvents, OutP!GetEvents
<1>5. ASSUME NEW f, Out!Rotate(f) PROVE OutP!Rotate(f)
  BY <1>1, <1>2, <1>5
  DEF Out!Rotate, OutP!Rotate, Out!OpenFile, OutP!OpenFile, Out!Preallocated,
      OutP!Preallocated
<1>6. Out!RotateCloseFails => OutP!RotateCloseFails
  BY <1>1, <1>2, <1>3 DEF Out!RotateCloseFails, OutP!RotateCloseFails
<1>7. Out!RotateOpenFails => OutP!RotateOpenFails
  BY <1>1, <1>2, <1>3 DEF Out!RotateOpenFails, OutP!RotateOpenFails
<1>8. Out!Call => OutP!Call
  BY <1>1, <1>4, <1>5, <1>6, <1>7
  DEF Out!Call, OutP!Call, Out!WriteStart, OutP!WriteStart, Out!CheckStart,
      OutP!CheckStart, Out!FlushStart, OutP!FlushStart
<1>9. Out!Prepare => OutP!Prepare
  BY SameCardinality
     DEF Out!Prepare, OutP!Prepare, Out!NextWrite, OutP!NextWrite,
         Out!Outstanding, OutP!Outstanding
<1>10. (Out!Submit => OutP!Submit) /\ (Out!SubmitFails => OutP!SubmitFails)
  BY <1>9
  DEF Out!Submit, OutP!Submit, Out!SubmitFails, OutP!SubmitFails, Out!NextWrite,
      OutP!NextWrite
<1>11. ASSUME NEW w, Out!HandleEvent(w) PROVE OutP!HandleEvent(w)
  <2>1. \A r, e : Out!Replaced(r, e) = OutP!Replaced(r, e)
    BY DEF Out!Replaced, OutP!Replaced
  <2>2. Out!DoneError(w) = OutP!DoneError(w)
    BY DEF Out!DoneError, OutP!DoneError
  <2> QED
    BY <1>1, <1>3, <1>11, <2>1, <2>2 DEF Out!HandleEvent, OutP!HandleEvent
<1>12. /\ Out!WaitForSlot => OutP!WaitForSlot
       /\ Out!WaitForFlush => OutP!WaitForFlush
  BY <1>4, SameCardinality
  DEF Out!WaitForSlot, OutP!WaitForSlot, Out!WaitForFlush, OutP!WaitForFlush,
      Out!Outstanding, OutP!Outstanding, Out!EventReady, OutP!EventReady
<1>13. /\ Out!CheckReturn => OutP!CheckReturn
       /\ Out!FlushReturn => OutP!FlushReturn
       /\ Out!Abort => OutP!Abort
  BY DEF Out!CheckReturn, OutP!CheckReturn, Out!FlushReturn, OutP!FlushReturn,
         Out!Abort, OutP!Abort
<1>14. Out!InCall => OutP!InCall
  BY <1>10, <1>11, <1>12, <1>13 DEF Out!InCall, OutP!InCall
<1>15. Out!Kernel => OutP!Kernel
  BY DEF Out!Kernel, OutP!Kernel, Out!CompleteWrite, OutP!CompleteWrite,
         Out!FailWrite, OutP!FailWrite
<1> QED BY <1>8, <1>14, <1>15 DEF Out!Next, OutP!Next

(* So are the specifications.                                              *)
LEMMA OutSpecSame == Out!Spec => OutP!Spec
<1>1. Out!Init => OutP!Init
  BY DEF Out!Init, OutP!Init
<1>2. [Out!Next]_(Out!vars) => [OutP!Next]_(OutP!vars)
  BY OutNextSame
  DEF Out!vars, OutP!vars, Out!kernelVars, OutP!kernelVars, Out!callVars, OutP!callVars
<1> QED BY <1>1, <1>2, PTL DEF Out!Spec, OutP!Spec

(* The assumptions of AioOutput hold of the constants it is given.         *)
LEMMA OutAssumptions ==
    /\ BlocksPerFile + 1 \in Nat
    /\ Failures \ {"index"} \subseteq
          {"write", "submit", "open", "fallocate", "truncate", "close"}
  BY BlocksPerFileAssumption, FailuresAssumption

(* A packet file of the thread that is visible holds every block given to  *)
(* it, or the error of one that was lost is about to end the process.      *)
THEOREM PublishedIntactInThread == Spec => []Out!PublishedIntact
<1>1. OutP!Spec => []OutP!PublishedIntact
  BY OutAssumptions, SlotsAssumption, FilesAssumption, OutP!PublishedIntactHolds
<1>2. OutP!PublishedIntact => Out!PublishedIntact
  BY DEF Out!PublishedIntact, OutP!PublishedIntact
<1> QED BY <1>1, <1>2, OutSpecSame, ImplementsOutput, PTL

(* The inductive invariant of the packet files holds in the thread.        *)
LEMMA OutInvariant == Spec => []OutP!IInv
<1>1. OutP!Spec => []OutP!IInv
  BY OutAssumptions, SlotsAssumption, FilesAssumption, OutP!Invariant
<1> QED BY <1>1, OutSpecSame, ImplementsOutput, PTL
-----------------------------------------------------------------------------
(***************************************************************************)
(* The memory of writes in flight.                                         *)
(***************************************************************************)
InFlight == inflight \cup completed \cup batch

(* A PWrite that holds a ring block is live and holds it alone; every write*)
(* in flight has one.  (The PWrite of a failed submit has none: it is lost *)
(* with the process.)                                                      *)
Owned ==
    /\ owner \in [Ring!Slots -> Out!Writes \cup {NoWrite}]
    /\ \A w \in InFlight : \E s \in Ring!Slots : owner[s] = w
    /\ \A s \in Ring!Slots :
          owner[s] # NoWrite => owner[s] \in outstanding /\ mu[s] = "user"
    /\ \A s, t \in Ring!Slots : owner[s] = owner[t] /\ owner[s] # NoWrite => s = t

(* The Block RunThread works on is its own, not yet a PWrite's.            *)
BlockHeld ==
    at \in {"index", "write"} =>
        block \in Ring!Slots /\ mu[block] = "user" /\ owner[block] = NoWrite

OwnerInv == Owned /\ BlockHeld

(* What is used of the invariants of the two parts.                        *)
LEMMA OutFacts ==
    ASSUME OutP!IInv
    PROVE  /\ outstanding \subseteq Out!Writes /\ NoWrite \notin outstanding
           /\ InFlight \subseteq outstanding
           /\ batch \cap (inflight \cup completed) = {}
           /\ Out!NextWrite \notin outstanding
           /\ pc = "write" => Out!NextWrite \in Out!Writes
<1>1. outstanding \subseteq Out!Writes
  BY DEF OutP!IInv, OutP!TypeOK, OutP!Writes, Out!Writes
<1>2. NoWrite \notin outstanding
  BY <1>1, NoWriteAssumption DEF Out!Writes
<1>3. InFlight \subseteq outstanding /\ batch \cap (inflight \cup completed) = {}
  BY DEF OutP!IInv, OutP!Accounted, InFlight
<1>4. Out!NextWrite \notin outstanding
  <2> SUFFICES ASSUME Out!NextWrite \in outstanding PROVE FALSE
    OBVIOUS
  <2>1. current \in Files /\ offset[current] \in Nat
    BY <1>1 DEF Out!NextWrite, Out!Writes
  <2>2. offset[current] < offset[current]
    BY DEF OutP!IInv, OutP!OwnedByFile, Out!NextWrite
  <2> QED BY <2>1, <2>2
<1>5. pc = "write" => Out!NextWrite \in Out!Writes
  BY DEF OutP!IInv, OutP!WriteHasFile, OutP!TypeOK, Out!NextWrite, Out!Writes
<1> QED BY <1>1, <1>2, <1>3, <1>4, <1>5

(* The same of the ring: only pos_ is locked by the ring itself.           *)
LEMMA RingFacts ==
    ASSUME RingP!RingInv
    PROVE  /\ mu \in [Ring!Slots -> {"free", "pos", "user"}]
           /\ pos # Ring!NoBlock => pos \in Ring!Slots /\ mu[pos] = "pos"
           /\ call = "poll" => pos # Ring!NoBlock
           /\ ringOffset \in Ring!Slots
  BY DEF RingP!RingInv, RingP!RingTypeOK, RingP!Locks, RingP!Phase, RingP!Slots,
         Ring!Slots, RingP!NoBlock, Ring!NoBlock

(* No ring block has an owner before the first write.                      *)
LEMMA OwnerInit == Init => OwnerInv
<1> SUFFICES ASSUME Init PROVE OwnerInv
  OBVIOUS
<1>1. /\ owner = [s \in Ring!Slots |-> NoWrite] /\ at = "start"
      /\ inflight = {} /\ completed = {} /\ batch = {}
  BY DEF Init, Out!Init
<1> QED BY <1>1 DEF OwnerInv, Owned, BlockHeld, InFlight

(* Steps that move no PWrite and unlock no block.                          *)
LEMMA OwnerKept ==
    ASSUME OwnerInv, InFlight' \subseteq InFlight, outstanding \subseteq outstanding',
           \A s \in Ring!Slots : mu[s] = "user" => mu'[s] = "user",
           UNCHANGED owner,
           at' \in {"index", "write"} => at \in {"index", "write"} /\ block' = block
    PROVE  OwnerInv'
<1>1. Owned'
  BY DEF OwnerInv, Owned
<1>2. BlockHeld'
  BY DEF OwnerInv, BlockHeld
<1> QED BY <1>1, <1>2 DEF OwnerInv

(* Only NextBlock, Write and the handling of an event move a block.        *)
LEMMA OwnerStep ==
    ASSUME OwnerInv, OutP!IInv, RingP!RingInv, [Next]_vars
    PROVE  OwnerInv'
<1> USE DEF outVars, ringVars, threadVars, indexerVars
<1> DEFINE StillHeld == \A s \in Ring!Slots : mu[s] = "user" => mu'[s] = "user"
           Kept == InFlight' \subseteq InFlight /\ outstanding \subseteq outstanding'
<1>1. ASSUME Start \/ LoopRound \/ PollDone \/ RotateFile \/ KeepFile \/ PutIndex
             \/ LeaveLoop \/ PutLastIndex \/ Flush \/ Abort
      PROVE  OwnerInv'
  <2>1. /\ UNCHANGED <<owner, mu, block, outstanding>>
        /\ InFlight' \subseteq InFlight
    BY <1>1
    DEF Start, LoopRound, Poll, PollDone, RotateFile, KeepFile, PutIndex, LeaveLoop,
        PutLastIndex, Flush, Abort, Out!Rotate, Out!CheckStart, Out!CheckReturn,
        Out!FlushStart, Out!WaitForFlush, Out!FlushReturn, Out!Abort,
        Out!RotateCloseFails, Out!RotateOpenFails, Out!GetEvents, Out!kernelVars,
        Out!callVars, InFlight
  <2>2. at' \in {"index", "write"} => at \in {"index", "write"}
    BY <1>1
    DEF Start, LoopRound, Poll, PollDone, RotateFile, KeepFile, PutIndex, LeaveLoop,
        PutLastIndex, Flush, Abort
  <2> QED BY <2>1, <2>2, OwnerKept
<1>2. CASE GetBlock
  <2>1. UNCHANGED <<owner, InFlight, outstanding>>
    BY <1>2 DEF GetBlock, InFlight
  <2>2. at = "next"
    BY <1>2 DEF GetBlock
  <2>3. CASE Ring!NextBlockGet /\ at' = "index" /\ block' = pos
    <3>1. pos \in Ring!Slots /\ mu[pos] = "pos" /\ mu' = [mu EXCEPT ![pos] = "user"]
      BY <2>3, RingFacts DEF Ring!NextBlockGet
    <3>2. owner[pos] = NoWrite
      BY <3>1 DEF OwnerInv, Owned
    <3>3. StillHeld /\ mu'[pos] = "user"
      BY <3>1, RingFacts
    <3>4. Owned'
      BY <2>1, <3>3 DEF OwnerInv, Owned
    <3> QED BY <2>1, <2>3, <3>1, <3>2, <3>3, <3>4 DEF OwnerInv, BlockHeld
  <2>4. CASE (Ring!NextBlockEnter \/ Ring!ResetTo) /\ UNCHANGED <<at, block>>
    <3>1. StillHeld
      BY <2>4, RingFacts DEF Ring!NextBlockEnter, Ring!ResetTo, Ring!Unlocked
    <3> QED BY <2>1, <2>2, <2>4, <3>1, OwnerKept
  <2>5. CASE Ring!NextBlockEmpty /\ at' = "loop"
    BY <2>1, <2>5, OwnerKept DEF Ring!NextBlockEmpty
  <2> QED BY <1>2, <2>3, <2>4, <2>5 DEF GetBlock
<1>3. CASE IndexBlock
  BY <1>3, OwnerKept DEF IndexBlock, InFlight
<1>4. CASE WriteBlock
  <2>1. at = "write" /\ UNCHANGED mu
    BY <1>4 DEF WriteBlock
  <2>2. block \in Ring!Slots /\ mu[block] = "user" /\ owner[block] = NoWrite
    BY <2>1 DEF OwnerInv, BlockHeld
  <2>3. CASE (Out!WriteStart \/ Out!WaitForSlot \/ Out!SubmitFails)
             /\ UNCHANGED <<at, owner, block>>
    <3>1. Kept
      BY <2>3
      DEF Out!WriteStart, Out!WaitForSlot, Out!SubmitFails, Out!Prepare,
          Out!GetEvents, Out!kernelVars, InFlight
    <3> QED BY <2>1, <2>3, <3>1, OwnerKept
  <2>4. CASE /\ Out!Submit /\ owner' = [owner EXCEPT ![block] = Out!NextWrite]
             /\ at' = "loop"
    <3>1. /\ outstanding' = outstanding \cup {Out!NextWrite}
          /\ InFlight' = InFlight \cup {Out!NextWrite}
      BY <2>4 DEF Out!Submit, Out!Prepare, InFlight
    <3>2. Out!NextWrite \in Out!Writes
      BY <2>4, OutFacts DEF Out!Submit, Out!Prepare
    <3>3. /\ owner' \in [Ring!Slots -> Out!Writes \cup {NoWrite}]
          /\ owner'[block] = Out!NextWrite
          /\ \A s \in Ring!Slots : s # block => owner'[s] = owner[s]
      BY <2>2, <2>4, <3>2 DEF OwnerInv, Owned
    <3>4. \A w \in InFlight' : \E s \in Ring!Slots : owner'[s] = w
      <4> SUFFICES ASSUME NEW w \in InFlight PROVE \E s \in Ring!Slots : owner'[s] = w
        BY <2>2, <3>1, <3>3
      <4>1. PICK s \in Ring!Slots : owner[s] = w
        BY DEF OwnerInv, Owned
      <4>2. s # block
        BY <2>2, <4>1, OutFacts
      <4> QED BY <3>3, <4>1, <4>2
    <3>5. \A s \in Ring!Slots :
             owner'[s] # NoWrite => owner'[s] \in outstanding' /\ mu'[s] = "user"
      BY <2>1, <2>2, <3>1, <3>3 DEF OwnerInv, Owned
    <3>6. \A s, t \in Ring!Slots : owner'[s] = owner'[t] /\ owner'[s] # NoWrite => s = t
      BY <3>3, OutFacts DEF OwnerInv, Owned
    <3> QED BY <2>4, <3>3, <3>4, <3>5, <3>6 DEF OwnerInv, Owned, BlockHeld
  <2> QED BY <1>4, <2>3, <2>4 DEF WriteBlock
<1>5. CASE HandleEvent
  <2>1. PICK w \in batch, s \in Ring!Slots :
           /\ owner[s] = w /\ Out!HandleEvent(w) /\ Ring!Done(s)
           /\ owner' = [owner EXCEPT ![s] = NoWrite]
    BY <1>5 DEF HandleEvent
  <2>2. UNCHANGED <<at, block>>
    BY <1>5 DEF HandleEvent
  <2>3. /\ outstanding' = outstanding \ {w}
        /\ InFlight' = InFlight \ {w}
        /\ w # NoWrite
    BY <2>1, OutFacts DEF Out!HandleEvent, Out!kernelVars, InFlight
  <2>4. /\ owner' \in [Ring!Slots -> Out!Writes \cup {NoWrite}]
        /\ owner'[s] = NoWrite
        /\ \A t \in Ring!Slots : t # s => owner'[t] = owner[t]
    BY <2>1 DEF OwnerInv, Owned
  <2>5. \A t \in Ring!Slots : t # s => mu'[t] = mu[t]
    BY <2>1, RingFacts DEF Ring!Done
  <2>6. \A t \in Ring!Slots : t # s => owner[t] # w
    BY <2>1, <2>3 DEF OwnerInv, Owned
  <2>7. Owned'
    <3>1. \A v \in InFlight' : \E t \in Ring!Slots : owner'[t] = v
      BY <2>1, <2>3, <2>4 DEF OwnerInv, Owned
    <3>2. \A t \in Ring!Slots :
             owner'[t] # NoWrite => owner'[t] \in outstanding' /\ mu'[t] = "user"
      BY <2>3, <2>4, <2>5, <2>6 DEF OwnerInv, Owned
    <3>3. \A t, u \in Ring!Slots : owner'[t] = owner'[u] /\ owner'[t] # NoWrite => t = u
      BY <2>4 DEF OwnerInv, Owned
    <3> QED BY <2>4, <3>1, <3>2, <3>3 DEF Owned
  <2>8. BlockHeld'
    BY <2>1, <2>2, <2>3, <2>4, <2>5 DEF OwnerInv, BlockHeld
  <2> QED BY <2>7, <2>8 DEF OwnerInv
<1>6. CASE DestroyRing
  <2>1. /\ UNCHANGED <<owner, InFlight, outstanding, block>>
        /\ at = "destroy" /\ at' \in {"destroy", "done"}
    BY <1>6 DEF DestroyRing, InFlight
  <2>2. StillHeld
    BY <1>6, RingFacts
    DEF DestroyRing, Ring!DestroyRing, Ring!RingDestroyed, Ring!ringKernelVars
  <2> QED BY <2>1, <2>2, OwnerKept
<1>7. CASE KernelFill
  <2>1. UNCHANGED <<owner, InFlight, outstanding, block, at, mu>>
    BY <1>7 DEF KernelFill, Ring!KernelFill, InFlight
  <2> QED BY <2>1, OwnerKept
<1>8. CASE KernelWrite
  <2>1. UNCHANGED <<owner, outstanding, block, at, mu>> /\ InFlight' \subseteq InFlight
    BY <1>8 DEF KernelWrite, Out!CompleteWrite, Out!FailWrite, Out!callVars, InFlight
  <2> QED BY <2>1, OwnerKept
<1>9. CASE WriteIndexes \/ Main \/ HandleSignals \/ UNCHANGED vars
  <2>1. UNCHANGED <<owner, InFlight, outstanding, block, at, mu>>
    BY <1>9
    DEF WriteIndexes, GetIndex, FlushIndex, RenameIndex, Main, CloseQueue, Exit,
        HandleSignals, vars, InFlight
  <2> QED BY <2>1, OwnerKept
<1> QED
  BY <1>1, <1>2, <1>3, <1>4, <1>5, <1>6, <1>7, <1>8, <1>9 DEF Next, RunThread

(* Whatever fails and in whatever order the writes complete, each write in *)
(* flight has a ring block of its own, and the ring has not taken it back. *)
THEOREM WriteHoldsBlockHolds == Spec => []WriteHoldsBlock
<1>1. OwnerInv /\ OutP!IInv => WriteHoldsBlock
  BY OutFacts DEF OwnerInv, Owned, WriteHoldsBlock, InFlight
<1>2. OwnerInv /\ OutP!IInv /\ RingP!RingInv /\ [Next]_vars => OwnerInv'
  BY OwnerStep
<1> QED
  BY <1>1, <1>2, OwnerInit, OutInvariant, RingInvariant, PTL DEF Spec

-----------------------------------------------------------------------------
(***************************************************************************)
(* block_offset is below blocks_per_file whenever a block is indexed.  The *)
(* comparison that rotates is for equality: what carries the argument is   *)
(* that a round adds one block at most, and passes the comparison first.   *)
(***************************************************************************)
Entries == [off : 0 .. BlocksPerFile - 1, cap : Nat]
Indexes == [file : Files \cup {NoFile}, entries : SUBSET Entries]

OffsetInv ==
    /\ blockOffset \in 0 .. BlocksPerFile
    /\ at \in {"start", "put", "next", "index"} => blockOffset < BlocksPerFile
    /\ index \in Indexes /\ flushing \in Indexes /\ queue \in Seq(Indexes)

LEMMA OffsetInit == ASSUME Init, BlocksPerFile # 0 PROVE OffsetInv
<1>1. BlocksPerFile \in Nat /\ BlocksPerFile > 0
  BY BlocksPerFileAssumption
<1>2. NewIndex(NoFile) \in Indexes
  BY DEF NewIndex, Indexes
<1>3. blockOffset = 0 /\ index = NewIndex(NoFile) /\ flushing = NewIndex(NoFile)
      /\ queue = <<>>
  BY DEF Init
<1> QED BY <1>1, <1>2, <1>3 DEF OffsetInv

LEMMA OffsetStep ==
    ASSUME OffsetInv, OwnerInv, OutP!IInv, RingP!RingInv, [Next]_vars, BlocksPerFile # 0
    PROVE  OffsetInv'
<1> USE BlocksPerFileAssumption DEF outVars, ringVars, threadVars, indexerVars
<1>1. \A f \in Files \cup {NoFile} : NewIndex(f) \in Indexes
  BY DEF NewIndex, Indexes
<1>2. CASE Start
  <2>1. index' \in Indexes
    BY <1>1, <1>2 DEF Start
  <2> QED BY <1>2, <2>1 DEF Start, OffsetInv
<1>3. CASE RotateFile
  BY <1>3 DEF RotateFile, OffsetReset, OffsetInv
<1>4. CASE KeepFile
  BY <1>4 DEF KeepFile, FileFull, OffsetInv
<1>5. CASE PutIndex
  <2>1. current \in Files \cup {NoFile}
    BY DEF OutP!IInv, OutP!TypeOK
  <2>2. index' \in Indexes
    BY <1>1, <1>5, <2>1 DEF PutIndex
  <2> QED BY <1>5, <2>2 DEF PutIndex, OffsetInv
<1>6. CASE GetBlock
  BY <1>6 DEF GetBlock, OffsetInv
<1>7. CASE IndexBlock
  <2>1. at = "index" /\ block \in Ring!Slots
    BY <1>7 DEF IndexBlock, OwnerInv, BlockHeld
  <2>2. cap[block] \in Nat
    BY <2>1, RingAssumption
    DEF RingP!RingInv, RingP!RingTypeOK, RingP!Slots, Ring!Slots
  <2>3. [off |-> blockOffset, cap |-> cap[block]] \in Entries
    BY <2>1, <2>2 DEF OffsetInv, Entries
  <2>4. index' \in Indexes
    BY <1>7, <2>3 DEF IndexBlock, OffsetInv, Indexes
  <2> QED BY <1>7, <2>1, <2>4 DEF IndexBlock, OffsetInv
<1>8. CASE PutLastIndex
  BY <1>8 DEF PutLastIndex, OffsetInv
<1>9. CASE GetIndex
  <2>1. flushing' \in Indexes /\ queue' \in Seq(Indexes)
    BY <1>9 DEF GetIndex, GetNull, OffsetInv
  <2> QED BY <1>9, <2>1 DEF GetIndex, OffsetInv
<1>10. CASE LoopRound \/ PollDone \/ WriteBlock \/ HandleEvent \/ LeaveLoop
            \/ Flush \/ DestroyRing \/ Abort
  <2>1. UNCHANGED <<blockOffset, index, flushing, queue>>
        /\ (at' = at \/ at' \notin {"start", "put", "next", "index"})
    BY <1>10
    DEF LoopRound, Poll, PollDone, WriteBlock, HandleEvent, LeaveLoop, Flush,
        DestroyRing, Abort
  <2> QED BY <2>1 DEF OffsetInv
<1>11. CASE FlushIndex \/ RenameIndex \/ Main \/ HandleSignals \/ KernelFill
            \/ KernelWrite \/ UNCHANGED vars
  <2>1. UNCHANGED <<blockOffset, index, flushing, queue, at>>
    BY <1>11
    DEF FlushIndex, RenameIndex, Main, CloseQueue, Exit, HandleSignals, KernelFill,
        KernelWrite, vars
  <2> QED BY <2>1 DEF OffsetInv
<1> QED
  BY <1>2, <1>3, <1>4, <1>5, <1>6, <1>7, <1>8, <1>9, <1>10, <1>11
  DEF Next, RunThread, WriteIndexes

(* Every block is indexed within its file, however many blocks a file has, *)
(* as long as it has one: the flag checks of Main do not ensure even that. *)
THEOREM OffsetsFitHolds == ASSUME BlocksPerFile # 0 PROVE Spec => []OffsetsFit
<1>1. Init => OffsetInv
  BY OffsetInit
<1>2. OffsetInv /\ OwnerInv /\ OutP!IInv /\ RingP!RingInv /\ [Next]_vars => OffsetInv'
  BY OffsetStep
<1>3. OwnerInv /\ OutP!IInv /\ RingP!RingInv /\ [Next]_vars => OwnerInv'
  BY OwnerStep
<1>4. OffsetInv => OffsetsFit
  <2> SUFFICES ASSUME OffsetInv PROVE OffsetsFit
    OBVIOUS
  <2>1. \A ix \in Indexes : Within(ix)
    BY BlocksPerFileAssumption DEF Indexes, Entries, Within
  <2>2. \A i \in DOMAIN queue : queue[i] \in Indexes
    BY DEF OffsetInv
  <2> QED BY <2>1, <2>2, BlocksPerFileAssumption DEF OffsetInv, OffsetsFit
<1> QED
  BY <1>1, <1>2, <1>3, <1>4, OwnerInit, OutInvariant, RingInvariant, PTL DEF Spec

-----------------------------------------------------------------------------
(***************************************************************************)
(* The indexes: where their entries come from and what they lead to.       *)
(***************************************************************************)
Entry == [off : Nat, cap : Nat]

(* What Out and the ring guarantee.                                        *)
Parts == OwnerInv /\ OutP!IInv /\ RingP!RingInv

LEMMA PartsHold == Spec => []Parts
<1>1. OwnerInv /\ OutP!IInv /\ RingP!RingInv /\ [Next]_vars => OwnerInv'
  BY OwnerStep
<1> QED
  BY <1>1, OwnerInit, OutInvariant, RingInvariant, PTL DEF Spec, Parts

(* The facts used of them: the ring block of a live PWrite is not the      *)
(* kernel's, and the PWrite is one its file has accepted.                  *)
LEMMA PartsFacts ==
    ASSUME Parts
    PROVE  /\ offset \in [Files -> Nat]
           /\ current \in Files \cup {NoFile} /\ NoFile \notin Files
           /\ dir \in [Files -> {"absent", "hidden", "published"}]
           /\ cap \in [Ring!Slots -> Nat]
           /\ status \in [Ring!Slots -> {"kernel", "user"}]
           /\ owner \in [Ring!Slots -> Out!Writes \cup {NoWrite}]
           /\ NoWrite \notin Out!Writes
           /\ \A s \in Ring!Slots : mu[s] = "user" => status[s] = "user"
           /\ \A s \in Ring!Slots : owner[s] # NoWrite =>
                 /\ owner[s] \in outstanding /\ mu[s] = "user"
           /\ \A s, t \in Ring!Slots : owner[s] = owner[t] /\ owner[s] # NoWrite => s = t
           /\ \A w \in outstanding : w.file \in files /\ w.off < offset[w.file]
           /\ \A w \in durable : w.off < offset[w.file]
           /\ outstanding \subseteq Out!Writes /\ durable \subseteq Out!Writes
           /\ inflight \cup completed \cup batch \subseteq outstanding
<1>1. /\ offset \in [Files -> Nat]
      /\ current \in Files \cup {NoFile} /\ NoFile \notin Files
      /\ dir \in [Files -> {"absent", "hidden", "published"}]
      /\ outstanding \subseteq Out!Writes /\ durable \subseteq Out!Writes
  BY FilesAssumption DEF Parts, OutP!IInv, OutP!TypeOK, OutP!Writes, Out!Writes
<1>2. cap \in [Ring!Slots -> Nat] /\ status \in [Ring!Slots -> {"kernel", "user"}]
  <2>1. cap \in [Ring!Slots -> 0 .. MaxCaptures]
    BY DEF Parts, RingP!RingInv, RingP!RingTypeOK, RingP!Slots, Ring!Slots
  <2>2. 0 .. MaxCaptures \subseteq Nat
    BY RingAssumption
  <2>3. status \in [Ring!Slots -> {"kernel", "user"}]
    BY DEF Parts, RingP!RingInv, RingP!RingTypeOK, RingP!Slots, Ring!Slots
  <2> QED BY <2>1, <2>2, <2>3
<1>3. NoWrite \notin Out!Writes
  BY NoWriteAssumption DEF Out!Writes
<1>4. \A s \in Ring!Slots : mu[s] = "user" => status[s] = "user"
  BY DEF Parts, RingP!RingInv, RingP!HeldReady, RingP!Slots, Ring!Slots
<1>5. /\ \A w \in outstanding : w.file \in files /\ w.off < offset[w.file]
      /\ \A w \in durable : w.off < offset[w.file]
      /\ inflight \cup completed \cup batch \subseteq outstanding
  BY DEF Parts, OutP!IInv, OutP!OwnedByFile, OutP!Ledger, OutP!Accounted
<1> QED BY <1>1, <1>2, <1>3, <1>4, <1>5 DEF Parts, OwnerInv, Owned

(***************************************************************************)
(* The directory: a name that was not used yet has no blocks, and a file   *)
(* with its dot-name is one of files_.                                     *)
(***************************************************************************)
DirInv ==
    /\ \A f \in Files : dir[f] = "absent" => offset[f] = 0
    /\ \A f \in Files : dir[f] = "hidden" => f \in files

LEMMA DirStep ==
    ASSUME DirInv, Parts, Out!Next \/ UNCHANGED outVars
    PROVE  /\ DirInv'
           /\ \A f \in Files : dir[f] # "absent" => dir'[f] # "absent"
<1> USE PartsFacts DEF DirInv
<1>1. ASSUME NEW f \in Files, Out!Rotate(f)
      PROVE  /\ DirInv'
             /\ \A g \in Files : dir[g] # "absent" => dir'[g] # "absent"
  <2>1. UNCHANGED offset /\ Out!OpenFile(f)
    BY <1>1 DEF Out!Rotate
  <2>2. CASE Out!ClosesNow
    <3>1. current \in Files
      BY <2>2 DEF Out!ClosesNow
    <3> QED BY <2>1, <2>2, <3>1 DEF Out!OpenFile
  <2>3. CASE ~Out!ClosesNow
    BY <2>1, <2>3 DEF Out!OpenFile
  <2> QED BY <2>2, <2>3
<1>2. CASE Out!RotateCloseFails
  BY <1>2 DEF Out!RotateCloseFails, Out!CloseFails
<1>3. CASE Out!RotateOpenFails
  <2>1. CASE Out!ClosesNow
    <3>1. current \in Files
      BY <2>1 DEF Out!ClosesNow
    <3> QED BY <1>3, <2>1, <3>1 DEF Out!RotateOpenFails, Out!Close
  <2>2. CASE ~Out!ClosesNow
    BY <1>3, <2>2 DEF Out!RotateOpenFails
  <2> QED BY <2>1, <2>2
<1>4. CASE Out!Submit \/ Out!SubmitFails
  <2>1. /\ UNCHANGED <<dir, files>> /\ current # NoFile
        /\ offset' = [offset EXCEPT ![current] = @ + 1]
    BY <1>4
    DEF Out!Submit, Out!SubmitFails, Out!Prepare, Parts, OutP!IInv, OutP!WriteHasFile
  <2>2. dir[current] = "hidden"
    BY <2>1 DEF Parts, OutP!IInv, OutP!CurrentOpen, OutP!Hidden
  <2> QED BY <2>1, <2>2
<1>5. ASSUME NEW w \in batch, Out!HandleEvent(w)
      PROVE  /\ DirInv'
             /\ \A g \in Files : dir[g] # "absent" => dir'[g] # "absent"
  <2>1. w.file \in Files
    BY DEF Out!Writes
  <2> QED BY <1>5, <2>1 DEF Out!HandleEvent, Out!Close, Out!CloseFails
<1>6. CASE Out!WriteStart \/ Out!CheckStart \/ Out!FlushStart \/ Out!WaitForSlot
           \/ Out!CheckReturn \/ Out!WaitForFlush \/ Out!FlushReturn \/ Out!Abort
           \/ Out!Kernel \/ UNCHANGED outVars
  <2>1. UNCHANGED <<dir, files, offset>>
    BY <1>6
    DEF Out!WriteStart, Out!CheckStart, Out!FlushStart, Out!WaitForSlot, Out!GetEvents,
        Out!CheckReturn, Out!WaitForFlush, Out!FlushReturn, Out!Abort, Out!Kernel,
        Out!CompleteWrite, Out!FailWrite, outVars
  <2> QED BY <2>1
<1> QED
  BY <1>1, <1>2, <1>3, <1>4, <1>5, <1>6 DEF Out!Next, Out!Call, Out!InCall

-----------------------------------------------------------------------------
(***************************************************************************)
(* The inductive invariant of the indexes.                                 *)
(***************************************************************************)

(* A block on disk is one its file has accepted.                           *)
DiskInv == \A d \in disk : d.file \in Files /\ d.off \in Nat /\ d.off < offset[d.file]

(* Who follows entry e of the index of f finds the block it was made of,   *)
(* on disk or in the memory that a write of f is still to take there.      *)
Leads(f, e) ==
    /\ \A d \in disk : d.file = f /\ d.off = e.off => d.cap = e.cap
    /\ \A s \in Ring!Slots : owner[s] = [file |-> f, off |-> e.off] => cap[s] = e.cap

(* The entries E are an index of all that f has accepted.                  *)
Exact(f, E) ==
    /\ E \subseteq Entry
    /\ {e.off : e \in E} = 0 .. offset[f] - 1
    /\ \A e \in E : Leads(f, e)

(* A file that gets no more blocks: it was rotated away from, or the loop  *)
(* is over.                                                                *)
AfterLoop == {"flush", "destroy", "done"}
Settled(f) ==
    /\ f \in Files /\ dir[f] # "absent"
    /\ f = current => at \in AfterLoop

Handed(f, E) == Settled(f) /\ Exact(f, E)

(* The Index RunThread fills is that of the current file.  Between the     *)
(* indexing of a block and its submission it is one entry ahead.           *)
Filling == {"loop", "check", "age", "next", "index", "write", "finish"}
Ahead == IF at = "write" THEN 1 ELSE 0

FillingInv ==
    Alive /\ at \in Filling =>
        /\ index.file = current /\ current \in Files
        /\ index.entries \subseteq Entry
        /\ {e.off : e \in index.entries} = 0 .. blockOffset - 1
        /\ blockOffset = offset[current] + Ahead
        /\ \A e \in index.entries :
              IF e.off < offset[current] THEN Leads(current, e) ELSE e.cap = cap[block]

(* Between Rotate and Put the Index is that of the file rotated away from. *)
PutInv ==
    Alive /\ at = "put" =>
        /\ Handed(index.file, index.entries)
        /\ current \in Files /\ offset[current] = 0 /\ blockOffset = 0

(* RunThread starts with block_offset 0, and its Index is an Index.        *)
StartInv ==
    /\ at = "start" => blockOffset = 0
    /\ blockOffset \in Nat
    /\ index \in [file : Files \cup {NoFile}, entries : SUBSET Entry]

(* Every Index that was handed over is one of all its file accepted, in    *)
(* the queue, in the hands of WriteIndexes and in the index directory.     *)
HandedInv ==
    /\ queue \in Seq([file : Files, entries : SUBSET Entry])
    /\ \A i \in DOMAIN queue : Handed(queue[i].file, queue[i].entries)
    /\ indexer \in {"flush", "rename"} => Handed(flushing.file, flushing.entries)
    /\ idxDir \in [Files -> {"absent", "hidden", "published"}]
    /\ idxEntries \in [Files -> SUBSET Entry]
    /\ indexer = "rename" => idxEntries[flushing.file] = flushing.entries
    /\ \A f \in Files : idxDir[f] = "published" => Handed(f, idxEntries[f])

IndexInv == DirInv /\ DiskInv /\ StartInv /\ FillingInv /\ PutInv /\ HandedInv

-----------------------------------------------------------------------------
(***************************************************************************)
(* The steps that move a block: Submit hands it to a PWrite, the end of    *)
(* the PWrite gives it back, and the kernel takes its memory to disk.      *)
(***************************************************************************)
Takes ==
    /\ at = "write" /\ pc = "write" /\ current \in Files
    /\ block \in Ring!Slots /\ mu[block] = "user" /\ owner[block] = NoWrite
    /\ offset' = [offset EXCEPT ![current] = @ + 1]
    /\ UNCHANGED <<disk, failed>>
    /\ \/ /\ owner' = [owner EXCEPT ![block] = [file |-> current, off |-> offset[current]]]
          /\ at' = "loop"
       \/ UNCHANGED owner /\ ~Alive'

Gives ==
    \E s \in Ring!Slots :
        /\ owner[s] \in batch
        /\ owner' = [owner EXCEPT ![s] = NoWrite]
        /\ UNCHANGED <<disk, offset, failed, durable, at>>

Lands ==
    \E s \in Ring!Slots :
        /\ owner[s] \in inflight
        /\ disk' = disk \cup {[file |-> owner[s].file, off |-> owner[s].off, cap |-> cap[s]]}
        /\ durable' = durable \cup {owner[s]}
        /\ UNCHANGED <<owner, offset, failed, at>>

Quiet == UNCHANGED <<disk, owner, offset, durable>> /\ failed \subseteq failed'

LEMMA Moves ==
    ASSUME Parts, [Next]_vars
    PROVE  /\ \A s \in Ring!Slots : mu[s] = "user" => cap'[s] = cap[s]
           /\ Quiet \/ (Takes /\ UNCHANGED durable) \/ Gives \/ Lands
<1> USE DEF outVars, ringVars, threadVars, indexerVars
<1>1. CASE WriteBlock
  <2>1. at = "write" /\ UNCHANGED <<cap, disk>>
    BY <1>1 DEF WriteBlock
  <2>2. block \in Ring!Slots /\ mu[block] = "user" /\ owner[block] = NoWrite
    BY <2>1 DEF Parts, OwnerInv, BlockHeld
  <2>3. CASE Out!WriteStart \/ Out!WaitForSlot
    <3>1. UNCHANGED <<offset, failed, durable>>
      BY <2>3 DEF Out!WriteStart, Out!WaitForSlot, Out!GetEvents, Out!kernelVars
    <3>2. ~Out!Submit
      BY <2>3
      DEF Out!WriteStart, Out!WaitForSlot, Out!Submit, Out!Prepare
    <3>3. UNCHANGED owner
      BY <1>1, <3>1, <3>2 DEF WriteBlock
    <3> QED BY <2>1, <3>1, <3>3 DEF Quiet
  <2>4. ASSUME Out!Prepare
        PROVE  /\ current \in Files /\ pc = "write"
               /\ offset' = [offset EXCEPT ![current] = @ + 1]
    BY <2>4, PartsFacts DEF Out!Prepare, Parts, OutP!IInv, OutP!WriteHasFile
  <2>5. CASE Out!SubmitFails /\ UNCHANGED owner
    <3>1. Out!Prepare /\ ~Alive' /\ UNCHANGED <<failed, durable>>
      BY <2>5 DEF Out!SubmitFails, Out!kernelVars, Alive
    <3> QED BY <2>1, <2>2, <2>4, <2>5, <3>1 DEF Takes
  <2>6. CASE /\ Out!Submit /\ owner' = [owner EXCEPT ![block] = Out!NextWrite]
             /\ at' = "loop"
    <3>1. Out!Prepare /\ UNCHANGED <<failed, durable>>
      BY <2>6 DEF Out!Submit
    <3> QED BY <2>1, <2>2, <2>4, <2>6, <3>1 DEF Takes, Out!NextWrite
  <2> QED BY <1>1, <2>3, <2>5, <2>6 DEF WriteBlock
<1>2. CASE HandleEvent
  <2>1. PICK w \in batch, s \in Ring!Slots :
           /\ owner[s] = w /\ Out!HandleEvent(w) /\ Ring!Done(s)
           /\ owner' = [owner EXCEPT ![s] = NoWrite]
    BY <1>2 DEF HandleEvent
  <2>2. UNCHANGED <<disk, at, cap, offset, failed, durable>>
    BY <1>2, <2>1 DEF HandleEvent, Out!HandleEvent, Ring!Done, Out!kernelVars
  <2> QED BY <2>1, <2>2 DEF Gives
<1>3. CASE KernelWrite
  <2>1. PICK w \in inflight :
          \/ /\ Out!CompleteWrite(w)
             /\ disk' = disk \cup {[file |-> w.file, off |-> w.off, cap |-> cap[SlotOf(w)]]}
          \/ Out!FailWrite(w) /\ UNCHANGED disk
    BY <1>3 DEF KernelWrite
  <2>2. UNCHANGED <<cap, owner, at>>
    BY <1>3 DEF KernelWrite
  <2>3. \E s \in Ring!Slots : owner[s] = w
    BY DEF Parts, OwnerInv, Owned, InFlight
  <2>4. SlotOf(w) \in Ring!Slots /\ owner[SlotOf(w)] = w
    BY <2>3 DEF SlotOf
  <2>5. CASE Out!FailWrite(w) /\ UNCHANGED disk
    BY <2>2, <2>5 DEF Out!FailWrite, Quiet
  <2>6. CASE /\ Out!CompleteWrite(w)
             /\ disk' = disk \cup {[file |-> w.file, off |-> w.off, cap |-> cap[SlotOf(w)]]}
    <3>1. durable' = durable \cup {w} /\ UNCHANGED <<offset, failed>>
      BY <2>6 DEF Out!CompleteWrite
    <3>2. Lands
      BY <2>2, <2>4, <2>6, <3>1 DEF Lands
    <3> QED BY <2>2, <3>2
  <2> QED BY <2>1, <2>5, <2>6
<1>4. CASE KernelFill
  <2>1. UNCHANGED <<disk, owner, offset, durable, failed>>
    BY <1>4 DEF KernelFill
  <2>2. \A s \in Ring!Slots : mu[s] = "user" => cap'[s] = cap[s]
    BY <1>4, PartsFacts DEF KernelFill, Ring!KernelFill
  <2> QED BY <2>1, <2>2 DEF Quiet
<1>5. CASE Start \/ LoopRound \/ PollDone \/ RotateFile \/ Flush \/ Abort
  <2>1. UNCHANGED <<disk, owner, cap>>
    BY <1>5 DEF Start, LoopRound, PollDone, RotateFile, Flush, Abort
  <2>2. UNCHANGED <<offset, durable, failed>>
    BY <1>5
    DEF Start, LoopRound, Poll, PollDone, RotateFile, Flush, Abort, Out!Rotate,
        Out!CheckStart, Out!CheckReturn, Out!FlushStart, Out!WaitForFlush,
        Out!FlushReturn, Out!Abort, Out!RotateCloseFails, Out!RotateOpenFails,
        Out!GetEvents, Out!kernelVars
  <2> QED BY <2>1, <2>2 DEF Quiet
<1>6. CASE KeepFile \/ PutIndex \/ GetBlock \/ IndexBlock \/ LeaveLoop
           \/ PutLastIndex \/ DestroyRing
  <2>1. UNCHANGED <<disk, owner, offset, durable, failed>>
    BY <1>6
    DEF KeepFile, PutIndex, GetBlock, IndexBlock, LeaveLoop, PutLastIndex, DestroyRing
  <2>2. UNCHANGED cap
    BY <1>6
    DEF KeepFile, PutIndex, GetBlock, IndexBlock, LeaveLoop, PutLastIndex, DestroyRing,
        Ring!NextBlockEnter, Ring!ResetTo, Ring!NextBlockEmpty, Ring!NextBlockGet,
        Ring!DestroyRing, Ring!RingDestroyed, Ring!ringKernelVars
  <2> QED BY <2>1, <2>2 DEF Quiet
<1>7. CASE WriteIndexes \/ Main \/ HandleSignals \/ UNCHANGED vars
  <2>1. UNCHANGED <<disk, owner, offset, durable, failed, cap>>
    BY <1>7
    DEF WriteIndexes, GetIndex, FlushIndex, RenameIndex, Main, CloseQueue, Exit,
        HandleSignals, vars
  <2> QED BY <2>1 DEF Quiet
<1> QED
  BY <1>1, <1>2, <1>3, <1>4, <1>5, <1>6, <1>7 DEF Next, RunThread

(* A block is on disk only where its file has accepted one.                *)
LEMMA DiskStep ==
    ASSUME Parts, DiskInv, [Next]_vars
    PROVE  /\ DiskInv'
           /\ \A f \in Files : offset'[f] \in Nat /\ offset[f] <= offset'[f]
<1> USE PartsFacts DEF DiskInv
<1>1. CASE Quiet
  BY <1>1 DEF Quiet
<1>2. CASE Takes
  <2>1. \A f \in Files : offset'[f] \in Nat /\ offset[f] <= offset'[f]
    BY <1>2 DEF Takes
  <2>2. UNCHANGED disk
    BY <1>2 DEF Takes
  <2>3. DiskInv'
    <3> SUFFICES ASSUME NEW d \in disk
                 PROVE  d.file \in Files /\ d.off \in Nat /\ d.off < offset'[d.file]
      BY <2>2
    <3>1. d.file \in Files /\ d.off \in Nat /\ d.off < offset[d.file]
      OBVIOUS
    <3>2. offset[d.file] \in Nat /\ offset'[d.file] \in Nat /\ offset[d.file] <= offset'[d.file]
      BY <2>1, <3>1
    <3> QED BY <3>1, <3>2
  <2> QED BY <2>1, <2>3
<1>3. CASE Gives
  BY <1>3 DEF Gives
<1>4. CASE Lands
  <2>1. PICK s \in Ring!Slots :
           /\ owner[s] \in inflight
           /\ disk' = disk \cup {[file |-> owner[s].file, off |-> owner[s].off, cap |-> cap[s]]}
           /\ UNCHANGED offset
    BY <1>4 DEF Lands
  <2>2. owner[s] \in Out!Writes /\ owner[s].off < offset[owner[s].file]
    BY <2>1
  <2>3. owner[s].file \in Files /\ owner[s].off \in Nat
    BY <2>2 DEF Out!Writes
  <2> QED BY <2>1, <2>2, <2>3
<1> QED BY <1>1, <1>2, <1>3, <1>4, Moves

(* An entry leads to its block for good.                                   *)
LEMMA LeadsStep ==
    ASSUME Parts, [Next]_vars, NEW f \in Files, NEW e \in Entry,
           e.off < offset[f], Leads(f, e)
    PROVE  Leads(f, e)'
<1> USE PartsFacts DEF Leads
<1>1. e.off \in Nat /\ e.cap \in Nat
  BY DEF Entry
<1>2. \A s \in Ring!Slots : owner[s] = [file |-> f, off |-> e.off] => cap'[s] = e.cap
  <2> SUFFICES ASSUME NEW s \in Ring!Slots, owner[s] = [file |-> f, off |-> e.off]
               PROVE  cap'[s] = e.cap
    OBVIOUS
  <2>1. owner[s] # NoWrite
    BY <1>1, NoWriteAssumption
  <2>2. mu[s] = "user"
    BY <2>1
  <2> QED BY <2>2, Moves
<1>3. CASE Quiet
  BY <1>2, <1>3 DEF Quiet
<1>4. CASE Takes
  <2>1. CASE UNCHANGED owner
    BY <1>2, <1>4, <2>1 DEF Takes
  <2>2. CASE owner' = [owner EXCEPT ![block] = [file |-> current, off |-> offset[current]]]
    <3>1. [file |-> current, off |-> offset[current]] # [file |-> f, off |-> e.off]
      <4> SUFFICES ASSUME [file |-> current, off |-> offset[current]]
                              = [file |-> f, off |-> e.off]
                   PROVE  FALSE
        OBVIOUS
      <4>1. current = f /\ offset[current] = e.off
        OBVIOUS
      <4> QED BY <1>1, <4>1
    <3>2. \A s \in Ring!Slots : owner'[s] = [file |-> f, off |-> e.off] => owner'[s] = owner[s]
      BY <2>2, <3>1
    <3> QED BY <1>2, <1>4, <3>2 DEF Takes
  <2> QED BY <1>4, <2>1, <2>2 DEF Takes
<1>5. CASE Gives
  <2>1. PICK s \in Ring!Slots : owner' = [owner EXCEPT ![s] = NoWrite]
    BY <1>5 DEF Gives
  <2>2. NoWrite # [file |-> f, off |-> e.off]
    BY <1>1, NoWriteAssumption
  <2>3. \A t \in Ring!Slots : owner'[t] = [file |-> f, off |-> e.off] => owner'[t] = owner[t]
    BY <2>1, <2>2
  <2> QED BY <1>2, <1>5, <2>3 DEF Gives
<1>6. CASE Lands
  <2>1. PICK s \in Ring!Slots :
           /\ owner[s] \in inflight
           /\ disk' = disk \cup {[file |-> owner[s].file, off |-> owner[s].off, cap |-> cap[s]]}
           /\ UNCHANGED owner
    BY <1>6 DEF Lands
  <2>2. owner[s] \in Out!Writes
    BY <2>1
  <2>3. owner[s] = [file |-> owner[s].file, off |-> owner[s].off]
    BY <2>2 DEF Out!Writes
  <2>4. owner[s].file = f /\ owner[s].off = e.off => cap[s] = e.cap
    BY <2>3
  <2> QED BY <1>2, <2>1, <2>4
<1> QED BY <1>3, <1>4, <1>5, <1>6, Moves

(* Only Rotate changes current_, to no file or to a name not used before.  *)
LEMMA CurrentMoves ==
    ASSUME Out!Next \/ UNCHANGED outVars
    PROVE  \/ UNCHANGED current
           \/ current' = NoFile
           \/ dir[current'] = "absent"
<1>1. CASE Out!Call
  BY <1>1
  DEF Out!Call, Out!Rotate, Out!OpenFile, Out!RotateCloseFails, Out!RotateOpenFails,
      Out!WriteStart, Out!CheckStart, Out!GetEvents, Out!FlushStart
<1>2. CASE Out!InCall
  BY <1>2
  DEF Out!InCall, Out!Submit, Out!SubmitFails, Out!WaitForSlot, Out!CheckReturn,
      Out!WaitForFlush, Out!FlushReturn, Out!Abort, Out!HandleEvent, Out!GetEvents
<1>3. CASE Out!Kernel \/ UNCHANGED outVars
  BY <1>3 DEF Out!Kernel, Out!CompleteWrite, Out!FailWrite, outVars
<1> QED BY <1>1, <1>2, <1>3 DEF Out!Next

(* RunThread does not go back into its loop.                               *)
LEMMA LoopLeft ==
    ASSUME [Next]_vars, at \in AfterLoop
    PROVE  at' \in AfterLoop
<1> USE DEF AfterLoop, threadVars
<1>1. CASE RunThread
  BY <1>1
  DEF RunThread, Start, LoopRound, Poll, PollDone, RotateFile, KeepFile, PutIndex,
      GetBlock, IndexBlock, WriteBlock, HandleEvent, LeaveLoop, PutLastIndex, Flush,
      DestroyRing, Abort
<1>2. CASE ~RunThread
  BY <1>2
  DEF Next, WriteIndexes, GetIndex, FlushIndex, RenameIndex, Main, CloseQueue, Exit,
      HandleSignals, KernelFill, KernelWrite, vars
<1> QED BY <1>1, <1>2

(* The same predicates of the next state, of a file and entries of now.    *)
LeadsNext(f, e) ==
    /\ \A d \in disk' : d.file = f /\ d.off = e.off => d.cap = e.cap
    /\ \A s \in Ring!Slots : owner'[s] = [file |-> f, off |-> e.off] => cap'[s] = e.cap

HandedNext(f, E) ==
    /\ f \in Files /\ dir'[f] # "absent"
    /\ f = current' => at' \in AfterLoop
    /\ E \subseteq Entry
    /\ {e.off : e \in E} = 0 .. offset'[f] - 1
    /\ \A e \in E : LeadsNext(f, e)

LEMMA LeadsKept ==
    ASSUME Parts, [Next]_vars
    PROVE  \A f \in Files : \A e \in Entry :
              e.off < offset[f] /\ Leads(f, e) => LeadsNext(f, e)
<1> SUFFICES ASSUME NEW f \in Files, NEW e \in Entry, e.off < offset[f], Leads(f, e)
             PROVE  LeadsNext(f, e)
  OBVIOUS
<1> QED BY LeadsStep DEF Leads, LeadsNext

(* What was handed over stays an exact index of a settled file.            *)
LEMMA HandedKept ==
    ASSUME Parts, DirInv, [Next]_vars
    PROVE  \A f, E : Handed(f, E) => HandedNext(f, E)
<1> SUFFICES ASSUME NEW f, NEW E, Handed(f, E)
             PROVE  HandedNext(f, E)
  OBVIOUS
<1> USE PartsFacts DEF Handed, Settled
<1>1. f \in Files /\ dir'[f] # "absent"
  BY DirStep, OutStep
<1>2. f = current' => at' \in AfterLoop
  <2> SUFFICES ASSUME f = current' PROVE at' \in AfterLoop
    OBVIOUS
  <2>1. current' = current
    BY CurrentMoves, OutStep
  <2> QED BY <2>1, LoopLeft
<1>3. offset'[f] = offset[f]
  <2>1. CASE Takes
    <3>1. f # current
      BY <2>1 DEF Takes, AfterLoop
    <3> QED BY <2>1, <3>1 DEF Takes
  <2>2. CASE Quiet \/ Gives \/ Lands
    BY <2>2 DEF Quiet, Gives, Lands
  <2> QED BY <2>1, <2>2, Moves
<1>4. ASSUME NEW e \in E PROVE LeadsNext(f, e)
  <2>1. e \in Entry /\ Leads(f, e) /\ e.off \in 0 .. offset[f] - 1
    BY DEF Exact
  <2>2. e.off < offset[f]
    BY <1>1, <2>1
  <2> QED BY <1>1, <2>1, <2>2, LeadsKept
<1> QED BY <1>1, <1>2, <1>3, <1>4 DEF HandedNext, Exact

(* A process that aborted stays so.                                        *)
LEMMA AliveBefore ==
    ASSUME [Next]_vars, Alive'
    PROVE  Alive
<1>1. CASE Out!Call
  BY <1>1
  DEF Alive, Out!Call, Out!Rotate, Out!OpenFile, Out!RotateCloseFails,
      Out!RotateOpenFails, Out!WriteStart, Out!CheckStart, Out!GetEvents, Out!FlushStart
<1>2. CASE Out!InCall
  BY <1>2
  DEF Alive, Out!InCall, Out!Submit, Out!SubmitFails, Out!Prepare, Out!WaitForSlot,
      Out!CheckReturn, Out!WaitForFlush, Out!FlushReturn, Out!Abort, Out!HandleEvent
<1>3. CASE Out!Kernel \/ UNCHANGED outVars
  BY <1>3
  DEF Alive, Out!Kernel, Out!CompleteWrite, Out!FailWrite, Out!callVars, outVars
<1> QED BY <1>1, <1>2, <1>3, OutStep DEF Out!Next

(***************************************************************************)
(* The Index being filled.                                                 *)
(***************************************************************************)
LEMMA FillingKept ==
    ASSUME Parts, FillingInv, [Next]_vars, Alive, at \in Filling,
           UNCHANGED <<index, blockOffset, current, offset>>,
           at = "write" <=> at' = "write",
           at = "write" => block' = block
    PROVE  FillingInv'
<1> USE PartsFacts DEF FillingInv
<1>1. UNCHANGED Ahead
  BY DEF Ahead
<1>2. ASSUME NEW e \in index.entries
      PROVE  IF e.off < offset[current] THEN LeadsNext(current, e) ELSE e.cap = cap'[block']
  <2>1. CASE e.off < offset[current]
    BY <2>1, LeadsKept
  <2>2. CASE ~(e.off < offset[current])
    <3>1. /\ e.off \in {x.off : x \in index.entries}
          /\ {x.off : x \in index.entries} = 0 .. blockOffset - 1
          /\ blockOffset = offset[current] + Ahead
          /\ offset[current] \in Nat
      OBVIOUS
    <3>2. at = "write"
      <4> SUFFICES ASSUME at # "write" PROVE FALSE
        OBVIOUS
      <4>1. blockOffset = offset[current]
        BY <3>1 DEF Ahead
      <4>2. e.off \in 0 .. offset[current] - 1
        BY <3>1, <4>1
      <4> HIDE DEF FillingInv
      <4> QED BY <2>2, <3>1, <4>2
    <3>3. mu[block] = "user" /\ block \in Ring!Slots
      BY <3>2 DEF Parts, OwnerInv, BlockHeld
    <3> QED BY <2>2, <3>2, <3>3, Moves
  <2> QED BY <2>1, <2>2
<1> QED BY <1>1, <1>2 DEF LeadsNext, Leads

LEMMA FillingStep ==
    ASSUME Parts, DirInv, DiskInv, StartInv, FillingInv, PutInv, [Next]_vars
    PROVE  FillingInv'
<1> SUFFICES ASSUME Alive', at' \in Filling
             PROVE  FillingInv'
  BY DEF FillingInv
<1> USE PartsFacts DEF outVars, ringVars, threadVars, indexerVars
<1>0. Alive
  BY AliveBefore
<1>1. CASE Start
  <2>1. PICK f \in Files : Out!Rotate(f) /\ index' = NewIndex(f)
    BY <1>1 DEF Start
  <2>2. current' = f /\ dir[f] = "absent" /\ UNCHANGED offset
    BY <2>1 DEF Out!Rotate, Out!OpenFile
  <2>3. offset[f] = 0 /\ blockOffset' = 0 /\ at' = "loop"
    BY <1>1, <2>2 DEF DirInv, StartInv, Start
  <2>4. index'.file = f /\ index'.entries = {}
    BY <2>1 DEF NewIndex
  <2> QED BY <2>2, <2>3, <2>4 DEF FillingInv, Ahead
<1>2. CASE PutIndex
  <2>1. /\ at = "put" /\ at' = "next"
        /\ index' = NewIndex(current)
        /\ UNCHANGED <<current, offset, blockOffset>>
    BY <1>2 DEF PutIndex
  <2>2. current \in Files /\ offset[current] = 0 /\ blockOffset = 0
    BY <1>0, <2>1 DEF PutInv
  <2>3. index'.file = current /\ index'.entries = {}
    BY <2>1 DEF NewIndex
  <2> QED BY <2>1, <2>2, <2>3 DEF FillingInv, Ahead
<1>3. CASE IndexBlock
  <2>1. /\ at = "index" /\ at' = "write"
        /\ index' = [index EXCEPT !.entries =
                        @ \cup {[off |-> blockOffset, cap |-> cap[block]]}]
        /\ blockOffset' = blockOffset + 1
        /\ UNCHANGED <<current, offset, block, cap>>
    BY <1>3 DEF IndexBlock
  <2>2. /\ index.file = current /\ current \in Files
        /\ index.entries \subseteq Entry
        /\ {e.off : e \in index.entries} = 0 .. blockOffset - 1
        /\ blockOffset = offset[current]
        /\ \A e \in index.entries :
              IF e.off < offset[current] THEN Leads(current, e) ELSE e.cap = cap[block]
    BY <1>0, <2>1 DEF FillingInv, Filling, Ahead
  <2>3. blockOffset \in Nat
    BY <2>2
  <2>4. block \in Ring!Slots
    BY <2>1 DEF Parts, OwnerInv, BlockHeld
  <2> DEFINE new == [off |-> blockOffset, cap |-> cap[block]]
  <2>5. new \in Entry
    BY <2>3, <2>4 DEF Entry
  <2>6. /\ index'.entries = index.entries \cup {new}
        /\ index'.file = current
    <3>1. index.entries = index["entries"] /\ index.file = index["file"]
      OBVIOUS
    <3> QED BY <2>1, <2>2
  <2>7. {e.off : e \in index'.entries} = 0 .. blockOffset' - 1
    <3>1. {e.off : e \in index'.entries} = {e.off : e \in index.entries} \cup {new.off}
      <4> HIDE DEF new
      <4> QED BY <2>6
    <3>2. (0 .. blockOffset - 1) \cup {blockOffset} = 0 .. (blockOffset + 1) - 1
      BY <2>3
    <3> QED BY <2>1, <2>2, <3>1, <3>2
  <2>8. ASSUME NEW e \in index'.entries
        PROVE  IF e.off < offset[current] THEN LeadsNext(current, e) ELSE e.cap = cap[block]
    <3>1. CASE e \in index.entries
      BY <2>2, <3>1, LeadsKept
    <3>2. CASE e = new
      BY <2>2, <2>3, <3>2
    <3> QED BY <2>6, <3>1, <3>2
  <2> QED BY <2>1, <2>2, <2>3, <2>5, <2>6, <2>7, <2>8 DEF FillingInv, Ahead, LeadsNext, Leads
<1>4. CASE WriteBlock
  <2>1. /\ at = "write" /\ UNCHANGED <<index, blockOffset, cap, disk>>
    BY <1>4 DEF WriteBlock
  <2>2. /\ index.file = current /\ current \in Files
        /\ index.entries \subseteq Entry
        /\ {e.off : e \in index.entries} = 0 .. blockOffset - 1
        /\ blockOffset = offset[current] + 1
        /\ \A e \in index.entries :
              IF e.off < offset[current] THEN Leads(current, e) ELSE e.cap = cap[block]
    BY <1>0, <2>1 DEF FillingInv, Filling, Ahead
  <2>3. CASE (Out!WriteStart \/ Out!WaitForSlot) /\ UNCHANGED <<at, block>>
    <3>1. UNCHANGED <<current, offset>>
      BY <2>3 DEF Out!WriteStart, Out!WaitForSlot, Out!GetEvents, Out!kernelVars
    <3> QED BY <1>0, <2>1, <2>3, <3>1, FillingKept
  <2>4. CASE Out!SubmitFails
    BY <2>4 DEF Out!SubmitFails, Alive
  <2>5. CASE /\ Out!Submit /\ owner' = [owner EXCEPT ![block] = Out!NextWrite]
             /\ at' = "loop"
    <3>1. current' = current /\ offset' = [offset EXCEPT ![current] = @ + 1]
      BY <2>5 DEF Out!Submit, Out!Prepare
    <3>2. offset[current] \in Nat /\ offset'[current] = offset[current] + 1
      BY <2>2, <3>1
    <3>3. ASSUME NEW e \in index.entries, e.off = offset[current], e.cap = cap[block]
          PROVE  LeadsNext(current, e)
      <4>1. \A d \in disk' : ~(d.file = current /\ d.off = e.off)
        BY <2>1, <3>2, <3>3 DEF DiskInv
      <4>2. ASSUME NEW s \in Ring!Slots, owner'[s] = [file |-> current, off |-> e.off]
            PROVE  s = block
        <5> SUFFICES ASSUME s # block PROVE FALSE
          OBVIOUS
        <5>1. owner[s] = [file |-> current, off |-> e.off]
          BY <2>5, <4>2
        <5>2. owner[s] \in outstanding
          BY <2>2, <3>2, <3>3, <5>1, NoWriteAssumption
        <5> QED BY <3>2, <3>3, <5>1, <5>2
      <4> QED BY <2>1, <3>3, <4>1, <4>2 DEF LeadsNext
    <3>4. ASSUME NEW e \in index.entries
          PROVE  e.off < offset'[current] /\ LeadsNext(current, e)
      <4>1. e.off \in 0 .. offset[current]
        BY <2>2, <3>2
      <4>2. CASE e.off < offset[current]
        BY <2>2, <3>2, <4>1, <4>2, LeadsKept
      <4>3. CASE e.off = offset[current]
        BY <2>2, <3>2, <3>3, <4>3
      <4> QED BY <3>2, <4>1, <4>2, <4>3
    <3> QED BY <2>1, <2>2, <2>5, <3>1, <3>2, <3>4 DEF FillingInv, Ahead, LeadsNext, Leads
  <2> QED BY <1>4, <2>3, <2>4, <2>5 DEF WriteBlock
<1>5. CASE LoopRound \/ PollDone \/ KeepFile \/ GetBlock \/ LeaveLoop
  <2>1. UNCHANGED <<index, blockOffset, current, offset>>
    BY <1>5
    DEF LoopRound, Poll, PollDone, KeepFile, GetBlock, LeaveLoop, Out!CheckStart,
        Out!GetEvents, Out!CheckReturn
  <2>2. at \in Filling /\ at # "write" /\ at' # "write"
    BY <1>5 DEF LoopRound, Poll, PollDone, KeepFile, GetBlock, LeaveLoop, Filling
  <2> QED BY <1>0, <2>1, <2>2, FillingKept
<1>6. CASE HandleEvent \/ WriteIndexes \/ Main \/ HandleSignals \/ KernelFill
           \/ KernelWrite \/ UNCHANGED vars
  <2>1. UNCHANGED <<index, blockOffset, at, block>>
    BY <1>6
    DEF HandleEvent, WriteIndexes, GetIndex, FlushIndex, RenameIndex, Main, CloseQueue,
        Exit, HandleSignals, KernelFill, KernelWrite, vars
  <2>2. UNCHANGED <<current, offset>>
    BY <1>6
    DEF HandleEvent, WriteIndexes, GetIndex, FlushIndex, RenameIndex, Main, CloseQueue,
        Exit, HandleSignals, KernelFill, KernelWrite, vars, Out!HandleEvent,
        Out!CompleteWrite, Out!FailWrite
  <2> QED BY <1>0, <2>1, <2>2, FillingKept
<1>7. CASE RotateFile \/ PutLastIndex \/ Flush \/ DestroyRing
  BY <1>7 DEF RotateFile, PutLastIndex, Flush, DestroyRing, Filling
<1>8. CASE Abort
  BY <1>8 DEF Abort, Alive, Out!Abort, Out!RotateCloseFails, Out!RotateOpenFails
<1> QED
  BY <1>1, <1>2, <1>3, <1>4, <1>5, <1>6, <1>7, <1>8 DEF Next, RunThread

(***************************************************************************)
(* The Index between Rotate and Put, and those handed over.                *)
(***************************************************************************)
LEMMA PutStep ==
    ASSUME Parts, DirInv, FillingInv, PutInv, [Next]_vars
    PROVE  PutInv'
<1> SUFFICES ASSUME Alive', at' = "put"
             PROVE  PutInv'
  BY DEF PutInv
<1> USE PartsFacts DEF outVars, ringVars, threadVars, indexerVars
<1>0. Alive
  BY AliveBefore
<1>1. CASE RotateFile
  <2>1. PICK f \in Files : Out!Rotate(f)
    BY <1>1 DEF RotateFile
  <2>2. at = "age" /\ blockOffset' = 0 /\ UNCHANGED index
    BY <1>1 DEF RotateFile, OffsetReset
  <2>3. current' = f /\ dir[f] = "absent" /\ UNCHANGED offset
    BY <2>1 DEF Out!Rotate, Out!OpenFile
  <2>4. /\ index.file = current /\ current \in Files
        /\ index.entries \subseteq Entry
        /\ {e.off : e \in index.entries} = 0 .. offset[current] - 1
        /\ \A e \in index.entries :
              IF e.off < offset[current] THEN Leads(current, e) ELSE e.cap = cap[block]
    BY <1>0, <2>2 DEF FillingInv, Filling, Ahead
  <2>5. dir[current] = "hidden"
    BY <2>4 DEF Parts, OutP!IInv, OutP!CurrentOpen, OutP!Hidden
  <2>6. dir'[current] # "absent" /\ current # f
    BY <2>3, <2>4, <2>5, DirStep, OutStep
  <2>7. ASSUME NEW e \in index.entries PROVE LeadsNext(current, e)
    <3>1. e.off \in 0 .. offset[current] - 1
      BY <2>4
    <3>2. e.off < offset[current]
      BY <2>4, <3>1
    <3> QED BY <2>4, <3>2, LeadsKept
  <2>8. Handed(index.file, index.entries)'
    BY <2>2, <2>3, <2>4, <2>6, <2>7 DEF Handed, Settled, Exact, LeadsNext, Leads
  <2> QED BY <2>2, <2>3, <2>8 DEF PutInv, DirInv
<1>2. CASE at = "put" /\ UNCHANGED <<index, blockOffset, current, offset>>
  <2>1. HandedNext(index.file, index.entries)
    BY <1>0, <1>2, HandedKept DEF PutInv
  <2>2. Handed(index.file, index.entries)'
    BY <1>2, <2>1 DEF Handed, HandedNext, Settled, Exact, LeadsNext, Leads
  <2> QED BY <1>0, <1>2, <2>2 DEF PutInv
<1>3. CASE HandleEvent \/ WriteIndexes \/ Main \/ HandleSignals \/ KernelFill
           \/ KernelWrite \/ UNCHANGED vars
  <2>1. UNCHANGED <<index, blockOffset, at>>
    BY <1>3
    DEF HandleEvent, WriteIndexes, GetIndex, FlushIndex, RenameIndex, Main, CloseQueue,
        Exit, HandleSignals, KernelFill, KernelWrite, vars
  <2>2. UNCHANGED <<current, offset>>
    BY <1>3
    DEF HandleEvent, WriteIndexes, GetIndex, FlushIndex, RenameIndex, Main, CloseQueue,
        Exit, HandleSignals, KernelFill, KernelWrite, vars, Out!HandleEvent,
        Out!CompleteWrite, Out!FailWrite
  <2> QED BY <1>2, <2>1, <2>2
<1>4. CASE Start \/ LoopRound \/ PollDone \/ KeepFile \/ PutIndex \/ GetBlock
           \/ IndexBlock \/ WriteBlock \/ LeaveLoop \/ PutLastIndex \/ Flush
           \/ DestroyRing
  BY <1>4
  DEF Start, LoopRound, Poll, PollDone, KeepFile, PutIndex, GetBlock, IndexBlock,
      WriteBlock, LeaveLoop, PutLastIndex, Flush, DestroyRing
<1>5. CASE Abort
  BY <1>5 DEF Abort, Alive, Out!Abort, Out!RotateCloseFails, Out!RotateOpenFails
<1> QED BY <1>1, <1>3, <1>4, <1>5 DEF Next, RunThread

(* Put hands an exact index over, in the loop and after it.                *)
LEMMA PutHanded ==
    ASSUME Parts, DirInv, FillingInv, PutInv, [Next]_vars, Alive,
           PutIndex \/ PutLastIndex
    PROVE  HandedNext(index.file, index.entries)
<1> USE PartsFacts
<1>1. CASE PutIndex
  <2>1. Handed(index.file, index.entries)
    BY <1>1 DEF PutIndex, PutInv
  <2> QED BY <2>1, HandedKept
<1>2. CASE PutLastIndex
  <2>1. at = "finish" /\ at' = "flush" /\ UNCHANGED <<current, offset, dir>>
    BY <1>2 DEF PutLastIndex, outVars
  <2>2. /\ index.file = current /\ current \in Files
        /\ index.entries \subseteq Entry
        /\ {e.off : e \in index.entries} = 0 .. offset[current] - 1
        /\ \A e \in index.entries :
              IF e.off < offset[current] THEN Leads(current, e) ELSE e.cap = cap[block]
    BY <2>1 DEF FillingInv, Filling, Ahead
  <2>3. dir[current] = "hidden"
    BY <2>2 DEF Parts, OutP!IInv, OutP!CurrentOpen, OutP!Hidden
  <2>4. ASSUME NEW e \in index.entries PROVE LeadsNext(current, e)
    <3>1. e.off \in 0 .. offset[current] - 1
      BY <2>2
    <3>2. e.off < offset[current]
      BY <2>2, <3>1
    <3> QED BY <2>2, <3>2, LeadsKept
  <2> QED BY <2>1, <2>2, <2>3, <2>4 DEF HandedNext, AfterLoop
<1> QED BY <1>1, <1>2

LEMMA HandedInvStep ==
    ASSUME Parts, DirInv, StartInv, FillingInv, PutInv, HandedInv, [Next]_vars
    PROVE  HandedInv'
<1> USE DEF outVars, ringVars, threadVars, indexerVars
<1> DEFINE Indices == [file : Files, entries : SUBSET Entry]
<1>1. /\ queue \in Seq(Indices)
      /\ \A i \in DOMAIN queue : HandedNext(queue[i].file, queue[i].entries)
      /\ indexer \in {"flush", "rename"} => HandedNext(flushing.file, flushing.entries)
      /\ idxDir \in [Files -> {"absent", "hidden", "published"}]
      /\ idxEntries \in [Files -> SUBSET Entry]
      /\ indexer = "rename" => idxEntries[flushing.file] = flushing.entries
      /\ \A f \in Files : idxDir[f] = "published" => HandedNext(f, idxEntries[f])
  BY HandedKept DEF HandedInv
<1>2. SUFFICES /\ queue' \in Seq(Indices)
               /\ \A i \in DOMAIN queue' : HandedNext(queue'[i].file, queue'[i].entries)
               /\ indexer' \in {"flush", "rename"} =>
                     HandedNext(flushing'.file, flushing'.entries)
               /\ idxDir' \in [Files -> {"absent", "hidden", "published"}]
               /\ idxEntries' \in [Files -> SUBSET Entry]
               /\ indexer' = "rename" => idxEntries'[flushing'.file] = flushing'.entries
               /\ \A f \in Files :
                     idxDir'[f] = "published" => HandedNext(f, idxEntries'[f])
  BY <1>2 DEF HandedInv, Handed, HandedNext, Settled, Exact, LeadsNext, Leads
<1> HIDE DEF Indices
<1>3. CASE Alive /\ (PutIndex \/ PutLastIndex)
  <2>1. UNCHANGED indexerVars /\ queue' = Append(queue, index)
    BY <1>3 DEF PutIndex, PutLastIndex
  <2>2. HandedNext(index.file, index.entries)
    BY <1>3, PutHanded
  <2>3. index \in Indices
    BY <2>2 DEF HandedNext, StartInv, Indices
  <2>4. /\ queue' \in Seq(Indices)
        /\ DOMAIN queue' = 1 .. Len(queue) + 1
        /\ \A i \in DOMAIN queue' :
              queue'[i] = IF i \in DOMAIN queue THEN queue[i] ELSE index
    BY <1>1, <2>1, <2>3
  <2> QED BY <1>1, <2>1, <2>2, <2>4
<1>4. CASE GetIndex
  <2>1. UNCHANGED <<idxDir, idxEntries>>
    BY <1>4 DEF GetIndex
  <2>2. CASE indexer' = "done" /\ UNCHANGED <<queue, flushing>>
    BY <1>1, <2>1, <2>2
  <2>3. CASE /\ queue # <<>> /\ flushing' = Head(queue) /\ queue' = Tail(queue)
             /\ indexer' = "flush"
    <3>1. /\ queue' \in Seq(Indices) /\ 1 \in DOMAIN queue /\ flushing' = queue[1]
          /\ \A i \in DOMAIN queue' : i + 1 \in DOMAIN queue /\ queue'[i] = queue[i + 1]
      BY <1>1, <2>3
    <3> QED BY <1>1, <2>1, <2>3, <3>1
  <2> QED BY <1>4, <2>2, <2>3 DEF GetIndex
<1>5. CASE FlushIndex
  <2>1. /\ indexer = "flush" /\ UNCHANGED <<queue, flushing>>
        /\ idxDir' = [idxDir EXCEPT ![flushing.file] = "hidden"]
    BY <1>5 DEF FlushIndex
  <2>2. HandedNext(flushing.file, flushing.entries)
    BY <1>1, <2>1
  <2>3. flushing.file \in Files /\ flushing.entries \in SUBSET Entry
    BY <2>2 DEF HandedNext
  <2>4. CASE /\ idxEntries' = [idxEntries EXCEPT ![flushing.file] = flushing.entries]
             /\ indexer' = "rename"
    BY <1>1, <2>1, <2>2, <2>3, <2>4
  <2>5. CASE indexer' = "get" /\ UNCHANGED idxEntries
    BY <1>1, <2>1, <2>3, <2>5
  <2> QED BY <1>5, <2>4, <2>5 DEF FlushIndex
<1>6. CASE RenameIndex
  <2>1. /\ indexer = "rename" /\ indexer' = "get"
        /\ UNCHANGED <<queue, flushing, idxEntries>>
        /\ idxDir' = [idxDir EXCEPT ![flushing.file] = "published"]
    BY <1>6 DEF RenameIndex
  <2>2. HandedNext(flushing.file, flushing.entries)
    BY <1>1, <2>1
  <2>3. flushing.file \in Files
    BY <2>2 DEF HandedNext
  <2> QED BY <1>1, <2>1, <2>2, <2>3
<1>7. CASE UNCHANGED <<queue, indexerVars>>
  BY <1>1, <1>7
<1>8. CASE Start \/ LoopRound \/ PollDone \/ RotateFile \/ KeepFile \/ GetBlock
           \/ IndexBlock \/ WriteBlock \/ HandleEvent \/ LeaveLoop \/ Flush
           \/ DestroyRing \/ Abort \/ Main \/ HandleSignals \/ KernelFill
           \/ KernelWrite \/ UNCHANGED vars
  <2>1. UNCHANGED <<queue, indexerVars>>
    BY <1>8
    DEF Start, LoopRound, PollDone, RotateFile, KeepFile, GetBlock, IndexBlock,
        WriteBlock, HandleEvent, LeaveLoop, Flush, DestroyRing, Abort, Main,
        CloseQueue, Exit, HandleSignals, KernelFill, KernelWrite, vars
  <2> QED BY <1>7, <2>1
<1> QED BY <1>3, <1>4, <1>5, <1>6, <1>8 DEF Next, RunThread, WriteIndexes

(* The Index being filled is one at all times.                             *)
LEMMA StartStep == ASSUME Parts, StartInv, [Next]_vars PROVE StartInv'
<1> USE PartsFacts DEF StartInv, threadVars
<1>1. CASE Start
  <2>1. index' \in [file : Files \cup {NoFile}, entries : SUBSET Entry]
    BY <1>1 DEF Start, NewIndex
  <2> QED BY <1>1, <2>1 DEF Start
<1>2. CASE PutIndex
  <2>1. index' \in [file : Files \cup {NoFile}, entries : SUBSET Entry]
    BY <1>2 DEF PutIndex, NewIndex
  <2> QED BY <1>2, <2>1 DEF PutIndex
<1>3. CASE IndexBlock
  <2>1. block \in Ring!Slots
    BY <1>3 DEF IndexBlock, Parts, OwnerInv, BlockHeld
  <2>2. [off |-> blockOffset, cap |-> cap[block]] \in Entry
    BY <2>1 DEF Entry
  <2>3. index' \in [file : Files \cup {NoFile}, entries : SUBSET Entry]
    BY <1>3, <2>2 DEF IndexBlock
  <2> QED BY <1>3, <2>3 DEF IndexBlock
<1>4. CASE RotateFile
  BY <1>4 DEF RotateFile, OffsetReset
<1>5. CASE LoopRound \/ PollDone \/ KeepFile \/ GetBlock \/ WriteBlock \/ HandleEvent
           \/ LeaveLoop \/ PutLastIndex \/ Flush \/ DestroyRing \/ Abort
  <2>1. UNCHANGED <<index, blockOffset>> /\ (at' = at \/ at' # "start")
    BY <1>5
    DEF LoopRound, Poll, PollDone, KeepFile, GetBlock, WriteBlock, HandleEvent,
        LeaveLoop, PutLastIndex, Flush, DestroyRing, Abort
  <2> QED BY <2>1
<1>6. CASE WriteIndexes \/ Main \/ HandleSignals \/ KernelFill \/ KernelWrite
           \/ UNCHANGED vars
  <2>1. UNCHANGED <<index, blockOffset, at>>
    BY <1>6
    DEF WriteIndexes, GetIndex, FlushIndex, RenameIndex, Main, CloseQueue, Exit,
        HandleSignals, KernelFill, KernelWrite, vars
  <2> QED BY <2>1
<1> QED BY <1>1, <1>2, <1>3, <1>4, <1>5, <1>6 DEF Next, RunThread

LEMMA IndexInit == Init => IndexInv
<1> SUFFICES ASSUME Init PROVE IndexInv
  OBVIOUS
<1>1. /\ at = "start" /\ blockOffset = 0 /\ disk = {} /\ queue = <<>>
      /\ indexer = "get"
      /\ idxDir = [f \in Files |-> "absent"] /\ idxEntries = [f \in Files |-> {}]
  BY DEF Init
<1>2. dir = [f \in Files |-> "absent"] /\ offset = [f \in Files |-> 0]
  BY DEF Init, Out!Init
<1>3. index \in [file : Files \cup {NoFile}, entries : SUBSET Entry]
  BY DEF Init, NewIndex
<1>4. DirInv /\ DiskInv /\ StartInv /\ FillingInv /\ PutInv
  BY <1>1, <1>2, <1>3 DEF DirInv, DiskInv, StartInv, FillingInv, PutInv, Filling
<1>5. HandedInv
  BY <1>1 DEF HandedInv
<1> QED BY <1>4, <1>5 DEF IndexInv

LEMMA IndexStep ==
    ASSUME Parts, IndexInv, [Next]_vars
    PROVE  IndexInv'
  BY OutStep, DirStep, DiskStep, StartStep, FillingStep, PutStep, HandedInvStep
  DEF IndexInv

LEMMA IndexInvariant == Spec => []IndexInv
<1>1. Parts /\ IndexInv /\ [Next]_vars => IndexInv'
  BY IndexStep
<1> QED BY <1>1, IndexInit, PartsHold, PTL DEF Spec

(* A visible index has one entry per block of its file, in whatever order  *)
(* the writes end: wherever RunThread, the writes and WriteIndexes are, the*)
(* entries and the blocks cannot drift apart.                              *)
THEOREM IndexAccurateHolds == Spec => []IndexAccurate
<1>1. IndexInv => IndexAccurate
  BY DEF IndexInv, HandedInv, Handed, Exact, Leads, IndexAccurate
<1> QED BY <1>1, IndexInvariant, PTL

-----------------------------------------------------------------------------
(***************************************************************************)
(* The exit: no block taken from the ring is lost on its way.              *)
(***************************************************************************)

(* Every block taken from the ring is in RunThread's hands, or at a place  *)
(* of a file: on disk, in memory that a write holds, or lost by a write    *)
(* that failed.                                                            *)
At(f, k, n) ==
    \/ \E d \in disk : d.file = f /\ d.off = k /\ d.cap = n
    \/ \E s \in Ring!Slots : owner[s] = [file |-> f, off |-> k] /\ cap[s] = n
    \/ [file |-> f, off |-> k] \in failed

InHand(n) == at \in {"index", "write"} /\ cap[block] = n

BlockInv ==
    Alive => \A n \in 1 .. delivered :
        InHand(n) \/ \E f \in Files, k \in Nat : k < offset[f] /\ At(f, k, n)

(* A completed write has its block on disk.                                *)
WrittenInv == \A w \in durable : \E d \in disk : d.file = w.file /\ d.off = w.off

(* ... and the block it holds is the one that is there.                    *)
SameInv ==
    \A d \in disk, s \in Ring!Slots :
        owner[s] = [file |-> d.file, off |-> d.off] => cap[s] = d.cap

(* The index of every file there ever was is somewhere on its way.         *)
OnItsWay(f) ==
    \/ \E i \in DOMAIN queue : queue[i].file = f
    \/ indexer \in {"flush", "rename"} /\ flushing.file = f
    \/ at \in Filling \cup {"put"} /\ index.file = f
    \/ at = "put" /\ current = f
    \/ idxDir[f] = "published"
    \/ idxDir[f] = "hidden" /\ "index" \in Failures

WayInv == Alive => \A f \in Files : dir[f] # "absent" => OnItsWay(f)

EndInv ==
    /\ at \in {"destroy", "done"} =>
          pc = "flushed" /\ files = {} /\ batch = {} /\ result = "ok"
    /\ main # "join" => at = "done"
    /\ closed <=> main # "join"
    /\ indexer = "done" => queue = <<>> /\ closed
    /\ main = "exited" => indexer = "done"

ExitInv == BlockInv /\ WrittenInv /\ SameInv /\ WayInv /\ EndInv

(***************************************************************************)
(* The blocks.                                                             *)
(***************************************************************************)
LEMMA PlacesStep ==
    ASSUME Parts, DiskInv, WrittenInv, SameInv, [Next]_vars
    PROVE  WrittenInv' /\ SameInv'
<1> USE PartsFacts DEF WrittenInv, SameInv
<1>1. \A d \in disk, s \in Ring!Slots :
         owner[s] = [file |-> d.file, off |-> d.off] => cap'[s] = d.cap
  <2> SUFFICES ASSUME NEW d \in disk, NEW s \in Ring!Slots,
                      owner[s] = [file |-> d.file, off |-> d.off]
               PROVE  cap'[s] = d.cap
    OBVIOUS
  <2>1. d.file \in Files /\ d.off \in Nat
    BY DEF DiskInv
  <2>2. mu[s] = "user"
    BY <2>1, NoWriteAssumption
  <2> QED BY <2>2, Moves
<1>2. CASE Quiet
  BY <1>1, <1>2 DEF Quiet
<1>3. CASE Takes /\ UNCHANGED durable
  <2>1. CASE UNCHANGED owner
    BY <1>1, <1>3, <2>1 DEF Takes
  <2>2. CASE owner' = [owner EXCEPT ![block] = [file |-> current, off |-> offset[current]]]
    <3>1. \A d \in disk :
             [file |-> current, off |-> offset[current]] # [file |-> d.file, off |-> d.off]
      <4> SUFFICES ASSUME NEW d \in disk,
                          [file |-> current, off |-> offset[current]]
                              = [file |-> d.file, off |-> d.off]
                   PROVE  FALSE
        OBVIOUS
      <4>1. d.file = current /\ d.off = offset[current] /\ d.off < offset[d.file]
        BY DEF DiskInv
      <4>2. offset[current] \in Nat
        BY <1>3 DEF Takes
      <4> QED BY <4>1, <4>2
    <3>2. \A d \in disk, s \in Ring!Slots :
             owner'[s] = [file |-> d.file, off |-> d.off] => owner'[s] = owner[s]
      BY <2>2, <3>1
    <3> QED BY <1>1, <1>3, <3>2 DEF Takes
  <2> QED BY <1>3, <2>1, <2>2 DEF Takes
<1>4. CASE Gives
  <2>1. PICK s \in Ring!Slots :
           owner' = [owner EXCEPT ![s] = NoWrite] /\ UNCHANGED <<disk, durable>>
    BY <1>4 DEF Gives
  <2>2. \A d \in disk : NoWrite # [file |-> d.file, off |-> d.off]
    BY NoWriteAssumption DEF DiskInv
  <2>3. \A d \in disk, t \in Ring!Slots :
           owner'[t] = [file |-> d.file, off |-> d.off] => owner'[t] = owner[t]
    BY <2>1, <2>2
  <2> QED BY <1>1, <2>1, <2>3
<1>5. CASE Lands
  <2>1. PICK s \in Ring!Slots :
           /\ owner[s] \in inflight
           /\ disk' = disk \cup {[file |-> owner[s].file, off |-> owner[s].off, cap |-> cap[s]]}
           /\ durable' = durable \cup {owner[s]}
           /\ UNCHANGED owner
    BY <1>5 DEF Lands
  <2> DEFINE new == [file |-> owner[s].file, off |-> owner[s].off, cap |-> cap[s]]
  <2>2. owner[s] \in Out!Writes /\ owner[s] # NoWrite
    BY <2>1
  <2>3. owner[s] = [file |-> new.file, off |-> new.off]
    BY <2>2 DEF Out!Writes
  <2>4. cap'[s] = new.cap
    BY <2>2, Moves
  <2>5. WrittenInv'
    <3>1. \A w \in durable : \E d \in disk' : d.file = w.file /\ d.off = w.off
      BY <2>1
    <3>2. new \in disk' /\ new.file = owner[s].file /\ new.off = owner[s].off
      BY <2>1
    <3> HIDE DEF new
    <3> QED BY <2>1, <3>1, <3>2
  <2>6. \A t \in Ring!Slots : owner[t] = [file |-> new.file, off |-> new.off]
                                => cap'[t] = new.cap
    BY <2>2, <2>3, <2>4
  <2>7. disk' = disk \cup {new}
    BY <2>1
  <2> HIDE DEF new
  <2>8. SameInv'
    BY <1>1, <2>1, <2>6, <2>7
  <2> QED BY <2>5, <2>8
<1> QED BY <1>2, <1>3, <1>4, <1>5, Moves

(* The places in the next state.                                           *)
AtNext(f, k, n) ==
    \/ \E d \in disk' : d.file = f /\ d.off = k /\ d.cap = n
    \/ \E s \in Ring!Slots : owner'[s] = [file |-> f, off |-> k] /\ cap'[s] = n
    \/ [file |-> f, off |-> k] \in failed'

(* A block stays at its place: a completion finds it on disk before it     *)
(* gives the memory back, or the write had failed.                         *)
LEMMA AtKept ==
    ASSUME Parts, WrittenInv, SameInv, [Next]_vars
    PROVE  \A f \in Files, k \in Nat : \A n : At(f, k, n) => AtNext(f, k, n)
<1> SUFFICES ASSUME NEW f \in Files, NEW k \in Nat, NEW n, At(f, k, n)
             PROVE  AtNext(f, k, n)
  OBVIOUS
<1> USE PartsFacts
<1>1. disk \subseteq disk' /\ failed \subseteq failed'
  BY Moves DEF Quiet, Takes, Gives, Lands
<1>2. CASE \E d \in disk : d.file = f /\ d.off = k /\ d.cap = n
  BY <1>1, <1>2 DEF AtNext
<1>3. CASE [file |-> f, off |-> k] \in failed
  BY <1>1, <1>3 DEF AtNext
<1>4. ASSUME NEW s \in Ring!Slots, owner[s] = [file |-> f, off |-> k], cap[s] = n
      PROVE  AtNext(f, k, n)
  <2>1. owner[s] # NoWrite
    BY <1>4, NoWriteAssumption
  <2>2. cap'[s] = n
    BY <1>4, <2>1, Moves
  <2>3. CASE owner'[s] = owner[s]
    BY <1>4, <2>2, <2>3 DEF AtNext
  <2>4. CASE owner'[s] # owner[s]
    <3>1. owner[s] \in batch
      BY <2>1, <2>4, Moves DEF Quiet, Takes, Gives, Lands
    <3>2. owner[s] \in durable \cup failed
      BY <3>1 DEF Parts, OutP!IInv, OutP!Ledger
    <3>3. CASE owner[s] \in durable
      <4>1. PICK d \in disk : d.file = f /\ d.off = k
        BY <1>4, <3>3 DEF WrittenInv
      <4>2. d.cap = n
        BY <1>4, <4>1 DEF SameInv
      <4> QED BY <1>1, <4>1, <4>2 DEF AtNext
    <3> QED BY <1>1, <1>4, <3>2, <3>3 DEF AtNext
  <2> QED BY <2>3, <2>4
<1> QED BY <1>2, <1>3, <1>4 DEF At

(* A block is in RunThread's hands until a PWrite has it.                  *)
LEMMA HandMoves ==
    ASSUME Parts, [Next]_vars, Alive'
    PROVE  /\ \/ delivered' = delivered
              \/ /\ at = "next" /\ at' = "index" /\ delivered' = delivered + 1
                 /\ cap'[block'] = delivered'
           /\ at \in {"index", "write"} =>
                 \/ at' \in {"index", "write"} /\ cap'[block'] = cap[block]
                 \/ Takes
<1> USE DEF outVars, ringVars, threadVars, indexerVars
<1>1. at \in {"index", "write"} => cap'[block] = cap[block]
  <2>1. at \in {"index", "write"} => block \in Ring!Slots /\ mu[block] = "user"
    BY DEF Parts, OwnerInv, BlockHeld
  <2> QED BY <2>1, Moves
<1>2. CASE GetBlock
  <2>1. at = "next"
    BY <1>2 DEF GetBlock
  <2>2. CASE Ring!NextBlockGet /\ at' = "index" /\ block' = pos
    <3>1. call = "poll" /\ status[pos] = "user" /\ delivered' = cap[pos] /\ UNCHANGED cap
      BY <2>2 DEF Ring!NextBlockGet, Ring!ReadyForUser, Ring!ringKernelVars
    <3>2. cap[pos] = delivered + 1
      BY <3>1, RingAssumption, RingP!NextReady DEF Parts
    <3> QED BY <2>1, <2>2, <3>1, <3>2
  <2>3. CASE Ring!NextBlockEnter \/ Ring!ResetTo \/ Ring!NextBlockEmpty
    BY <2>1, <2>3 DEF Ring!NextBlockEnter, Ring!ResetTo, Ring!NextBlockEmpty
  <2> QED BY <1>2, <2>2, <2>3 DEF GetBlock
<1>3. CASE WriteBlock
  <2>1. at = "write" /\ UNCHANGED delivered
    BY <1>3 DEF WriteBlock
  <2>2. CASE UNCHANGED <<at, block>>
    BY <1>1, <2>1, <2>2
  <2>3. CASE Out!Submit
    <3>1. offset' # offset
      <4>1. offset' = [offset EXCEPT ![current] = @ + 1] /\ pc = "write"
        BY <2>3 DEF Out!Submit, Out!Prepare
      <4>2. current \in Files
        BY <4>1, PartsFacts DEF Parts, OutP!IInv, OutP!WriteHasFile
      <4> QED BY <4>1, <4>2, PartsFacts
    <3>2. Takes
      BY <3>1, Moves DEF Quiet, Gives, Lands
    <3> QED BY <2>1, <3>2
  <2> QED BY <1>3, <2>2, <2>3 DEF WriteBlock
<1>4. CASE IndexBlock
  BY <1>1, <1>4 DEF IndexBlock
<1>5. CASE HandleEvent \/ KernelFill
  BY <1>1, <1>5 DEF HandleEvent, KernelFill, Ring!Done, Ring!KernelFill
<1>6. CASE Abort
  BY <1>6 DEF Abort, Alive, Out!Abort, Out!RotateCloseFails, Out!RotateOpenFails
<1>7. CASE Start \/ LoopRound \/ PollDone \/ RotateFile \/ KeepFile \/ PutIndex
           \/ LeaveLoop \/ PutLastIndex \/ Flush \/ DestroyRing
  <2>1. at \notin {"index", "write"}
    BY <1>7
    DEF Start, LoopRound, Poll, PollDone, RotateFile, KeepFile, PutIndex, LeaveLoop,
        PutLastIndex, Flush, DestroyRing
  <2>2. UNCHANGED delivered
    BY <1>7
    DEF Start, LoopRound, Poll, PollDone, RotateFile, KeepFile, PutIndex, LeaveLoop,
        PutLastIndex, Flush, DestroyRing, Ring!DestroyRing, Ring!RingDestroyed
  <2> QED BY <2>1, <2>2
<1>8. CASE WriteIndexes \/ Main \/ HandleSignals \/ KernelWrite \/ UNCHANGED vars
  <2>1. UNCHANGED <<at, block, delivered>>
    BY <1>8
    DEF WriteIndexes, GetIndex, FlushIndex, RenameIndex, Main, CloseQueue, Exit,
        HandleSignals, KernelWrite, vars
  <2> QED BY <1>1, <2>1
<1> QED
  BY <1>2, <1>3, <1>4, <1>5, <1>6, <1>7, <1>8 DEF Next, RunThread

LEMMA BlockStep ==
    ASSUME Parts, DiskInv, WrittenInv, SameInv, BlockInv, [Next]_vars
    PROVE  BlockInv'
<1> SUFFICES ASSUME Alive', NEW n \in 1 .. delivered'
             PROVE  \/ at' \in {"index", "write"} /\ cap'[block'] = n
                    \/ \E f \in Files, k \in Nat : k < offset'[f] /\ AtNext(f, k, n)
  BY DEF BlockInv, InHand, At, AtNext
<1> USE PartsFacts
<1>1. delivered \in Nat
  BY RingAssumption DEF Parts, RingP!RingInv, RingP!RingTypeOK
<1>2. CASE n \notin 1 .. delivered
  BY <1>1, <1>2, HandMoves
<1>3. CASE n \in 1 .. delivered /\ InHand(n)
  <2>1. CASE Takes
    <3>1. /\ current \in Files /\ offset[current] \in Nat /\ block \in Ring!Slots
          /\ owner' = [owner EXCEPT ![block] = [file |-> current, off |-> offset[current]]]
          /\ offset'[current] = offset[current] + 1
          /\ cap'[block] = cap[block]
      BY <2>1, Moves DEF Takes
    <3>2. owner'[block] = [file |-> current, off |-> offset[current]]
      BY <3>1
    <3>3. AtNext(current, offset[current], n)
      BY <1>3, <3>1, <3>2 DEF AtNext, InHand
    <3>4. offset[current] < offset'[current]
      BY <3>1
    <3> QED BY <3>1, <3>3, <3>4
  <2> QED BY <1>3, <2>1, HandMoves DEF InHand
<1>4. CASE n \in 1 .. delivered /\ ~InHand(n)
  <2>1. PICK f \in Files, k \in Nat : k < offset[f] /\ At(f, k, n)
    BY <1>4, AliveBefore DEF BlockInv
  <2>2. k < offset'[f]
    <3>1. offset[f] \in Nat /\ offset'[f] \in Nat /\ offset[f] <= offset'[f]
      BY DiskStep
    <3> QED BY <2>1, <3>1
  <2> QED BY <2>1, <2>2, AtKept
<1> QED BY <1>2, <1>3, <1>4

(***************************************************************************)
(* The indexes, and the order in which the threads end.                    *)
(***************************************************************************)
LEMMA WayKept ==
    ASSUME WayInv, Alive,
           UNCHANGED <<queue, indexer, flushing, index, idxDir>>,
           at \in Filling \cup {"put"} => at' \in Filling \cup {"put"},
           at = "put" => at' = "put" /\ UNCHANGED current
    PROVE  \A f \in Files : dir[f] # "absent" => OnItsWay(f)'
  BY DEF WayInv, OnItsWay

LEMMA WayStep ==
    ASSUME Parts, FillingInv, StartInv, HandedInv, WayInv, [Next]_vars
    PROVE  WayInv'
<1> SUFFICES ASSUME Alive'
             PROVE  WayInv'
  BY DEF WayInv
<1> USE PartsFacts DEF outVars, ringVars, threadVars, indexerVars
<1>0. Alive /\ \A f \in Files : dir[f] # "absent" => OnItsWay(f)
  BY AliveBefore DEF WayInv
<1>1. CASE Start \/ RotateFile
  <2>1. PICK f \in Files :
           /\ Out!Rotate(f)
           /\ \/ at = "start" /\ at' = "loop" /\ index' = NewIndex(f)
              \/ at = "age" /\ at' = "put" /\ index' = index
    BY <1>1 DEF Start, RotateFile
  <2>2. /\ current' = f
        /\ \A g \in Files : g # f => (dir'[g] # "absent" => dir[g] # "absent")
    <3>1. CASE Out!ClosesNow
      <4>1. dir[current] = "hidden"
        BY <3>1, FilesAssumption
        DEF Out!ClosesNow, Parts, OutP!IInv, OutP!CurrentOpen, OutP!Hidden
      <4> QED BY <2>1, <3>1, <4>1 DEF Out!Rotate, Out!OpenFile
    <3>2. CASE ~Out!ClosesNow
      BY <2>1, <3>2 DEF Out!Rotate, Out!OpenFile
    <3> QED BY <3>1, <3>2
  <2>3. UNCHANGED <<queue, indexer, flushing, idxDir>>
    BY <1>1 DEF Start, RotateFile
  <2>4. OnItsWay(f)'
    BY <2>1, <2>2 DEF OnItsWay, NewIndex, Filling
  <2>5. ASSUME NEW g \in Files, g # f, dir'[g] # "absent"
        PROVE  OnItsWay(g)'
    BY <1>0, <2>1, <2>2, <2>3, <2>5 DEF OnItsWay, Filling
  <2> QED BY <2>4, <2>5 DEF WayInv
<1>2. ASSUME UNCHANGED dir, \A f \in Files : dir[f] # "absent" => OnItsWay(f)'
      PROVE  WayInv'
  BY <1>2 DEF WayInv
<1>3. CASE PutIndex \/ PutLastIndex
  <2>1. /\ queue' = Append(queue, index)
        /\ UNCHANGED <<dir, current, indexer, flushing, idxDir>>
        /\ \/ at = "put" /\ at' = "next" /\ index' = NewIndex(current)
           \/ at = "finish"
    BY <1>3 DEF PutIndex, PutLastIndex
  <2>2. /\ DOMAIN queue' = 1 .. Len(queue) + 1 /\ Len(queue) \in Nat
        /\ DOMAIN queue = 1 .. Len(queue)
        /\ \A i \in DOMAIN queue : queue'[i] = queue[i]
        /\ queue'[Len(queue) + 1] = index
    BY <2>1 DEF HandedInv
  <2>3. ASSUME NEW f \in Files, OnItsWay(f)
        PROVE  OnItsWay(f)'
    <3>1. CASE \E i \in DOMAIN queue : queue[i].file = f
      BY <2>2, <3>1 DEF OnItsWay
    <3>2. CASE index.file = f
      <4>1. Len(queue) + 1 \in DOMAIN queue'
        BY <2>2
      <4> QED BY <2>2, <3>2, <4>1 DEF OnItsWay
    <3>3. CASE at = "put" /\ current = f
      BY <2>1, <3>3 DEF OnItsWay, NewIndex, Filling
    <3>4. CASE \/ indexer \in {"flush", "rename"} /\ flushing.file = f
               \/ idxDir[f] = "published"
               \/ idxDir[f] = "hidden" /\ "index" \in Failures
      BY <2>1, <3>4 DEF OnItsWay
    <3> QED BY <2>3, <3>1, <3>2, <3>3, <3>4 DEF OnItsWay
  <2> QED BY <1>0, <1>2, <2>1, <2>3
<1>4. CASE GetIndex
  <2>1. indexer = "get" /\ UNCHANGED <<at, index, current, idxDir, dir>>
    BY <1>4 DEF GetIndex
  <2>2. CASE GetNull /\ UNCHANGED queue
    BY <1>0, <1>2, <2>1, <2>2 DEF OnItsWay
  <2>3. CASE /\ queue # <<>> /\ flushing' = Head(queue) /\ queue' = Tail(queue)
             /\ indexer' = "flush"
    <3>1. \A i \in DOMAIN queue :
             \/ queue[i] = flushing'
             \/ i - 1 \in DOMAIN queue' /\ queue[i] = queue'[i - 1]
      <4>1. /\ queue \in Seq([file : Files, entries : SUBSET Entry])
            /\ flushing' = queue[1]
        BY <2>3 DEF HandedInv
      <4>2. /\ Len(queue) \in Nat /\ DOMAIN queue = 1 .. Len(queue)
            /\ DOMAIN queue' = 1 .. Len(queue) - 1
            /\ \A j \in 1 .. Len(queue) - 1 : queue'[j] = queue[j + 1]
        BY <2>3, <4>1
      <4> QED BY <4>1, <4>2
    <3>2. ASSUME NEW f \in Files, OnItsWay(f)
          PROVE  OnItsWay(f)'
      <4>1. CASE \E i \in DOMAIN queue : queue[i].file = f
        <5>1. PICK i \in DOMAIN queue : queue[i].file = f
          BY <4>1
        <5>2. CASE queue[i] = flushing'
          <6>1. flushing'.file = f
            BY <5>1, <5>2
          <6> QED BY <2>3, <6>1 DEF OnItsWay
        <5>3. CASE i - 1 \in DOMAIN queue' /\ queue[i] = queue'[i - 1]
          <6>1. queue'[i - 1].file = f
            BY <5>1, <5>3
          <6> QED BY <5>3, <6>1 DEF OnItsWay
        <5> QED BY <3>1, <5>2, <5>3
      <4>2. CASE ~ \E i \in DOMAIN queue : queue[i].file = f
        BY <2>1, <3>2, <4>2 DEF OnItsWay
      <4> QED BY <4>1, <4>2
    <3> QED BY <1>0, <1>2, <2>1, <3>2
  <2> QED BY <1>4, <2>2, <2>3 DEF GetIndex
<1>5. CASE FlushIndex \/ RenameIndex
  <2>1. UNCHANGED <<at, index, current, queue, flushing, dir>>
    BY <1>5 DEF FlushIndex, RenameIndex
  <2>2. flushing.file \in Files /\ idxDir \in [Files -> {"absent", "hidden", "published"}]
    BY <1>5 DEF FlushIndex, RenameIndex, HandedInv, Handed, Settled
  <2>3. \A f \in Files : f # flushing.file => idxDir'[f] = idxDir[f]
    BY <1>5, <2>2 DEF FlushIndex, RenameIndex
  <2>4. \/ indexer' = "rename"
        \/ idxDir'[flushing.file] = "published"
        \/ idxDir'[flushing.file] = "hidden" /\ "index" \in Failures
    BY <1>5, <2>2 DEF FlushIndex, RenameIndex
  <2>5. ASSUME NEW f \in Files, OnItsWay(f)
        PROVE  OnItsWay(f)'
    BY <2>1, <2>3, <2>4, <2>5 DEF OnItsWay
  <2> QED BY <1>0, <1>2, <2>1, <2>5
<1>6. CASE LoopRound \/ PollDone \/ KeepFile \/ GetBlock \/ IndexBlock \/ WriteBlock
           \/ LeaveLoop \/ Flush \/ DestroyRing
  <2>1. UNCHANGED <<queue, indexer, flushing, idxDir>>
    BY <1>6
    DEF LoopRound, PollDone, KeepFile, GetBlock, IndexBlock, WriteBlock, LeaveLoop,
        Flush, DestroyRing
  <2>2. index'.file = index.file
    BY <1>6
    DEF LoopRound, Poll, PollDone, KeepFile, GetBlock, IndexBlock, WriteBlock, LeaveLoop,
        Flush, DestroyRing, StartInv
  <2>3. /\ at # "put"
        /\ at \in Filling => at' \in Filling
    BY <1>6
    DEF LoopRound, Poll, PollDone, KeepFile, GetBlock, IndexBlock, WriteBlock, LeaveLoop,
        Flush, DestroyRing, Filling
  <2>4. UNCHANGED dir
    BY <1>6
    DEF LoopRound, Poll, PollDone, KeepFile, GetBlock, IndexBlock, WriteBlock, LeaveLoop,
        Flush, DestroyRing, Out!CheckStart, Out!CheckReturn, Out!GetEvents,
        Out!WriteStart, Out!WaitForSlot, Out!Submit, Out!SubmitFails, Out!FlushStart,
        Out!WaitForFlush, Out!FlushReturn
  <2>5. ASSUME NEW f \in Files, OnItsWay(f)
        PROVE  OnItsWay(f)'
    BY <2>1, <2>2, <2>3, <2>5 DEF OnItsWay
  <2> QED BY <1>0, <1>2, <2>4, <2>5
<1>7. CASE HandleEvent
  <2>1. UNCHANGED <<queue, indexer, flushing, index, idxDir, at>>
    BY <1>7 DEF HandleEvent
  <2>2. PICK w \in batch : Out!HandleEvent(w)
    BY <1>7 DEF HandleEvent
  <2>3. UNCHANGED current
    BY <2>2 DEF Out!HandleEvent
  <2>4. w.file \in Files /\ dir[w.file] = "hidden"
    BY DEF Parts, OutP!IInv, OutP!Hidden, Out!Writes
  <2>5. \A g \in Files : dir'[g] # "absent" => dir[g] # "absent"
    BY <2>2, <2>4 DEF Out!HandleEvent, Out!Close, Out!CloseFails
  <2> QED BY <1>0, <2>1, <2>3, <2>5, WayKept DEF WayInv
<1>8. CASE Abort
  BY <1>8 DEF Abort, Alive, Out!Abort, Out!RotateCloseFails, Out!RotateOpenFails
<1>9. CASE Main \/ HandleSignals \/ KernelFill \/ KernelWrite \/ UNCHANGED vars
  <2>1. UNCHANGED <<queue, indexer, flushing, index, idxDir, at>>
    BY <1>9
    DEF Main, CloseQueue, Exit, HandleSignals, KernelFill, KernelWrite, vars
  <2>2. UNCHANGED <<current, dir>>
    BY <1>9
    DEF Main, CloseQueue, Exit, HandleSignals, KernelFill, KernelWrite, vars,
        Out!CompleteWrite, Out!FailWrite
  <2> QED BY <1>0, <1>2, <2>1, <2>2, WayKept
<1> QED
  BY <1>1, <1>3, <1>4, <1>5, <1>6, <1>7, <1>8, <1>9 DEF Next, RunThread, WriteIndexes

LEMMA EndStep ==
    ASSUME EndInv, [Next]_vars
    PROVE  EndInv'
<1> USE DEF EndInv, outVars, ringVars, threadVars, indexerVars
<1>1. CASE Flush
  BY <1>1
  DEF Flush, Out!FlushStart, Out!WaitForFlush, Out!FlushReturn, Out!GetEvents
<1>2. CASE DestroyRing
  BY <1>2 DEF DestroyRing
<1>3. CASE HandleEvent
  BY <1>3 DEF HandleEvent
<1>4. CASE Abort
  <2>1. at \notin {"destroy", "done"}
    BY <1>4 DEF Abort, Out!Abort
  <2> QED BY <1>4, <2>1 DEF Abort
<1>5. CASE Start \/ LoopRound \/ PollDone \/ RotateFile \/ KeepFile \/ PutIndex
           \/ GetBlock \/ IndexBlock \/ WriteBlock \/ LeaveLoop \/ PutLastIndex
  <2>1. /\ at \notin {"destroy", "done"} /\ at' \notin {"destroy", "done"}
        /\ UNCHANGED <<main, closed, indexer>>
    BY <1>5
    DEF Start, LoopRound, Poll, PollDone, RotateFile, KeepFile, PutIndex, GetBlock,
        IndexBlock, WriteBlock, LeaveLoop, PutLastIndex
  <2> QED BY <2>1
<1>6. CASE WriteIndexes
  BY <1>6 DEF WriteIndexes, GetIndex, GetNull, FlushIndex, RenameIndex
<1>7. CASE Main
  BY <1>7 DEF Main, CloseQueue, ThreadJoined, Exit
<1>8. CASE HandleSignals \/ KernelFill \/ UNCHANGED vars
  BY <1>8 DEF HandleSignals, KernelFill, vars
<1>9. CASE KernelWrite
  <2>1. UNCHANGED <<pc, files, batch, result, at, main, closed, indexer, queue>>
    BY <1>9 DEF KernelWrite, Out!CompleteWrite, Out!FailWrite, Out!callVars
  <2> QED BY <2>1
<1> QED
  BY <1>1, <1>2, <1>3, <1>4, <1>5, <1>6, <1>7, <1>8, <1>9 DEF Next, RunThread

LEMMA ExitInit == Init => ExitInv
<1> SUFFICES ASSUME Init PROVE ExitInv
  OBVIOUS
<1>1. /\ at = "start" /\ disk = {} /\ queue = <<>> /\ closed = FALSE
      /\ indexer = "get" /\ main = "join"
  BY DEF Init
<1>2. dir = [f \in Files |-> "absent"] /\ durable = {}
  BY DEF Init, Out!Init
<1>3. delivered = 0
  BY DEF Init, Ring!RingInit
<1> QED
  BY <1>1, <1>2, <1>3
  DEF ExitInv, BlockInv, WrittenInv, SameInv, WayInv, EndInv

LEMMA ExitStep ==
    ASSUME Parts, IndexInv, ExitInv, [Next]_vars
    PROVE  ExitInv'
  BY PlacesStep, BlockStep, WayStep, EndStep DEF IndexInv, ExitInv

LEMMA ExitInvariant == Spec => []ExitInv
<1>1. Parts /\ IndexInv /\ ExitInv /\ [Next]_vars => ExitInv'
  BY ExitStep
<1> QED BY <1>1, ExitInit, IndexInvariant, PartsHold, PTL DEF Spec

(* The invariants give the promise: once Main has joined both threads, no  *)
(* write is outstanding, none failed, and no index is on its way any more. *)
LEMMA CleanAtExit ==
    ASSUME Parts, IndexInv, ExitInv
    PROVE  CleanExit
<1> SUFFICES ASSUME main = "exited", NEW n \in 1 .. delivered
             PROVE  \E d \in disk :
                      /\ d.cap = n /\ dir[d.file] = "published"
                      /\ \/ /\ idxDir[d.file] = "published"
                            /\ [off |-> d.off, cap |-> n] \in idxEntries[d.file]
                         \/ idxDir[d.file] = "hidden" /\ "index" \in Failures
  BY DEF CleanExit
<1> USE PartsFacts
<1>1. /\ at = "done" /\ pc = "flushed" /\ files = {} /\ batch = {} /\ result = "ok"
      /\ indexer = "done" /\ queue = <<>>
  BY DEF ExitInv, EndInv
<1>2. PICK f \in Files, k \in Nat : k < offset[f] /\ At(f, k, n)
  BY <1>1 DEF ExitInv, BlockInv, InHand, Alive
<1>3. outstanding = {}
  BY <1>1
<1>4. [file |-> f, off |-> k] \notin failed
  BY <1>1, <1>3 DEF Parts, OutP!IInv, OutP!ErrorKept
<1>5. \A s \in Ring!Slots : owner[s] # [file |-> f, off |-> k]
  BY <1>3, NoWriteAssumption
<1>6. PICK d \in disk : d.file = f /\ d.off = k /\ d.cap = n
  BY <1>2, <1>4, <1>5 DEF At
<1>7. dir[f] = "published"
  <2>1. dir[f] # "absent"
    BY <1>2 DEF IndexInv, DirInv
  <2> QED BY <1>1, <2>1 DEF IndexInv, DirInv
<1>8. idxDir[f] = "published" \/ (idxDir[f] = "hidden" /\ "index" \in Failures)
  <2>1. OnItsWay(f)
    BY <1>1, <1>7 DEF ExitInv, WayInv, Alive
  <2> QED BY <1>1, <2>1 DEF OnItsWay, Filling
<1>9. CASE idxDir[f] = "published"
  <2>1. Exact(f, idxEntries[f])
    BY <1>9 DEF IndexInv, HandedInv, Handed
  <2>2. k \in 0 .. offset[f] - 1
    BY <1>2
  <2>3. PICK e \in idxEntries[f] : e.off = k
    BY <2>1, <2>2 DEF Exact
  <2>4. e.cap = n /\ e \in Entry
    BY <1>6, <2>1, <2>3 DEF Exact, Leads
  <2>5. e = [off |-> d.off, cap |-> n]
    BY <1>6, <2>3, <2>4 DEF Entry
  <2> QED BY <1>6, <1>7, <1>9, <2>5
<1> QED BY <1>6, <1>7, <1>8, <1>9

(* A process that exits without an error leaves no captured block behind:  *)
(* each is on disk, in a visible file, and found through its index unless  *)
(* an index could not be written.                                          *)
THEOREM CleanExitHolds == Spec => []CleanExit
<1>1. Parts /\ IndexInv /\ ExitInv => CleanExit
  BY CleanAtExit
<1> QED BY <1>1, ExitInvariant, IndexInvariant, PartsHold, PTL

=============================================================================
