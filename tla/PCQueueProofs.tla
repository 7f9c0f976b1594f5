---------------------------- MODULE PCQueueProofs ----------------------------
(***************************************************************************)
(* Proofs about PCQueue, for any number of producers, consumers and values *)
(* put: mu_ excludes, the queue is a FIFO channel, and no value or Close   *)
(* passes consumers by that sleep with nobody left to wake one of them.    *)
(***************************************************************************)
EXTENDS PCQueue, SequenceTheorems, TLAPS

(* The places of the code that run with mu_ held.                          *)
Holding == {"push", "test", "set"}

Places == {"idle", "putLock", "push", "notify", "test", "asleep", "set",
           "notifyAll", "stopped", "aborted"}

TypeInv ==
    /\ mu \in Threads \cup {NoThread}
    /\ d \in Seq(Values)
    /\ closed \in BOOLEAN
    /\ waiting \subseteq Consumers
    /\ pc \in [Threads -> Places]
    /\ puts \in [Producers -> 0 .. MaxPuts]
    /\ ret \in [Consumers -> Values \cup {Null, Pending}]

(* A thread is at one of these places exactly while it holds the mutex.    *)
MutexInv == \A t \in Threads : mu = t <=> pc[t] \in Holding

(* What a call in progress has done already: a Put counted itself, a Get   *)
(* has no result yet; who sleeps is inside cond_.wait; the places after    *)
(* closed_ = true are reached by then.                                     *)
CallInv ==
    /\ \A p \in Producers : pc[p] \in {"putLock", "push"} => puts[p] > 0
    /\ \A c \in Consumers : pc[c] \in {"test", "asleep"} => ret[c] = Pending
    /\ \A c \in waiting : pc[c] = "asleep"
    /\ \A t \in Threads : pc[t] \in {"notifyAll", "stopped"} => closed

(* Put changes the queue before it notifies, Close the flag; a consumer    *)
(* only goes to sleep when it has seen neither.                            *)
WakeInv ==
    /\ closed /\ waiting # {} => pc[Closer] = "notifyAll"
    /\ d # <<>> /\ waiting # {} /\ ~closed =>
          \/ \E c \in Consumers : c \notin waiting
          \/ \E p \in Producers : pc[p] = "notify"

QueueInv == TypeInv /\ MutexInv /\ CallInv /\ WakeInv

LEMMA QueueInit == Init => QueueInv
<1> SUFFICES ASSUME Init
             PROVE  QueueInv
  OBVIOUS
<1>1. TypeInv
  <2>1. puts \in [Producers -> 0 .. MaxPuts]
    BY MaxPutsAssumption DEF Init
  <2>2. pc \in [Threads -> Places] /\ ret \in [Consumers -> Values \cup {Null, Pending}]
    BY DEF Init, Places
  <2>3. d \in Seq(Values)
    BY EmptySeq DEF Init
  <2> QED BY <2>1, <2>2, <2>3 DEF Init, TypeInv
<1>2. MutexInv /\ CallInv /\ WakeInv
  BY NoThreadAssumption
  DEF Init, MutexInv, CallInv, WakeInv, Holding, Threads
<1> QED BY <1>1, <1>2 DEF QueueInv

(***************************************************************************)
(* The steps of each call keep the invariant.                              *)
(***************************************************************************)
LEMMA PutStep ==
    ASSUME QueueInv, NEW p \in Producers, Put(p)
    PROVE  QueueInv'
<1> USE MaxPutsAssumption, NoThreadAssumption DEF QueueInv, TypeInv, Threads, Places, Goto
<1>1. CASE PutCheck(p)
  <2>1. TypeInv'
    <3>1. puts[p] + 1 \in 0 .. MaxPuts
      BY <1>1 DEF PutCheck
    <3>2. puts' \in [Producers -> 0 .. MaxPuts]
      BY <1>1, <3>1 DEF PutCheck
    <3>3. pc' \in [Threads -> Places]
      BY <1>1 DEF PutCheck
    <3> QED BY <1>1, <3>2, <3>3 DEF PutCheck
  <2>2. (MutexInv /\ CallInv /\ WakeInv)'
    BY <1>1 DEF PutCheck, MutexInv, CallInv, WakeInv, Holding
  <2> QED BY <2>1, <2>2
<1>2. CASE Lock(p, "putLock", "push")
  <2>1. TypeInv'
    BY <1>2 DEF Lock
  <2>2. (MutexInv /\ CallInv /\ WakeInv)'
    BY <1>2 DEF Lock, MutexInv, CallInv, WakeInv, Holding
  <2> QED BY <2>1, <2>2
<1>3. CASE Push(p)
  <2>1. <<p, puts[p]>> \in Values
    BY <1>3 DEF Push, CallInv, Values
  <2>2. TypeInv'
    BY <1>3, <2>1, AppendProperties DEF Push
  <2>3. (MutexInv /\ CallInv /\ WakeInv)'
    BY <1>3 DEF Push, MutexInv, CallInv, WakeInv, Holding
  <2> QED BY <2>2, <2>3
<1>4. CASE PutNotify(p)
  <2>1. waiting' \subseteq waiting /\ (waiting # {} => \E c \in Consumers : c \notin waiting')
    BY <1>4 DEF PutNotify, NotifyOne
  <2>2. TypeInv'
    BY <1>4, <2>1 DEF PutNotify
  <2>3. (MutexInv /\ CallInv)'
    BY <1>4, <2>1 DEF PutNotify, MutexInv, CallInv, Holding
  <2>4. WakeInv'
    BY <1>4, <2>1 DEF PutNotify, WakeInv
  <2> QED BY <2>2, <2>3, <2>4
<1> QED BY <1>1, <1>2, <1>3, <1>4 DEF Put

LEMMA GetStep ==
    ASSUME QueueInv, NEW c \in Consumers, Get(c) \/ SpuriousWakeup(c)
    PROVE  QueueInv'
<1> USE NoThreadAssumption DEF QueueInv, TypeInv, Threads, Places, Goto
<1>1. CASE GetEnter(c)
  <2>1. TypeInv'
    BY <1>1 DEF GetEnter
  <2>2. (MutexInv /\ CallInv /\ WakeInv)'
    BY <1>1 DEF GetEnter, MutexInv, CallInv, WakeInv, Holding
  <2> QED BY <2>1, <2>2
<1>2. CASE GetWait(c)
  <2>1. TypeInv'
    BY <1>2 DEF GetWait
  <2>2. (MutexInv /\ CallInv /\ WakeInv)'
    BY <1>2 DEF GetWait, MustWait, MutexInv, CallInv, WakeInv, Holding
  <2> QED BY <2>1, <2>2
<1>3. CASE GetWoken(c)
  <2>1. TypeInv'
    BY <1>3 DEF GetWoken, Lock
  <2>2. (MutexInv /\ CallInv /\ WakeInv)'
    BY <1>3 DEF GetWoken, Lock, MutexInv, CallInv, WakeInv, Holding
  <2> QED BY <2>1, <2>2
<1>4. CASE GetTake(c)
  <2>1. d # <<>> => Head(d) \in Values /\ Tail(d) \in Seq(Values)
    BY HeadTailProperties
  <2>2. TypeInv'
    BY <1>4, <2>1 DEF GetTake, NothingLeft
  <2>3. MutexInv'
    BY <1>4 DEF GetTake, MutexInv, Holding
  <2>4. CallInv'
    BY <1>4 DEF GetTake, MustWait, NothingLeft, CallInv
  <2>5. c \notin waiting
    BY <1>4 DEF GetTake, CallInv
  <2>6. pc'[Closer] = "notifyAll" \/ pc[Closer] # "notifyAll"
    BY <1>4 DEF GetTake
  <2>7. WakeInv'
    BY <1>4, <2>5, <2>6 DEF GetTake, WakeInv
  <2> QED BY <2>2, <2>3, <2>4, <2>7
<1>5. CASE SpuriousWakeup(c)
  <2>1. TypeInv'
    BY <1>5 DEF SpuriousWakeup
  <2>2. (MutexInv /\ CallInv /\ WakeInv)'
    BY <1>5 DEF SpuriousWakeup, MutexInv, CallInv, WakeInv
  <2> QED BY <2>1, <2>2
<1> QED BY <1>1, <1>2, <1>3, <1>4, <1>5 DEF Get

LEMMA CloseStep ==
    ASSUME QueueInv, Close
    PROVE  QueueInv'
<1> USE NoThreadAssumption DEF QueueInv, TypeInv, Threads, Places, Goto
<1>1. CASE CloseEnter
  <2>1. TypeInv'
    BY <1>1 DEF CloseEnter, Lock
  <2>2. (MutexInv /\ CallInv /\ WakeInv)'
    BY <1>1 DEF CloseEnter, Lock, MutexInv, CallInv, WakeInv, Holding
  <2> QED BY <2>1, <2>2
<1>2. CASE CloseSet
  <2>1. TypeInv'
    BY <1>2 DEF CloseSet
  <2>2. (MutexInv /\ CallInv /\ WakeInv)'
    BY <1>2 DEF CloseSet, MutexInv, CallInv, WakeInv, Holding
  <2> QED BY <2>1, <2>2
<1>3. CASE CloseNotify
  <2>1. TypeInv'
    BY <1>3 DEF CloseNotify, NotifyAll
  <2>2. (MutexInv /\ CallInv /\ WakeInv)'
    BY <1>3 DEF CloseNotify, NotifyAll, MutexInv, CallInv, WakeInv, Holding
  <2> QED BY <2>1, <2>2
<1> QED BY <1>1, <1>2, <1>3 DEF Close

LEMMA QueueStep == ASSUME QueueInv, [Next]_vars PROVE QueueInv'
<1>1. CASE Next
  BY <1>1, PutStep, GetStep, CloseStep DEF Next
<1>2. CASE UNCHANGED vars
  BY <1>2
  DEF vars, QueueInv, TypeInv, MutexInv, CallInv, WakeInv
<1> QED BY <1>1, <1>2

LEMMA QueueInvariant == Spec => []QueueInv
<1>1. QueueInv /\ [Next]_vars => QueueInv'
  BY QueueStep
<1> QED BY <1>1, QueueInit, PTL DEF Spec

-----------------------------------------------------------------------------
(* At most one thread is in a part of the code that runs with mu_ held.    *)
MutualExclusion ==
    \A t, u \in Threads : pc[t] \in Holding /\ pc[u] \in Holding => t = u

(* The parts of Put, Get and Close that touch d_ and closed_ exclude each  *)
(* other, whoever the callers are; only the CHECK in Put is outside.       *)
THEOREM MutualExclusionHolds == Spec => []MutualExclusion
<1>1. QueueInv => MutualExclusion
  BY DEF QueueInv, MutexInv, MutualExclusion
<1> QED BY <1>1, QueueInvariant, PTL

(* Whenever a consumer sleeps although there is a value or the queue is    *)
(* closed, another consumer is awake and has not stopped, a Put has its    *)
(* notify_one before it, or Close its notify_all.                          *)
NoLostWakeup ==
    (d # <<>> \/ closed) /\ waiting # {} =>
        \/ \E c \in Consumers : c \notin waiting /\ pc[c] # "stopped"
        \/ \E p \in Producers : pc[p] = "notify"
        \/ pc[Closer] = "notifyAll"

(* No wakeup is lost between the unlock and the notification, or between a *)
(* consumer's last look at d_ and its sleep.                               *)
THEOREM NoLostWakeupHolds == Spec => []NoLostWakeup
<1>1. QueueInv => NoLostWakeup
  BY DEF QueueInv, CallInv, WakeInv, NoLostWakeup, Threads
<1> QED BY <1>1, QueueInvariant, PTL

(***************************************************************************)
(* Refinement: the steps with the mutex that push, take and close are the  *)
(* steps of the channel, and a Get asks when it begins.                    *)
(***************************************************************************)
LEMMA ChannelStep ==
    ASSUME QueueInv, [Next]_vars
    PROVE  [Chan!Next]_(Chan!vars)
<1> USE DEF QueueInv, Chan!vars
<1>1. ASSUME NEW p \in Producers, Put(p)
      PROVE  [Chan!Next]_(Chan!vars)
  <2>1. CASE Push(p)
    <3>1. <<p, puts[p]>> \in Values
      BY <2>1, MaxPutsAssumption DEF Push, TypeInv, CallInv, Values
    <3>2. Chan!Give(<<p, puts[p]>>)
      BY <2>1 DEF Push, Chan!Give
    <3> QED BY <3>1, <3>2 DEF Chan!Next
  <2>2. CASE PutCheck(p) \/ Lock(p, "putLock", "push") \/ PutNotify(p)
    BY <2>2 DEF PutCheck, Lock, PutNotify
  <2> QED BY <1>1, <2>1, <2>2 DEF Put
<1>2. ASSUME NEW c \in Consumers, Get(c) \/ SpuriousWakeup(c)
      PROVE  [Chan!Next]_(Chan!vars)
  <2>1. CASE GetEnter(c)
    <3>1. CASE ret[c] = Pending
      BY <2>1, <3>1 DEF GetEnter, TypeInv
    <3>2. CASE ret[c] # Pending
      BY <2>1, <3>2 DEF GetEnter, Chan!Next, Chan!Ask
    <3> QED BY <3>1, <3>2
  <2>2. CASE GetTake(c)
    <3>1. ret[c] = Pending /\ (d = <<>> => closed)
      BY <2>2 DEF GetTake, MustWait, CallInv
    <3>2. Chan!Take(c)
      BY <2>2, <3>1 DEF GetTake, NothingLeft, Chan!Take
    <3> QED BY <3>2 DEF Chan!Next
  <2>3. CASE GetWait(c) \/ GetWoken(c) \/ SpuriousWakeup(c)
    BY <2>3 DEF GetWait, GetWoken, Lock, SpuriousWakeup
  <2> QED BY <1>2, <2>1, <2>2, <2>3 DEF Get
<1>3. CASE Close
  BY <1>3 DEF Close, CloseEnter, Lock, CloseSet, CloseNotify, Chan!Next, Chan!Shut
<1>4. CASE UNCHANGED vars
  BY <1>4 DEF vars
<1> QED BY <1>1, <1>2, <1>3, <1>4 DEF Next

(* ProducerConsumerQueue is a channel: nothing is lost, repeated or        *)
(* overtaken, and NULL means closed and drained.                           *)
THEOREM ImplementsChannelHolds == Spec => ImplementsChannel
<1>1. Init => Chan!Init
  BY DEF Init, Chan!Init
<1>2. QueueInv /\ [Next]_vars => [Chan!Next]_(Chan!vars)
  BY ChannelStep
<1> QED BY <1>1, <1>2, QueueInvariant, PTL DEF Spec, ImplementsChannel, Chan!Spec

=============================================================================
