------------------------------ MODULE PCQueue ------------------------------
(***************************************************************************)
(* class ProducerConsumerQueue of stenotype/util.{h,cc}: a deque with one  *)
(* mutex and one condition variable, step by step as its threads run.      *)
(* stenotype uses it with one producer (RunThread), one consumer           *)
(* (WriteIndexes) and Main closing it; here there may be several of each.  *)
(***************************************************************************)
EXTENDS Integers, Sequences, FiniteSets

CONSTANTS
    Producers, Consumers, Closer,  \* the threads
    Null, Pending,                 \* results of Get: NULL, and none yet
    MaxPuts,                       \* bound on the Puts of each producer
    NoThread                       \* the mutex is free

ASSUME MaxPutsAssumption == MaxPuts \in Nat

Threads == Producers \cup Consumers \cup {Closer}
ASSUME NoThreadAssumption == NoThread \notin Threads

Values == Producers \X (1 .. MaxPuts)

VARIABLES
    mu,       \* who holds mu_
    d,        \* d_
    closed,   \* closed_
    waiting,  \* threads asleep in cond_.wait
    pc,       \* where each thread is in its call
    puts,     \* number of Puts each producer has begun
    ret       \* result of each consumer's current Get

vars == <<mu, d, closed, waiting, pc, puts, ret>>

Init ==
    /\ mu = NoThread
    /\ d = <<>>
    /\ closed = FALSE
    /\ waiting = {}
    /\ pc = [t \in Threads |-> "idle"]
    /\ puts = [p \in Producers |-> 0]
    /\ ret = [c \in Consumers |-> Pending]

Goto(t, l) == pc' = [pc EXCEPT ![t] = l]

Lock(t, from, to) ==
    /\ pc[t] = from /\ mu = NoThread
    /\ mu' = t
    /\ Goto(t, to)
    /\ UNCHANGED <<d, closed, waiting, puts, ret>>

(***************************************************************************)
(* cond_.notify_one wakes some sleeper if there is one; notify_all wakes   *)
(* them all; and wait may also return for no reason.                       *)
(***************************************************************************)
NotifyNone == UNCHANGED waiting  \* mutant: Put forgets to notify
NotifyOne ==
    IF waiting = {} THEN UNCHANGED waiting
    ELSE \E t \in waiting : waiting' = waiting \ {t}

NotifyAll == waiting' = {}

SpuriousWakeup(t) ==
    /\ t \in waiting
    /\ waiting' = waiting \ {t}
    /\ UNCHANGED <<mu, d, closed, pc, puts, ret>>

(***************************************************************************)
(* Put.  CHECK(!closed_) reads closed_ without the mutex: while a Close is *)
(* setting it that is a data race, and either value may be read.  A failed *)
(* CHECK ends the process.                                                 *)
(***************************************************************************)
PutCheck(p) ==
    /\ pc[p] = "idle" /\ puts[p] < MaxPuts
    /\ puts' = [puts EXCEPT ![p] = @ + 1]
    /\ \/ /\ closed \/ pc[Closer] = "set"
          /\ Goto(p, "aborted")
       \/ ~closed /\ Goto(p, "putLock")
    /\ UNCHANGED <<mu, d, closed, waiting, ret>>

Push(p) ==
    /\ pc[p] = "push"
    /\ d' = Append(d, <<p, puts[p]>>)
    /\ mu' = NoThread
    /\ Goto(p, "notify")
    /\ UNCHANGED <<closed, waiting, puts, ret>>

PutNotify(p) ==
    /\ pc[p] = "notify"
    /\ NotifyOne
    /\ Goto(p, "idle")
    /\ UNCHANGED <<mu, d, closed, puts, ret>>

(***************************************************************************)
(* Get: while the queue is empty and open, wait; then the front, or NULL.  *)
(***************************************************************************)
GetEnter(c) ==
    /\ pc[c] = "idle" /\ mu = NoThread
    /\ mu' = c
    /\ ret' = [ret EXCEPT ![c] = Pending]
    /\ Goto(c, "test")
    /\ UNCHANGED <<d, closed, waiting, puts>>

WaitIfEmpty == d = <<>>  \* mutant: the wait does not look at closed_
MustWait == d = <<>> /\ ~closed

GetWait(c) ==
    /\ pc[c] = "test" /\ MustWait
    /\ mu' = NoThread
    /\ waiting' = waiting \cup {c}
    /\ Goto(c, "asleep")
    /\ UNCHANGED <<d, closed, puts, ret>>

GetWoken(c) ==
    /\ c \notin waiting
    /\ Lock(c, "asleep", "test")

NothingFor == d = <<>> \/ closed  \* mutant: a closed queue is not drained
NothingLeft == d = <<>>

GetTake(c) ==
    /\ pc[c] = "test" /\ ~MustWait
    /\ IF NothingLeft
       THEN ret' = [ret EXCEPT ![c] = Null] /\ UNCHANGED d
       ELSE ret' = [ret EXCEPT ![c] = Head(d)] /\ d' = Tail(d)
    /\ mu' = NoThread
    /\ Goto(c, IF NothingLeft THEN "stopped" ELSE "idle")
    /\ UNCHANGED <<closed, waiting, puts>>

(***************************************************************************)
(* Close, called once by its owner.  In stenotype every producer has been  *)
(* joined by then; here they may still Put.                                *)
(***************************************************************************)
CloseEnter == Lock(Closer, "idle", "set")

CloseSet ==
    /\ pc[Closer] = "set"
    /\ closed' = TRUE
    /\ mu' = NoThread
    /\ Goto(Closer, "notifyAll")
    /\ UNCHANGED <<d, waiting, puts, ret>>

CloseNotify ==
    /\ pc[Closer] = "notifyAll"
    /\ NotifyAll
    /\ Goto(Closer, "stopped")
    /\ UNCHANGED <<mu, d, closed, puts, ret>>

Put(p) == PutCheck(p) \/ Lock(p, "putLock", "push") \/ Push(p) \/ PutNotify(p)
Get(c) == GetEnter(c) \/ GetWait(c) \/ GetWoken(c) \/ GetTake(c)
Close == CloseEnter \/ CloseSet \/ CloseNotify

Alive == \A p \in Producers : pc[p] # "aborted"

Next ==
    /\ Alive
    /\ \/ \E p \in Producers : Put(p)
       \/ \E c \in Consumers : Get(c) \/ SpuriousWakeup(c)
       \/ Close

Spec == Init /\ [][Next]_vars

(***************************************************************************)
(* A call that has begun goes on, a mutex released again and again is not  *)
(* withheld from one thread for ever, and a consumer calls Get until it    *)
(* gets NULL, as WriteIndexes does.  Nobody has to Put or Close.           *)
(***************************************************************************)
Fairness ==
    /\ \A p \in Producers : SF_vars(Alive /\ Put(p) /\ pc[p] # "idle")
    /\ \A c \in Consumers : SF_vars(Alive /\ Get(c))
    /\ SF_vars(Alive /\ (CloseSet \/ CloseNotify))

FairSpec == Spec /\ Fairness
-----------------------------------------------------------------------------
(* The deque, the flag and the results are a FIFO channel: no value is     *)
(* lost, repeated or overtaken, and NULL means closed and drained (not     *)
(* just closed, as util.h:299 has it).                                     *)
Chan == INSTANCE Channel
        WITH content <- d, shut <- closed, answer <- ret, Takers <- Consumers
ImplementsChannel == Chan!Spec

(* No lost wakeup: a value on the queue is taken, though every consumer    *)
(* may have gone to sleep just before it was put; the exceptions are a Put *)
(* that races with Close, which aborts or comes too late for everyone.     *)
AllStopped == \A c \in Consumers : pc[c] = "stopped"
InQueue(v) == \E i \in 1 .. Len(d) : d[i] = v
ValueTaken == \A v \in Values : InQueue(v) ~> (~InQueue(v) \/ ~Alive \/ AllStopped)

(* Close stops every consumer, asleep or not.                              *)
CloseStopsAll == closed ~> (AllStopped \/ ~Alive)

=============================================================================
