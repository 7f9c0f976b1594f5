----------------------------- MODULE FileCache -----------------------------
(***************************************************************************)
(* filecache/filecache.go: a cache of open files, shared by the goroutines *)
(* of all queries.  Cache.mu protects a doubly linked list in order of     *)
(* use and the count of open files; each CachedFile has an RWMutex for its *)
(* os.File, which readers hold shared while they read.                     *)
(***************************************************************************)
EXTENDS Integers, FiniteSets, Sequences

CONSTANTS
    CachedFiles, Nil,  \* the *CachedFile pointers, and nil
    Goroutines, NoOne, \* who calls, and the holder of a free mutex
    MaxOpened,         \* maxOpened
    MaxCalls,          \* bound on the calls of each goroutine
    OpenMayFail        \* os.Open may return an error

ASSUME CachedFilesAssumption == IsFiniteSet(CachedFiles) /\ Nil \notin CachedFiles
ASSUME GoroutinesAssumption == NoOne \notin Goroutines
ASSUME MaxOpenedAssumption == MaxOpened \in Nat \ {0}
ASSUME MaxCallsAssumption == MaxCalls \in Nat
ASSUME OpenMayFailAssumption == OpenMayFail \in BOOLEAN

VARIABLES
    first, last, prev, next,  \* the list
    opened,                   \* Cache.opened
    file,                     \* CachedFile.f # nil
    cacheMu,                  \* who holds Cache.mu
    readers,                  \* who holds CachedFile.mu shared
    pc, arg,                  \* where each goroutine is, and on which file
    err,                      \* what its last call returned
    calls                     \* number of calls each goroutine has made

listVars == <<first, last, prev, next>>
vars == <<listVars, opened, file, cacheMu, readers, pc, arg, err, calls>>

Init ==
    /\ first = Nil /\ last = Nil
    /\ prev = [c \in CachedFiles |-> Nil]
    /\ next = [c \in CachedFiles |-> Nil]
    /\ opened = 0
    /\ file = [c \in CachedFiles |-> FALSE]
    /\ cacheMu = NoOne
    /\ readers = [c \in CachedFiles |-> {}]
    /\ pc = [g \in Goroutines |-> "idle"]
    /\ arg = [g \in Goroutines |-> Nil]
    /\ err = [g \in Goroutines |-> "none"]
    /\ calls = [g \in Goroutines |-> 0]

Goto(g, l) == pc' = [pc EXCEPT ![g] = l]
Return(g, e) == Goto(g, "idle") /\ err' = [err EXCEPT ![g] = e]

(***************************************************************************)
(* moveToFront, with cacheMu held.  The assignments of the code happen in  *)
(* this order: unlink from both neighbours, fix last, link before first.   *)
(***************************************************************************)
Unlinked(c, links, neighbour, other) ==
    IF neighbour = Nil THEN links ELSE [links EXCEPT ![neighbour] = other]

LastKept(c) == last  \* mutant: last is not moved off c
LastWithout(c) ==
    IF last = Nil THEN c ELSE IF last = c THEN prev[c] ELSE last

MoveToFront(c) ==
    IF first = c THEN UNCHANGED listVars
    ELSE LET next1 == Unlinked(c, next, prev[c], next[c])
             prev1 == Unlinked(c, prev, next[c], prev[c])
         IN  /\ last' = LastWithout(c)
             /\ next' = IF first = Nil THEN next1 ELSE [next1 EXCEPT ![c] = first]
             /\ prev' = [Unlinked(c, prev1, first, c) EXCEPT ![c] = Nil]
             /\ first' = c

(***************************************************************************)
(* closeFile: with the caller's locks, whichever those are.                *)
(***************************************************************************)
CountKept(c) == opened  \* mutant: opened is not decremented
CountWithout(c) == IF file[c] THEN opened - 1 ELSE opened

CloseFile(c) ==
    /\ file' = [file EXCEPT ![c] = FALSE]
    /\ opened' = CountWithout(c)

(***************************************************************************)
(* ReadAt, Read and Stat.  readLockedFile moves the file to the front,     *)
(* then locks it shared; while it finds it closed, it unlocks and opens.   *)
(***************************************************************************)
BeginRead(g) ==
    /\ pc[g] = "idle" /\ calls[g] < MaxCalls
    /\ cacheMu = NoOne
    /\ calls' = [calls EXCEPT ![g] = @ + 1]
    /\ \E c \in CachedFiles : arg' = [arg EXCEPT ![g] = c] /\ MoveToFront(c)
    /\ Goto(g, "rlock")
    /\ UNCHANGED <<opened, file, cacheMu, readers, err>>

(* openFile keeps the mutex of the file it opens through its evictions.    *)
Exclusive(c) == \E h \in Goroutines : pc[h] = "evict" /\ arg[h] = c

ReadLock(g) ==
    /\ pc[g] = "rlock" /\ ~Exclusive(arg[g])
    /\ IF file[arg[g]]
       THEN /\ readers' = [readers EXCEPT ![arg[g]] = @ \cup {g}]
            /\ Goto(g, "read")
       ELSE Goto(g, "open") /\ UNCHANGED readers
    /\ UNCHANGED <<listVars, opened, file, cacheMu, arg, err, calls>>

(* The read itself: cf.f is looked up again, and may be nil by now.        *)
ReadFile(g) ==
    /\ pc[g] = "read"
    /\ Return(g, IF file[arg[g]] THEN "none" ELSE "file closed")
    /\ readers' = [readers EXCEPT ![arg[g]] = @ \ {g}]
    /\ UNCHANGED <<listVars, opened, file, cacheMu, arg, calls>>

(***************************************************************************)
(* openFile: Cache.mu, then the file's mutex, which waits for its readers  *)
(* with Cache.mu held; then eviction until the limit is kept.              *)
(***************************************************************************)
LockCache(g, from, to) ==
    /\ pc[g] = from /\ cacheMu = NoOne
    /\ cacheMu' = g
    /\ Goto(g, to)
    /\ UNCHANGED <<listVars, opened, file, readers, arg, err, calls>>

OpenCounted == opened + 1

Open(g) ==
    LET c == arg[g] IN
    /\ pc[g] = "opening" /\ readers[c] = {}
    /\ \/ /\ file[c]
          /\ cacheMu' = NoOne
          /\ Goto(g, "rlock")
          /\ UNCHANGED <<listVars, opened, file, err>>
       \/ /\ ~file[c] /\ OpenMayFail
          /\ cacheMu' = NoOne
          /\ Return(g, "open failed")
          /\ UNCHANGED <<listVars, opened, file>>
       \/ /\ ~file[c]
          /\ file' = [file EXCEPT ![c] = TRUE]
          /\ MoveToFront(c)
          /\ opened' = OpenCounted
          /\ Goto(g, "evict")
          /\ UNCHANGED <<cacheMu, err>>
    /\ UNCHANGED <<readers, arg, calls>>

AboveMax == opened > MaxOpened

Newest == first  \* mutant: the wrong end of the list
Oldest == last

(* One round of the loop, with Cache.mu and the mutex of arg[g], but not   *)
(* the mutex of the file it closes.                                        *)
Evict(g) ==
    LET oldLast == Oldest
        cut == [next EXCEPT ![oldLast] = Nil]
    IN  /\ pc[g] = "evict" /\ AboveMax
        /\ last' = prev[oldLast]
        /\ next' = IF last' = Nil THEN cut ELSE [cut EXCEPT ![last'] = Nil]
        /\ prev' = [prev EXCEPT ![oldLast] = Nil]
        /\ CloseFile(oldLast)
        /\ UNCHANGED <<first, cacheMu, readers, pc, arg, err, calls>>

EvictStuck(g) ==  \* mutant: Cache.mu is not unlocked
    /\ pc[g] = "evict" /\ ~AboveMax
    /\ Goto(g, "rlock")
    /\ UNCHANGED <<listVars, opened, file, cacheMu, readers, arg, err, calls>>

EvictDone(g) ==
    /\ pc[g] = "evict" /\ ~AboveMax
    /\ cacheMu' = NoOne
    /\ Goto(g, "rlock")
    /\ UNCHANGED <<listVars, opened, file, readers, arg, err, calls>>

(***************************************************************************)
(* Close: Cache.mu, the file's mutex, closeFile.  The list is left alone.  *)
(***************************************************************************)
BeginClose(g) ==
    /\ pc[g] = "idle" /\ calls[g] < MaxCalls
    /\ cacheMu = NoOne
    /\ cacheMu' = g
    /\ calls' = [calls EXCEPT ![g] = @ + 1]
    /\ \E c \in CachedFiles : arg' = [arg EXCEPT ![g] = c]
    /\ Goto(g, "closing")
    /\ UNCHANGED <<listVars, opened, file, readers, err>>

Close(g) ==
    /\ pc[g] = "closing" /\ readers[arg[g]] = {}
    /\ CloseFile(arg[g])
    /\ cacheMu' = NoOne
    /\ Return(g, "none")
    /\ UNCHANGED <<listVars, readers, arg, calls>>

Running(g) ==
    \/ ReadLock(g) \/ ReadFile(g)
    \/ LockCache(g, "open", "opening") \/ Open(g) \/ Evict(g) \/ EvictDone(g)
    \/ Close(g)

Next == \E g \in Goroutines : BeginRead(g) \/ BeginClose(g) \/ Running(g)

Spec == Init /\ [][Next]_vars

(* A call goes on once it has begun; Go's mutexes do not starve a waiter.  *)
FairSpec == Spec /\ \A g \in Goroutines : SF_vars(Running(g))
-----------------------------------------------------------------------------
(* The list as a walk along next from first.                               *)
NumFiles == Cardinality(CachedFiles)
Walk[n \in 0 .. NumFiles] ==
    IF n = 0 THEN first
    ELSE IF Walk[n - 1] = Nil THEN Nil ELSE next[Walk[n - 1]]
Listed == {Walk[n] : n \in 0 .. NumFiles} \ {Nil}
Order == [n \in 1 .. Cardinality(Listed) |-> Walk[n - 1]]

(* Both directions of the list agree, it ends, last is its end, and a file *)
(* that is not on it has no links, after any mix of moves and evictions.   *)
ListOK ==
    /\ Walk[NumFiles] = Nil
    /\ last = IF Listed = {} THEN Nil ELSE Order[Cardinality(Listed)]
    /\ \A n \in 1 .. Cardinality(Listed) :
          prev[Order[n]] = IF n = 1 THEN Nil ELSE Order[n - 1]
    /\ \A c \in CachedFiles \ Listed : prev[c] = Nil /\ next[c] = Nil

(* The count matches the files that are open, also those opened again     *)
(* after a close left them on the list, and stays within the limit unless  *)
(* somebody is opening one; eviction always finds a file to close: every   *)
(* open file is on the list, and the one just opened is not its end.       *)
OpenedExact ==
    /\ opened = Cardinality({c \in CachedFiles : file[c]})
    /\ opened > MaxOpened => \E g \in Goroutines : pc[g] = "evict"
    /\ \A c \in CachedFiles : file[c] => c \in Listed
    /\ \A g \in Goroutines :
          pc[g] = "evict" => file[arg[g]] /\ (opened > MaxOpened => last # arg[g])

(* The pointers implement an order of use, with eviction at its old end.   *)
Lru == INSTANCE LruOrder
       WITH order <- Order, open <- {c \in CachedFiles : file[c]}
ImplementsLru == Lru!LruSpec

(* Every call returns, as long as there is room for one file per goroutine *)
(* and the other goroutines stop calling some time.                        *)
CallReturns == \A g \in Goroutines : pc[g] # "idle" ~> pc[g] = "idle"

(* filecache.go:38 "protected by mu" (of f): nobody changes f while a      *)
(* reader holds mu.                                                        *)
FileProtected ==
    [][\A c \in CachedFiles : readers[c] # {} => file'[c] = file[c]]_vars

=============================================================================
