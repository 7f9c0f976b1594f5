------------------------------- MODULE Thread -------------------------------
(***************************************************************************)
(* thread/thread.go: stenographer's view of the two directories of one     *)
(* stenotype thread.  SyncFiles, called on a timer, tracks the files that  *)
(* have an index and deletes the oldest ones when there are too many or    *)
(* the disk is full; queries read the tracked files meanwhile, under the   *)
(* locks of blockfile/blockfile.go.  A file name is its creation time.     *)
(***************************************************************************)
EXTENDS Integers, FiniteSets, FiniteSetsExt

CONSTANTS
    Names,              \* the file names
    Size,               \* BlockFile.size of each packet file
    MaxDirectoryFiles,  \* conf.MaxDirectoryFiles
    Queries,            \* goroutines that call Lookup
    Debugged            \* files the debug handlers are asked for

ASSUME NamesAssumption == Names \subseteq Nat /\ IsFiniteSet(Names)
ASSUME SizeAssumption == Size \in [Names -> Nat]
ASSUME MaxDirectoryFilesAssumption == MaxDirectoryFiles \in Nat \ {0}
ASSUME DebuggedAssumption == Debugged \subseteq Names

VARIABLES
    pkt, idx,  \* what the packet and index directories have of each file
    files,     \* keys of t.files, whose BlockFiles are open
    sync,      \* how far SyncFiles is; from "track" on it holds t.mu
    listing,   \* names it listed and did not look at yet
    doomed,    \* names deleteOldestThreadFiles has still to untrack
    removals,  \* goroutines in tryToDeleteFile: directory and name
    todo,      \* BlockFiles whose Lookup the query has yet to start
    lookups,   \* Lookups that hold their BlockFile's mu shared
    debug,     \* the file whose debug handler holds t.mu shared, if any
    dumps      \* files whose mu an AllPackets goroutine holds shared

(* A "dead" file is a hidden one whose stenotype died, see Env.            *)
Status == {"absent", "hidden", "visible", "dead", "removed"}

dirVars == <<pkt, idx>>
syncVars == <<files, sync, listing, doomed>>
queryVars == <<todo, lookups>>
debugVars == <<debug, dumps>>
vars == <<dirVars, syncVars, removals, queryVars, debugVars>>

Init ==
    /\ pkt = [n \in Names |-> "absent"]
    /\ idx = [n \in Names |-> "absent"]
    /\ files = {}
    /\ sync = "idle"
    /\ listing = {} /\ doomed = {} /\ removals = {}
    /\ todo = [q \in Queries |-> {}]
    /\ lookups = {}
    /\ debug = {} /\ dumps = {}

Change(dir, n, from, to) == dir[n] = from /\ dir' = [dir EXCEPT ![n] = to]

(***************************************************************************)
(* stenotype, as far as the directories show it: a new packet file is      *)
(* hidden, its index comes later, and either may become visible first.     *)
(***************************************************************************)
RotateTo(n) == /\ \A m \in Names : m < n => pkt[m] # "absent"
               /\ Change(pkt, n, "absent", "hidden") /\ UNCHANGED idx
PublishPackets(n) == Change(pkt, n, "hidden", "visible") /\ UNCHANGED idx
WriteIndex(n) == /\ pkt[n] \in {"hidden", "visible"}
                 /\ Change(idx, n, "absent", "hidden") /\ UNCHANGED pkt
PublishIndex(n) == Change(idx, n, "hidden", "visible") /\ UNCHANGED pkt

Stenotype ==
    /\ \E n \in Names : RotateTo(n) \/ PublishPackets(n) \/ WriteIndex(n)
                        \/ PublishIndex(n)
    /\ UNCHANGED <<syncVars, removals, queryVars, debugVars>>

(***************************************************************************)
(* SyncFiles asks for t.mu, which keeps new readers of it away, and gets it *)
(* when the last one is gone.  syncFilesWithDisk lists the index directory *)
(* (or the listing fails), then looks at its names in order.               *)
(***************************************************************************)
NewerThanTracked == {n \in Names : \A m \in files : m < n}  \* mutant
Listed == {n \in Names : idx[n] = "visible"}

SyncFiles ==
    /\ sync = "idle"
    /\ sync' = "lock"
    /\ UNCHANGED <<dirVars, files, listing, doomed, removals, queryVars, debugVars>>

ListPacketFilesOnDisk ==
    /\ sync = "lock" /\ debug = {}
    /\ sync' = "track"
    /\ listing' = Listed \/ listing' = {}
    /\ UNCHANGED <<dirVars, files, doomed, removals, queryVars, debugVars>>

(* trackNewFile opens the index and stats the packet file; an error is     *)
(* logged, and the name comes up again in the next listing.                *)
TrackNewFile ==
    /\ sync = "track" /\ listing # {}
    /\ LET n == Min(listing) IN
          /\ listing' = listing \ {n}
          /\ files' = IF idx[n] = "visible" /\ pkt[n] = "visible"
                      THEN files \cup {n} ELSE files
    /\ UNCHANGED <<dirVars, sync, doomed, removals, queryVars, debugVars>>

(***************************************************************************)
(* cleanUpOnLowDiskSpace.                                                  *)
(***************************************************************************)
CleanUpOnLowDiskSpace ==
    /\ sync = "track" /\ listing = {}
    /\ sync' = IF files = {} THEN "idle" ELSE "clean"
    /\ UNCHANGED <<dirVars, files, listing, doomed, removals, queryVars, debugVars>>

Newest(k) ==  \* mutant: the wrong end
    {n \in files : Cardinality({m \in files : m > n}) < k}
Oldest(k) == {n \in files : Cardinality({m \in files : m < n}) < k}

BothHalves(S) == {"pkt", "idx"} \X S

(* deleteOldestThreadFiles starts two goroutines per file, then untracks.  *)
DeleteOldestThreadFiles(k) ==
    /\ doomed' = Oldest(k)
    /\ removals' = removals \cup BothHalves(doomed')
    /\ sync' = "untrack"
    /\ UNCHANGED <<dirVars, files, listing, queryVars, debugVars>>

TooManyBy1 == Cardinality(files) > MaxDirectoryFiles + 1  \* mutant
TooMany == Cardinality(files) > MaxDirectoryFiles

DeleteAboveLimit ==
    /\ sync = "clean" /\ TooMany
    /\ DeleteOldestThreadFiles(Cardinality(files) - MaxDirectoryFiles)

(* statfs: enough space or an error, which both end the clean-up, or not.  *)
DiskSufficient ==
    /\ sync = "clean" /\ ~TooMany
    /\ sync' = "idle"
    /\ UNCHANGED <<dirVars, files, listing, doomed, removals, queryVars, debugVars>>

DiskFull ==
    /\ sync = "clean" /\ ~TooMany
    /\ sync' = "prune"
    /\ UNCHANGED <<dirVars, files, listing, doomed, removals, queryVars, debugVars>>

(* pruneOldestThreadFiles counts oldest files until their sizes exceed     *)
(* that of the newest, or there are no more; without any it returns.       *)
SizeOf(S) == MapThenSumSet(LAMBDA n : Size[n], S)

PruneOne == 1  \* mutant: one file at a time
PruneCount ==
    LET Exceeds(k) == SizeOf(Oldest(k)) > Size[Max(files)]
    IN  Min({k \in 0 .. Cardinality(files) : Exceeds(k)} \cup {Cardinality(files)})

PruneOldestThreadFiles ==
    /\ sync = "prune"
    /\ IF files = {}
       THEN sync' = "clean"
            /\ UNCHANGED <<dirVars, files, listing, doomed, removals, queryVars, debugVars>>
       ELSE DeleteOldestThreadFiles(PruneCount)

(***************************************************************************)
(* untrackFile, for one file after the other.  BlockFile.Close closes the  *)
(* done channel and then waits until no Lookup holds mu; meanwhile no new  *)
(* Lookup gets it.  One that starts later finds b.i nil and sends nothing. *)
(***************************************************************************)
Closing(n) == sync = "untrack" /\ doomed # {} /\ n = Min(doomed)

NotWaited(n) == TRUE  \* mutant: Close without mu.Lock()
Unused(n) == n \notin dumps /\ \A q \in Queries : <<q, n>> \notin lookups

RemainingAll(n) == doomed  \* mutant
Remaining(n) == doomed \ {n}

UntrackFile ==
    /\ \E n \in doomed :
          /\ Closing(n) /\ Unused(n)
          /\ files' = files \ {n}
          /\ todo' = [q \in Queries |-> todo[q] \ {n}]
          /\ doomed' = Remaining(n)
    /\ UNCHANGED <<dirVars, sync, listing, removals, lookups, debugVars>>

AllUntracked ==
    /\ sync = "untrack" /\ doomed = {}
    /\ sync' = "clean"
    /\ UNCHANGED <<dirVars, files, listing, doomed, removals, queryVars, debugVars>>

(* The goroutines remove what is there, in any order and at any time.      *)
TryToDeleteFile ==
    /\ \E r \in removals :
          /\ removals' = removals \ {r}
          /\ IF r[1] = "pkt"
             THEN pkt' = [pkt EXCEPT ![r[2]] = "removed"] /\ UNCHANGED idx
             ELSE idx' = [idx EXCEPT ![r[2]] = "removed"] /\ UNCHANGED pkt
    /\ UNCHANGED <<syncVars, queryVars, debugVars>>

(***************************************************************************)
(* Thread.Lookup takes a snapshot of t.files under t.mu; a goroutine per   *)
(* file then runs BlockFile.Lookup.  A Lookup ends when its client has     *)
(* taken its packets or gives up, or when it sees that done is closed.     *)
(***************************************************************************)
Lookup(q) ==
    /\ sync = "idle"
    /\ todo[q] = {} /\ \A n \in Names : <<q, n>> \notin lookups
    /\ todo' = [todo EXCEPT ![q] = files]
    /\ UNCHANGED <<dirVars, syncVars, removals, lookups, debugVars>>

BlockFileLookup(q, n) ==
    /\ n \in todo[q] /\ ~Closing(n)
    /\ todo' = [todo EXCEPT ![q] = @ \ {n}]
    /\ lookups' = lookups \cup {<<q, n>>}
    /\ UNCHANGED <<dirVars, syncVars, removals, debugVars>>

LookupEnds(q, n) ==
    /\ <<q, n>> \in lookups
    /\ lookups' = lookups \ {<<q, n>>}
    /\ UNCHANGED <<dirVars, syncVars, removals, todo, debugVars>>

Unnoticed(n) == FALSE  \* mutant: the loops do not look at done
DoneSeen(n) == Closing(n)
LookupStopped(q, n) == DoneSeen(n) /\ LookupEnds(q, n)

(***************************************************************************)
(* The debug handlers hold t.mu shared until their client has read what    *)
(* they write, or is gone.  /packets also starts AllPackets, which holds   *)
(* the mu of the file until its channel is read or discarded to the end    *)
(* and does not look at done.                                              *)
(***************************************************************************)
DebugHandler(n) ==
    /\ sync = "idle" /\ debug = {} /\ n \in Debugged \cap files
    /\ debug' = {n}
    /\ dumps' \in {dumps, dumps \cup {n}}
    /\ UNCHANGED <<dirVars, syncVars, removals, queryVars>>

DebugHandlerReturns ==
    /\ debug # {}
    /\ debug' = {}
    /\ UNCHANGED <<dirVars, syncVars, removals, queryVars, dumps>>

AllPacketsEnds(n) ==
    /\ n \in dumps
    /\ dumps' = dumps \ {n}
    /\ UNCHANGED <<dirVars, syncVars, removals, queryVars, debug>>

Discarded == dumps \ debug
DiscardEnds == \E n \in Discarded : AllPacketsEnds(n)

Debugging ==
    \/ \E n \in Names : DebugHandler(n) \/ AllPacketsEnds(n)
    \/ DebugHandlerReturns

Syncing ==
    \/ ListPacketFilesOnDisk \/ TrackNewFile \/ CleanUpOnLowDiskSpace \/ DeleteAboveLimit
    \/ DiskSufficient \/ DiskFull \/ PruneOldestThreadFiles \/ UntrackFile \/ AllUntracked

Querying == \E q \in Queries :
    \/ Lookup(q)
    \/ \E n \in Names : BlockFileLookup(q, n) \/ LookupEnds(q, n) \/ LookupStopped(q, n)

Next == Stenotype \/ SyncFiles \/ Syncing \/ TryToDeleteFile \/ Querying \/ Debugging

Spec == Init /\ [][Next]_vars

(***************************************************************************)
(* The timer fires, SyncFiles and the goroutines run, a Lookup looks at    *)
(* done, what is discarded is read to its end; clients need not read.      *)
(* DiskFrees adds that statfs shows enough space some time, if it is asked *)
(* again and again, and that not every listing fails.                      *)
(***************************************************************************)
Fairness ==
    /\ WF_vars(SyncFiles) /\ WF_vars(Syncing) /\ WF_vars(TryToDeleteFile)
    /\ \A q \in Queries : WF_vars(\E n \in Names : LookupStopped(q, n))
    /\ WF_vars(DiscardEnds)
DiskFrees ==
    SF_vars(DiskSufficient) /\ SF_vars(ListPacketFilesOnDisk /\ listing' = Listed)

FairSpec == Spec /\ Fairness /\ DiskFrees
-----------------------------------------------------------------------------
(* Types, and what untrackFile's log.Fatalf relies on: it is only asked    *)
(* for files that are tracked.                                             *)
TypeOK ==
    /\ pkt \in [Names -> Status] /\ idx \in [Names -> Status]
    /\ sync \in {"idle", "lock", "track", "clean", "prune", "untrack"}
    /\ files \subseteq Names /\ listing \subseteq Names
    /\ doomed \subseteq files
    /\ removals \subseteq {"pkt", "idx"} \X Names
    /\ lookups \subseteq Queries \X Names
    /\ debug \subseteq Names /\ dumps \subseteq Names

(* No Lookup, debug handler or AllPackets uses a BlockFile whose index and *)
(* file are closed, whenever it started: b.i and b.f are dereferenced all  *)
(* through it, after t.mu was given back.                                  *)
LookupsOpen ==
    /\ debug \cup dumps \subseteq files
    /\ \A q \in Queries :
        /\ todo[q] \subseteq files
        /\ \A n \in Names : <<q, n>> \in lookups => n \in files

(* When SyncFiles returns, the limit on the number of files holds, however *)
(* many appeared and whatever statfs said.                                 *)
WithinLimit == sync = "idle" => Cardinality(files) <= MaxDirectoryFiles

(* Only the oldest files are given up: while SyncFiles untracks, every     *)
(* file that stays is newer than every one that is gone or going.          *)
OldestGoFirst ==
    [][\A n \in files \ files', m \in files' : n < m]_vars

(* thread.go:221-224: a pruning deletes enough of the oldest files to free *)
(* at least the size of the newest file, and exceeds it by no more than    *)
(* the size of the last file it deletes.                                   *)
PruneFreesEnough ==
    [][sync = "prune" /\ sync' = "untrack" =>
          LET newest == Size[Max(files)]
              freed == SizeOf(doomed')
          IN  freed >= newest /\ freed <= newest + Size[Max(doomed')]]_vars

(* SyncFiles returns although clients of queries may never read their      *)
(* packets again and a debug client may have left in the middle of a dump, *)
(* if the disk has space in the end.  Only a debug client that stays and   *)
(* reads no further can keep it, and so every query of the thread, waiting.*)
DebugClientStays == <>[](debug # {})
SyncReturns == DebugClientStays \/ []<>(sync = "idle")

(* SyncFiles catches up again and again: no file with both halves visible  *)
(* stays untracked, whichever half was published last and whatever newer   *)
(* files are tracked already.  (New files come to an end in the model.)    *)
Unfound == {n \in Names : pkt[n] = "visible" /\ idx[n] = "visible"} \ files
FilesFound == DebugClientStays \/ []<>(Unfound = {})

=============================================================================
