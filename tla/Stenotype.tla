----------------------------- MODULE Stenotype -----------------------------
(***************************************************************************)
(* One capture thread of stenotype/stenotype.cc with everything it uses:   *)
(* RunThread drives the AF_PACKET ring (PacketRing) and the packet file    *)
(* writer (AioOutput), passes each file's Index to WriteIndexes through a  *)
(* ProducerConsumerQueue, and Main and the signal handler stop them.       *)
(* With --threads=n the n copies share nothing but run_threads.            *)
(*                                                                         *)
(* A block read from the ring carries its capture number from the ring     *)
(* into the index and, when the kernel really reads the memory, to disk.   *)
(***************************************************************************)
EXTENDS Integers, Sequences, FiniteSets

CONSTANTS
    Files, NoFile, MaxOps, MaxEvents,            \* as in AioOutput
    Failures,       \* as in AioOutput, and "index" for Index::Flush
    NumBlocks, MaxCaptures,                      \* as in PacketRing
    BlocksPerFile,  \* blocks_per_file
    NoWrite,        \* a ring block no PWrite holds
    InOrderIO       \* TRUE: the disk completes writes in submission order

ASSUME SlotsAssumption == MaxOps \in Nat \ {0} /\ MaxEvents \in Nat \ {0}
ASSUME RingAssumption == NumBlocks \in Nat \ {0} /\ MaxCaptures \in Nat
ASSUME FilesAssumption == NoFile \notin Files
ASSUME FailuresAssumption ==
    Failures \subseteq {"write", "submit", "open", "fallocate", "truncate",
                        "close", "index"}
ASSUME BlocksPerFileAssumption == BlocksPerFile \in Nat
ASSUME NoWriteAssumption == NoWrite \notin [file : Files, off : Nat]
ASSUME InOrderIOAssumption == InOrderIO \in BOOLEAN

VARIABLES
    current, files, offset, truncate, outstanding, inflight, completed,
    failed, batch, result, pc, dir, size, durable,
    ringOffset, pos, mu, status, cap, fill, captured, delivered, call,
    at,           \* where RunThread is
    running,      \* run_threads
    blockOffset,  \* block_offset
    block,        \* the ring block Block b holds, or NoBlock
    index,        \* the Index being filled: its file, and its entries
    owner,        \* the PWrite that holds each ring block
    disk,         \* what the packet files contain
    queue,        \* write_index
    closed,       \* write_index: closed_
    indexer,      \* where WriteIndexes is
    flushing,     \* the Index WriteIndexes is flushing
    idxDir,       \* what the index directory has of a file
    idxEntries,   \* the entries of the index file
    main          \* where Main is

outVars == <<current, files, offset, truncate, outstanding, inflight, completed,
             failed, batch, result, pc, dir, size, durable>>
ringVars == <<ringOffset, pos, mu, status, cap, fill, captured, delivered, call>>
threadVars == <<at, blockOffset, block, index, owner>>
indexerVars == <<indexer, flushing, idxDir, idxEntries>>
vars == <<outVars, ringVars, threadVars, running, disk, queue, closed,
          indexerVars, main>>

(* One block more than a file should get: the bound never hides a miss.    *)
Out == INSTANCE AioOutput
         WITH MaxBlocks <- BlocksPerFile + 1, Failures <- Failures \ {"index"}
Ring == INSTANCE PacketRing

NewIndex(f) == [file |-> f, entries |-> {}]

Init ==
    /\ Out!Init /\ Ring!RingInit
    /\ at = "start"
    /\ running = TRUE
    /\ blockOffset = 0
    /\ block = Ring!NoBlock
    /\ index = NewIndex(NoFile)
    /\ owner = [s \in Ring!Slots |-> NoWrite]
    /\ disk = {}
    /\ queue = <<>>
    /\ closed = FALSE
    /\ indexer = "get" /\ flushing = NewIndex(NoFile)
    /\ idxDir = [f \in Files |-> "absent"]
    /\ idxEntries = [f \in Files |-> {}]
    /\ main = "join"

Alive == pc # "aborted"

(***************************************************************************)
(* RunThread, from the first file to the loop.                             *)
(***************************************************************************)
Start ==
    /\ at = "start"
    /\ \E f \in Files : Out!Rotate(f) /\ index' = NewIndex(f)
    /\ at' = "loop"
    /\ UNCHANGED <<ringVars, blockOffset, block, owner, running, disk, queue,
                   closed, indexerVars, main>>

(* The loop condition, then CheckForCompletedOps(false).  remaining, the   *)
(* --count flag, reaching zero ends this loop just as the signal does.     *)
PollSkipped == /\ at = "loop" /\ running  \* mutant: no call per round
               /\ at' = "age"
               /\ UNCHANGED outVars
Poll ==
    /\ at = "loop" /\ running
    /\ Out!CheckStart
    /\ at' = "check"

LoopRound ==
    /\ Poll
    /\ UNCHANGED <<ringVars, blockOffset, block, index, owner, running, disk,
                   queue, closed, indexerVars, main>>

PollDone ==
    /\ at = "check" /\ Out!CheckReturn
    /\ at' = "age"
    /\ UNCHANGED <<ringVars, blockOffset, block, index, owner, running, disk,
                   queue, closed, indexerVars, main>>

(***************************************************************************)
(* Rotation, by size or by age.  The age needs a clock: it may be up at    *)
(* any round, as long as enough names stay free for the rotations by size  *)
(* (a bound of the model).                                                 *)
(***************************************************************************)
NamesLeft == Cardinality({f \in Files : dir[f] = "absent"})
AgeUp == NamesLeft > MaxCaptures \div BlocksPerFile

OffsetKept == blockOffset  \* mutant: block_offset not reset
OffsetReset == 0

RunsOver == blockOffset > BlocksPerFile  \* mutant: one block too many
FileFull == blockOffset = BlocksPerFile

RotateFile ==
    /\ at = "age"
    /\ FileFull \/ AgeUp
    /\ \E f \in Files : Out!Rotate(f)
    /\ blockOffset' = OffsetReset
    /\ at' = "put"
    /\ UNCHANGED <<ringVars, block, index, owner, running, disk, queue, closed,
                   indexerVars, main>>

KeepFile ==
    /\ at = "age"
    /\ ~FileFull
    /\ at' = "next"
    /\ UNCHANGED <<outVars, ringVars, blockOffset, block, index, owner, running,
                   disk, queue, closed, indexerVars, main>>

(* write_index->Put(index): CHECK(!closed_), push, and a fresh Index.      *)
PutIndex ==
    /\ at = "put" /\ ~closed
    /\ queue' = Append(queue, index)
    /\ index' = NewIndex(current)
    /\ at' = "next"
    /\ UNCHANGED <<outVars, ringVars, blockOffset, block, owner, running, disk,
                   closed, indexerVars, main>>

(***************************************************************************)
(* NextBlock, then the indexing of the block.                              *)
(***************************************************************************)
GetBlock ==
    /\ at = "next"
    /\ \/ (Ring!NextBlockEnter \/ Ring!ResetTo) /\ UNCHANGED <<at, block>>
       \/ Ring!NextBlockEmpty /\ at' = "loop" /\ UNCHANGED block
       \/ Ring!NextBlockGet /\ at' = "index" /\ block' = pos
    /\ UNCHANGED <<outVars, blockOffset, index, owner, running, disk, queue,
                   closed, indexerVars, main>>

IndexBlock ==
    /\ at = "index"
    /\ index' = [index EXCEPT !.entries =
                    @ \cup {[off |-> blockOffset, cap |-> cap[block]]}]
    /\ blockOffset' = blockOffset + 1
    /\ at' = "write"
    /\ UNCHANGED <<outVars, ringVars, block, owner, running, disk, queue,
                   closed, indexerVars, main>>

(***************************************************************************)
(* output.Write(&b): the PWrite takes the block over from b.               *)
(***************************************************************************)
WriteBlock ==
    /\ at = "write"
    /\ \/ (Out!WriteStart \/ Out!WaitForSlot \/ Out!SubmitFails)
          /\ UNCHANGED <<at, owner, block>>
       \/ /\ Out!Submit
          /\ owner' = [owner EXCEPT ![block] = Out!NextWrite]
          /\ block' = Ring!NoBlock
          /\ at' = "loop"
    /\ UNCHANGED <<ringVars, blockOffset, index, running, disk, queue, closed,
                   indexerVars, main>>

(* Inside any call: one event.  Deleting the PWrite gives its block back.  *)
HandleEvent ==
    /\ \E w \in batch, s \in Ring!Slots :
          /\ owner[s] = w
          /\ Out!HandleEvent(w)
          /\ Ring!Done(s)
          /\ owner' = [owner EXCEPT ![s] = NoWrite]
    /\ UNCHANGED <<at, blockOffset, block, index, running, disk, queue, closed,
                   indexerVars, main>>

(***************************************************************************)
(* After the loop: the last index, Flush, and the destructors.             *)
(***************************************************************************)
LeaveLoop ==
    /\ at = "loop" /\ ~running /\ pc = "idle"
    /\ at' = "finish"
    /\ UNCHANGED <<outVars, ringVars, blockOffset, block, index, owner, running,
                   disk, queue, closed, indexerVars, main>>

PutLastIndex ==
    /\ at = "finish" /\ ~closed
    /\ queue' = Append(queue, index)
    /\ at' = "flush"
    /\ UNCHANGED <<outVars, ringVars, blockOffset, block, index, owner, running,
                   disk, closed, indexerVars, main>>

Flush ==
    /\ at = "flush"
    /\ \/ (Out!FlushStart \/ Out!WaitForFlush) /\ UNCHANGED at
       \/ Out!FlushReturn /\ at' = "destroy"
    /\ UNCHANGED <<ringVars, blockOffset, block, index, owner, running, disk,
                   queue, closed, indexerVars, main>>

DestroyRing ==
    /\ at = "destroy"
    /\ \/ Ring!DestroyRing /\ UNCHANGED at
       \/ Ring!RingDestroyed /\ at' = "done"
    /\ UNCHANGED <<outVars, blockOffset, block, index, owner, running, disk,
                   queue, closed, indexerVars, main>>

(* An Error any of these calls returns ends the process (CHECK_SUCCESS).   *)
Abort ==
    /\ \/ Out!Abort
       \/ at \in {"start", "age"} /\ (Out!RotateCloseFails \/ Out!RotateOpenFails)
          /\ (at = "age" => FileFull \/ AgeUp)
    /\ UNCHANGED <<ringVars, threadVars, running, disk, queue, closed,
                   indexerVars, main>>

(***************************************************************************)
(* WriteIndexes: Index::Flush writes the dot-file, then renames it; its    *)
(* errors are only logged.                                                 *)
(***************************************************************************)
GetNullOnClose == closed  \* mutant: a closed queue is not drained
GetWaitsForValue == FALSE \* mutant: only an element ends the wait
GetNull == queue = <<>> /\ closed

GetIndex ==
    /\ indexer = "get" /\ Alive
    /\ \/ /\ GetNull
          /\ indexer' = "done"
          /\ UNCHANGED <<queue, flushing>>
       \/ /\ ~GetNull /\ queue # <<>>
          /\ flushing' = Head(queue)
          /\ queue' = Tail(queue)
          /\ indexer' = "flush"
    /\ UNCHANGED <<outVars, ringVars, threadVars, running, disk, closed,
                   idxDir, idxEntries, main>>

FlushIndex ==
    /\ indexer = "flush" /\ Alive
    /\ idxDir' = [idxDir EXCEPT ![flushing.file] = "hidden"]
    /\ \/ /\ idxEntries' = [idxEntries EXCEPT ![flushing.file] = flushing.entries]
          /\ indexer' = "rename"
       \/ /\ "index" \in Failures
          /\ indexer' = "get"
          /\ UNCHANGED idxEntries
    /\ UNCHANGED <<outVars, ringVars, threadVars, running, disk, queue, closed,
                   flushing, main>>

RenameIndex ==
    /\ indexer = "rename" /\ Alive
    /\ idxDir' = [idxDir EXCEPT ![flushing.file] = "published"]
    /\ indexer' = "get"
    /\ UNCHANGED <<outVars, ringVars, threadVars, running, disk, queue, closed,
                   flushing, idxEntries, main>>

(***************************************************************************)
(* Main joins RunThread, closes the queue and joins WriteIndexes.  So Put  *)
(* never meets a closed queue, which its CHECK(!closed_) would abort on.   *)
(***************************************************************************)
ThreadJoined == at = "done"

CloseQueue ==
    /\ main = "join" /\ Alive
    /\ ThreadJoined
    /\ closed' = TRUE
    /\ main' = "joinIndexer"
    /\ UNCHANGED <<outVars, ringVars, threadVars, running, disk, queue,
                   indexerVars>>

Exit ==
    /\ main = "joinIndexer" /\ Alive
    /\ indexer = "done"
    /\ main' = "exited"
    /\ UNCHANGED <<outVars, ringVars, threadVars, running, disk, queue, closed,
                   indexerVars>>

(* SIGINT or SIGTERM, handled in its own thread.                           *)
HandleSignals ==
    /\ running /\ Alive
    /\ running' = FALSE
    /\ UNCHANGED <<outVars, ringVars, threadVars, disk, queue, closed,
                   indexerVars, main>>

(***************************************************************************)
(* The kernel: the AF_PACKET ring and the AIO context.                     *)
(***************************************************************************)
KernelFill ==
    /\ Alive /\ call # "gone"
    /\ Ring!KernelFill
    /\ UNCHANGED <<outVars, threadVars, running, disk, queue, closed,
                   indexerVars, main>>

SlotOf(w) == CHOOSE s \in Ring!Slots : owner[s] = w

Oldest(w) == \A v \in inflight : cap[SlotOf(w)] <= cap[SlotOf(v)]

(* A completed write has the memory of its ring block on disk.             *)
KernelWrite ==
    /\ \E w \in inflight :
          /\ InOrderIO => Oldest(w)
          /\ \/ /\ Out!CompleteWrite(w)
                /\ disk' = disk \cup {[file |-> w.file, off |-> w.off,
                                       cap |-> cap[SlotOf(w)]]}
             \/ Out!FailWrite(w) /\ UNCHANGED disk
    /\ UNCHANGED <<ringVars, threadVars, running, queue, closed, indexerVars, main>>

RunThread ==
    /\ Alive
    /\ \/ Start \/ LoopRound \/ PollDone \/ RotateFile \/ KeepFile \/ PutIndex
       \/ GetBlock \/ IndexBlock \/ WriteBlock \/ HandleEvent \/ LeaveLoop
       \/ PutLastIndex \/ Flush \/ DestroyRing \/ Abort
WriteIndexes == GetIndex \/ FlushIndex \/ RenameIndex
Main == CloseQueue \/ Exit

Next == RunThread \/ WriteIndexes \/ Main \/ HandleSignals \/ KernelFill \/ KernelWrite

Spec == Init /\ [][Next]_vars

(***************************************************************************)
(* Threads are scheduled, a poll times out and the kernel ends each write; *)
(* packets and signals need not come.                                      *)
(***************************************************************************)
FairSpec == Spec /\ WF_vars(RunThread) /\ WF_vars(WriteIndexes)
            /\ WF_vars(Main) /\ WF_vars(KernelWrite)
-----------------------------------------------------------------------------
(* block_offset, counted by RunThread beside the offset of the file, stays *)
(* within the file through rotations by size and age, and with it every    *)
(* entry of an Index, wherever it is: times the block size it is below     *)
(* filesize_mb, for which the CHECK of index.cc:52 holds.                  *)
Within(ix) == \A e \in ix.entries : e.off < BlocksPerFile
OffsetsFit ==
    /\ blockOffset <= BlocksPerFile
    /\ Within(index) /\ Within(flushing)
    /\ \A i \in DOMAIN queue : Within(queue[i])

(* An index file has one entry per block of its packet file, each at the   *)
(* place the block is written to and of the packets that are written there:*)
(* whatever the rotations, the late completions and the reuse of the ring, *)
(* no reader is sent to another packet.                                    *)
IndexAccurate ==
    \A f \in Files : idxDir[f] = "published" =>
        /\ {e.off : e \in idxEntries[f]} = 0 .. offset[f] - 1
        /\ \A e \in idxEntries[f] :
              /\ \A d \in disk : d.file = f /\ d.off = e.off => d.cap = e.cap
              /\ \A s \in Ring!Slots :
                    owner[s] = [file |-> f, off |-> e.off] => cap[s] = e.cap

(* The memory of every write in flight is a ring block its PWrite holds;   *)
(* no two writes share one, and the ring never takes it back meanwhile.    *)
WriteHoldsBlock ==
    \A w \in inflight \cup completed \cup batch :
        \E s \in Ring!Slots :
            /\ owner[s] = w /\ mu[s] = "user"
            /\ \A t \in Ring!Slots : owner[t] = w => t = s

(* A process that exits without an error has every block it took from the  *)
(* ring on disk, in a visible file, and its index is visible and leads to  *)
(* it, or was written in vain: Index::Flush failed, which is only logged.  *)
CleanExit ==
    main = "exited" => \A n \in 1 .. delivered :
        \E d \in disk :
            /\ d.cap = n /\ dir[d.file] = "published"
            /\ \/ /\ idxDir[d.file] = "published"
                  /\ [off |-> d.off, cap |-> n] \in idxEntries[d.file]
               \/ idxDir[d.file] = "hidden" /\ "index" \in Failures

(* A file rotated away from gets its visible name, even when the interface *)
(* goes idle: the loop reaps completions whether or not packets come.      *)
RotatedPublished ==
    \A f \in Files :
        (f \in files /\ f # current /\ at # "flush") ~> (dir[f] = "published" \/ ~Alive)

(* After a signal the process exits or aborts, except in the one state     *)
(* where Flush waits for an event with no write outstanding.               *)
IdleFlush == pc = "flush" /\ files # {} /\ outstanding = {}
ShutdownEnds == ~running ~> (main = "exited" \/ ~Alive \/ IdleFlush)

(* Every index handed over is flushed: its file gets a visible index, or   *)
(* the process dies first.                                                 *)
IndexFlushed ==
    \A f \in Files :
        (\E i \in 1 .. Len(queue) : queue[i].file = f)
            ~> (idxDir[f] = "published" \/ ~Alive)

(* packets.h:161 "This will block at least kMinPollMillis and at most      *)
(* poll_millis": NextBlock returns.                                        *)
NextBlockReturns == call \in {"lock", "poll"} ~> call = "out"
=============================================================================
