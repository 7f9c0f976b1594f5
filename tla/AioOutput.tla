------------------------------ MODULE AioOutput ------------------------------
(***************************************************************************)
(* class Output of stenotype/aio.{h,cc}: the asynchronous writer of packet *)
(* files, with the kernel's AIO context and the packet directory it acts   *)
(* on.  One thread owns an Output; its callers are left free here (any     *)
(* legal sequence of Rotate, Write, CheckForCompletedOps(false) and        *)
(* Flush), and Stenotype.tla restricts them to what RunThread does.        *)
(*                                                                         *)
(* Data is counted in blocks: a PWrite is the pair of its file and its     *)
(* position in that file, in blocks.                                       *)
(***************************************************************************)
EXTENDS Integers, FiniteSets

CONSTANTS
    Files,      \* names a packet file can get (its creation time, in micros)
    NoFile,     \* current_ == NULL
    MaxOps,     \* max_ops_, the --aiops flag
    MaxEvents,  \* length of the events[] array: 4 in the code
    MaxBlocks,  \* bound on the blocks of one file (keeps TLC's runs finite)
    Failures    \* the system calls that may fail in this instance

ASSUME MaxOpsAssumption == MaxOps \in Nat \ {0}
ASSUME MaxEventsAssumption == MaxEvents \in Nat \ {0}
ASSUME MaxBlocksAssumption == MaxBlocks \in Nat
ASSUME NoFileAssumption == NoFile \notin Files
ASSUME FailuresAssumption ==
    Failures \subseteq {"write", "submit", "open", "fallocate", "truncate", "close"}

VARIABLES
    current,      \* current_
    files,        \* files_
    offset,       \* SingleFile::offset_, in blocks
    truncate,     \* SingleFile::truncate_, -1 until a close is requested
    outstanding,  \* the union of the outstanding_ sets: the live PWrites
    inflight,     \* PWrites the kernel is working on
    completed,    \* PWrites whose io_event waits to be fetched
    failed,       \* PWrites whose io_event says error, or fewer bytes
    batch,        \* PWrites in events[], fetched and not yet handled
    result,       \* the Error CheckForCompletedOps is accumulating
    pc,           \* the call in progress
    dir,          \* what the directory has of a file: its dot-name or its name
    size,         \* the length of the file on disk, in blocks
    durable       \* blocks that reached the disk (the files are O_DSYNC)

callVars == <<batch, result, pc>>
kernelVars == <<inflight, completed, failed, durable>>
vars == <<current, files, offset, truncate, outstanding, kernelVars,
          callVars, dir, size>>

Writes == [file : Files, off : Nat]
OfFile(S, f) == {w \in S : w.file = f}

(***************************************************************************)
(* Output::Outstanding sums over files_ only.  OutstandingOfCurrent is the *)
(* plausible mistake of counting one file's writes; like the other         *)
(* operators that precede a definition under "mutant" names, it is used    *)
(* only to show that a property notices the mistake.                       *)
(***************************************************************************)
OutstandingOfCurrent == Cardinality(OfFile(outstanding, current))
Outstanding == Cardinality({w \in outstanding : w.file \in files})

Init ==
    /\ current = NoFile
    /\ files = {}
    /\ offset = [f \in Files |-> 0]
    /\ truncate = [f \in Files |-> -1]
    /\ outstanding = {} /\ inflight = {} /\ completed = {}
    /\ failed = {} /\ batch = {} /\ durable = {}
    /\ result = "ok"
    /\ pc = "idle"
    /\ dir = [f \in Files |-> "absent"]
    /\ size = [f \in Files |-> 0]

(***************************************************************************)
(* SingleFile::Close on a file whose truncate_ is t: the ftruncate error   *)
(* is only logged, the close or rename error is returned.                  *)
(***************************************************************************)
TruncateForgotten(f, t) == {size[f]}  \* mutant: no ftruncate
Truncated(f, t) == {t} \cup (IF "truncate" \in Failures THEN {size[f]} ELSE {})

Close(f, t) ==
    /\ dir' = [dir EXCEPT ![f] = "published"]
    /\ \E n \in Truncated(f, t) : size' = [size EXCEPT ![f] = n]

CloseFails(f, t) ==
    /\ "close" \in Failures
    /\ \E n \in Truncated(f, t) : size' = [size EXCEPT ![f] = n]
    /\ UNCHANGED dir

ClosableWhileBusy(f, outs, trunc) == trunc[f] >= 0  \* mutant
Closable(f, outs, trunc) == OfFile(outs, f) = {} /\ trunc[f] >= 0

(***************************************************************************)
(* Output::Rotate.  The old file is closed here when nothing of it is      *)
(* outstanding, and otherwise by the completion of its last write.  The    *)
(* new name is new: it is the clock, in microseconds.                      *)
(***************************************************************************)
CloseNotRequested == truncate  \* mutant: no RequestClose
Requested == IF current = NoFile THEN truncate
             ELSE [truncate EXCEPT ![current] = offset[current]]

ClosesNow == current # NoFile /\ Closable(current, outstanding, Requested)

(* The length fallocate leaves: initial_size, here one block more than a   *)
(* file can get, or nothing when it fails (logged) or is not asked for.    *)
Preallocated ==
    {MaxBlocks + 1} \cup (IF "fallocate" \in Failures THEN {0} ELSE {})

OpenFile(f) ==
    /\ dir[f] = "absent"
    /\ current' = f
    /\ \E n \in Preallocated :
          IF ClosesNow
          THEN /\ \E m \in Truncated(current, offset[current]) :
                     size' = [size EXCEPT ![current] = m, ![f] = n]
               /\ dir' = [dir EXCEPT ![current] = "published", ![f] = "hidden"]
               /\ files' = (files \ {current}) \cup {f}
          ELSE /\ size' = [size EXCEPT ![f] = n]
               /\ dir' = [dir EXCEPT ![f] = "hidden"]
               /\ files' = files \cup {f}

Rotate(f) ==
    /\ pc = "idle"
    /\ truncate' = Requested
    /\ OpenFile(f)
    /\ UNCHANGED <<offset, outstanding, kernelVars, callVars>>

(* Rotate returns an Error, which every caller turns into an abort: the    *)
(* close of the old file failed, or the open of the new one.               *)
RotateCloseFails ==
    /\ pc = "idle" /\ ClosesNow
    /\ truncate' = Requested
    /\ CloseFails(current, offset[current])
    /\ pc' = "aborted"
    /\ UNCHANGED <<current, files, offset, outstanding, kernelVars, batch, result>>

RotateOpenFails ==
    /\ pc = "idle" /\ "open" \in Failures
    /\ truncate' = Requested
    /\ current' = NoFile
    /\ IF ClosesNow
       THEN Close(current, offset[current]) /\ files' = files \ {current}
       ELSE UNCHANGED <<dir, size, files>>
    /\ pc' = "aborted"
    /\ UNCHANGED <<offset, outstanding, kernelVars, batch, result>>

(***************************************************************************)
(* Output::Write: it waits for a completion while max_ops_ writes are      *)
(* outstanding, then submits.                                              *)
(***************************************************************************)
WriteStart ==
    /\ pc = "idle" /\ current # NoFile
    /\ offset[current] < MaxBlocks
    /\ pc' = "write"
    /\ UNCHANGED <<current, files, offset, truncate, outstanding, kernelVars,
                   batch, result, dir, size>>

PrecedingWrite == [file |-> current, off |-> offset[current] - 1]  \* mutant
NextWrite == [file |-> current, off |-> offset[current]]

(* SingleFile::Write up to io_submit: the PWrite is recorded first.        *)
Prepare ==
    /\ pc = "write" /\ batch = {} /\ result = "ok"
    /\ Outstanding < MaxOps
    /\ offset' = [offset EXCEPT ![current] = @ + 1]
    /\ outstanding' = outstanding \cup {NextWrite}

Submit ==
    /\ Prepare
    /\ inflight' = inflight \cup {NextWrite}
    /\ pc' = "idle"
    /\ UNCHANGED <<current, files, truncate, completed, failed, durable,
                   batch, result, dir, size>>

(* io_submit still fails after a second of retries: CHECK_SUCCESS aborts.  *)
SubmitFails ==
    /\ "submit" \in Failures
    /\ Prepare
    /\ pc' = "aborted"
    /\ UNCHANGED <<current, files, truncate, kernelVars, batch, result, dir, size>>

(***************************************************************************)
(* Output::CheckForCompletedOps.  io_getevents returns what has completed, *)
(* up to the length of events[]; called with block set it first waits for  *)
(* one event.  The events are then handled one by one.                     *)
(***************************************************************************)
GetEvents ==
    /\ \E evs \in SUBSET completed :
          /\ Cardinality(evs) = IF Cardinality(completed) < MaxEvents
                                THEN Cardinality(completed) ELSE MaxEvents
          /\ batch' = evs
          /\ completed' = completed \ evs
    /\ UNCHANGED <<current, files, offset, truncate, outstanding, inflight,
                   failed, durable, result, dir, size>>

(* What io_getevents waits for: min_nr is 1, not the length of events[].   *)
FullBatchReady == Cardinality(completed) >= MaxEvents  \* mutant
EventReady == completed # {}

CheckStart == pc = "idle" /\ pc' = "check" /\ GetEvents

WaitForSlot ==
    /\ pc = "write" /\ batch = {} /\ result = "ok"
    /\ Outstanding >= MaxOps
    /\ EventReady
    /\ GetEvents /\ UNCHANGED pc

(* REPLACE_IF_ERROR, and the mutant that keeps the last outcome only.      *)
LastOutcome(initial, replacement) == replacement
Replaced(initial, replacement) ==
    IF replacement = "ok" THEN initial ELSE replacement

DoneError(w) == IF w \in failed THEN "error" ELSE "ok"

(* PWrite::Done, then MaybeCloseFile: an error does not stop the loop.     *)
HandleEvent(w) ==
    LET f == w.file
        res == Replaced(result, DoneError(w))
    IN  /\ pc # "aborted"
        /\ w \in batch
        /\ batch' = batch \ {w}
        /\ outstanding' = outstanding \ {w}
        /\ IF Closable(f, outstanding', truncate)
           THEN \/ /\ Close(f, truncate[f])
                   /\ files' = files \ {f}
                   /\ result' = Replaced(res, "ok")
                \/ /\ CloseFails(f, truncate[f])
                   /\ result' = Replaced(res, "error")
                   /\ UNCHANGED files
           ELSE result' = Replaced(res, "ok") /\ UNCHANGED <<dir, size, files>>
        /\ UNCHANGED <<current, offset, truncate, kernelVars, pc>>

(* The call returns.  Every caller checks the Error and aborts on one.     *)
CheckReturn ==
    /\ pc = "check" /\ batch = {} /\ result = "ok"
    /\ pc' = "idle"
    /\ UNCHANGED <<current, files, offset, truncate, outstanding, kernelVars,
                   batch, result, dir, size>>

Abort ==
    /\ pc # "aborted" /\ batch = {} /\ result = "error"
    /\ pc' = "aborted"
    /\ UNCHANGED <<current, files, offset, truncate, outstanding, kernelVars,
                   batch, result, dir, size>>

(***************************************************************************)
(* Output::Flush, also run by the destructor.                              *)
(***************************************************************************)
FlushStart ==
    /\ pc = "idle"
    /\ truncate' = Requested
    /\ current' = NoFile
    /\ pc' = "flush"
    /\ UNCHANGED <<files, offset, outstanding, kernelVars, batch, result, dir, size>>

WaitForFlush ==
    /\ pc = "flush" /\ batch = {} /\ result = "ok"
    /\ files # {}
    /\ EventReady
    /\ GetEvents /\ UNCHANGED pc

FlushReturn ==
    /\ pc = "flush" /\ batch = {} /\ result = "ok"
    /\ files = {}
    /\ pc' = "flushed"
    /\ UNCHANGED <<current, files, offset, truncate, outstanding, kernelVars,
                   batch, result, dir, size>>

(***************************************************************************)
(* The kernel: writes complete in any order, each one whole or not.        *)
(***************************************************************************)
CompleteWrite(w) ==
    /\ w \in inflight
    /\ inflight' = inflight \ {w}
    /\ completed' = completed \cup {w}
    /\ durable' = durable \cup {w}
    /\ size' = [size EXCEPT ![w.file] = IF @ > w.off THEN @ ELSE w.off + 1]
    /\ UNCHANGED <<current, files, offset, truncate, outstanding, failed,
                   callVars, dir>>

FailWrite(w) ==
    /\ "write" \in Failures
    /\ w \in inflight
    /\ inflight' = inflight \ {w}
    /\ completed' = completed \cup {w}
    /\ failed' = failed \cup {w}
    /\ UNCHANGED <<current, files, offset, truncate, outstanding, durable,
                   callVars, dir, size>>

Call == (\E f \in Files : Rotate(f)) \/ RotateCloseFails \/ RotateOpenFails
        \/ WriteStart \/ CheckStart \/ FlushStart

InCall == Submit \/ SubmitFails \/ WaitForSlot \/ CheckReturn
          \/ WaitForFlush \/ FlushReturn \/ Abort
          \/ \E w \in batch : HandleEvent(w)

Kernel == \E w \in inflight : CompleteWrite(w) \/ FailWrite(w)

Next == Call \/ InCall \/ Kernel

Spec == Init /\ [][Next]_vars

(***************************************************************************)
(* A call that has begun keeps running, and the kernel ends every write;   *)
(* nothing obliges the owner to make another call.                         *)
(***************************************************************************)
FairSpec == Spec /\ WF_vars(InCall) /\ WF_vars(Kernel)

-----------------------------------------------------------------------------
(***************************************************************************)
(* Properties.                                                             *)
(***************************************************************************)
TypeOK ==
    /\ current \in Files \cup {NoFile}
    /\ files \subseteq Files
    /\ offset \in [Files -> Nat]
    /\ truncate \in [Files -> Nat \cup {-1}]
    /\ outstanding \subseteq Writes
    /\ inflight \subseteq Writes /\ completed \subseteq Writes
    /\ failed \subseteq Writes /\ batch \subseteq Writes
    /\ durable \subseteq Writes
    /\ result \in {"ok", "error"}
    /\ pc \in {"idle", "check", "write", "flush", "flushed", "aborted"}
    /\ dir \in [Files -> {"absent", "hidden", "published"}]
    /\ size \in [Files -> Nat]

(* Every write the kernel still has, or whose event is still to be handled,*)
(* belongs to a PWrite and a SingleFile that are not deleted: neither a    *)
(* close on Rotate nor one inside an event batch frees a file too early.   *)
LiveWrites ==
    \A w \in inflight \cup completed \cup batch :
        w \in outstanding /\ w.file \in files

(* The AIO context, set up for max_ops_ events, is never asked to hold     *)
(* more: the writes of files already rotated away from count too.          *)
SlotBound == Cardinality(inflight \cup completed) <= MaxOps

(* A file that got its visible name has every block that was accepted for  *)
(* it on disk, or the owner already holds the error that will abort it,    *)
(* whatever other events its batch holds.  (DESIGN.md:151 says less        *)
(* carefully that the rename "only occurs after all data has been          *)
(* successfully flushed to disk": the close does not look at the error.)   *)
PublishedIntact ==
    \A f \in Files : dir[f] = "published" =>
        \/ \A k \in 0 .. offset[f] - 1 : [file |-> f, off |-> k] \in durable
        \/ result = "error"

(* Unless ftruncate fails, a visible file is exactly its blocks: the       *)
(* preallocated tail is gone, and no block past the cut was lost.          *)
PublishedLength ==
    "truncate" \notin Failures =>
        \A f \in Files : dir[f] = "published" => size[f] = offset[f]

(* A visible file never changes again: no late write, truncation or rename *)
(* reaches it.                                                             *)
PublishedForever ==
    [][\A f \in Files : dir[f] = "published" =>
          /\ dir'[f] = "published" /\ size'[f] = size[f]
          /\ OfFile(durable', f) = OfFile(durable, f)]_vars

(* A Write blocked for a slot returns, or the process aborts: every wait   *)
(* in io_getevents has a write behind it that will end.                    *)
WriteReturns == pc = "write" ~> pc # "write"

(* A Flush whose every file still has a write outstanding closes them all  *)
(* and returns (or aborts on an error).                                    *)
BusyFlushReturns ==
    (pc = "flush" /\ \A f \in files : OfFile(outstanding, f) # {})
        ~> pc \in {"flushed", "aborted"}

(* aio.h:54 "Close and flush all files.": a Flush ends, whatever the       *)
(* current file had outstanding.  The code waits for one more event.       *)
FlushReturns == pc = "flush" ~> pc \in {"flushed", "aborted"}
=============================================================================
