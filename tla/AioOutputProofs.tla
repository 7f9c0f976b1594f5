-------------------------- MODULE AioOutputProofs --------------------------
(***************************************************************************)
(* Proofs about AioOutput for any number of files, AIO slots and blocks,   *)
(* any set of failing system calls and any length of events[].             *)
(***************************************************************************)
EXTENDS AioOutput, TLAPS, FiniteSetTheorems

(* A Write in progress has a file: Rotate and Flush, the calls that change *)
(* current_, only begin when no call is in progress.                       *)
WriteHasFile == pc = "write" => current # NoFile

LEMMA WriteHasFileStep ==
    ASSUME WriteHasFile, [Next]_vars
    PROVE  WriteHasFile'
<1> USE DEF WriteHasFile, callVars, kernelVars
<1>1. CASE Call
  BY <1>1, NoFileAssumption
  DEF Call, Rotate, OpenFile, RotateCloseFails, RotateOpenFails, WriteStart,
      CheckStart, GetEvents, FlushStart
<1>2. CASE InCall
  BY <1>2
  DEF InCall, Submit, SubmitFails, WaitForSlot, CheckReturn, WaitForFlush,
      FlushReturn, Abort, HandleEvent, GetEvents
<1>3. CASE Kernel
  BY <1>3 DEF Kernel, CompleteWrite, FailWrite
<1>4. CASE UNCHANGED vars
  BY <1>4 DEF vars
<1> QED BY <1>1, <1>2, <1>3, <1>4 DEF Next

(* Every variable keeps its type.                                          *)
LEMMA TypeStep ==
    ASSUME TypeOK, WriteHasFile, [Next]_vars
    PROVE  TypeOK'
<1> USE DEF TypeOK, callVars, kernelVars
<1>1. ASSUME NEW f \in Files, Rotate(f) PROVE TypeOK'
  <2>1. truncate' \in [Files -> Nat \cup {-1}]
    BY <1>1 DEF Rotate, Requested
  <2>2. /\ current' \in Files
        /\ files' \subseteq Files
        /\ dir' \in [Files -> {"absent", "hidden", "published"}]
    BY <1>1 DEF Rotate, OpenFile
  <2>3. size' \in [Files -> Nat]
    BY <1>1, MaxBlocksAssumption
    DEF Rotate, OpenFile, Preallocated, Truncated, ClosesNow
  <2> QED BY <1>1, <2>1, <2>2, <2>3 DEF Rotate
<1>2. CASE RotateCloseFails
  BY <1>2 DEF RotateCloseFails, ClosesNow, Requested, CloseFails, Truncated
<1>3. CASE RotateOpenFails
  BY <1>3 DEF RotateOpenFails, ClosesNow, Requested, Close, Truncated
<1>4. CASE WriteStart
  BY <1>4 DEF WriteStart
<1>5. CASE CheckStart
  BY <1>5 DEF CheckStart, GetEvents
<1>6. CASE FlushStart
  BY <1>6 DEF FlushStart, Requested
<1>7. ASSUME Prepare PROVE /\ offset' \in [Files -> Nat]
                           /\ NextWrite \in Writes
                           /\ outstanding' \subseteq Writes
  <2>1. current \in Files
    BY <1>7 DEF Prepare, WriteHasFile
  <2> QED BY <1>7, <2>1 DEF Prepare, NextWrite, Writes
<1>8. CASE Submit
  BY <1>7, <1>8 DEF Submit
<1>9. CASE SubmitFails
  BY <1>7, <1>9 DEF SubmitFails
<1>10. CASE WaitForSlot \/ WaitForFlush
  BY <1>10 DEF WaitForSlot, WaitForFlush, GetEvents
<1>11. CASE CheckReturn \/ Abort \/ FlushReturn
  BY <1>11 DEF CheckReturn, Abort, FlushReturn
<1>12. ASSUME NEW w \in batch, HandleEvent(w) PROVE TypeOK'
  BY <1>12 DEF HandleEvent, Close, CloseFails, Truncated, Replaced, DoneError,
               Closable, Writes
<1>13. ASSUME NEW w \in inflight, CompleteWrite(w) PROVE TypeOK'
  BY <1>13 DEF CompleteWrite, Writes
<1>14. ASSUME NEW w \in inflight, FailWrite(w) PROVE TypeOK'
  BY <1>14 DEF FailWrite
<1>15. CASE UNCHANGED vars
  BY <1>15 DEF vars
<1> QED
  BY <1>1, <1>2, <1>3, <1>4, <1>5, <1>6, <1>8, <1>9, <1>10, <1>11, <1>12,
     <1>13, <1>14, <1>15 DEF Next, Call, InCall, Kernel

(* Type correctness of Output: no step of any call, completion or failure  *)
(* leaves the types.                                                       *)
THEOREM TypeCorrect == Spec => []TypeOK
<1>1. Init => TypeOK /\ WriteHasFile
  BY DEF Init, TypeOK, WriteHasFile
<1>2. TypeOK /\ WriteHasFile /\ [Next]_vars => (TypeOK /\ WriteHasFile)'
  BY TypeStep, WriteHasFileStep
<1> QED BY <1>1, <1>2, PTL DEF Spec

-----------------------------------------------------------------------------
(***************************************************************************)
(* The inductive invariant.                                                *)
(***************************************************************************)

(* The sets of writes at the kernel, in the event ring and in events[] are *)
(* disjoint, and hold live PWrites only; between calls events[] is empty.  *)
Accounted ==
    /\ pc = "idle" => batch = {}
    /\ inflight \cap completed = {}
    /\ inflight \cap batch = {}
    /\ completed \cap batch = {}
    /\ inflight \cup completed \cup batch \subseteq outstanding

(* A live PWrite is a block its file has accepted, and its file is live.   *)
OwnedByFile ==
    \A w \in outstanding : w.file \in files /\ w.off < offset[w.file]

(* A live file still has its dot-name.                                     *)
Hidden == \A f \in files : dir[f] = "hidden"

(* The current file is live and its close was not requested, unless a      *)
(* failed Rotate has just ended the process.                               *)
CurrentOpen ==
    current # NoFile =>
        /\ current \in files
        /\ pc # "aborted" => truncate[current] = -1

(* No close was requested of a file that does not exist yet.               *)
Fresh == \A f \in Files : dir[f] = "absent" => truncate[f] = -1

(* Every accepted block is on disk, failed, or still on its way.           *)
Ledger ==
    /\ \A w \in durable \cup failed : w.off < offset[w.file]
    /\ completed \cup batch \subseteq durable \cup failed
    /\ \A f \in Files, k \in Nat :
          k < offset[f] => [file |-> f, off |-> k] \in durable \cup failed \cup outstanding

(* The error of a failed write is never lost: its event still waits, or    *)
(* the Error the owner will see holds it.                                  *)
ErrorKept == \A w \in failed : w \in completed \cup batch \/ result = "error"

(* Never more than max_ops_ PWrites.                                       *)
Bounded == IsFiniteSet(outstanding) /\ Cardinality(outstanding) <= MaxOps

IInv == /\ TypeOK /\ WriteHasFile /\ Accounted /\ OwnedByFile /\ Hidden
        /\ CurrentOpen /\ Fresh /\ Ledger /\ ErrorKept /\ Bounded

LEMMA InitInv == Init => IInv
<1> SUFFICES ASSUME Init PROVE IInv
  OBVIOUS
<1>1. TypeOK /\ WriteHasFile
  BY DEF Init, TypeOK, WriteHasFile
<1>2. Bounded
  BY MaxOpsAssumption, FS_EmptySet DEF Init, Bounded
<1>3. Accounted /\ OwnedByFile /\ Hidden /\ CurrentOpen /\ Fresh /\ Ledger /\ ErrorKept
  BY DEF Init, Accounted, OwnedByFile, Hidden, CurrentOpen, Fresh, Ledger, ErrorKept
<1> QED BY <1>1, <1>2, <1>3 DEF IInv

(* What Outstanding() sums over files_ is every live PWrite.               *)
LEMMA OutstandingIsAll ==
    ASSUME OwnedByFile
    PROVE  Outstanding = Cardinality(outstanding)
<1>1. {w \in outstanding : w.file \in files} = outstanding
  BY DEF OwnedByFile
<1> QED BY <1>1 DEF Outstanding

(* RequestClose changes truncate_ of the current file, and of no other.    *)
LEMMA RequestedIs ==
    ASSUME TypeOK
    PROVE  \A g \in Files :
              Requested[g] = IF g = current THEN offset[g] ELSE truncate[g]
<1>1. CASE current = NoFile
  BY <1>1, NoFileAssumption DEF Requested
<1>2. CASE current \in Files
  BY <1>2, NoFileAssumption DEF Requested, TypeOK
<1> QED BY <1>1, <1>2 DEF TypeOK

(* Rotate, in its three outcomes: the old file is dropped only when none   *)
(* of its writes is outstanding, the new one is a file nobody knows yet.   *)
LEMMA RotateInv ==
    ASSUME IInv, NEW f \in Files, Rotate(f)
    PROVE  IInv'
<1> USE DEF IInv, callVars, kernelVars
<1>1. TypeOK' /\ WriteHasFile'
  BY TypeStep, WriteHasFileStep DEF Next, Call
<1>2. /\ dir[f] = "absent" /\ current' = f
      /\ UNCHANGED <<pc, offset, outstanding, inflight, completed, failed,
                     durable, batch, result>>
      /\ truncate' = Requested
  BY DEF Rotate, OpenFile
<1>3. f \notin files /\ f # NoFile /\ current # f
  BY <1>2, NoFileAssumption DEF Hidden, CurrentOpen
<1>4. /\ dir' \in [Files -> {"absent", "hidden", "published"}]
      /\ \/ /\ ClosesNow
            /\ files' = (files \ {current}) \cup {f}
            /\ dir' = [dir EXCEPT ![current] = "published", ![f] = "hidden"]
         \/ /\ files' = files \cup {f}
            /\ dir' = [dir EXCEPT ![f] = "hidden"]
  BY <1>1 DEF Rotate, OpenFile, TypeOK
<1>5. ClosesNow => current \in files /\ \A w \in outstanding : w.file # current
  BY DEF ClosesNow, Closable, OfFile, CurrentOpen
<1>6. OwnedByFile'
  BY <1>2, <1>4, <1>5 DEF OwnedByFile
<1>7. Hidden'
  BY <1>3, <1>4, <1>5 DEF Hidden, TypeOK
<1>8. \A g \in Files :
         truncate'[g] = IF g = current THEN offset[g] ELSE truncate[g]
  BY <1>2, RequestedIs
<1>9. CurrentOpen'
  BY <1>2, <1>3, <1>4, <1>8 DEF CurrentOpen, Fresh
<1>10. Fresh'
  BY <1>3, <1>4, <1>5, <1>8, NoFileAssumption DEF Fresh, Hidden, CurrentOpen, TypeOK
<1>11. Accounted' /\ Ledger' /\ ErrorKept' /\ Bounded'
  BY <1>2 DEF Accounted, Ledger, ErrorKept, Bounded
<1> QED BY <1>1, <1>6, <1>7, <1>9, <1>10, <1>11

LEMMA RotateFailsInv ==
    ASSUME IInv, RotateCloseFails \/ RotateOpenFails
    PROVE  IInv'
<1> USE DEF IInv, callVars, kernelVars
<1>1. TypeOK' /\ WriteHasFile'
  BY TypeStep, WriteHasFileStep DEF Next, Call
<1>2. /\ pc' = "aborted"
      /\ UNCHANGED <<offset, outstanding, inflight, completed, failed,
                     durable, batch, result>>
      /\ truncate' = Requested
  BY DEF RotateCloseFails, RotateOpenFails
<1>3. ClosesNow => current \in files /\ \A w \in outstanding : w.file # current
  BY DEF ClosesNow, Closable, OfFile, CurrentOpen
<1>4. \/ current' = current /\ files' = files /\ dir' = dir
      \/ /\ current' = NoFile /\ files' = files /\ dir' = dir
      \/ /\ current' = NoFile /\ ClosesNow
         /\ files' = files \ {current}
         /\ dir' = [dir EXCEPT ![current] = "published"]
  BY DEF RotateCloseFails, RotateOpenFails, Close, CloseFails
<1>5. OwnedByFile' /\ Hidden'
  BY <1>2, <1>3, <1>4 DEF OwnedByFile, Hidden, TypeOK
<1>6. CurrentOpen'
  BY <1>2, <1>4 DEF CurrentOpen
<1>7. \A g \in Files :
         truncate'[g] = IF g = current THEN offset[g] ELSE truncate[g]
  BY <1>2, RequestedIs
<1>8. Fresh'
  BY <1>3, <1>4, <1>7, NoFileAssumption DEF Fresh, Hidden, CurrentOpen, TypeOK
<1>9. Accounted' /\ Ledger' /\ ErrorKept' /\ Bounded'
  BY <1>2 DEF Accounted, Ledger, ErrorKept, Bounded
<1> QED BY <1>1, <1>5, <1>6, <1>8, <1>9

LEMMA FlushStartInv ==
    ASSUME IInv, FlushStart
    PROVE  IInv'
<1> USE DEF IInv, callVars, kernelVars
<1>1. TypeOK' /\ WriteHasFile'
  BY TypeStep, WriteHasFileStep DEF Next, Call
<1>2. /\ current' = NoFile
      /\ UNCHANGED <<files, dir, offset, outstanding, inflight, completed,
                     failed, durable, batch, result>>
      /\ \A g \in Files :
            truncate'[g] = IF g = current THEN offset[g] ELSE truncate[g]
      /\ pc' = "flush"
  BY RequestedIs DEF FlushStart
<1>3. Accounted' /\ OwnedByFile' /\ Hidden' /\ CurrentOpen' /\ Ledger' /\ ErrorKept' /\ Bounded'
  BY <1>2 DEF Accounted, OwnedByFile, Hidden, CurrentOpen, Ledger, ErrorKept, Bounded
<1>4. Fresh'
  BY <1>2, NoFileAssumption DEF Fresh, Hidden, CurrentOpen
<1> QED BY <1>1, <1>3, <1>4

(* Write: the new PWrite is the block just past the file's last, so it is  *)
(* none of the live ones, and there was a slot for it.                     *)
LEMMA PrepareInv ==
    ASSUME IInv, Submit \/ SubmitFails
    PROVE  IInv'
<1> USE DEF IInv, callVars, kernelVars
<1>1. TypeOK' /\ WriteHasFile'
  BY TypeStep, WriteHasFileStep DEF Next, InCall
<1>2. /\ Prepare
      /\ UNCHANGED <<current, files, truncate, dir, completed, failed, durable,
                     batch, result>>
      /\ inflight' = inflight \/ inflight' = inflight \cup {NextWrite}
      /\ batch = {}
  BY DEF Submit, SubmitFails, Prepare
<1>3. current \in files /\ current \in Files /\ truncate[current] = -1
  BY <1>2 DEF Prepare, WriteHasFile, CurrentOpen, TypeOK
<1>4. /\ NextWrite \in Writes
      /\ NextWrite.file = current /\ NextWrite.off = offset[current]
      /\ offset[current] \in Nat
      /\ outstanding' = outstanding \cup {NextWrite}
      /\ offset' = [g \in Files |-> IF g = current THEN offset[g] + 1 ELSE offset[g]]
  BY <1>2, <1>3 DEF Prepare, NextWrite, Writes, TypeOK
<1>5. NextWrite \notin outstanding
  BY <1>4 DEF OwnedByFile
<1>6. Accounted'
  BY <1>2, <1>4, <1>5 DEF Accounted
<1>7. OwnedByFile'
  BY <1>2, <1>3, <1>4 DEF OwnedByFile, TypeOK, Writes
<1>8. Hidden' /\ Fresh' /\ ErrorKept'
  BY <1>2 DEF Hidden, Fresh, ErrorKept
<1>9. CurrentOpen'
  BY <1>2, <1>3 DEF CurrentOpen
<1>10. Ledger'
  <2>1. \A w \in (durable \cup failed)' : w.off < offset'[w.file]
    BY <1>2, <1>4 DEF Ledger, TypeOK, Writes
  <2>2. ASSUME NEW f \in Files, NEW k \in Nat, k < offset'[f]
        PROVE  [file |-> f, off |-> k] \in (durable \cup failed \cup outstanding)'
    <3>1. CASE k < offset[f]
      BY <1>2, <1>4, <3>1 DEF Ledger
    <3>2. CASE ~(k < offset[f])
      <4>1. f = current /\ k = offset[current]
        BY <1>4, <2>2, <3>2 DEF TypeOK
      <4> QED BY <1>4, <4>1 DEF NextWrite
    <3> QED BY <3>1, <3>2
  <2> QED BY <1>2, <2>1, <2>2 DEF Ledger
<1>11. Bounded'
  <2>1. Cardinality(outstanding) < MaxOps
    BY <1>2, OutstandingIsAll DEF Prepare
  <2>2. /\ IsFiniteSet(outstanding')
        /\ Cardinality(outstanding') = Cardinality(outstanding) + 1
    BY <1>4, <1>5, FS_AddElement DEF Bounded
  <2>3. Cardinality(outstanding) \in Nat
    BY FS_CardinalityType DEF Bounded
  <2> QED BY <2>1, <2>2, <2>3, MaxOpsAssumption DEF Bounded
<1> QED BY <1>1, <1>6, <1>7, <1>8, <1>9, <1>10, <1>11

(* Fetching events moves writes from the event ring to events[].           *)
LEMMA GetEventsInv ==
    ASSUME IInv, CheckStart \/ WaitForSlot \/ WaitForFlush
    PROVE  IInv'
<1> USE DEF IInv, callVars, kernelVars
<1>1. TypeOK' /\ WriteHasFile'
  BY TypeStep, WriteHasFileStep DEF Next, Call, InCall
<1>2. /\ pc # "aborted" /\ pc' # "idle" /\ pc' # "aborted"
      /\ batch = {}
      /\ UNCHANGED <<current, files, offset, truncate, outstanding, inflight,
                     failed, durable, result, dir>>
      /\ batch' \subseteq completed
      /\ completed' = completed \ batch'
  BY DEF CheckStart, WaitForSlot, WaitForFlush, GetEvents, Accounted
<1>3. OwnedByFile' /\ Hidden' /\ Fresh' /\ Bounded'
  BY <1>2 DEF OwnedByFile, Hidden, Fresh, Bounded
<1>4. CurrentOpen'
  BY <1>2 DEF CurrentOpen
<1>5. Accounted' /\ Ledger' /\ ErrorKept'
  BY <1>2 DEF Accounted, Ledger, ErrorKept
<1> QED BY <1>1, <1>3, <1>4, <1>5

(* One event: the PWrite goes, and with the last one of a file that is to  *)
(* be closed, so does the file.                                            *)
LEMMA HandleEventInv ==
    ASSUME IInv, NEW w \in batch, HandleEvent(w)
    PROVE  IInv'
<1> USE DEF IInv, callVars, kernelVars
<1>1. TypeOK' /\ WriteHasFile'
  BY TypeStep, WriteHasFileStep DEF Next, InCall
<1>2. /\ pc # "aborted" /\ pc' = pc
      /\ batch' = batch \ {w}
      /\ outstanding' = outstanding \ {w}
      /\ UNCHANGED <<current, offset, truncate, inflight, completed, failed, durable>>
  BY DEF HandleEvent
<1>3. /\ w \in outstanding /\ w \in Writes
      /\ w.file \in files /\ w.file \in Files
  BY DEF Accounted, OwnedByFile, TypeOK, Writes
<1>4. \/ files' = files /\ dir' = dir
      \/ /\ files' = files \ {w.file}
         /\ dir' = [dir EXCEPT ![w.file] = "published"]
         /\ \A v \in outstanding' : v.file # w.file
         /\ truncate[w.file] >= 0
  BY DEF HandleEvent, Closable, OfFile, Close, CloseFails
<1>5. OwnedByFile'
  BY <1>2, <1>4 DEF OwnedByFile
<1>6. Hidden' /\ Fresh'
  BY <1>2, <1>3, <1>4 DEF Hidden, Fresh, TypeOK
<1>7. CurrentOpen'
  BY <1>2, <1>3, <1>4 DEF CurrentOpen
<1>8. Accounted'
  BY <1>2 DEF Accounted
<1>9. Ledger'
  BY <1>2 DEF Ledger
<1>10. ErrorKept'
  <2>1. result = "error" \/ w \in failed => result' = "error"
    BY DEF HandleEvent, Replaced, DoneError
  <2> QED BY <1>2, <2>1 DEF ErrorKept
<1>11. Bounded'
  <2>1. IsFiniteSet(outstanding) /\ Cardinality(outstanding) <= MaxOps
    BY DEF Bounded
  <2>2. /\ IsFiniteSet(outstanding')
        /\ Cardinality(outstanding') <= Cardinality(outstanding)
    BY <1>2, <2>1, FS_Subset
  <2>3. Cardinality(outstanding) \in Nat /\ Cardinality(outstanding') \in Nat
    BY <2>1, <2>2, FS_CardinalityType
  <2> QED BY <2>1, <2>2, <2>3, MaxOpsAssumption DEF Bounded
<1> QED BY <1>1, <1>5, <1>6, <1>7, <1>8, <1>9, <1>10, <1>11

(* Returning from a call changes nothing but pc.                           *)
LEMMA ReturnInv ==
    ASSUME IInv, WriteStart \/ CheckReturn \/ FlushReturn \/ Abort
    PROVE  IInv'
<1> USE DEF IInv, callVars, kernelVars
<1>1. TypeOK' /\ WriteHasFile'
  BY TypeStep, WriteHasFileStep DEF Next, Call, InCall
<1>2. /\ batch = {} \/ pc' # "idle"
      /\ pc # "aborted"
      /\ UNCHANGED <<current, files, offset, truncate, outstanding, inflight,
                     completed, failed, durable, batch, result, dir>>
  BY DEF WriteStart, CheckReturn, FlushReturn, Abort
<1>3. OwnedByFile' /\ Hidden' /\ Fresh' /\ Bounded' /\ Ledger' /\ ErrorKept'
  BY <1>2 DEF OwnedByFile, Hidden, Fresh, Bounded, Ledger, ErrorKept
<1>4. CurrentOpen' /\ Accounted'
  BY <1>2 DEF CurrentOpen, Accounted
<1> QED BY <1>1, <1>3, <1>4

(* The kernel ends a write: it becomes an event, on disk or failed.        *)
LEMMA KernelInv ==
    ASSUME IInv, NEW w \in inflight, CompleteWrite(w) \/ FailWrite(w)
    PROVE  IInv'
<1> USE DEF IInv, callVars, kernelVars
<1>1. TypeOK' /\ WriteHasFile'
  BY TypeStep, WriteHasFileStep DEF Next, Kernel
<1>2. /\ inflight' = inflight \ {w}
      /\ completed' = completed \cup {w}
      /\ \/ durable' = durable \cup {w} /\ failed' = failed
         \/ durable' = durable /\ failed' = failed \cup {w}
      /\ UNCHANGED <<current, files, offset, truncate, outstanding, batch,
                     result, pc, dir>>
  BY DEF CompleteWrite, FailWrite
<1>3. w \in outstanding /\ w.off < offset[w.file]
  BY DEF Accounted, OwnedByFile
<1>4. OwnedByFile' /\ Hidden' /\ Fresh' /\ CurrentOpen' /\ Bounded'
  BY <1>2 DEF OwnedByFile, Hidden, Fresh, CurrentOpen, Bounded
<1>5. Accounted'
  BY <1>2 DEF Accounted
<1>6. Ledger'
  BY <1>2, <1>3 DEF Ledger
<1>7. ErrorKept'
  BY <1>2 DEF ErrorKept
<1> QED BY <1>1, <1>4, <1>5, <1>6, <1>7

LEMMA StutterInv ==
    ASSUME IInv, UNCHANGED vars
    PROVE  IInv'
BY DEF vars, callVars, kernelVars, IInv, TypeOK, WriteHasFile, Accounted,
       OwnedByFile, Hidden, CurrentOpen, Fresh, Ledger, ErrorKept, Bounded

(* The invariant holds of every instance of Output.                        *)
THEOREM Invariant == Spec => []IInv
<1>1. IInv /\ [Next]_vars => IInv'
  <2> SUFFICES ASSUME IInv, [Next]_vars PROVE IInv'
    OBVIOUS
  <2>1. CASE Call
    BY <2>1, RotateInv, RotateFailsInv, ReturnInv, GetEventsInv, FlushStartInv DEF Call
  <2>2. CASE InCall
    BY <2>2, PrepareInv, GetEventsInv, ReturnInv, HandleEventInv DEF InCall
  <2>3. CASE Kernel
    BY <2>3, KernelInv DEF Kernel
  <2>4. CASE UNCHANGED vars
    BY <2>4, StutterInv
  <2> QED BY <2>1, <2>2, <2>3, <2>4 DEF Next
<1> QED BY <1>1, InitInv, PTL DEF Spec

-----------------------------------------------------------------------------
(***************************************************************************)
(* What the runs check, for every instance.                                *)
(***************************************************************************)

(* No PWrite and no SingleFile is freed while the kernel or an event still *)
(* refers to it.                                                           *)
THEOREM LiveWritesHold == Spec => []LiveWrites
<1>1. IInv => LiveWrites
  BY DEF IInv, Accounted, OwnedByFile, LiveWrites
<1> QED BY <1>1, Invariant, PTL

(* The AIO context set up for max_ops_ events never has more to hold.      *)
THEOREM SlotBoundHolds == Spec => []SlotBound
<1>1. IInv => SlotBound
  <2> SUFFICES ASSUME IInv PROVE SlotBound
    OBVIOUS
  <2>1. IsFiniteSet(outstanding) /\ Cardinality(outstanding) <= MaxOps
    BY DEF IInv, Bounded
  <2>2. inflight \cup completed \in SUBSET outstanding
    BY DEF IInv, Accounted
  <2>3. /\ IsFiniteSet(inflight \cup completed)
        /\ Cardinality(inflight \cup completed) <= Cardinality(outstanding)
    BY <2>1, <2>2, FS_Subset
  <2>4. /\ Cardinality(outstanding) \in Nat
        /\ Cardinality(inflight \cup completed) \in Nat
    BY <2>1, <2>3, FS_CardinalityType
  <2> QED BY <2>1, <2>3, <2>4, MaxOpsAssumption DEF SlotBound
<1> QED BY <1>1, Invariant, PTL

(* A file that got its visible name has all its blocks on disk, or the     *)
(* error that aborts the process is already recorded.                      *)
THEOREM PublishedIntactHolds == Spec => []PublishedIntact
<1>1. IInv => PublishedIntact
  <2> SUFFICES ASSUME IInv, NEW f \in Files, dir[f] = "published", result # "error",
                      NEW k \in 0 .. offset[f] - 1
               PROVE  [file |-> f, off |-> k] \in durable
    BY DEF PublishedIntact
  <2>1. f \notin files
    BY DEF IInv, Hidden
  <2>2. [file |-> f, off |-> k] \notin outstanding
    BY <2>1 DEF IInv, OwnedByFile
  <2>3. k \in Nat /\ k < offset[f]
    BY DEF IInv, TypeOK
  <2>4. [file |-> f, off |-> k] \in durable \cup failed
    BY <2>2, <2>3 DEF IInv, Ledger
  <2>5. [file |-> f, off |-> k] \notin failed
    BY <2>2 DEF IInv, ErrorKept, Accounted
  <2> QED BY <2>4, <2>5
<1> QED BY <1>1, Invariant, PTL

(* Nothing changes a file any more once it has its visible name.           *)
THEOREM PublishedForeverHolds == Spec => PublishedForever
<1> DEFINE Kept(f) == /\ dir'[f] = "published" /\ size'[f] = size[f]
                      /\ OfFile(durable', f) = OfFile(durable, f)
<1>1. ASSUME IInv, [Next]_vars, NEW f \in Files, dir[f] = "published"
      PROVE  Kept(f)
  <2> USE <1>1 DEF callVars, kernelVars
  <2>1. f \notin files /\ f # current
    BY NoFileAssumption DEF IInv, Hidden, CurrentOpen
  <2>2. dir \in [Files -> {"absent", "hidden", "published"}] /\ size \in [Files -> Nat]
    BY DEF IInv, TypeOK
  <2>3. ASSUME NEW g \in Files, Rotate(g) PROVE Kept(f)
    BY <2>1, <2>2, <2>3 DEF Rotate, OpenFile, OfFile
  <2>4. CASE RotateCloseFails \/ RotateOpenFails
    BY <2>1, <2>2, <2>4 DEF RotateCloseFails, RotateOpenFails, Close, CloseFails, OfFile
  <2>5. CASE WriteStart \/ CheckStart \/ FlushStart
    BY <2>5 DEF WriteStart, CheckStart, FlushStart, GetEvents, OfFile
  <2>6. CASE Submit \/ SubmitFails \/ CheckReturn \/ FlushReturn \/ Abort
    BY <2>6 DEF Submit, SubmitFails, CheckReturn, FlushReturn, Abort, OfFile
  <2>7. CASE WaitForSlot \/ WaitForFlush
    BY <2>7 DEF WaitForSlot, WaitForFlush, GetEvents, OfFile
  <2>8. ASSUME NEW w \in batch, HandleEvent(w) PROVE Kept(f)
    <3>1. w.file # f
      BY <2>1 DEF IInv, Accounted, OwnedByFile
    <3> QED BY <2>2, <2>8, <3>1 DEF HandleEvent, Close, CloseFails, OfFile
  <2>9. ASSUME NEW w \in inflight, CompleteWrite(w) \/ FailWrite(w) PROVE Kept(f)
    <3>1. w.file # f
      BY <2>1 DEF IInv, Accounted, OwnedByFile
    <3> QED BY <2>2, <2>9, <3>1 DEF CompleteWrite, FailWrite, OfFile
  <2>10. CASE UNCHANGED vars
    BY <2>10 DEF vars, OfFile
  <2> QED BY <2>3, <2>4, <2>5, <2>6, <2>7, <2>8, <2>9, <2>10
          DEF Next, Call, InCall, Kernel
<1>2. IInv /\ [Next]_vars =>
        [\A f \in Files : dir[f] = "published" => Kept(f)]_vars
  BY <1>1
<1> QED BY <1>2, Invariant, PTL DEF Spec, PublishedForever
(* A requested length is the whole file: nothing is accepted after the     *)
(* request, so the cut never loses a block.                                *)
CutAtEnd == \A f \in Files : truncate[f] # -1 => truncate[f] = offset[f]

LEMMA CutAtEndStep ==
    ASSUME IInv, CutAtEnd, [Next]_vars
    PROVE  CutAtEnd'
<1> USE DEF callVars, kernelVars
<1>1. ASSUME truncate' = Requested, UNCHANGED offset PROVE CutAtEnd'
  <2>1. \A g \in Files :
           truncate'[g] = IF g = current THEN offset[g] ELSE truncate[g]
    BY <1>1, RequestedIs DEF IInv
  <2> QED BY <1>1, <2>1 DEF CutAtEnd
<1>2. CASE Call
  <2>1. ASSUME UNCHANGED <<truncate, offset>> PROVE CutAtEnd'
    BY <2>1 DEF CutAtEnd
  <2> QED
    BY <1>1, <1>2, <2>1
    DEF Call, Rotate, RotateCloseFails, RotateOpenFails, WriteStart, CheckStart,
        GetEvents, FlushStart
<1>3. CASE Submit \/ SubmitFails
  <2>1. Prepare /\ UNCHANGED truncate
    BY <1>3 DEF Submit, SubmitFails, Prepare
  <2>2. current \in Files /\ truncate[current] = -1
    BY <2>1 DEF IInv, Prepare, WriteHasFile, CurrentOpen, TypeOK
  <2>3. \A g \in Files : g # current => offset'[g] = offset[g]
    BY <2>1 DEF Prepare, IInv, TypeOK
  <2> QED BY <2>1, <2>2, <2>3 DEF CutAtEnd
<1>4. CASE UNCHANGED <<truncate, offset>>
  BY <1>4 DEF CutAtEnd
<1> QED
  BY <1>2, <1>3, <1>4
  DEF Next, InCall, Kernel, WaitForSlot, WaitForFlush, GetEvents, HandleEvent,
      CheckReturn, FlushReturn, Abort, CompleteWrite, FailWrite, vars

(* The files that get their visible name in a step get their exact length  *)
(* with it, and those that have it are left alone.                         *)
LEMMA PublishedLengthStep ==
    ASSUME IInv, CutAtEnd, PublishedLength, [Next]_vars
    PROVE  PublishedLength'
<1> SUFFICES ASSUME "truncate" \notin Failures,
                    NEW f \in Files, dir'[f] = "published"
             PROVE  size'[f] = offset'[f]
  BY DEF PublishedLength
<1> USE DEF callVars, kernelVars
<1>1. \A g \in Files, t \in Int : Truncated(g, t) = {t}
  BY DEF Truncated
<1>2. /\ dir \in [Files -> {"absent", "hidden", "published"}]
      /\ size \in [Files -> Nat] /\ offset \in [Files -> Nat]
      /\ truncate \in [Files -> Nat \cup {-1}]
  BY DEF IInv, TypeOK
<1>3. dir[f] = "published" => size[f] = offset[f] /\ f \notin files /\ f # current
  BY NoFileAssumption DEF PublishedLength, IInv, Hidden, CurrentOpen
<1>4. ASSUME NEW g \in Files, Rotate(g) PROVE size'[f] = offset'[f]
  <2>1. dir[g] = "absent" /\ UNCHANGED offset
    BY <1>4 DEF Rotate, OpenFile
  <2>2. f # g
    BY <1>2, <1>4 DEF Rotate, OpenFile
  <2>3. CASE ClosesNow
    <3>1. current \in Files /\ offset[current] \in Int
      BY <1>2, <2>3 DEF ClosesNow, IInv, TypeOK
    <3>2. \E n \in Preallocated :
             size' = [size EXCEPT ![current] = offset[current], ![g] = n]
      BY <1>1, <1>4, <2>3, <3>1 DEF Rotate, OpenFile
    <3>3. dir' = [dir EXCEPT ![current] = "published", ![g] = "hidden"]
      BY <1>4, <2>3 DEF Rotate, OpenFile
    <3>4. CASE f = current
      BY <1>2, <2>1, <2>2, <3>2, <3>4
    <3>5. CASE f # current
      BY <1>2, <1>3, <2>1, <2>2, <3>2, <3>3, <3>5
    <3> QED BY <3>4, <3>5
  <2>4. CASE ~ClosesNow
    BY <1>2, <1>3, <1>4, <2>1, <2>2, <2>4 DEF Rotate, OpenFile
  <2> QED BY <2>3, <2>4
<1>5. CASE RotateCloseFails
  <2>1. UNCHANGED <<dir, offset>>
    BY <1>5 DEF RotateCloseFails, CloseFails
  <2>2. \E n : size' = [size EXCEPT ![current] = n]
    BY <1>5 DEF RotateCloseFails, CloseFails
  <2> QED BY <1>2, <1>3, <2>1, <2>2
<1>6. CASE RotateOpenFails
  <2>1. CASE ClosesNow
    <3>1. current \in Files /\ offset[current] \in Int
      BY <1>2, <2>1 DEF ClosesNow, IInv, TypeOK
    <3>2. /\ size' = [size EXCEPT ![current] = offset[current]]
          /\ dir' = [dir EXCEPT ![current] = "published"]
          /\ UNCHANGED offset
      BY <1>1, <1>6, <2>1, <3>1 DEF RotateOpenFails, Close
    <3> QED BY <1>2, <1>3, <3>1, <3>2
  <2>2. CASE ~ClosesNow
    BY <1>3, <1>6, <2>2 DEF RotateOpenFails
  <2> QED BY <2>1, <2>2
<1>7. CASE Submit \/ SubmitFails
  <2>1. Prepare /\ UNCHANGED <<dir, size>>
    BY <1>7 DEF Submit, SubmitFails, Prepare
  <2> QED BY <1>2, <1>3, <2>1 DEF Prepare
<1>8. ASSUME NEW w \in batch, HandleEvent(w) PROVE size'[f] = offset'[f]
  <2>1. w.file \in Files /\ UNCHANGED offset
    BY <1>8 DEF HandleEvent, IInv, TypeOK, Writes
  <2>2. w.file \in files
    BY <1>8 DEF IInv, Accounted, OwnedByFile
  <2>3. CASE UNCHANGED <<dir, size>>
    BY <1>3, <2>1, <2>3
  <2>4. CASE Closable(w.file, outstanding', truncate) /\ Close(w.file, truncate[w.file])
    <3>1. truncate[w.file] \in Int /\ truncate[w.file] = offset[w.file]
      BY <1>2, <2>1, <2>4 DEF Closable, CutAtEnd
    <3>2. Truncated(w.file, truncate[w.file]) = {offset[w.file]}
      BY <1>1, <2>1, <3>1
    <3>3. /\ size' = [size EXCEPT ![w.file] = offset[w.file]]
          /\ dir' = [dir EXCEPT ![w.file] = "published"]
      BY <2>4, <3>2 DEF Close
    <3> QED BY <1>2, <1>3, <2>1, <3>3
  <2>5. CASE CloseFails(w.file, truncate[w.file])
    <3>1. UNCHANGED dir /\ \E n : size' = [size EXCEPT ![w.file] = n]
      BY <2>5 DEF CloseFails
    <3> QED BY <1>2, <1>3, <2>1, <2>2, <3>1
  <2> QED BY <1>8, <2>3, <2>4, <2>5 DEF HandleEvent
<1>9. ASSUME NEW w \in inflight, CompleteWrite(w) PROVE size'[f] = offset'[f]
  <2>1. w.file \in files /\ UNCHANGED <<dir, offset>>
    BY <1>9 DEF CompleteWrite, IInv, Accounted, OwnedByFile
  <2>2. \E n : size' = [size EXCEPT ![w.file] = n]
    BY <1>9 DEF CompleteWrite
  <2> QED BY <1>2, <1>3, <2>1, <2>2
<1>10. CASE UNCHANGED <<dir, size, offset>>
  BY <1>3, <1>10
<1> QED
  BY <1>4, <1>5, <1>6, <1>7, <1>8, <1>9, <1>10
  DEF Next, Call, InCall, Kernel, WriteStart, CheckStart, FlushStart, WaitForSlot,
      WaitForFlush, GetEvents, CheckReturn, FlushReturn, Abort, CompleteWrite,
      FailWrite, vars

(* Unless ftruncate fails, a visible file is exactly its blocks.           *)
THEOREM PublishedLengthHolds == Spec => []PublishedLength
<1>1. Init => CutAtEnd /\ PublishedLength
  BY DEF Init, CutAtEnd, PublishedLength
<1>2. IInv /\ CutAtEnd /\ PublishedLength /\ [Next]_vars
        => (CutAtEnd /\ PublishedLength)'
  BY CutAtEndStep, PublishedLengthStep
<1> QED BY <1>1, <1>2, Invariant, PTL DEF Spec
=============================================================================
