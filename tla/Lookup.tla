------------------------------- MODULE Lookup -------------------------------
(***************************************************************************)
(* The goroutines that answer one query: env/env.go handleQuery starts a   *)
(* Thread.Lookup per thread (thread/thread.go), which starts a             *)
(* BlockFile.Lookup per file (blockfile/blockfile.go); ConcatPacketChans   *)
(* puts the files of a thread in a row, MergePacketChans the threads in    *)
(* order of time, PacketsToFile writes the answer (base/base.go).          *)
(***************************************************************************)
EXTENDS Integers, Sequences, FiniteSets

CONSTANTS
    Threads,     \* an initial segment of the numbers
    Files,
    Time,        \* the timestamp of each packet
    Requests,    \* queries: the files of each thread, what the query finds in
                 \* each file, what it must and may find, a limit
    Removed,     \* files that SyncFiles may close while the query runs
    ChanSize,    \* buffer of a PacketChan
    InputsSize,  \* concurrentBlockfileReadsPerThread
    Faults,      \* whether reading and writing may fail
    None

Packets == DOMAIN Time

ASSUME ThreadsAssumption == IsFiniteSet(Threads) /\ Threads = 1 .. Cardinality(Threads)
ASSUME RequestsAssumption == \A r \in Requests :
    /\ r.files \in [Threads -> Seq(Files)]
    /\ \A t, u \in Threads : \A i \in DOMAIN r.files[t], j \in DOMAIN r.files[u] :
          r.files[t][i] = r.files[u][j] => t = u /\ i = j
    /\ r.found \in [Files -> Seq(Packets)]
    /\ r.must \subseteq r.may /\ r.may \subseteq Packets /\ r.limit \in Nat
Packet(r, t, i, k) == r.found[r.files[t][i]][k]

(* What the search of the files guarantees: each packet is found in one    *)
(* place; what is found in the files of a thread, in the order of their    *)
(* creation (thread.go:275), is sorted by time, as MergePacketChans wants  *)
(* it (base.go:169); it may be asked for, and what must be in the answer   *)
(* is found.                                                               *)
ASSUME TimeAssumption == \A p \in Packets : Time[p] \in Nat
ASSUME FoundAssumption == \A r \in Requests :
    /\ \A t, u \in Threads : \A i \in DOMAIN r.files[t], j \in DOMAIN r.files[u] :
       \A k \in DOMAIN r.found[r.files[t][i]], l \in DOMAIN r.found[r.files[u][j]] :
          Packet(r, t, i, k) = Packet(r, u, j, l) => t = u /\ i = j /\ k = l
    /\ \A t \in Threads : \A i, j \in DOMAIN r.files[t] :
       \A k \in DOMAIN r.found[r.files[t][i]], l \in DOMAIN r.found[r.files[t][j]] :
          i < j \/ (i = j /\ k <= l) => Time[Packet(r, t, i, k)] <= Time[Packet(r, t, j, l)]
    /\ \A t \in Threads : \A i \in DOMAIN r.files[t] :
       \A k \in DOMAIN r.found[r.files[t][i]] : Packet(r, t, i, k) \in r.may
    /\ \A p \in r.must : \E t \in Threads : \E i \in DOMAIN r.files[t] :
       \E k \in DOMAIN r.found[r.files[t][i]] : p = Packet(r, t, i, k)
ASSUME SizesAssumption == ChanSize \in Nat \ {0} /\ InputsSize \in Nat \ {0}
ASSUME FaultsAssumption == Faults \in BOOLEAN
ASSUME NoneAssumption == None \notin Packets /\ None \notin Files

VARIABLES
    request,   \* the query that is answered
    ctxDone,   \* the query timed out or its handler returned
    gone,      \* files whose done channel SyncFiles has closed
    lookup,    \* where the BlockFile.Lookup of each file is
    left,      \* the packets it has still to read
    cut,       \* files it stopped reading because they are closed
    fchan,     \* the PacketChan of each file
    started,   \* how many files Thread.Lookup has put into inputs
    inputs,    \* the files in the channel inputs of each thread
    producer,  \* "loop", or "closed" once it closed inputs
    concat,    \* where ConcatPacketChans is
    current,   \* the file it receives from
    held,      \* the packet it has in hand
    tchan,     \* the PacketChan of each thread
    merge,     \* where MergePacketChans is
    turn,      \* the thread it receives from
    popped,    \* the packet it took from the heap
    heap,      \* the packet of each thread on the heap
    out,       \* the merged PacketChan
    handler,   \* where handleQuery is
    limit,     \* what is left of the limit
    answer,    \* the packets it wrote
    result     \* what PacketsToFile returns

fileVars == <<gone, lookup, left, cut, fchan>>
threadVars == <<started, inputs, producer, concat, current, held, tchan>>
mergeVars == <<merge, turn, popped, heap, out>>
handlerVars == <<ctxDone, handler, limit, answer, result>>
vars == <<request, fileVars, threadVars, mergeVars, handlerVars>>

(***************************************************************************)
(* A PacketChan.  Close sets err, closes the channel and then done; all    *)
(* who wait for one of the latter two are woken, so it is one step.        *)
(***************************************************************************)
NewChan == [buf |-> <<>>, err |-> "open"]
HasRoom(c) == Len(c.buf) < ChanSize
Send(c, p) == [c EXCEPT !.buf = Append(@, p)]
Receive(c) == [c EXCEPT !.buf = Tail(@)]
Closed(c) == c.err # "open"
Exhausted(c) == Closed(c) /\ c.buf = <<>>
Failed(c) == c.err \in {"error", "canceled"}
Close(c, err) == [c EXCEPT !.err = err]

CtxErr == IF ctxDone THEN "canceled" ELSE "nil"

Init ==
    /\ request \in Requests
    /\ ctxDone = FALSE
    /\ gone = {} /\ cut = {}
    /\ lookup = [f \in Files |-> "none"]
    /\ left = [f \in Files |-> <<>>]
    /\ fchan = [f \in Files |-> NewChan]
    /\ started = [t \in Threads |-> 0]
    /\ inputs = [t \in Threads |-> <<>>]
    /\ producer = [t \in Threads |-> "loop"]
    /\ concat = [t \in Threads |-> "range"]
    /\ current = [t \in Threads |-> None]
    /\ held = [t \in Threads |-> None]
    /\ tchan = [t \in Threads |-> NewChan]
    /\ merge = "init" /\ turn = 1 /\ popped = None
    /\ heap = [t \in Threads |-> None]
    /\ out = NewChan
    /\ handler = "write" /\ limit = request.limit /\ answer = <<>> /\ result = "none"

(***************************************************************************)
(* BlockFile.Lookup, which holds the file's mu shared to its end.          *)
(***************************************************************************)
LookupEnds(f, err) ==
    /\ fchan' = [fchan EXCEPT ![f] = Close(@, err)]
    /\ lookup' = [lookup EXCEPT ![f] = "end"]

(* A closed file has no positions.                                         *)
LookupStarts(f) ==
    /\ lookup[f] = "started"
    /\ lookup' = [lookup EXCEPT ![f] = "reading"]
    /\ left' = [left EXCEPT ![f] = IF f \in gone THEN <<>> ELSE request.found[f]]
    /\ cut' = IF f \in gone THEN cut \cup {f} ELSE cut
    /\ UNCHANGED <<gone, fchan>>

LookupFails(f) ==
    /\ \/ lookup[f] = "started" /\ (Faults \/ ctxDone)  \* LookupIn
       \/ lookup[f] = "reading" /\ left[f] # <<>> /\ Faults  \* ReadAt
    /\ LookupEnds(f, "error")
    /\ UNCHANGED <<gone, left, cut>>

LookupSends(f) ==
    /\ lookup[f] = "reading" /\ left[f] # <<>> /\ HasRoom(fchan[f])
    /\ fchan' = [fchan EXCEPT ![f] = Send(@, Head(left[f]))]
    /\ left' = [left EXCEPT ![f] = Tail(@)]
    /\ UNCHANGED <<gone, lookup, cut>>

IgnoresClosing(f) == ctxDone  \* mutant: no case for b.done
Interrupted(f) == ctxDone \/ f \in gone

LookupStops(f) ==
    /\ lookup[f] = "reading" /\ left[f] # <<>> /\ Interrupted(f)
    /\ cut' = IF f \in gone THEN cut \cup {f} ELSE cut
    /\ LookupEnds(f, CtxErr)
    /\ UNCHANGED <<gone, left>>

LookupDone(f) ==
    /\ lookup[f] = "reading" /\ left[f] = <<>>
    /\ LookupEnds(f, CtxErr)
    /\ UNCHANGED <<gone, left, cut>>

(* BlockFile.Close begins, called by SyncFiles.                            *)
FileCloses(f) ==
    /\ f \in Removed \ gone
    /\ gone' = gone \cup {f}
    /\ UNCHANGED <<lookup, left, cut, fchan>>

Reading(f) ==
    LookupStarts(f) \/ LookupSends(f) \/ LookupStops(f) \/ LookupDone(f)

(***************************************************************************)
(* The goroutine of Thread.Lookup; at its end it waits for out.Done().     *)
(***************************************************************************)
ProducerSends(t) ==
    /\ producer[t] = "loop" /\ started[t] < Len(request.files[t]) /\ Len(inputs[t]) < InputsSize
    /\ LET f == request.files[t][started[t] + 1] IN
          /\ inputs' = [inputs EXCEPT ![t] = Append(@, f)]
          /\ lookup' = [lookup EXCEPT ![f] = "started"]
    /\ started' = [started EXCEPT ![t] = @ + 1]
    /\ UNCHANGED <<gone, left, cut, fchan, producer, concat, current, held, tchan>>

NeverCloses(t) == FALSE /\ UNCHANGED <<fileVars, threadVars>>  \* mutant: inputs stays open
ProducerCloses(t) ==
    /\ producer[t] = "loop" /\ (started[t] = Len(request.files[t]) \/ ctxDone)
    /\ producer' = [producer EXCEPT ![t] = "closed"]
    /\ UNCHANGED <<fileVars, started, inputs, concat, current, held, tchan>>

(***************************************************************************)
(* ConcatPacketChans.                                                      *)
(***************************************************************************)
ConcatTo(t, stage) == concat' = [concat EXCEPT ![t] = stage]
LeavesOpen(t, err) == UNCHANGED tchan /\ ConcatTo(t, "end")  \* mutant: a return without Close
ConcatEnds(t, err) == tchan' = [tchan EXCEPT ![t] = Close(@, err)] /\ ConcatTo(t, "end")

ConcatNext(t) ==
    /\ concat[t] = "range"
    /\ \/ /\ inputs[t] # <<>>
          /\ current' = [current EXCEPT ![t] = Head(inputs[t])]
          /\ inputs' = [inputs EXCEPT ![t] = Tail(@)]
          /\ ConcatTo(t, "receive")
          /\ UNCHANGED tchan
       \/ /\ inputs[t] = <<>> /\ producer[t] = "closed"
          /\ ConcatEnds(t, "nil")
          /\ UNCHANGED <<current, inputs>>
    /\ UNCHANGED <<fileVars, started, producer, held>>

IgnoresError(t) == FALSE  \* mutant: no look at Err()
FileFailed(t) == Failed(fchan[current[t]])

(* The error of a file ends the row at once, packets may still be in its   *)
(* channel.  A packet it receives after it found no error was there before *)
(* the error: the look at Err() and the select are one step.               *)
ConcatReceives(t) ==
    /\ concat[t] = "receive"
    /\ LET c == fchan[current[t]] IN
       \/ /\ c.buf # <<>> /\ ~FileFailed(t)
          /\ held' = [held EXCEPT ![t] = Head(c.buf)]
          /\ fchan' = [fchan EXCEPT ![current[t]] = Receive(@)]
          /\ ConcatTo(t, "send")
          /\ UNCHANGED tchan
       \/ /\ FileFailed(t)
          /\ ConcatEnds(t, c.err)
          /\ UNCHANGED <<held, fchan>>
       \/ /\ Exhausted(c) /\ ~FileFailed(t)
          /\ ConcatTo(t, "range")
          /\ UNCHANGED <<held, fchan, tchan>>
       \/ /\ ctxDone
          /\ ConcatEnds(t, "canceled")
          /\ UNCHANGED <<held, fchan>>
    /\ UNCHANGED <<gone, lookup, left, cut, started, inputs, producer, current>>

ConcatSends(t) ==
    /\ concat[t] = "send" /\ HasRoom(tchan[t])
    /\ tchan' = [tchan EXCEPT ![t] = Send(@, held[t])]
    /\ held' = [held EXCEPT ![t] = None]
    /\ ConcatTo(t, "receive")
    /\ UNCHANGED <<fileVars, started, inputs, producer, current>>

(* The deferred Discards, once the goroutine returned.                     *)
DiscardFileChan(t) ==
    /\ Closed(tchan[t]) /\ current[t] # None /\ fchan[current[t]].buf # <<>>
    /\ fchan' = [fchan EXCEPT ![current[t]] = Receive(@)]
    /\ UNCHANGED <<gone, lookup, left, cut, threadVars>>

Concatenating(t) ==
    ConcatNext(t) \/ ConcatReceives(t) \/ ConcatSends(t)

(***************************************************************************)
(* MergePacketChans.                                                       *)
(***************************************************************************)
MergeEnds(err) == out' = Close(out, err) /\ merge' = "end"

TakeFrom(t) ==
    LET c == tchan[t] IN
    \/ /\ c.buf # <<>>
       /\ heap' = [heap EXCEPT ![t] = Head(c.buf)]
       /\ tchan' = [tchan EXCEPT ![t] = Receive(@)]
    \/ Exhausted(c) /\ UNCHANGED <<heap, tchan>>

MergeInit ==
    /\ merge = "init" /\ turn \in Threads
    /\ \/ /\ TakeFrom(turn)
          /\ IF Failed(tchan[turn])
             THEN MergeEnds(tchan[turn].err) /\ UNCHANGED turn
             ELSE turn' = turn + 1 /\ UNCHANGED <<merge, out>>
       \/ ctxDone /\ MergeEnds("canceled") /\ UNCHANGED <<turn, heap, tchan>>
    /\ UNCHANGED <<popped, fileVars, started, inputs, producer, concat, current, held>>

Smallest == {t \in Threads : heap[t] # None /\ \A u \in Threads :
                heap[u] # None => Time[heap[t]] <= Time[heap[u]]}

MergePops ==
    /\ merge = "loop" \/ (merge = "init" /\ turn \notin Threads)
    /\ IF ctxDone \/ Smallest = {}
       THEN MergeEnds(CtxErr) /\ UNCHANGED <<turn, popped, heap>>
       ELSE /\ turn' \in Smallest
            /\ popped' = heap[turn']
            /\ heap' = [heap EXCEPT ![turn'] = None]
            /\ merge' = "receive"
            /\ UNCHANGED out
    /\ UNCHANGED <<fileVars, threadVars>>

MergeReceives ==
    /\ merge = "receive"
    /\ TakeFrom(turn)
    /\ merge' = "send"
    /\ UNCHANGED <<turn, popped, out, fileVars, started, inputs, producer, concat, current, held>>

MergeSends ==
    /\ merge = "send" /\ HasRoom(out)
    /\ IF Failed(tchan[turn])
       THEN out' = Close(Send(out, popped), tchan[turn].err) /\ merge' = "end"
       ELSE out' = Send(out, popped) /\ merge' = "loop"
    /\ popped' = None
    /\ UNCHANGED <<turn, heap, fileVars, threadVars>>

DiscardThreadChan(t) ==
    /\ Closed(out) /\ tchan[t].buf # <<>>
    /\ tchan' = [tchan EXCEPT ![t] = Receive(@)]
    /\ UNCHANGED <<fileVars, started, inputs, producer, concat, current, held, mergeVars>>

Merging == MergeInit \/ MergePops \/ MergeReceives \/ MergeSends

(***************************************************************************)
(* handleQuery: PacketsToFile, then the deferred Discard and Cancel.  The  *)
(* end of the client's connection does not cancel anything: the logging    *)
(* wrapper handleQuery passes to httputil.Context is no CloseNotifier.     *)
(***************************************************************************)
UsedUp(n) == n <= 0

Returns(err) == handler' = "end" /\ result' = err /\ ctxDone' = TRUE

HandlerWrites ==
    /\ handler = "write" /\ out.buf # <<>>
    /\ answer' = Append(answer, Head(out.buf))
    /\ out' = Receive(out)
    /\ limit' = IF limit = 0 THEN 0 ELSE limit - 1
    /\ handler' = IF limit # 0 /\ UsedUp(limit') THEN "stop" ELSE "write"
    /\ UNCHANGED <<result, ctxDone>>

HandlerReturns ==
    /\ \/ handler = "stop" /\ Returns("limit")
       \/ handler = "write" /\ Exhausted(out) /\ Returns(out.err)
    /\ UNCHANGED <<answer, limit, out>>

WriteFails ==
    /\ handler = "write" /\ out.buf # <<>> /\ Faults
    /\ Returns("write error")
    /\ UNCHANGED <<answer, limit, out>>

NoDiscard == FALSE /\ UNCHANGED <<handlerVars, out>>  \* mutant: no Discard after a failed write
HandlerDiscards ==
    /\ handler = "end" /\ out.buf # <<>>
    /\ out' = Receive(out)
    /\ UNCHANGED handlerVars

Timeout ==
    /\ ~ctxDone
    /\ ctxDone' = TRUE
    /\ UNCHANGED <<handler, limit, answer, result, out>>

-----------------------------------------------------------------------------
OfFile(A) == A /\ UNCHANGED <<request, threadVars, mergeVars, handlerVars>>
OfThread(A) == A /\ UNCHANGED <<request, mergeVars, handlerVars>>
OfMerge(A) == A /\ UNCHANGED <<request, handlerVars>>
OfHandler(A) == A /\ UNCHANGED <<request, merge, turn, popped, heap, fileVars, threadVars>>

Goroutines ==
    \/ \E f \in Files : OfFile(Reading(f))
    \/ \E t \in Threads :
          \/ OfThread(ProducerSends(t) \/ ProducerCloses(t) \/ Concatenating(t))
          \/ OfThread(DiscardFileChan(t)) \/ OfMerge(DiscardThreadChan(t))
    \/ OfMerge(Merging)
    \/ OfHandler(HandlerReturns \/ HandlerDiscards)

Environment ==
    \/ \E f \in Files : OfFile(LookupFails(f) \/ FileCloses(f))
    \/ OfHandler(HandlerWrites \/ WriteFails \/ Timeout)

Next == Goroutines \/ Environment

Spec == Init /\ [][Next]_vars

(* Goroutines run: none takes infinitely many steps, so to be fair to all  *)
(* of them together is to be fair to each.  Nobody has to read the answer, *)
(* the query need not time out, no file has to be closed.                  *)
FairSpec == Spec /\ WF_vars(Goroutines)
-----------------------------------------------------------------------------
ChanOK(c) ==
    /\ c.buf \in Seq(Packets) /\ Len(c.buf) <= ChanSize
    /\ c.err \in {"open", "nil", "error", "canceled"}

(* Types, with the bounds of the channels, and which goroutine closes      *)
(* which channel.                                                          *)
TypeOK ==
    /\ ctxDone \in BOOLEAN /\ gone \subseteq Files /\ cut \subseteq gone
    /\ lookup \in [Files -> {"none", "started", "reading", "end"}]
    /\ left \in [Files -> Seq(Packets)]
    /\ \A f \in Files : ChanOK(fchan[f]) /\ (Closed(fchan[f]) <=> lookup[f] = "end")
    /\ \A t \in Threads :
          /\ ChanOK(tchan[t]) /\ (Closed(tchan[t]) <=> concat[t] = "end")
          /\ started[t] \in 0 .. Len(request.files[t])
          /\ inputs[t] \in Seq(Files) /\ Len(inputs[t]) <= InputsSize
          /\ concat[t] \in {"receive", "send"} => current[t] # None
    /\ producer \in [Threads -> {"loop", "closed"}]
    /\ concat \in [Threads -> {"range", "receive", "send", "end"}]
    /\ current \in [Threads -> Files \cup {None}]
    /\ held \in [Threads -> Packets \cup {None}] /\ heap \in [Threads -> Packets \cup {None}]
    /\ ChanOK(out) /\ (Closed(out) <=> merge = "end")
    /\ merge \in {"init", "loop", "receive", "send", "end"}
    /\ turn \in Nat /\ popped \in Packets \cup {None}
    /\ handler \in {"write", "stop", "end"} /\ limit \in Nat
    /\ answer \in Seq(Packets)

(* The answer keeps the promise: what the goroutines of all files and      *)
(* threads hand on arrives in the order of time, nothing twice, and if     *)
(* PacketsToFile returns nil then nothing is missing that was not in a     *)
(* file closed meanwhile, whatever was canceled or failed when.            *)
Outcome ==
    CASE handler # "end" -> "open"
      [] handler = "end" /\ result = "nil" /\ cut = {} -> "complete"
      [] OTHER -> "partial"
Answer == INSTANCE QueryAnswer WITH
    must <- request.must, may <- request.may, limit <- request.limit, result <- Outcome
ImplementsAnswer == Answer!Spec

(* No goroutine stays behind when the handler is done, blocked on a full   *)
(* channel or a channel nobody closes, for whatever reason it is done.     *)
AllReturned ==
    /\ merge = "end"
    /\ \A t \in Threads : concat[t] = "end" /\ producer[t] = "closed"
    /\ \A f \in Files : lookup[f] \in {"none", "end"}
NothingLeftRunning == handler = "end" ~> AllReturned

(* The read lock of a file is not held for ever by the Lookup of a query   *)
(* that timed out, or if SyncFiles wants to close the file, even if the    *)
(* client stopped reading and the merge is stuck.                          *)
FilesFreed == <>[](\A f \in Files : lookup[f] = "reading" => ~ctxDone /\ f \notin gone)

(* The goroutines do not wait for each other in a circle: the answer comes *)
(* to its end, or there is a packet the client does not take.              *)
AnswerKeepsComing == <>[](handler = "end" \/ out.buf # <<>>)

=============================================================================
