---------------------------- MODULE LookupProofs ----------------------------
(***************************************************************************)
(* Proofs about Lookup for any files, threads, packets and sizes of the    *)
(* channels: types and bounds, and that it implements QueryAnswer.         *)
(***************************************************************************)
EXTENDS Lookup, FiniteSetTheorems, SequenceTheorems, TLAPS

(***************************************************************************)
(* Types, and at which stages the goroutines are.                          *)
(***************************************************************************)
Errors == {"open", "nil", "error", "canceled"}
Chan == [buf : Seq(Packets), err : Errors]
PacketOrNone == Packets \cup {None}

FileTypes ==
    /\ gone \subseteq Files /\ cut \subseteq gone
    /\ lookup \in [Files -> {"none", "started", "reading", "end"}]
    /\ left \in [Files -> Seq(Packets)]
    /\ fchan \in [Files -> Chan]
    /\ \A f \in Files :
          /\ fchan[f].err = "open" <=> lookup[f] # "end"
          /\ Len(fchan[f].buf) <= ChanSize

ThreadTypes ==
    /\ started \in [Threads -> Nat] /\ inputs \in [Threads -> Seq(Files)]
    /\ producer \in [Threads -> {"loop", "closed"}]
    /\ concat \in [Threads -> {"range", "receive", "send", "end"}]
    /\ current \in [Threads -> Files \cup {None}]
    /\ held \in [Threads -> PacketOrNone]
    /\ tchan \in [Threads -> Chan]
    /\ \A t \in Threads :
          /\ started[t] <= Len(request.files[t]) /\ Len(inputs[t]) <= InputsSize
          /\ tchan[t].err = "open" <=> concat[t] # "end"
          /\ Len(tchan[t].buf) <= ChanSize
          /\ held[t] # None <=> concat[t] = "send"
          /\ concat[t] \in {"receive", "send"} => current[t] # None

MergeTypes ==
    /\ merge \in {"init", "loop", "receive", "send", "end"}
    /\ turn \in Nat /\ popped \in PacketOrNone
    /\ heap \in [Threads -> PacketOrNone] /\ out \in Chan
    /\ out.err = "open" <=> merge # "end"
    /\ Len(out.buf) <= ChanSize
    /\ popped # None <=> merge \in {"receive", "send"}
    /\ merge \in {"receive", "send"} => turn \in Threads

HandlerTypes ==
    /\ ctxDone \in BOOLEAN /\ handler \in {"write", "stop", "end"}
    /\ limit \in Nat /\ answer \in Seq(Packets)
    /\ handler = "end" => ctxDone

File(t, i) == request.files[t][i]

StartedInv == \A t \in Threads : \A i \in DOMAIN request.files[t] :
    lookup[File(t, i)] = "none" <=> i > started[t]

TypeInv ==
    /\ request \in Requests /\ StartedInv
    /\ FileTypes /\ ThreadTypes /\ MergeTypes /\ HandlerTypes

LEMMA RequestTypes ==
    ASSUME NEW r \in Requests
    PROVE  /\ r.files \in [Threads -> Seq(Files)] /\ r.found \in [Files -> Seq(Packets)]
           /\ r.limit \in Nat
  BY RequestsAssumption

LEMMA ChanTypes ==
    ASSUME NEW c \in Chan
    PROVE  /\ c.buf \in Seq(Packets) /\ c.err \in Errors
           /\ NewChan \in Chan /\ NewChan.buf = <<>> /\ NewChan.err = "open"
           /\ \A p \in Packets : /\ Send(c, p) \in Chan /\ Send(c, p).err = c.err
                                 /\ Send(c, p).buf = Append(c.buf, p)
                                 /\ Len(Send(c, p).buf) = Len(c.buf) + 1
           /\ c.buf # <<>> => /\ Receive(c) \in Chan /\ Receive(c).err = c.err
                              /\ Receive(c).buf = Tail(c.buf)
                              /\ Len(Receive(c).buf) = Len(c.buf) - 1
                              /\ Head(c.buf) \in Packets
           /\ \A e \in Errors : Close(c, e) \in Chan /\ Close(c, e).err = e /\ Close(c, e).buf = c.buf
<1>1. NewChan \in Chan /\ NewChan.buf = <<>> /\ NewChan.err = "open"
  BY DEF Chan, NewChan, Errors
<1>2. c.buf \in Seq(Packets) /\ c.err \in Errors /\ c = [buf |-> c.buf, err |-> c.err]
  BY DEF Chan
<1>3. ASSUME NEW p \in Packets
      PROVE  /\ Send(c, p) \in Chan /\ Send(c, p).err = c.err
             /\ Send(c, p).buf = Append(c.buf, p)
             /\ Len(Send(c, p).buf) = Len(c.buf) + 1
  <2>1. Append(c.buf, p) \in Seq(Packets) /\ Len(Append(c.buf, p)) = Len(c.buf) + 1
    BY <1>2
  <2> QED BY <2>1, <1>2 DEF Chan, Send
<1>4. ASSUME c.buf # <<>>
      PROVE  /\ Receive(c) \in Chan /\ Receive(c).err = c.err
             /\ Receive(c).buf = Tail(c.buf)
             /\ Len(Receive(c).buf) = Len(c.buf) - 1
             /\ Head(c.buf) \in Packets
  <2>1. /\ Tail(c.buf) \in Seq(Packets) /\ Len(Tail(c.buf)) = Len(c.buf) - 1
        /\ Head(c.buf) \in Packets
    BY <1>2, <1>4, HeadTailProperties
  <2> QED BY <2>1, <1>2 DEF Chan, Receive
<1>5. ASSUME NEW e \in Errors
      PROVE  Close(c, e) \in Chan /\ Close(c, e).err = e /\ Close(c, e).buf = c.buf
  BY <1>2 DEF Chan, Close
<1> QED BY <1>1, <1>2, <1>3, <1>4, <1>5

LEMMA InitTypes == Init => TypeInv
<1> SUFFICES ASSUME Init PROVE TypeInv
  OBVIOUS
<1>1. NewChan \in Chan /\ NewChan.buf = <<>> /\ NewChan.err = "open" /\ Len(NewChan.buf) <= ChanSize
  BY SizesAssumption DEF NewChan, Chan, Errors
<1>2. request.files \in [Threads -> Seq(Files)] /\ request.limit \in Nat
  BY RequestTypes DEF Init
<1>3. FileTypes
  BY <1>1 DEF Init, FileTypes
<1>4. ThreadTypes
  BY <1>1, <1>2, SizesAssumption DEF Init, ThreadTypes, PacketOrNone
<1>5. MergeTypes
  BY <1>1 DEF Init, MergeTypes, PacketOrNone
<1>6. HandlerTypes
  <2>1. ctxDone \in BOOLEAN /\ handler # "end"
    BY DEF Init
  <2>2. handler \in {"write", "stop", "end"} /\ limit \in Nat
    BY <1>2 DEF Init
  <2>3. answer \in Seq(Packets)
    BY DEF Init
  <2> QED BY <2>1, <2>2, <2>3 DEF HandlerTypes
<1>7. StartedInv
  <2>1. \A t \in Threads : \A i \in DOMAIN request.files[t] : i > 0 /\ File(t, i) \in Files
    BY <1>2 DEF File
  <2> QED BY <2>1 DEF Init, StartedInv
<1> QED BY <1>3, <1>4, <1>5, <1>6, <1>7 DEF Init, TypeInv

LEMMA CtxErrType ==
    /\ CtxErr \in {"nil", "canceled"}
    /\ CtxErr = "nil" <=> ~ctxDone
  BY DEF CtxErr

LEMMA FileStepTypes ==
    ASSUME TypeInv, NEW f \in Files, Reading(f) \/ LookupFails(f) \/ FileCloses(f)
    PROVE  FileTypes'
<1> USE DEF FileTypes
<1>1. /\ fchan[f] \in Chan /\ request.found[f] \in Seq(Packets) /\ left[f] \in Seq(Packets)
      /\ request \in Requests /\ FileTypes
      /\ fchan[f].err \in Errors
  BY RequestTypes, ChanTypes DEF TypeInv
<1>2. ASSUME NEW err \in Errors \ {"open"}, LookupEnds(f, err), lookup[f] # "end",
             UNCHANGED <<gone, left>>, cut' \subseteq gone
      PROVE  FileTypes'
  <2>1. Close(fchan[f], err) \in Chan /\ Close(fchan[f], err).err = err /\ Close(fchan[f], err).buf = fchan[f].buf
    BY <1>1, ChanTypes
  <2> QED BY <1>1, <1>2, <2>1 DEF LookupEnds
<1>3. CASE LookupStarts(f)
  BY <1>1, <1>3 DEF LookupStarts
<1>4. CASE LookupFails(f)
  BY <1>1, <1>2, <1>4 DEF LookupFails, Errors
<1>5. CASE LookupSends(f)
  <2>1. Head(left[f]) \in Packets /\ Tail(left[f]) \in Seq(Packets)
    BY <1>1, <1>5, HeadTailProperties DEF LookupSends
  <2> DEFINE c == Send(fchan[f], Head(left[f]))
  <2>2. c \in Chan /\ c.err = fchan[f].err /\ Len(c.buf) <= ChanSize
    BY <1>1, <1>5, <2>1, ChanTypes, SizesAssumption DEF LookupSends, HasRoom
  <2>3. fchan' = [fchan EXCEPT ![f] = c] /\ UNCHANGED <<gone, lookup, cut>>
        /\ left' = [left EXCEPT ![f] = Tail(@)]
    BY <1>5 DEF LookupSends
  <2> HIDE DEF c
  <2> QED BY <1>1, <2>1, <2>2, <2>3
<1>6. CASE LookupStops(f)
  BY <1>1, <1>2, <1>6, CtxErrType DEF LookupStops, Errors
<1>7. CASE LookupDone(f)
  BY <1>1, <1>2, <1>7, CtxErrType DEF LookupDone, Errors
<1>8. CASE FileCloses(f)
  BY <1>1, <1>8 DEF FileCloses
<1> QED BY <1>3, <1>4, <1>5, <1>6, <1>7, <1>8 DEF Reading

(* A receive from a channel that is not empty.                             *)
LEMMA ReceiveTypes ==
    ASSUME NEW c \in Chan, c.buf # <<>>, Len(c.buf) <= ChanSize
    PROVE  /\ Receive(c) \in Chan /\ Receive(c).err = c.err
           /\ Len(Receive(c).buf) <= ChanSize /\ Head(c.buf) \in Packets
<1>1. /\ Receive(c) \in Chan /\ Receive(c).err = c.err /\ Head(c.buf) \in Packets
      /\ Len(Receive(c).buf) = Len(c.buf) - 1 /\ Len(c.buf) \in Nat
  BY ChanTypes
<1> QED BY <1>1, SizesAssumption

LEMMA ReceiveKeepsFiles ==
    ASSUME FileTypes, NEW f \in Files, fchan[f].buf # <<>>,
           fchan' = [fchan EXCEPT ![f] = Receive(@)], UNCHANGED <<gone, lookup, left, cut>>
    PROVE  FileTypes'
<1>1. /\ Receive(fchan[f]) \in Chan /\ Receive(fchan[f]).err = fchan[f].err
      /\ Len(Receive(fchan[f]).buf) <= ChanSize
  BY ReceiveTypes DEF FileTypes
<1> QED BY <1>1 DEF FileTypes

LEMMA ReceiveKeepsThreads ==
    ASSUME ThreadTypes, NEW t \in Threads, tchan[t].buf # <<>>,
           tchan' = [tchan EXCEPT ![t] = Receive(@)],
           UNCHANGED <<request, started, inputs, producer, concat, current, held>>
    PROVE  ThreadTypes' /\ Head(tchan[t].buf) \in Packets
<1>1. /\ Receive(tchan[t]) \in Chan /\ Receive(tchan[t]).err = tchan[t].err
      /\ Len(Receive(tchan[t]).buf) <= ChanSize /\ Head(tchan[t].buf) \in Packets
  BY ReceiveTypes DEF ThreadTypes
<1> QED BY <1>1 DEF ThreadTypes

LEMMA ConcatEndTypes ==
    ASSUME ThreadTypes, NEW t \in Threads, NEW err \in Errors \ {"open"},
           concat[t] \in {"range", "receive"}, ConcatEnds(t, err),
           UNCHANGED <<request, started, inputs, producer, current, held>>
    PROVE  ThreadTypes'
<1>1. /\ Close(tchan[t], err) \in Chan /\ Close(tchan[t], err).err = err
      /\ Close(tchan[t], err).buf = tchan[t].buf
  BY ChanTypes DEF ThreadTypes
<1> QED BY <1>1 DEF ThreadTypes, ConcatEnds, ConcatTo

LEMMA ThreadStepTypes ==
    ASSUME TypeInv, NEW t \in Threads, UNCHANGED request,
           \/ ProducerSends(t) \/ ProducerCloses(t) \/ Concatenating(t) \/ DiscardFileChan(t)
    PROVE  FileTypes' /\ ThreadTypes'
<1>1. /\ request.files \in [Threads -> Seq(Files)] /\ FileTypes /\ ThreadTypes
      /\ request.files[t] \in Seq(Files) /\ inputs[t] \in Seq(Files) /\ tchan[t] \in Chan
      /\ InputsSize \in Nat /\ ChanSize \in Nat /\ started[t] \in Nat
  BY RequestTypes, SizesAssumption DEF TypeInv, ThreadTypes
<1>2. CASE ProducerSends(t)
  <2> DEFINE f == request.files[t][started[t] + 1]
             q == Append(inputs[t], f)
  <2>1. f \in Files /\ started[t] + 1 <= Len(request.files[t])
    BY <1>1, <1>2 DEF ProducerSends
  <2>2. q \in Seq(Files) /\ Len(q) <= InputsSize
    BY <1>1, <1>2, <2>1 DEF ProducerSends
  <2>3. /\ inputs' = [inputs EXCEPT ![t] = q] /\ lookup' = [lookup EXCEPT ![f] = "started"]
        /\ started' = [started EXCEPT ![t] = @ + 1]
        /\ UNCHANGED <<gone, left, cut, fchan, producer, concat, current, held, tchan>>
    BY <1>2 DEF ProducerSends
  <2>4. lookup[f] # "end"
    BY <1>1, <2>1 DEF TypeInv, StartedInv, File
  <2> HIDE DEF f, q
  <2>5. FileTypes'
    BY <1>1, <2>1, <2>3, <2>4 DEF FileTypes
  <2>6. ThreadTypes'
    BY <1>1, <2>1, <2>2, <2>3 DEF ThreadTypes
  <2> QED BY <2>5, <2>6
<1>3. CASE ProducerCloses(t)
  BY <1>1, <1>3 DEF ProducerCloses, FileTypes, ThreadTypes, fileVars
<1>4. CASE ConcatNext(t)
  <2>1. FileTypes'
    BY <1>1, <1>4 DEF ConcatNext, fileVars, FileTypes
  <2>2. ASSUME inputs[t] # <<>>, current' = [current EXCEPT ![t] = Head(inputs[t])],
               inputs' = [inputs EXCEPT ![t] = Tail(@)], ConcatTo(t, "receive"), UNCHANGED tchan
        PROVE  ThreadTypes'
    <3>1. /\ Head(inputs[t]) \in Files /\ Tail(inputs[t]) \in Seq(Files)
          /\ Len(Tail(inputs[t])) <= InputsSize
      BY <1>1, <2>2, HeadTailProperties DEF ThreadTypes
    <3> QED BY <1>1, <1>4, <2>2, <3>1, NoneAssumption DEF ConcatNext, ConcatTo, ThreadTypes
  <2>3. ASSUME ConcatEnds(t, "nil"), UNCHANGED <<current, inputs>>
        PROVE  ThreadTypes'
    BY <1>1, <1>4, <2>3, ConcatEndTypes DEF ConcatNext, Errors
  <2> QED BY <1>4, <2>1, <2>2, <2>3 DEF ConcatNext
<1>5. CASE ConcatReceives(t)
  <2>1. current[t] \in Files /\ fchan[current[t]] \in Chan
    BY <1>1, <1>5 DEF ConcatReceives, ThreadTypes, FileTypes
  <2>2. ASSUME fchan[current[t]].buf # <<>>, held' = [held EXCEPT ![t] = Head(fchan[current[t]].buf)],
               fchan' = [fchan EXCEPT ![current[t]] = Receive(@)], ConcatTo(t, "send"),
               UNCHANGED tchan
        PROVE  FileTypes' /\ ThreadTypes'
    <3>1. FileTypes'
      BY <1>1, <1>5, <2>1, <2>2, ReceiveKeepsFiles DEF ConcatReceives
    <3>2. Head(fchan[current[t]].buf) \in Packets
      BY <2>1, <2>2, ChanTypes
    <3>3. ThreadTypes'
      BY <1>1, <1>5, <2>2, <3>2, NoneAssumption DEF ConcatReceives, ConcatTo, ThreadTypes, PacketOrNone
    <3> QED BY <3>1, <3>3
  <2>3. ASSUME NEW err \in {"error", "canceled"}, ConcatEnds(t, err), UNCHANGED <<held, fchan>>
        PROVE  FileTypes' /\ ThreadTypes'
    <3>1. FileTypes'
      BY <1>1, <1>5, <2>3 DEF ConcatReceives, FileTypes
    <3>2. ThreadTypes'
      BY <1>1, <1>5, <2>3, ConcatEndTypes DEF ConcatReceives, Errors
    <3> QED BY <3>1, <3>2
  <2>4. ASSUME ConcatTo(t, "range"), UNCHANGED <<held, fchan, tchan>>
        PROVE  FileTypes' /\ ThreadTypes'
    BY <1>1, <1>5, <2>4 DEF ConcatReceives, ConcatTo, FileTypes, ThreadTypes
  <2> QED BY <1>5, <2>2, <2>3, <2>4 DEF ConcatReceives, FileFailed, Failed
<1>6. CASE ConcatSends(t)
  <2>1. FileTypes'
    BY <1>1, <1>6 DEF ConcatSends, fileVars, FileTypes
  <2>2. held[t] \in Packets
    BY <1>1, <1>6 DEF ConcatSends, ThreadTypes, PacketOrNone
  <2> DEFINE c == Send(tchan[t], held[t])
  <2>3. c \in Chan /\ c.err = tchan[t].err /\ Len(c.buf) <= ChanSize
    BY <1>1, <1>6, <2>2, ChanTypes DEF ConcatSends, HasRoom
  <2>4. /\ tchan' = [tchan EXCEPT ![t] = c] /\ held' = [held EXCEPT ![t] = None]
        /\ concat' = [concat EXCEPT ![t] = "receive"] /\ concat[t] = "send"
        /\ UNCHANGED <<request, started, inputs, producer, current>>
    BY <1>6 DEF ConcatSends, ConcatTo
  <2> HIDE DEF c
  <2>5. ThreadTypes'
    BY <1>1, <2>3, <2>4 DEF ThreadTypes, PacketOrNone
  <2> QED BY <2>1, <2>5
<1>7. CASE DiscardFileChan(t)
  <2>1. current[t] \in Files /\ fchan[current[t]].buf # <<>>
    BY <1>1, <1>7 DEF DiscardFileChan, ThreadTypes
  <2>2. FileTypes'
    BY <1>1, <1>7, <2>1, ReceiveKeepsFiles DEF DiscardFileChan
  <2>3. ThreadTypes'
    BY <1>1, <1>7 DEF DiscardFileChan, threadVars, ThreadTypes
  <2> QED BY <2>2, <2>3
<1> QED BY <1>2, <1>3, <1>4, <1>5, <1>6, <1>7 DEF Concatenating

LEMMA MergeEndTypes ==
    ASSUME MergeTypes, NEW err \in Errors \ {"open"}, merge \in {"init", "loop"}, MergeEnds(err),
           turn' \in Nat, UNCHANGED popped, heap' \in [Threads -> PacketOrNone]
    PROVE  MergeTypes'
<1>1. Close(out, err) \in Chan /\ Close(out, err).err = err /\ Close(out, err).buf = out.buf
  BY ChanTypes DEF MergeTypes
<1> QED BY <1>1 DEF MergeTypes, MergeEnds

LEMMA TakeTypes ==
    ASSUME TypeInv, UNCHANGED request, NEW t \in Threads, TakeFrom(t),
           UNCHANGED <<started, inputs, producer, concat, current, held>>
    PROVE  /\ ThreadTypes' /\ heap' \in [Threads -> PacketOrNone]
           /\ tchan'[t].err = tchan[t].err /\ tchan[t].err \in Errors
<1>1. ThreadTypes /\ heap \in [Threads -> PacketOrNone] /\ tchan[t] \in Chan
      /\ tchan[t].err \in Errors
  BY ChanTypes DEF TypeInv, MergeTypes, ThreadTypes
<1>2. CASE Exhausted(tchan[t]) /\ UNCHANGED <<heap, tchan>>
  BY <1>1, <1>2 DEF ThreadTypes
<1>3. CASE /\ tchan[t].buf # <<>> /\ heap' = [heap EXCEPT ![t] = Head(tchan[t].buf)]
           /\ tchan' = [tchan EXCEPT ![t] = Receive(@)]
  <2>1. ThreadTypes' /\ Head(tchan[t].buf) \in Packets
    BY <1>1, <1>3, ReceiveKeepsThreads
  <2>2. Receive(tchan[t]).err = tchan[t].err
    BY <1>1, <1>3, ChanTypes
  <2> QED BY <1>1, <1>3, <2>1, <2>2 DEF PacketOrNone, ThreadTypes
<1> QED BY <1>2, <1>3 DEF TakeFrom

LEMMA MergeStepTypes ==
    ASSUME TypeInv, UNCHANGED request, Merging \/ \E t \in Threads : DiscardThreadChan(t)
    PROVE  FileTypes' /\ ThreadTypes' /\ MergeTypes'
<1>1. FileTypes /\ ThreadTypes /\ MergeTypes /\ out \in Chan /\ turn \in Nat /\ Threads \subseteq Nat
  BY ThreadsAssumption, FS_CardinalityType DEF TypeInv, MergeTypes
<1>2. FileTypes'
  BY <1>1
  DEF FileTypes, Merging, MergeInit, MergePops, MergeReceives, MergeSends, DiscardThreadChan, fileVars
<1>3. CASE MergeInit
  <2>1. CASE /\ TakeFrom(turn)
             /\ IF Failed(tchan[turn])
                THEN MergeEnds(tchan[turn].err) /\ UNCHANGED turn
                ELSE turn' = turn + 1 /\ UNCHANGED <<merge, out>>
    <3>1. /\ ThreadTypes' /\ heap' \in [Threads -> PacketOrNone]
          /\ tchan[turn].err \in Errors
      BY <1>3, <2>1, TakeTypes DEF MergeInit
    <3>2. CASE Failed(tchan[turn])
      <4>1. tchan[turn].err \in Errors \ {"open"}
        BY <3>2 DEF Failed, Errors
      <4>2. MergeTypes'
        BY <1>1, <1>3, <2>1, <3>1, <3>2, <4>1, MergeEndTypes DEF MergeInit
      <4> QED BY <1>2, <3>1, <4>2
    <3>3. CASE ~Failed(tchan[turn])
      <4>1. MergeTypes'
        BY <1>1, <1>3, <2>1, <3>1, <3>3 DEF MergeInit, MergeTypes
      <4> QED BY <1>2, <3>1, <4>1
    <3> QED BY <3>2, <3>3
  <2>2. CASE ctxDone /\ MergeEnds("canceled") /\ UNCHANGED <<turn, heap, tchan>>
    <3>1. ThreadTypes'
      BY <1>1, <1>3, <2>2 DEF MergeInit, ThreadTypes
    <3>2. MergeTypes'
      <4>1. "canceled" \in Errors \ {"open"} /\ heap' \in [Threads -> PacketOrNone] /\ turn' \in Nat
        BY <1>1, <2>2 DEF Errors, MergeTypes
      <4> QED BY <1>1, <1>3, <2>2, <4>1, MergeEndTypes DEF MergeInit
    <3> QED BY <1>2, <3>1, <3>2
  <2> QED BY <1>3, <2>1, <2>2 DEF MergeInit
<1>4. CASE MergePops
  <2>1. ThreadTypes'
    BY <1>1, <1>4 DEF MergePops, ThreadTypes, threadVars
  <2>2. CASE ctxDone \/ Smallest = {}
    <3>1. CtxErr \in Errors \ {"open"} /\ heap' \in [Threads -> PacketOrNone] /\ turn' \in Nat
      BY <1>1, <1>4, <2>2, CtxErrType DEF MergePops, Errors, MergeTypes
    <3>2. MergeTypes'
      BY <1>1, <1>4, <2>2, <3>1, MergeEndTypes DEF MergePops
    <3> QED BY <1>2, <2>1, <3>2
  <2>3. CASE ~(ctxDone \/ Smallest = {})
    <3>1. turn' \in Threads /\ heap[turn'] # None
      BY <1>4, <2>3 DEF MergePops, Smallest
    <3>2. MergeTypes'
      BY <1>1, <1>4, <2>3, <3>1 DEF MergePops, MergeTypes, PacketOrNone
    <3> QED BY <1>2, <2>1, <3>2
  <2> QED BY <2>2, <2>3
<1>5. CASE MergeReceives
  <2>1. turn \in Threads /\ TakeFrom(turn)
    BY <1>1, <1>5 DEF MergeReceives, MergeTypes
  <2>2. ThreadTypes' /\ heap' \in [Threads -> PacketOrNone]
    BY <1>5, <2>1, TakeTypes DEF MergeReceives
  <2>3. MergeTypes'
    BY <1>1, <1>5, <2>1, <2>2 DEF MergeReceives, MergeTypes
  <2> QED BY <1>2, <2>2, <2>3
<1>6. CASE MergeSends
  <2>1. ThreadTypes'
    BY <1>1, <1>6 DEF MergeSends, ThreadTypes, threadVars
  <2>2. popped \in Packets /\ turn \in Threads /\ tchan[turn] \in Chan
    BY <1>1, <1>6 DEF MergeSends, MergeTypes, PacketOrNone, ThreadTypes
  <2> DEFINE c == Send(out, popped)
  <2>3. c \in Chan /\ c.err = out.err /\ Len(c.buf) <= ChanSize
    BY <1>1, <1>6, <2>2, ChanTypes, SizesAssumption DEF MergeSends, HasRoom
  <2>4. CASE Failed(tchan[turn])
    <3> DEFINE e == tchan[turn].err
    <3>1. e \in Errors \ {"open"}
      BY <2>4 DEF Failed, Errors
    <3>2. Close(c, e) \in Chan /\ Close(c, e).err = e /\ Close(c, e).buf = c.buf
      BY <2>3, <3>1, ChanTypes
    <3>3. out' = Close(c, e) /\ merge' = "end" /\ popped' = None /\ UNCHANGED <<turn, heap>>
      BY <1>6, <2>4 DEF MergeSends
    <3> HIDE DEF c, e
    <3>4. MergeTypes'
      BY <1>1, <2>3, <3>1, <3>2, <3>3 DEF MergeTypes, PacketOrNone
    <3> QED BY <1>2, <2>1, <3>4
  <2>5. CASE ~Failed(tchan[turn])
    <3>3. /\ out' = c /\ merge' = "loop" /\ popped' = None /\ UNCHANGED <<turn, heap>>
          /\ merge = "send"
      BY <1>6, <2>5 DEF MergeSends
    <3> HIDE DEF c
    <3>4. MergeTypes'
      BY <1>1, <2>3, <3>3 DEF MergeTypes, PacketOrNone
    <3> QED BY <1>2, <2>1, <3>4
  <2> QED BY <2>4, <2>5
<1>7. ASSUME NEW t \in Threads, DiscardThreadChan(t)
      PROVE  FileTypes' /\ ThreadTypes' /\ MergeTypes'
  <2>1. ThreadTypes'
    BY <1>1, <1>7, ReceiveKeepsThreads DEF DiscardThreadChan
  <2>2. MergeTypes'
    BY <1>1, <1>7 DEF DiscardThreadChan, MergeTypes, mergeVars
  <2> QED BY <1>2, <2>1, <2>2
<1> QED BY <1>3, <1>4, <1>5, <1>6, <1>7 DEF Merging

LEMMA HandlerStepTypes ==
    ASSUME TypeInv,
           \/ HandlerWrites \/ HandlerReturns \/ WriteFails \/ HandlerDiscards \/ Timeout,
           UNCHANGED <<merge, turn, popped, heap>>
    PROVE  HandlerTypes' /\ MergeTypes'
<1>1. HandlerTypes /\ MergeTypes /\ out \in Chan /\ Len(out.buf) <= ChanSize
  BY DEF TypeInv, MergeTypes
<1>2. ASSUME out.buf # <<>>, out' = Receive(out)
      PROVE  MergeTypes'
  <2>1. Receive(out) \in Chan /\ Receive(out).err = out.err /\ Len(Receive(out).buf) <= ChanSize
    BY <1>1, <1>2, ReceiveTypes
  <2> QED BY <1>1, <1>2, <2>1 DEF MergeTypes
<1>3. ASSUME UNCHANGED out
      PROVE  MergeTypes'
  BY <1>1, <1>3 DEF MergeTypes
<1>4. CASE HandlerWrites
  <2>1. Head(out.buf) \in Packets
    BY <1>1, <1>4, ReceiveTypes DEF HandlerWrites
  <2>2. answer' \in Seq(Packets)
    BY <1>1, <1>4, <2>1 DEF HandlerWrites, HandlerTypes
  <2>3. limit' \in Nat
    BY <1>1, <1>4 DEF HandlerWrites, HandlerTypes
  <2>4. handler' \in {"write", "stop"} /\ UNCHANGED ctxDone
    BY <1>1, <1>4 DEF HandlerWrites
  <2>5. HandlerTypes'
    BY <1>1, <2>2, <2>3, <2>4 DEF HandlerTypes
  <2> QED BY <1>2, <1>4, <2>5 DEF HandlerWrites
<1>5. CASE HandlerReturns \/ WriteFails
  <2>1. ctxDone' = TRUE /\ handler' = "end" /\ UNCHANGED <<limit, answer, out>>
    BY <1>5 DEF HandlerReturns, WriteFails, Returns
  <2> QED BY <1>1, <1>3, <2>1 DEF HandlerTypes
<1>6. CASE HandlerDiscards
  BY <1>1, <1>2, <1>6 DEF HandlerDiscards, handlerVars, HandlerTypes
<1>7. CASE Timeout
  BY <1>1, <1>3, <1>7 DEF Timeout, HandlerTypes
<1> QED BY <1>4, <1>5, <1>6, <1>7

(***************************************************************************)
(* The steps of Next, as the proofs below go through them.                 *)
(***************************************************************************)
FileStep(f) ==
    OfFile(LookupStarts(f) \/ LookupSends(f) \/ LookupStops(f) \/ LookupDone(f)
           \/ LookupFails(f) \/ FileCloses(f))
ThreadStep(t) ==
    OfThread(ProducerSends(t) \/ ProducerCloses(t) \/ Concatenating(t) \/ DiscardFileChan(t))
MergeStep == OfMerge(Merging \/ \E t \in Threads : DiscardThreadChan(t))
HandlerStep ==
    OfHandler(HandlerReturns \/ HandlerDiscards \/ HandlerWrites \/ WriteFails \/ Timeout)

LEMMA Steps ==
    Next => (\E f \in Files : FileStep(f)) \/ (\E t \in Threads : ThreadStep(t))
            \/ MergeStep \/ HandlerStep
  BY DEF Next, Goroutines, Environment, FileStep, ThreadStep, MergeStep, HandlerStep, Reading,
         OfFile, OfThread, OfMerge, OfHandler

LEMMA FileStepTaken ==
    ASSUME TypeInv, NEW f \in Files, FileStep(f)
    PROVE  /\ \A g \in Files : lookup'[g] = "none" <=> lookup[g] = "none"
           /\ \A g \in Files : g # f => lookup'[g] = lookup[g] /\ fchan'[g] = fchan[g] /\ left'[g] = left[g]
           /\ UNCHANGED <<request, threadVars, mergeVars, handlerVars>>
  BY DEF TypeInv, FileTypes, FileStep, OfFile, LookupStarts, LookupSends, LookupStops, LookupDone,
         LookupFails, FileCloses, LookupEnds

LEMMA StartedStep ==
    ASSUME TypeInv, [Next]_vars
    PROVE  StartedInv'
<1>1. StartedInv /\ FileTypes /\ ThreadTypes /\ request \in Requests
  BY DEF TypeInv
<1>2. \A t \in Threads : \A i \in DOMAIN request.files[t] : File(t, i) \in Files /\ i \in Nat
  BY <1>1, RequestTypes DEF File
<1>3. ASSUME NEW f \in Files, FileStep(f)
      PROVE  StartedInv'
  BY <1>1, <1>2, <1>3, FileStepTaken DEF StartedInv, File, threadVars
<1>4. ASSUME UNCHANGED <<request, started, lookup>>
      PROVE  StartedInv'
  BY <1>1, <1>4 DEF StartedInv, File
<1>5. ASSUME NEW t \in Threads, ThreadStep(t)
      PROVE  StartedInv'
  <2>1. CASE ProducerSends(t)
    <3> DEFINE f == File(t, started[t] + 1)
    <3>1. /\ started[t] \in Nat /\ started[t] + 1 \in DOMAIN request.files[t] /\ f \in Files
      BY <1>1, <1>2, <2>1, RequestTypes DEF ProducerSends, ThreadTypes
    <3>2. /\ started' = [started EXCEPT ![t] = @ + 1] /\ lookup' = [lookup EXCEPT ![f] = "started"]
          /\ UNCHANGED request
      BY <1>5, <2>1 DEF ThreadStep, OfThread, ProducerSends, File
    <3> SUFFICES ASSUME NEW u \in Threads, NEW i \in DOMAIN request.files[u]
                 PROVE  lookup'[File(u, i)] = "none" <=> i > started'[u]
      BY <3>2 DEF StartedInv, File
    <3>3. File(u, i) = f => t = u /\ i = started[t] + 1
      BY <1>1, <3>1, RequestsAssumption DEF File
    <3>4. /\ lookup[File(u, i)] = "none" <=> i > started[u]
          /\ File(u, i) \in Files /\ i \in Nat
      BY <1>1, <1>2 DEF StartedInv
    <3> HIDE DEF f
    <3>5. CASE File(u, i) = f
      BY <1>1, <3>1, <3>2, <3>3, <3>4, <3>5 DEF FileTypes, ThreadTypes
    <3>6. CASE File(u, i) # f /\ u = t
      <4>1. i # started[t] + 1
        BY <3>6 DEF f
      <4> QED BY <1>1, <3>1, <3>2, <3>4, <3>6, <4>1 DEF FileTypes, ThreadTypes
    <3>7. CASE File(u, i) # f /\ u # t
      BY <1>1, <3>1, <3>2, <3>4, <3>7 DEF FileTypes, ThreadTypes
    <3> QED BY <3>5, <3>6, <3>7
  <2>2. CASE ~ProducerSends(t)
    BY <1>4, <1>5, <2>2 DEF ThreadStep, OfThread, ProducerCloses, Concatenating, ConcatNext,
       ConcatReceives, ConcatSends, DiscardFileChan, fileVars, threadVars
  <2> QED BY <2>1, <2>2
<1>6. ASSUME MergeStep
      PROVE  StartedInv'
  BY <1>4, <1>6 DEF MergeStep, OfMerge, Merging, MergeInit, MergePops, MergeReceives, MergeSends,
     DiscardThreadChan, fileVars, threadVars
<1>7. ASSUME HandlerStep
      PROVE  StartedInv'
  BY <1>4, <1>7 DEF HandlerStep, OfHandler, fileVars, threadVars
<1>8. CASE UNCHANGED vars
  BY <1>4, <1>8 DEF vars, fileVars, threadVars
<1> QED BY <1>3, <1>5, <1>6, <1>7, <1>8, Steps

LEMMA TypeStep ==
    ASSUME TypeInv, [Next]_vars
    PROVE  TypeInv'
<1>1. FileTypes /\ ThreadTypes /\ MergeTypes /\ HandlerTypes /\ request \in Requests
  BY DEF TypeInv
<1>2. StartedInv'
  BY StartedStep
<1>3. UNCHANGED request => request' \in Requests
  BY <1>1
<1>4. UNCHANGED <<request, threadVars>> => ThreadTypes'
  BY <1>1 DEF ThreadTypes, threadVars
<1>5. UNCHANGED mergeVars => MergeTypes'
  BY <1>1 DEF MergeTypes, mergeVars
<1>6. UNCHANGED handlerVars => HandlerTypes'
  BY <1>1 DEF HandlerTypes, handlerVars
<1>7. UNCHANGED fileVars => FileTypes'
  BY <1>1 DEF FileTypes, fileVars
<1>8. ASSUME NEW f \in Files, FileStep(f)
      PROVE  TypeInv'
  <2>1. FileTypes'
    BY <1>8, FileStepTypes DEF FileStep, OfFile, Reading
  <2> QED BY <1>2, <1>3, <1>4, <1>5, <1>6, <1>8, <2>1 DEF FileStep, OfFile, TypeInv
<1>9. ASSUME NEW t \in Threads, ThreadStep(t)
      PROVE  TypeInv'
  <2>1. FileTypes' /\ ThreadTypes'
    BY <1>9, ThreadStepTypes DEF ThreadStep, OfThread
  <2> QED BY <1>2, <1>3, <1>5, <1>6, <1>9, <2>1 DEF ThreadStep, OfThread, TypeInv
<1>10. ASSUME MergeStep
       PROVE  TypeInv'
  <2>1. FileTypes' /\ ThreadTypes' /\ MergeTypes'
    BY <1>10, MergeStepTypes DEF MergeStep, OfMerge
  <2> QED BY <1>2, <1>3, <1>6, <1>10, <2>1 DEF MergeStep, OfMerge, TypeInv
<1>11. ASSUME HandlerStep
       PROVE  TypeInv'
  <2>1. HandlerTypes' /\ MergeTypes'
    BY <1>11, HandlerStepTypes DEF HandlerStep, OfHandler
  <2> QED BY <1>2, <1>3, <1>4, <1>7, <1>11, <2>1 DEF HandlerStep, OfHandler, TypeInv
<1>12. CASE UNCHANGED vars
  BY <1>2, <1>3, <1>4, <1>5, <1>6, <1>7, <1>12 DEF vars, TypeInv
<1> QED BY <1>8, <1>9, <1>10, <1>11, <1>12, Steps

LEMMA TypeInvariant == Spec => []TypeInv
  BY InitTypes, TypeStep, PTL DEF Spec

(* Types, the bounds of the channels, and which goroutine closes which,    *)
(* whatever the order of the goroutines, with any faults and timeouts.     *)
THEOREM TypeOKHolds == Spec => []TypeOK
<1>1. TypeInv => TypeOK
  <2> SUFFICES ASSUME TypeInv PROVE TypeOK
    OBVIOUS
  <2>1. FileTypes /\ ThreadTypes /\ MergeTypes /\ HandlerTypes
    BY DEF TypeInv
  <2>2. \A c \in Chan : Len(c.buf) <= ChanSize => ChanOK(c)
    BY DEF Chan, ChanOK, Errors
  <2>3. \A f \in Files : ChanOK(fchan[f]) /\ (Closed(fchan[f]) <=> lookup[f] = "end")
    BY <2>1, <2>2 DEF FileTypes, Closed
  <2>4. \A t \in Threads :
          /\ ChanOK(tchan[t]) /\ (Closed(tchan[t]) <=> concat[t] = "end")
          /\ started[t] \in 0 .. Len(request.files[t])
          /\ inputs[t] \in Seq(Files) /\ Len(inputs[t]) <= InputsSize
          /\ concat[t] \in {"receive", "send"} => current[t] # None
    <3>1. \A t \in Threads : Len(request.files[t]) \in Nat
      BY RequestTypes DEF TypeInv
    <3> QED BY <2>1, <2>2, <3>1 DEF ThreadTypes, Closed
  <2>5. ChanOK(out) /\ (Closed(out) <=> merge = "end")
    BY <2>1, <2>2 DEF MergeTypes, Closed
  <2> QED
    BY <2>1, <2>3, <2>4, <2>5
    DEF TypeOK, FileTypes, ThreadTypes, MergeTypes, HandlerTypes, PacketOrNone
<1> QED BY <1>1, TypeInvariant, PTL

-----------------------------------------------------------------------------
(***************************************************************************)
(* Sequences: what moves from the end of one to the beginning of another.  *)
(***************************************************************************)
LEMMA Cons ==
    ASSUME NEW S, NEW h \in S, NEW s \in Seq(S)
    PROVE  /\ <<h>> \o s \in Seq(S) /\ <<h>> \o s # <<>>
           /\ Head(<<h>> \o s) = h /\ Tail(<<h>> \o s) = s
           /\ Len(<<h>> \o s) = Len(s) + 1 /\ (<<h>> \o s)[1] = h
           /\ \A i \in 1 .. Len(s) : (<<h>> \o s)[i + 1] = s[i]
<1> DEFINE u == <<h>> \o s
<1>1. <<h>> \in Seq(S) /\ Len(<<h>>) = 1 /\ <<h>>[1] = h /\ Len(s) \in Nat
  OBVIOUS
<1>2. /\ u \in Seq(S) /\ Len(u) = Len(s) + 1 /\ u[1] = h
      /\ \A i \in 1 .. Len(s) : u[i + 1] = s[i]
  BY <1>1, ConcatProperties
<1> HIDE DEF u
<1>3. u # <<>> /\ Head(u) = h
  BY <1>1, <1>2
<1>4. /\ Tail(u) \in Seq(S) /\ Len(Tail(u)) = Len(s)
      /\ \A i \in 1 .. Len(Tail(u)) : Tail(u)[i] = u[i + 1]
  BY <1>1, <1>2, <1>3, HeadTailProperties
<1>5. Tail(u) = s
  BY <1>2, <1>4, SeqEqual
<1> QED BY <1>2, <1>3, <1>5 DEF u

LEMMA Uncons ==
    ASSUME NEW S, NEW s \in Seq(S), s # <<>>
    PROVE  Head(s) \in S /\ Tail(s) \in Seq(S) /\ s = <<Head(s)>> \o Tail(s)
<1>1. /\ Head(s) \in S /\ Tail(s) \in Seq(S) /\ Len(Tail(s)) = Len(s) - 1
      /\ \A i \in 1 .. Len(Tail(s)) : Tail(s)[i] = s[i + 1]
      /\ Len(s) \in Nat /\ Len(s) # 0 /\ s[1] = Head(s)
  BY HeadTailProperties, EmptySeq
<1> DEFINE u == <<Head(s)>> \o Tail(s)
<1>2. /\ u \in Seq(S) /\ Len(u) = Len(s) /\ u[1] = s[1]
      /\ \A i \in 1 .. Len(Tail(s)) : u[i + 1] = Tail(s)[i]
  BY <1>1, Cons
<1> HIDE DEF u
<1>3. ASSUME NEW i \in 1 .. Len(s)
      PROVE  s[i] = u[i]
  <2>1. CASE i = 1
    BY <1>2, <2>1
  <2>2. CASE i # 1
    <3>1. i - 1 \in 1 .. Len(Tail(s)) /\ (i - 1) + 1 = i
      BY <1>1, <2>2
    <3> QED BY <1>1, <1>2, <3>1
  <2> QED BY <2>1, <2>2
<1>4. s = u
  BY <1>2, <1>3, SeqEqual
<1> QED BY <1>1, <1>4 DEF u

LEMMA TailMoves ==
    ASSUME NEW S, NEW a \in Seq(S), NEW b \in Seq(S), a # <<>>
    PROVE  /\ a \o b # <<>> /\ Tail(a \o b) = Tail(a) \o b /\ Head(a \o b) = Head(a)
<1>1. Head(a) \in S /\ Tail(a) \in Seq(S) /\ a = <<Head(a)>> \o Tail(a)
  BY Uncons
<1>2. a \o b = <<Head(a)>> \o (Tail(a) \o b) /\ Tail(a) \o b \in Seq(S)
  <2>1. <<Head(a)>> \in Seq(S)
    BY <1>1
  <2>2. (<<Head(a)>> \o Tail(a)) \o b = <<Head(a)>> \o (Tail(a) \o b)
    BY <1>1, <2>1, ConcatAssociative
  <2> QED BY <1>1, <2>2, ConcatProperties
<1> QED BY <1>1, <1>2, Cons

LEMMA EmptyFront ==
    ASSUME NEW S, NEW a \in Seq(S), NEW b \in Seq(S), a \o b = b
    PROVE  a = <<>>
<1>1. Len(a \o b) = Len(a) + Len(b) /\ Len(a) \in Nat /\ Len(b) \in Nat
  BY ConcatProperties
<1>2. Len(a) = 0
  BY <1>1
<1> QED BY <1>2, EmptySeq

LEMMA HeadMoves ==
    ASSUME NEW S, NEW a \in Seq(S), NEW b \in Seq(S), b # <<>>
    PROVE  /\ Append(a, Head(b)) \in Seq(S) /\ Append(a, Head(b)) \o Tail(b) = a \o b
<1>1. Head(b) \in S /\ Tail(b) \in Seq(S) /\ b = <<Head(b)>> \o Tail(b) /\ <<Head(b)>> \in Seq(S)
  BY Uncons
<1>2. Append(a, Head(b)) = a \o <<Head(b)>> /\ Append(a, Head(b)) \in Seq(S)
  BY <1>1, AppendIsConcat
<1>3. (a \o <<Head(b)>>) \o Tail(b) = a \o (<<Head(b)>> \o Tail(b))
  BY <1>1, ConcatAssociative
<1> QED BY <1>1, <1>2, <1>3

LEMMA AppendMoves ==
    ASSUME NEW S, NEW a \in Seq(S), NEW b \in Seq(S), NEW p \in S
    PROVE  /\ a \o Append(b, p) = (a \o b) \o <<p>>
           /\ Append(a \o b, p) = (a \o b) \o <<p>>
<1>1. <<p>> \in Seq(S) /\ a \o b \in Seq(S)
  BY ConcatProperties
<1>2. Append(b, p) = b \o <<p>> /\ Append(a \o b, p) = (a \o b) \o <<p>>
  BY <1>1, AppendIsConcat
<1>3. (a \o b) \o <<p>> = a \o (b \o <<p>>)
  BY <1>1, ConcatAssociative
<1> QED BY <1>2, <1>3

(* What may be there, in front of a buffer or behind it.                   *)
Opt(x) == IF x = None THEN <<>> ELSE <<x>>

LEMMA OptTypes ==
    /\ Opt(None) = <<>> /\ Opt(None) \in Seq(Packets)
    /\ \A p \in Packets : p # None /\ Opt(p) = <<p>> /\ Opt(p) \in Seq(Packets)
  BY NoneAssumption DEF Opt

LEMMA BehindMoves ==
    ASSUME NEW a \in Seq(Packets), NEW b \in Seq(Packets), NEW p \in Packets
    PROVE  /\ a \o Append(b, p) \o Opt(None) = a \o b \o Opt(p)
           /\ a \o b \o Opt(p) = Append(a \o b \o Opt(None), p)
<1>1. a \o b \in Seq(Packets) /\ (a \o b) \o <<>> = a \o b
  BY ConcatProperties, ConcatEmptySeq
<1>2. a \o Append(b, p) = (a \o b) \o <<p>> /\ Append(a \o b, p) = (a \o b) \o <<p>>
  BY AppendMoves
<1>3. (a \o b) \o <<p>> \in Seq(Packets) /\ ((a \o b) \o <<p>>) \o <<>> = (a \o b) \o <<p>>
  <2>1. <<p>> \in Seq(Packets)
    OBVIOUS
  <2> QED BY <1>1, <2>1, ConcatProperties, ConcatEmptySeq
<1> QED BY <1>1, <1>2, <1>3, OptTypes

LEMMA FrontMoves ==
    ASSUME NEW b \in Seq(Packets), NEW c \in Seq(Packets)
    PROVE  /\ b # <<>> => Opt(Head(b)) \o Tail(b) \o c = Opt(None) \o b \o c
           /\ \A p \in Packets : Opt(p) \o b \o c = <<p>> \o (Opt(None) \o b \o c)
<1>1. Opt(None) \o b = b
  BY OptTypes, ConcatEmptySeq
<1>2. ASSUME b # <<>>
      PROVE  Opt(Head(b)) \o Tail(b) = b
  <2>1. Head(b) \in Packets /\ b = <<Head(b)>> \o Tail(b)
    BY <1>2, Uncons
  <2> QED BY <2>1, OptTypes
<1>3. ASSUME NEW p \in Packets
      PROVE  (Opt(p) \o b) \o c = <<p>> \o (b \o c)
  <2>1. Opt(p) = <<p>> /\ <<p>> \in Seq(Packets)
    BY OptTypes
  <2> QED BY <2>1, ConcatAssociative
<1> QED BY <1>1, <1>2, <1>3

-----------------------------------------------------------------------------
(***************************************************************************)
(* The places of the packets: Prec is their order within a thread, Upto    *)
(* are those up to the n-th of the i-th file.                              *)
(***************************************************************************)
Of(r, t, p) ==
    \E i \in DOMAIN r.files[t] : \E k \in DOMAIN r.found[r.files[t][i]] : p = Packet(r, t, i, k)

Prec(r, t, p, q) ==
    \E i, j \in DOMAIN r.files[t] :
    \E k \in DOMAIN r.found[r.files[t][i]], l \in DOMAIN r.found[r.files[t][j]] :
        /\ p = Packet(r, t, i, k) /\ q = Packet(r, t, j, l)
        /\ i < j \/ (i = j /\ k < l)

Upto(r, t, i, n, p) ==
    \E j \in DOMAIN r.files[t] : \E k \in DOMAIN r.found[r.files[t][j]] :
        p = Packet(r, t, j, k) /\ (j < i \/ (j = i /\ k <= n))

LEMMA PlaceTypes ==
    ASSUME NEW r \in Requests, NEW t \in Threads, NEW i \in DOMAIN r.files[t]
    PROVE  /\ r.files[t] \in Seq(Files) /\ r.files[t][i] \in Files /\ i \in Nat \ {0}
           /\ r.found[r.files[t][i]] \in Seq(Packets)
           /\ \A k \in DOMAIN r.found[r.files[t][i]] :
                 k \in Nat \ {0} /\ Packet(r, t, i, k) \in Packets
<1>1. r.files[t] \in Seq(Files) /\ r.found \in [Files -> Seq(Packets)]
  BY RequestTypes
<1>2. r.files[t][i] \in Files /\ i \in Nat \ {0}
  BY <1>1
<1> QED BY <1>1, <1>2 DEF Packet

LEMMA PrecOrders ==
    ASSUME NEW r \in Requests, NEW t \in Threads, NEW p, NEW q, Prec(r, t, p, q)
    PROVE  p # q /\ Time[p] <= Time[q] /\ Of(r, t, p) /\ Of(r, t, q)
<1>1. PICK i \in DOMAIN r.files[t], j \in DOMAIN r.files[t] :
         \E k \in DOMAIN r.found[r.files[t][i]], l \in DOMAIN r.found[r.files[t][j]] :
            /\ p = Packet(r, t, i, k) /\ q = Packet(r, t, j, l)
            /\ i < j \/ (i = j /\ k < l)
  BY DEF Prec
<1>2. PICK k \in DOMAIN r.found[r.files[t][i]], l \in DOMAIN r.found[r.files[t][j]] :
            /\ p = Packet(r, t, i, k) /\ q = Packet(r, t, j, l)
            /\ i < j \/ (i = j /\ k < l)
  BY <1>1
<1>3. i \in Nat /\ j \in Nat /\ k \in Nat /\ l \in Nat
  BY PlaceTypes
<1>4. Packet(r, t, i, k) = Packet(r, t, j, l) => i = j /\ k = l
  BY FoundAssumption
<1>5. i < j \/ (i = j /\ k <= l) => Time[Packet(r, t, i, k)] <= Time[Packet(r, t, j, l)]
  BY FoundAssumption
<1>6. Of(r, t, p) /\ Of(r, t, q)
  BY <1>2 DEF Of
<1> QED BY <1>2, <1>3, <1>4, <1>5, <1>6

LEMMA OneThread ==
    ASSUME NEW r \in Requests, NEW t \in Threads, NEW u \in Threads, NEW p,
           Of(r, t, p), Of(r, u, p)
    PROVE  t = u
<1>1. PICK i \in DOMAIN r.files[t] : \E k \in DOMAIN r.found[r.files[t][i]] : p = Packet(r, t, i, k)
  BY DEF Of
<1>2. PICK k \in DOMAIN r.found[r.files[t][i]] : p = Packet(r, t, i, k)
  BY <1>1
<1>3. PICK j \in DOMAIN r.files[u] : \E l \in DOMAIN r.found[r.files[u][j]] : p = Packet(r, u, j, l)
  BY DEF Of
<1>4. PICK l \in DOMAIN r.found[r.files[u][j]] : p = Packet(r, u, j, l)
  BY <1>3
<1>5. Packet(r, t, i, k) = Packet(r, u, j, l) => t = u
  BY FoundAssumption
<1> QED BY <1>2, <1>4, <1>5

LEMMA UptoGrows ==
    ASSUME NEW r \in Requests, NEW t \in Threads, NEW i \in Nat, NEW n \in Int,
           NEW j \in Nat, NEW l \in Int, i < j \/ (i = j /\ n <= l),
           NEW p, Upto(r, t, i, n, p)
    PROVE  Upto(r, t, j, l, p)
<1>1. PICK g \in DOMAIN r.files[t] : \E k \in DOMAIN r.found[r.files[t][g]] :
         p = Packet(r, t, g, k) /\ (g < i \/ (g = i /\ k <= n))
  BY DEF Upto
<1>2. PICK k \in DOMAIN r.found[r.files[t][g]] :
         p = Packet(r, t, g, k) /\ (g < i \/ (g = i /\ k <= n))
  BY <1>1
<1>3. g \in Nat /\ k \in Nat
  BY PlaceTypes
<1>4. g < j \/ (g = j /\ k <= l)
  BY <1>2, <1>3
<1> QED BY <1>2, <1>4 DEF Upto

LEMMA UptoNext ==
    ASSUME NEW r \in Requests, NEW t \in Threads, NEW i \in DOMAIN r.files[t], NEW n \in Nat,
           n + 1 \in DOMAIN r.found[r.files[t][i]]
    PROVE  LET q == Packet(r, t, i, n + 1) IN
           /\ Of(r, t, q) /\ Upto(r, t, i, n + 1, q)
           /\ \A p : Upto(r, t, i, n, p) => Prec(r, t, p, q)
           /\ \A p : Upto(r, t, i, n + 1, p) => Upto(r, t, i, n, p) \/ p = q
<1> DEFINE q == Packet(r, t, i, n + 1)
<1>1. i \in Nat
  BY PlaceTypes
<1>2. Of(r, t, q) /\ Upto(r, t, i, n + 1, q)
  BY <1>1 DEF Of, Upto
<1>3. ASSUME NEW p, Upto(r, t, i, n, p)
      PROVE  Prec(r, t, p, q)
  <2>1. PICK g \in DOMAIN r.files[t] : \E k \in DOMAIN r.found[r.files[t][g]] :
           p = Packet(r, t, g, k) /\ (g < i \/ (g = i /\ k <= n))
    BY <1>3 DEF Upto
  <2>2. PICK k \in DOMAIN r.found[r.files[t][g]] :
           p = Packet(r, t, g, k) /\ (g < i \/ (g = i /\ k <= n))
    BY <2>1
  <2>3. k \in Nat
    BY PlaceTypes
  <2>4. g < i \/ (g = i /\ k < n + 1)
    BY <2>2, <2>3
  <2> QED BY <2>2, <2>4 DEF Prec
<1>4. ASSUME NEW p, Upto(r, t, i, n + 1, p)
      PROVE  Upto(r, t, i, n, p) \/ p = q
  <2>1. PICK g \in DOMAIN r.files[t] : \E k \in DOMAIN r.found[r.files[t][g]] :
           p = Packet(r, t, g, k) /\ (g < i \/ (g = i /\ k <= n + 1))
    BY <1>4 DEF Upto
  <2>2. PICK k \in DOMAIN r.found[r.files[t][g]] :
           p = Packet(r, t, g, k) /\ (g < i \/ (g = i /\ k <= n + 1))
    BY <2>1
  <2>3. k \in Nat
    BY PlaceTypes
  <2>4. g < i \/ (g = i /\ k <= n) \/ (g = i /\ k = n + 1)
    BY <2>2, <2>3
  <2> QED BY <2>2, <2>4 DEF Upto
<1> QED BY <1>2, <1>3, <1>4

(* Nothing lies between the end of a file and the beginning of the next.   *)
LEMMA UptoNextFile ==
    ASSUME NEW r \in Requests, NEW t \in Threads, NEW i \in Nat, NEW n \in Int,
           i \in DOMAIN r.files[t] => n = Len(r.found[r.files[t][i]]),
           NEW p, Upto(r, t, i + 1, 0, p)
    PROVE  Upto(r, t, i, n, p)
<1>1. PICK g \in DOMAIN r.files[t] : \E k \in DOMAIN r.found[r.files[t][g]] :
         p = Packet(r, t, g, k) /\ (g < i + 1 \/ (g = i + 1 /\ k <= 0))
  BY DEF Upto
<1>2. PICK k \in DOMAIN r.found[r.files[t][g]] :
         p = Packet(r, t, g, k) /\ (g < i + 1 \/ (g = i + 1 /\ k <= 0))
  BY <1>1
<1>3. g \in Nat /\ k \in Nat \ {0} /\ r.found[r.files[t][g]] \in Seq(Packets)
  BY PlaceTypes
<1>4. g < i \/ g = i
  BY <1>2, <1>3
<1>5. g = i => k <= n
  BY <1>3
<1> QED BY <1>2, <1>4, <1>5 DEF Upto

(* At the end of the last file everything is behind.                       *)
LEMMA UptoAll ==
    ASSUME NEW r \in Requests, NEW t \in Threads, NEW n \in Int,
           Len(r.files[t]) \in DOMAIN r.files[t] => n = Len(r.found[r.files[t][Len(r.files[t])]]),
           NEW p, Of(r, t, p)
    PROVE  Upto(r, t, Len(r.files[t]), n, p)
<1>1. PICK g \in DOMAIN r.files[t] : \E k \in DOMAIN r.found[r.files[t][g]] : p = Packet(r, t, g, k)
  BY DEF Of
<1>2. PICK k \in DOMAIN r.found[r.files[t][g]] : p = Packet(r, t, g, k)
  BY <1>1
<1>3. /\ g \in Nat /\ k \in Nat \ {0} /\ r.found[r.files[t][g]] \in Seq(Packets)
      /\ r.files[t] \in Seq(Files)
  BY PlaceTypes
<1>4. g < Len(r.files[t]) \/ (g = Len(r.files[t]) /\ k <= n)
  BY <1>3
<1> QED BY <1>2, <1>4 DEF Upto

(* A sequence of packets of a thread in their order.                       *)
Ascending(r, t, s) ==
    /\ \A m \in DOMAIN s : Of(r, t, s[m])
    /\ \A m, n \in DOMAIN s : m < n => Prec(r, t, s[m], s[n])

LEMMA AscendingAppend ==
    ASSUME NEW r, NEW t, NEW s \in Seq(Packets), NEW p \in Packets,
           Ascending(r, t, s), Of(r, t, p), \A m \in DOMAIN s : Prec(r, t, s[m], p)
    PROVE  Ascending(r, t, Append(s, p))
<1> DEFINE u == Append(s, p)
<1>1. /\ u \in Seq(Packets) /\ Len(u) = Len(s) + 1 /\ u[Len(s) + 1] = p
      /\ \A i \in 1 .. Len(s) : u[i] = s[i]
      /\ DOMAIN s = 1 .. Len(s) /\ DOMAIN u = 1 .. Len(s) + 1 /\ Len(s) \in Nat
  BY AppendProperties
<1> HIDE DEF u
<1>2. \A m \in DOMAIN u : m \in DOMAIN s \/ m = Len(s) + 1
  BY <1>1
<1>3. \A m, n \in DOMAIN u : m < n => m \in DOMAIN s
  BY <1>1
<1> QED BY <1>1, <1>2, <1>3 DEF Ascending, u

LEMMA AscendingCons ==
    ASSUME NEW r, NEW t, NEW s \in Seq(Packets), NEW p \in Packets, Ascending(r, t, <<p>> \o s)
    PROVE  Ascending(r, t, s) /\ Of(r, t, p) /\ \A m \in DOMAIN s : Prec(r, t, p, s[m])
<1> DEFINE u == <<p>> \o s
<1>1. /\ u \in Seq(Packets) /\ Len(u) = Len(s) + 1 /\ u[1] = p
      /\ \A i \in 1 .. Len(s) : u[i + 1] = s[i]
      /\ DOMAIN s = 1 .. Len(s) /\ DOMAIN u = 1 .. Len(s) + 1 /\ Len(s) \in Nat
  BY Cons
<1> HIDE DEF u
<1>2. Ascending(r, t, u)
  BY DEF u
<1>3. 1 \in DOMAIN u /\ \A m \in DOMAIN s : m + 1 \in DOMAIN u /\ 1 < m + 1
  BY <1>1
<1>4. \A m, n \in DOMAIN s : m < n => m + 1 < n + 1
  BY <1>1
<1> QED BY <1>1, <1>2, <1>3, <1>4 DEF Ascending

-----------------------------------------------------------------------------
(***************************************************************************)
(* What has been found in a file and is not yet taken from its channel.    *)
(***************************************************************************)
Pending(f) == fchan[f].buf \o left[f]
Unstarted(f) == lookup[f] \in {"none", "started"}
Read(f) == IF Unstarted(f) THEN 0 ELSE Len(request.found[f]) - Len(Pending(f))

FileInv == \A f \in Files :
    /\ Unstarted(f) => Pending(f) = <<>>
    /\ Len(Pending(f)) <= Len(request.found[f])
    /\ ~Unstarted(f) =>
          \A m \in DOMAIN Pending(f) : Pending(f)[m] = request.found[f][Read(f) + m]
    /\ fchan[f].err = "nil" => left[f] = <<>> \/ f \in cut

(* How a step may change that.                                             *)
Stays(f) == Pending(f)' = Pending(f) /\ (Unstarted(f)' <=> Unstarted(f))
Starts(f) ==
    /\ Unstarted(f) /\ ~Unstarted(f)'
    /\ Pending(f)' = request.found[f] \/ (Pending(f)' = <<>> /\ f \in cut')
Breaks(f) == Unstarted(f) /\ ~Unstarted(f)' /\ Pending(f)' = Pending(f) /\ fchan'[f].err = "error"
Receives(t) ==
    /\ concat[t] = "receive" /\ fchan[current[t]].buf # <<>> /\ ~FileFailed(t)
    /\ held' = [held EXCEPT ![t] = Head(fchan[current[t]].buf)]
    /\ fchan' = [fchan EXCEPT ![current[t]] = Receive(@)]
    /\ ConcatTo(t, "send")
    /\ UNCHANGED <<tchan, gone, lookup, left, cut, started, inputs, producer, current>>
Gives(f) ==
    /\ fchan[f].buf # <<>> /\ Pending(f)' = Tail(Pending(f)) /\ lookup'[f] = lookup[f]
    /\ \E t \in Threads : f = current[t] /\ (Receives(t) \/ DiscardFileChan(t))
Moves(f) ==
    /\ Stays(f) \/ Starts(f) \/ Breaks(f) \/ Gives(f)
    /\ fchan[f].err # "open" => fchan'[f].err = fchan[f].err /\ left'[f] = left[f]
    /\ fchan'[f].err = "nil" /\ fchan[f].err = "open" => left'[f] = <<>> \/ f \in cut'
    /\ cut \subseteq cut' /\ request' = request

LEMMA StaysMoves ==
    ASSUME NEW f \in Files, UNCHANGED <<request, cut>>,
           fchan'[f] = fchan[f], left'[f] = left[f], Unstarted(f)' <=> Unstarted(f)
    PROVE  Moves(f)
  BY DEF Moves, Stays, Pending

LEMMA ReceiveMoves ==
    ASSUME TypeInv, UNCHANGED <<request, cut, lookup, left>>, NEW t \in Threads,
           current[t] \in Files, fchan[current[t]].buf # <<>>,
           fchan' = [fchan EXCEPT ![current[t]] = Receive(@)],
           Receives(t) \/ DiscardFileChan(t),
           NEW f \in Files
    PROVE  Moves(f)
<1>1. fchan \in [Files -> Chan] /\ left[f] \in Seq(Packets)
  BY DEF TypeInv, FileTypes
<1>2. CASE f # current[t]
  <2>1. fchan'[f] = fchan[f]
    BY <1>1, <1>2
  <2> QED BY <1>2, <2>1, StaysMoves DEF Unstarted
<1>3. CASE f = current[t]
  <2>1. fchan'[f].buf = Tail(fchan[f].buf) /\ fchan'[f].err = fchan[f].err
    BY <1>1, <1>3, ChanTypes
  <2>2. fchan[f].buf \in Seq(Packets)
    BY <1>1, ChanTypes
  <2>3. Pending(f)' = Tail(Pending(f))
    <3>1. fchan[f].buf # <<>> /\ left'[f] = left[f]
      BY <1>3
    <3>2. Tail(fchan[f].buf \o left[f]) = Tail(fchan[f].buf) \o left[f]
      BY <1>1, <2>2, <3>1, TailMoves
    <3> QED BY <2>1, <3>1, <3>2 DEF Pending
  <2> QED BY <1>3, <2>1, <2>3 DEF Moves, Gives
<1> QED BY <1>2, <1>3

LEMMA FileStepMoves ==
    ASSUME TypeInv, FileInv, NEW g \in Files, FileStep(g), NEW f \in Files
    PROVE  Moves(f)
<1>1. /\ fchan \in [Files -> Chan] /\ left \in [Files -> Seq(Packets)] /\ request' = request
      /\ lookup \in [Files -> {"none", "started", "reading", "end"}]
      /\ request.found[f] \in Seq(Packets) /\ fchan[g] \in Chan
      /\ fchan[g].buf \in Seq(Packets) /\ left[g] \in Seq(Packets)
      /\ fchan[g].err = "open" <=> lookup[g] # "end"
  BY RequestTypes, ChanTypes DEF TypeInv, FileTypes, FileStep, OfFile
<1>2. cut \subseteq cut'
  BY DEF FileStep, OfFile, LookupStarts, LookupSends, LookupStops, LookupDone, LookupFails, FileCloses
<1>3. CASE f # g
  <2>1. lookup'[f] = lookup[f] /\ fchan'[f] = fchan[f] /\ left'[f] = left[f]
    BY <1>3, FileStepTaken
  <2> QED BY <1>1, <1>2, <2>1 DEF Moves, Stays, Pending, Unstarted
<1>4. ASSUME f = g, NEW err \in Errors \ {"open"}, LookupEnds(f, err), fchan[f].err = "open",
             UNCHANGED left, err = "nil" => left[f] = <<>> \/ f \in cut'
      PROVE  /\ Pending(f)' = Pending(f) /\ lookup'[f] = "end" /\ fchan'[f].err = err
             /\ (Stays(f) \/ Breaks(f)) => Moves(f)
  <2>1. /\ Close(fchan[f], err).err = err /\ Close(fchan[f], err).buf = fchan[f].buf
    BY <1>1, <1>4, ChanTypes
  <2>2. fchan'[f].err = err /\ fchan'[f].buf = fchan[f].buf /\ lookup'[f] = "end"
    BY <1>1, <1>4, <2>1 DEF LookupEnds
  <2> QED BY <1>1, <1>2, <1>4, <2>2 DEF Pending, Moves
<1>5. CASE f = g /\ LookupStarts(f)
  <2>1. /\ fchan' = fchan /\ lookup[f] = "started" /\ lookup'[f] = "reading"
        /\ left'[f] = IF f \in gone THEN <<>> ELSE request.found[f]
        /\ f \in gone => f \in cut'
    BY <1>1, <1>5 DEF LookupStarts
  <2>2. Pending(f) = <<>>
    BY <2>1 DEF FileInv, Unstarted
  <2>3. fchan[f].buf = <<>>
    BY <1>1, <1>5, <2>2, ConcatEqualIffEmpty DEF Pending
  <2>4. Pending(f)' = left'[f]
    BY <1>1, <2>1, <2>3, ConcatEmptySeq, EmptySeq DEF Pending
  <2> QED BY <1>1, <1>2, <1>5, <2>1, <2>4 DEF Moves, Starts, Unstarted
<1>6. CASE f = g /\ LookupFails(f)
  <2>1. LookupEnds(f, "error") /\ UNCHANGED left /\ lookup[f] \in {"started", "reading"}
        /\ "error" \in Errors \ {"open"} /\ fchan[f].err = "open"
    BY <1>1, <1>6 DEF LookupFails, Errors
  <2>2. Pending(f)' = Pending(f) /\ lookup'[f] = "end" /\ fchan'[f].err = "error"
    BY <1>4, <1>6, <2>1
  <2>3. Stays(f) \/ Breaks(f)
    BY <2>1, <2>2 DEF Stays, Breaks, Unstarted
  <2> QED BY <1>4, <1>6, <2>1, <2>3
<1>7. CASE f = g /\ LookupSends(f)
  <2> DEFINE p == Head(left[f])
  <2>1. p \in Packets
    BY <1>1, <1>7, HeadTailProperties DEF LookupSends
  <2>2. Send(fchan[f], p).buf = Append(fchan[f].buf, p) /\ Send(fchan[f], p).err = fchan[f].err
    BY <1>1, <1>7, <2>1, ChanTypes
  <2>3. /\ fchan'[f].buf = Append(fchan[f].buf, p) /\ fchan'[f].err = fchan[f].err
        /\ left'[f] = Tail(left[f]) /\ left[f] # <<>> /\ lookup' = lookup /\ lookup[f] = "reading"
    BY <1>1, <1>7, <2>2 DEF LookupSends
  <2>4. Pending(f)' = Pending(f)
    BY <1>1, <1>7, <2>3, HeadMoves DEF Pending
  <2> QED BY <1>1, <1>2, <1>7, <2>3, <2>4 DEF Moves, Stays, Unstarted
<1>8. CASE f = g /\ (LookupStops(f) \/ LookupDone(f))
  <2>1. /\ LookupEnds(f, CtxErr) /\ UNCHANGED left /\ lookup[f] = "reading" /\ fchan[f].err = "open"
        /\ CtxErr = "nil" => left[f] = <<>> \/ f \in cut'
    BY <1>1, <1>8, CtxErrType DEF LookupStops, LookupDone, Interrupted
  <2>2. CtxErr \in Errors \ {"open"}
    BY CtxErrType DEF Errors
  <2>3. Pending(f)' = Pending(f) /\ lookup'[f] = "end"
    BY <1>4, <1>8, <2>1, <2>2
  <2>4. Stays(f)
    BY <2>1, <2>3 DEF Stays, Unstarted
  <2> QED BY <1>4, <1>8, <2>1, <2>2, <2>4
<1>9. CASE f = g /\ FileCloses(f)
  BY <1>1, <1>9, StaysMoves DEF FileCloses, Unstarted
<1> QED BY <1>3, <1>5, <1>6, <1>7, <1>8, <1>9 DEF FileStep, OfFile

LEMMA FileMoves ==
    ASSUME TypeInv, FileInv, [Next]_vars, NEW f \in Files
    PROVE  Moves(f)
<1>1. ASSUME NEW g \in Files, FileStep(g)
      PROVE  Moves(f)
  BY <1>1, FileStepMoves
<1>2. ASSUME NEW t \in Threads, ThreadStep(t)
      PROVE  Moves(f)
  <2>1. request' = request
    BY <1>2 DEF ThreadStep, OfThread
  <2>2. CASE ProducerSends(t)
    <3>1. /\ UNCHANGED <<left, cut, fchan>>
          /\ lookup' = [lookup EXCEPT ![request.files[t][started[t] + 1]] = "started"]
      BY <2>2 DEF ProducerSends
    <3>2. lookup[request.files[t][started[t] + 1]] = "none"
      <4>1. started[t] \in Nat /\ started[t] + 1 \in DOMAIN request.files[t]
        BY <2>2, RequestTypes DEF ProducerSends, TypeInv, ThreadTypes
      <4> QED BY <4>1 DEF TypeInv, StartedInv, File
    <3>3. Unstarted(f)' <=> Unstarted(f)
      BY <3>1, <3>2 DEF Unstarted, TypeInv, FileTypes
    <3> QED BY <2>1, <3>1, <3>3, StaysMoves
  <2>3. CASE ProducerCloses(t) \/ ConcatNext(t) \/ ConcatSends(t)
    <3>1. UNCHANGED <<left, cut, fchan, lookup>>
      BY <2>3 DEF ProducerCloses, ConcatNext, ConcatSends, fileVars
    <3> QED BY <2>1, <3>1, StaysMoves DEF Unstarted
  <2>4. CASE ConcatReceives(t)
    <3>1. current[t] \in Files /\ UNCHANGED <<left, cut, lookup>>
      BY <2>4 DEF ConcatReceives, TypeInv, ThreadTypes
    <3>2. CASE UNCHANGED fchan
      BY <2>1, <3>1, <3>2, StaysMoves DEF Unstarted
    <3>3. CASE Receives(t)
      BY <2>1, <3>1, <3>3, ReceiveMoves DEF Receives
    <3> QED BY <2>4, <3>2, <3>3 DEF ConcatReceives, Receives
  <2>5. CASE DiscardFileChan(t)
    <3>1. current[t] \in Files /\ UNCHANGED <<left, cut, lookup>> /\ fchan[current[t]].buf # <<>>
          /\ fchan' = [fchan EXCEPT ![current[t]] = Receive(@)]
      BY <2>5 DEF DiscardFileChan, TypeInv, ThreadTypes
    <3> QED BY <2>1, <2>5, <3>1, ReceiveMoves
  <2> QED BY <1>2, <2>2, <2>3, <2>4, <2>5 DEF ThreadStep, OfThread, Concatenating
<1>3. ASSUME UNCHANGED <<request, fileVars>>
      PROVE  Moves(f)
  BY <1>3, StaysMoves DEF fileVars, Unstarted
<1>4. MergeStep => UNCHANGED <<request, fileVars>>
  BY DEF MergeStep, OfMerge, Merging, MergeInit, MergePops, MergeReceives, MergeSends,
     DiscardThreadChan
<1>5. HandlerStep \/ UNCHANGED vars => UNCHANGED <<request, fileVars>>
  BY DEF HandlerStep, OfHandler, vars
<1> QED BY <1>1, <1>2, <1>3, <1>4, <1>5, Steps

LEMMA FileStepInv ==
    ASSUME TypeInv, FileInv, [Next]_vars
    PROVE  FileInv'
<1> SUFFICES ASSUME NEW f \in Files
             PROVE  /\ Unstarted(f)' => Pending(f)' = <<>>
                    /\ Len(Pending(f)') <= Len(request'.found[f])
                    /\ ~Unstarted(f)' => \A m \in DOMAIN Pending(f)' :
                          Pending(f)'[m] = request'.found[f][Read(f)' + m]
                    /\ fchan'[f].err = "nil" => left'[f] = <<>> \/ f \in cut'
  BY DEF FileInv
<1>1. Moves(f) /\ TypeInv'
  BY FileMoves, TypeStep
<1>2. /\ request' = request /\ request.found[f] \in Seq(Packets)
      /\ Pending(f) \in Seq(Packets) /\ Pending(f)' \in Seq(Packets)
      /\ fchan[f].err \in Errors
  <2>1. /\ fchan[f].buf \in Seq(Packets) /\ left[f] \in Seq(Packets)
        /\ fchan'[f].buf \in Seq(Packets) /\ left'[f] \in Seq(Packets)
        /\ fchan[f].err \in Errors
    BY <1>1, ChanTypes DEF TypeInv, FileTypes
  <2> QED BY <1>1, <2>1, ConcatProperties, RequestTypes DEF Pending, TypeInv, Moves
<1>3. fchan'[f].err = "nil" => left'[f] = <<>> \/ f \in cut'
  BY <1>1, <1>2 DEF Moves, FileInv, Errors
<1>4. CASE Stays(f)
  BY <1>2, <1>3, <1>4 DEF Stays, FileInv, Read
<1>5. CASE Starts(f)
  <2>1. ~Unstarted(f)' /\ Read(f)' = Len(request.found[f]) - Len(Pending(f)')
    BY <1>2, <1>5 DEF Starts, Read
  <2>2. CASE Pending(f)' = request.found[f]
    BY <1>2, <1>3, <2>1, <2>2
  <2>3. CASE Pending(f)' = <<>>
    BY <1>2, <1>3, <2>1, <2>3
  <2> QED BY <1>5, <2>2, <2>3 DEF Starts
<1>6. CASE Breaks(f)
  <2>1. ~Unstarted(f)' /\ Pending(f)' = <<>>
    BY <1>6 DEF Breaks, FileInv
  <2> QED BY <1>2, <1>3, <2>1
<1>7. CASE Gives(f)
  <2>1. /\ Pending(f) # <<>> /\ Pending(f)' = Tail(Pending(f))
        /\ Unstarted(f)' <=> Unstarted(f)
    <3>1. fchan[f].buf \in Seq(Packets) /\ left[f] \in Seq(Packets)
      BY ChanTypes DEF TypeInv, FileTypes
    <3>2. Pending(f) # <<>>
      BY <1>7, <3>1, ConcatEqualIffEmpty DEF Gives, Pending
    <3> QED BY <1>7, <3>2 DEF Gives, Unstarted
  <2>2. /\ Len(Pending(f)') = Len(Pending(f)) - 1
        /\ \A m \in 1 .. Len(Pending(f)') : Pending(f)'[m] = Pending(f)[m + 1]
    BY <1>2, <2>1, HeadTailProperties
  <2>3. ~Unstarted(f) /\ ~Unstarted(f)'
    BY <2>1 DEF FileInv
  <2>4. Len(Pending(f)) <= Len(request.found[f])
        /\ \A m \in DOMAIN Pending(f) : Pending(f)[m] = request.found[f][Read(f) + m]
    BY <2>3 DEF FileInv
  <2>5. Read(f)' = Read(f) + 1 /\ Read(f) \in Int
    BY <1>2, <2>2, <2>3 DEF Read
  <2>6. \A m \in DOMAIN Pending(f)' : /\ m + 1 \in DOMAIN Pending(f)
                                      /\ Pending(f)'[m] = Pending(f)[m + 1]
                                      /\ Read(f) + (m + 1) = Read(f)' + m
    BY <1>2, <2>2, <2>5
  <2> QED BY <1>2, <1>3, <2>2, <2>3, <2>4, <2>6
<1> QED BY <1>1, <1>4, <1>5, <1>6, <1>7 DEF Moves

(* The number of packets taken from a file only grows.                     *)
LEMMA ReadMoves ==
    ASSUME TypeInv, FileInv, [Next]_vars, NEW f \in Files
    PROVE  /\ Read(f) \in Nat /\ Read(f)' \in Nat /\ Read(f) <= Read(f)'
           /\ \/ Read(f)' = Read(f)
              \/ f \in cut'
              \/ Failed(fchan'[f]) /\ fchan[f].err = "open"
              \/ Gives(f) /\ Read(f)' = Read(f) + 1
<1>1. Moves(f) /\ TypeInv' /\ FileInv'
  BY FileMoves, TypeStep, FileStepInv
<1>2. /\ request' = request /\ request.found[f] \in Seq(Packets)
      /\ Pending(f) \in Seq(Packets) /\ Pending(f)' \in Seq(Packets)
  <2>1. /\ fchan[f].buf \in Seq(Packets) /\ left[f] \in Seq(Packets)
        /\ fchan'[f].buf \in Seq(Packets) /\ left'[f] \in Seq(Packets)
    BY <1>1, ChanTypes DEF TypeInv, FileTypes
  <2> QED BY <1>1, <2>1, ConcatProperties, RequestTypes DEF Pending, TypeInv, Moves
<1>3. Read(f) \in Nat /\ Read(f)' \in Nat
  BY <1>1, <1>2 DEF FileInv, Read
<1>4. CASE Stays(f)
  BY <1>2, <1>3, <1>4 DEF Stays, Read
<1>5. CASE Starts(f)
  BY <1>2, <1>3, <1>5 DEF Starts, Read
<1>6. CASE Breaks(f)
  <2>1. Read(f) = 0 /\ Failed(fchan'[f]) /\ lookup[f] # "end"
    BY <1>6 DEF Breaks, Read, Failed, Unstarted
  <2> QED BY <1>3, <2>1 DEF TypeInv, FileTypes
<1>7. CASE Gives(f)
  <2>1. Pending(f) # <<>> /\ (Unstarted(f)' <=> Unstarted(f))
    <3>1. fchan[f].buf \in Seq(Packets) /\ left[f] \in Seq(Packets)
      BY ChanTypes DEF TypeInv, FileTypes
    <3> QED BY <1>7, <3>1, ConcatEqualIffEmpty DEF Gives, Pending, Unstarted
  <2>2. ~Unstarted(f) /\ ~Unstarted(f)'
    BY <2>1 DEF FileInv
  <2>3. Len(Pending(f)') = Len(Pending(f)) - 1
    BY <1>2, <1>7, <2>1, HeadTailProperties DEF Gives
  <2>4. Read(f)' = Read(f) + 1
    BY <1>2, <2>2, <2>3 DEF Read
  <2> QED BY <1>3, <1>7, <2>4
<1> QED BY <1>1, <1>4, <1>5, <1>6, <1>7 DEF Moves

-----------------------------------------------------------------------------
(***************************************************************************)
(* The files of a thread pass through inputs in their order.               *)
(***************************************************************************)
Taken(t) == started[t] - Len(inputs[t])

QueueInv == \A t \in Threads :
    /\ Len(inputs[t]) <= started[t]
    /\ \A m \in DOMAIN inputs[t] : inputs[t][m] = File(t, Taken(t) + m)
    /\ current[t] = IF Taken(t) = 0 THEN None ELSE File(t, Taken(t))
    /\ producer[t] = "closed" => started[t] = Len(request.files[t]) \/ ctxDone

LEMMA RequestStays == [Next]_vars => request' = request
  BY DEF Next, Goroutines, Environment, OfFile, OfThread, OfMerge, OfHandler, vars

LEMMA FilesDiffer ==
    ASSUME request \in Requests
    PROVE  \A t, u \in Threads :
           \A i \in DOMAIN request.files[t], j \in DOMAIN request.files[u] :
              File(t, i) = File(u, j) => t = u /\ i = j
  BY RequestsAssumption DEF File

LEMMA TakenTypes ==
    ASSUME TypeInv, QueueInv, NEW t \in Threads
    PROVE  /\ Taken(t) \in Nat /\ Taken(t) <= started[t] /\ started[t] \in Nat
           /\ Len(request.files[t]) \in Nat /\ DOMAIN request.files[t] = 1 .. Len(request.files[t])
           /\ Taken(t) <= Len(request.files[t]) /\ Len(inputs[t]) \in Nat
           /\ Taken(t) # 0 => Taken(t) \in DOMAIN request.files[t]
           /\ \A i \in DOMAIN request.files[t] : i \in Nat \ {0} /\ File(t, i) \in Files
           /\ current[t] # None <=> Taken(t) # 0
<1>1. /\ started[t] \in Nat /\ inputs[t] \in Seq(Files) /\ started[t] <= Len(request.files[t])
      /\ request.files[t] \in Seq(Files)
  BY RequestTypes DEF TypeInv, ThreadTypes
<1>2. /\ Len(inputs[t]) \in Nat /\ Len(request.files[t]) \in Nat
      /\ DOMAIN request.files[t] = 1 .. Len(request.files[t])
      /\ \A i \in DOMAIN request.files[t] : i \in Nat \ {0} /\ File(t, i) \in Files
  BY <1>1 DEF File
<1>3. /\ Taken(t) \in Nat /\ Taken(t) <= started[t]
  BY <1>1, <1>2 DEF QueueInv, Taken
<1>4. Taken(t) # 0 => Taken(t) \in DOMAIN request.files[t]
  BY <1>1, <1>2, <1>3
<1>5. current[t] # None <=> Taken(t) # 0
  <2>1. current[t] = IF Taken(t) = 0 THEN None ELSE File(t, Taken(t))
    BY DEF QueueInv
  <2>2. Taken(t) # 0 => File(t, Taken(t)) # None
    BY <1>2, <1>4, NoneAssumption
  <2> QED BY <2>1, <2>2
<1> QED BY <1>1, <1>2, <1>3, <1>4, <1>5

(* The current file of a thread is not a file of another.                  *)
LEMMA OneReader ==
    ASSUME TypeInv, QueueInv, NEW t \in Threads, NEW u \in Threads,
           NEW i \in DOMAIN request.files[t], current[u] = File(t, i)
    PROVE  u = t /\ i = Taken(t)
<1>1. Taken(u) # 0 /\ current[u] = File(u, Taken(u)) /\ Taken(u) \in DOMAIN request.files[u]
  <2>1. File(t, i) # None
    BY TakenTypes, NoneAssumption
  <2> QED BY <2>1, TakenTypes DEF QueueInv
<1>2. PICK j \in DOMAIN request.files[u] : j = Taken(u)
  BY <1>1
<1>3. \A a, b \in Threads : \A x \in DOMAIN request.files[a], y \in DOMAIN request.files[b] :
         File(a, x) = File(b, y) => a = b /\ x = y
  BY FilesDiffer DEF TypeInv
<1>4. File(u, j) = File(t, i)
  BY <1>1, <1>2
<1>5. u = t
  BY <1>3, <1>4
<1> QED BY <1>2, <1>3, <1>4, <1>5

(* A step takes the next file out of inputs, or none.                      *)
Same(t) ==
    /\ UNCHANGED <<started[t], inputs[t], current[t], producer[t]>>
Sends(t) ==
    /\ started'[t] = started[t] + 1 /\ inputs'[t] = Append(inputs[t], File(t, started[t] + 1))
    /\ started[t] + 1 \in DOMAIN request.files[t] /\ producer[t] = "loop"
    /\ UNCHANGED <<current[t], producer[t]>>
Takes(t) ==
    /\ inputs[t] # <<>> /\ inputs'[t] = Tail(inputs[t]) /\ current'[t] = Head(inputs[t])
    /\ concat[t] = "range" /\ concat'[t] = "receive"
    /\ UNCHANGED <<started[t], producer[t], tchan, held[t], fchan, lookup, left, cut>>
Stops(t) ==
    /\ UNCHANGED <<started[t], inputs[t], current[t]>>
    /\ producer'[t] = "closed" /\ (started[t] = Len(request.files[t]) \/ ctxDone)

LEMMA QueueMoves ==
    ASSUME TypeInv, [Next]_vars, NEW t \in Threads
    PROVE  /\ Same(t) \/ Sends(t) \/ Takes(t) \/ Stops(t)
           /\ request' = request /\ (ctxDone => ctxDone')
<1>1. ThreadTypes /\ request.files[t] \in Seq(Files)
  BY RequestTypes DEF TypeInv
<1>2. ASSUME NEW u \in Threads, ThreadStep(u)
      PROVE  Same(t) \/ Sends(t) \/ Takes(t) \/ Stops(t)
  <2>1. CASE ProducerSends(u)
    <3>1. CASE u = t
      <4>1. started[t] + 1 \in DOMAIN request.files[t]
        BY <1>1, <2>1, <3>1 DEF ProducerSends, ThreadTypes
      <4>2. Sends(t)
        BY <1>1, <2>1, <3>1, <4>1 DEF ProducerSends, ThreadTypes, Sends, File
      <4> QED BY <4>2
    <3>2. CASE u # t
      BY <1>1, <2>1, <3>2 DEF ProducerSends, ThreadTypes, Same
    <3> QED BY <3>1, <3>2
  <2>2. CASE ProducerCloses(u)
    BY <1>1, <2>2 DEF ProducerCloses, ThreadTypes, Same, Stops
  <2>3. CASE ConcatNext(u)
    <3>1. CASE Same(t)
      BY <3>1
    <3>2. CASE ~Same(t)
      <4>1. inputs[u] # <<>> /\ u = t
        BY <1>1, <2>3, <3>2 DEF ConcatNext, ThreadTypes, Same
      <4>2. Takes(t)
        BY <1>1, <2>3, <4>1 DEF ConcatNext, ConcatTo, ThreadTypes, Takes, fileVars
      <4> QED BY <4>2
    <3> QED BY <3>1, <3>2
  <2>4. CASE ConcatReceives(u) \/ ConcatSends(u) \/ DiscardFileChan(u)
    BY <1>1, <2>4 DEF ConcatReceives, ConcatSends, DiscardFileChan, threadVars, Same
  <2> QED BY <1>2, <2>1, <2>2, <2>3, <2>4 DEF ThreadStep, OfThread, Concatenating
<1>3. UNCHANGED <<started, inputs, current, producer>> => Same(t)
  BY DEF Same
<1>4. ASSUME NEW f \in Files, FileStep(f)
      PROVE  UNCHANGED <<request, started, inputs, current, producer, ctxDone>>
  BY <1>4 DEF FileStep, OfFile, threadVars, handlerVars
<1>5. MergeStep => UNCHANGED <<request, started, inputs, current, producer, ctxDone>>
  BY DEF MergeStep, OfMerge, Merging, MergeInit, MergePops, MergeReceives, MergeSends,
     DiscardThreadChan, threadVars, handlerVars
<1>6. HandlerStep => /\ UNCHANGED <<request, started, inputs, current, producer>>
                     /\ ctxDone => ctxDone'
  <2>1. HandlerStep => UNCHANGED <<request, started, inputs, current, producer>>
    BY DEF HandlerStep, OfHandler, threadVars
  <2>2. HandlerStep => ctxDone' = ctxDone \/ ctxDone' = TRUE
    BY DEF HandlerStep, OfHandler, HandlerReturns, HandlerDiscards, HandlerWrites,
       WriteFails, Timeout, Returns, handlerVars
  <2> QED BY <2>1, <2>2
<1>7. UNCHANGED vars => UNCHANGED <<request, started, inputs, current, producer, ctxDone>>
  BY DEF vars, threadVars, handlerVars
<1>8. \A u \in Threads : ThreadStep(u) => UNCHANGED <<request, ctxDone>>
  BY DEF ThreadStep, OfThread, handlerVars
<1> QED BY <1>2, <1>3, <1>4, <1>5, <1>6, <1>7, <1>8, Steps

LEMMA QueueStep ==
    ASSUME TypeInv, QueueInv, [Next]_vars
    PROVE  QueueInv'
<1> SUFFICES ASSUME NEW t \in Threads
             PROVE  /\ Len(inputs'[t]) <= started'[t]
                    /\ \A m \in DOMAIN inputs'[t] : inputs'[t][m] = File(t, Taken(t)' + m)
                    /\ current'[t] = IF Taken(t)' = 0 THEN None ELSE File(t, Taken(t)')
                    /\ producer'[t] = "closed" => started'[t] = Len(request'.files[t]) \/ ctxDone'
  <2>1. request' = request
    BY RequestStays
  <2> QED BY <2>1 DEF QueueInv, File
<1>1. /\ Same(t) \/ Sends(t) \/ Takes(t) \/ Stops(t)
      /\ request' = request /\ (ctxDone => ctxDone')
  BY QueueMoves
<1>2. /\ started[t] \in Nat /\ inputs[t] \in Seq(Files) /\ Taken(t) \in Nat
      /\ Len(inputs[t]) \in Nat
      /\ \A i \in DOMAIN request.files[t] : File(t, i) \in Files
  BY TakenTypes DEF TypeInv, ThreadTypes
<1>3. /\ Len(inputs[t]) <= started[t]
      /\ \A m \in DOMAIN inputs[t] : inputs[t][m] = File(t, Taken(t) + m)
      /\ current[t] = IF Taken(t) = 0 THEN None ELSE File(t, Taken(t))
      /\ producer[t] = "closed" => started[t] = Len(request.files[t]) \/ ctxDone
  BY DEF QueueInv
<1>4. CASE Same(t) \/ Stops(t)
  BY <1>1, <1>2, <1>3, <1>4 DEF Same, Stops, Taken
<1>5. CASE Sends(t)
  <2> DEFINE f == File(t, started[t] + 1)
  <2>1. /\ inputs'[t] = Append(inputs[t], f) /\ f \in Files
        /\ started'[t] = started[t] + 1 /\ current'[t] = current[t] /\ producer'[t] = "loop"
    BY <1>2, <1>5 DEF Sends
  <2>2. /\ Len(inputs'[t]) = Len(inputs[t]) + 1 /\ DOMAIN inputs'[t] = 1 .. Len(inputs[t]) + 1
        /\ \A m \in 1 .. Len(inputs[t]) : inputs'[t][m] = inputs[t][m]
        /\ inputs'[t][Len(inputs[t]) + 1] = f /\ DOMAIN inputs[t] = 1 .. Len(inputs[t])
    <3> HIDE DEF f
    <3> QED BY <1>2, <2>1, AppendProperties
  <2>3. Taken(t)' = Taken(t) /\ Taken(t) + (Len(inputs[t]) + 1) = started[t] + 1
    BY <1>2, <2>1, <2>2 DEF Taken
  <2>4. \A m \in DOMAIN inputs'[t] : inputs'[t][m] = File(t, Taken(t)' + m)
    <3>1. \A m \in DOMAIN inputs'[t] : m \in DOMAIN inputs[t] \/ m = Len(inputs[t]) + 1
      BY <1>2, <2>2
    <3> QED BY <1>3, <2>2, <2>3, <3>1
  <2> QED BY <1>2, <1>3, <2>1, <2>2, <2>3, <2>4
<1>6. CASE Takes(t)
  <2>1. /\ Len(inputs'[t]) = Len(inputs[t]) - 1 /\ DOMAIN inputs'[t] = 1 .. Len(inputs[t]) - 1
        /\ \A m \in 1 .. Len(inputs[t]) - 1 : inputs'[t][m] = inputs[t][m + 1]
        /\ current'[t] = inputs[t][1] /\ DOMAIN inputs[t] = 1 .. Len(inputs[t])
        /\ Len(inputs[t]) # 0
    BY <1>2, <1>6, HeadTailProperties, EmptySeq DEF Takes
  <2>2. Taken(t)' = Taken(t) + 1
    BY <1>2, <1>6, <2>1 DEF Taken, Takes
  <2>3. \A m \in DOMAIN inputs'[t] : m + 1 \in DOMAIN inputs[t] /\ Taken(t)' + m = Taken(t) + (m + 1)
    <3> SUFFICES ASSUME NEW m \in 1 .. Len(inputs[t]) - 1
                 PROVE  m + 1 \in 1 .. Len(inputs[t]) /\ Taken(t)' + m = Taken(t) + (m + 1)
      BY <2>1
    <3> QED BY <1>2, <2>2
  <2>4. 1 \in DOMAIN inputs[t]
    BY <1>2, <2>1
  <2> QED BY <1>1, <1>2, <1>3, <1>6, <2>1, <2>2, <2>3, <2>4 DEF Takes
<1> QED BY <1>1, <1>4, <1>5, <1>6

(* Files of no thread are never read.                                      *)
Outside == \A f \in Files :
    (\A t \in Threads : \A i \in DOMAIN request.files[t] : File(t, i) # f) => lookup[f] = "none"

LEMMA OutsideStep ==
    ASSUME TypeInv, Outside, [Next]_vars
    PROVE  Outside'
<1>1. request' = request /\ FileTypes /\ ThreadTypes
  BY RequestStays DEF TypeInv
<1>2. ASSUME NEW f \in Files, FileStep(f)
      PROVE  Outside'
  <2>1. \A g \in Files : lookup'[g] = "none" <=> lookup[g] = "none"
    BY <1>2, FileStepTaken
  <2> QED BY <1>1, <2>1 DEF Outside, File
<1>3. ASSUME NEW t \in Threads, ThreadStep(t)
      PROVE  Outside'
  <2>1. CASE ProducerSends(t)
    <3>1. /\ lookup' = [lookup EXCEPT ![File(t, started[t] + 1)] = "started"]
          /\ started[t] + 1 \in DOMAIN request.files[t]
      BY <1>1, <2>1, RequestTypes DEF ProducerSends, File, TypeInv, ThreadTypes
    <3> QED BY <1>1, <3>1 DEF Outside, File, FileTypes
  <2>2. CASE ~ProducerSends(t)
    <3>1. lookup' = lookup
      BY <1>3, <2>2 DEF ThreadStep, OfThread, ProducerCloses, Concatenating, ConcatNext,
         ConcatReceives, ConcatSends, DiscardFileChan, fileVars
    <3> QED BY <1>1, <3>1 DEF Outside, File
  <2> QED BY <2>1, <2>2
<1>4. MergeStep \/ HandlerStep \/ UNCHANGED vars => lookup' = lookup
  BY DEF MergeStep, OfMerge, Merging, MergeInit, MergePops, MergeReceives, MergeSends,
     DiscardThreadChan, fileVars, HandlerStep, OfHandler, vars
<1>5. lookup' = lookup => Outside'
  BY <1>1 DEF Outside, File
<1> QED BY <1>2, <1>3, <1>4, <1>5, Steps

-----------------------------------------------------------------------------
(***************************************************************************)
(* The files before the current one were read to their end; unless one was *)
(* closed, nothing was taken yet from those after it.                      *)
(***************************************************************************)
Finished(f) == fchan[f].buf = <<>> /\ fchan[f].err = "nil"

PastInv == \A t \in Threads :
    /\ \A i \in DOMAIN request.files[t] :
          i < Taken(t) \/ (i = Taken(t) /\ (concat[t] = "range" \/ tchan[t].err = "nil")) =>
              Finished(File(t, i))
    /\ tchan[t].err = "nil" => producer[t] = "closed" /\ inputs[t] = <<>>

UnreadInv == cut = {} => \A t \in Threads : \A i \in DOMAIN request.files[t] :
    i > Taken(t) => Read(File(t, i)) = 0 \/ Failed(fchan[File(t, i)])

ReadInv == FileInv /\ QueueInv /\ Outside /\ PastInv /\ UnreadInv

LEMMA TakenMoves ==
    ASSUME TypeInv, QueueInv, [Next]_vars, NEW t \in Threads
    PROVE  \/ Taken(t)' = Taken(t) /\ current'[t] = current[t] /\ ~Takes(t)
           \/ Takes(t) /\ Taken(t)' = Taken(t) + 1
<1>1. started[t] \in Nat /\ inputs[t] \in Seq(Files) /\ Len(inputs[t]) \in Nat
  BY TakenTypes DEF TypeInv, ThreadTypes
<1>2. CASE (Same(t) \/ Stops(t)) /\ ~Takes(t)
  BY <1>1, <1>2 DEF Same, Stops, Taken
<1>3. CASE Sends(t) /\ ~Takes(t)
  <2>1. File(t, started[t] + 1) \in Files
    BY <1>3, TakenTypes DEF Sends
  <2>2. Len(inputs'[t]) = Len(inputs[t]) + 1
    BY <1>1, <1>3, <2>1, AppendProperties DEF Sends
  <2> QED BY <1>1, <1>3, <2>2 DEF Sends, Taken
<1>4. CASE Takes(t)
  <2>1. Len(inputs'[t]) = Len(inputs[t]) - 1
    BY <1>1, <1>4, HeadTailProperties DEF Takes
  <2> QED BY <1>1, <1>4, <2>1 DEF Takes, Taken
<1> QED BY <1>2, <1>3, <1>4, QueueMoves

LEMMA FinishedStays ==
    ASSUME TypeInv, FileInv, [Next]_vars, NEW f \in Files, Finished(f)
    PROVE  Finished(f)'
<1>1. Moves(f) /\ TypeInv'
  BY FileMoves, TypeStep
<1>2. /\ left[f] \in Seq(Packets) /\ fchan'[f].buf \in Seq(Packets) /\ lookup[f] = "end"
      /\ fchan[f].err = "nil" /\ fchan[f].buf = <<>>
  BY <1>1, ChanTypes DEF TypeInv, FileTypes, Finished
<1>3. fchan'[f].err = "nil" /\ left'[f] = left[f]
  BY <1>1, <1>2 DEF Moves
<1>4. Stays(f)
  BY <1>1, <1>2 DEF Moves, Starts, Breaks, Gives, Unstarted
<1>5. fchan'[f].buf \o left[f] = left[f]
  BY <1>2, <1>3, <1>4, ConcatEmptySeq DEF Stays, Pending
<1>6. fchan'[f].buf = <<>>
  BY <1>2, <1>5, EmptyFront
<1> QED BY <1>3, <1>6 DEF Finished

(* When ConcatPacketChans gets to the end of a file, or of all.            *)
LEMMA ConcatMoves ==
    ASSUME TypeInv, [Next]_vars, NEW t \in Threads
    PROVE  /\ concat'[t] = "range" /\ concat[t] # "range" => Finished(current[t])
           /\ tchan[t].err # "open" => tchan'[t].err = tchan[t].err
           /\ tchan'[t].err = "nil" /\ tchan[t].err = "open" =>
                 concat[t] = "range" /\ producer[t] = "closed" /\ inputs[t] = <<>>
           /\ tchan'[t].err = "canceled" /\ tchan[t].err = "open" =>
                 ctxDone \/ Failed(fchan[current[t]])
<1>1. /\ ThreadTypes /\ FileTypes /\ tchan[t] \in Chan
      /\ tchan[t].err = "open" <=> concat[t] # "end"
  BY DEF TypeInv, ThreadTypes
<1>2. ASSUME tchan'[t].err = tchan[t].err, concat'[t] = "range" => concat[t] = "range"
      PROVE  /\ concat'[t] = "range" /\ concat[t] # "range" => Finished(current[t])
             /\ tchan[t].err # "open" => tchan'[t].err = tchan[t].err
             /\ tchan'[t].err = "nil" /\ tchan[t].err = "open" =>
                   concat[t] = "range" /\ producer[t] = "closed" /\ inputs[t] = <<>>
             /\ tchan'[t].err = "canceled" /\ tchan[t].err = "open" =>
                   ctxDone \/ Failed(fchan[current[t]])
  BY <1>2
<1>3. ASSUME NEW u \in Threads, ThreadStep(u), u # t
      PROVE  tchan'[t].err = tchan[t].err /\ concat'[t] = concat[t]
  BY <1>1, <1>3 DEF ThreadStep, OfThread, ProducerSends, ProducerCloses, Concatenating, ConcatNext,
     ConcatReceives, ConcatSends, ConcatEnds, ConcatTo, DiscardFileChan, threadVars, ThreadTypes
<1>4. ASSUME NEW err \in Errors \ {"open"}, ConcatEnds(t, err)
      PROVE  tchan'[t].err = err /\ concat'[t] = "end"
  <2>1. Close(tchan[t], err).err = err
    BY <1>1, ChanTypes
  <2> QED BY <1>1, <1>4, <2>1 DEF ConcatEnds, ConcatTo, ThreadTypes
<1>5. CASE ConcatNext(t)
  <2>1. concat[t] = "range" /\ tchan[t].err = "open"
    BY <1>1, <1>5 DEF ConcatNext
  <2>2. CASE inputs[t] # <<>> /\ UNCHANGED tchan
    BY <1>2, <2>1, <2>2
  <2>3. CASE inputs[t] = <<>> /\ producer[t] = "closed" /\ ConcatEnds(t, "nil")
    <3>1. tchan'[t].err = "nil" /\ concat'[t] = "end"
      BY <1>4, <2>3 DEF Errors
    <3> QED BY <2>1, <2>3, <3>1
  <2> QED BY <1>5, <2>2, <2>3 DEF ConcatNext
<1>6. CASE ConcatReceives(t)
  <2>1. concat[t] = "receive" /\ tchan[t].err = "open" /\ fchan[current[t]] \in Chan
    BY <1>1, <1>6 DEF ConcatReceives, ThreadTypes, FileTypes
  <2>2. CASE ConcatTo(t, "send") /\ UNCHANGED tchan
    BY <1>1, <1>2, <2>2 DEF ConcatTo, ThreadTypes
  <2>3. CASE FileFailed(t) /\ ConcatEnds(t, fchan[current[t]].err)
    <3>1. fchan[current[t]].err \in Errors \ {"open", "nil"} /\ Failed(fchan[current[t]])
      BY <2>3 DEF FileFailed, Failed, Errors
    <3>2. tchan'[t].err = fchan[current[t]].err /\ concat'[t] = "end"
      BY <1>4, <2>3, <3>1
    <3> QED BY <2>1, <3>1, <3>2
  <2>4. CASE Exhausted(fchan[current[t]]) /\ ~FileFailed(t) /\ ConcatTo(t, "range") /\ UNCHANGED tchan
    <3>1. Finished(current[t])
      BY <2>1, <2>4, ChanTypes DEF Exhausted, Closed, FileFailed, Failed, Finished, Errors
    <3> QED BY <2>1, <2>4, <3>1
  <2>5. CASE ctxDone /\ ConcatEnds(t, "canceled")
    <3>1. tchan'[t].err = "canceled" /\ concat'[t] = "end"
      BY <1>4, <2>5 DEF Errors
    <3> QED BY <2>1, <2>5, <3>1
  <2> QED BY <1>6, <2>2, <2>3, <2>4, <2>5 DEF ConcatReceives
<1>7. CASE ConcatSends(t)
  <2>1. held[t] \in Packets
    BY <1>1, <1>7 DEF ConcatSends, ThreadTypes, PacketOrNone
  <2>2. Send(tchan[t], held[t]).err = tchan[t].err
    BY <1>1, <2>1, ChanTypes
  <2>3. tchan'[t].err = tchan[t].err /\ concat'[t] = "receive"
    BY <1>1, <1>7, <2>2 DEF ConcatSends, ConcatTo, ThreadTypes
  <2> QED BY <1>2, <2>3
<1>8. ASSUME UNCHANGED <<tchan, concat>>
      PROVE  tchan'[t].err = tchan[t].err /\ concat'[t] = concat[t]
  BY <1>8
<1>9. ASSUME NEW u \in Threads, tchan[u].buf # <<>>, tchan' = [tchan EXCEPT ![u] = Receive(@)]
      PROVE  tchan'[t].err = tchan[t].err
  <2>1. Receive(tchan[u]).err = tchan[u].err
    BY <1>1, <1>9, ChanTypes DEF ThreadTypes
  <2> QED BY <1>1, <1>9, <2>1 DEF ThreadTypes
<1>10. ASSUME MergeStep
       PROVE  tchan'[t].err = tchan[t].err /\ concat'[t] = concat[t]
  <2>1. UNCHANGED concat
    BY <1>10 DEF MergeStep, OfMerge, Merging, MergeInit, MergePops, MergeReceives, MergeSends,
       DiscardThreadChan, threadVars
  <2>2. \/ UNCHANGED tchan
        \/ \E u \in Threads : tchan[u].buf # <<>> /\ tchan' = [tchan EXCEPT ![u] = Receive(@)]
    <3>1. merge = "receive" => turn \in Threads
      BY DEF TypeInv, MergeTypes
    <3> QED BY <1>10, <3>1 DEF MergeStep, OfMerge, Merging, MergeInit, MergePops, MergeReceives,
            MergeSends, DiscardThreadChan, threadVars, TakeFrom
  <2> QED BY <1>8, <1>9, <2>1, <2>2
<1>11. ASSUME NEW f \in Files, FileStep(f)
       PROVE  UNCHANGED <<tchan, concat>>
  BY <1>11 DEF FileStep, OfFile, threadVars
<1>12. HandlerStep \/ UNCHANGED vars => UNCHANGED <<tchan, concat>>
  BY DEF HandlerStep, OfHandler, threadVars, vars
<1>13. ProducerSends(t) \/ ProducerCloses(t) \/ DiscardFileChan(t) => UNCHANGED <<tchan, concat>>
  BY DEF ProducerSends, ProducerCloses, DiscardFileChan, threadVars
<1>14. ASSUME NEW u \in Threads, ThreadStep(u)
       PROVE  \/ tchan'[t].err = tchan[t].err /\ concat'[t] = concat[t]
              \/ ConcatNext(t) \/ ConcatReceives(t) \/ ConcatSends(t)
  BY <1>3, <1>8, <1>13, <1>14 DEF ThreadStep, OfThread, Concatenating
<1>15. \/ tchan'[t].err = tchan[t].err /\ concat'[t] = concat[t]
       \/ ConcatNext(t) \/ ConcatReceives(t) \/ ConcatSends(t)
  BY <1>8, <1>10, <1>11, <1>12, <1>14, Steps
<1> QED BY <1>2, <1>5, <1>6, <1>7, <1>15

LEMMA PastStep ==
    ASSUME TypeInv, FileInv, QueueInv, PastInv, [Next]_vars
    PROVE  PastInv'
<1>1. request' = request
  BY RequestStays
<1> SUFFICES ASSUME NEW t \in Threads
             PROVE  /\ \A i \in DOMAIN request.files[t] :
                          \/ i < Taken(t)'
                          \/ i = Taken(t)' /\ (concat'[t] = "range" \/ tchan'[t].err = "nil")
                          => Finished(File(t, i))'
                    /\ tchan'[t].err = "nil" => producer'[t] = "closed" /\ inputs'[t] = <<>>
  BY <1>1 DEF PastInv, File
<1>2. /\ concat'[t] = "range" /\ concat[t] # "range" => Finished(current[t])
      /\ tchan[t].err # "open" => tchan'[t].err = tchan[t].err
      /\ tchan'[t].err = "nil" /\ tchan[t].err = "open" =>
            concat[t] = "range" /\ producer[t] = "closed" /\ inputs[t] = <<>>
  BY ConcatMoves
<1>3. tchan[t].err = "open" <=> concat[t] # "end"
  BY DEF TypeInv, ThreadTypes
<1>4. /\ \A i \in DOMAIN request.files[t] : i \in Nat /\ File(t, i) \in Files
      /\ Taken(t) \in Nat
      /\ current[t] = IF Taken(t) = 0 THEN None ELSE File(t, Taken(t))
      /\ inputs[t] \in Seq(Files)
  BY TakenTypes DEF QueueInv, TypeInv, ThreadTypes
<1>5. /\ \A i \in DOMAIN request.files[t] :
            i < Taken(t) \/ (i = Taken(t) /\ (concat[t] = "range" \/ tchan[t].err = "nil")) =>
                Finished(File(t, i))
      /\ tchan[t].err = "nil" => producer[t] = "closed" /\ inputs[t] = <<>>
  BY DEF PastInv
<1>6. ASSUME NEW i \in DOMAIN request.files[t],
             \/ i < Taken(t)'
             \/ i = Taken(t)' /\ (concat'[t] = "range" \/ tchan'[t].err = "nil")
      PROVE  Finished(File(t, i))
  <2>1. CASE Takes(t)
    <3>1. concat[t] = "range" /\ concat'[t] = "receive" /\ tchan'[t] = tchan[t]
          /\ Taken(t)' = Taken(t) + 1
      BY <2>1, <1>4, TakenMoves DEF Takes
    <3>2. i < Taken(t) + 1
      BY <1>2, <1>3, <1>6, <3>1
    <3> QED BY <1>4, <1>5, <3>1, <3>2
  <2>2. CASE ~Takes(t)
    <3>1. Taken(t)' = Taken(t)
      BY <2>2, TakenMoves
    <3>2. CASE i < Taken(t)
      BY <1>5, <3>2
    <3>3. CASE i = Taken(t)
      <4>1. i # 0 /\ current[t] = File(t, i)
        BY <1>4, <3>3, TakenTypes
      <4>2. concat'[t] = "range" \/ tchan'[t].err = "nil"
        BY <1>4, <1>6, <3>1, <3>3
      <4>3. concat[t] = "range" \/ tchan[t].err = "nil" \/ Finished(current[t])
        BY <1>2, <4>2
      <4> QED BY <1>5, <3>3, <4>1, <4>3
    <3> QED BY <1>6, <3>1, <3>2, <3>3
  <2> QED BY <2>1, <2>2
<1>7. ASSUME tchan'[t].err = "nil"
      PROVE  producer'[t] = "closed" /\ inputs'[t] = <<>>
  <2>1. producer[t] = "closed" /\ inputs[t] = <<>>
    BY <1>2, <1>5, <1>7
  <2>2. ~Sends(t) /\ ~Takes(t)
    BY <2>1 DEF Sends, Takes
  <2> QED BY <2>1, <2>2, QueueMoves DEF Same, Stops
<1>8. ASSUME NEW i \in DOMAIN request.files[t],
             \/ i < Taken(t)'
             \/ i = Taken(t)' /\ (concat'[t] = "range" \/ tchan'[t].err = "nil")
      PROVE  Finished(File(t, i))'
  <2>1. PICK f \in Files : f = File(t, i)
    BY <1>4
  <2>2. Finished(f)'
    BY <1>6, <1>8, <2>1, FinishedStays
  <2> QED BY <1>1, <2>1, <2>2 DEF Finished, File
<1> QED BY <1>7, <1>8

LEMMA UnreadStep ==
    ASSUME TypeInv, FileInv, QueueInv, UnreadInv, [Next]_vars
    PROVE  UnreadInv'
<1>1. request' = request
  BY RequestStays
<1>0. \A t \in Threads : \A i \in DOMAIN request.files[t] : File(t, i) \in Files
  BY TakenTypes
<1> SUFFICES ASSUME cut' = {}, NEW t \in Threads, NEW i \in DOMAIN request.files[t], i > Taken(t)',
                    NEW f \in Files, f = File(t, i)
             PROVE  Read(f)' = 0 \/ Failed(fchan'[f])
  BY <1>0, <1>1 DEF UnreadInv, File, Read, Unstarted, Pending
<1>2. i \in Nat /\ Taken(t) \in Nat
  BY TakenTypes
<1>3. i > Taken(t)
  BY <1>2, TakenMoves
<1>4. Moves(f)
  BY <1>2, FileMoves
<1>5. Read(f) = 0 \/ Failed(fchan[f])
  BY <1>3, <1>4 DEF UnreadInv, Moves
<1>6. CASE Failed(fchan[f])
  BY <1>4, <1>6 DEF Moves, Failed
<1>7. CASE Read(f) = 0
  <2>1. ~Gives(f)
    <3> SUFFICES ASSUME NEW u \in Threads, f = current[u]
                 PROVE  FALSE
      BY DEF Gives
    <3>1. i = Taken(t)
      BY OneReader
    <3> QED BY <1>2, <1>3, <3>1
  <2> QED BY <1>2, <1>7, <2>1, ReadMoves
<1> QED BY <1>5, <1>6, <1>7

LEMMA ReadStep ==
    ASSUME TypeInv, ReadInv, [Next]_vars
    PROVE  ReadInv'
  BY FileStepInv, QueueStep, OutsideStep, PastStep, UnreadStep DEF ReadInv

LEMMA InitRead == Init => ReadInv
<1> SUFFICES ASSUME Init PROVE ReadInv
  OBVIOUS
<1>1. /\ request.files \in [Threads -> Seq(Files)] /\ request.found \in [Files -> Seq(Packets)]
      /\ \A t \in Threads : \A i \in DOMAIN request.files[t] : i \in Nat \ {0} /\ File(t, i) \in Files
  <2>1. /\ request.files \in [Threads -> Seq(Files)] /\ request.found \in [Files -> Seq(Packets)]
    BY RequestTypes DEF Init
  <2> QED BY <2>1 DEF File
<1>2. \A t \in Threads : started[t] = 0 /\ inputs[t] = <<>> /\ Taken(t) = 0
  BY DEF Init, Taken
<1>3. \A f \in Files : /\ Unstarted(f) /\ lookup[f] = "none" /\ Pending(f) = <<>> /\ fchan[f].err = "open"
                       /\ Read(f) = 0
  <2>1. <<>> \o <<>> = <<>>
    BY ConcatEmptySeq, EmptySeq
  <2> QED BY <2>1 DEF Init, NewChan, Unstarted, Pending, Read
<1>4. FileInv
  <2>1. \A f \in Files : Len(request.found[f]) \in Nat /\ Len(<<>>) = 0
    BY <1>1
  <2> QED BY <1>3, <2>1 DEF FileInv
<1>5. QueueInv
  BY <1>2 DEF Init, QueueInv
<1>6. Outside
  BY <1>3 DEF Outside
<1>7. PastInv
  <2>1. \A t \in Threads : tchan[t].err = "open"
    BY DEF Init, NewChan
  <2> QED BY <1>1, <1>2, <2>1 DEF PastInv
<1>8. UnreadInv
  BY <1>1, <1>3 DEF UnreadInv
<1> QED BY <1>4, <1>5, <1>6, <1>7, <1>8 DEF ReadInv

-----------------------------------------------------------------------------
(***************************************************************************)
(* The packets on their way: Sent is the answer and what the merge handed  *)
(* on towards it, Chain is what a thread has on the heap, in its channel   *)
(* and in hand, Behind is what was taken from its files.                   *)
(***************************************************************************)
Sent == answer \o out.buf \o Opt(popped)
Chain(t) == Opt(heap[t]) \o tchan[t].buf \o Opt(held[t])
ReadNow(t) == IF current[t] = None THEN 0 ELSE Read(current[t])
Behind(t, p) == Upto(request, t, Taken(t), ReadNow(t), p)

(* While the merge and the handler go on.                                  *)
Running == merge # "end" /\ handler # "end"

Dry(t) == heap[t] = None /\ tchan[t].buf = <<>> /\ Closed(tchan[t])

(* Who has a packet on the heap.                                           *)
HeapInv ==
    /\ merge = "init" => turn >= 1 /\ \A t \in Threads : t >= turn => heap[t] = None
    /\ merge = "init" /\ handler # "end" => Sent = <<>>
    /\ merge = "receive" => heap[turn] = None /\ Of(request, turn, popped)
    /\ Running => \A t \in Threads : heap[t] = None /\ (merge = "init" => t < turn) =>
          \/ Dry(t) /\ tchan[t].err = "nil"
          \/ merge = "receive" /\ t = turn
          \/ merge = "send" /\ t = turn /\ Dry(t)

Pops(u) ==
    /\ merge \in {"init", "loop"} /\ ~ctxDone /\ u \in Smallest /\ u \in Threads
    /\ turn' = u /\ popped' = heap[u] /\ popped = None /\ merge' = "receive"
    /\ heap' = [heap EXCEPT ![u] = None]
    /\ UNCHANGED <<request, out, answer, tchan, held, handler>>

LEMMA FlowTypes ==
    ASSUME TypeInv
    PROVE  /\ answer \in Seq(Packets) /\ out.buf \in Seq(Packets) /\ Sent \in Seq(Packets)
           /\ popped = None \/ popped \in Packets
           /\ \A t \in Threads :
                 /\ tchan[t].buf \in Seq(Packets) /\ Chain(t) \in Seq(Packets)
                 /\ heap[t] = None \/ heap[t] \in Packets
                 /\ held[t] = None \/ held[t] \in Packets
<1>1. /\ answer \in Seq(Packets) /\ out.buf \in Seq(Packets)
      /\ popped = None \/ popped \in Packets
      /\ \A t \in Threads : /\ tchan[t].buf \in Seq(Packets)
                            /\ heap[t] = None \/ heap[t] \in Packets
                            /\ held[t] = None \/ held[t] \in Packets
  BY ChanTypes DEF TypeInv, HandlerTypes, MergeTypes, ThreadTypes, PacketOrNone
<1>2. \A x : x = None \/ x \in Packets => Opt(x) \in Seq(Packets)
  BY OptTypes
<1>3. Sent \in Seq(Packets)
  <2>1. answer \o out.buf \in Seq(Packets) /\ Opt(popped) \in Seq(Packets)
    BY <1>1, <1>2, ConcatProperties
  <2> QED BY <2>1, ConcatProperties DEF Sent
<1>4. ASSUME NEW t \in Threads
      PROVE  Chain(t) \in Seq(Packets)
  <2>1. /\ Opt(heap[t]) \in Seq(Packets) /\ Opt(held[t]) \in Seq(Packets)
        /\ tchan[t].buf \in Seq(Packets)
    BY <1>1, <1>2
  <2>2. Opt(heap[t]) \o tchan[t].buf \in Seq(Packets)
    BY <2>1, ConcatProperties
  <2> QED BY <2>1, <2>2, ConcatProperties DEF Chain
<1> QED BY <1>1, <1>3, <1>4

FlowOK == Sent \in Seq(Packets) /\ \A t \in Threads : Chain(t) \in Seq(Packets)

LEMMA FlowInvariant == TypeInv => FlowOK
  BY FlowTypes DEF FlowOK

LEMMA FlowNext == TypeInv' => FlowOK'
  BY FlowInvariant, PTL

(* The merge hands on packet by packet, whatever the others do.            *)
LEMMA SentMoves ==
    ASSUME TypeInv, [Next]_vars, handler' # "end"
    PROVE  /\ handler # "end"
           /\ Sent' = Sent \/ \E u \in Threads : Pops(u) /\ Sent' = Append(Sent, heap[u])
           /\ merge = "end" => merge' = "end"
<1> USE FlowTypes
<1>1. popped # None <=> merge \in {"receive", "send"}
  BY DEF TypeInv, MergeTypes
<1>2. UNCHANGED <<answer, out, popped, merge, handler>> => Sent' = Sent /\ merge' = merge
  BY DEF Sent
<1>3. ASSUME NEW f \in Files, FileStep(f)
      PROVE  UNCHANGED <<answer, out, popped, merge, handler>>
  BY <1>3 DEF FileStep, OfFile, mergeVars, handlerVars
<1>4. ASSUME NEW t \in Threads, ThreadStep(t)
      PROVE  UNCHANGED <<answer, out, popped, merge, handler>>
  BY <1>4 DEF ThreadStep, OfThread, mergeVars, handlerVars
<1>5. UNCHANGED vars => UNCHANGED <<answer, out, popped, merge, handler>>
  BY DEF vars, mergeVars, handlerVars
<1>6. ASSUME NEW err \in Errors, NEW c \in Chan, out' = Close(c, err)
      PROVE  out'.buf = c.buf
  BY <1>6, ChanTypes
<1>7. ASSUME MergeStep
      PROVE  /\ UNCHANGED <<answer, handler>>
             /\ Sent' = Sent \/ \E u \in Threads : Pops(u) /\ Sent' = Append(Sent, heap[u])
             /\ merge = "end" => merge' = "end"
  <2>1. UNCHANGED <<answer, handler, request>> /\ out \in Chan
    BY <1>7 DEF MergeStep, OfMerge, handlerVars, TypeInv, MergeTypes
  <2>2. out'.buf = out.buf /\ popped' = popped => Sent' = Sent
    BY <2>1 DEF Sent
  <2>3. CASE MergeInit
    <3>1. out'.buf = out.buf
      <4>1. CASE UNCHANGED out
        BY <4>1
      <4>2. CASE Failed(tchan[turn]) /\ MergeEnds(tchan[turn].err)
        <5>1. tchan[turn].err \in Errors
          BY <4>2 DEF Failed, Errors
        <5> QED BY <1>6, <2>1, <4>2, <5>1 DEF MergeEnds
      <4>3. CASE MergeEnds("canceled")
        BY <1>6, <2>1, <4>3 DEF MergeEnds, Errors
      <4> QED BY <2>3, <4>1, <4>2, <4>3 DEF MergeInit
    <3>2. popped' = popped /\ merge = "init"
      BY <2>3 DEF MergeInit
    <3> QED BY <2>1, <2>2, <3>1, <3>2
  <2>4. CASE MergePops
    <3>1. merge \in {"init", "loop"} /\ popped = None
      BY <1>1, <2>4 DEF MergePops
    <3>2. CASE ctxDone \/ Smallest = {}
      <4>1. MergeEnds(CtxErr) /\ popped' = popped /\ CtxErr \in Errors
        BY <2>4, <3>2, CtxErrType DEF MergePops, Errors
      <4>2. out'.buf = out.buf
        BY <1>6, <2>1, <4>1 DEF MergeEnds
      <4> QED BY <2>1, <2>2, <3>1, <4>1, <4>2
    <3>3. CASE ~(ctxDone \/ Smallest = {})
      <4>1. PICK u \in Smallest : u = turn'
        BY <2>4, <3>3 DEF MergePops
      <4>2. u \in Threads /\ heap[u] # None /\ heap[u] \in Packets
        BY <4>1 DEF Smallest
      <4>3. Pops(u)
        BY <2>1, <2>4, <3>1, <3>3, <4>1, <4>2 DEF MergePops, Pops, threadVars
      <4>4. Sent' = answer \o out.buf \o Opt(heap[u]) /\ Sent = answer \o out.buf \o Opt(None)
        BY <2>1, <3>1, <4>3 DEF Sent, Pops
      <4>5. Sent' = Append(Sent, heap[u])
        BY <4>2, <4>4, BehindMoves
      <4> QED BY <2>1, <3>1, <4>2, <4>3, <4>5
    <3> QED BY <3>2, <3>3
  <2>5. CASE MergeReceives
    BY <2>1, <2>2, <2>5 DEF MergeReceives
  <2>6. CASE MergeSends
    <3>1. merge = "send" /\ popped \in Packets /\ popped' = None
      BY <1>1, <2>6 DEF MergeSends
    <3>2. Send(out, popped) \in Chan /\ Send(out, popped).buf = Append(out.buf, popped)
      BY <2>1, <3>1, ChanTypes
    <3>3. out'.buf = Append(out.buf, popped)
      <4>1. CASE Failed(tchan[turn])
        <5>1. tchan[turn].err \in Errors /\ out' = Close(Send(out, popped), tchan[turn].err)
          BY <2>6, <4>1 DEF MergeSends, Failed, Errors
        <5> QED BY <1>6, <3>2, <5>1
      <4>2. CASE ~Failed(tchan[turn])
        BY <2>6, <3>2, <4>2 DEF MergeSends
      <4> QED BY <4>1, <4>2
    <3>4. Sent' = answer \o Append(out.buf, popped) \o Opt(None) /\ Sent = answer \o out.buf \o Opt(popped)
      BY <2>1, <3>1, <3>3 DEF Sent
    <3> QED BY <2>1, <3>1, <3>4, BehindMoves
  <2>7. CASE \E t \in Threads : DiscardThreadChan(t)
    BY <2>1, <2>2, <2>7 DEF DiscardThreadChan, mergeVars
  <2> QED BY <1>7, <2>3, <2>4, <2>5, <2>6, <2>7 DEF MergeStep, OfMerge, Merging
<1>8. ASSUME HandlerStep
      PROVE  handler # "end" /\ Sent' = Sent /\ merge' = merge
  <2>1. UNCHANGED <<merge, popped>> /\ out \in Chan
    BY <1>8 DEF HandlerStep, OfHandler, TypeInv, MergeTypes
  <2>2. CASE HandlerWrites
    <3>1. /\ answer' = Append(answer, Head(out.buf)) /\ out.buf # <<>> /\ out' = Receive(out)
          /\ handler = "write"
      BY <2>2 DEF HandlerWrites
    <3>2. out'.buf = Tail(out.buf)
      BY <2>1, <3>1, ChanTypes
    <3>3. Append(answer, Head(out.buf)) \o Tail(out.buf) = answer \o out.buf
      BY <3>1, HeadMoves
    <3> QED BY <2>1, <3>1, <3>2, <3>3 DEF Sent
  <2>3. CASE Timeout
    <3>1. UNCHANGED <<answer, out, handler>>
      BY <2>3 DEF Timeout
    <3> QED BY <2>1, <3>1 DEF Sent
  <2>4. handler' = "end" \/ HandlerWrites \/ Timeout
    BY <1>8 DEF HandlerStep, OfHandler, HandlerReturns, WriteFails, Returns, HandlerDiscards, handlerVars
  <2> QED BY <2>2, <2>3, <2>4
<1>9. CASE \/ (\E f \in Files : FileStep(f)) \/ (\E t \in Threads : ThreadStep(t)) \/ UNCHANGED vars
  <2>1. UNCHANGED <<answer, out, popped, merge, handler>>
    BY <1>3, <1>4, <1>5, <1>9
  <2> QED BY <1>2, <2>1
<1>10. CASE MergeStep
  <2>1. handler' = handler
    BY <1>7, <1>10
  <2> QED BY <1>7, <1>10, <2>1
<1>11. CASE HandlerStep
  BY <1>8, <1>11
<1> QED BY <1>9, <1>10, <1>11, Steps

LEMMA ReceivesTypes ==
    ASSUME TypeInv, NEW t \in Threads, Receives(t)
    PROVE  /\ current[t] \in Files /\ Head(fchan[current[t]].buf) \in Packets
           /\ held[t] = None /\ held'[t] = Head(fchan[current[t]].buf)
           /\ \A u \in Threads : u # t => held'[u] = held[u]
<1>1. current[t] \in Files /\ held[t] = None /\ held \in [Threads -> PacketOrNone]
  BY DEF TypeInv, ThreadTypes, Receives
<1>2. fchan[current[t]] \in Chan
  BY <1>1 DEF TypeInv, FileTypes
<1>3. Head(fchan[current[t]].buf) \in Packets
  BY <1>2, ChanTypes DEF Receives
<1> QED BY <1>1, <1>3 DEF Receives

LEMMA PopsTypes ==
    ASSUME TypeInv, NEW u \in Threads, Pops(u)
    PROVE  /\ heap[u] \in Packets /\ heap[u] # None /\ heap'[u] = None /\ Running
           /\ \A t \in Threads : t # u => heap'[t] = heap[t] /\ ~Pops(t)
           /\ \A t \in Threads : ~Receives(t)
<1>1. heap \in [Threads -> PacketOrNone] /\ heap[u] # None
  BY DEF TypeInv, MergeTypes, Pops, Smallest
<1>2. heap[u] \in Packets
  BY <1>1 DEF PacketOrNone
<1>3. Running
  BY DEF Pops, Running, TypeInv, HandlerTypes
<1>4. ASSUME NEW t \in Threads, Receives(t)
      PROVE  FALSE
  <2>1. held[t] = None /\ held'[t] \in Packets
    BY <1>4, ReceivesTypes
  <2> QED BY <2>1, NoneAssumption DEF Pops
<1> QED BY <1>1, <1>2, <1>3, <1>4 DEF Pops

LEMMA TakeMoves ==
    ASSUME TypeInv, NEW u \in Threads, heap[u] = None, TakeFrom(u), held' = held,
           NEW t \in Threads
    PROVE  /\ Chain(t)' = Chain(t)
           /\ t # u => heap'[t] = heap[t] /\ tchan'[t] = tchan[t]
<1>1. heap \in [Threads -> PacketOrNone] /\ tchan \in [Threads -> Chan]
  BY DEF TypeInv, MergeTypes, ThreadTypes
<1>2. t # u => heap'[t] = heap[t] /\ tchan'[t] = tchan[t]
  BY <1>1 DEF TakeFrom
<1>3. CASE t # u \/ UNCHANGED <<heap, tchan>>
  BY <1>2, <1>3 DEF Chain
<1>4. CASE /\ t = u /\ tchan[t].buf # <<>> /\ heap' = [heap EXCEPT ![t] = Head(tchan[t].buf)]
           /\ tchan' = [tchan EXCEPT ![t] = Receive(@)]
  <2>1. heap'[t] = Head(tchan[t].buf) /\ tchan'[t].buf = Tail(tchan[t].buf)
    BY <1>1, <1>4, ChanTypes
  <2>2. tchan[t].buf \in Seq(Packets) /\ Opt(held[t]) \in Seq(Packets)
    BY FlowTypes, OptTypes
  <2>3. Opt(Head(tchan[t].buf)) \o Tail(tchan[t].buf) \o Opt(held[t])
        = Opt(None) \o tchan[t].buf \o Opt(held[t])
    BY <1>4, <2>2, FrontMoves
  <2> QED BY <1>4, <2>1, <2>3 DEF Chain
<1> QED BY <1>2, <1>3, <1>4 DEF TakeFrom

LEMMA ChainMoves ==
    ASSUME TypeInv, HeapInv, [Next]_vars, merge' # "end", NEW t \in Threads
    PROVE  \/ Chain(t)' = Chain(t) /\ ~Receives(t) /\ ~Pops(t)
           \/ Receives(t) /\ Chain(t)' = Append(Chain(t), Head(fchan[current[t]].buf))
           \/ Pops(t) /\ Chain(t) = <<heap[t]>> \o Chain(t)'
<1>1. /\ tchan \in [Threads -> Chan] /\ heap \in [Threads -> PacketOrNone]
      /\ held \in [Threads -> PacketOrNone]
  BY DEF TypeInv, MergeTypes, ThreadTypes
<1>2. CASE Receives(t)
  <2>1. /\ held[t] = None /\ held'[t] = Head(fchan[current[t]].buf) /\ tchan' = tchan
        /\ Head(fchan[current[t]].buf) \in Packets
    BY <1>2, ReceivesTypes DEF Receives
  <2>2. heap' = heap
    <3>1. \A u \in Threads : ~Pops(u)
      BY <1>2, PopsTypes
    <3>2. held' # held
      BY <2>1, NoneAssumption
    <3>3. ASSUME NEW u \in Threads, ThreadStep(u)
          PROVE  heap' = heap
      BY <3>3 DEF ThreadStep, OfThread, mergeVars
    <3>4. \A f \in Files : FileStep(f) => held' = held
      BY DEF FileStep, OfFile, threadVars
    <3>5. MergeStep \/ HandlerStep \/ UNCHANGED vars => held' = held
      BY DEF MergeStep, OfMerge, Merging, MergeInit, MergePops, MergeReceives, MergeSends,
         DiscardThreadChan, HandlerStep, OfHandler, threadVars, vars
    <3> QED BY <3>2, <3>3, <3>4, <3>5, Steps
  <2>3. /\ Opt(heap[t]) \in Seq(Packets) /\ tchan[t].buf \in Seq(Packets)
    BY FlowTypes, OptTypes
  <2>4. Opt(heap[t]) \o tchan[t].buf \o Opt(Head(fchan[current[t]].buf))
        = Append(Opt(heap[t]) \o tchan[t].buf \o Opt(None), Head(fchan[current[t]].buf))
    BY <2>1, <2>3, BehindMoves
  <2> QED BY <1>2, <2>1, <2>2, <2>4 DEF Chain
<1>3. CASE Pops(t)
  <2>1. heap[t] \in Packets /\ heap'[t] = None /\ UNCHANGED <<tchan, held>>
    BY <1>3, PopsTypes DEF Pops
  <2>2. /\ Opt(held[t]) \in Seq(Packets) /\ tchan[t].buf \in Seq(Packets)
    BY FlowTypes, OptTypes
  <2>3. Opt(heap[t]) \o tchan[t].buf \o Opt(held[t])
        = <<heap[t]>> \o (Opt(None) \o tchan[t].buf \o Opt(held[t]))
    BY <2>1, <2>2, FrontMoves
  <2> QED BY <1>3, <2>1, <2>3 DEF Chain
<1> SUFFICES ASSUME ~Receives(t), ~Pops(t)
             PROVE  Chain(t)' = Chain(t)
  BY <1>2, <1>3
<1>4. heap'[t] = heap[t] /\ tchan'[t].buf = tchan[t].buf /\ held'[t] = held[t] => Chain(t)' = Chain(t)
  BY DEF Chain
<1>5. ASSUME NEW f \in Files, FileStep(f)
      PROVE  UNCHANGED <<heap, tchan, held>>
  BY <1>5 DEF FileStep, OfFile, mergeVars, threadVars
<1>6. HandlerStep \/ UNCHANGED vars => UNCHANGED <<heap, tchan, held>>
  BY DEF HandlerStep, OfHandler, threadVars, vars, mergeVars
<1>7. ASSUME NEW u \in Threads, ThreadStep(u)
      PROVE  Chain(t)' = Chain(t)
  <2>1. heap' = heap
    BY <1>7 DEF ThreadStep, OfThread, mergeVars
  <2>2. CASE ProducerSends(u) \/ ProducerCloses(u) \/ DiscardFileChan(u)
    BY <1>4, <2>1, <2>2 DEF ProducerSends, ProducerCloses, DiscardFileChan, threadVars
  <2>3. ASSUME NEW err, ConcatEnds(u, err), held' = held
        PROVE  Chain(t)' = Chain(t)
    <3>1. Close(tchan[t], err).buf = tchan[t].buf
      BY <1>1 DEF Close, Chan
    <3>2. tchan'[t].buf = tchan[t].buf
      BY <1>1, <2>3, <3>1 DEF ConcatEnds
    <3> QED BY <1>4, <2>1, <2>3, <3>2
  <2>4. CASE ConcatNext(u)
    BY <1>4, <2>1, <2>3, <2>4 DEF ConcatNext
  <2>5. CASE ConcatReceives(u)
    <3>1. CASE Receives(u)
      <4>1. u # t /\ tchan' = tchan /\ held'[t] = held[t]
        BY <3>1, ReceivesTypes DEF Receives
      <4> QED BY <1>4, <2>1, <4>1
    <3>2. CASE UNCHANGED held
      BY <1>4, <2>1, <2>3, <2>5, <3>1, <3>2 DEF ConcatReceives, Receives
    <3> QED BY <2>5, <3>1, <3>2 DEF ConcatReceives, Receives
  <2>6. CASE ConcatSends(u)
    <3>1. CASE u = t
      <4>1. held[t] \in Packets
        BY <2>6, <3>1 DEF ConcatSends, TypeInv, ThreadTypes, PacketOrNone
      <4>2. Send(tchan[t], held[t]).buf = Append(tchan[t].buf, held[t])
        BY <1>1, <4>1, ChanTypes
      <4>3. tchan'[t].buf = Append(tchan[t].buf, held[t]) /\ held'[t] = None
        BY <1>1, <2>6, <3>1, <4>2 DEF ConcatSends
      <4>4. Opt(heap[t]) \in Seq(Packets) /\ tchan[t].buf \in Seq(Packets)
        BY FlowTypes, OptTypes
      <4>5. Opt(heap[t]) \o Append(tchan[t].buf, held[t]) \o Opt(None)
            = Opt(heap[t]) \o tchan[t].buf \o Opt(held[t])
        BY <4>1, <4>4, BehindMoves
      <4> QED BY <2>1, <4>3, <4>5 DEF Chain
    <3>2. CASE u # t
      BY <1>1, <1>4, <2>1, <2>6, <3>2 DEF ConcatSends
    <3> QED BY <3>1, <3>2
  <2> QED BY <1>7, <2>2, <2>4, <2>5, <2>6 DEF ThreadStep, OfThread, Concatenating
<1>8. ASSUME MergeStep
      PROVE  Chain(t)' = Chain(t)
  <2>1. CASE MergeInit
    <3>1. TakeFrom(turn) /\ turn \in Threads /\ merge = "init" /\ held' = held
      BY <2>1 DEF MergeInit, MergeEnds
    <3>2. heap[turn] = None
      <4>1. turn \in Nat
        BY DEF TypeInv, MergeTypes
      <4> QED BY <3>1, <4>1 DEF HeapInv
    <3> QED BY <3>1, <3>2, TakeMoves
  <2>2. CASE MergePops
    <3>1. ~(ctxDone \/ Smallest = {})
      BY <2>2 DEF MergePops, MergeEnds
    <3>2. PICK u \in Smallest : u = turn'
      BY <2>2, <3>1 DEF MergePops
    <3>3. Pops(u) /\ u \in Threads
      BY <1>8, <2>2, <3>1, <3>2
      DEF MergePops, Pops, MergeStep, OfMerge, threadVars, handlerVars, TypeInv, MergeTypes, Smallest
    <3>4. u # t
      BY <3>3
    <3>5. heap'[t] = heap[t] /\ UNCHANGED <<tchan, held>>
      BY <3>3, <3>4, PopsTypes DEF Pops
    <3> QED BY <1>4, <3>5
  <2>3. CASE MergeReceives
    <3>1. TakeFrom(turn) /\ turn \in Threads /\ held' = held /\ heap[turn] = None
      BY <2>3 DEF MergeReceives, HeapInv, TypeInv, MergeTypes
    <3> QED BY <3>1, TakeMoves
  <2>4. CASE MergeSends
    BY <1>4, <2>4 DEF MergeSends, threadVars
  <2>5. CASE \E u \in Threads : DiscardThreadChan(u)
    BY <2>5 DEF DiscardThreadChan, mergeVars, TypeInv, MergeTypes, Closed
  <2> QED BY <1>8, <2>1, <2>2, <2>3, <2>4, <2>5 DEF MergeStep, OfMerge, Merging
<1> QED BY <1>4, <1>5, <1>6, <1>7, <1>8, Steps

(***************************************************************************)
(* What was taken from the files of a thread only grows, and without a     *)
(* loss it grows by what ConcatPacketChans receives.                       *)
(***************************************************************************)
LEMMA ReadNowType ==
    ASSUME TypeInv, ReadInv, NEW t \in Threads
    PROVE  ReadNow(t) \in Nat /\ Taken(t) \in Nat
<1>1. Taken(t) \in Nat /\ (current[t] # None => current[t] \in Files)
  BY TakenTypes DEF ReadInv, TypeInv, ThreadTypes
<1>2. \A f \in Files : Read(f) \in Nat
  <2> SUFFICES ASSUME NEW f \in Files PROVE Read(f) \in Nat
    OBVIOUS
  <2>1. /\ fchan[f].buf \in Seq(Packets) /\ left[f] \in Seq(Packets)
        /\ request.found[f] \in Seq(Packets)
    BY ChanTypes, RequestTypes DEF TypeInv, FileTypes
  <2>2. Pending(f) \in Seq(Packets)
    BY <2>1, ConcatProperties DEF Pending
  <2>3. Len(Pending(f)) \in Nat /\ Len(request.found[f]) \in Nat
    BY <2>1, <2>2
  <2>4. Len(Pending(f)) <= Len(request.found[f])
    BY DEF ReadInv, FileInv
  <2> QED BY <2>3, <2>4 DEF Read
<1> QED BY <1>1, <1>2 DEF ReadNow

LEMMA BehindGrows ==
    ASSUME TypeInv, ReadInv, [Next]_vars, NEW t \in Threads, NEW p, Behind(t, p)
    PROVE  Behind(t, p)'
<1>1. request' = request /\ request \in Requests
  BY RequestStays DEF TypeInv
<1>2. ReadNow(t) \in Nat /\ Taken(t) \in Nat
  BY ReadNowType
<1>3. /\ Taken(t)' \in Nat /\ ReadNow(t)' \in Nat
      /\ Taken(t) < Taken(t)' \/ (Taken(t) = Taken(t)' /\ ReadNow(t) <= ReadNow(t)')
  <2>1. CASE Takes(t)
    <3>1. Taken(t)' = Taken(t) + 1
      BY <2>1, TakenMoves DEF ReadInv
    <3>2. PICK g \in Files : g = current'[t]
      <4>1. current'[t] \in Files
        BY <2>1, HeadTailProperties DEF Takes, TypeInv, ThreadTypes
      <4> QED BY <4>1
    <3>3. ReadNow(t)' = Read(g)'
      BY <3>2, NoneAssumption DEF ReadNow, Read, Unstarted, Pending
    <3>4. Read(g)' \in Nat
      BY ReadMoves DEF ReadInv
    <3> QED BY <1>2, <3>1, <3>3, <3>4
  <2>2. CASE ~Takes(t)
    <3>1. Taken(t)' = Taken(t) /\ current'[t] = current[t]
      BY <2>2, TakenMoves DEF ReadInv
    <3>2. CASE current[t] = None
      BY <1>2, <3>1, <3>2 DEF ReadNow
    <3>3. CASE current[t] # None
      <4>1. PICK f \in Files : f = current[t]
        BY <3>3 DEF TypeInv, ThreadTypes
      <4>2. ReadNow(t) = Read(f)
        BY <3>3, <4>1 DEF ReadNow
      <4>3. ReadNow(t)' = Read(f)'
        BY <3>1, <3>3, <4>1 DEF ReadNow, Read, Unstarted, Pending
      <4> QED BY <1>2, <3>1, <4>2, <4>3, ReadMoves DEF ReadInv
    <3> QED BY <3>2, <3>3
  <2> QED BY <2>1, <2>2
<1>4. Upto(request, t, Taken(t)', ReadNow(t)', p)
  <2>1. Upto(request, t, Taken(t), ReadNow(t), p)
    BY DEF Behind
  <2> QED BY <1>1, <1>2, <1>3, <2>1, UptoGrows
<1> QED BY <1>1, <1>4 DEF Behind

LEMMA BehindReceives ==
    ASSUME TypeInv, ReadInv, [Next]_vars, NEW t \in Threads, Receives(t),
           NEW q \in Packets, q = Head(fchan[current[t]].buf)
    PROVE  /\ Of(request, t, q) /\ Behind(t, q)'
           /\ \A p : Behind(t, p) => Prec(request, t, p, q)
           /\ \A p : Behind(t, p)' => Behind(t, p) \/ p = q
<1>1. request' = request /\ request \in Requests /\ FileInv /\ QueueInv
  BY RequestStays DEF TypeInv, ReadInv
<1>2. PICK f \in Files : f = current[t]
  BY ReceivesTypes
<1>3. PICK i \in DOMAIN request.files[t] : i = Taken(t)
  BY <1>1, <1>2, TakenTypes, NoneAssumption
<1>4. f = File(t, i) /\ f # None
  BY <1>1, <1>2, <1>3, TakenTypes, NoneAssumption DEF QueueInv
<1>5. /\ fchan[f].buf \in Seq(Packets) /\ fchan[f].buf # <<>> /\ left[f] \in Seq(Packets)
      /\ request.found[f] \in Seq(Packets) /\ fchan[f] \in Chan
  BY <1>1, <1>2, ChanTypes, RequestTypes DEF Receives, TypeInv, FileTypes
<1>6. /\ Pending(f) \in Seq(Packets) /\ Pending(f) # <<>> /\ Pending(f)[1] = q
  <2>1. Pending(f) \in Seq(Packets) /\ Pending(f) # <<>> /\ Head(Pending(f)) = Head(fchan[f].buf)
    BY <1>5, ConcatProperties, TailMoves DEF Pending
  <2> QED BY <1>2, <2>1
<1>7. /\ Len(Pending(f)) \in Nat \ {0} /\ DOMAIN Pending(f) = 1 .. Len(Pending(f))
      /\ Len(request.found[f]) \in Nat /\ DOMAIN request.found[f] = 1 .. Len(request.found[f])
  BY <1>5, <1>6, EmptySeq
<1>8. ~Unstarted(f) /\ Len(Pending(f)) <= Len(request.found[f])
      /\ \A m \in DOMAIN Pending(f) : Pending(f)[m] = request.found[f][Read(f) + m]
  BY <1>1, <1>6 DEF FileInv
<1>9. /\ ReadNow(t) = Read(f) /\ Read(f) \in Nat /\ Read(f) + 1 \in DOMAIN request.found[f]
      /\ q = request.found[f][Read(f) + 1]
  <2>1. ReadNow(t) = Read(f) /\ Read(f) = Len(request.found[f]) - Len(Pending(f))
    BY <1>2, <1>4, <1>8 DEF ReadNow, Read
  <2>2. 1 \in DOMAIN Pending(f)
    BY <1>7
  <2> QED BY <1>6, <1>7, <1>8, <2>1, <2>2
<1>10. q = Packet(request, t, i, Read(f) + 1) /\ request.files[t][i] = f
  BY <1>4, <1>9 DEF Packet, File
<1>11. /\ lookup' = lookup /\ left' = left /\ fchan'[f] = Receive(fchan[f]) /\ current' = current
       /\ Taken(t)' = Taken(t)
  BY <1>2 DEF Receives, TypeInv, FileTypes, Taken
<1>12. ReadNow(t)' = Read(f) + 1
  <2>1. fchan'[f].buf = Tail(fchan[f].buf)
    BY <1>5, <1>11, ChanTypes
  <2>2. Pending(f)' = Tail(Pending(f))
    BY <1>5, <1>11, <2>1, TailMoves DEF Pending
  <2>3. Len(Pending(f)') = Len(Pending(f)) - 1
    BY <1>6, <2>2, HeadTailProperties
  <2>4. Read(f)' = Len(request.found[f]) - Len(Pending(f)')
    BY <1>1, <1>8, <1>11 DEF Read, Unstarted
  <2>5. ReadNow(t)' = Read(f)'
    BY <1>2, <1>4, <1>11 DEF ReadNow, Read, Unstarted, Pending
  <2>6. Read(f) = Len(request.found[f]) - Len(Pending(f))
    BY <1>8 DEF Read
  <2> QED BY <1>7, <2>3, <2>4, <2>5, <2>6
<1>13. /\ Of(request, t, q) /\ Upto(request, t, i, Read(f) + 1, q)
       /\ \A p : Upto(request, t, i, Read(f), p) => Prec(request, t, p, q)
       /\ \A p : Upto(request, t, i, Read(f) + 1, p) => Upto(request, t, i, Read(f), p) \/ p = q
  <2>1. Read(f) + 1 \in DOMAIN request.found[request.files[t][i]]
    BY <1>9, <1>10
  <2>2. PICK n \in Nat : n = Read(f)
    BY <1>9
  <2> QED BY <1>1, <1>10, <2>1, <2>2, UptoNext
<1>14. \A p : /\ Behind(t, p) <=> Upto(request, t, i, Read(f), p)
              /\ Behind(t, p)' <=> Upto(request, t, i, Read(f) + 1, p)
  BY <1>1, <1>3, <1>9, <1>11, <1>12 DEF Behind
<1> QED BY <1>13, <1>14

LEMMA CutGrows ==
    ASSUME [Next]_vars
    PROVE  cut \subseteq cut'
<1>1. ASSUME NEW f \in Files, FileStep(f)
      PROVE  cut \subseteq cut'
  BY <1>1 DEF FileStep, OfFile, LookupStarts, LookupSends, LookupStops, LookupDone, LookupFails, FileCloses
<1>2. ASSUME NEW t \in Threads, ThreadStep(t)
      PROVE  cut' = cut
  BY <1>2 DEF ThreadStep, OfThread, ProducerSends, ProducerCloses, Concatenating, ConcatNext,
     ConcatReceives, ConcatSends, DiscardFileChan, fileVars
<1>3. MergeStep \/ HandlerStep \/ UNCHANGED vars => cut' = cut
  BY DEF MergeStep, OfMerge, Merging, MergeInit, MergePops, MergeReceives, MergeSends,
     DiscardThreadChan, HandlerStep, OfHandler, fileVars, vars
<1> QED BY <1>1, <1>2, <1>3, Steps

(* Neither the thread nor the file it reads has failed.                    *)
Sound(t) == ~Failed(tchan[t]) /\ (current[t] # None => ~Failed(fchan[current[t]]))

LEMMA SoundBefore ==
    ASSUME TypeInv, ReadInv, [Next]_vars, NEW t \in Threads, Sound(t)'
    PROVE  Sound(t)
<1>1. ~Failed(tchan[t])
  BY ConcatMoves DEF Sound, Failed
<1>2. ASSUME current[t] # None
      PROVE  ~Failed(fchan[current[t]])
  <2>1. PICK f \in Files : f = current[t]
    BY <1>2 DEF TypeInv, ThreadTypes
  <2>2. CASE Takes(t)
    <3>1. concat[t] = "range" /\ Taken(t) # 0 /\ Taken(t) \in DOMAIN request.files[t]
          /\ f = File(t, Taken(t))
      BY <1>2, <2>1, <2>2, TakenTypes DEF Takes, QueueInv, ReadInv
    <3>2. Finished(File(t, Taken(t)))
      BY <3>1 DEF ReadInv, PastInv
    <3> QED BY <2>1, <3>1, <3>2 DEF Finished, Failed
  <2>3. CASE ~Takes(t)
    <3>1. current'[t] = f
      BY <2>1, <2>3, TakenMoves DEF ReadInv
    <3>2. ~Failed(fchan'[f])
      BY <1>2, <2>1, <3>1 DEF Sound
    <3>3. fchan[f].err # "open" => fchan'[f].err = fchan[f].err
      BY FileMoves DEF Moves, ReadInv
    <3> QED BY <2>1, <3>2, <3>3 DEF Failed
  <2> QED BY <2>2, <2>3
<1> QED BY <1>1, <1>2 DEF Sound

LEMMA BehindStays ==
    ASSUME TypeInv, ReadInv, [Next]_vars, NEW t \in Threads, Sound(t)', cut' = {}, ~Receives(t),
           NEW p, Behind(t, p)'
    PROVE  Behind(t, p)
<1>1. /\ request' = request /\ request \in Requests /\ cut = {}
      /\ FileInv /\ QueueInv /\ PastInv /\ UnreadInv
  BY RequestStays, CutGrows DEF TypeInv, ReadInv
<1>2. ReadNow(t) \in Nat /\ Taken(t) \in Nat
  BY ReadNowType
<1>3. CASE Takes(t)
  <2>1. Taken(t)' = Taken(t) + 1
    BY <1>1, <1>3, TakenMoves
  <2>2. TypeInv' /\ QueueInv'
    BY <1>1, TypeStep, QueueStep
  <2>3. PICK g \in Files : g = current'[t]
    <3>1. current'[t] \in Files
      BY <1>3, HeadTailProperties DEF Takes, TypeInv, ThreadTypes
    <3> QED BY <3>1
  <2>4. PICK j \in DOMAIN request.files[t] : j = Taken(t) + 1 /\ g = File(t, j)
    <3>1. Len(inputs[t]) # 0 /\ inputs[t] \in Seq(Files) /\ g = inputs[t][1]
      BY <1>3, <2>3, EmptySeq DEF Takes, TypeInv, ThreadTypes
    <3>2. 1 \in DOMAIN inputs[t]
      BY <3>1
    <3>3. g = File(t, Taken(t) + 1)
      BY <1>1, <3>1, <3>2 DEF QueueInv
    <3>4. Taken(t) + 1 \in DOMAIN request.files[t]
      <4>1. Taken(t) + 1 <= Len(request.files[t]) /\ DOMAIN request.files[t] = 1 .. Len(request.files[t])
            /\ Len(request.files[t]) \in Nat
        BY <1>1, <1>2, <3>1, TakenTypes DEF Taken, TypeInv, ThreadTypes
      <4> QED BY <1>2, <4>1
    <3> QED BY <3>3, <3>4
  <2>5. Read(g) = 0
    <3>1. fchan' = fchan /\ ~Failed(fchan'[g])
      BY <1>3, <2>3, NoneAssumption DEF Takes, Sound
    <3>2. Read(File(t, j)) = 0 \/ Failed(fchan[File(t, j)])
      BY <1>1, <1>2, <2>4 DEF UnreadInv
    <3> QED BY <2>4, <3>1, <3>2
  <2>6. ReadNow(t)' = 0
    <3>1. Read(g)' = Read(g)
      BY <1>1, <1>3 DEF Takes, Read, Unstarted, Pending
    <3>2. ReadNow(t)' = Read(g)'
      BY <2>3, NoneAssumption DEF ReadNow, Read, Unstarted, Pending
    <3> QED BY <2>5, <3>1, <3>2
  <2>7. Taken(t) \in DOMAIN request.files[t] =>
           ReadNow(t) = Len(request.found[request.files[t][Taken(t)]])
    <3> SUFFICES ASSUME Taken(t) \in DOMAIN request.files[t]
                 PROVE  ReadNow(t) = Len(request.found[File(t, Taken(t))])
      BY DEF File
    <3>1. Finished(File(t, Taken(t))) /\ current[t] = File(t, Taken(t)) /\ current[t] # None
      <4>1. Taken(t) # 0 /\ concat[t] = "range"
        BY <1>1, <1>3, TakenTypes DEF Takes
      <4> QED BY <1>1, <4>1, TakenTypes DEF PastInv, QueueInv
    <3>2. PICK f \in Files : f = current[t]
      BY <3>1 DEF TypeInv, ThreadTypes
    <3>3. fchan[f].buf = <<>> /\ fchan[f].err = "nil" /\ lookup[f] = "end"
      BY <3>1, <3>2 DEF Finished, TypeInv, FileTypes
    <3>4. left[f] = <<>>
      BY <1>1, <3>3 DEF FileInv
    <3>5. Pending(f) = <<>>
      BY <3>3, <3>4, ConcatEmptySeq, EmptySeq DEF Pending
    <3>6. Read(f) = Len(request.found[f]) /\ Len(request.found[f]) \in Nat
      <4>1. Len(request.found[f]) \in Nat
        BY <1>1, RequestTypes
      <4> QED BY <3>3, <3>5, <4>1 DEF Read, Unstarted
    <3> QED BY <3>1, <3>2, <3>6 DEF ReadNow
  <2>8. Upto(request, t, Taken(t) + 1, 0, p)
    BY <1>1, <2>1, <2>6 DEF Behind
  <2>9. Upto(request, t, Taken(t), ReadNow(t), p)
    BY <1>1, <1>2, <2>7, <2>8, UptoNextFile
  <2> QED BY <2>9 DEF Behind
<1>4. CASE ~Takes(t)
  <2>1. Taken(t)' = Taken(t) /\ current'[t] = current[t]
    BY <1>1, <1>4, TakenMoves
  <2>2. CASE current[t] = None
    BY <1>1, <2>1, <2>2 DEF Behind, ReadNow
  <2>3. CASE current[t] # None
    <3>1. PICK f \in Files : f = current[t]
      BY <2>3 DEF TypeInv, ThreadTypes
    <3>2. PICK i \in DOMAIN request.files[t] : i = Taken(t) /\ f = File(t, i)
      BY <1>1, <2>3, <3>1, TakenTypes DEF QueueInv
    <3>3. ~Gives(f)
      <4> SUFFICES ASSUME NEW u \in Threads, f = current[u], Receives(u) \/ DiscardFileChan(u),
                          fchan[f].buf # <<>>
                   PROVE  FALSE
        BY DEF Gives
      <4>1. u = t
        BY <1>1, <3>2, OneReader
      <4>2. Closed(tchan[t])
        BY <4>1 DEF DiscardFileChan
      <4>3. tchan[t].err = "nil"
        <5>1. tchan[t].err \in Errors
          BY ChanTypes DEF TypeInv, ThreadTypes
        <5>2. ~Failed(tchan[t])
          BY SoundBefore DEF Sound
        <5> QED BY <4>2, <5>1, <5>2 DEF Closed, Failed, Errors
      <4>4. Finished(File(t, i))
        BY <1>1, <3>2, <4>3 DEF PastInv
      <4> QED BY <3>2, <4>4 DEF Finished
    <3>4. ~Failed(fchan'[f])
      BY <2>1, <2>3, <3>1 DEF Sound
    <3>5. Read(f)' = Read(f)
      BY <1>1, <3>3, <3>4, ReadMoves
    <3>6. ReadNow(t) = Read(f) /\ ReadNow(t)' = Read(f)'
      BY <2>1, <2>3, <3>1 DEF ReadNow, Read, Unstarted, Pending
    <3> QED BY <1>1, <2>1, <3>5, <3>6 DEF Behind
  <2> QED BY <2>2, <2>3
<1> QED BY <1>3, <1>4

-----------------------------------------------------------------------------
(***************************************************************************)
(* The packets of a thread stay in the order of their places: those sent   *)
(* come before those in its chain, and all are behind.                     *)
(***************************************************************************)
In(p, s) == \E k \in DOMAIN s : p = s[k]
Arrived(t, p) == In(p, Sent) \/ In(p, Chain(t))

Line(r, t, s, c) ==
    /\ Ascending(r, t, c)
    /\ \A k \in DOMAIN s : Of(r, t, s[k]) => \A m \in DOMAIN c : Prec(r, t, s[k], c[m])

LineInv == Running => \A t \in Threads :
    /\ Line(request, t, Sent, Chain(t))
    /\ \A p \in Packets : Of(request, t, p) /\ Arrived(t, p) => Behind(t, p)

(* Without a loss, all that is behind has arrived.                         *)
LossInv == Running /\ cut = {} => \A t \in Threads :
    Sound(t) => \A p \in Packets : Behind(t, p) => Arrived(t, p)

LEMMA InAppend ==
    ASSUME NEW S, NEW s \in Seq(S), NEW q \in S
    PROVE  \A p : In(p, Append(s, q)) <=> In(p, s) \/ p = q
<1> DEFINE u == Append(s, q)
<1>1. /\ u[Len(s) + 1] = q /\ \A i \in 1 .. Len(s) : u[i] = s[i]
      /\ DOMAIN s = 1 .. Len(s) /\ DOMAIN u = 1 .. Len(s) + 1 /\ Len(s) \in Nat
  BY AppendProperties
<1> HIDE DEF u
<1>2. \A i \in DOMAIN u : i \in DOMAIN s \/ i = Len(s) + 1
  BY <1>1
<1>3. Len(s) + 1 \in DOMAIN u /\ \A i \in DOMAIN s : i \in DOMAIN u
  BY <1>1
<1> QED BY <1>1, <1>2, <1>3 DEF In, u

LEMMA InCons ==
    ASSUME NEW S, NEW s \in Seq(S), NEW q \in S
    PROVE  \A p : In(p, <<q>> \o s) <=> In(p, s) \/ p = q
<1> DEFINE u == <<q>> \o s
<1>1. /\ u \in Seq(S) /\ Len(u) = Len(s) + 1 /\ u[1] = q /\ \A i \in 1 .. Len(s) : u[i + 1] = s[i]
      /\ DOMAIN s = 1 .. Len(s) /\ DOMAIN u = 1 .. Len(s) + 1 /\ Len(s) \in Nat
  BY Cons
<1> HIDE DEF u
<1>2. \A i \in DOMAIN u : i = 1 \/ (i - 1 \in DOMAIN s /\ u[i] = s[i - 1])
  <2> SUFFICES ASSUME NEW i \in 1 .. Len(s) + 1, i # 1
               PROVE  i - 1 \in 1 .. Len(s) /\ u[i] = s[i - 1]
    BY <1>1
  <2>1. i - 1 \in 1 .. Len(s) /\ (i - 1) + 1 = i
    BY <1>1
  <2> QED BY <1>1, <2>1
<1>3. 1 \in DOMAIN u /\ \A i \in DOMAIN s : i + 1 \in DOMAIN u
  BY <1>1
<1> QED BY <1>1, <1>2, <1>3 DEF In, u

LEMMA LineReceives ==
    ASSUME NEW r, NEW t, NEW s, NEW c \in Seq(Packets), NEW q \in Packets, Line(r, t, s, c),
           Of(r, t, q), \A m \in DOMAIN c : Prec(r, t, c[m], q),
           \A k \in DOMAIN s : Of(r, t, s[k]) => Prec(r, t, s[k], q)
    PROVE  Line(r, t, s, Append(c, q))
<1> DEFINE u == Append(c, q)
<1>1. Ascending(r, t, u)
  BY AscendingAppend DEF Line
<1>2. \A m \in DOMAIN u : u[m] = q \/ (m \in DOMAIN c /\ u[m] = c[m])
  <2>1. /\ u[Len(c) + 1] = q /\ \A i \in 1 .. Len(c) : u[i] = c[i]
        /\ DOMAIN c = 1 .. Len(c) /\ DOMAIN u = 1 .. Len(c) + 1 /\ Len(c) \in Nat
    BY AppendProperties
  <2> HIDE DEF u
  <2>2. \A i \in DOMAIN u : i \in DOMAIN c \/ i = Len(c) + 1
    BY <2>1
  <2> QED BY <2>1, <2>2
<1> HIDE DEF u
<1>3. Line(r, t, s, u)
  BY <1>1, <1>2 DEF Line
<1> QED BY <1>3 DEF u

LEMMA LineSends ==
    ASSUME NEW r, NEW t, NEW s \in Seq(Packets), NEW c \in Seq(Packets), NEW p \in Packets,
           \/ Line(r, t, s, <<p>> \o c)
           \/ Line(r, t, s, c) /\ ~Of(r, t, p)
    PROVE  Line(r, t, Append(s, p), c)
<1> DEFINE u == Append(s, p)
<1>1. \A k \in DOMAIN u : u[k] = p \/ (k \in DOMAIN s /\ u[k] = s[k])
  <2>1. /\ u[Len(s) + 1] = p /\ \A i \in 1 .. Len(s) : u[i] = s[i]
        /\ DOMAIN s = 1 .. Len(s) /\ DOMAIN u = 1 .. Len(s) + 1 /\ Len(s) \in Nat
    BY AppendProperties
  <2> HIDE DEF u
  <2>2. \A i \in DOMAIN u : i \in DOMAIN s \/ i = Len(s) + 1
    BY <2>1
  <2> QED BY <2>1, <2>2
<1> HIDE DEF u
<1>2. CASE Line(r, t, s, c) /\ ~Of(r, t, p)
  <2>1. Line(r, t, u, c)
    BY <1>1, <1>2 DEF Line
  <2> QED BY <2>1 DEF u
<1>3. CASE Line(r, t, s, <<p>> \o c)
  <2>1. Ascending(r, t, <<p>> \o c)
    BY <1>3 DEF Line
  <2>2. Ascending(r, t, c) /\ \A m \in DOMAIN c : Prec(r, t, p, c[m])
    BY <2>1, AscendingCons
  <2> DEFINE v == <<p>> \o c
  <2>3. \A m \in DOMAIN c : m + 1 \in DOMAIN v /\ v[m + 1] = c[m]
    <3>1. /\ \A i \in 1 .. Len(c) : v[i + 1] = c[i]
          /\ DOMAIN c = 1 .. Len(c) /\ DOMAIN v = 1 .. Len(c) + 1 /\ Len(c) \in Nat
      BY Cons
    <3> HIDE DEF v
    <3> QED BY <3>1
  <2>4. Line(r, t, s, v)
    BY <1>3
  <2> HIDE DEF v
  <2>5. \A k \in DOMAIN s : Of(r, t, s[k]) => \A m \in DOMAIN c : Prec(r, t, s[k], c[m])
    BY <2>3, <2>4 DEF Line
  <2>6. Line(r, t, u, c)
    BY <1>1, <2>2, <2>5 DEF Line
  <2> QED BY <2>6 DEF u
<1> QED BY <1>2, <1>3

LEMMA RunningBefore ==
    ASSUME TypeInv, [Next]_vars, Running'
    PROVE  Running
  BY SentMoves DEF Running

LEMMA PoppedOf ==
    ASSUME TypeInv, HeapInv, LineInv, [Next]_vars, Running', NEW u \in Threads, Pops(u)
    PROVE  Of(request, u, heap[u])
<1>1. Chain(u) = <<heap[u]>> \o Chain(u)' /\ heap[u] \in Packets
  BY ChainMoves, PopsTypes DEF Running
<1>2. Line(request, u, Sent, Chain(u))
  BY RunningBefore DEF LineInv
<1>3. Chain(u)' \in Seq(Packets)
  <2>1. TypeInv'
    BY TypeStep
  <2> QED BY <2>1, FlowNext DEF FlowOK
<1> QED BY <1>1, <1>2, <1>3, AscendingCons DEF Line

LEMMA PopsSends ==
    ASSUME TypeInv, NEW u \in Threads, Pops(u)
    PROVE  Sent' = Append(Sent, heap[u])
<1>1. heap[u] \in Packets
  BY PopsTypes
<1>2. Sent' = answer \o out.buf \o Opt(heap[u]) /\ Sent = answer \o out.buf \o Opt(None)
  BY DEF Sent, Pops
<1> QED BY <1>1, <1>2, FlowTypes, BehindMoves

LEMMA ArrivedMoves ==
    ASSUME TypeInv, HeapInv, LineInv, [Next]_vars, Running', NEW t \in Threads,
           NEW p, Of(request, t, p)
    PROVE  Arrived(t, p)' <=> Arrived(t, p) \/ (Receives(t) /\ p = Head(fchan[current[t]].buf))
<1>1. Sent \in Seq(Packets) /\ Chain(t) \in Seq(Packets) /\ Chain(t)' \in Seq(Packets)
  <2>1. TypeInv'
    BY TypeStep
  <2> QED BY <2>1, FlowNext, FlowTypes DEF FlowOK
<1>2. merge' # "end" /\ handler' # "end"
  BY DEF Running
<1>3. Arrived(t, p)' <=> In(p, Sent') \/ In(p, Chain(t)')
  BY DEF Arrived
<1>4. ASSUME NEW u \in Threads, Pops(u)
      PROVE  Arrived(t, p)' <=> Arrived(t, p) \/ (Receives(t) /\ p = Head(fchan[current[t]].buf))
  <2>1. heap[u] \in Packets /\ ~Receives(t) /\ (t # u => ~Pops(t))
    BY <1>4, PopsTypes
  <2>2. In(p, Sent') <=> In(p, Sent) \/ p = heap[u]
    <3>1. PICK q \in Packets : q = heap[u]
      BY <2>1
    <3>2. In(p, Append(Sent, q)) <=> In(p, Sent) \/ p = q
      BY <1>1, InAppend
    <3> QED BY <1>4, <3>1, <3>2, PopsSends
  <2>3. CASE u = t
    <3>1. Chain(t) = <<heap[t]>> \o Chain(t)'
      BY <1>2, <1>4, <2>1, <2>3, ChainMoves
    <3>2. In(p, Chain(t)) <=> In(p, Chain(t)') \/ p = heap[t]
      BY <1>1, <2>1, <2>3, <3>1, InCons
    <3> QED BY <1>3, <2>1, <2>2, <2>3, <3>2 DEF Arrived
  <2>4. CASE u # t
    <3>1. Chain(t)' = Chain(t)
      BY <1>2, <2>1, <2>4, ChainMoves
    <3>2. Of(request, u, heap[u]) /\ request \in Requests
      BY <1>4, PoppedOf DEF TypeInv
    <3>3. p # heap[u]
      BY <2>4, <3>2, OneThread
    <3> QED BY <1>3, <2>1, <2>2, <3>1, <3>3 DEF Arrived
  <2> QED BY <2>3, <2>4
<1>5. ASSUME \A u \in Threads : ~Pops(u)
      PROVE  Arrived(t, p)' <=> Arrived(t, p) \/ (Receives(t) /\ p = Head(fchan[current[t]].buf))
  <2>1. Sent' = Sent
    BY <1>2, <1>5, SentMoves
  <2>2. CASE Receives(t)
    <3>1. Head(fchan[current[t]].buf) \in Packets
      BY <2>2, ReceivesTypes
    <3>2. Chain(t)' = Append(Chain(t), Head(fchan[current[t]].buf))
      BY <1>2, <1>5, <2>2, ChainMoves
    <3>3. In(p, Chain(t)') <=> In(p, Chain(t)) \/ p = Head(fchan[current[t]].buf)
      BY <1>1, <3>1, <3>2, InAppend
    <3> QED BY <1>3, <2>1, <2>2, <3>3 DEF Arrived
  <2>3. CASE ~Receives(t)
    <3>1. Chain(t)' = Chain(t)
      BY <1>2, <1>5, <2>3, ChainMoves
    <3> QED BY <1>3, <2>1, <2>3, <3>1 DEF Arrived
  <2> QED BY <2>2, <2>3
<1> QED BY <1>4, <1>5

LEMMA LineStep ==
    ASSUME TypeInv, ReadInv, HeapInv, LineInv, [Next]_vars
    PROVE  LineInv'
<1> SUFFICES ASSUME Running', NEW t \in Threads
             PROVE  /\ Line(request', t, Sent', Chain(t)')
                    /\ \A p \in Packets : Of(request', t, p) /\ Arrived(t, p)' => Behind(t, p)'
  BY DEF LineInv
<1>1. /\ request' = request /\ request \in Requests /\ Running
      /\ merge' # "end" /\ handler' # "end"
  BY RequestStays, RunningBefore DEF TypeInv, Running
<1>2. /\ Line(request, t, Sent, Chain(t))
      /\ \A p \in Packets : Of(request, t, p) /\ Arrived(t, p) => Behind(t, p)
  BY <1>1 DEF LineInv
<1>3. Sent \in Seq(Packets) /\ Chain(t) \in Seq(Packets) /\ Chain(t)' \in Seq(Packets)
  <2>1. TypeInv'
    BY TypeStep
  <2> QED BY <2>1, FlowNext, FlowTypes DEF FlowOK
<1>4. CASE Receives(t)
  <2>1. PICK q \in Packets : q = Head(fchan[current[t]].buf)
    BY <1>4, ReceivesTypes
  <2>2. /\ Of(request, t, q) /\ Behind(t, q)'
        /\ \A p : Behind(t, p) => Prec(request, t, p, q)
    BY <1>4, <2>1, BehindReceives
  <2>3. \A u \in Threads : ~Pops(u)
    BY <1>4, PopsTypes
  <2>4. Sent' = Sent /\ Chain(t)' = Append(Chain(t), q)
    BY <1>1, <1>4, <2>1, <2>3, SentMoves, ChainMoves
  <2>5. \A m \in DOMAIN Chain(t) : Prec(request, t, Chain(t)[m], q)
    <3> SUFFICES ASSUME NEW m \in DOMAIN Chain(t)
                 PROVE  Prec(request, t, Chain(t)[m], q)
      OBVIOUS
    <3>1. Chain(t)[m] \in Packets /\ Of(request, t, Chain(t)[m]) /\ Arrived(t, Chain(t)[m])
      BY <1>2, <1>3 DEF Line, Ascending, Arrived, In
    <3> QED BY <1>2, <2>2, <3>1
  <2>6. \A k \in DOMAIN Sent : Of(request, t, Sent[k]) => Prec(request, t, Sent[k], q)
    <3> SUFFICES ASSUME NEW k \in DOMAIN Sent, Of(request, t, Sent[k])
                 PROVE  Prec(request, t, Sent[k], q)
      OBVIOUS
    <3>1. Sent[k] \in Packets /\ Arrived(t, Sent[k])
      BY <1>3 DEF Arrived, In
    <3> QED BY <1>2, <2>2, <3>1
  <2>7. Line(request, t, Sent, Append(Chain(t), q))
    BY <1>2, <1>3, <2>2, <2>5, <2>6, LineReceives
  <2>8. ASSUME NEW p \in Packets, Of(request, t, p), Arrived(t, p)'
        PROVE  Behind(t, p)'
    <3>1. Arrived(t, p) \/ p = q
      BY <2>1, <2>8, ArrivedMoves
    <3> QED BY <1>2, <2>2, <2>8, <3>1, BehindGrows
  <2> QED BY <1>1, <2>4, <2>7, <2>8
<1>5. CASE ~Receives(t)
  <2>1. Line(request, t, Sent', Chain(t)')
    <3>1. ASSUME NEW u \in Threads, Pops(u)
          PROVE  Line(request, t, Sent', Chain(t)')
      <4>1. heap[u] \in Packets /\ Sent' = Append(Sent, heap[u]) /\ (t # u => ~Pops(t))
        BY <3>1, PopsTypes, PopsSends
      <4>2. PICK p \in Packets : p = heap[u]
        BY <4>1
      <4>3. CASE u = t
        <5>1. Chain(t) = <<p>> \o Chain(t)'
          BY <1>1, <1>5, <3>1, <4>2, <4>3, ChainMoves
        <5> QED BY <1>2, <1>3, <4>1, <4>2, <5>1, LineSends
      <4>4. CASE u # t
        <5>1. Chain(t)' = Chain(t)
          BY <1>1, <1>5, <4>1, <4>4, ChainMoves
        <5>2. Of(request, u, heap[u])
          BY <3>1, PoppedOf
        <5>3. ~Of(request, t, p)
          BY <1>1, <4>2, <4>4, <5>2, OneThread
        <5> QED BY <1>2, <1>3, <4>1, <4>2, <5>1, <5>3, LineSends
      <4> QED BY <4>3, <4>4
    <3>2. ASSUME \A u \in Threads : ~Pops(u)
          PROVE  Line(request, t, Sent', Chain(t)')
      BY <1>1, <1>2, <1>5, <3>2, SentMoves, ChainMoves
    <3> QED BY <3>1, <3>2
  <2>2. ASSUME NEW p \in Packets, Of(request, t, p), Arrived(t, p)'
        PROVE  Behind(t, p)'
    <3>1. Arrived(t, p)
      BY <1>5, <2>2, ArrivedMoves
    <3> QED BY <1>2, <2>2, <3>1, BehindGrows
  <2> QED BY <1>1, <2>1, <2>2
<1> QED BY <1>4, <1>5

LEMMA LossStep ==
    ASSUME TypeInv, ReadInv, HeapInv, LineInv, LossInv, [Next]_vars
    PROVE  LossInv'
<1> SUFFICES ASSUME Running', cut' = {}, NEW t \in Threads, Sound(t)', NEW p \in Packets,
                    Behind(t, p)'
             PROVE  Arrived(t, p)'
  BY DEF LossInv
<1>1. /\ request' = request /\ request \in Requests /\ Running /\ cut = {} /\ Sound(t)
  BY RequestStays, RunningBefore, CutGrows, SoundBefore DEF TypeInv
<1>2. Of(request, t, p)
  BY <1>1 DEF Behind, Upto, Of
<1>3. Behind(t, p) \/ (Receives(t) /\ p = Head(fchan[current[t]].buf))
  <2>1. CASE Receives(t)
    <3>1. PICK q \in Packets : q = Head(fchan[current[t]].buf)
      BY <2>1, ReceivesTypes
    <3> QED BY <2>1, <3>1, BehindReceives
  <2>2. CASE ~Receives(t)
    BY <2>2, BehindStays
  <2> QED BY <2>1, <2>2
<1>4. Behind(t, p) => Arrived(t, p)
  BY <1>1 DEF LossInv
<1> QED BY <1>2, <1>3, <1>4, ArrivedMoves

-----------------------------------------------------------------------------
(***************************************************************************)
(* Whose packet is missing on the heap.                                    *)
(***************************************************************************)
LEMMA DryStays ==
    ASSUME TypeInv, NEW t \in Threads, NEW u \in Threads, ThreadStep(u), Dry(t)
    PROVE  tchan'[t] = tchan[t]
<1>1. concat[t] = "end" /\ tchan \in [Threads -> Chan]
  BY DEF Dry, Closed, TypeInv, ThreadTypes
<1>2. CASE UNCHANGED tchan
  BY <1>2
<1>3. CASE ~UNCHANGED tchan
  <2>1. /\ concat[u] # "end"
        /\ (\E err : ConcatEnds(u, err)) \/ tchan' = [tchan EXCEPT ![u] = Send(@, held[u])]
    BY <1>3 DEF ThreadStep, OfThread, ProducerSends, ProducerCloses, Concatenating, ConcatNext,
       ConcatReceives, ConcatSends, DiscardFileChan, threadVars
  <2> QED BY <1>1, <2>1 DEF ConcatEnds
<1> QED BY <1>2, <1>3

LEMMA PopsTurn ==
    ASSUME TypeInv, HeapInv, MergePops, NEW t \in Threads, merge = "init"
    PROVE  t < turn
<1>1. turn \notin Threads /\ turn \in Nat /\ turn >= 1
  BY DEF MergePops, HeapInv, TypeInv, MergeTypes
<1>2. Threads = 1 .. Cardinality(Threads) /\ Cardinality(Threads) \in Nat
  BY ThreadsAssumption, FS_CardinalityType
<1> QED BY <1>1, <1>2

LEMMA HeapStep ==
    ASSUME TypeInv, HeapInv, LineInv, [Next]_vars
    PROVE  HeapInv'
<1>1. /\ request' = request /\ turn \in Nat
      /\ heap \in [Threads -> PacketOrNone] /\ tchan \in [Threads -> Chan]
      /\ out.err = "open" <=> merge # "end"
      /\ merge \in {"receive", "send"} => turn \in Threads
  BY RequestStays DEF TypeInv, MergeTypes, ThreadTypes
<1>2. Running' => Running
  BY RunningBefore
<1>3. merge' = "init" /\ handler' # "end" /\ merge = "init" => Sent' = <<>>
  <2> SUFFICES ASSUME merge' = "init", handler' # "end", merge = "init"
               PROVE  Sent' = <<>>
    OBVIOUS
  <2>1. handler # "end" /\ Sent' = Sent
    BY SentMoves DEF Pops
  <2> QED BY <2>1 DEF HeapInv
<1> DEFINE Held(t) == \/ Dry(t) /\ tchan[t].err = "nil"
                      \/ merge = "receive" /\ t = turn
                      \/ merge = "send" /\ t = turn /\ Dry(t)
<1>4. ASSUME NEW t \in Threads, Running, heap[t] = None, merge = "init" => t < turn
      PROVE  Held(t)
  BY <1>4 DEF HeapInv
<1>5. ASSUME UNCHANGED <<merge, turn, heap, popped>>,
             \A t \in Threads : Dry(t) => tchan'[t] = tchan[t]
      PROVE  HeapInv'
  <2>1. ASSUME Running', NEW t \in Threads, heap'[t] = None, merge' = "init" => t < turn'
        PROVE  Held(t)'
    <3>1. Held(t)
      BY <1>2, <1>4, <1>5, <2>1
    <3> QED BY <1>5, <3>1 DEF Dry, Closed
  <2>2. merge' = "init" => turn' >= 1 /\ \A t \in Threads : t >= turn' => heap'[t] = None
    BY <1>5 DEF HeapInv
  <2>3. merge' = "receive" => heap'[turn'] = None /\ Of(request', turn', popped')
    BY <1>1, <1>5 DEF HeapInv
  <2>4. merge' = "init" /\ handler' # "end" => Sent' = <<>>
    BY <1>3, <1>5
  <2> QED BY <2>1, <2>2, <2>3, <2>4 DEF HeapInv
<1>6. ASSUME merge' = "end"
      PROVE  HeapInv'
  BY <1>6 DEF HeapInv, Running
<1>7. ASSUME NEW f \in Files, FileStep(f)
      PROVE  HeapInv'
  BY <1>5, <1>7 DEF FileStep, OfFile, threadVars, mergeVars
<1>8. ASSUME NEW u \in Threads, ThreadStep(u)
      PROVE  HeapInv'
  BY <1>5, <1>8, DryStays DEF ThreadStep, OfThread, mergeVars
<1>9. ASSUME HandlerStep \/ UNCHANGED vars
      PROVE  HeapInv'
  BY <1>5, <1>9 DEF HandlerStep, OfHandler, threadVars, mergeVars, vars
<1>10. ASSUME TakeFrom(turn), turn \in Threads
       PROVE  /\ heap'[turn] = None => Exhausted(tchan[turn]) /\ UNCHANGED <<heap, tchan>>
              /\ \A t \in Threads : t # turn => heap'[t] = heap[t] /\ tchan'[t] = tchan[t]
  <2>1. tchan[turn].buf # <<>> => Head(tchan[turn].buf) \in Packets /\ Head(tchan[turn].buf) # None
    <3>1. tchan[turn].buf \in Seq(Packets)
      BY <1>10, FlowTypes
    <3> QED BY <3>1, NoneAssumption
  <2> QED BY <1>1, <1>10, <2>1 DEF TakeFrom
<1>11. ASSUME MergeStep
       PROVE  HeapInv'
  <2>1. CASE MergeInit
    <3>1. CASE merge' = "end"
      BY <1>6, <3>1
    <3>2. CASE merge' # "end"
      <4>1. /\ merge = "init" /\ merge' = "init" /\ turn \in Threads /\ turn' = turn + 1
            /\ TakeFrom(turn) /\ ~Failed(tchan[turn])
        BY <2>1, <3>2 DEF MergeInit, MergeEnds
      <4>2. turn' >= 1 /\ \A t \in Threads : t \in Nat /\ (t >= turn' => heap'[t] = None)
        <5>1. \A t \in Threads : t \in Nat
          BY ThreadsAssumption, FS_CardinalityType
        <5>2. \A t \in Threads : t >= turn' => t >= turn /\ t # turn
          BY <1>1, <4>1, <5>1
        <5>3. \A t \in Threads : t >= turn' => heap'[t] = heap[t] /\ heap[t] = None
          BY <1>10, <4>1, <5>2 DEF HeapInv
        <5> QED BY <1>1, <4>1, <5>1, <5>3
      <4>3. ASSUME Running', NEW t \in Threads, heap'[t] = None, t < turn'
            PROVE  Held(t)'
        <5>1. CASE t = turn
          <6>1. Exhausted(tchan[turn]) /\ UNCHANGED <<heap, tchan>>
            BY <1>10, <4>1, <4>3, <5>1
          <6>2. tchan[turn].err \in Errors
            BY <1>1, <4>1, ChanTypes
          <6>3. tchan[turn].err = "nil"
            BY <4>1, <6>1, <6>2 DEF Exhausted, Closed, Failed, Errors
          <6> QED BY <4>3, <5>1, <6>1, <6>3 DEF Dry, Exhausted
        <5>2. CASE t # turn
          <6>1. t < turn /\ heap[t] = None /\ heap'[t] = heap[t] /\ tchan'[t] = tchan[t]
            BY <1>1, <1>10, <4>1, <4>2, <4>3, <5>2
          <6>2. Dry(t) /\ tchan[t].err = "nil"
            BY <1>2, <1>4, <4>1, <4>3, <6>1
          <6> QED BY <6>1, <6>2 DEF Dry, Closed
        <5> QED BY <5>1, <5>2
      <4> QED BY <1>3, <4>1, <4>2, <4>3 DEF HeapInv
    <3> QED BY <3>1, <3>2
  <2>2. CASE MergePops
    <3>1. CASE ctxDone \/ Smallest = {}
      BY <1>6, <2>2, <3>1 DEF MergePops, MergeEnds
    <3>2. CASE ~(ctxDone \/ Smallest = {})
      <4>1. PICK u \in Smallest : u = turn'
        BY <2>2, <3>2 DEF MergePops
      <4>2. Pops(u) /\ u \in Threads
        BY <1>11, <2>2, <3>2, <4>1
        DEF MergePops, Pops, MergeStep, OfMerge, threadVars, handlerVars, TypeInv, MergeTypes, Smallest
      <4>3. /\ turn' = u /\ popped' = heap[u] /\ merge' = "receive" /\ heap'[u] = None
            /\ tchan' = tchan /\ merge \in {"init", "loop"} /\ Running
            /\ \A t \in Threads : t # u => heap'[t] = heap[t]
        BY <4>2, PopsTypes DEF Pops
      <4>4. Of(request, u, heap[u])
        <5>1. Running'
          BY <4>2, <4>3 DEF Pops, Running
        <5> QED BY <4>2, <5>1, PoppedOf
      <4>5. ASSUME NEW t \in Threads, heap'[t] = None
            PROVE  Held(t)'
        <5>1. CASE t = u
          BY <4>3, <5>1
        <5>2. CASE t # u
          <6>1. heap[t] = None /\ heap'[t] = None /\ (merge = "init" => t < turn)
            BY <2>2, <4>3, <4>5, <5>2, PopsTurn
          <6>2. Dry(t) /\ tchan[t].err = "nil"
            BY <1>4, <4>3, <6>1
          <6> QED BY <4>3, <6>1, <6>2 DEF Dry, Closed
        <5> QED BY <5>1, <5>2
      <4> QED BY <1>1, <4>3, <4>4, <4>5 DEF HeapInv
    <3> QED BY <3>1, <3>2
  <2>3. CASE MergeReceives
    <3>1. /\ merge = "receive" /\ merge' = "send" /\ turn' = turn /\ turn \in Threads
          /\ TakeFrom(turn)
      BY <1>1, <2>3 DEF MergeReceives
    <3>2. ASSUME Running', NEW t \in Threads, heap'[t] = None
          PROVE  Held(t)'
      <4>1. CASE t = turn
        <5>1. Exhausted(tchan[t]) /\ heap'[t] = None /\ tchan' = tchan
          BY <1>10, <3>1, <3>2, <4>1
        <5> QED BY <3>1, <4>1, <5>1 DEF Dry, Exhausted, Closed
      <4>2. CASE t # turn
        <5>1. heap[t] = None /\ heap'[t] = None /\ tchan'[t] = tchan[t]
          BY <1>10, <3>1, <3>2, <4>2
        <5>2. Dry(t) /\ tchan[t].err = "nil"
          BY <1>2, <1>4, <3>1, <3>2, <4>2, <5>1
        <5> QED BY <5>1, <5>2 DEF Dry, Closed
      <4> QED BY <4>1, <4>2
    <3> QED BY <3>1, <3>2 DEF HeapInv
  <2>4. CASE MergeSends
    <3>1. CASE merge' = "end"
      BY <1>6, <3>1
    <3>2. CASE merge' # "end"
      <4>1. /\ merge = "send" /\ merge' = "loop" /\ ~Failed(tchan[turn]) /\ turn' = turn
            /\ turn \in Threads /\ heap' = heap /\ tchan' = tchan
        BY <1>1, <2>4, <3>2 DEF MergeSends, threadVars
      <4>2. ASSUME Running', NEW t \in Threads, heap'[t] = None
            PROVE  Held(t)'
        <5>1. Dry(t) /\ (tchan[t].err = "nil" \/ t = turn)
          BY <1>2, <1>4, <4>1, <4>2
        <5>2. tchan[t].err \in Errors
          BY <1>1, ChanTypes
        <5>3. tchan[t].err = "nil"
          BY <4>1, <5>1, <5>2 DEF Dry, Closed, Failed, Errors
        <5> QED BY <4>1, <5>1, <5>3 DEF Dry, Closed
      <4> QED BY <4>1, <4>2 DEF HeapInv
    <3> QED BY <3>1, <3>2
  <2>5. CASE \E t \in Threads : DiscardThreadChan(t)
    <3>1. Closed(out) /\ merge' = merge
      BY <2>5 DEF DiscardThreadChan, mergeVars
    <3> QED BY <1>1, <1>6, <3>1 DEF Closed
  <2> QED BY <1>11, <2>1, <2>2, <2>3, <2>4, <2>5 DEF MergeStep, OfMerge, Merging
<1> QED BY <1>7, <1>8, <1>9, <1>11, Steps

-----------------------------------------------------------------------------
(***************************************************************************)
(* What is sent is in the order of time, each packet once, and nothing     *)
(* that waits on the heap is older.                                        *)
(***************************************************************************)
Before(p, q) == p # q /\ Time[p] <= Time[q]

Sorted(r, s) ==
    /\ \A m \in DOMAIN s : \E t \in Threads : Of(r, t, s[m])
    /\ \A m, n \in DOMAIN s : m < n => Before(s[m], s[n])

SentInv == handler # "end" =>
    /\ Sorted(request, Sent)
    /\ merge # "end" => \A p \in Packets : In(p, Sent) =>
          \A t \in Threads : heap[t] # None => Time[p] <= Time[heap[t]]

LEMMA SortedAppend ==
    ASSUME NEW r, NEW s \in Seq(Packets), NEW q \in Packets
    PROVE  Sorted(r, Append(s, q)) <=>
              /\ Sorted(r, s) /\ \E t \in Threads : Of(r, t, q)
              /\ \A p \in Packets : In(p, s) => Before(p, q)
<1> DEFINE u == Append(s, q)
<1>1. /\ u[Len(s) + 1] = q /\ \A i \in 1 .. Len(s) : u[i] = s[i] /\ s[i] \in Packets
      /\ DOMAIN s = 1 .. Len(s) /\ DOMAIN u = 1 .. Len(s) + 1 /\ Len(s) \in Nat
  BY AppendProperties
<1> HIDE DEF u
<1>2. /\ Len(s) + 1 \in DOMAIN u
      /\ \A i \in DOMAIN s : i \in DOMAIN u /\ i < Len(s) + 1
      /\ \A i \in DOMAIN u : i \in DOMAIN s \/ i = Len(s) + 1
      /\ \A i, j \in DOMAIN u : i < j => i \in DOMAIN s
  BY <1>1
<1>3. ASSUME Sorted(r, u)
      PROVE  /\ Sorted(r, s) /\ \E t \in Threads : Of(r, t, q)
             /\ \A p \in Packets : In(p, s) => Before(p, q)
  BY <1>1, <1>2, <1>3 DEF Sorted, In
<1>4. ASSUME Sorted(r, s), \E t \in Threads : Of(r, t, q),
             \A p \in Packets : In(p, s) => Before(p, q)
      PROVE  Sorted(r, u)
  <2>1. \A m \in DOMAIN u : \E t \in Threads : Of(r, t, u[m])
    BY <1>1, <1>2, <1>4 DEF Sorted
  <2>2. ASSUME NEW m \in DOMAIN u, NEW n \in DOMAIN u, m < n
        PROVE  Before(u[m], u[n])
    <3>1. m \in DOMAIN s /\ u[m] = s[m] /\ s[m] \in Packets /\ In(s[m], s)
      BY <1>1, <1>2, <2>2 DEF In
    <3>2. CASE n = Len(s) + 1
      BY <1>1, <1>4, <3>1, <3>2
    <3>3. CASE n \in DOMAIN s
      BY <1>1, <1>4, <2>2, <3>1, <3>3 DEF Sorted
    <3> QED BY <1>2, <3>2, <3>3
  <2> QED BY <2>1, <2>2 DEF Sorted
<1> QED BY <1>3, <1>4 DEF u

(* The packet on the heap is the first of the chain.                       *)
ChainFirst == \A t \in Threads : heap[t] # None =>
    heap[t] \in Packets /\ 1 \in DOMAIN Chain(t) /\ Chain(t)[1] = heap[t]

LEMMA ChainFirstInvariant == TypeInv => ChainFirst
<1> SUFFICES ASSUME TypeInv, NEW t \in Threads, heap[t] # None
             PROVE  heap[t] \in Packets /\ 1 \in DOMAIN Chain(t) /\ Chain(t)[1] = heap[t]
  BY DEF ChainFirst
<1>1. /\ heap[t] \in Packets /\ tchan[t].buf \in Seq(Packets)
      /\ Opt(held[t]) \in Seq(Packets) /\ Opt(None) \o tchan[t].buf = tchan[t].buf
  BY FlowTypes, OptTypes, ConcatEmptySeq
<1>2. Chain(t) = <<heap[t]>> \o (tchan[t].buf \o Opt(held[t]))
  <2>1. Opt(heap[t]) \o tchan[t].buf \o Opt(held[t])
        = <<heap[t]>> \o (Opt(None) \o tchan[t].buf \o Opt(held[t]))
    BY <1>1, FrontMoves
  <2> QED BY <1>1, <2>1 DEF Chain
<1>3. PICK s \in Seq(Packets) : s = tchan[t].buf \o Opt(held[t])
  BY <1>1, ConcatProperties
<1>4. /\ <<heap[t]>> \o s \in Seq(Packets) /\ (<<heap[t]>> \o s)[1] = heap[t]
      /\ Len(<<heap[t]>> \o s) = Len(s) + 1 /\ Len(s) \in Nat
  BY <1>1, Cons
<1>5. 1 \in DOMAIN (<<heap[t]>> \o s)
  BY <1>4
<1> QED BY <1>1, <1>2, <1>3, <1>4, <1>5

LEMMA ChainFirstNext == TypeInv' => ChainFirst'
  BY ChainFirstInvariant, PTL

LEMMA PoppedLast ==
    ASSUME TypeInv, NEW q \in Packets, popped = q, Sorted(request, Sent)
    PROVE  In(q, Sent) /\ \A p \in Packets : In(p, Sent) => Time[p] <= Time[q]
<1>1. PICK s \in Seq(Packets) : s = answer \o out.buf \o Opt(None)
  <2>1. answer \in Seq(Packets) /\ out.buf \in Seq(Packets) /\ Opt(None) \in Seq(Packets)
    BY FlowTypes, OptTypes
  <2>2. answer \o out.buf \in Seq(Packets)
    BY <2>1, ConcatProperties
  <2>3. (answer \o out.buf) \o Opt(None) \in Seq(Packets)
    BY <2>1, <2>2, ConcatProperties
  <2> QED BY <2>3
<1>2. Sent = Append(s, q)
  BY <1>1, FlowTypes, BehindMoves DEF Sent
<1>3. \A p \in Packets : In(p, s) => Before(p, q)
  BY <1>2, SortedAppend
<1>4. \A p : In(p, Sent) <=> In(p, s) \/ p = q
  BY <1>2, InAppend
<1>5. Time[q] \in Nat
  BY TimeAssumption
<1> QED BY <1>3, <1>4, <1>5 DEF Before

LEMMA HeapMoves ==
    ASSUME TypeInv, [Next]_vars, \A u \in Threads : ~Pops(u), merge' # "end"
    PROVE  \/ heap' = heap
           \/ merge = "init"
           \/ /\ merge = "receive" /\ turn \in Threads
              /\ \A t \in Threads : t # turn => heap'[t] = heap[t]
<1>1. heap \in [Threads -> PacketOrNone]
  BY DEF TypeInv, MergeTypes
<1>2. ASSUME MergeStep
      PROVE  \/ heap' = heap
             \/ merge = "init"
             \/ /\ merge = "receive" /\ turn \in Threads
                /\ \A t \in Threads : t # turn => heap'[t] = heap[t]
  <2>1. ASSUME MergePops
        PROVE  FALSE
    <3>1. ~(ctxDone \/ Smallest = {})
      BY <2>1 DEF MergePops, MergeEnds
    <3>2. PICK u \in Smallest : u = turn'
      BY <2>1, <3>1 DEF MergePops
    <3>3. Pops(u) /\ u \in Threads
      BY <1>2, <2>1, <3>1, <3>2
      DEF MergePops, Pops, MergeStep, OfMerge, threadVars, handlerVars, TypeInv, MergeTypes, Smallest
    <3> QED BY <3>3
  <2>2. MergeInit => merge = "init"
    BY DEF MergeInit
  <2>3. CASE MergeReceives
    <3>1. merge = "receive" /\ turn \in Threads /\ TakeFrom(turn)
      BY <2>3 DEF MergeReceives, TypeInv, MergeTypes
    <3> QED BY <1>1, <3>1 DEF TakeFrom
  <2>4. MergeSends => heap' = heap
    BY DEF MergeSends
  <2>5. \A t \in Threads : DiscardThreadChan(t) => heap' = heap
    BY DEF DiscardThreadChan, mergeVars
  <2> QED BY <1>2, <2>1, <2>2, <2>3, <2>4, <2>5 DEF MergeStep, OfMerge, Merging
<1>3. \A f \in Files : FileStep(f) => heap' = heap
  BY DEF FileStep, OfFile, mergeVars
<1>4. \A t \in Threads : ThreadStep(t) => heap' = heap
  BY DEF ThreadStep, OfThread, mergeVars
<1>5. HandlerStep \/ UNCHANGED vars => heap' = heap
  BY DEF HandlerStep, OfHandler, mergeVars, vars
<1> QED BY <1>2, <1>3, <1>4, <1>5, Steps

LEMMA SentStep ==
    ASSUME TypeInv, ReadInv, HeapInv, LineInv, SentInv, [Next]_vars
    PROVE  SentInv'
<1> SUFFICES ASSUME handler' # "end"
             PROVE  /\ Sorted(request', Sent')
                    /\ merge' # "end" => \A p \in Packets : In(p, Sent') =>
                          \A t \in Threads : heap'[t] # None => Time[p] <= Time[heap'[t]]
  BY DEF SentInv
<1>1. /\ request' = request /\ request \in Requests /\ handler # "end" /\ Sorted(request, Sent)
      /\ Sent \in Seq(Packets)
      /\ merge # "end" => \A p \in Packets : In(p, Sent) =>
            \A t \in Threads : heap[t] # None => Time[p] <= Time[heap[t]]
  BY RequestStays, SentMoves, FlowTypes DEF TypeInv, SentInv
<1>2. ASSUME NEW u \in Threads, Pops(u)
      PROVE  /\ Sorted(request, Sent')
             /\ \A p \in Packets : In(p, Sent') =>
                   \A t \in Threads : heap'[t] # None => Time[p] <= Time[heap'[t]]
  <2>1. /\ heap[u] \in Packets /\ heap[u] # None /\ heap'[u] = None /\ Running /\ Running'
        /\ \A t \in Threads : t # u => heap'[t] = heap[t]
    BY <1>2, PopsTypes DEF Pops, Running
  <2>2. PICK q \in Packets : q = heap[u]
    BY <2>1
  <2>3. Sent' = Append(Sent, q)
    BY <1>2, <2>2, PopsSends
  <2>4. Of(request, u, q)
    BY <1>2, <2>1, <2>2, PoppedOf
  <2>5. ASSUME NEW p \in Packets, In(p, Sent)
        PROVE  Before(p, q)
    <3>1. Time[p] <= Time[q]
      BY <1>1, <2>1, <2>2, <2>5 DEF Running
    <3>2. PICK k \in DOMAIN Sent : p = Sent[k]
      BY <2>5 DEF In
    <3>3. PICK t \in Threads : Of(request, t, p)
      BY <1>1, <3>2 DEF Sorted
    <3>4. CASE t = u
      <4>1. 1 \in DOMAIN Chain(u) /\ Chain(u)[1] = q
        BY <2>1, <2>2, ChainFirstInvariant DEF ChainFirst
      <4>2. Line(request, u, Sent, Chain(u))
        BY <2>1 DEF LineInv
      <4>3. Prec(request, u, p, q)
        BY <3>2, <3>3, <3>4, <4>1, <4>2 DEF Line
      <4>4. p # q
        BY <1>1, <4>3, PrecOrders
      <4> QED BY <3>1, <4>4 DEF Before
    <3>5. CASE t # u
      <4>1. p # q
        BY <1>1, <2>4, <3>3, <3>5, OneThread
      <4> QED BY <3>1, <4>1 DEF Before
    <3> QED BY <3>4, <3>5
  <2>6. Sorted(request, Append(Sent, q))
    BY <1>1, <2>4, <2>5, SortedAppend
  <2>7. ASSUME NEW p \in Packets, In(p, Sent'), NEW t \in Threads, heap'[t] # None
        PROVE  Time[p] <= Time[heap'[t]]
    <3>1. t # u /\ heap'[t] = heap[t] /\ heap[t] # None
      BY <2>1, <2>7
    <3>2. In(p, Append(Sent, q)) <=> In(p, Sent) \/ p = q
      BY <1>1, InAppend
    <3>3. Time[q] <= Time[heap[t]]
      BY <1>2, <2>2, <3>1 DEF Pops, Smallest
    <3> QED BY <1>1, <2>1, <2>3, <2>7, <3>1, <3>2, <3>3 DEF Running
  <2> QED BY <2>3, <2>6, <2>7
<1>3. ASSUME \A u \in Threads : ~Pops(u)
      PROVE  /\ Sorted(request, Sent')
             /\ merge' # "end" => \A p \in Packets : In(p, Sent') =>
                   \A t \in Threads : heap'[t] # None => Time[p] <= Time[heap'[t]]
  <2>1. Sent' = Sent /\ (merge = "end" => merge' = "end")
    BY <1>3, SentMoves
  <2>2. ASSUME merge' # "end", NEW p \in Packets, In(p, Sent), NEW t \in Threads, heap'[t] # None
        PROVE  Time[p] <= Time[heap'[t]]
    <3>1. merge # "end" /\ merge # "init"
      <4>1. merge = "init" => Sent = <<>>
        BY <1>1 DEF HeapInv
      <4>2. Sent # <<>>
        BY <2>2 DEF In
      <4> QED BY <2>1, <2>2, <4>1, <4>2
    <3>2. CASE heap'[t] = heap[t]
      BY <1>1, <2>2, <3>1, <3>2
    <3>3. CASE heap'[t] # heap[t]
      <4>1. merge = "receive" /\ t = turn
        BY <1>3, <2>2, <3>1, <3>3, HeapMoves
      <4>2. PICK q \in Packets : q = popped
        BY <4>1 DEF TypeInv, MergeTypes, PacketOrNone
      <4>3. Of(request, t, q)
        BY <4>1, <4>2 DEF HeapInv
      <4>4. In(q, Sent) /\ Time[p] <= Time[q]
        BY <1>1, <2>2, <4>2, PoppedLast
      <4>5. PICK k \in DOMAIN Sent : q = Sent[k]
        BY <4>4 DEF In
      <4>6. Line(request, t, Sent, Chain(t)')
        <5>1. LineInv' /\ Running'
          BY <2>2, LineStep DEF Running
        <5>2. Line(request', t, Sent', Chain(t)')
          BY <5>1 DEF LineInv
        <5> QED BY <1>1, <2>1, <5>2
      <4>7. heap'[t] \in Packets /\ 1 \in DOMAIN Chain(t)' /\ Chain(t)'[1] = heap'[t]
        BY <2>2, TypeStep, ChainFirstNext DEF ChainFirst
      <4>8. Prec(request, t, q, heap'[t])
        BY <4>3, <4>5, <4>6, <4>7 DEF Line
      <4>9. Time[q] <= Time[heap'[t]]
        BY <1>1, <4>8, PrecOrders
      <4>10. Time[p] \in Nat /\ Time[q] \in Nat /\ Time[heap'[t]] \in Nat
        BY <4>7, TimeAssumption
      <4> QED BY <4>4, <4>9, <4>10
    <3> QED BY <3>2, <3>3
  <2> QED BY <1>1, <2>1, <2>2
<1> QED BY <1>1, <1>2, <1>3

-----------------------------------------------------------------------------
(***************************************************************************)
(* The merge ends without an error only if nobody has a packet left.       *)
(***************************************************************************)
Settled ==
    /\ \A t \in Threads : producer[t] = "closed"
    /\ \A f \in Files : lookup[f] \in {"none", "end"}

SettledInv ==
    /\ out.err = "nil" => Settled
    /\ out.err = "nil" /\ cut = {} /\ handler # "end" => \A p \in request.must : In(p, Sent)
    /\ handler = "end" /\ result = "nil" => out.err = "nil"

LEMMA Least ==
    ASSUME NEW S, S \subseteq Nat, S # {}
    PROVE  \E m \in S : \A n \in S : m <= n
<1> DEFINE R == OpToRel(<, Nat)
<1>1. IsWellFoundedOn(R, Nat)
  BY NatLessThanWellFounded
<1>2. \A m, n \in Nat : n < m => <<n, m>> \in R
  BY DEF OpToRel
<1> HIDE DEF R
<1>3. PICK m \in S : \A n \in S : ~(<<n, m>> \in R)
  BY <1>1, WFMin
<1>4. \A n \in S : n \in Nat /\ m \in Nat /\ ~(n < m)
  BY <1>2, <1>3
<1> QED BY <1>4

LEMMA SmallestIsThere ==
    ASSUME TypeInv, NEW t \in Threads, heap[t] # None
    PROVE  Smallest # {}
<1> DEFINE U == {u \in Threads : heap[u] # None}
           S == {Time[heap[u]] : u \in U}
<1>1. \A u \in U : heap[u] \in Packets /\ Time[heap[u]] \in Nat
  BY FlowTypes, TimeAssumption
<1>2. S \subseteq Nat /\ S # {}
  BY <1>1
<1>3. PICK m \in S : \A n \in S : m <= n
  <2> HIDE DEF S
  <2> QED BY <1>2, Least
<1>4. PICK u \in U : m = Time[heap[u]]
  OBVIOUS
<1>5. \A v \in Threads : heap[v] # None => Time[heap[u]] <= Time[heap[v]]
  BY <1>3, <1>4
<1> QED BY <1>4, <1>5 DEF Smallest

LEMMA SettledStays ==
    ASSUME TypeInv, Settled, [Next]_vars
    PROVE  Settled' /\ cut' = cut
<1>1. ASSUME NEW f \in Files, FileStep(f)
      PROVE  UNCHANGED <<producer, lookup, cut>>
  <2>1. lookup[f] \in {"none", "end"}
    BY DEF Settled
  <2>2. UNCHANGED <<lookup, cut>>
    BY <1>1, <2>1 DEF FileStep, OfFile, LookupStarts, LookupSends, LookupStops, LookupDone,
       LookupFails, FileCloses
  <2> QED BY <1>1, <2>2 DEF FileStep, OfFile, threadVars
<1>2. ASSUME NEW t \in Threads, ThreadStep(t)
      PROVE  UNCHANGED <<producer, lookup, cut>>
  <2>1. producer[t] = "closed"
    BY DEF Settled
  <2> QED BY <1>2, <2>1 DEF ThreadStep, OfThread, ProducerSends, ProducerCloses, Concatenating,
     ConcatNext, ConcatReceives, ConcatSends, DiscardFileChan, fileVars, threadVars
<1>3. MergeStep \/ HandlerStep \/ UNCHANGED vars => UNCHANGED <<producer, lookup, cut>>
  BY DEF MergeStep, OfMerge, Merging, MergeInit, MergePops, MergeReceives, MergeSends,
     DiscardThreadChan, HandlerStep, OfHandler, fileVars, threadVars, vars
<1> QED BY <1>1, <1>2, <1>3, Steps DEF Settled

(* The merge closes its channel without an error at one place.             *)
LEMMA OutMoves ==
    ASSUME TypeInv, [Next]_vars
    PROVE  \/ out'.err = out.err
           \/ out.err = "open" /\ out'.err # "nil"
           \/ /\ out.err = "open" /\ MergePops /\ ~ctxDone /\ Smallest = {}
              /\ UNCHANGED <<request, handler, cut, popped, answer>> /\ out'.buf = out.buf
<1>1. /\ out \in Chan
      /\ out.err = "open" <=> merge # "end"
      /\ \A t \in Threads : tchan[t].err \in Errors
  BY ChanTypes DEF TypeInv, MergeTypes, ThreadTypes
<1>2. ASSUME NEW err \in Errors, NEW c \in Chan
      PROVE  Close(c, err).err = err /\ Close(c, err).buf = c.buf
  BY ChanTypes
<1>3. ASSUME MergeStep
      PROVE  \/ out'.err = out.err
             \/ out.err = "open" /\ out'.err # "nil"
             \/ /\ out.err = "open" /\ MergePops /\ ~ctxDone /\ Smallest = {}
                /\ UNCHANGED <<request, handler, cut, popped, answer>> /\ out'.buf = out.buf
  <2>1. CASE MergeInit
    <3>1. merge = "init" /\ turn \in Threads
      BY <2>1 DEF MergeInit
    <3>2. CASE UNCHANGED out
      BY <3>2
    <3>3. CASE Failed(tchan[turn]) /\ MergeEnds(tchan[turn].err)
      <4>1. out'.err = tchan[turn].err
        BY <1>1, <1>2, <3>1, <3>3 DEF MergeEnds
      <4> QED BY <1>1, <3>1, <3>3, <4>1 DEF Failed
    <3>4. CASE MergeEnds("canceled")
      <4>1. out'.err = "canceled"
        <5>1. PICK e \in Errors : e = "canceled"
          BY DEF Errors
        <5> QED BY <1>1, <1>2, <3>4, <5>1 DEF MergeEnds
      <4> QED BY <1>1, <3>1, <4>1
    <3> QED BY <2>1, <3>2, <3>3, <3>4 DEF MergeInit
  <2>2. CASE MergePops
    <3>1. CASE ctxDone \/ Smallest = {}
      <4>1. merge # "end" /\ MergeEnds(CtxErr) /\ UNCHANGED <<popped, request, answer, handler, cut>>
        BY <1>3, <2>2, <3>1 DEF MergePops, MergeStep, OfMerge, handlerVars, fileVars
      <4>2. out'.err = CtxErr /\ out'.buf = out.buf
        BY <1>1, <1>2, <4>1, CtxErrType DEF MergeEnds, Errors
      <4>3. CASE ctxDone
        BY <1>1, <4>1, <4>2, <4>3 DEF CtxErr
      <4>4. CASE ~ctxDone
        BY <1>1, <2>2, <3>1, <4>1, <4>2, <4>4
      <4> QED BY <4>3, <4>4
    <3>2. CASE ~(ctxDone \/ Smallest = {})
      BY <2>2, <3>2 DEF MergePops
    <3> QED BY <3>1, <3>2
  <2>3. CASE MergeReceives
    BY <2>3 DEF MergeReceives
  <2>4. CASE MergeSends
    <3>1. merge = "send" /\ turn \in Threads /\ popped \in Packets
      BY <2>4 DEF MergeSends, TypeInv, MergeTypes, PacketOrNone
    <3>2. Send(out, popped) \in Chan /\ Send(out, popped).err = out.err
      BY <1>1, <3>1, ChanTypes
    <3>3. CASE Failed(tchan[turn])
      <4>1. out'.err = tchan[turn].err
        BY <1>1, <1>2, <2>4, <3>1, <3>2, <3>3 DEF MergeSends
      <4> QED BY <1>1, <3>1, <3>3, <4>1 DEF Failed
    <3>4. CASE ~Failed(tchan[turn])
      BY <2>4, <3>2, <3>4 DEF MergeSends
    <3> QED BY <3>3, <3>4
  <2>5. CASE \E t \in Threads : DiscardThreadChan(t)
    BY <2>5 DEF DiscardThreadChan, mergeVars
  <2> QED BY <1>3, <2>1, <2>2, <2>3, <2>4, <2>5 DEF MergeStep, OfMerge, Merging
<1>4. \A f \in Files : FileStep(f) => out' = out
  BY DEF FileStep, OfFile, mergeVars
<1>5. \A t \in Threads : ThreadStep(t) => out' = out
  BY DEF ThreadStep, OfThread, mergeVars
<1>6. HandlerStep => out'.err = out.err
  <2>1. HandlerStep => out' = out \/ out' = Receive(out)
    BY DEF HandlerStep, OfHandler, HandlerReturns, HandlerDiscards, HandlerWrites, WriteFails, Timeout
  <2>2. Receive(out).err = out.err
    BY <1>1 DEF Receive, Chan
  <2> QED BY <2>1, <2>2
<1>7. UNCHANGED vars => out' = out
  BY DEF vars, mergeVars
<1> QED BY <1>3, <1>4, <1>5, <1>6, <1>7, Steps

LEMMA FinishedRead ==
    ASSUME TypeInv, FileInv, cut = {}, NEW f \in Files, Finished(f)
    PROVE  Read(f) = Len(request.found[f]) /\ Len(request.found[f]) \in Nat
<1>1. fchan[f].buf = <<>> /\ fchan[f].err = "nil" /\ lookup[f] = "end"
  BY DEF Finished, TypeInv, FileTypes
<1>2. left[f] = <<>>
  BY <1>1 DEF FileInv
<1>3. Pending(f) = <<>>
  BY <1>1, <1>2, ConcatEmptySeq, EmptySeq DEF Pending
<1>4. Len(request.found[f]) \in Nat
  BY RequestTypes DEF TypeInv
<1> QED BY <1>1, <1>3, <1>4 DEF Read, Unstarted

LEMMA AtTheEnd ==
    ASSUME TypeInv, ReadInv, HeapInv, LossInv, MergePops, ~ctxDone, Smallest = {}
    PROVE  Settled /\ (cut = {} => \A p \in request.must : In(p, Sent))
<1>1. /\ merge \in {"init", "loop"} /\ Running /\ request \in Requests
      /\ FileInv /\ QueueInv /\ PastInv /\ Outside
  BY DEF MergePops, Running, TypeInv, HandlerTypes, ReadInv
<1>2. ASSUME NEW t \in Threads
      PROVE  /\ heap[t] = None /\ Dry(t) /\ tchan[t].err = "nil"
             /\ producer[t] = "closed" /\ Taken(t) = Len(request.files[t])
             /\ \A i \in DOMAIN request.files[t] : Finished(File(t, i))
  <2>1. heap[t] = None
    BY SmallestIsThere
  <2>2. Dry(t) /\ tchan[t].err = "nil"
    BY <1>1, <2>1, PopsTurn DEF HeapInv
  <2>3. producer[t] = "closed" /\ inputs[t] = <<>>
    BY <1>1, <2>2 DEF PastInv
  <2>4. Taken(t) = Len(request.files[t])
    BY <1>1, <2>3, TakenTypes DEF QueueInv, Taken
  <2>5. ASSUME NEW i \in DOMAIN request.files[t]
        PROVE  Finished(File(t, i))
    <3>1. i < Taken(t) \/ i = Taken(t)
      BY <1>1, <2>4, TakenTypes
    <3> QED BY <1>1, <2>2, <3>1 DEF PastInv
  <2> QED BY <2>1, <2>2, <2>3, <2>4, <2>5
<1>3. ASSUME NEW f \in Files
      PROVE  lookup[f] \in {"none", "end"}
  <2>1. CASE \E t \in Threads : \E i \in DOMAIN request.files[t] : File(t, i) = f
    <3>1. Finished(f)
      BY <1>2, <2>1
    <3> QED BY <3>1 DEF Finished, TypeInv, FileTypes
  <2>2. CASE ~ \E t \in Threads : \E i \in DOMAIN request.files[t] : File(t, i) = f
    BY <1>1, <2>2 DEF Outside
  <2> QED BY <2>1, <2>2
<1>4. ASSUME cut = {}, NEW p \in request.must
      PROVE  In(p, Sent)
  <2>1. PICK t \in Threads : Of(request, t, p)
    <3>1. \E t \in Threads : \E i \in DOMAIN request.files[t] :
             \E k \in DOMAIN request.found[request.files[t][i]] : p = Packet(request, t, i, k)
      BY <1>1, FoundAssumption
    <3> QED BY <3>1 DEF Of
  <2>2. p \in Packets
    BY <1>1, RequestsAssumption
  <2>3. /\ ReadNow(t) \in Nat
        /\ Len(request.files[t]) \in DOMAIN request.files[t] =>
              ReadNow(t) = Len(request.found[request.files[t][Len(request.files[t])]])
    <3>1. ReadNow(t) \in Nat
      BY ReadNowType
    <3>2. ASSUME Len(request.files[t]) \in DOMAIN request.files[t]
          PROVE  ReadNow(t) = Len(request.found[request.files[t][Len(request.files[t])]])
      <4>1. PICK i \in DOMAIN request.files[t] : i = Len(request.files[t])
        BY <3>2
      <4>2. i = Taken(t) /\ Taken(t) # 0 /\ Finished(File(t, i)) /\ File(t, i) \in Files
        BY <1>1, <1>2, <4>1, TakenTypes
      <4>3. current[t] = File(t, i) /\ current[t] # None
        BY <1>1, <4>2, TakenTypes DEF QueueInv
      <4>4. PICK f \in Files : f = File(t, i)
        BY <4>2
      <4>5. Read(f) = Len(request.found[f])
        BY <1>1, <1>4, <4>2, <4>4, FinishedRead
      <4> QED BY <4>1, <4>3, <4>4, <4>5 DEF ReadNow, File
    <3> QED BY <3>1, <3>2
  <2>4. Upto(request, t, Len(request.files[t]), ReadNow(t), p)
    BY <1>1, <2>1, <2>3, UptoAll
  <2>5. Behind(t, p)
    BY <1>2, <2>4 DEF Behind
  <2>6. Sound(t)
    <3>1. ASSUME current[t] # None
          PROVE  ~Failed(fchan[current[t]])
      <4>1. Taken(t) # 0 /\ Taken(t) \in DOMAIN request.files[t] /\ current[t] = File(t, Taken(t))
        BY <1>1, <3>1, TakenTypes DEF QueueInv
      <4>2. Finished(File(t, Taken(t)))
        BY <1>2, <4>1
      <4> QED BY <4>1, <4>2 DEF Finished, Failed
    <3> QED BY <1>2, <3>1 DEF Sound, Failed
  <2>7. Arrived(t, p)
    BY <1>1, <1>4, <2>2, <2>5, <2>6 DEF LossInv
  <2>8. Chain(t) = <<>>
    <3>1. held[t] = None /\ heap[t] = None /\ tchan[t].buf = <<>>
      BY <1>2 DEF Dry, TypeInv, ThreadTypes
    <3>2. Opt(None) = <<>> /\ <<>> \o <<>> = <<>>
      BY OptTypes, ConcatEmptySeq, EmptySeq
    <3> QED BY <3>1, <3>2 DEF Chain
  <2> QED BY <2>7, <2>8 DEF Arrived, In
<1> QED BY <1>2, <1>3, <1>4 DEF Settled

LEMMA SettledStep ==
    ASSUME TypeInv, ReadInv, HeapInv, LossInv, SettledInv, [Next]_vars
    PROVE  SettledInv'
<1>1. request' = request /\ cut \subseteq cut' /\ (out.err = "open" <=> merge # "end")
  BY RequestStays, CutGrows DEF TypeInv, MergeTypes
<1>2. ASSUME out'.err = "nil"
      PROVE  /\ Settled'
             /\ cut' = {} /\ handler' # "end" => \A p \in request'.must : In(p, Sent')
  <2>1. CASE out'.err = out.err
    <3>1. Settled'
      BY <1>2, <2>1, SettledStays DEF SettledInv
    <3>2. ASSUME cut' = {}, handler' # "end"
          PROVE  \A p \in request'.must : In(p, Sent')
      <4>1. merge = "end"
        BY <1>1, <1>2, <2>1
      <4>2. Sent' = Sent /\ handler # "end"
        BY <3>2, <4>1, SentMoves DEF Pops
      <4> QED BY <1>1, <1>2, <2>1, <3>2, <4>2 DEF SettledInv
    <3> QED BY <3>1, <3>2
  <2>2. CASE out'.err # out.err
    <3>1. /\ MergePops /\ ~ctxDone /\ Smallest = {} /\ UNCHANGED <<handler, cut, popped, answer>>
          /\ out'.buf = out.buf
      BY <1>2, <2>2, OutMoves
    <3>2. Settled /\ (cut = {} => \A p \in request.must : In(p, Sent))
      BY <3>1, AtTheEnd
    <3>3. Sent' = Sent
      BY <3>1 DEF Sent
    <3> QED BY <1>1, <3>1, <3>2, <3>3, SettledStays
  <2> QED BY <2>1, <2>2
<1>3. ASSUME handler' = "end", result' = "nil"
      PROVE  out'.err = "nil"
  <2>1. CASE UNCHANGED <<handler, result>>
    <3>1. out.err = "nil"
      BY <1>3, <2>1 DEF SettledInv
    <3> QED BY <3>1, OutMoves
  <2>2. CASE ~UNCHANGED <<handler, result>>
    <3>1. HandlerStep
      <4>1. \A f \in Files : FileStep(f) => UNCHANGED <<handler, result>>
        BY DEF FileStep, OfFile, handlerVars
      <4>2. \A t \in Threads : ThreadStep(t) => UNCHANGED <<handler, result>>
        BY DEF ThreadStep, OfThread, handlerVars
      <4>3. MergeStep \/ UNCHANGED vars => UNCHANGED <<handler, result>>
        BY DEF MergeStep, OfMerge, handlerVars, vars
      <4> QED BY <2>2, <4>1, <4>2, <4>3, Steps
    <3>2. HandlerReturns
      BY <1>3, <2>2, <3>1 DEF HandlerStep, OfHandler, HandlerDiscards, HandlerWrites, WriteFails,
         Timeout, Returns, handlerVars
    <3> QED BY <1>3, <3>2 DEF HandlerReturns, Returns
  <2> QED BY <2>1, <2>2
<1> QED BY <1>2, <1>3 DEF SettledInv

-----------------------------------------------------------------------------
(***************************************************************************)
(* What is left of the limit, and all invariants together.                 *)
(***************************************************************************)
LimitInv ==
    /\ request.limit = 0 => limit = 0 /\ handler # "stop"
    /\ request.limit > 0 /\ handler = "write" => limit > 0 /\ limit + Len(answer) = request.limit

LEMMA LimitStep ==
    ASSUME TypeInv, LimitInv, [Next]_vars
    PROVE  LimitInv'
<1>1. /\ request' = request /\ request.limit \in Nat /\ limit \in Nat /\ answer \in Seq(Packets)
      /\ out.buf \in Seq(Packets)
  BY RequestStays, RequestTypes, FlowTypes DEF TypeInv, HandlerTypes
<1>2. ASSUME UNCHANGED <<limit, handler, answer>>
      PROVE  LimitInv'
  BY <1>1, <1>2 DEF LimitInv
<1>3. \A f \in Files : FileStep(f) => UNCHANGED <<limit, handler, answer>>
  BY DEF FileStep, OfFile, handlerVars
<1>4. \A t \in Threads : ThreadStep(t) => UNCHANGED <<limit, handler, answer>>
  BY DEF ThreadStep, OfThread, handlerVars
<1>5. MergeStep \/ UNCHANGED vars => UNCHANGED <<limit, handler, answer>>
  BY DEF MergeStep, OfMerge, handlerVars, vars
<1>6. ASSUME HandlerStep
      PROVE  LimitInv'
  <2>1. CASE HandlerWrites
    <3>1. /\ handler = "write" /\ limit' = (IF limit = 0 THEN 0 ELSE limit - 1)
          /\ handler' = (IF limit # 0 /\ limit' <= 0 THEN "stop" ELSE "write")
          /\ answer' = Append(answer, Head(out.buf)) /\ Head(out.buf) \in Packets
      BY <1>1, <2>1 DEF HandlerWrites, UsedUp
    <3>2. Len(answer') = Len(answer) + 1 /\ Len(answer) \in Nat
      BY <1>1, <3>1, AppendProperties
    <3> QED BY <1>1, <3>1, <3>2 DEF LimitInv
  <2>2. CASE HandlerReturns \/ WriteFails
    <3>1. handler' = "end" /\ limit' = limit
      BY <2>2 DEF HandlerReturns, WriteFails, Returns
    <3> QED BY <1>1, <3>1 DEF LimitInv
  <2>3. CASE HandlerDiscards \/ Timeout
    BY <1>2, <2>3 DEF HandlerDiscards, Timeout, handlerVars
  <2> QED BY <1>6, <2>1, <2>2, <2>3 DEF HandlerStep, OfHandler
<1> QED BY <1>2, <1>3, <1>4, <1>5, <1>6, Steps

LookupInv ==
    /\ TypeInv /\ ReadInv /\ HeapInv /\ LineInv
    /\ LossInv /\ SentInv /\ SettledInv /\ LimitInv

LEMMA InitInv == Init => LookupInv
<1> SUFFICES ASSUME Init PROVE LookupInv
  OBVIOUS
<1>1. TypeInv /\ ReadInv
  BY InitTypes, InitRead
<1>2. /\ merge = "init" /\ turn = 1 /\ handler = "write" /\ out.err = "open" /\ request \in Requests
      /\ limit = request.limit /\ answer = <<>>
      /\ \A t \in Threads : heap[t] = None /\ held[t] = None /\ tchan[t].buf = <<>>
                            /\ current[t] = None
  BY DEF Init, NewChan
<1>3. Sent = <<>> /\ \A t \in Threads : Chain(t) = <<>>
  <2>1. Opt(None) = <<>> /\ <<>> \o <<>> = <<>>
    BY OptTypes, ConcatEmptySeq, EmptySeq
  <2>2. answer = <<>> /\ out.buf = <<>> /\ popped = None
    BY DEF Init, NewChan
  <2> QED BY <1>2, <2>1, <2>2 DEF Sent, Chain
<1>4. \A t \in Threads : t \in Nat /\ t >= 1
  BY ThreadsAssumption, FS_CardinalityType
<1>5. HeapInv
  BY <1>2, <1>3, <1>4 DEF HeapInv
<1>6. LineInv
  BY <1>3 DEF LineInv, Line, Ascending, Arrived, In
<1>7. LossInv
  <2> SUFFICES ASSUME NEW t \in Threads, NEW p \in Packets, Behind(t, p)
               PROVE  FALSE
    BY DEF LossInv
  <2>1. Taken(t) = 0 /\ ReadNow(t) = 0
    BY <1>1, <1>2, TakenTypes DEF ReadInv, ReadNow
  <2>2. Upto(request, t, 0, 0, p)
    BY <2>1 DEF Behind
  <2>3. \A j \in DOMAIN request.files[t] : j \in Nat \ {0}
    BY <1>2, PlaceTypes
  <2> QED BY <2>2, <2>3 DEF Upto
<1>8. SentInv
  BY <1>3 DEF SentInv, Sorted, In
<1>9. SettledInv
  BY <1>2 DEF SettledInv
<1>10. LimitInv
  <2>1. Len(answer) = 0 /\ request.limit \in Nat
    BY <1>2, RequestTypes, EmptySeq
  <2> QED BY <1>2, <2>1 DEF LimitInv
<1> QED BY <1>1, <1>5, <1>6, <1>7, <1>8, <1>9, <1>10 DEF LookupInv

LEMMA InvStep == LookupInv /\ [Next]_vars => LookupInv'
  BY TypeStep, ReadStep, HeapStep, LineStep, LossStep, SentStep, SettledStep, LimitStep DEF LookupInv

LEMMA LookupInvariant == Spec => []LookupInv
<1>1. Init => LookupInv
  BY InitInv
<1> QED BY <1>1, InvStep, PTL DEF Spec

-----------------------------------------------------------------------------
(***************************************************************************)
(* What the handler writes next, and when it may call the answer complete. *)
(***************************************************************************)
LEMMA NextPacket ==
    ASSUME LookupInv, handler = "write", out.buf # <<>>
    PROVE  LET p == Head(out.buf) IN
           /\ p \in request.may /\ ~In(p, answer)
           /\ answer # <<>> => Time[answer[Len(answer)]] <= Time[p]
<1> DEFINE p == Head(out.buf)
<1>1. /\ answer \in Seq(Packets) /\ out.buf \in Seq(Packets) /\ Opt(popped) \in Seq(Packets)
      /\ request \in Requests /\ Sorted(request, Sent)
  BY FlowTypes, OptTypes DEF LookupInv, SentInv, TypeInv
<1>2. /\ Len(answer) \in Nat /\ Len(out.buf) \in Nat \ {0} /\ p = out.buf[1]
      /\ DOMAIN answer = 1 .. Len(answer)
  BY <1>1, EmptySeq
<1>3. /\ Len(answer) + 1 \in DOMAIN Sent /\ Sent[Len(answer) + 1] = p
      /\ \A i \in 1 .. Len(answer) : i \in DOMAIN Sent /\ Sent[i] = answer[i]
  <2> DEFINE s == answer \o out.buf
  <2>1. /\ s \in Seq(Packets) /\ Len(s) = Len(answer) + Len(out.buf)
        /\ \A i \in 1 .. Len(s) :
              s[i] = IF i <= Len(answer) THEN answer[i] ELSE out.buf[i - Len(answer)]
    BY <1>1, ConcatProperties
  <2> HIDE DEF s
  <2>2. PICK u \in Seq(Packets), v \in Seq(Packets) : u = s /\ v = Opt(popped) /\ Sent = u \o v
    BY <1>1, <2>1 DEF Sent, s
  <2>3. /\ u \o v \in Seq(Packets) /\ Len(u \o v) = Len(u) + Len(v)
        /\ \A i \in 1 .. Len(u \o v) : (u \o v)[i] = IF i <= Len(u) THEN u[i] ELSE v[i - Len(u)]
        /\ Len(u) \in Nat /\ Len(v) \in Nat
    BY ConcatProperties
  <2>4. /\ DOMAIN Sent = 1 .. Len(Sent) /\ Len(Sent) = Len(s) + Len(v) /\ Len(s) \in Nat /\ Len(v) \in Nat
        /\ \A i \in 1 .. Len(Sent) : i <= Len(s) => Sent[i] = s[i]
    BY <2>2, <2>3
  <2>5. \A i \in 1 .. Len(s) : i \in DOMAIN Sent /\ Sent[i] = s[i]
    BY <2>4
  <2>6. Len(answer) + 1 \in 1 .. Len(s) /\ s[Len(answer) + 1] = p
    BY <1>2, <2>1
  <2>7. \A i \in 1 .. Len(answer) : i \in 1 .. Len(s) /\ s[i] = answer[i]
    BY <1>2, <2>1
  <2> QED BY <2>5, <2>6, <2>7
<1> HIDE DEF p
<1>4. p \in request.may
  <2>1. PICK t \in Threads : Of(request, t, p)
    BY <1>1, <1>3 DEF Sorted
  <2>2. \A i \in DOMAIN request.files[t] : \A k \in DOMAIN request.found[request.files[t][i]] :
           Packet(request, t, i, k) \in request.may
    BY <1>1, FoundAssumption
  <2> QED BY <2>1, <2>2 DEF Of
<1>5. ASSUME NEW i \in 1 .. Len(answer)
      PROVE  Before(answer[i], p)
  <2>1. i < Len(answer) + 1
    BY <1>2
  <2> QED BY <1>1, <1>3, <2>1 DEF Sorted
<1>6. ~In(p, answer)
  BY <1>2, <1>5 DEF In, Before
<1>7. answer # <<>> => Len(answer) \in 1 .. Len(answer)
  BY <1>1, <1>2, EmptySeq
<1> QED BY <1>4, <1>5, <1>6, <1>7 DEF Before, p

LEMMA Completes ==
    ASSUME LookupInv, handler = "write", Exhausted(out), out.err = "nil", cut = {}
    PROVE  \A p \in request.must : In(p, answer)
<1>1. \A p \in request.must : In(p, Sent)
  BY DEF LookupInv, SettledInv
<1>2. popped = None
  BY DEF LookupInv, TypeInv, MergeTypes
<1>3. Sent = answer
  <2>1. out.buf = <<>> /\ answer \in Seq(Packets) /\ Opt(None) = <<>>
    BY FlowTypes, OptTypes DEF LookupInv, Exhausted
  <2>2. answer \o <<>> = answer
    BY <2>1, ConcatEmptySeq
  <2> QED BY <1>2, <2>1, <2>2 DEF Sent
<1> QED BY <1>1, <1>3

(* Each write is a Give of QueryAnswer, the return of handleQuery is its   *)
(* End, and nothing else changes what the client was promised.             *)
LEMMA AnswerStep ==
    ASSUME LookupInv, [Next]_vars
    PROVE  [Answer!Next]_(Answer!vars)
<1>1. request' = request /\ cut \subseteq cut' /\ TypeInv
  BY RequestStays, CutGrows DEF LookupInv
<1>2. CASE HandlerStep /\ HandlerWrites
  <2>1. /\ handler = "write" /\ handler' \in {"write", "stop"} /\ out.buf # <<>>
        /\ answer' = Append(answer, Head(out.buf))
    BY <1>2 DEF HandlerWrites
  <2>2. Outcome = "open" /\ Outcome' = "open"
    BY <2>1 DEF Outcome
  <2>3. request.limit = 0 \/ Len(answer) < request.limit
    <3>1. request.limit \in Nat /\ limit \in Nat /\ Len(answer) \in Nat
      BY <1>1, RequestTypes, FlowTypes DEF TypeInv, HandlerTypes
    <3> QED BY <2>1, <3>1 DEF LookupInv, LimitInv
  <2>4. PICK p : p = Head(out.buf)
    OBVIOUS
  <2>5. /\ p \in request.may /\ ~In(p, answer)
        /\ answer # <<>> => Time[answer[Len(answer)]] <= Time[p]
    BY <2>1, <2>4, NextPacket
  <2>6. p \notin Answer!ToSet(answer)
    BY <2>5 DEF In, Answer!ToSet
  <2>7. Answer!InOrder(p)
    BY <2>5 DEF Answer!InOrder, Answer!Last
  <2>8. Answer!Give
    BY <2>1, <2>2, <2>3, <2>4, <2>5, <2>6, <2>7 DEF Answer!Give
  <2> QED BY <1>1, <2>8 DEF Answer!Next
<1>3. CASE HandlerStep /\ (HandlerReturns \/ WriteFails)
  <2>1. /\ handler # "end" /\ handler' = "end" /\ answer' = answer /\ cut' = cut
    BY <1>3 DEF HandlerStep, OfHandler, HandlerReturns, WriteFails, Returns, fileVars
  <2>2. Outcome = "open"
    BY <2>1 DEF Outcome
  <2>3. CASE result' = "nil" /\ cut = {}
    <3>1. handler = "write" /\ Exhausted(out) /\ out.err = "nil"
      BY <1>3, <2>3 DEF HandlerReturns, WriteFails, Returns
    <3>2. request.must \subseteq Answer!ToSet(answer)
      BY <2>3, <3>1, Completes DEF In, Answer!ToSet
    <3>3. Outcome' = "complete"
      BY <2>1, <2>3 DEF Outcome
    <3> QED BY <1>1, <2>1, <2>2, <3>2, <3>3 DEF Answer!Next, Answer!End
  <2>4. CASE ~(result' = "nil" /\ cut = {})
    <3>1. Outcome' = "partial"
      BY <2>1, <2>4 DEF Outcome
    <3> QED BY <1>1, <2>1, <2>2, <3>1 DEF Answer!Next, Answer!End
  <2> QED BY <2>3, <2>4
<1>4. ASSUME UNCHANGED <<handler, result, answer>>
      PROVE  UNCHANGED Answer!vars
  <2>1. Outcome' = Outcome
    <3>1. CASE handler = "end" /\ result = "nil"
      <4>1. Settled
        BY <3>1 DEF LookupInv, SettledInv
      <4>2. cut' = cut
        BY <1>1, <4>1, SettledStays
      <4> QED BY <1>4, <4>2 DEF Outcome
    <3>2. CASE ~(handler = "end" /\ result = "nil")
      BY <1>4, <3>2 DEF Outcome
    <3> QED BY <3>1, <3>2
  <2> QED BY <1>1, <1>4, <2>1 DEF Answer!vars
<1>5. HandlerStep /\ (HandlerDiscards \/ Timeout) => UNCHANGED <<handler, result, answer>>
  BY DEF HandlerDiscards, Timeout, handlerVars
<1>6. \A f \in Files : FileStep(f) => UNCHANGED <<handler, result, answer>>
  BY DEF FileStep, OfFile, handlerVars
<1>7. \A t \in Threads : ThreadStep(t) => UNCHANGED <<handler, result, answer>>
  BY DEF ThreadStep, OfThread, handlerVars
<1>8. MergeStep \/ UNCHANGED vars => UNCHANGED <<handler, result, answer>>
  BY DEF MergeStep, OfMerge, handlerVars, vars
<1>9. HandlerStep => HandlerWrites \/ HandlerReturns \/ WriteFails \/ HandlerDiscards \/ Timeout
  BY DEF HandlerStep, OfHandler
<1> QED BY <1>2, <1>3, <1>4, <1>5, <1>6, <1>7, <1>8, <1>9, Steps

(* A query keeps the promise of QueryAnswer whatever the goroutines do in  *)
(* which order: packets that may match, each once, in the order of time,   *)
(* no more than asked for; nothing is missing if PacketsToFile returns nil *)
(* and no file was closed while it was read.                               *)
THEOREM ImplementsAnswerHolds == Spec => ImplementsAnswer
<1>1. Init => Answer!Init
  <2> SUFFICES ASSUME Init PROVE Answer!Init
    OBVIOUS
  <2>1. answer = <<>> /\ Outcome = "open"
    BY DEF Init, Outcome
  <2> QED BY <2>1 DEF Answer!Init
<1>2. LookupInv /\ [Next]_vars => [Answer!Next]_(Answer!vars)
  BY AnswerStep
<1> QED BY <1>1, <1>2, LookupInvariant, PTL DEF Spec, ImplementsAnswer, Answer!Spec

=============================================================================
