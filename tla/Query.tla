-------------------------------- MODULE Query --------------------------------
(***************************************************************************)
(* query/query.go: which packets of one file a query selects.              *)
(***************************************************************************)
EXTENDS PacketIndex

CONSTANT Minute  \* in the unit of the times

ASSUME MinuteAssumption == Minute \in Nat

(* timeQuery: t is the creation time in the name of the index file.        *)
BeforeQuery(t, time) == IF t > time + Minute THEN NoPositions ELSE AllPositions
AfterQuery(t, time) == IF t < time - Minute THEN NoPositions ELSE AllPositions

(***************************************************************************)
(* LookupIn.  unionQuery stops at all positions and intersectQuery at      *)
(* none, which changes nothing but the work: an error is not modelled      *)
(* here, Lookup lets each LookupIn fail.                                   *)
(***************************************************************************)
RECURSIVE LookupIn(_, _)
LookupIn(q, file) ==
    CASE q.op = "key" -> IndexPositions(Table(file.packets), q.type, q.from, q.to)
      [] q.op = "before" -> BeforeQuery(file.created, q.time)
      [] q.op = "after" -> AfterQuery(file.created, q.time)
      [] q.op = "or" -> FoldLeft(LAMBDA p, a : Union(p, LookupIn(a, file)), NoPositions, q.args)
      [] q.op = "and" -> FoldLeft(LAMBDA p, a : Intersect(p, LookupIn(a, file)), AllPositions, q.args)

(***************************************************************************)
(* The positions of the packets that BlockFile.Lookup reads: all of them,  *)
(* block by block and whatever a block holds, or those of the index.       *)
(***************************************************************************)
AllPacketsIter(file) == [i \in 1 .. FoldLeft(+, 0, file.blocks) |-> i]

Selected(q, file) ==
    LET p == LookupIn(q, file) IN IF IsAllPositions(p) THEN AllPacketsIter(file) ELSE p

=============================================================================
