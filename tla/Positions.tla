------------------------------ MODULE Positions ------------------------------
(***************************************************************************)
(* base/base.go: the offsets of packets in a packet file, an ascending     *)
(* sequence; <<-1>> stands for all of them.                                *)
(***************************************************************************)
EXTENDS Integers, Sequences, SequencesExt

AllPositions == <<-1>>
NoPositions == <<>>
IsAllPositions(p) == p = AllPositions

(* How many of the first elements of b the inner loop passes over.         *)
Below(b, pos) == Min({k \in 0 .. Len(b) : k = Len(b) \/ b[k + 1] >= pos})
Drop(b, k) == SubSeq(b, k + 1, Len(b))
DropEqual(b, pos) == IF b # <<>> /\ b[1] = pos THEN Tail(b) ELSE b

(* One round of the loop over a: out is what was appended, b what is left. *)
UnionStep(s, pos) ==
    LET k == Below(s.b, pos)
    IN  [out |-> s.out \o SubSeq(s.b, 1, k) \o <<pos>>,
         b |-> DropEqual(Drop(s.b, k), pos)]

IntersectStep(s, pos) ==
    LET rest == Drop(s.b, Below(s.b, pos))
        b == DropEqual(rest, pos)
    IN  [out |-> IF b # rest THEN Append(s.out, pos) ELSE s.out, b |-> b]

Unstarted(b) == [out |-> <<>>, b |-> b]

Union(a, b) ==
    CASE IsAllPositions(a) -> a
      [] IsAllPositions(b) -> b
      [] a = <<>> -> b
      [] b = <<>> -> a
      [] OTHER -> LET s == FoldLeft(UnionStep, Unstarted(b), a) IN s.out \o s.b

Intersect(a, b) ==
    CASE IsAllPositions(a) -> b
      [] IsAllPositions(b) -> a
      [] a = <<>> -> a
      [] b = <<>> -> b
      [] OTHER -> FoldLeft(IntersectStep, Unstarted(b), a).out

=============================================================================
