----------------------------- MODULE QueryAnswer -----------------------------
(***************************************************************************)
(* What a query promises: packets that may match, each once, in the order  *)
(* of time, no more than asked for; and an answer that ends without an     *)
(* error and was not cut short has all that must.                          *)
(***************************************************************************)
EXTENDS Integers, Sequences, SequencesExt

CONSTANT Time  \* timestamps of the packets

VARIABLES must, may, limit, answer, result

vars == <<must, may, limit, answer, result>>

Init == answer = <<>> /\ result = "open"

InOrder(p) == answer = <<>> \/ Time[Last(answer)] <= Time[p]

Give ==
    /\ result = "open" /\ result' = "open"
    /\ limit = 0 \/ Len(answer) < limit
    /\ \E p \in may \ ToSet(answer) : InOrder(p) /\ answer' = Append(answer, p)

End ==
    /\ result = "open"
    /\ \/ result' = "complete" /\ must \subseteq ToSet(answer)
       \/ result' = "partial"
    /\ UNCHANGED answer

Next == (Give \/ End) /\ UNCHANGED <<must, may, limit>>

Spec == Init /\ [][Next]_vars

=============================================================================
