------------------------------ MODULE Channel ------------------------------
(***************************************************************************)
(* What stenotype's ProducerConsumerQueue promises its users: a FIFO of    *)
(* values; a taker gets the oldest one, or NULL once the channel is shut   *)
(* and nothing is left in it.  util.h says that NULL comes as soon as the  *)
(* channel is shut; the code drains it first, and so does this             *)
(* specification.                                                          *)
(***************************************************************************)
EXTENDS Sequences

CONSTANTS Values, Takers, Null, Pending

VARIABLES
    content,  \* the values put and not yet taken, oldest first
    shut,     \* no more values will come
    answer    \* what each taker's current Get has returned: Pending if not yet

vars == <<content, shut, answer>>

Init ==
    /\ content = <<>>
    /\ shut = FALSE
    /\ answer = [t \in Takers |-> Pending]

Give(v) ==
    /\ content' = Append(content, v)
    /\ UNCHANGED <<shut, answer>>

Take(t) ==
    /\ answer[t] = Pending
    /\ \/ /\ content # <<>>
          /\ answer' = [answer EXCEPT ![t] = Head(content)]
          /\ content' = Tail(content)
       \/ /\ content = <<>> /\ shut
          /\ answer' = [answer EXCEPT ![t] = Null]
          /\ UNCHANGED content
    /\ UNCHANGED shut

Ask(t) ==
    /\ answer[t] # Pending
    /\ answer' = [answer EXCEPT ![t] = Pending]
    /\ UNCHANGED <<content, shut>>

Shut ==
    /\ shut' = TRUE
    /\ UNCHANGED <<content, answer>>

Next == (\E v \in Values : Give(v)) \/ Shut \/ \E t \in Takers : Take(t) \/ Ask(t)

Spec == Init /\ [][Next]_vars
=============================================================================
