------------------------------ MODULE LruOrder ------------------------------
(***************************************************************************)
(* What filecache promises: its files in the order of their last use, the  *)
(* open ones among them, and only the least recently used one is closed to *)
(* make room.                                                              *)
(***************************************************************************)
EXTENDS Sequences, SequencesExt

CONSTANT CachedFiles

VARIABLES order, open

LruInit == order = <<>> /\ open = {}

(* The position of c, past the end if it was not used yet.                 *)
Position(c) ==
    IF c \in ToSet(order) THEN CHOOSE i \in DOMAIN order : order[i] = c
    ELSE Len(order) + 1

Use(c) == order' = <<c>> \o RemoveAt(order, Position(c))

LruNext ==
    \/ \E c \in CachedFiles : Use(c) /\ UNCHANGED open
    \/ \E c \in CachedFiles : Use(c) /\ open' = open \cup {c}
    \/ /\ order # <<>>
       /\ order' = Front(order)
       /\ open' = open \ {Last(order)}
    \/ \E c \in open : open' = open \ {c} /\ UNCHANGED order

LruSpec == LruInit /\ [][LruNext]_<<order, open>>
=============================================================================
