------------------------------ MODULE MCLookup ------------------------------
(***************************************************************************)
(* Lookup for TLC, with the packets that Query finds in two threads of two *)
(* files and of one.  What it should find is stated once more, by what the *)
(* headers of a packet are.                                                *)
(***************************************************************************)
EXTENDS Lookup, Query

Stamps == <<13, 14, 14, 18>>

\* Headers, and packets as far as they were captured.
Ip4(src, dst, next) == [is |-> "ip4", src |-> src, dst |-> dst, ihl |-> 5, next |-> next]
BadIp4 == [is |-> "ip4", src |-> 1, dst |-> 2, ihl |-> 4, next |-> TCP]
Ip6(src, dst, next) == [is |-> "ip6", src |-> src, dst |-> dst, next |-> next]
Ext(next) == [is |-> "ext", next |-> next]
Frag(offset, next) == [is |-> "frag", offset |-> offset, next |-> next]
Ports(src, dst) == [is |-> "ports", src |-> src, dst |-> dst]
Vlan(id) == [is |-> "vlan", id |-> id]
Mpls(label) == [is |-> "mpls", label |-> label]
Ethernet == [is |-> "ethernet"]
Arp == [is |-> "arp"]

Web == <<Ip4(1, 2, TCP), Ports(80, 99)>>
Dns == <<Vlan(5), Ip4(1, 1, UDP), Ports(53, 53)>>
Kinds == {
    Web, Dns,
    <<Ip4(2, 1, TCP)>>,
    <<Vlan(5), Vlan(6), Ip6(1, 2, 0), Ext(43), Ext(TCP), Ports(80, 80)>>,
    <<Ip6(2, 3, Fragment), Frag(0, UDP), Ports(53, 80)>>,
    <<Ip6(2, 3, Fragment), Frag(8, UDP)>>,
    <<Mpls(9), Mpls(9), Ip4(3, 2, TCP), Ports(99, 80)>>,
    <<Mpls(9), Ethernet, Vlan(6), Ip4(1, 3, 1)>>,
    <<BadIp4>>,
    <<Arp>>,
    <<Vlan(6)>>,
    <<Ip6(1, 1, 60)>>}

\* Which keys a packet ought to have.
Chain(h) == SelectSeq(h, LAMBDA x : x.is \in {"ip4", "ip6", "ext", "frag"})
Protocol(h) ==
    LET c == Chain(h) IN
    CASE c = <<>> -> {}
      [] c # <<>> /\ Last(c).is = "ip4" -> IF Last(c).ihl < 5 THEN {} ELSE {Last(c).next}
      [] c # <<>> /\ Last(c).is = "frag" /\ Last(c).offset > 0 -> {Fragment}
      [] OTHER -> {Last(c).next} \ Extensions
Has(h, type, from, to) ==
    IF type = Proto THEN \E n \in Protocol(h) : from <= n /\ n <= to
    ELSE \E i \in DOMAIN h : \E n \in from .. to :
        CASE h[i].is = "vlan" -> type = VLAN /\ n = h[i].id
          [] h[i].is = "mpls" -> type = MPLS /\ n = h[i].label
          [] h[i].is = "ip4" -> type = IPv4 /\ n \in {h[i].src, h[i].dst}
          [] h[i].is = "ip6" -> type = IPv6 /\ n \in {h[i].src, h[i].dst}
          [] h[i].is = "ports" -> type = Port /\ n \in {h[i].src, h[i].dst}
          [] OTHER -> FALSE

\* A packet p matches a time query if it is less than slack off.  A time query
\* takes whole files, the packets of a file are at most a Minute from its creation.
RECURSIVE Matches(_, _, _, _)
Matches(q, h, p, slack) ==
    CASE q.op = "key" -> Has(h, q.type, q.from, q.to)
      [] q.op = "before" -> Stamps[p] <= q.time + slack
      [] q.op = "after" -> Stamps[p] >= q.time - slack
      [] q.op = "or" -> \E i \in DOMAIN q.args : Matches(q.args[i], h, p, slack)
      [] q.op = "and" -> \A i \in DOMAIN q.args : Matches(q.args[i], h, p, slack)

\* Queries.
Key(type, from, to) == [op |-> "key", type |-> type, from |-> from, to |-> to]
Before(time) == [op |-> "before", time |-> time]
After(time) == [op |-> "after", time |-> time]
Or(a, b) == [op |-> "or", args |-> <<a, b>>]
And(a, b) == [op |-> "and", args |-> <<a, b>>]

Simple ==
    {Key(Proto, n, n) : n \in {1, TCP, UDP, Fragment}} \cup {Key(Port, n, n) : n \in {53, 80}}
    \cup {Key(VLAN, n, n) : n \in {5, 6}} \cup {Key(MPLS, 9, 9)}
    \cup {Key(v, r[1], r[2]) : v \in {IPv4, IPv6}, r \in {<<1, 1>>, <<2, 3>>}}
Timed == {Before(13), Before(14), After(13), After(14)}
Compound == {Or(a, b) : a, b \in Simple \cup Timed} \cup {And(a, b) : a, b \in Simple \cup Timed}

\* Two files of one thread or of two; packet numbers are in the order of time.
Short(k1, k2) == <<
    [created |-> 9, blocks |-> <<0, 1>>, packets |-> <<k1>>, ids |-> <<1>>],
    [created |-> 18, blocks |-> <<1, 0>>, packets |-> <<k2>>, ids |-> <<2>>]>>
Long == <<
    [created |-> 12, blocks |-> <<1, 0, 1>>, packets |-> <<Dns, Dns>>, ids |-> <<1, 2>>],
    [created |-> 14, blocks |-> <<2>>, packets |-> <<Web, Dns>>, ids |-> <<3, 4>>]>>
Mixed == <<[Long[1] EXCEPT !.ids = <<1, 3>>], [Short(Dns, Web)[2] EXCEPT !.ids = <<2>>]>>
OneThread == <<<<1, 2>>, <<>>>>
TwoThreads == <<<<1>>, <<2>>>>

ASSUME FilesAreShort == \A store \in {Short(Web, Web), Long, Mixed} : \A f \in 1 .. 2 :
    \A i \in DOMAIN store[f].ids : LET t == Stamps[store[f].ids[i]] IN
        store[f].created - Minute <= t /\ t <= store[f].created + Minute

Matching(store, q, slack) ==
    UNION {{store[f].ids[i] : i \in {j \in DOMAIN store[f].ids :
        Matches(q, store[f].packets[j], store[f].ids[j], slack)}} : f \in 1 .. 2}

Request(files, store, q, n) ==
    [files |-> files,
     found |-> [f \in 1 .. 2 |->
        LET s == Selected(q, store[f]) IN [i \in DOMAIN s |-> store[f].ids[s[i]]]],
     must |-> Matching(store, q, 0), may |-> Matching(store, q, 2 * Minute),
     limit |-> n]

MCRequests ==
    {Request(OneThread, Short(k1, k2), q, 0) : k1, k2 \in Kinds, q \in Simple}
    \cup {Request(OneThread, Short(Web, k), q, 0) : k \in {Web, Dns}, q \in Compound}
    \cup {Request(OneThread, Short(Web, Web), q, 0) : q \in Timed}
    \cup {Request(OneThread, Short(Web, Web), After(0), 1),
          Request(OneThread, Long, Or(Key(Port, 53, 53), Key(Proto, TCP, TCP)), 0),
          Request(TwoThreads, Mixed, After(0), 0)}

\* Positions, over all ascending sequences of the first offsets.
Ascending == {SetToSortSeq(s, <) : s \in SUBSET (0 .. 3)}
ASSUME UnionOfOffsets == \A a, b \in Ascending : Union(a, b) = SetToSortSeq(ToSet(a) \cup ToSet(b), <)
ASSUME IntersectionOfOffsets ==
    \A a, b \in Ascending : Intersect(a, b) = SetToSortSeq(ToSet(a) \cap ToSet(b), <)
=============================================================================
