----------------------------- MODULE PacketIndex -----------------------------
(***************************************************************************)
(* The index of a packet file: the keys stenotype/index.cc derives from    *)
(* the headers of a packet, and the lookups of indexfile/indexfile.go.     *)
(*                                                                         *)
(* A packet is its headers after the Ethernet header, in order, as far as  *)
(* they were captured whole; a header names what follows by its number     *)
(* (next), also when that one is missing.  Keys are written and read as    *)
(* big-endian numbers of fixed width after a byte for their type, so that  *)
(* the order of the keys is the order of the types, then of the numbers.   *)
(***************************************************************************)
EXTENDS Positions

Proto == 1
Port == 2
VLAN == 3
IPv4 == 4
MPLS == 5
IPv6 == 6

TCP == 6
UDP == 17
Fragment == 44
Extensions == {0, 43, 60, 135, Fragment}

(***************************************************************************)
(* Index::Process, a header at a time.  "link" is pre_ip_encapsulation,    *)
(* "ip6" is ip6_extensions, "body" the switch on the protocol; "stop" and  *)
(* running out of headers are its returns.                                 *)
(***************************************************************************)
Add(s, type, vals) == [s EXCEPT !.keys = @ \o [i \in DOMAIN vals |-> <<type, vals[i]>>]]
GoTo(s, stage, h) == [s EXCEPT !.stage = stage, !.proto = h.next]

LinkHeader(s, h) ==
    CASE h.is = "ethernet" -> s
      [] h.is = "vlan" -> Add(s, VLAN, <<h.id>>)
      [] h.is = "mpls" -> Add(s, MPLS, <<h.label>>)
      [] h.is = "ip4" -> GoTo(Add(s, IPv4, <<h.src, h.dst>>),
                              IF h.ihl < 5 THEN "stop" ELSE "body", h)
      [] h.is = "ip6" -> GoTo(Add(s, IPv6, <<h.src, h.dst>>), "ip6", h)
      [] OTHER -> [s EXCEPT !.stage = "stop"]

LaterFragment(s, h) == s.proto = Fragment /\ h.offset > 0
BodyHeader(s, h) == IF s.proto \in {TCP, UDP} THEN Add(s, Port, <<h.src, h.dst>>) ELSE s

NextHeader(s, h) ==
    CASE s.stage = "link" -> LinkHeader(s, h)
      [] s.stage = "ip6" /\ s.proto \in Extensions ->
            IF LaterFragment(s, h) THEN [s EXCEPT !.stage = "body"] ELSE GoTo(s, "ip6", h)
      [] s.stage \in {"ip6", "body"} -> [BodyHeader(s, h) EXCEPT !.stage = "found"]
      [] OTHER -> s

(* AddProtocol, unless the packet ended in an extension header.            *)
KnownProtocol(s) ==
    s.stage \in {"body", "found"} \/ (s.stage = "ip6" /\ s.proto \notin Extensions)

Process(headers) ==
    LET s == FoldLeft(NextHeader, [stage |-> "link", proto |-> 0, keys |-> <<>>], headers)
    IN  IF KnownProtocol(s) THEN Add(s, Proto, <<s.proto>>).keys ELSE s.keys

(***************************************************************************)
(* The table that WriteTo leaves: packets is the sequence of the headers   *)
(* of all packets of the file, a position is an index of it.  A packet     *)
(* adds its position once for each time it has the key, ValueFromVector    *)
(* drops repetitions.                                                      *)
(***************************************************************************)
Vector(packets, key) ==
    FlattenSeq([i \in DOMAIN packets |->
        [j \in DOMAIN SelectSeq(Process(packets[i]), LAMBDA k : k = key) |-> i]])

ValueFromVector(v) ==
    FoldLeft(LAMBDA out, pos : IF out # <<>> /\ Last(out) = pos THEN out
                               ELSE Append(out, pos), <<>>, v)

Table(packets) ==
    LET keys == UNION {ToSet(Process(packets[i])) : i \in DOMAIN packets}
    IN  [key \in keys |-> ValueFromVector(Vector(packets, key))]

(***************************************************************************)
(* IndexFile.positions: the union over the keys from "from" to "to".  A    *)
(* range of addresses is in one version of IP, a single key is a range.    *)
(***************************************************************************)
IndexPositions(table, type, from, to) ==
    LET numbers == SetToSortSeq({key[2] : key \in {k \in DOMAIN table :
                        k[1] = type /\ from <= k[2] /\ k[2] <= to}}, <)
    IN  FoldLeft(LAMBDA out, n : Union(out, table[<<type, n>>]), NoPositions, numbers)

=============================================================================
