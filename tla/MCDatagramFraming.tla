------------------------- MODULE MCDatagramFraming -------------------------
(* Datagrams around every boundary of the four formats.                    *)
EXTENDS DatagramFraming

Blank == [size |-> 0, lead |-> 0, lo |-> 0, addr_type |-> 0, count |-> 0, declared |-> 0]

\* Too short or too strange to be a flow datagram.
NoFlow ==
  {[Blank EXCEPT !.size = s, !.lead = l, !.lo = 5, !.addr_type = a] :
     s \in {0, 1, 2, 7, 8}, l \in {0, 7}, a \in {0, 3}}

\* Around the 22 bytes parse_v5 reads, the 24 of the header, one and two records.
V5 ==
  {[Blank EXCEPT !.lead = 5, !.size = s, !.count = n] :
     s \in {2, 21, 22, 23, 24, 71, 72, 73, 120}, n \in 0 .. 2}

\* The header, and up to 13 bytes of sets.
V9 == {[Blank EXCEPT !.lead = 9, !.size = s] : s \in {2, 19} \cup 20 .. 33}

Ipfix ==
  {[Blank EXCEPT !.lead = 10, !.size = s, !.declared = n] :
     s \in {2, 15} \cup 16 .. 28, n \in {0, 15, 16, 20, 24, 25, 28, 99}}

\* Both agent address types, around the end of the header and of two samples.
Sflow ==
  {[Blank EXCEPT !.lo = 5, !.size = s, !.addr_type = a, !.count = n] :
     s \in 8 .. 60, a \in {1, 2}, n \in 0 .. 2}

AllDatagrams == NoFlow \cup V5 \cup V9 \cup Ipfix \cup Sflow

Lengths == {0, 3, 4, 5, 8, 12, 65535}
=============================================================================
