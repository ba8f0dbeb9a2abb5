---------------------------- MODULE SflowSamples ----------------------------
(***************************************************************************)
(* What an sFlow record does to the row of its sample (netflow-core        *)
(* decode/sflow.rs).  The parsers read on past a failed read, so what      *)
(* matters about a value is where in the record its bytes came from.       *)
(* A record's bytes are therefore known by their offset: Mark(k, o) is     *)
(* what is read at offset o of the k-th record of a sample (record 0 is    *)
(* the sample's own header).  The words that steer a parser, and the frame *)
(* length, which is multiplied, are attributes of the record.              *)
(***************************************************************************)
EXTENDS ByteCursor, FieldMapping

\* A packet as sampled: with an 802.1Q tag or not, its network protocol, the length
\* of its IPv4 header in 32-bit words, its transport protocol, and what a reader of
\* the transport protocol finds if it looks in another place.
Packet ==
  [tagged : BOOLEAN, l3 : {"ipv4", "ipv6", "other"}, ihl : 0 .. 15, proto : Nat,
   elsewhere : Nat]

\* A record of a sample: size bytes in some format.  frame is the frame (or IP)
\* length it states, captured the number of packet bytes it announces.
SampleRecord ==
  [enterprise : Nat, format : Nat, size : Nat, frame : 0 .. U32 - 1, captured : Nat,
   packet : Packet]

Sample == [enterprise : Nat, format : Nat, size : Nat, rate : 0 .. U32 - 1, count : Nat]

Mark(k, offset) == 1000 * k + offset

\* `unwrap_or(0)`; None if the read fails; the bytes, or none of them.
WordOrZero(k, c, n) == IF InBounds(c, n) THEN Mark(k, c.pos) ELSE 0
WordOrNone(k, c, n) == IF InBounds(c, n) THEN Mark(k, c.pos) ELSE None
\* The same narrowed to w bytes: a big-endian word keeps its last ones.
Narrowed(k, c, n, w) == IF InBounds(c, n) THEN Mark(k, c.pos + n - w) ELSE 0
BytesOrEmpty(k, c, n) ==
  [len |-> IF InBounds(c, n) THEN n ELSE 0, val |-> WordOrZero(k, c, n)]

-----------------------------------------------------------------------------
(* The sampled packet header.                                              *)

parse_l4(row, k, c, proto) ==
  LET c1 == c \odot Skip(2)
      c2 == c1 \odot Skip(2) \odot Skip(8) \odot Skip(1)
      ported == [row EXCEPT !.src_port = WordOrZero(k, c, 2),
                            !.dst_port = WordOrZero(k, c1, 2)]
  IN  CASE proto = 6 -> [ported EXCEPT !.tcp_flags = WordOrZero(k, c2, 1)]
        [] proto = 17 -> ported
        [] OTHER -> row

\* The protocol byte a parser that stands at c acts on; its place is at offset o.
ProtocolAt(packet, c, o) ==
  IF ~InBounds(c, 1) THEN 0 ELSE IF c.pos = o THEN packet.proto ELSE packet.elsewhere

\* Mutant: options are taken for the transport header.
parse_ipv4_NoOptions(row, k, c, packet) ==
  LET c1 == c \odot Read(1) \odot Read(1)
      c2 == c1 \odot Skip(2) \odot Skip(2) \odot Skip(2) \odot Skip(1)
      c3 == c2 \odot Skip(1) \odot Skip(2)
      c4 == c3 \odot Skip(4)
      addressed ==
        [row EXCEPT !.src_addr = inet4(BytesOrEmpty(k, c3, 4)),
                    !.dst_addr = inet4(BytesOrEmpty(k, c4, 4)),
                    !.protocol = WordOrZero(k, c2, 1), !.tos = Mark(k, c.pos + 1)]
  IN  IF c1.ok
      THEN parse_l4(addressed, k, c4 \odot Skip(4), ProtocolAt(packet, c2, c.pos + 9))
      ELSE row

\* The first two bytes must be there; what follows is read as far as it goes.
parse_ipv4(row, k, c, packet) ==
  LET c1 == c \odot Read(1) \odot Read(1)
      c2 == c1 \odot Skip(2) \odot Skip(2) \odot Skip(2) \odot Skip(1)
      c3 == c2 \odot Skip(1) \odot Skip(2)
      c4 == c3 \odot Skip(4)
      c5 == c4 \odot Skip(4)
      c6 == IF packet.ihl > 5 THEN c5 \odot Skip(4 * packet.ihl - 20) ELSE c5
      addressed ==
        [row EXCEPT !.src_addr = inet4(BytesOrEmpty(k, c3, 4)),
                    !.dst_addr = inet4(BytesOrEmpty(k, c4, 4)),
                    !.protocol = WordOrZero(k, c2, 1), !.tos = Mark(k, c.pos + 1)]
  IN  IF c1.ok
      THEN parse_l4(addressed, k, c6, ProtocolAt(packet, c2, c.pos + 9))
      ELSE row

parse_ipv6(row, k, c, packet) ==
  LET c1 == c \odot Read(4)
      c2 == c1 \odot Skip(2)
      c3 == c2 \odot Skip(1) \odot Skip(1)
      c4 == c3 \odot Skip(16)
      addressed ==
        [row EXCEPT !.src_addr = inet6(BytesOrEmpty(k, c3, 16)),
                    !.dst_addr = inet6(BytesOrEmpty(k, c4, 16)),
                    !.protocol = WordOrZero(k, c2, 1)]
  IN  IF c1.ok
      THEN parse_l4(addressed, k, c4 \odot Skip(16), ProtocolAt(packet, c2, c.pos + 6))
      ELSE row

\* The ethertype follows the two hardware addresses, or a tag behind them.
parse_l2(row, k, c, packet) ==
  LET c1 == c \odot Read(12)
      c2 == IF packet.tagged THEN c1 \odot Skip(2) \odot Skip(2) ELSE c1
      c3 == c2 \odot Skip(2)
      known == c1.ok /\ InBounds(c2, 2)
  IN  CASE known /\ packet.l3 = "ipv4" -> parse_ipv4(row, k, c3, packet)
        [] known /\ packet.l3 = "ipv6" -> parse_ipv6(row, k, c3, packet)
        [] OTHER -> row

-----------------------------------------------------------------------------
(* The records of a flow sample.                                           *)

\* Mutant: what earlier records of the sample counted is added.
scale_counts_Sum(row, frame, rate) ==
  put_raw(put_raw([row EXCEPT !.bytes = (IF @ = None THEN 0 ELSE @) + saturating_mul(frame, rate),
                              !.packets = rate],
                  "sflow.frame_length", frame), "sflow.sampling_rate", rate)

\* The unscaled values are kept in raw_fields.
scale_counts(row, frame, rate) ==
  put_raw(put_raw([row EXCEPT !.bytes = saturating_mul(frame, rate), !.packets = rate],
                  "sflow.frame_length", frame), "sflow.sampling_rate", rate)

parse_raw_header(row, k, rec, rate) ==
  LET c1 == Cursor(rec.size) \odot Skip(4)
      c3 == c1 \odot Skip(4) \odot Skip(4)
      frame == IF InBounds(c1, 4) THEN rec.frame ELSE 0
      captured == IF InBounds(c3, 4) THEN rec.captured ELSE 0
  IN  parse_l2(scale_counts(row, frame, rate), k, Slice(c3 \odot Skip(4), captured), rec.packet)

\* length, protocol, two addresses of n bytes, two ports, TCP flags.
SampledTuple(row, k, rec, rate, n, inet(_)) ==
  LET c1 == Cursor(rec.size) \odot Skip(4)
      c2 == c1 \odot Skip(4)
      c3 == c2 \odot Skip(n)
      c4 == c3 \odot Skip(n)
      c5 == c4 \odot Skip(4)
      c6 == c5 \odot Skip(4)
      frame == IF InBounds(Cursor(rec.size), 4) THEN rec.frame ELSE 0
  IN  scale_counts(
        [row EXCEPT !.src_addr = inet(BytesOrEmpty(k, c2, n)),
                    !.dst_addr = inet(BytesOrEmpty(k, c3, n)),
                    !.protocol = Narrowed(k, c1, 4, 1),
                    !.src_port = Narrowed(k, c4, 4, 2), !.dst_port = Narrowed(k, c5, 4, 2),
                    !.tcp_flags = Narrowed(k, c6, 4, 1),
                    !.tos = IF n = 4 THEN Narrowed(k, c6 \odot Skip(4), 4, 1) ELSE @],
        frame, rate)

parse_sampled_ipv4(row, k, rec, rate) == SampledTuple(row, k, rec, rate, 4, inet4)
parse_sampled_ipv6(row, k, rec, rate) == SampledTuple(row, k, rec, rate, 16, inet6)

\* The enterprise is not looked at.
parse_record(row, k, rec, rate) ==
  CASE rec.format = 1 -> parse_raw_header(row, k, rec, rate)
    [] rec.format = 3 -> parse_sampled_ipv4(row, k, rec, rate)
    [] rec.format = 4 -> parse_sampled_ipv6(row, k, rec, rate)
    [] OTHER -> row

-----------------------------------------------------------------------------
(* The header of a sample.                                                 *)

IsFlowSample(s) == s.format \in {1, 3}
IsCounterSample(s) == s.format \in {2, 4}
Expanded(s) == s.format \in {3, 4}

\* Behind the sample's sequence number and source.
AfterSource(s) ==
  LET c == Cursor(s.size) \odot Skip(4) \odot Skip(4)
  IN  IF Expanded(s) THEN c \odot Skip(4) ELSE c

\* A rate of 0, or none, is 1.
SamplingRate(s) ==
  IF InBounds(AfterSource(s), 4) /\ s.rate > 0 THEN s.rate ELSE 1

\* In an expanded sample an interface is two words, of which the second counts.
Interface(s, c) == IF Expanded(s) THEN c \odot Skip(4) ELSE c

InputAt(s) == Interface(s, AfterSource(s) \odot Skip(4) \odot Skip(4) \odot Skip(4))
OutputAt(s) == Interface(s, InputAt(s) \odot Skip(4))

\* Where the number of records is, and the first of them after it.
CountAt(s) == IF IsFlowSample(s) THEN OutputAt(s) \odot Skip(4) ELSE AfterSource(s)
RecordsAt(s) == CountAt(s) \odot Skip(4)

NumRecords(s) ==
  IF ~InBounds(CountAt(s), 4) THEN 0 ELSE IF s.count < 4096 THEN s.count ELSE 4096

SflowRow(context) ==
  [DefaultRow EXCEPT !.exporter = context.exporter, !.flow_version = "sflow5",
                     !.obs_domain = context.domain, !.sequence = context.sequence]

\* The row a sample starts with.
SampleRow(s, context) ==
  IF IsFlowSample(s)
  THEN [SflowRow(context) EXCEPT !.sampling_rate = SamplingRate(s),
                                 !.input_snmp = WordOrNone(0, InputAt(s), 4),
                                 !.output_snmp = WordOrNone(0, OutputAt(s), 4)]
  ELSE note(SflowRow(context), "counter-sample")

\* A counter record is kept raw.
put_counters(row, k, rec) ==
  put_raw(row, <<"sflow.counter_format", rec.format>>, Mark(k, 0))

\* A record's type and length, then the record.
RecordFits(c, rec) == InBounds(c, 8) /\ InBounds(c \odot Skip(8), rec.size)
=============================================================================
