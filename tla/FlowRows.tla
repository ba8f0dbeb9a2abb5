------------------------------ MODULE FlowRows ------------------------------
(***************************************************************************)
(* From the pieces of a datagram to the rows of a batch.  process() decodes*)
(* datagrams of all four formats into one list of rows and makes an Arrow  *)
(* batch of it (netflow-core decode/{record,v5,sflow}.rs, netflow-worker   *)
(* arrow_map.rs).  A v9 or IPFIX record takes its fields one by one, an    *)
(* sFlow sample its records; a v5 record is taken whole.                   *)
(*                                                                         *)
(* The exporter is part of the model: a device that booted at some time,   *)
(* has been up for some milliseconds, and puts both into its headers the   *)
(* way the formats ask, the uptime modulo 2^32.                            *)
(***************************************************************************)
EXTENDS SflowSamples, SequencesExt

CONSTANTS
  Devices,      \* [boot, up]: microseconds since 1970, milliseconds since boot
  Readings,     \* sysUptime readings, in milliseconds since boot
  Fields,       \* fields of v9 and IPFIX records
  Samples,      \* headers of sFlow samples
  Records,      \* records of sFlow samples
  MaxFields,    \* bound on the fields of a record
  MaxWork       \* bound on the rows, fields and records of one batch

ASSUME RowsAssumption ==
  /\ Devices \subseteq [boot : Nat, up : Nat] /\ Readings \subseteq Nat
  /\ Samples \subseteq Sample /\ Records \subseteq SampleRecord
  /\ Fields \subseteq [ie : Nat, enterprise : Nat, known : BOOLEAN, bytes : Bytes]
  /\ \A f \in Fields : HasWordSizes(f.bytes)
  \* sysUptime elements are those UptimeField makes
  /\ \A f \in Fields : IsMapped(f) => ElementOf(f).how # "uptime"
  /\ MaxFields \in Nat /\ MaxWork \in Nat

VARIABLES
  open,   \* the record or sample being decoded, or None
  rows,   \* the rows decoded, each with what it came from (history)
  batch,  \* the Arrow batch, or None
  work    \* rows, fields and records so far

vars == <<open, rows, batch, work>>

Init ==
  /\ open = None /\ rows = <<>> /\ batch = None /\ work = 0

\* A row, or a record of a sample, weighs as much as two fields.
RowWork == 2
RecordWork == 2

Decoding == open = None /\ batch = None /\ work + RowWork <= MaxWork

Emit(row, from) == rows' = Append(rows, [row |-> row, from |-> from])

-----------------------------------------------------------------------------
(* NetFlow v9 and IPFIX records.                                           *)

Now(device) == device.boot + device.up * Millis

\* Export time and uptime as parse_v5, parse_v9 and parse_ipfix read them: v5 has
\* microseconds, the others seconds; IPFIX has no uptime.
Header(version, device) ==
  [flow_version |-> version,
   export |-> IF version = "5" THEN Now(device) ELSE (Now(device) \div Micros) * Micros,
   uptime |-> IF version = "10" THEN None ELSE device.up % U32]

HeaderRow(header) ==
  [DefaultRow EXCEPT !.exporter = "r1", !.flow_version = header.flow_version,
                     !.obs_domain = 0, !.export_time = header.export, !.sequence = 1]

BeginRecord(version, device) ==
  /\ Decoding
  /\ LET header == Header(version, device)
     IN  open' = [is |-> "record", device |-> device, header |-> header,
                  draft |-> Draft([HeaderRow(header) EXCEPT !.template_id = 256]),
                  fields |-> <<>>]
  /\ work' = work + RowWork
  /\ UNCHANGED <<rows, batch>>

\* reading is the device's own clock when it put f into the record, for a sysUptime
\* element.
UptimeField(ie, reading) ==
  [ie |-> ie, enterprise |-> 0, known |-> TRUE, reading |-> reading,
   bytes |-> [len |-> 4, val |-> reading % U32]]

MapField(f) ==
  /\ open # None /\ open.is = "record"
  /\ Len(open.fields) < MaxFields /\ work < MaxWork
  /\ open' = [open EXCEPT !.draft = map_field(@, f), !.fields = Append(@, f)]
  /\ work' = work + 1
  /\ UNCHANGED <<rows, batch>>

EndRecord ==
  /\ open # None /\ open.is = "record"
  /\ Emit(resolve_times(open.draft, open.header.export, open.header.uptime),
          [is |-> "record", device |-> open.device, header |-> open.header,
           fields |-> open.fields])
  /\ open' = None
  /\ UNCHANGED <<batch, work>>

-----------------------------------------------------------------------------
(* NetFlow v5 records.  Values are known by their offset in the record, as *)
(* in SflowSamples.                                                        *)

\* What decode_record reads, in order, and how many bytes of it.
V5Words ==
  <<<<"src_addr", 4>>, <<"dst_addr", 4>>, <<"next_hop", 4>>, <<"input_snmp", 2>>,
    <<"output_snmp", 2>>, <<"packets", 4>>, <<"bytes", 4>>, <<"first", 4>>, <<"last", 4>>,
    <<"src_port", 2>>, <<"dst_port", 2>>, <<"pad1", 1>>, <<"tcp_flags", 1>>,
    <<"protocol", 1>>, <<"tos", 1>>, <<"src_as", 2>>, <<"dst_as", 2>>, <<"src_mask", 1>>,
    <<"dst_mask", 1>>>>

V5Cursor[i \in 1 .. Len(V5Words)] ==
  IF i = 1 THEN Cursor(48) ELSE V5Cursor[i - 1] \odot Skip(V5Words[i - 1][2])

V5Value(column) ==
  LET i == CHOOSE i \in DOMAIN V5Words : V5Words[i][1] = column
      width == V5Words[i][2]
  IN  IF column \in AddressColumns
      THEN inet4(BytesOrEmpty(0, V5Cursor[i], width))
      ELSE WordOrZero(0, V5Cursor[i], width)

decode_record(header, first, last) ==
  LET boot == header.export - header.uptime * Millis
      columns == {V5Words[i][1] : i \in DOMAIN V5Words} \cap Columns
  IN  [c \in Columns |->
         CASE c \in columns -> V5Value(c)
           [] c = "flow_start" -> boot + first * Millis
           [] c = "flow_end" -> boot + last * Millis
           [] OTHER -> HeaderRow(header)[c]]

V5Record(device, first, last) ==
  /\ Decoding
  /\ LET header == Header("5", device)
     IN  Emit(decode_record(header, first % U32, last % U32),
              [is |-> "v5", device |-> device, header |-> header,
               readings |-> [flow_start |-> first, flow_end |-> last]])
  /\ work' = work + RowWork
  /\ UNCHANGED <<open, batch>>

-----------------------------------------------------------------------------
(* sFlow samples.                                                          *)

SflowContext == [exporter |-> "r1", domain |-> 0, sequence |-> 1]

\* mode is that of the row of the relation.
Wanted(sample, mode) ==
  IsFlowSample(sample) \/ (IsCounterSample(sample) /\ mode # "flows-only")

BeginSample(sample, mode) ==
  /\ Decoding /\ work + RowWork + NumRecords(sample) * RecordWork <= MaxWork
  /\ Wanted(sample, mode)
  /\ open' = [is |-> "sample", sample |-> sample, cursor |-> RecordsAt(sample),
              left |-> NumRecords(sample), row |-> SampleRow(sample, SflowContext),
              records |-> <<>>]
  /\ work' = work + RowWork
  /\ UNCHANGED <<rows, batch>>

SkipSample(sample, mode) ==
  /\ Decoding
  /\ ~Wanted(sample, mode)
  /\ work' = work + RowWork
  /\ UNCHANGED <<open, rows, batch>>

MapSampleRecord(rec) ==
  /\ open # None /\ open.is = "sample"
  /\ open.left > 0 /\ RecordFits(open.cursor, rec)
  /\ LET k == Len(open.records) + 1
         row == IF IsFlowSample(open.sample)
                THEN parse_record(open.row, k, rec, SamplingRate(open.sample))
                ELSE put_counters(open.row, k, rec)
     IN  open' = [open EXCEPT !.cursor = @ \odot Skip(8) \odot Skip(rec.size),
                              !.left = @ - 1, !.row = row, !.records = Append(@, rec)]
  /\ work' = work + RecordWork
  /\ UNCHANGED <<rows, batch>>

\* All records taken, or one that does not fit: the sample ends with what it has.
EndSample ==
  /\ open # None /\ open.is = "sample"
  /\ open.left = 0 \/ \E rec \in Records : ~RecordFits(open.cursor, rec)
  /\ Emit(open.row, [is |-> "sample", sample |-> open.sample, records |-> open.records])
  /\ open' = None
  /\ UNCHANGED <<batch, work>>

-----------------------------------------------------------------------------
(* Rows that only report.                                                  *)

diagnostic(header, diag) == note(HeaderRow(header), diag)

Report(version, device, diag) ==
  /\ Decoding
  /\ LET header == Header(version, device)
     IN  Emit(diagnostic(header, diag),
              [is |-> "report", device |-> device, header |-> header])
  /\ work' = work + RowWork
  /\ UNCHANGED <<open, batch>>

-----------------------------------------------------------------------------
(* The Arrow batch.                                                        *)

\* The columns flow_schema declares, and those rows_to_batch builds.
flow_schema ==
  <<"exporter", "flow_version", "obs_domain", "template_id", "export_time", "sequence",
    "src_addr", "dst_addr", "src_port", "dst_port", "protocol", "tcp_flags", "bytes",
    "packets", "flow_start", "flow_end", "src_as", "dst_as", "input_snmp", "output_snmp",
    "next_hop", "tos", "src_mask", "dst_mask", "sampling_rate", "direction", "raw_fields",
    "diagnostics">>

\* Mutant: two columns of one type are swapped.
BuildOrder_Swapped ==
  <<"exporter", "flow_version", "obs_domain", "template_id", "export_time", "sequence",
    "src_addr", "dst_addr", "src_port", "dst_port", "protocol", "tcp_flags", "bytes",
    "packets", "flow_start", "flow_end", "src_as", "dst_as", "output_snmp", "input_snmp",
    "next_hop", "tos", "src_mask", "dst_mask", "sampling_rate", "direction", "raw_fields",
    "diagnostics">>

BuildOrder ==
  <<"exporter", "flow_version", "obs_domain", "template_id", "export_time", "sequence",
    "src_addr", "dst_addr", "src_port", "dst_port", "protocol", "tcp_flags", "bytes",
    "packets", "flow_start", "flow_end", "src_as", "dst_as", "input_snmp", "output_snmp",
    "next_hop", "tos", "src_mask", "dst_mask", "sampling_rate", "direction", "raw_fields",
    "diagnostics">>

\* A NULL address still has a place in the three child arrays.
build_inet(vals) ==
  LET child(v, name) == IF v = None THEN 0 ELSE v[name]
  IN  [ip_type |-> [i \in DOMAIN vals |-> child(vals[i], "ip_type")],
       address |-> [i \in DOMAIN vals |-> child(vals[i], "address")],
       mask |-> [i \in DOMAIN vals |-> child(vals[i], "mask")],
       valid |-> [i \in DOMAIN vals |-> vals[i] # None]]

\* One array of entries for all maps; map i is from offset i to offset i + 1.
build_raw_fields(maps) ==
  LET offsets[i \in 1 .. Len(maps) + 1] ==
        IF i = 1 THEN 0 ELSE offsets[i - 1] + Len(maps[i - 1])
  IN  [entries |-> FlattenSeq(maps), offsets |-> offsets]

rows_to_batch(rs) ==
  [i \in DOMAIN BuildOrder |->
     LET vals == [r \in DOMAIN rs |-> rs[r][BuildOrder[i]]]
     IN  CASE BuildOrder[i] \in AddressColumns -> build_inet(vals)
           [] BuildOrder[i] = "raw_fields" -> build_raw_fields(vals)
           [] OTHER -> vals]

BuildBatch ==
  /\ open = None /\ batch = None
  /\ batch' = rows_to_batch([r \in DOMAIN rows |-> rows[r].row])
  /\ UNCHANGED <<open, rows, work>>

-----------------------------------------------------------------------------
\* The batch is returned.
Done == batch # None /\ UNCHANGED vars

NetflowStep ==
  \/ \E device \in Devices :
       \/ \E version \in {"9", "10"} : BeginRecord(version, device)
       \/ \E first, last \in Readings :
            first <= last /\ last <= device.up /\ V5Record(device, first, last)
       \/ \E version \in {"5", "9", "10"} : Report(version, device, "truncated")
  \/ \E f \in Fields : MapField(f)
  \/ \E ie \in {21, 22}, reading \in Readings :
       /\ open # None /\ open.is = "record" /\ reading <= open.device.up
       /\ MapField(UptimeField(ie, reading))
  \/ EndRecord

SflowStep ==
  \/ \E sample \in Samples, mode \in {"auto", "flows-only"} :
       BeginSample(sample, mode) \/ SkipSample(sample, mode)
  \/ \E rec \in Records : MapSampleRecord(rec)
  \/ EndSample

Next == NetflowStep \/ SflowStep \/ BuildBatch \/ Done

Spec == Init /\ [][Next]_vars

-----------------------------------------------------------------------------
(* Properties.                                                             *)

RecordRows == {r \in Range(rows) : r.from.is = "record"}
SampleRows == {r \in Range(rows) : r.from.is = "sample"}

\* The fields of a record that say something about a column.
Candidates(from, column) ==
  {i \in DOMAIN from.fields :
     LET f == from.fields[i] IN
     /\ IsMapped(f) /\ ElementOf(f).column = column
     /\ CASE ElementOf(f).how = "uptime" -> FALSE
          [] ElementOf(f).how = "inet4" -> f.bytes.len = 4
          [] ElementOf(f).how = "inet6" -> f.bytes.len = 16
          [] ElementOf(f).how = "ntp" -> f.bytes.len = 8
          [] OTHER -> TRUE}

\* The one that counts: the last; of several counters the last preferred one (the
\* delta count), else the first.
Winner(from, column) ==
  LET all == Candidates(from, column)
      preferred == {i \in all : from.fields[i].ie = ElementOf(from.fields[i]).arg}
  IN  IF column \in {"bytes", "packets"}
      THEN IF preferred # {} THEN Max(preferred) ELSE Min(all)
      ELSE Max(all)

\* What the bytes mean, in unbounded arithmetic.
Meaning(f) ==
  LET e == ElementOf(f) IN
  CASE e.how = "clock" -> f.bytes.val * e.arg
    [] e.how = "ntp" -> ((f.bytes.val * Micros) \div U32) - NtpOffset * Micros
    [] OTHER -> f.bytes.val

\* Does the column have room for it?
HasRoom(f) ==
  LET e == ElementOf(f) IN
  /\ f.bytes.len <= 8
  /\ e.how = "number" => f.bytes.val < e.arg
  /\ e.how = "clock" => Meaning(f) < U64 \div 2

\* However many elements of a record speak of one column, and in whatever order, the
\* column holds the meaning of the one that has precedence, exactly if there is room
\* for it; a column nothing speaks of is NULL (map_field: last writer, fallback on
\* elements of a wrong length, preferred counters, narrowing, units, NTP fractions).
ColumnsHoldTheWinner ==
  \A r \in RecordRows : \A c \in FlowColumns \cup AddressColumns :
    IF Candidates(r.from, c) = {}
    THEN c \in {"flow_start", "flow_end"} \/ r.row[c] = None
    ELSE LET f == r.from.fields[Winner(r.from, c)] IN
         IF c \in AddressColumns
         THEN /\ r.row[c].ip_type = IF f.bytes.len = 4 THEN 1 ELSE 2
              /\ to_ip(r.row[c]) = f.bytes.val
         ELSE HasRoom(f) => r.row[c] = Meaning(f)

\* The device's reading behind a time of a row that no absolute time overrides.
ReadingsOf(r, c) ==
  CASE r.from.is = "v5" -> {r.from.readings[c]}
    [] r.from.is = "record" /\ Candidates(r.from, c) = {} ->
         LET mine == {i \in DOMAIN r.from.fields :
                        LET f == r.from.fields[i] IN
                        IsMapped(f) /\ ElementOf(f).column = c /\ ElementOf(f).how = "uptime"}
         IN  IF mine = {} THEN {} ELSE {r.from.fields[Max(mine)].reading}
    [] OTHER -> {}

\* A flow time resolved from sysUptime is the device's own wall-clock time, short of
\* the part of a second the v9 header does not carry, unless the 32-bit counter
\* wrapped between the reading and the export: then it is late by exactly the
\* counter's period.  Without a header uptime (IPFIX) there is no time
\* (v5::decode_record, resolve_times).
UptimeTimesAreReal ==
  \A r \in Range(rows), c \in {"flow_start", "flow_end"} :
    \A reading \in ReadingsOf(r, c) :
      LET device == r.from.device
          real == device.boot + reading * Millis
          lost == Now(device) - r.from.header.export
          wraps == (device.up \div U32) - (reading \div U32)
      IN  IF r.from.header.uptime = None THEN r.row[c] = None
          ELSE /\ r.row[c] = real - lost + wraps * U32 * Millis
               /\ lost \in 0 .. Micros - 1

\* Two IPv6 addresses of a batch compare in their column as on the wire: the engine
\* does range and containment joins on the signed number (inet.rs encode).
AddressOrder ==
  LET pairs(c) ==
        {<<r.row[c].address, r.from.fields[Winner(r.from, c)].bytes.val>> :
           r \in {r \in RecordRows : r.row[c] # None /\ r.row[c].ip_type = 2}}
  IN  \A x, y \in UNION {pairs(c) : c \in AddressColumns} :
        x[1] < y[1] <=> x[2] < y[2]

-----------------------------------------------------------------------------
(* Where the values of a sample's row belong.                              *)

\* Where the network and the transport header of a sampled packet begin.
NetworkAt(p) == 16 + 14 + (IF p.tagged THEN 4 ELSE 0)
TransportAt(p) ==
  NetworkAt(p) + (IF p.l3 = "ipv6" THEN 40 ELSE IF p.ihl > 5 THEN 4 * p.ihl ELSE 20)

\* The columns a packet has values for.
PacketColumns(p) ==
  LET network == CASE p.l3 = "ipv4" -> {"src_addr", "dst_addr", "protocol", "tos"}
                   [] OTHER -> {"src_addr", "dst_addr", "protocol"}
      transport == CASE p.proto = 6 -> {"src_port", "dst_port", "tcp_flags"}
                     [] p.proto = 17 -> {"src_port", "dst_port"}
                     [] OTHER -> {}
  IN  IF p.l3 = "other" THEN {} ELSE network \cup transport

\* Offsets in the record, by the layouts of Ethernet, IP, TCP and UDP.
PacketPlaces(p) ==
  LET l3 == NetworkAt(p)
      l4 == TransportAt(p)
      v6 == p.l3 = "ipv6"
  IN  [c \in PacketColumns(p) |->
         CASE c = "src_addr" -> IF v6 THEN l3 + 8 ELSE l3 + 12
           [] c = "dst_addr" -> IF v6 THEN l3 + 24 ELSE l3 + 16
           [] c = "protocol" -> IF v6 THEN l3 + 6 ELSE l3 + 9
           [] c = "tos" -> l3 + 1
           [] c = "src_port" -> l4
           [] c = "dst_port" -> l4 + 2
           [] c = "tcp_flags" -> l4 + 13]

\* By the layouts of sampled_ipv4 and sampled_ipv6.
Places(rec) ==
  CASE rec.format = 1 -> PacketPlaces(rec.packet)
    [] rec.format = 3 -> [src_addr |-> 8, dst_addr |-> 12, protocol |-> 7, src_port |-> 18,
                          dst_port |-> 22, tcp_flags |-> 27, tos |-> 31]
    [] rec.format = 4 -> [src_addr |-> 8, dst_addr |-> 24, protocol |-> 7, src_port |-> 42,
                          dst_port |-> 46, tcp_flags |-> 51]
    [] OTHER -> <<>>

\* By the layout of a v5 record.
V5Places ==
  [src_addr |-> 0, dst_addr |-> 4, next_hop |-> 8, input_snmp |-> 12, output_snmp |-> 14,
   packets |-> 16, bytes |-> 20, src_port |-> 32, dst_port |-> 34, tcp_flags |-> 37,
   protocol |-> 38, tos |-> 39, src_as |-> 40, dst_as |-> 42, src_mask |-> 44,
   dst_mask |-> 45]

\* The bytes of a record that hold all its values.
Extent(rec) ==
  LET p == rec.packet
  IN  CASE rec.format = 1 ->
             TransportAt(p) + (IF p.proto = 6 THEN 14 ELSE IF p.proto = 17 THEN 4 ELSE 0)
        [] rec.format = 3 -> 32 [] rec.format = 4 -> 52 [] OTHER -> 0

Complete(rec) ==
  /\ rec.size >= Extent(rec)
  /\ rec.format = 1 => 16 + rec.captured \in Extent(rec) .. rec.size

\* The records of a flow sample that speak of a column.
Speakers(from, column) ==
  {k \in DOMAIN from.records :
     IsFlowSample(from.sample) /\ column \in DOMAIN Places(from.records[k])}

\* Is the value of a column what the k-th record has in the column's place?
InPlace(r, column, k) ==
  LET mark == Mark(k, Places(r.from.records[k])[column])
  IN  r.row[column] \in
        (IF column \in AddressColumns THEN {encode4(mark), encode6(mark)} ELSE {mark})

\* Every value of a row comes from its own place in the record, whatever tags, header
\* options and record formats lie before it; of several records the last that has the
\* value counts.  In a truncated record this still holds of the addresses: they are in
\* place or NULL (decode_record, decode_flow_sample, the parse chain of sflow.rs).
ValuesInPlace ==
  /\ \A r \in Range(rows) : r.from.is = "v5" =>
       \A c \in DOMAIN V5Places :
         LET mark == Mark(0, V5Places[c])
         IN  r.row[c] = IF c \in AddressColumns THEN encode4(mark) ELSE mark
  /\ \A r \in SampleRows : LET s == r.from.sample IN
       /\ \A c \in {"src_addr", "dst_addr"} :
            r.row[c] = None \/ \E k \in Speakers(r.from, c) : InPlace(r, c, k)
       /\ (\A k \in DOMAIN r.from.records : Complete(r.from.records[k])) =>
            \A c \in UNION {DOMAIN Places(r.from.records[k]) : k \in DOMAIN r.from.records} :
              IsFlowSample(s) => InPlace(r, c, Max(Speakers(r.from, c)))
       /\ IsFlowSample(s) /\ s.size >= 44 =>
            /\ r.row.input_snmp = Mark(0, IF s.format = 3 THEN 28 ELSE 20)
            /\ r.row.output_snmp = Mark(0, IF s.format = 3 THEN 36 ELSE 24)

\* Counts are scaled by the sampling rate exactly once, however many records of a
\* sample count, and raw_fields tells what was scaled: the row's bytes are the last
\* frame length in raw_fields times the rate next to it (scale_counts).
CountsAreScaledOnce ==
  \A r \in SampleRows :
    LET raw == r.row.raw_fields
        counting == {k \in DOMAIN r.from.records : r.from.records[k].format \in {1, 3, 4}}
    IN  IsFlowSample(r.from.sample) =>
          IF counting = {} THEN r.row.bytes = None /\ r.row.packets = None
          ELSE LET rec == r.from.records[Max(counting)] IN
               /\ raw[Len(raw) - 1][1] = "sflow.frame_length"
               /\ raw[Len(raw)] = <<"sflow.sampling_rate", r.row.sampling_rate>>
               /\ r.row.bytes = raw[Len(raw) - 1][2] * raw[Len(raw)][2]
               /\ r.row.packets = r.row.sampling_rate
               /\ rec.size >= 8 => raw[Len(raw) - 1][2] = rec.frame

-----------------------------------------------------------------------------
(* The batch read back.                                                    *)

\* The cell of row r in the column the schema calls c.
CellOf(c, r) ==
  LET array == batch[CHOOSE i \in DOMAIN flow_schema : flow_schema[i] = c]
  IN  CASE c \in AddressColumns ->
             IF array.valid[r]
             THEN [ip_type |-> array.ip_type[r], address |-> array.address[r],
                   mask |-> array.mask[r]]
             ELSE None
        [] c = "raw_fields" -> SubSeq(array.entries, array.offsets[r] + 1, array.offsets[r + 1])
        [] OTHER -> array[r]

\* Every cell the engine reads, by the schema's names, by row number, through the
\* validity of an INET column and the offsets of the MAP, is that of the row decoded
\* (flow_schema and rows_to_batch list the columns separately; build_inet,
\* build_raw_fields).
BatchRoundTrips ==
  batch # None =>
    \A r \in DOMAIN rows : \A c \in Columns : CellOf(c, r) = rows[r].row[c]

-----------------------------------------------------------------------------
(* What the repository says and the code does not do.                      *)

\* normalize.rs: "Anything the normalized columns cannot hold lands in `raw_fields`
\* (the lossless escape hatch)".  Every field of a record that is not too big for its
\* column is in the column or in raw_fields.
NothingIsLost ==
  \A r \in RecordRows : \A i \in DOMAIN r.from.fields :
    LET f == r.from.fields[i]
        c == ElementOf(f).column
    IN  IF IsMapped(f)
        THEN HasRoom(f) =>
               IF ElementOf(f).how = "uptime"
               THEN r.row[c] # None /\ f.reading \in ReadingsOf(r, c)
               ELSE r.row[c] = ColumnValue(ElementOf(f), f.bytes)
        ELSE <<<<f.enterprise, f.ie>>, f.bytes>> \in Range(r.row.raw_fields)

\* buf.rs: the decoders "turn an underrun into a `truncated` diagnostic".  A row of a
\* sample without a diagnostic has no port, protocol or flags read from anywhere but
\* their place.
CleanRowsAreInPlace ==
  \A r \in SampleRows :
    r.row.diagnostics = {} =>
      \A c \in {"src_port", "dst_port", "protocol", "tcp_flags"} :
        r.row[c] \in {None, 0} \/ \E k \in Speakers(r.from, c) : InPlace(r, c, k)
=============================================================================
