---------------------------- MODULE FieldMapping ----------------------------
(***************************************************************************)
(* What a decoded field does to the row (netflow-core decode/record.rs).   *)
(* The columns of a row are those of FlowRecord; a row is a function from  *)
(* them, None where the datagram says nothing.                             *)
(*                                                                         *)
(* An information element is known by its enterprise number and id; its    *)
(* raw_fields key, a name the registry or a format string makes of the     *)
(* two, is the pair.  `known` says whether the registry lists it.          *)
(***************************************************************************)
EXTENDS Inet, Sequences

CONSTANTS
  Micros,     \* microseconds in a second: 1_000_000
  Millis,     \* microseconds in a millisecond: 1_000
  NtpOffset   \* seconds from 1900 to 1970: 2_208_988_800

ASSUME UnitsAssumption ==
  /\ Micros \in Nat \ {0} /\ Millis \in Nat \ {0} /\ NtpOffset \in Nat
  /\ U32 * Micros <= U64 \div 2

HeaderColumns ==
  {"exporter", "flow_version", "obs_domain", "template_id", "export_time", "sequence"}
AddressColumns == {"src_addr", "dst_addr", "next_hop"}
FlowColumns ==
  {"src_port", "dst_port", "protocol", "tcp_flags", "bytes", "packets", "flow_start",
   "flow_end", "src_as", "dst_as", "input_snmp", "output_snmp", "tos", "src_mask",
   "dst_mask", "sampling_rate", "direction"}
Columns == HeaderColumns \cup AddressColumns \cup FlowColumns \cup {"raw_fields", "diagnostics"}

DefaultRow ==
  [c \in Columns |-> CASE c = "raw_fields" -> <<>> [] c = "diagnostics" -> {} [] OTHER -> None]

put_raw(row, name, bytes) == [row EXCEPT !.raw_fields = Append(@, <<name, bytes>>)]
note(row, msg) == [row EXCEPT !.diagnostics = @ \cup {msg}]

-----------------------------------------------------------------------------
(* Which element goes where, and how.  arg is the width of a number, the   *)
(* preferred element of a counter, the unit of a clock.                    *)

Element(ies, column, how, arg) ==
  [ies |-> ies, column |-> column, how |-> how, arg |-> arg]

Elements ==
  {Element({8, 130}, "src_addr", "inet4", 0), Element({27, 131}, "src_addr", "inet6", 0),
   Element({12, 226}, "dst_addr", "inet4", 0), Element({28}, "dst_addr", "inet6", 0),
   Element({15, 18}, "next_hop", "inet4", 0), Element({62, 63}, "next_hop", "inet6", 0),
   Element({7, 180, 182}, "src_port", "number", U16),
   Element({11, 181, 183}, "dst_port", "number", U16),
   Element({4}, "protocol", "number", U8), Element({5, 195}, "tos", "number", U8),
   Element({6}, "tcp_flags", "number", U8), Element({61}, "direction", "number", U8),
   Element({9, 29}, "src_mask", "number", U8), Element({13, 30}, "dst_mask", "number", U8),
   Element({10}, "input_snmp", "number", U32), Element({14}, "output_snmp", "number", U32),
   Element({16}, "src_as", "number", U32), Element({17}, "dst_as", "number", U32),
   Element({34, 305}, "sampling_rate", "number", U32),
   Element({1, 23, 85, 351, 352}, "bytes", "counter", 1),
   Element({2, 24, 86}, "packets", "counter", 2),
   Element({150}, "flow_start", "clock", Micros), Element({151}, "flow_end", "clock", Micros),
   Element({152}, "flow_start", "clock", Millis), Element({153}, "flow_end", "clock", Millis),
   Element({154, 156}, "flow_start", "ntp", 0), Element({155, 157}, "flow_end", "ntp", 0),
   Element({22}, "flow_start", "uptime", 0), Element({21}, "flow_end", "uptime", 0)}

IsMapped(f) == f.enterprise = 0 /\ \E e \in Elements : f.ie \in e.ies
ElementOf(f) == CHOOSE e \in Elements : f.ie \in e.ies

\* Seconds since 1900 and a 32-bit fraction.
ntp_micros(b) ==
  IF b.len = 8
  THEN (b.val \div U32 - NtpOffset) * Micros + ((b.val % U32) * Micros) \div U32
  ELSE None

\* A multiplication in i64 may overflow; the release build wraps.
ColumnValue(e, b) ==
  CASE e.how = "inet4" -> inet4(b)
    [] e.how = "inet6" -> inet6(b)
    [] e.how = "ntp" -> ntp_micros(b)
    [] e.how = "number" -> be_uint(b) % e.arg
    [] e.how = "clock" -> AsI64(AsI64(be_uint(b)) * e.arg)
    [] e.how = "counter" -> be_uint(b)
    [] e.how = "uptime" -> be_uint(b) % U32

\* A later element replaces an earlier one if it has a value; a counter only gives
\* way to its preferred element.
Replaces(e, f, old, new) ==
  IF e.how = "counter" THEN old = None \/ f.ie = e.arg ELSE new # None

\* The row under construction, and the sysUptime readings collected for it.
Draft(row) == [row |-> row, sysup |-> [flow_start |-> None, flow_end |-> None]]

MapElement(draft, f) ==
  LET e == ElementOf(f)
      new == ColumnValue(e, f.bytes)
  IN  IF e.how = "uptime" THEN [draft EXCEPT !.sysup[e.column] = new]
      ELSE IF Replaces(e, f, draft.row[e.column], new)
           THEN [draft EXCEPT !.row[e.column] = new]
           ELSE draft

\* An enterprise element is always kept raw.
map_field(draft, f) ==
  IF IsMapped(f) THEN MapElement(draft, f)
  ELSE [draft EXCEPT !.row =
          put_raw(IF f.enterprise = 0 \/ f.known THEN @ ELSE note(@, "enterprise-unmapped"),
                  <<f.enterprise, f.ie>>, f.bytes)]

-----------------------------------------------------------------------------
\* Mutant: the reading is taken for the age of the flow.
FromUptime_Age(export, uptime, reading) == export - reading * Millis

\* Wall-clock time of a sysUptime reading: the exporter booted `uptime`
\* milliseconds before the export time of the header.
FromUptime(export, uptime, reading) == export - uptime * Millis + reading * Millis

\* Mutant: a sysUptime reading replaces an absolute time.
resolve_times_Always(draft, export, uptime) ==
  IF export = None \/ uptime = None THEN draft.row
  ELSE [c \in Columns |->
          IF c \in {"flow_start", "flow_end"} /\ draft.sysup[c] # None
          THEN FromUptime(export, uptime, draft.sysup[c]) ELSE draft.row[c]]

\* Absolute times have precedence; without a header uptime the readings are of no use.
resolve_times(draft, export, uptime) ==
  IF export = None \/ uptime = None THEN draft.row
  ELSE [c \in Columns |->
          IF /\ c \in {"flow_start", "flow_end"}
             /\ draft.row[c] = None /\ draft.sysup[c] # None
          THEN FromUptime(export, uptime, draft.sysup[c]) ELSE draft.row[c]]
=============================================================================
