-------------------------- MODULE DatagramFraming --------------------------
(***************************************************************************)
(* How a datagram is cut up, and by whom.  Three readers of netflow-core   *)
(* walk the same bytes with code of their own: parse_header (the header()  *)
(* scalar), the decoders (decode_datagram), and well_formed() (triage).    *)
(* Here they run one after the other on one datagram.                      *)
(*                                                                         *)
(* Of the bytes only what steers a reader is kept: the datagram's size,    *)
(* the words that announce a version, an address type, a count or a total, *)
(* and the length words, which are chosen when a reader first looks at     *)
(* them and remembered for the next reader.                                *)
(***************************************************************************)
EXTENDS ByteCursor

CONSTANTS
  Datagrams,     \* the datagrams to read
  LengthWords    \* the values a length word may have

\* lead is the first 16-bit word, lo the second; count is the record or sample
\* count; declared is the message length in an IPFIX header.
Datagram ==
  [size : Nat, lead : Nat, lo : Nat, addr_type : Nat, count : Nat, declared : Nat]

\* The record count of a v5 header is a 16-bit word.
ASSUME FramingAssumption ==
  /\ Datagrams \subseteq Datagram /\ LengthWords \subseteq Nat
  /\ \A d \in Datagrams : d.lead = 5 => d.count < 65536

probe_version(d) ==
  CASE d.size >= 2 /\ d.lead = 5 -> "5"
    [] d.size >= 2 /\ d.lead = 9 -> "9"
    [] d.size >= 2 /\ d.lead = 10 -> "10"
    [] d.size >= 8 /\ d.lead = 0 /\ d.lo = 5 /\ d.addr_type \in {1, 2} -> "sflow5"
    [] OTHER -> "none"

-----------------------------------------------------------------------------
(* Reading a header.                                                       *)

Agent(d) == IF d.addr_type = 1 THEN 4 ELSE 16

\* parse_v5 stops before the last two bytes of its header.
parse_v5(c) ==
  c \odot Read(2) \odot Read(2) \odot Read(4) \odot Read(4) \odot Read(4) \odot Read(4)
    \odot Read(1) \odot Read(1)
parse_v9(c) ==
  c \odot Read(2) \odot Read(2) \odot Read(4) \odot Read(4) \odot Read(4) \odot Read(4)
parse_ipfix(c) ==
  c \odot Read(2) \odot Read(2) \odot Read(4) \odot Read(4) \odot Read(4)

\* Mutant: the uptime is not read.
parse_sflow_NoUptime(c, agent) ==
  c \odot Read(4) \odot Read(4) \odot Skip(agent) \odot Read(4) \odot Read(4) \odot Read(4)

parse_sflow(c, agent) ==
  c \odot Read(4) \odot Read(4) \odot Skip(agent) \odot Read(4) \odot Read(4) \odot Read(4)
    \odot Read(4)

parse_header(d) ==
  LET c == Cursor(d.size) IN
  CASE probe_version(d) = "5" -> parse_v5(c)
    [] probe_version(d) = "9" -> parse_v9(c)
    [] probe_version(d) = "10" -> parse_ipfix(c)
    [] OTHER -> parse_sflow(c, Agent(d))

\* The header as sflow::decode reads it, and as validate_sflow does.
sflow_header(d) ==
  Cursor(d.size) \odot Read(4) \odot Read(4) \odot Skip(Agent(d)) \odot Read(4)
    \odot Read(4) \odot Read(4) \odot Read(4)
validate_sflow(d) ==
  Cursor(d.size) \odot Read(4) \odot Read(4) \odot Skip(Agent(d)) \odot Read(4)
    \odot Read(4) \odot Read(4) \odot Read(4)

-----------------------------------------------------------------------------
VARIABLES
  dg,      \* the datagram
  stage,   \* who is reading: see Stages
  header,  \* did parse_header succeed?
  pos,     \* where the current reader is
  end,     \* where its region ends
  left,    \* records or samples it still expects
  words,   \* offset |-> length word, for the words looked at so far
  parts,   \* the extents the decoder cut out
  verdict, \* what the decoder answered
  seen,    \* the extents well_formed walked over
  wf       \* what well_formed answered

vars == <<dg, stage, header, pos, end, left, words, parts, verdict, seen, wf>>

Stages == {"header", "decode", "records", "sets", "samples", "check", "walk", "done"}
Verdicts == {"none", "clean", "truncated", "rejected"}
Kinds == {"none", "ok", "truncated", "bad-set", "short-record", "not-a-flow-datagram"}

version == probe_version(dg)

SmallerOf(a, b) == IF a <= b THEN a ELSE b

Init ==
  /\ dg \in Datagrams
  /\ stage = "header" /\ header = FALSE
  /\ pos = 0 /\ end = 0 /\ left = 0 /\ words = <<>>
  /\ parts = {} /\ verdict = "none" /\ seen = {} /\ wf = "none"

\* The length word at offset o, read now or read before.
WordAt(o, len) ==
  /\ o \in DOMAIN words => len = words[o]
  /\ words' = [x \in DOMAIN words \cup {o} |-> IF x = o THEN len ELSE words[x]]

ParseHeader ==
  /\ stage = "header"
  /\ header' = (version # "none" /\ parse_header(dg).ok)
  /\ stage' = "decode"
  /\ UNCHANGED <<dg, pos, end, left, words, parts, verdict, seen, wf>>

-----------------------------------------------------------------------------
(* The decoders.                                                           *)

Answer(v) == verdict' = v /\ stage' = "check"

\* Where the loop over records, sets or samples begins.  In v5 a failed skip of
\* the 24-byte header leaves the cursor at the start.
LoopStart(d) ==
  CASE probe_version(d) = "5" -> (Cursor(d.size) \odot Skip(24)).pos
    [] probe_version(d) = "9" -> SmallerOf(20, d.size)
    [] probe_version(d) = "10" -> SmallerOf(16, d.size)
    [] OTHER -> sflow_header(d).pos

Loop == [v \in {"5", "9", "10", "sflow5"} |->
           CASE v = "5" -> "records" [] v = "sflow5" -> "samples" [] OTHER -> "sets"]

\* Does the decoder get past the header?
HeaderAccepted ==
  IF version = "sflow5" THEN sflow_header(dg).ok ELSE header

StartDecode ==
  /\ stage = "decode"
  /\ version # "none" /\ HeaderAccepted
  /\ stage' = Loop[version]
  /\ pos' = LoopStart(dg) /\ end' = dg.size
  /\ left' = SmallerOf(dg.count, 65536)
  /\ UNCHANGED <<dg, header, words, parts, verdict, seen, wf>>

RefuseDatagram ==
  /\ stage = "decode"
  /\ version = "none" \/ ~HeaderAccepted
  /\ Answer("rejected")
  /\ UNCHANGED <<dg, header, pos, end, left, words, parts, seen, wf>>

Cut(len) ==
  /\ pos' = pos + len
  /\ parts' = parts \cup {<<pos, pos + len>>}

TakeRecord ==
  /\ stage = "records" /\ left > 0 /\ pos + 48 <= end
  /\ Cut(48) /\ left' = left - 1
  /\ UNCHANGED <<dg, stage, header, end, words, verdict, seen, wf>>

RecordTruncated ==
  /\ stage = "records" /\ left > 0 /\ pos + 48 > end
  /\ Answer("truncated")
  /\ UNCHANGED <<dg, header, pos, end, left, words, parts, seen, wf>>

RecordsEnd ==
  /\ stage = "records" /\ left = 0
  /\ Answer("clean")
  /\ UNCHANGED <<dg, header, pos, end, left, words, parts, seen, wf>>

\* Mutants: the guard against an overrun, or against a length below the set
\* header's own, is missing; a set may not fill the rest of the datagram.
SetFits_NoMax(len, rest) == len >= 4
SetFits_NoMin(len, rest) == len <= rest
SetFits_Strict(len, rest) == len >= 4 /\ len < rest

\* split_flowsets, split_sets.
SetFits(len, rest) == len >= 4 /\ len <= rest

TakeSet(len) ==
  /\ stage = "sets" /\ end - pos >= 4
  /\ WordAt(pos, len) /\ SetFits(len, end - pos)
  /\ Cut(len)
  /\ UNCHANGED <<dg, stage, header, end, left, verdict, seen, wf>>

\* Nothing of the datagram is decoded then, its earlier sets included.
RefuseSets(len) ==
  /\ stage = "sets" /\ end - pos >= 4
  /\ WordAt(pos, len) /\ ~SetFits(len, end - pos)
  /\ Answer("rejected") /\ parts' = {}
  /\ UNCHANGED <<dg, header, pos, end, left, seen, wf>>

SetsEnd ==
  /\ stage = "sets" /\ end - pos < 4
  /\ Answer("clean")
  /\ UNCHANGED <<dg, header, pos, end, left, words, parts, seen, wf>>

\* A sample's length word follows its type word and does not count the two.
TakeSample(len) ==
  /\ stage = "samples" /\ left > 0 /\ end - pos >= 8
  /\ WordAt(pos, len) /\ 8 + len <= end - pos
  /\ Cut(8 + len) /\ left' = left - 1
  /\ UNCHANGED <<dg, stage, header, end, verdict, seen, wf>>

SampleTruncated(len) ==
  /\ stage = "samples" /\ left > 0 /\ end - pos >= 8
  /\ WordAt(pos, len) /\ 8 + len > end - pos
  /\ Answer("truncated")
  /\ UNCHANGED <<dg, header, pos, end, left, parts, seen, wf>>

\* Also when the samples stop short of the announced number.
SamplesEnd ==
  /\ stage = "samples"
  /\ left = 0 \/ end - pos < 8
  /\ Answer("clean")
  /\ UNCHANGED <<dg, header, pos, end, left, words, parts, seen, wf>>

Decode ==
  \/ StartDecode \/ RefuseDatagram
  \/ TakeRecord \/ RecordTruncated \/ RecordsEnd
  \/ \E len \in LengthWords :
       TakeSet(len) \/ RefuseSets(len) \/ TakeSample(len) \/ SampleTruncated(len)
  \/ SetsEnd \/ SamplesEnd

-----------------------------------------------------------------------------
(* well_formed.                                                            *)

\* What validate_v5, validate_v9, validate_ipfix and validate_sflow say before
\* any set is walked; "none" when there are sets to walk.
HeaderKind(d) ==
  LET v == probe_version(d) IN
  CASE v = "none" -> "not-a-flow-datagram"
    [] v = "5" /\ (d.size < 24 \/ ~parse_header(d).ok) -> "truncated"
    [] v = "5" /\ d.size >= 24 /\ d.size < 24 + d.count * 48 -> "short-record"
    [] v = "9" /\ d.size < 20 -> "truncated"
    [] v = "10" /\ d.size < 16 -> "truncated"
    [] v = "10" /\ d.size >= 16 /\ (d.declared < 16 \/ d.declared > d.size) -> "bad-set"
    [] v = "sflow5" /\ ~validate_sflow(d).ok -> "truncated"
    [] v = "9" /\ d.size >= 20 -> "none"
    [] v = "10" /\ d.size >= 16 /\ d.declared >= 16 /\ d.declared <= d.size -> "none"
    [] OTHER -> "ok"

WalkStart == IF version = "9" THEN 20 ELSE 16

StartCheck ==
  /\ stage = "check"
  /\ wf' = HeaderKind(dg)
  /\ IF wf' = "none"
     THEN /\ stage' = "walk" /\ pos' = WalkStart
          /\ end' = IF version = "9" THEN dg.size ELSE dg.declared
     ELSE stage' = "done" /\ UNCHANGED <<pos, end>>
  /\ UNCHANGED <<dg, header, left, words, parts, verdict, seen>>

Conclude(kind) == wf' = kind /\ stage' = "done"

\* validate_sets.
WalkSet(len) ==
  /\ stage = "walk" /\ end - pos >= 4
  /\ WordAt(pos, len) /\ len >= 4 /\ len <= end - pos
  /\ pos' = pos + len /\ seen' = seen \cup {<<pos, pos + len>>}
  /\ UNCHANGED <<dg, stage, header, end, left, parts, verdict, wf>>

WalkOverrun(len) ==
  /\ stage = "walk" /\ end - pos >= 4
  /\ WordAt(pos, len) /\ (len < 4 \/ len > end - pos)
  /\ Conclude("bad-set")
  /\ UNCHANGED <<dg, header, pos, end, left, parts, verdict, seen>>

WalkEnd ==
  /\ stage = "walk" /\ end - pos < 4
  /\ Conclude(IF pos = end THEN "ok" ELSE "truncated")
  /\ UNCHANGED <<dg, header, pos, end, left, words, parts, verdict, seen>>

WellFormed ==
  \/ StartCheck \/ WalkEnd
  \/ \E len \in LengthWords : WalkSet(len) \/ WalkOverrun(len)

Done == stage = "done" /\ UNCHANGED vars

Next == ParseHeader \/ Decode \/ WellFormed \/ Done

\* A reader runs to its end.
Fairness == WF_vars(ParseHeader \/ Decode \/ WellFormed)

Spec == Init /\ [][Next]_vars /\ Fairness

-----------------------------------------------------------------------------
(* Properties.                                                             *)

\* Type invariant: no reader's cursor is ever past the datagram.
TypeOK ==
  /\ dg \in Datagrams /\ stage \in Stages /\ header \in BOOLEAN
  /\ pos \in 0 .. dg.size /\ end \in 0 .. dg.size /\ left \in Nat
  /\ DOMAIN words \subseteq Nat /\ words \in [DOMAIN words -> LengthWords]
  /\ verdict \in Verdicts /\ wf \in Kinds

\* A set of extents covers from the start up to some point without gap or overlap.
Tiles(extents, from) ==
  /\ \A p \in extents : p[1] < p[2] /\ (p[1] = from \/ \E q \in extents : q[2] = p[1])
  /\ \A p, q \in extents : p = q \/ p[2] <= q[1] \/ q[2] <= p[1]

\* No byte of a datagram is decoded twice, skipped or read from beyond its end:
\* records, sets and samples tile it from the end of the header on (v5::decode,
\* split_flowsets, split_sets, sflow::decode).
PartsTile ==
  Tiles(parts, LoopStart(dg)) /\ \A p \in parts : p[2] <= dg.size

\* Bytes a header occupies, and how many of them parse_header asks for: of a v5
\* header not the last two.
HeaderBytes(d) ==
  CASE probe_version(d) = "5" -> 24 [] probe_version(d) = "9" -> 20
    [] probe_version(d) = "10" -> 16 [] OTHER -> 24 + Agent(d)
ReadBytes(d) == IF probe_version(d) = "5" THEN 22 ELSE HeaderBytes(d)

\* A datagram that ends inside its header yields nothing, and triage calls it
\* truncated; one that does not is accepted, and decoded from the end of its header
\* on.  parse_header and the decoders refuse what ends before the bytes they read, a
\* failed skip of the agent address included, which a later read notices.  They
\* differ from well_formed on one kind of datagram: a v5 header of 22 or 23 bytes,
\* which header() shows as whole and v5::decode answers with a truncated record or,
\* if it announces no records, with nothing at all.
CutHeadersYieldNothing ==
  stage = "done" /\ version # "none" =>
    LET whole == dg.size >= HeaderBytes(dg) IN
    /\ ~whole => parts = {} /\ wf = "truncated"
    /\ whole => LoopStart(dg) = HeaderBytes(dg) /\ HeaderKind(dg) # "truncated"
    /\ header <=> dg.size >= ReadBytes(dg)
    /\ header => parse_header(dg).pos = ReadBytes(dg)
    /\ ~header => verdict = "rejected"
    /\ header /\ ~whole => verdict = IF dg.count = 0 THEN "clean" ELSE "truncated"
    /\ version = "sflow5" /\ whole => verdict # "rejected" /\ wf = "ok"

\* Triage of NetFlow and IPFIX can be relied on: what well_formed passes is cut up
\* without complaint, into the very sets or records it counted, if an IPFIX message
\* fills its datagram (well_formed and the decoders walk the sets separately).  A
\* complaint is one about the framing; what is inside a set may still be refused.
\* sFlow is left out: validate_sflow looks at the header only, and a sample that
\* runs past the end passes it.
TriageAgrees ==
  stage = "done" /\ wf = "ok" /\ version \in {"5", "9", "10"}
    /\ (version = "10" => dg.declared = dg.size) =>
    /\ verdict = "clean"
    /\ version \in {"9", "10"} => parts = seen /\ pos = dg.size
    /\ version = "5" => \A n \in 1 .. dg.count :
                          <<24 + (n - 1) * 48, 24 + n * 48>> \in parts

\* Every reader gets to the end of every datagram, whatever its length words say
\* (the loops of the decoders and of validate_sets).
Ends == <>(stage = "done")
=============================================================================
