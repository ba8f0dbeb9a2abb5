----------------------- MODULE DatagramFramingProofs -----------------------
(***************************************************************************)
(* The readers of a datagram, for every datagram and every length word:    *)
(* cursors stay inside it, parts tile it, a header that is cut short       *)
(* yields nothing, and triage of NetFlow and IPFIX can be relied on.       *)
(***************************************************************************)
EXTENDS DatagramFraming, ByteCursorProofs

-----------------------------------------------------------------------------
(* Headers.                                                                *)

\* The NetFlow and IPFIX headers begin with the same widths.
LEMMA ReadNetflow ==
  ASSUME NEW size \in Nat
  PROVE  /\ ReadUpTo(parse_v5(Cursor(size)), size, 22)
         /\ ReadUpTo(parse_v9(Cursor(size)), size, 20)
         /\ ReadUpTo(parse_ipfix(Cursor(size)), size, 16)
<1> DEFINE c1 == Cursor(size) \odot Read(2)
           c2 == c1 \odot Read(2)
           c3 == c2 \odot Read(4)
           c4 == c3 \odot Read(4)
           c5 == c4 \odot Read(4)
           c6 == c5 \odot Read(4)
           c7 == c6 \odot Read(1)
           c8 == c7 \odot Read(1)
<1>0. /\ parse_v5(Cursor(size)) = c8
      /\ parse_v9(Cursor(size)) = c6
      /\ parse_ipfix(Cursor(size)) = c5
  BY DEF parse_v5, parse_v9, parse_ipfix
<1>1. ReadUpTo(c1, size, 0 + 2) BY Started, ReadOn
<1> HIDE DEF c1
<1>2. ReadUpTo(c2, size, 2 + 2) BY <1>1, ReadOn
<1> HIDE DEF c2
<1>3. ReadUpTo(c3, size, 4 + 4) BY <1>2, ReadOn
<1> HIDE DEF c3
<1>4. ReadUpTo(c4, size, 8 + 4) BY <1>3, ReadOn
<1> HIDE DEF c4
<1>5. ReadUpTo(c5, size, 12 + 4) BY <1>4, ReadOn
<1> HIDE DEF c5
<1>6. ReadUpTo(c6, size, 16 + 4) BY <1>5, ReadOn
<1> HIDE DEF c6
<1>7. ReadUpTo(c7, size, 20 + 1) BY <1>6, ReadOn
<1> HIDE DEF c7
<1>8. ReadUpTo(c8, size, 21 + 1) BY <1>7, ReadOn
<1> HIDE DEF c8
<1> QED BY <1>0, <1>5, <1>6, <1>8

\* In sFlow an agent address that is cut short goes unnoticed when it is skipped;
\* the four words that follow need at least as many bytes, so one of them fails.
LEMMA ReadSflow ==
  ASSUME NEW size \in Nat, NEW agent \in Nat, agent <= 16
  PROVE  ReadUpTo(parse_sflow(Cursor(size), agent), size, 24 + agent)
<1> DEFINE c1 == Cursor(size) \odot Read(4)
           c2 == c1 \odot Read(4)
           c3 == c2 \odot Skip(agent)
           c4 == c3 \odot Read(4)
           c5 == c4 \odot Read(4)
           c6 == c5 \odot Read(4)
           c7 == c6 \odot Read(4)
<1>0. parse_sflow(Cursor(size), agent) = c7 BY DEF parse_sflow
<1>1. ReadUpTo(c1, size, 0 + 4) BY Started, ReadOn
<1> HIDE DEF c1
<1>2. ReadUpTo(c2, size, 4 + 4) BY <1>1, ReadOn
<1> HIDE DEF c2
<1>3. ReadUpTo(c3, size, 8 + agent) \/ (size < 8 + agent /\ ReadUpTo(c3, size, 8))
  BY <1>2, SkipOn
<1> HIDE DEF c3
<1>4. ASSUME NEW p \in Nat, ReadUpTo(c3, size, p)
      PROVE  ReadUpTo(c7, size, p + 16)
  <2>1. ReadUpTo(c4, size, p + 4) BY <1>4, ReadOn
  <2> HIDE DEF c4
  <2>2. ReadUpTo(c5, size, (p + 4) + 4) BY <2>1, ReadOn
  <2> HIDE DEF c5
  <2>3. ReadUpTo(c6, size, (p + 8) + 4) BY <2>2, ReadOn
  <2> HIDE DEF c6
  <2>4. ReadUpTo(c7, size, (p + 12) + 4) BY <2>3, ReadOn
  <2> HIDE DEF c7
  <2> QED BY <2>4
<1> HIDE DEF c7
<1>5. CASE ReadUpTo(c3, size, 8 + agent) BY <1>0, <1>4, <1>5
<1>6. CASE size < 8 + agent /\ ReadUpTo(c3, size, 8)
  <2>1. ReadUpTo(c7, size, 24) BY <1>4, <1>6
  <2> QED BY <1>0, <1>6, <2>1 DEF ReadUpTo
<1> QED BY <1>3, <1>5, <1>6

LEMMA DatagramType ==
  ASSUME NEW d \in Datagrams
  PROVE  /\ d.size \in Nat /\ d.count \in Nat /\ d.declared \in Nat
         /\ Agent(d) \in Nat /\ Agent(d) <= 16
<1>1. d \in Datagram BY FramingAssumption
<1> QED BY <1>1 DEF Datagram, Agent

\* All three readers of an sFlow header do the same reads.
LEMMA SflowReaders ==
  ASSUME NEW d
  PROVE  /\ sflow_header(d) = parse_sflow(Cursor(d.size), Agent(d))
         /\ validate_sflow(d) = parse_sflow(Cursor(d.size), Agent(d))
BY DEF sflow_header, validate_sflow, parse_sflow

LEMMA HeaderReads ==
  ASSUME NEW d \in Datagrams
  PROVE  /\ ReadUpTo(parse_header(d), d.size, ReadBytes(d))
         /\ ReadBytes(d) \in Nat
<1>1. d.size \in Nat /\ Agent(d) \in Nat /\ Agent(d) <= 16 BY DatagramType
<1>2. ReadUpTo(parse_sflow(Cursor(d.size), Agent(d)), d.size, 24 + Agent(d))
  BY <1>1, ReadSflow
<1> QED BY <1>1, <1>2, ReadNetflow DEF parse_header, ReadBytes, HeaderBytes

LEMMA LoopStartInside ==
  ASSUME NEW d \in Datagrams
  PROVE  LoopStart(d) \in 0 .. d.size
<1>1. d.size \in Nat /\ Agent(d) \in Nat /\ Agent(d) <= 16 BY DatagramType
<1>2. sflow_header(d).pos \in 0 .. d.size
  <2>1. ReadUpTo(parse_sflow(Cursor(d.size), Agent(d)), d.size, 24 + Agent(d))
    BY <1>1, ReadSflow
  <2>2. Inside(sflow_header(d), d.size) BY <2>1, SflowReaders DEF ReadUpTo
  <2> QED BY <1>1, <2>2 DEF Inside, CursorType
<1>3. (Cursor(d.size) \odot Skip(24)).pos \in 0 .. d.size
  <2>1. Inside(Cursor(d.size) \odot Skip(24), d.size) BY <1>1, CursorInside, ReadInside
  <2> QED BY <1>1, <2>1 DEF Inside, CursorType
<1>4. SmallerOf(20, d.size) \in 0 .. d.size /\ SmallerOf(16, d.size) \in 0 .. d.size
  BY <1>1 DEF SmallerOf
<1> QED BY <1>2, <1>3, <1>4 DEF LoopStart

-----------------------------------------------------------------------------
(* Types.                                                                  *)

LEMMA InitTypes == ASSUME Init PROVE TypeOK
<1>1. dg.size \in Nat BY DatagramType DEF Init
<1>2. DOMAIN words = {} /\ words \in [DOMAIN words -> LengthWords] BY DEF Init
<1>3. dg \in Datagrams /\ stage = "header" /\ pos = 0 /\ end = 0 /\ left = 0
  BY DEF Init
<1>4. header \in BOOLEAN /\ verdict = "none" /\ wf = "none" BY DEF Init
<1> QED BY <1>1, <1>2, <1>3, <1>4 DEF TypeOK, Stages, Verdicts, Kinds

LEMMA WordTypes ==
  ASSUME TypeOK, NEW o \in Nat, NEW len \in LengthWords, WordAt(o, len)
  PROVE  DOMAIN words' \subseteq Nat /\ words' \in [DOMAIN words' -> LengthWords]
BY DEF TypeOK, WordAt

LEMMA HeaderTypes ==
  ASSUME TypeOK, ParseHeader \/ StartDecode \/ RefuseDatagram \/ StartCheck
  PROVE  TypeOK'
<1> USE DEF TypeOK, Stages, Verdicts, Kinds
<1>0. dg.size \in Nat /\ dg.count \in Nat /\ dg.declared \in Nat BY DatagramType
<1>1. CASE ParseHeader
  <2>1. header' \in BOOLEAN BY <1>1 DEF ParseHeader
  <2> QED BY <1>1, <2>1 DEF ParseHeader
<1>2. CASE StartDecode
  <2>1. stage' \in Stages
    BY <1>2 DEF StartDecode, Loop, version, probe_version
  <2>2. pos' \in 0 .. dg.size /\ end' \in 0 .. dg.size /\ left' \in Nat
    BY <1>0, <1>2, LoopStartInside DEF StartDecode, SmallerOf
  <2> QED BY <1>2, <2>1, <2>2 DEF StartDecode
<1>3. CASE RefuseDatagram BY <1>3 DEF RefuseDatagram, Answer
<1>4. CASE StartCheck
  <2>1. HeaderKind(dg) \in Kinds BY DEF HeaderKind
  <2>2. ASSUME HeaderKind(dg) = "none"
        PROVE  /\ WalkStart \in 0 .. dg.size
               /\ version # "9" => dg.declared \in 0 .. dg.size
    BY <1>0, <2>2 DEF HeaderKind, WalkStart, version
  <2>3. stage' \in Stages /\ pos' \in 0 .. dg.size /\ end' \in 0 .. dg.size
    BY <1>0, <1>4, <2>2 DEF StartCheck
  <2> QED BY <1>4, <2>1, <2>3 DEF StartCheck
<1> QED BY <1>1, <1>2, <1>3, <1>4

LEMMA StepTypes ==
  ASSUME TypeOK,
         \/ TakeRecord \/ RecordTruncated \/ RecordsEnd \/ SetsEnd \/ SamplesEnd
         \/ WalkEnd \/ UNCHANGED vars
  PROVE  TypeOK'
<1> USE DEF TypeOK, Stages, Verdicts, Kinds
<1>1. CASE TakeRecord BY <1>1, DatagramType DEF TakeRecord, Cut
<1>2. CASE RecordTruncated \/ RecordsEnd \/ SetsEnd \/ SamplesEnd
  BY <1>2 DEF RecordTruncated, RecordsEnd, SetsEnd, SamplesEnd, Answer
<1>3. CASE WalkEnd BY <1>3 DEF WalkEnd, Conclude
<1>4. CASE UNCHANGED vars BY <1>4 DEF vars
<1> QED BY <1>1, <1>2, <1>3, <1>4

LEMMA LengthTypes ==
  ASSUME TypeOK, NEW len \in LengthWords,
         \/ TakeSet(len) \/ RefuseSets(len) \/ TakeSample(len) \/ SampleTruncated(len)
         \/ WalkSet(len) \/ WalkOverrun(len)
  PROVE  TypeOK'
<1> USE DEF TypeOK, Stages, Verdicts, Kinds
<1>0. dg.size \in Nat /\ len \in Nat /\ pos \in Nat
  BY DatagramType, FramingAssumption
<1>1. CASE TakeSet(len)
  <2>1. WordAt(pos, len) BY <1>1 DEF TakeSet
  <2>2. pos' \in 0 .. dg.size BY <1>0, <1>1 DEF TakeSet, Cut, SetFits
  <2> QED BY <1>0, <1>1, <2>1, <2>2, WordTypes DEF TakeSet
<1>2. CASE TakeSample(len)
  <2>1. WordAt(pos, len) BY <1>2 DEF TakeSample
  <2>2. pos' \in 0 .. dg.size /\ left' \in Nat BY <1>0, <1>2 DEF TakeSample, Cut
  <2> QED BY <1>0, <1>2, <2>1, <2>2, WordTypes DEF TakeSample
<1>3. CASE RefuseSets(len) \/ SampleTruncated(len)
  <2>1. WordAt(pos, len) BY <1>3 DEF RefuseSets, SampleTruncated
  <2> QED BY <1>0, <1>3, <2>1, WordTypes DEF RefuseSets, SampleTruncated, Answer
<1>4. CASE WalkSet(len)
  <2>1. WordAt(pos, len) BY <1>4 DEF WalkSet
  <2>2. pos' \in 0 .. dg.size BY <1>0, <1>4 DEF WalkSet
  <2> QED BY <1>0, <1>4, <2>1, <2>2, WordTypes DEF WalkSet
<1>5. CASE WalkOverrun(len)
  <2>1. WordAt(pos, len) BY <1>5 DEF WalkOverrun
  <2> QED BY <1>0, <1>5, <2>1, WordTypes DEF WalkOverrun, Conclude
<1> QED BY <1>1, <1>2, <1>3, <1>4, <1>5

LEMMA TypesInductive == TypeOK /\ [Next]_vars => TypeOK'
<1> SUFFICES ASSUME TypeOK, [Next]_vars PROVE TypeOK' OBVIOUS
<1>1. CASE ParseHeader BY <1>1, HeaderTypes
<1>2. CASE Decode BY <1>2, HeaderTypes, StepTypes, LengthTypes DEF Decode
<1>3. CASE WellFormed BY <1>3, HeaderTypes, StepTypes, LengthTypes DEF WellFormed
<1>4. CASE Done \/ UNCHANGED vars BY <1>4, StepTypes DEF Done
<1> QED BY <1>1, <1>2, <1>3, <1>4 DEF Next

\* No reader's cursor leaves the datagram, whatever its length words say
\* (parse_header, decode_datagram, well_formed).
THEOREM FramingTypeCorrect == Spec => []TypeOK
BY InitTypes, TypesInductive, PTL DEF Spec

-----------------------------------------------------------------------------
(* Parts.  What has been cut out ends where the cursor is.                 *)

Upto(p) ==
  /\ LoopStart(dg) <= p
  /\ p = LoopStart(dg) \/ \E q \in parts : q[2] = p
  /\ \A q \in parts : q[2] <= p

PartsType == parts \subseteq Nat \X Nat

TilingOK ==
  /\ PartsType /\ PartsTile
  /\ stage \in {"header", "decode"} => parts = {}
  /\ stage \in {"records", "sets", "samples"} => Upto(pos)

LEMMA InitTiling == ASSUME Init PROVE TilingOK
BY DEF Init, TilingOK, PartsType, PartsTile, Tiles

LEMMA EmptyTiling ==
  ASSUME parts' = {} PROVE PartsType' /\ PartsTile'
BY DEF PartsType, PartsTile, Tiles

\* Cutting out a further, nonempty part at the cursor.
LEMMA CutTiling ==
  ASSUME TypeOK, TilingOK, stage \in {"records", "sets", "samples"},
         NEW len \in Nat, len > 0, pos + len <= dg.size,
         Cut(len), dg' = dg
  PROVE  PartsType' /\ PartsTile' /\ Upto(pos)'
<1>0. dg.size \in Nat /\ LoopStart(dg) \in Nat /\ pos \in Nat
  BY DatagramType, LoopStartInside DEF TypeOK
<1>1. Upto(pos) /\ PartsType /\ PartsTile BY DEF TilingOK
<1>2. pos' = pos + len /\ parts' = parts \cup {<<pos, pos + len>>} BY DEF Cut
<1>3. PartsType' BY <1>0, <1>1, <1>2 DEF PartsType
<1> DEFINE from == LoopStart(dg)
           new == <<pos, pos + len>>
<1>4. LoopStart(dg)' = from OBVIOUS
<1>5. new \in parts' /\ new[1] = pos /\ new[2] = pos + len BY <1>2
<1>6. \A p \in parts : p[1] \in Nat /\ p[2] \in Nat /\ p[2] <= pos /\ p[1] < p[2]
  BY <1>1 DEF Upto, PartsType, PartsTile, Tiles
<1>7. Upto(pos)'
  <2>1. from <= pos' BY <1>0, <1>1, <1>2 DEF Upto
  <2>2. \E q \in parts' : q[2] = pos' BY <1>2, <1>5
  <2>3. \A q \in parts' : q[2] <= pos' BY <1>0, <1>2, <1>5, <1>6
  <2> HIDE DEF from
  <2> QED BY <1>4, <2>1, <2>2, <2>3 DEF Upto
<1>8. Tiles(parts, from) /\ \A p \in parts : p[2] <= dg.size BY <1>1 DEF PartsTile
<1>9. pos = from \/ \E q \in parts : q[2] = pos BY <1>1 DEF Upto
<1> HIDE DEF from, new
<1>10. \A p \in parts' :
         p[1] < p[2] /\ (p[1] = from \/ \E q \in parts' : q[2] = p[1])
  <2> SUFFICES ASSUME NEW p \in parts'
               PROVE  p[1] < p[2] /\ (p[1] = from \/ \E q \in parts' : q[2] = p[1])
    OBVIOUS
  <2>1. CASE p \in parts BY <1>2, <1>8, <2>1 DEF Tiles
  <2>2. CASE p = new BY <1>0, <1>2, <1>5, <1>9, <2>2
  <2> QED BY <1>2, <2>1, <2>2 DEF new
<1>11. \A p, q \in parts' : p = q \/ p[2] <= q[1] \/ q[2] <= p[1]
  <2> SUFFICES ASSUME NEW p \in parts', NEW q \in parts'
               PROVE  p = q \/ p[2] <= q[1] \/ q[2] <= p[1]
    OBVIOUS
  <2>1. CASE p \in parts /\ q \in parts BY <1>8, <2>1 DEF Tiles
  <2>2. CASE p = new \/ q = new BY <1>2, <1>5, <1>6, <2>2 DEF new
  <2> QED BY <1>2, <2>1, <2>2 DEF new
<1>12. \A p \in parts' : p[2] <= dg.size BY <1>2, <1>5, <1>8 DEF new
<1>13. PartsTile' BY <1>4, <1>10, <1>11, <1>12 DEF PartsTile, Tiles
<1> QED BY <1>3, <1>7, <1>13

LEMMA TakeTiling ==
  ASSUME TypeOK, TilingOK,
         TakeRecord \/ \E len \in LengthWords : TakeSet(len) \/ TakeSample(len)
  PROVE  TilingOK'
<1>0. pos \in Nat /\ end \in Nat /\ end <= dg.size /\ LengthWords \subseteq Nat
  BY DatagramType, FramingAssumption DEF TypeOK
<1>1. \E n \in Nat : n > 0 /\ pos + n <= dg.size /\ Cut(n)
  <2>1. ASSUME TakeRecord
        PROVE  48 > 0 /\ pos + 48 <= dg.size /\ Cut(48)
    BY <1>0, <2>1, DatagramType DEF TakeRecord, TypeOK
  <2>2. ASSUME NEW len \in LengthWords, TakeSet(len)
        PROVE  len \in Nat /\ len > 0 /\ pos + len <= dg.size /\ Cut(len)
    BY <1>0, <2>2, DatagramType DEF TakeSet, SetFits, TypeOK
  <2>3. ASSUME NEW len \in LengthWords, TakeSample(len)
        PROVE  8 + len \in Nat /\ 8 + len > 0 /\ pos + (8 + len) <= dg.size /\ Cut(8 + len)
    BY <1>0, <2>3, DatagramType DEF TakeSample, TypeOK
  <2> QED BY <2>1, <2>2, <2>3
<1>2. stage \in {"records", "sets", "samples"} /\ stage' = stage /\ dg' = dg
  BY DEF TakeRecord, TakeSet, TakeSample
<1>3. PartsType' /\ PartsTile' /\ Upto(pos)' BY <1>1, <1>2, CutTiling
<1> QED BY <1>2, <1>3 DEF TilingOK

\* A step that only ends a reader, or only starts one.
LEMMA OtherTiling ==
  ASSUME TypeOK, TilingOK,
         \/ parts' = parts /\ stage' \notin {"header", "decode", "records", "sets", "samples"}
         \/ parts' = {} /\ stage' = "check"
         \/ parts' = parts /\ stage = "header" /\ stage' = "decode",
         dg' = dg
  PROVE  TilingOK'
<1>1. CASE parts' = parts BY <1>1 DEF TilingOK, PartsType, PartsTile
<1>2. CASE parts' = {} /\ stage' = "check" BY <1>2, EmptyTiling DEF TilingOK
<1> QED BY <1>1, <1>2

LEMMA StartTiling ==
  ASSUME TypeOK, TilingOK, StartDecode
  PROVE  TilingOK'
<1>1. parts = {} /\ parts' = parts /\ dg' = dg BY DEF StartDecode, TilingOK
<1>2. pos' = LoopStart(dg) /\ stage' # "header" /\ stage' # "decode"
  BY DEF StartDecode, Loop, version, probe_version
<1>3. LoopStart(dg) \in Nat BY DatagramType, LoopStartInside DEF TypeOK
<1>4. Upto(pos)' BY <1>1, <1>2, <1>3 DEF Upto
<1> QED BY <1>1, <1>2, <1>4, EmptyTiling DEF TilingOK

LEMMA TilingInductive == TypeOK /\ TilingOK /\ [Next]_vars => TilingOK'
<1> SUFFICES ASSUME TypeOK, TilingOK, [Next]_vars PROVE TilingOK' OBVIOUS
<1>1. CASE ParseHeader BY <1>1, OtherTiling DEF ParseHeader
<1>2. CASE Decode
  <2>1. CASE StartDecode BY <2>1, StartTiling
  <2>2. CASE RefuseDatagram \/ RecordTruncated \/ RecordsEnd \/ SetsEnd \/ SamplesEnd
    BY <2>2, OtherTiling
    DEF RefuseDatagram, RecordTruncated, RecordsEnd, SetsEnd, SamplesEnd, Answer
  <2>3. CASE \E len \in LengthWords : RefuseSets(len) \/ SampleTruncated(len)
    BY <2>3, OtherTiling DEF RefuseSets, SampleTruncated, Answer
  <2>4. CASE TakeRecord \/ \E len \in LengthWords : TakeSet(len) \/ TakeSample(len)
    BY <2>4, TakeTiling
  <2> QED BY <1>2, <2>1, <2>2, <2>3, <2>4 DEF Decode
<1>3. CASE WellFormed
  <2>1. parts' = parts /\ dg' = dg /\ stage' \in {"walk", "done"}
    BY <1>3 DEF WellFormed, StartCheck, WalkEnd, WalkSet, WalkOverrun, Conclude
  <2> QED BY <2>1, OtherTiling
<1>4. CASE Done \/ UNCHANGED vars
  BY <1>4 DEF Done, vars, TilingOK, PartsType, PartsTile, Upto
<1> QED BY <1>1, <1>2, <1>3, <1>4 DEF Next

\* No byte of a datagram is decoded twice, skipped or read from beyond its end
\* (v5::decode, split_flowsets, split_sets, sflow::decode).
THEOREM PartsTileTheDatagram == Spec => []PartsTile
<1>1. Spec => [](TypeOK /\ TilingOK)
  BY InitTypes, TypesInductive, InitTiling, TilingInductive, PTL DEF Spec
<1>2. TilingOK => PartsTile BY DEF TilingOK
<1> QED BY <1>1, <1>2, PTL

-----------------------------------------------------------------------------
(* Headers.                                                                *)

\* All bytes that parse_header reads are there.
Complete(d) == d.size >= ReadBytes(d)

LEMMA HeaderComplete ==
  ASSUME NEW d \in Datagrams
  PROVE  /\ parse_header(d).ok <=> Complete(d)
         /\ Complete(d) => parse_header(d).pos = ReadBytes(d)
         /\ probe_version(d) = "sflow5" => (sflow_header(d).ok <=> Complete(d))
         /\ probe_version(d) = "sflow5" => (validate_sflow(d).ok <=> Complete(d))
<1>1. d.size \in Nat /\ ReadBytes(d) \in Nat BY DatagramType, HeaderReads
<1>2. /\ parse_header(d).ok <=> Complete(d)
      /\ Complete(d) => parse_header(d).pos = ReadBytes(d)
  BY <1>1, HeaderReads DEF ReadUpTo, Complete
<1>3. ASSUME probe_version(d) = "sflow5"
      PROVE  sflow_header(d) = parse_header(d) /\ validate_sflow(d) = parse_header(d)
  BY <1>3, SflowReaders DEF parse_header
<1> QED BY <1>2, <1>3

\* What well_formed says of an sFlow datagram.
LEMMA SflowKind ==
  ASSUME NEW d \in Datagrams, probe_version(d) = "sflow5"
  PROVE  HeaderKind(d) # "none" /\ (HeaderKind(d) = "ok" <=> Complete(d))
<1>1. validate_sflow(d).ok <=> Complete(d) BY HeaderComplete
<1>2. HeaderKind(d) = IF validate_sflow(d).ok THEN "ok" ELSE "truncated"
  BY DEF HeaderKind
<1> QED BY <1>1, <1>2

\* Who has read the header so far agrees with parse_header about it.
HeadersOK ==
  /\ stage # "header" => (header <=> version # "none" /\ Complete(dg))
  /\ version = "sflow5" =>
       /\ stage \notin {"sets", "walk"}
       /\ stage \in {"records", "samples"} => Complete(dg)
       /\ stage \in {"check", "done"} => (Complete(dg) <=> verdict # "rejected")
       /\ stage = "done" => (Complete(dg) <=> wf = "ok")

LEMMA InitHeaders == ASSUME Init PROVE HeadersOK
BY DEF Init, HeadersOK

LEMMA StartHeaders ==
  ASSUME TypeOK, HeadersOK,
         ParseHeader \/ StartDecode \/ RefuseDatagram \/ StartCheck
  PROVE  HeadersOK'
<1>0. dg \in Datagrams /\ dg' = dg /\ version' = version
  BY DEF TypeOK, ParseHeader, StartDecode, RefuseDatagram, StartCheck, version
<1>1. CASE ParseHeader
  <2>1. header' <=> version # "none" /\ Complete(dg)
    BY <1>0, <1>1, HeaderComplete DEF ParseHeader
  <2>2. stage' = "decode" BY <1>1 DEF ParseHeader
  <2> QED BY <1>0, <2>1, <2>2 DEF HeadersOK
<1>2. CASE StartDecode
  <2>1. version = "sflow5" => Complete(dg) /\ stage' = "samples"
    BY <1>0, <1>2, HeaderComplete DEF StartDecode, HeaderAccepted, Loop, version
  <2>2. header' = header /\ verdict' = verdict /\ stage = "decode" BY <1>2 DEF StartDecode
  <2> QED BY <1>0, <2>1, <2>2 DEF HeadersOK
<1>3. CASE RefuseDatagram
  <2>1. version = "sflow5" => ~Complete(dg)
    BY <1>0, <1>3, HeaderComplete DEF RefuseDatagram, HeaderAccepted, version
  <2>2. header' = header /\ verdict' = "rejected" /\ stage = "decode" /\ stage' = "check"
    BY <1>3 DEF RefuseDatagram, Answer
  <2> QED BY <1>0, <2>1, <2>2 DEF HeadersOK
<1>4. CASE StartCheck
  <2>1. version = "sflow5" => stage' = "done" /\ (Complete(dg) <=> wf' = "ok")
    BY <1>0, <1>4, SflowKind DEF StartCheck, version
  <2>2. header' = header /\ verdict' = verdict /\ stage = "check"
    BY <1>4 DEF StartCheck
  <2> QED BY <1>0, <2>1, <2>2 DEF HeadersOK
<1> QED BY <1>1, <1>2, <1>3, <1>4

LEMMA OtherHeaders ==
  ASSUME TypeOK, HeadersOK,
         \/ TakeRecord \/ RecordTruncated \/ RecordsEnd \/ SetsEnd \/ SamplesEnd
         \/ WalkEnd \/ UNCHANGED vars
         \/ \E len \in LengthWords :
              \/ TakeSet(len) \/ RefuseSets(len) \/ TakeSample(len)
              \/ SampleTruncated(len) \/ WalkSet(len) \/ WalkOverrun(len)
  PROVE  HeadersOK'
<1>1. CASE TakeRecord \/ \E len \in LengthWords : TakeSet(len) \/ TakeSample(len) \/ WalkSet(len)
  BY <1>1 DEF TakeRecord, TakeSet, TakeSample, WalkSet, HeadersOK, version
<1>2. CASE RecordTruncated \/ RecordsEnd \/ SetsEnd \/ SamplesEnd
  BY <1>2 DEF RecordTruncated, RecordsEnd, SetsEnd, SamplesEnd, Answer, HeadersOK, version
<1>3. CASE \E len \in LengthWords : RefuseSets(len) \/ SampleTruncated(len) \/ WalkOverrun(len)
  BY <1>3 DEF RefuseSets, SampleTruncated, WalkOverrun, Answer, Conclude, HeadersOK, version
<1>4. CASE WalkEnd BY <1>4 DEF WalkEnd, Conclude, HeadersOK, version
<1>5. CASE UNCHANGED vars BY <1>5 DEF vars, HeadersOK, version
<1> QED BY <1>1, <1>2, <1>3, <1>4, <1>5

LEMMA HeadersInductive == TypeOK /\ HeadersOK /\ [Next]_vars => HeadersOK'
<1> SUFFICES ASSUME TypeOK, HeadersOK, [Next]_vars PROVE HeadersOK' OBVIOUS
<1>1. CASE ParseHeader \/ StartDecode \/ RefuseDatagram \/ StartCheck
  BY <1>1, StartHeaders
<1>2. CASE ~(ParseHeader \/ StartDecode \/ RefuseDatagram \/ StartCheck)
  BY <1>2, OtherHeaders DEF Next, Decode, WellFormed, Done
<1> QED BY <1>1, <1>2

-----------------------------------------------------------------------------
(* Triage.  A v5 datagram that is long enough is cut into all its records. *)

RecordAt(n) == <<24 + (n - 1) * 48, 24 + n * 48>>

Long == version = "5" /\ dg.size >= 24 + dg.count * 48

\* Records taken so far.
Count == dg.count - left

RecordsOK ==
  /\ version = "5" => /\ stage \notin {"sets", "samples", "walk"}
                      /\ stage = "done" /\ wf = "ok" => Long
  /\ Long =>
       /\ stage = "records" => /\ left <= dg.count /\ end = dg.size
                               /\ pos = 24 + Count * 48
                               /\ \A n \in 1 .. Count : RecordAt(n) \in parts
       /\ stage \in {"check", "done"} => /\ verdict = "clean"
                                        /\ \A n \in 1 .. dg.count : RecordAt(n) \in parts

-----------------------------------------------------------------------------
(* Sets.  The length words the decoder has read form a chain, which the    *)
(* walk of well_formed follows.                                            *)

First == ReadBytes(dg)

\* The datagrams whose sets both readers look for in the same bytes.
Filled ==
  /\ version \in {"9", "10"} /\ Complete(dg)
  /\ version = "10" => dg.declared = dg.size

\* A set was cut out at o, of the length its word says.
IsCut(o) ==
  /\ o + 4 <= dg.size /\ SetFits(words[o], dg.size - o)
  /\ <<o, o + words[o]>> \in parts

\* No set begins at o because there is no room for a set header.
AtTail(o) == dg.size - o < 4

WholeSets ==
  \A p \in parts : First <= p[1] /\ p[1] + 4 <= p[2]

\* While the decoder splits: the chain leads from the first set to the cursor.
SplitOK ==
  /\ end = dg.size /\ seen = {}
  /\ First \in DOMAIN words \cup {pos}
  /\ \A o \in DOMAIN words : IsCut(o) /\ o + words[o] \in DOMAIN words \cup {pos}

\* All sets were split: the chain leads to the tail, and the walk is on it.
CleanOK ==
  /\ First \in DOMAIN words \/ AtTail(First)
  /\ \A o \in DOMAIN words :
       IsCut(o) /\ (o + words[o] \in DOMAIN words \/ AtTail(o + words[o]))
  /\ stage = "check" => seen = {}
  /\ stage = "walk" =>
       /\ end = dg.size /\ (pos \in DOMAIN words \/ AtTail(pos))
       /\ seen = {p \in parts : p[2] <= pos}
  /\ stage = "done" /\ wf = "ok" => parts = seen /\ pos = dg.size

\* A set was refused: the chain ends in its word, and so does the walk.
RefusedOK ==
  /\ First \in DOMAIN words
  /\ \A o \in DOMAIN words :
       /\ o + 4 <= dg.size
       /\ SetFits(words[o], dg.size - o) => o + words[o] \in DOMAIN words
  /\ stage = "walk" => end = dg.size /\ pos \in DOMAIN words
  /\ stage = "done" => wf # "ok"

ChainOK ==
  /\ stage \notin {"records", "samples"} /\ WholeSets
  /\ stage \in {"header", "decode"} => DOMAIN words = {} /\ seen = {}
  /\ stage = "sets" => SplitOK
  /\ stage \in {"check", "walk", "done"} =>
       \/ verdict = "clean" /\ CleanOK
       \/ verdict = "rejected" /\ RefusedOK

SetsOK ==
  /\ version \in {"9", "10"} /\ (stage = "walk" \/ (stage = "done" /\ wf = "ok"))
       => Complete(dg)
  /\ Filled => ChainOK

TriageOK == RecordsOK /\ SetsOK

-----------------------------------------------------------------------------
(* Where the readers begin and what well_formed says of a header.          *)

LEMMA DatagramStays == ASSUME [Next]_vars PROVE dg' = dg
BY DEF Next, ParseHeader, Decode, StartDecode, RefuseDatagram, TakeRecord,
       RecordTruncated, RecordsEnd, TakeSet, RefuseSets, SetsEnd, TakeSample,
       SampleTruncated, SamplesEnd, WellFormed, StartCheck, WalkSet, WalkOverrun,
       WalkEnd, Done, vars

LEMMA CountFits == ASSUME NEW d \in Datagrams, probe_version(d) = "5" PROVE d.count < 65536
<1>1. d.lead = 5 BY DEF probe_version
<1> QED BY <1>1, FramingAssumption

LEMMA RecordsStart ==
  ASSUME NEW d \in Datagrams, probe_version(d) = "5", d.size >= 24
  PROVE  LoopStart(d) = 24
<1>1. d.size \in Nat BY DatagramType
<1>3. /\ Cursor(d.size) \in CursorType /\ Cursor(d.size).pos = 0
      /\ InBounds(Cursor(d.size), 24)
  BY <1>1 DEF Cursor, CursorType, InBounds, remaining
<1>4. Cursor(d.size) \odot Skip(24) =
        [size |-> Cursor(d.size).size, pos |-> Cursor(d.size).pos + 24,
         ok |-> Cursor(d.size).ok]
  BY <1>3, SkipIn
<1> QED BY <1>3, <1>4 DEF LoopStart

LEMMA SetsStart ==
  ASSUME NEW d \in Datagrams, probe_version(d) \in {"9", "10"}, Complete(d)
  PROVE  /\ LoopStart(d) = ReadBytes(d)
         /\ ReadBytes(d) = IF probe_version(d) = "9" THEN 20 ELSE 16
<1>1. d.size \in Nat BY DatagramType
<1> QED BY <1>1 DEF LoopStart, ReadBytes, HeaderBytes, Complete, SmallerOf

LEMMA RecordsKind ==
  ASSUME NEW d \in Datagrams, probe_version(d) = "5"
  PROVE  /\ HeaderKind(d) # "none"
         /\ HeaderKind(d) = "ok" => d.size >= 24 + d.count * 48
<1>1. d.size \in Nat /\ d.count \in Nat BY DatagramType
<1>2. d.size >= 24 => parse_header(d).ok
  BY <1>1, HeaderComplete DEF Complete, ReadBytes, HeaderBytes
<1>3. HeaderKind(d) = IF d.size < 24 THEN "truncated"
                      ELSE IF d.size < 24 + d.count * 48 THEN "short-record" ELSE "ok"
  <2>1. CASE d.size < 24 BY <1>1, <2>1 DEF HeaderKind
  <2>2. CASE d.size >= 24 BY <1>1, <1>2, <2>2 DEF HeaderKind
  <2> QED BY <1>1, <2>1, <2>2
<1> QED BY <1>1, <1>3

LEMMA SetsKind ==
  ASSUME NEW d \in Datagrams, probe_version(d) \in {"9", "10"}
  PROVE  /\ HeaderKind(d) # "ok"
         /\ HeaderKind(d) = "none" => Complete(d)
         /\ Complete(d) /\ (probe_version(d) = "10" => d.declared = d.size)
              => HeaderKind(d) = "none"
<1>1. d.size \in Nat /\ d.declared \in Nat BY DatagramType
<1>2. CASE probe_version(d) = "9"
  <2>1. ReadBytes(d) = 20 BY <1>2 DEF ReadBytes, HeaderBytes
  <2>2. HeaderKind(d) = IF d.size < 20 THEN "truncated" ELSE "none"
    BY <1>1, <1>2 DEF HeaderKind
  <2> QED BY <1>1, <1>2, <2>1, <2>2 DEF Complete
<1>3. CASE probe_version(d) = "10"
  <2>1. ReadBytes(d) = 16 BY <1>3 DEF ReadBytes, HeaderBytes
  <2>2. HeaderKind(d) = IF d.size < 16 THEN "truncated"
                        ELSE IF d.declared < 16 \/ d.declared > d.size THEN "bad-set"
                        ELSE "none"
    BY <1>1, <1>3 DEF HeaderKind
  <2> QED BY <1>1, <1>3, <2>1, <2>2 DEF Complete
<1> QED BY <1>2, <1>3

-----------------------------------------------------------------------------
(* Headers that are cut short.                                             *)

Short(d) == d.size < HeaderBytes(d)

\* Only a v5 header may be cut short and still hold all that parse_header reads.
LEMMA ShortVersions ==
  ASSUME NEW d \in Datagrams, probe_version(d) # "none"
  PROVE  /\ ~Complete(d) => Short(d)
         /\ Short(d) /\ Complete(d) => probe_version(d) = "5"
         /\ probe_version(d) = "5" => (Short(d) <=> d.size < 24)
         /\ probe_version(d) = "9" => (Short(d) <=> d.size < 20)
         /\ probe_version(d) = "10" => (Short(d) <=> d.size < 16)
         /\ probe_version(d) # "5" => (Short(d) <=> ~Complete(d))
<1>1. d.size \in Nat /\ Agent(d) \in Nat BY DatagramType
<1> QED BY <1>1 DEF Short, Complete, ReadBytes, HeaderBytes

LEMMA Versions ==
  ASSUME NEW d PROVE probe_version(d) \in {"none", "5", "9", "10", "sflow5"}
BY DEF probe_version

\* Triage calls a header truncated exactly when bytes of it are missing.
LEMMA ShortKind ==
  ASSUME NEW d \in Datagrams, probe_version(d) # "none"
  PROVE  HeaderKind(d) = "truncated" <=> Short(d)
<1>1. d.size \in Nat /\ d.count \in Nat BY DatagramType
<1>2. CASE probe_version(d) = "5"
  <2>1. Short(d) <=> d.size < 24 BY <1>2, ShortVersions
  <2>2. d.size >= 24 => parse_header(d).ok
    BY <1>1, <1>2, HeaderComplete DEF Complete, ReadBytes, HeaderBytes
  <2>3. CASE d.size < 24 BY <1>1, <1>2, <2>1, <2>3 DEF HeaderKind
  <2>4. CASE d.size >= 24 BY <1>1, <1>2, <2>1, <2>2, <2>4 DEF HeaderKind
  <2> QED BY <1>1, <2>3, <2>4
<1>3. CASE probe_version(d) = "9"
  <2>1. Short(d) <=> d.size < 20 BY <1>3, ShortVersions
  <2> QED BY <1>1, <1>3, <2>1 DEF HeaderKind
<1>4. CASE probe_version(d) = "10"
  <2>1. Short(d) <=> d.size < 16 BY <1>4, ShortVersions
  <2> QED BY <1>1, <1>4, <2>1 DEF HeaderKind
<1>5. CASE probe_version(d) = "sflow5"
  <2>1. Short(d) <=> ~validate_sflow(d).ok BY <1>5, ShortVersions, HeaderComplete
  <2> QED BY <1>5, <2>1 DEF HeaderKind
<1> QED BY <1>2, <1>3, <1>4, <1>5, Versions

\* With a whole header the loop begins where the header ends.
LEMMA WholeStart ==
  ASSUME NEW d \in Datagrams, probe_version(d) # "none", ~Short(d)
  PROVE  LoopStart(d) = HeaderBytes(d)
<1>1. d.size \in Nat /\ Agent(d) \in Nat BY DatagramType
<1>2. CASE probe_version(d) = "5"
  <2>1. d.size >= 24 BY <1>1, <1>2, ShortVersions
  <2> QED BY <1>2, <2>1, RecordsStart DEF HeaderBytes
<1>3. CASE probe_version(d) \in {"9", "10"}
  <2>1. Complete(d) BY <1>3, ShortVersions
  <2> QED BY <1>3, <2>1, SetsStart DEF HeaderBytes
<1>4. CASE probe_version(d) = "sflow5"
  <2>1. Complete(d) BY <1>4, ShortVersions
  <2>2. parse_header(d).pos = HeaderBytes(d) BY <1>4, <2>1, HeaderComplete DEF ReadBytes
  <2>3. sflow_header(d) = parse_header(d) BY <1>4, SflowReaders DEF parse_header
  <2> QED BY <1>4, <2>2, <2>3 DEF LoopStart
<1> QED BY <1>2, <1>3, <1>4, Versions

CutVerdict ==
  IF ~Complete(dg) THEN "rejected" ELSE IF dg.count = 0 THEN "clean" ELSE "truncated"

\* Only a v5 decoder starts on a cut header, and it has no room for a record.
CutOK ==
  version # "none" /\ Short(dg) =>
    /\ parts = {} /\ stage \notin {"sets", "samples", "walk"}
    /\ stage = "records" =>
         version = "5" /\ Complete(dg) /\ end = dg.size /\ left = dg.count
    /\ stage \in {"check", "done"} => verdict = CutVerdict
    /\ stage = "done" => wf = "truncated"

LEMMA InitCut == ASSUME Init PROVE CutOK
BY DEF Init, CutOK

LEMMA CutInductive == TypeOK /\ HeadersOK /\ CutOK /\ [Next]_vars => CutOK'
<1> SUFFICES ASSUME TypeOK, HeadersOK, CutOK, [Next]_vars PROVE CutOK' OBVIOUS
<1> SUFFICES ASSUME version # "none", Short(dg) PROVE CutOK'
  <2>1. dg' = dg BY DatagramStays
  <2>2. version' = version /\ (Short(dg)' <=> Short(dg)) BY <2>1 DEF version
  <2> QED BY <2>2 DEF CutOK
<1>0. dg' = dg /\ version' = version /\ CutVerdict' = CutVerdict
  BY DatagramStays DEF version, CutVerdict
<1>00. dg \in Datagrams /\ dg.size \in Nat /\ dg.count \in Nat /\ pos \in Nat
  BY DatagramType DEF TypeOK
<1>1. /\ parts = {} /\ stage \notin {"sets", "samples", "walk"}
      /\ stage = "records" =>
           version = "5" /\ Complete(dg) /\ end = dg.size /\ left = dg.count
      /\ stage \in {"check", "done"} => verdict = CutVerdict
      /\ stage = "done" => wf = "truncated"
  BY DEF CutOK
<1>2. CASE ParseHeader BY <1>0, <1>1, <1>2 DEF ParseHeader, CutOK
<1>3. CASE StartDecode
  <2>1. stage = "decode" /\ HeaderAccepted BY <1>3 DEF StartDecode
  <2>2. Complete(dg)
    BY <1>00, <2>1, HeaderComplete DEF HeaderAccepted, HeadersOK, version
  <2>3. version = "5" BY <1>00, <2>2, ShortVersions DEF version
  <2>4. dg.count < 65536 BY <1>00, <2>3, CountFits DEF version
  <2>5. /\ stage' = "records" /\ end' = dg.size /\ left' = dg.count /\ parts' = parts
    BY <1>00, <1>3, <2>3, <2>4 DEF StartDecode, Loop, SmallerOf
  <2> QED BY <1>0, <1>1, <2>2, <2>3, <2>5 DEF CutOK
<1>4. CASE RefuseDatagram
  <2>1. ~HeaderAccepted /\ stage = "decode" BY <1>4 DEF RefuseDatagram
  <2>2. ~Complete(dg)
    BY <1>00, <2>1, HeaderComplete DEF HeaderAccepted, HeadersOK, version
  <2>3. stage' = "check" /\ verdict' = "rejected" /\ parts' = parts
    BY <1>4 DEF RefuseDatagram, Answer
  <2> QED BY <1>0, <1>1, <2>2, <2>3 DEF CutOK, CutVerdict
<1>5. CASE TakeRecord
  <2>1. stage = "records" /\ pos + 48 <= end BY <1>5 DEF TakeRecord
  <2>2. dg.size < 24 /\ end = dg.size BY <1>00, <1>1, <2>1, ShortVersions DEF version
  <2> QED BY <1>00, <2>1, <2>2
<1>6. CASE RecordTruncated
  <2>1. /\ stage = "records" /\ left > 0 /\ stage' = "check" /\ verdict' = "truncated"
        /\ parts' = parts
    BY <1>6 DEF RecordTruncated, Answer
  <2>2. CutVerdict = "truncated" BY <1>00, <1>1, <2>1 DEF CutVerdict
  <2> QED BY <1>0, <1>1, <2>1, <2>2 DEF CutOK
<1>7. CASE RecordsEnd
  <2>1. /\ stage = "records" /\ left = 0 /\ stage' = "check" /\ verdict' = "clean"
        /\ parts' = parts
    BY <1>7 DEF RecordsEnd, Answer
  <2>2. CutVerdict = "clean" BY <1>1, <2>1 DEF CutVerdict
  <2> QED BY <1>0, <1>1, <2>1, <2>2 DEF CutOK
<1>8. CASE StartCheck
  <2>1. HeaderKind(dg) = "truncated" BY <1>00, ShortKind DEF version
  <2>2. /\ stage = "check" /\ stage' = "done" /\ wf' = "truncated"
        /\ parts' = parts /\ verdict' = verdict
    BY <1>8, <2>1 DEF StartCheck
  <2> QED BY <1>0, <1>1, <2>2 DEF CutOK
<1>9. CASE \/ SetsEnd \/ SamplesEnd \/ WalkEnd
           \/ \E len \in LengthWords :
                \/ TakeSet(len) \/ RefuseSets(len) \/ TakeSample(len)
                \/ SampleTruncated(len) \/ WalkSet(len) \/ WalkOverrun(len)
  <2>1. stage \in {"sets", "samples", "walk"}
    BY <1>9 DEF SetsEnd, SamplesEnd, WalkEnd, TakeSet, RefuseSets, TakeSample,
                SampleTruncated, WalkSet, WalkOverrun
  <2> QED BY <1>1, <2>1
<1>10. CASE Done \/ UNCHANGED vars BY <1>0, <1>1, <1>10 DEF Done, vars, CutOK
<1> QED BY <1>2, <1>3, <1>4, <1>5, <1>6, <1>7, <1>8, <1>9, <1>10
        DEF Next, Decode, WellFormed

\* A datagram that ends inside its header yields nothing and is called truncated by
\* well_formed; parse_header and the decoders refuse it too, but for the v5 headers
\* of 22 and 23 bytes, of which it is said what they lead to.
THEOREM CutHeadersAreNoticed == Spec => []CutHeadersYieldNothing
<1>1. Spec => [](TypeOK /\ HeadersOK /\ CutOK)
  BY InitTypes, TypesInductive, InitHeaders, HeadersInductive, InitCut, CutInductive, PTL
  DEF Spec
<1>2. TypeOK /\ HeadersOK /\ CutOK => CutHeadersYieldNothing
  <2> SUFFICES ASSUME TypeOK, HeadersOK, CutOK, stage = "done", version # "none"
               PROVE  CutHeadersYieldNothing
    BY DEF CutHeadersYieldNothing
  <2>1. dg \in Datagrams /\ dg.size \in Nat /\ HeaderBytes(dg) \in Nat
    BY DatagramType DEF TypeOK, HeaderBytes
  <2>2. (dg.size >= HeaderBytes(dg)) <=> ~Short(dg) BY <2>1 DEF Short
  <2>3. header <=> Complete(dg) BY DEF HeadersOK
  <2>4. Short(dg) => parts = {} /\ wf = "truncated" /\ verdict = CutVerdict BY DEF CutOK
  <2>5. ~Short(dg) => LoopStart(dg) = HeaderBytes(dg) /\ HeaderKind(dg) # "truncated"
    BY <2>1, WholeStart, ShortKind DEF version
  <2>6. Complete(dg) => parse_header(dg).pos = ReadBytes(dg) BY <2>1, HeaderComplete
  <2>7. ~Complete(dg) => Short(dg) BY <2>1, ShortVersions DEF version
  <2>8. version = "sflow5" /\ ~Short(dg) => verdict # "rejected" /\ wf = "ok"
    BY <2>7 DEF HeadersOK
  <2>9. ~header => verdict = "rejected" BY <2>3, <2>4, <2>7 DEF CutVerdict
  <2>10. header /\ Short(dg) => verdict = IF dg.count = 0 THEN "clean" ELSE "truncated"
    BY <2>3, <2>4 DEF CutVerdict
  <2>11. header <=> dg.size >= ReadBytes(dg) BY <2>3 DEF Complete
  <2> QED BY <2>2, <2>3, <2>4, <2>5, <2>6, <2>8, <2>9, <2>10, <2>11
          DEF CutHeadersYieldNothing
<1> QED BY <1>1, <1>2, PTL

-----------------------------------------------------------------------------
(* The records of a v5 datagram.                                           *)

LEMMA RecordsStep ==
  ASSUME TypeOK, HeadersOK, RecordsOK, Next, version = "5"
  PROVE  RecordsOK'
<1>0. /\ dg \in Datagrams /\ dg.size \in Nat /\ dg.count \in Nat /\ left \in Nat
      /\ pos \in Nat /\ dg.count < 65536
  BY DatagramType, CountFits DEF TypeOK, version
<1>00. dg' = dg BY DatagramStays
<1>01. version' = version /\ (Long' <=> Long) BY <1>00 DEF version, Long
<1> HIDE DEF Long
<1>1. CASE ParseHeader
  BY <1>00, <1>01, <1>1 DEF ParseHeader, RecordsOK
<1>2. CASE StartDecode
  <2>1. stage' = "records" BY <1>2 DEF StartDecode, Loop
  <2>2. end' = dg.size /\ left' = dg.count /\ parts' = parts
    BY <1>0, <1>2 DEF StartDecode, SmallerOf
  <2>3. Long => pos' = 24
    BY <1>0, <1>2, RecordsStart DEF StartDecode, Long, version
  <2>4. Count' = 0 BY <1>0, <1>00, <2>2 DEF Count
  <2> QED BY <1>0, <1>00, <1>01, <2>1, <2>2, <2>3, <2>4 DEF RecordsOK
<1>3. CASE RefuseDatagram
  <2>1. stage = "decode" /\ stage' = "check" /\ ~header
    BY <1>3 DEF RefuseDatagram, Answer, HeaderAccepted
  <2>2. ~Complete(dg) BY <2>1 DEF HeadersOK
  <2>3. ~Long BY <1>0, <2>2 DEF Complete, ReadBytes, HeaderBytes, Long, version
  <2> QED BY <1>01, <2>1, <2>3 DEF RecordsOK
<1>4. CASE TakeRecord
  <2>1. /\ stage = "records" /\ stage' = stage /\ left > 0 /\ left' = left - 1
        /\ pos' = pos + 48 /\ parts' = parts \cup {<<pos, pos + 48>>} /\ end' = end
    BY <1>4 DEF TakeRecord, Cut
  <2>2. Count' = Count + 1 /\ Count \in Int BY <1>0, <1>00, <2>1 DEF Count
  <2>3. ASSUME Long
        PROVE  /\ left' <= dg.count /\ end' = dg.size /\ pos' = 24 + Count' * 48
               /\ \A n \in 1 .. Count' : RecordAt(n) \in parts'
    <3>1. /\ left <= dg.count /\ end = dg.size /\ pos = 24 + Count * 48
          /\ \A n \in 1 .. Count : RecordAt(n) \in parts
      BY <2>1, <2>3 DEF RecordsOK
    <3>2. RecordAt(Count + 1) = <<pos, pos + 48>> BY <2>2, <3>1 DEF RecordAt
    <3>3. ASSUME NEW n \in 1 .. Count' PROVE RecordAt(n) \in parts'
      <4>1. CASE n = Count + 1 BY <2>1, <3>2, <4>1
      <4>2. CASE n # Count + 1
        <5>1. n \in 1 .. Count BY <2>2, <4>2
        <5> QED BY <2>1, <3>1, <5>1
      <4> QED BY <4>1, <4>2
    <3>4. left' <= dg.count /\ end' = dg.size /\ pos' = 24 + Count' * 48
      BY <1>0, <2>1, <2>2, <3>1
    <3> QED BY <3>3, <3>4
  <2> QED BY <1>00, <1>01, <2>1, <2>3 DEF RecordsOK, RecordAt
<1>5. CASE RecordTruncated
  <2>1. stage = "records" /\ stage' = "check" /\ left > 0 /\ pos + 48 > end
    BY <1>5 DEF RecordTruncated, Answer
  <2>2. ~Long BY <1>0, <2>1 DEF RecordsOK, Long, Count
  <2> QED BY <1>01, <2>1, <2>2 DEF RecordsOK
<1>6. CASE RecordsEnd
  <2>1. /\ stage = "records" /\ stage' = "check" /\ left = 0 /\ verdict' = "clean"
        /\ parts' = parts
    BY <1>6 DEF RecordsEnd, Answer
  <2>2. Count = dg.count BY <1>0, <2>1 DEF Count
  <2> QED BY <1>00, <1>01, <2>1, <2>2 DEF RecordsOK, RecordAt
<1>7. CASE StartCheck
  <2>1. /\ stage = "check" /\ stage' = "done" /\ wf' = HeaderKind(dg)
        /\ verdict' = verdict /\ parts' = parts
    BY <1>0, <1>7, RecordsKind DEF StartCheck, version
  <2>2. HeaderKind(dg) = "ok" => dg.size >= 24 + dg.count * 48
    BY <1>0, RecordsKind DEF version
  <2>3. wf' = "ok" => Long BY <2>1, <2>2 DEF Long
  <2> QED BY <1>00, <1>01, <2>1, <2>3 DEF RecordsOK, RecordAt
<1>8. CASE Done
  BY <1>00, <1>01, <1>8 DEF Done, vars, RecordsOK, Count, RecordAt
<1>9. CASE \/ SetsEnd \/ SamplesEnd \/ WalkEnd
           \/ \E len \in LengthWords :
                \/ TakeSet(len) \/ RefuseSets(len) \/ TakeSample(len)
                \/ SampleTruncated(len) \/ WalkSet(len) \/ WalkOverrun(len)
  <2>1. stage \in {"sets", "samples", "walk"}
    BY <1>9 DEF SetsEnd, SamplesEnd, WalkEnd, TakeSet, RefuseSets, TakeSample,
                SampleTruncated, WalkSet, WalkOverrun
  <2> QED BY <2>1 DEF RecordsOK
<1> QED BY <1>1, <1>2, <1>3, <1>4, <1>5, <1>6, <1>7, <1>8, <1>9
        DEF Next, Decode, WellFormed

-----------------------------------------------------------------------------
(* The sets of a v9 datagram or an IPFIX message.                          *)

LEMMA FirstFacts ==
  ASSUME TypeOK, Filled
  PROVE  /\ First \in Nat /\ First <= dg.size /\ dg.size \in Nat /\ pos \in Nat
         /\ First = LoopStart(dg) /\ First = WalkStart
<1>1. dg \in Datagrams /\ dg.size \in Nat /\ pos \in Nat BY DatagramType DEF TypeOK
<1>2. First = LoopStart(dg) /\ First = WalkStart
  BY <1>1, SetsStart DEF Filled, First, WalkStart, version
<1> QED BY <1>1, <1>2, HeaderReads DEF Filled, Complete, First

\* A word that was read before is read again, and nothing changes.
LEMMA WordAgain ==
  ASSUME TypeOK, NEW o \in DOMAIN words, NEW len, WordAt(o, len)
  PROVE  len = words[o] /\ words' = words
<1>1. len = words[o] BY DEF WordAt
<1>2. words \in [DOMAIN words -> LengthWords] BY DEF TypeOK
<1> QED BY <1>1, <1>2 DEF WordAt

LEMMA WordFacts ==
  ASSUME TypeOK, NEW o, NEW len, WordAt(o, len)
  PROVE  /\ DOMAIN words' = DOMAIN words \cup {o} /\ words'[o] = len
         /\ \A x \in DOMAIN words : words'[x] = words[x]
BY DEF WordAt

LEMMA WordNumbers ==
  ASSUME TypeOK
  PROVE  \A o \in DOMAIN words : o \in Nat /\ words[o] \in Nat
BY FramingAssumption DEF TypeOK

LEMMA SplitStep ==
  ASSUME TypeOK, TilingOK, Filled, ChainOK, NEW len \in LengthWords, TakeSet(len)
  PROVE  ChainOK'
<1>1. /\ stage = "sets" /\ stage' = stage /\ dg' = dg /\ end' = end /\ seen' = seen
      /\ WordAt(pos, len) /\ SetFits(len, end - pos) /\ end - pos >= 4
      /\ pos' = pos + len /\ parts' = parts \cup {<<pos, pos + len>>}
  BY DEF TakeSet, Cut
<1>2. SplitOK /\ WholeSets BY <1>1 DEF ChainOK
<1>3. First \in Nat /\ dg.size \in Nat /\ pos \in Nat /\ First <= pos
  BY <1>1, FirstFacts DEF TilingOK, Upto
<1>4. len \in Nat /\ len >= 4 BY <1>1, FramingAssumption DEF SetFits
<1>5. First' = First /\ dg.size' = dg.size BY <1>1 DEF First
<1>6. /\ DOMAIN words' = DOMAIN words \cup {pos} /\ words'[pos] = len
      /\ \A x \in DOMAIN words : words'[x] = words[x]
  BY <1>1, WordFacts
<1>7. WholeSets'
  <2>1. \A p \in parts' : First <= p[1] /\ p[1] + 4 <= p[2]
    BY <1>1, <1>2, <1>3, <1>4 DEF WholeSets
  <2> QED BY <1>5, <2>1 DEF WholeSets
<1>8. ASSUME NEW o \in DOMAIN words'
      PROVE  IsCut(o)' /\ o + words'[o] \in DOMAIN words' \cup {pos'}
  <2>1. CASE o = pos
    <3>1. o + 4 <= dg.size /\ SetFits(words'[o], dg.size - o)
      BY <1>1, <1>2, <1>3, <1>6, <2>1 DEF SplitOK
    <3>2. <<o, o + words'[o]>> \in parts' BY <1>1, <1>6, <2>1
    <3> QED BY <1>1, <1>5, <1>6, <2>1, <3>1, <3>2 DEF IsCut
  <2>2. CASE o # pos
    <3>1. o \in DOMAIN words /\ words'[o] = words[o] BY <1>6, <2>2
    <3>2. IsCut(o) /\ o + words[o] \in DOMAIN words \cup {pos} BY <1>2, <3>1 DEF SplitOK
    <3> QED BY <1>1, <1>5, <1>6, <3>1, <3>2 DEF IsCut
  <2> QED BY <2>1, <2>2
<1>9. SplitOK'
  BY <1>1, <1>2, <1>5, <1>6, <1>8 DEF SplitOK
<1> QED BY <1>1, <1>7, <1>9 DEF ChainOK

LEMMA SplitEnds ==
  ASSUME TypeOK, TilingOK, Filled, ChainOK,
         SetsEnd \/ \E len \in LengthWords : RefuseSets(len)
  PROVE  ChainOK'
<1>1. stage = "sets" /\ stage' = "check" /\ dg' = dg /\ seen' = seen
  BY DEF SetsEnd, RefuseSets, Answer
<1>2. SplitOK /\ WholeSets BY <1>1 DEF ChainOK
<1>3. First' = First /\ dg.size' = dg.size BY <1>1 DEF First
<1>4. First \in Nat /\ dg.size \in Nat /\ pos \in Nat BY FirstFacts
<1>5. CASE SetsEnd
  <2>1. verdict' = "clean" /\ words' = words /\ parts' = parts /\ end - pos < 4
    BY <1>5 DEF SetsEnd, Answer
  <2>2. AtTail(pos) BY <1>2, <2>1 DEF SplitOK, AtTail
  <2>3. First \in DOMAIN words \/ AtTail(First) BY <1>2, <2>2 DEF SplitOK
  <2>4. \A o \in DOMAIN words :
          IsCut(o) /\ (o + words[o] \in DOMAIN words \/ AtTail(o + words[o]))
    BY <1>2, <2>2 DEF SplitOK
  <2>5. CleanOK'
    BY <1>1, <1>2, <1>3, <2>1, <2>3, <2>4 DEF CleanOK, IsCut, AtTail, SplitOK
  <2>6. WholeSets' BY <1>2, <1>3, <2>1 DEF WholeSets
  <2> QED BY <1>1, <2>1, <2>5, <2>6 DEF ChainOK
<1>6. ASSUME NEW len \in LengthWords, RefuseSets(len) PROVE ChainOK'
  <2>1. /\ verdict' = "rejected" /\ parts' = {} /\ WordAt(pos, len)
        /\ end - pos >= 4 /\ ~SetFits(len, end - pos)
    BY <1>6 DEF RefuseSets, Answer
  <2>2. /\ DOMAIN words' = DOMAIN words \cup {pos} /\ words'[pos] = len
        /\ \A x \in DOMAIN words : words'[x] = words[x]
    BY <2>1, WordFacts
  <2>3. First \in DOMAIN words' BY <1>2, <2>2 DEF SplitOK
  <2>4. ASSUME NEW o \in DOMAIN words'
        PROVE  /\ o + 4 <= dg.size
               /\ SetFits(words'[o], dg.size - o) => o + words'[o] \in DOMAIN words'
    <3>1. CASE o = pos BY <1>2, <1>4, <2>1, <2>2, <3>1 DEF SplitOK
    <3>2. CASE o # pos BY <1>2, <2>2, <3>2 DEF SplitOK, IsCut
    <3> QED BY <3>1, <3>2
  <2>5. RefusedOK' BY <1>1, <1>3, <2>3, <2>4 DEF RefusedOK
  <2>6. WholeSets' BY <2>1 DEF WholeSets
  <2> QED BY <1>1, <2>1, <2>5, <2>6 DEF ChainOK
<1> QED BY <1>5, <1>6

LEMMA WalkBegins ==
  ASSUME TypeOK, TilingOK, Filled, ChainOK, StartCheck
  PROVE  ChainOK'
<1>1. dg \in Datagrams BY DEF TypeOK
<1>2. HeaderKind(dg) = "none" BY <1>1, SetsKind DEF Filled, version
<1>3. /\ stage = "check" /\ stage' = "walk" /\ dg' = dg /\ pos' = WalkStart
      /\ words' = words /\ parts' = parts /\ seen' = seen /\ verdict' = verdict
      /\ end' = dg.size
  BY <1>2 DEF StartCheck, Filled
<1>4. First' = First /\ dg.size' = dg.size /\ First = WalkStart /\ First \in Nat
  BY <1>3, FirstFacts DEF First
<1>5. WholeSets /\ WholeSets' BY <1>3, <1>4 DEF ChainOK, WholeSets
<1>6. {p \in parts : p[2] <= First} = {}
  <2>1. \A p \in parts : p[1] \in Nat /\ p[2] \in Nat BY DEF TilingOK, PartsType
  <2> QED BY <1>4, <1>5, <2>1 DEF WholeSets
<1>7. CASE verdict = "clean" /\ CleanOK
  <2>1. CleanOK' BY <1>3, <1>4, <1>6, <1>7 DEF CleanOK, IsCut, AtTail
  <2> QED BY <1>3, <1>5, <1>7, <2>1 DEF ChainOK
<1>8. CASE verdict = "rejected" /\ RefusedOK
  <2>1. RefusedOK' BY <1>3, <1>4, <1>8 DEF RefusedOK
  <2> QED BY <1>3, <1>5, <1>8, <2>1 DEF ChainOK
<1> QED BY <1>3, <1>7, <1>8 DEF ChainOK

\* The walk takes the set the decoder cut out at the same offset.
LEMMA WalkGoesOn ==
  ASSUME TypeOK, TilingOK, Filled, ChainOK, NEW len \in LengthWords, WalkSet(len)
  PROVE  ChainOK'
<1>1. /\ stage = "walk" /\ stage' = stage /\ dg' = dg /\ end' = end /\ parts' = parts
      /\ verdict' = verdict /\ WordAt(pos, len) /\ end - pos >= 4
      /\ len >= 4 /\ len <= end - pos
      /\ pos' = pos + len /\ seen' = seen \cup {<<pos, pos + len>>}
  BY DEF WalkSet
<1>2. First' = First /\ dg.size' = dg.size BY <1>1 DEF First
<1>3. First \in Nat /\ dg.size \in Nat /\ pos \in Nat /\ len \in Nat
  BY FirstFacts, FramingAssumption
<1>4. WholeSets /\ WholeSets' BY <1>1, <1>2 DEF ChainOK, WholeSets
<1>5. CASE verdict = "clean" /\ CleanOK
  <2>1. /\ end = dg.size /\ (pos \in DOMAIN words \/ AtTail(pos))
        /\ seen = {p \in parts : p[2] <= pos}
    BY <1>1, <1>5 DEF CleanOK
  <2>2. pos \in DOMAIN words BY <1>1, <1>3, <2>1 DEF AtTail
  <2>3. len = words[pos] /\ words' = words BY <1>1, <2>2, WordAgain
  <2> DEFINE new == <<pos, pos + len>>
  <2>4. new \in parts BY <1>5, <2>2, <2>3 DEF CleanOK, IsCut
  <2>5. new[1] = pos /\ new[2] = pos + len OBVIOUS
  <2> HIDE DEF new
  <2>6. seen' = {p \in parts : p[2] <= pos + len}
    <3>1. ASSUME NEW p \in parts PROVE p[2] <= pos + len <=> p = new \/ p[2] <= pos
      <4>1. p[1] \in Nat /\ p[2] \in Nat /\ p[1] < p[2]
        BY DEF TilingOK, PartsType, PartsTile, Tiles
      <4>2. p = new \/ p[2] <= pos \/ pos + len <= p[1]
        BY <2>4, <2>5 DEF TilingOK, PartsTile, Tiles
      <4> QED BY <1>3, <2>5, <4>1, <4>2
    <3>2. seen' = seen \cup {new} BY <1>1 DEF new
    <3> QED BY <2>1, <2>4, <3>1, <3>2
  <2>7. pos' \in DOMAIN words \/ AtTail(pos') BY <1>1, <1>5, <2>2, <2>3 DEF CleanOK
  <2>8. CleanOK'
    BY <1>1, <1>2, <1>5, <2>1, <2>3, <2>6, <2>7 DEF CleanOK, IsCut, AtTail
  <2> QED BY <1>1, <1>4, <1>5, <2>8 DEF ChainOK
<1>6. CASE verdict = "rejected" /\ RefusedOK
  <2>1. end = dg.size /\ pos \in DOMAIN words BY <1>1, <1>6 DEF RefusedOK
  <2>2. len = words[pos] /\ words' = words BY <1>1, <2>1, WordAgain
  <2>3. pos' \in DOMAIN words BY <1>1, <1>6, <2>1, <2>2 DEF RefusedOK, SetFits
  <2>4. RefusedOK' BY <1>1, <1>2, <1>6, <2>1, <2>2, <2>3 DEF RefusedOK
  <2> QED BY <1>1, <1>4, <1>6, <2>4 DEF ChainOK
<1> QED BY <1>1, <1>5, <1>6 DEF ChainOK

LEMMA WalkOverruns ==
  ASSUME TypeOK, TilingOK, Filled, ChainOK, NEW len \in LengthWords, WalkOverrun(len)
  PROVE  ChainOK'
<1>1. /\ stage = "walk" /\ stage' = "done" /\ wf' = "bad-set" /\ dg' = dg
      /\ parts' = parts /\ verdict' = verdict /\ seen' = seen /\ WordAt(pos, len)
      /\ end - pos >= 4
  BY DEF WalkOverrun, Conclude
<1>2. First' = First /\ dg.size' = dg.size BY <1>1 DEF First
<1>3. dg.size \in Nat /\ pos \in Nat BY FirstFacts
<1>4. WholeSets' BY <1>1, <1>2 DEF ChainOK, WholeSets
<1>5. pos \in DOMAIN words
  BY <1>1, <1>3 DEF ChainOK, CleanOK, RefusedOK, AtTail
<1>6. words' = words BY <1>1, <1>5, WordAgain
<1>7. CASE verdict = "clean" /\ CleanOK
  <2>1. CleanOK' BY <1>1, <1>2, <1>6, <1>7 DEF CleanOK, IsCut, AtTail
  <2> QED BY <1>1, <1>4, <1>7, <2>1 DEF ChainOK
<1>8. CASE verdict = "rejected" /\ RefusedOK
  <2>1. RefusedOK' BY <1>1, <1>2, <1>6, <1>8 DEF RefusedOK
  <2> QED BY <1>1, <1>4, <1>8, <2>1 DEF ChainOK
<1> QED BY <1>1, <1>7, <1>8 DEF ChainOK

\* Where the walk runs out of sets, so did the decoder.
LEMMA WalkEnds ==
  ASSUME TypeOK, TilingOK, Filled, ChainOK, WalkEnd
  PROVE  ChainOK'
<1>1. /\ stage = "walk" /\ stage' = "done" /\ dg' = dg /\ parts' = parts
      /\ verdict' = verdict /\ seen' = seen /\ words' = words /\ pos' = pos
      /\ end - pos < 4 /\ (wf' = "ok" => pos = end)
  BY DEF WalkEnd, Conclude
<1>2. First' = First /\ dg.size' = dg.size BY <1>1 DEF First
<1>3. First \in Nat /\ dg.size \in Nat /\ pos \in Nat BY FirstFacts
<1>4. WholeSets /\ WholeSets' BY <1>1, <1>2 DEF ChainOK, WholeSets
<1>5. CASE verdict = "clean" /\ CleanOK
  <2>1. end = dg.size /\ seen = {p \in parts : p[2] <= pos}
    BY <1>1, <1>5 DEF CleanOK
  <2>2. ASSUME NEW p \in parts, pos = dg.size PROVE p[2] <= pos
    BY <2>2 DEF TilingOK, PartsTile
  <2>3. pos = dg.size => parts = seen BY <2>1, <2>2
  <2>4. CleanOK' BY <1>1, <1>2, <1>5, <2>1, <2>3 DEF CleanOK, IsCut, AtTail
  <2> QED BY <1>1, <1>4, <1>5, <2>4 DEF ChainOK
<1>6. CASE verdict = "rejected" /\ RefusedOK
  <2>1. end = dg.size /\ pos + 4 <= dg.size BY <1>1, <1>6 DEF RefusedOK
  <2> QED BY <1>1, <1>3, <2>1
<1> QED BY <1>1, <1>5, <1>6 DEF ChainOK

LEMMA ChainStep ==
  ASSUME TypeOK, TilingOK, HeadersOK, Filled, ChainOK, Next
  PROVE  ChainOK'
<1>1. CASE ParseHeader
  BY <1>1 DEF ParseHeader, ChainOK, WholeSets, First
<1>2. CASE StartDecode
  <2>1. /\ stage = "decode" /\ stage' = "sets" /\ dg' = dg /\ pos' = First
        /\ end' = dg.size /\ words' = words /\ parts' = parts /\ seen' = seen
    BY <1>2, FirstFacts DEF StartDecode, Loop, Filled
  <2>2. parts = {} /\ DOMAIN words = {} /\ seen = {} BY <2>1 DEF TilingOK, ChainOK
  <2>3. First' = First BY <2>1 DEF First
  <2> QED BY <2>1, <2>2, <2>3 DEF ChainOK, WholeSets, SplitOK
<1>3. CASE RefuseDatagram
  <2>1. stage = "decode" /\ ~header /\ version \in {"9", "10"}
    BY <1>3 DEF RefuseDatagram, HeaderAccepted, Filled
  <2> QED BY <2>1 DEF HeadersOK, Filled
<1>4. CASE \/ TakeRecord \/ RecordTruncated \/ RecordsEnd \/ SamplesEnd
           \/ \E len \in LengthWords : TakeSample(len) \/ SampleTruncated(len)
  <2>1. stage \in {"records", "samples"}
    BY <1>4 DEF TakeRecord, RecordTruncated, RecordsEnd, SamplesEnd, TakeSample,
                SampleTruncated
  <2> QED BY <2>1 DEF ChainOK
<1>5. ASSUME NEW len \in LengthWords, TakeSet(len) PROVE ChainOK' BY <1>5, SplitStep
<1>6. CASE SetsEnd \/ \E len \in LengthWords : RefuseSets(len) BY <1>6, SplitEnds
<1>7. CASE StartCheck BY <1>7, WalkBegins
<1>8. ASSUME NEW len \in LengthWords, WalkSet(len) PROVE ChainOK' BY <1>8, WalkGoesOn
<1>9. ASSUME NEW len \in LengthWords, WalkOverrun(len) PROVE ChainOK'
  BY <1>9, WalkOverruns
<1>10. CASE WalkEnd BY <1>10, WalkEnds
<1>11. CASE Done
  BY <1>11 DEF Done, vars, ChainOK, WholeSets, First, SplitOK, CleanOK, RefusedOK,
               IsCut, AtTail
<1> QED BY <1>1, <1>2, <1>3, <1>4, <1>5, <1>6, <1>7, <1>8, <1>9, <1>10, <1>11
        DEF Next, Decode, WellFormed

-----------------------------------------------------------------------------
(* Triage can be relied on.                                                *)

\* Only complete headers are walked past.
LEMMA WalkIsComplete ==
  ASSUME TypeOK, Next, version \in {"9", "10"},
         stage = "walk" \/ (stage = "done" /\ wf = "ok") => Complete(dg),
         stage' = "walk" \/ (stage' = "done" /\ wf' = "ok")
  PROVE  Complete(dg)
<1>0. dg \in Datagrams BY DEF TypeOK
<1>1. CASE StartCheck
  <2>1. HeaderKind(dg) = "none" BY <1>0, <1>1, SetsKind DEF StartCheck, version
  <2> QED BY <1>0, <2>1, SetsKind DEF version
<1>2. CASE ~StartCheck
  <2>1. stage = "walk" \/ (stage = "done" /\ wf = "ok")
    BY <1>2 DEF Next, ParseHeader, Decode, StartDecode, Loop, RefuseDatagram, TakeRecord,
       RecordTruncated, RecordsEnd, TakeSet, RefuseSets, SetsEnd, TakeSample,
       SampleTruncated, SamplesEnd, WellFormed, WalkSet, WalkOverrun,
       WalkEnd, Done, vars, Answer, Conclude
  <2> QED BY <2>1
<1> QED BY <1>1, <1>2

LEMMA InitTriage == ASSUME Init PROVE TriageOK
<1>1. stage = "header" /\ parts = {} /\ DOMAIN words = {} /\ seen = {} BY DEF Init
<1> QED BY <1>1 DEF TriageOK, RecordsOK, SetsOK, ChainOK, WholeSets

LEMMA TriageInductive ==
  TypeOK /\ TilingOK /\ HeadersOK /\ TriageOK /\ [Next]_vars => TriageOK'
<1> SUFFICES ASSUME TypeOK, TilingOK, HeadersOK, TriageOK, [Next]_vars
             PROVE  TriageOK'
  OBVIOUS
<1>1. CASE UNCHANGED vars
  BY <1>1 DEF vars, TriageOK, RecordsOK, SetsOK, Long, Count, RecordAt, version, Complete,
              Filled, ChainOK, WholeSets, First, SplitOK, CleanOK, RefusedOK, IsCut,
              AtTail
<1>2. CASE Next
  <2>1. dg' = dg BY DatagramStays
  <2>2. version' = version /\ (Complete(dg)' <=> Complete(dg)) /\ (Filled' <=> Filled)
    BY <2>1 DEF version, Complete, Filled
  <2>3. RecordsOK'
    <3>1. CASE version = "5" BY <1>2, <3>1, RecordsStep DEF TriageOK
    <3>2. CASE version # "5" BY <2>2, <3>2 DEF RecordsOK, Long
    <3> QED BY <3>1, <3>2
  <2>4. SetsOK'
    <3>1. Filled => ChainOK' BY <1>2, ChainStep DEF TriageOK, SetsOK
    <3>2. version \in {"9", "10"} /\ (stage' = "walk" \/ (stage' = "done" /\ wf' = "ok"))
          => Complete(dg)
      BY <1>2, WalkIsComplete DEF TriageOK, SetsOK
    <3> QED BY <2>2, <3>1, <3>2 DEF SetsOK
  <2> QED BY <2>3, <2>4 DEF TriageOK
<1> QED BY <1>1, <1>2

\* The NetFlow and IPFIX datagrams that well_formed passes (sFlow is left out) are cut
\* up without complaint about their framing, into the very sets or records it counted:
\* the two walk the datagram with code of their own and cannot disagree, whatever its
\* length words say (well_formed, validate_sets, split_flowsets, split_sets,
\* v5::decode).
THEOREM TriageIsReliable == Spec => []TriageAgrees
<1>1. Spec => [](TypeOK /\ TilingOK /\ HeadersOK /\ TriageOK)
  BY InitTypes, TypesInductive, InitTiling, TilingInductive, InitHeaders,
     HeadersInductive, InitTriage, TriageInductive, PTL DEF Spec
<1>2. TypeOK /\ TriageOK => TriageAgrees
  <2> SUFFICES ASSUME TypeOK, TriageOK, stage = "done", wf = "ok",
                      version \in {"5", "9", "10"}, version = "10" => dg.declared = dg.size
               PROVE  /\ verdict = "clean"
                      /\ version \in {"9", "10"} => parts = seen /\ pos = dg.size
                      /\ version = "5" => \A n \in 1 .. dg.count :
                                            <<24 + (n - 1) * 48, 24 + n * 48>> \in parts
    BY DEF TriageAgrees
  <2>1. CASE version = "5" BY <2>1 DEF TriageOK, RecordsOK, RecordAt
  <2>2. CASE version \in {"9", "10"}
    <3>1. Filled BY <2>2 DEF TriageOK, SetsOK, Filled
    <3>2. verdict = "clean" /\ CleanOK BY <3>1 DEF TriageOK, SetsOK, ChainOK, RefusedOK
    <3> QED BY <2>2, <3>2 DEF CleanOK
  <2> QED BY <2>1, <2>2
<1> QED BY <1>1, <1>2, PTL

=============================================================================
