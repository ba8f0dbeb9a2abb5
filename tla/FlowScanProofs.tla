--------------------------- MODULE FlowScanProofs ---------------------------
(***************************************************************************)
(* Safety of a scan, for every relation, every clock and all caps.         *)
(***************************************************************************)
EXTENDS FlowScan, TemplateCacheProofs

-----------------------------------------------------------------------------
(* The inductive invariant.                                                *)

\* Between datagrams there is no current row; inside one there is, and it is a
\* v9 or IPFIX datagram.
CursorOK ==
  /\ phase \in {"idle", "rows", "done"} => row = NoRow /\ retry = {}
  /\ phase \in {"learn", "data", "retry"} =>
       row \in Rows /\ row.version \in Templated /\ taken > 0
  /\ phase \in {"idle", "rows", "done", "retry"} => setIdx = 1
  /\ phase \in {"learn", "data"} => retry = {}

\* The cache in memory and the stored one are well formed.
CachesOK == CacheOK(cache) /\ CacheOK(from_bytes(token))

ScanOK == ControlTypeOK /\ TokenTypeOK /\ HistoryTypeOK /\ CursorOK /\ CachesOK

-----------------------------------------------------------------------------
(* Rows and keys.                                                          *)

LEMMA NoRowFacts ==
  NoRow.sets = <<>> /\ Len(NoRow.sets) = 0 /\ NoRow \in Row
<1>1. NoRow.sets = <<>> BY DEF NoRow
<1>2. <<>> \in Seq(WireSet) /\ Len(<<>>) = 0 OBVIOUS
<1> QED BY <1>1, <1>2 DEF NoRow, Row, Versions, Shapes, NoDomain

LEMMA RowFacts ==
  ASSUME NEW r \in Rows
  PROVE  /\ r \in Row /\ r.sets \in Seq(WireSet) /\ Len(r.sets) \in Nat
         /\ r.exporter \in Nat /\ r.version \in Versions
         /\ r.flows_only \in BOOLEAN /\ ObsDomain(r) \in Nat
<1>1. r \in Row BY ScanAssumption
<1>2. r.sets \in Seq(WireSet) /\ r.exporter \in Nat /\ r.version \in Versions
      /\ r.flows_only \in BOOLEAN /\ r.hdr_domain \in Nat
      /\ r.obs_override \in Nat \cup {NoDomain}
  BY <1>1 DEF Row
<1>3. ObsDomain(r) \in Nat BY <1>2 DEF ObsDomain
<1> QED BY <1>1, <1>2, <1>3

\* What a row's template or data set is filed under is what it is on the wire.
LEMMA ArrivalFacts ==
  ASSUME NEW r \in Rows, NEW tid \in Nat
  PROVE  /\ Arrival(r, tid).owner = Key(r.exporter, ObsDomain(r), tid)
         /\ Arrival(r, tid).owner \in TemplateKey
         /\ Arrival(r, tid) \in
              [owner : TemplateKey, version : Versions, flows_only : BOOLEAN]
<1>1. r.exporter \in Nat /\ ObsDomain(r) \in Nat /\ r.version \in Versions
      /\ r.flows_only \in BOOLEAN
  BY RowFacts
<1> QED BY <1>1 DEF Arrival, Key, TemplateKey

-----------------------------------------------------------------------------
(* Storing and loading.                                                    *)

LEMMA StoreOK ==
  ASSUME NEW c, CacheOK(c), CachesOK, TokenTypeOK, store_scan_cache(c)
  PROVE  /\ CacheOK(from_bytes(token')) /\ TokenTypeOK'
         /\ HasStorage => from_bytes(token') = c
         /\ ~HasStorage => token' = token
<1>1. CASE HasStorage
  <2>1. token' = to_bytes(c) BY <1>1 DEF store_scan_cache
  <2>2. from_bytes(token') = c BY <2>1, Rehydration
  <2> QED BY <1>1, <2>1, <2>2 DEF TokenTypeOK
<1>2. CASE ~HasStorage
  BY <1>2 DEF store_scan_cache, CachesOK, TokenTypeOK
<1> QED BY <1>1, <1>2

LEMMA EmptyTokenOK == from_bytes(EmptyToken) = NewCache
BY DEF from_bytes

-----------------------------------------------------------------------------
(* The caches stay well formed.                                            *)

\* What an action that keeps both caches leaves of them.
LEMMA CachesUnchanged ==
  ASSUME CachesOK, TokenTypeOK, cache' = cache, token' = token
  PROVE  CachesOK' /\ TokenTypeOK'
BY DEF CachesOK, TokenTypeOK

\* The current item of a template set, and the entry made from it.
LEMMA TemplateFacts ==
  ASSUME ControlTypeOK, row \in Rows, AtTemplate
  PROVE  /\ CurrentItem.template_id \in Nat
         /\ RowKey(CurrentItem.template_id) \in TemplateKey
         /\ LayoutOf(row.version, CurrentSet, CurrentItem) \in Layout
<1>1. row.sets \in Seq(WireSet) /\ setIdx \in 1 .. Len(row.sets)
  BY RowFacts DEF ControlTypeOK, AtTemplate
<1>2. CurrentSet \in WireSet BY <1>1 DEF CurrentSet
<1>3. CurrentSet.items \in Seq(TemplateItem) BY <1>2 DEF WireSet
<1>4. itemIdx \in 1 .. Len(CurrentSet.items) BY <1>3 DEF ControlTypeOK, AtTemplate
<1>5. CurrentItem \in TemplateItem BY <1>3, <1>4 DEF CurrentItem
<1>6. CurrentItem.template_id \in Nat /\ CurrentItem.fields \in Nat
  BY <1>5 DEF TemplateItem
<1>7. row.exporter \in Nat /\ ObsDomain(row) \in Nat BY RowFacts
<1> QED BY <1>6, <1>7 DEF RowKey, Key, TemplateKey, LayoutOf, Layout, TemplateKind

LEMMA DataSetFacts ==
  ASSUME ControlTypeOK, row \in Rows, row.version \in Templated, taken > 0,
         AtDataSet
  PROVE  /\ setIdx \in 1 .. Len(row.sets)
         /\ CurrentSet.id \in Nat
         /\ RowKey(CurrentSet.id) \in TemplateKey
         /\ PendingOf(CurrentSet) \in PendingRecord
         /\ SetId(setIdx) \in SetIds
<1>1. row.sets \in Seq(WireSet) /\ setIdx \in 1 .. Len(row.sets)
  BY RowFacts DEF ControlTypeOK, AtDataSet
<1>2. CurrentSet \in WireSet BY <1>1 DEF CurrentSet
<1>3. CurrentSet.id \in Nat /\ CurrentSet.bytes \in Nat BY <1>2 DEF WireSet
<1>4. row.exporter \in Nat /\ ObsDomain(row) \in Nat BY RowFacts
<1>5. RowKey(CurrentSet.id) \in TemplateKey BY <1>3, <1>4 DEF RowKey, Key, TemplateKey
<1>6. taken \in 1 .. MaxRows BY ScanAssumption DEF ControlTypeOK
<1>7. SetId(setIdx) \in SetIds
  <2>1. setIdx \in 0 .. Len(row.sets) BY <1>1
  <2> QED BY <1>6, <2>1 DEF SetId, SetIds
<1>8. SetId(setIdx) \in Nat \X Nat BY <1>1, <1>6 DEF SetId
<1>9. PendingOf(CurrentSet) \in PendingRecord
  BY <1>3, <1>8 DEF PendingOf, PendingRecord, Templated
<1> QED BY <1>1, <1>3, <1>5, <1>7, <1>9

LEMMA CachesStep ==
  ASSUME ScanOK, Next
  PROVE  CachesOK' /\ TokenTypeOK'
<1> USE DEF ScanOK
<1>1. CASE BatchStart
  <2>1. cache' = from_bytes(token) /\ token' = token
    BY <1>1 DEF BatchStart, load_scan_cache
  <2> QED BY <2>1 DEF CachesOK, TokenTypeOK
<1>2. CASE FinishScan
  <2>1. CacheOK(drain_pending(load_scan_cache))
    BY DrainOK DEF load_scan_cache, CachesOK
  <2>2. store_scan_cache(drain_pending(load_scan_cache)) /\ cache' = NewCache
    BY <1>2 DEF FinishScan, ReturnTo
  <2>3. CacheOK(from_bytes(token')) /\ TokenTypeOK' BY <2>1, <2>2, StoreOK
  <2> QED BY <2>2, <2>3, NewOK DEF CachesOK
<1>3. CASE BatchEnd
  <2>1. store_scan_cache(cache) /\ cache' = NewCache
    BY <1>3 DEF BatchEnd, ReturnTo
  <2>2. CacheOK(from_bytes(token')) /\ TokenTypeOK' BY <2>1, StoreOK DEF CachesOK
  <2> QED BY <2>1, <2>2, NewOK DEF CachesOK
<1>4. CASE LearnTemplate
  <2>1. row \in Rows /\ now \in Nat
    BY <1>4 DEF LearnTemplate, CursorOK, ControlTypeOK
  <2> DEFINE layout == LayoutOf(row.version, CurrentSet, CurrentItem)
             key == RowKey(CurrentItem.template_id)
  <2>2. key \in TemplateKey /\ layout \in Layout
    BY <1>4, <2>1, TemplateFacts DEF LearnTemplate
  <2>3. NewEntry(layout, now) \in TemplateEntry
    BY <2>1, <2>2 DEF NewEntry, TemplateEntry
  <2>4. cache' = upsert(cache, key, NewEntry(layout, now)) /\ token' = token
    BY <1>4 DEF LearnTemplate
  <2> HIDE DEF layout, key
  <2>5. CacheOK(cache') BY <2>2, <2>3, <2>4, UpsertOK DEF CachesOK
  <2> QED BY <2>4, <2>5 DEF CachesOK, TokenTypeOK
<1>5. CASE DecodeDataSet
  <2> DEFINE key == RowKey(CurrentSet.id)
  <2>1. /\ key \in DOMAIN cache.entries /\ token' = token
        /\ cache' = use_template(cache, key, now)
    BY <1>5 DEF DecodeDataSet, NextDataSet
  <2>2. now \in Nat BY DEF ControlTypeOK
  <2> HIDE DEF key
  <2>3. CacheOK(cache') BY <2>1, <2>2, UseOK DEF CachesOK
  <2> QED BY <2>1, <2>3 DEF CachesOK, TokenTypeOK
<1>6. CASE BufferDataSet
  <2> DEFINE key == RowKey(CurrentSet.id)
             rec == PendingOf(CurrentSet)
  <2>1. /\ HasRoom(cache, rec) /\ token' = token
        /\ cache' = push_pending(cache, key, rec)
    BY <1>6 DEF BufferDataSet, NextDataSet
  <2>2. AtDataSet /\ row \in Rows /\ row.version \in Templated /\ taken > 0
    BY <1>6 DEF BufferDataSet, AtDataSet, CursorOK
  <2>3. key \in TemplateKey /\ rec \in PendingRecord BY <2>2, DataSetFacts
  <2> HIDE DEF key, rec
  <2>4. CacheOK(cache') BY <2>1, <2>3, PushOK DEF CachesOK
  <2> QED BY <2>1, <2>4 DEF CachesOK, TokenTypeOK
<1>7. ASSUME NEW key \in retry, RetryKey(key) PROVE CachesOK' /\ TokenTypeOK'
  <2> DEFINE u == use_template(cache, key, now)
  <2>1. key \in DOMAIN cache.entries /\ token' = token /\ cache' = take_pending(u, key)
    BY <1>7 DEF RetryKey
  <2>2. now \in Nat BY DEF ControlTypeOK
  <2>3. CacheOK(u) BY <2>1, <2>2, UseOK DEF CachesOK
  <2> HIDE DEF u
  <2>4. CacheOK(take_pending(u, key))
    <3>1. CASE key \in DOMAIN u.pending BY <2>3, <3>1, TakeOK
    <3>2. CASE key \notin DOMAIN u.pending BY <2>3, <3>2 DEF take_pending
    <3> QED BY <3>1, <3>2
  <2> QED BY <2>1, <2>4 DEF CachesOK, TokenTypeOK
<1>8. CASE \/ \E r \in Rows : SkipNullRow(r) \/ AnswerWhole(r) \/ BeginDatagram(r)
           \/ LearnNextSet \/ LearnEnd \/ RefuseDataSet \/ SkipSet \/ DataEnd
           \/ \E key \in retry : RetrySkip(key)
           \/ RetryEnd \/ Done
  <2>1. cache' = cache /\ token' = token
    BY <1>8 DEF SkipNullRow, AnswerWhole, BeginDatagram, LearnNextSet, LearnEnd,
                RefuseDataSet, SkipSet, NextDataSet, DataEnd, RetrySkip, RetryEnd,
                Done, vars
  <2> QED BY <2>1, CachesUnchanged
<1> QED BY <1>1, <1>2, <1>3, <1>4, <1>5, <1>6, <1>7, <1>8
        DEF Next, EngineCall, DecodeRow

-----------------------------------------------------------------------------
(* The control state stays within its types.                               *)

\* Where a datagram leads.
LEMMA AfterDatagramOK ==
  ASSUME NEW r \in Rows, NEW c, CacheOK(c), AfterDatagram(r, c), setIdx' = 1,
         taken' > 0
  PROVE  /\ phase' \in {"rows", "retry"}
         /\ row' \in Rows \cup {NoRow} /\ setIdx' \in 1 .. Len(row'.sets) + 1
         /\ retry' \subseteq TemplateKey
         /\ CursorOK'
<1>1. Len(NoRow.sets) \in Nat /\ Len(r.sets) \in Nat BY NoRowFacts, RowFacts
<1>2. DOMAIN c.pending \subseteq TemplateKey BY DEF CacheOK, CacheTypeOK
<1> QED BY <1>1, <1>2 DEF AfterDatagram, CursorOK

LEMMA ControlStep ==
  ASSUME ScanOK, Next
  PROVE  ControlTypeOK' /\ CursorOK'
<1> USE DEF ScanOK
<1>0. /\ Len(NoRow.sets) = 0
      /\ \A r \in Rows : Len(r.sets) \in Nat
      /\ Stamps \subseteq Nat /\ MaxRows \in Nat
  BY NoRowFacts, RowFacts, ScanAssumption
<1>1. CASE BatchStart
  BY <1>0, <1>1 DEF BatchStart, ControlTypeOK, CursorOK, Phases
<1>2. CASE FinishScan
  BY <1>2 DEF FinishScan, ReturnTo, ControlTypeOK, CursorOK, Phases
<1>3. CASE BatchEnd
  BY <1>3 DEF BatchEnd, ReturnTo, ControlTypeOK, CursorOK, Phases
<1>4. ASSUME NEW r \in Rows, SkipNullRow(r) PROVE ControlTypeOK' /\ CursorOK'
  BY <1>4 DEF SkipNullRow, TakeRow, ControlTypeOK, CursorOK
<1>5. ASSUME NEW r \in Rows, AnswerWhole(r) PROVE ControlTypeOK' /\ CursorOK'
  <2>1. /\ AfterDatagram(r, cache) /\ setIdx' = setIdx /\ itemIdx' = itemIdx
        /\ now' = now /\ left' = left - 1 /\ taken' = taken + 1
        /\ phase = "rows" /\ left > 0
    BY <1>5 DEF AnswerWhole, TakeRow
  <2>2. setIdx' = 1 /\ taken' > 0 BY <2>1 DEF CursorOK, ControlTypeOK
  <2>3. /\ phase' \in {"rows", "retry"}
        /\ row' \in Rows \cup {NoRow} /\ setIdx' \in 1 .. Len(row'.sets) + 1
        /\ retry' \subseteq TemplateKey /\ CursorOK'
    BY <2>1, <2>2, AfterDatagramOK DEF CachesOK
  <2> QED BY <2>1, <2>3 DEF ControlTypeOK, Phases
<1>6. ASSUME NEW r \in Rows, BeginDatagram(r) PROVE ControlTypeOK' /\ CursorOK'
  BY <1>0, <1>6
     DEF BeginDatagram, TakeRow, Stateful, ControlTypeOK, CursorOK, Phases
<1>7. CASE LearnTemplate
  BY <1>7 DEF LearnTemplate, ControlTypeOK, CursorOK
<1>8. CASE LearnNextSet
  BY <1>0, <1>8 DEF LearnNextSet, ControlTypeOK, CursorOK
<1>9. CASE LearnEnd
  BY <1>0, <1>9 DEF LearnEnd, ControlTypeOK, CursorOK, Phases
<1>10. CASE DecodeDataSet \/ BufferDataSet \/ RefuseDataSet \/ SkipSet
  <2>1. /\ phase = "data" /\ setIdx <= Len(row.sets) /\ NextDataSet
    BY <1>10 DEF DecodeDataSet, BufferDataSet, RefuseDataSet, SkipSet, AtDataSet
  <2> QED BY <1>0, <2>1 DEF NextDataSet, ControlTypeOK, CursorOK
<1>11. CASE DataEnd
  <2>1. /\ AfterDatagram(row, cache) /\ setIdx' = 1 /\ itemIdx' = itemIdx
        /\ now' = now /\ left' = left /\ taken' = taken
        /\ row \in Rows /\ taken > 0
    BY <1>11 DEF DataEnd, CursorOK
  <2>3. /\ phase' \in {"rows", "retry"}
        /\ row' \in Rows \cup {NoRow} /\ setIdx' \in 1 .. Len(row'.sets) + 1
        /\ retry' \subseteq TemplateKey /\ CursorOK'
    BY <2>1, AfterDatagramOK DEF CachesOK
  <2> QED BY <2>1, <2>3 DEF ControlTypeOK, Phases
<1>12. ASSUME NEW key \in retry, RetryKey(key) \/ RetrySkip(key)
       PROVE  ControlTypeOK' /\ CursorOK'
  BY <1>12 DEF RetryKey, RetrySkip, ControlTypeOK, CursorOK
<1>13. CASE RetryEnd
  BY <1>0, <1>13 DEF RetryEnd, ControlTypeOK, CursorOK, Phases
<1>14. CASE Done
  BY <1>14 DEF Done, vars, ControlTypeOK, CursorOK
<1> QED BY <1>1, <1>2, <1>3, <1>4, <1>5, <1>6, <1>7, <1>8, <1>9, <1>10, <1>11,
           <1>12, <1>13, <1>14 DEF Next, EngineCall, DecodeRow

-----------------------------------------------------------------------------
(* The history stays within its types.                                     *)

ArrivalType == [owner : TemplateKey, version : Versions, flows_only : BOOLEAN]

LEMMA ReceiveOK ==
  ASSUME HistoryTypeOK, taken \in Nat, taken' \in Nat, taken <= taken',
         NEW id \in SetIds, id[1] <= taken',
         NEW r \in Rows, NEW tid \in Nat, NEW outcomes \in Seq(Outcome),
         Receive(id, r, tid, outcomes), defined' = defined
  PROVE  HistoryTypeOK'
<1>1. Arrival(r, tid) \in ArrivalType BY ArrivalFacts DEF ArrivalType
<1>2. /\ received' = With(received, id, Arrival(r, tid))
      /\ out' = With(out, id, outcomes)
  BY DEF Receive
<1>3. DOMAIN received' = DOMAIN received \cup {id} BY <1>2 DEF With
<1>4. received' \in [DOMAIN received' -> ArrivalType]
  BY <1>1, <1>2, <1>3 DEF With, HistoryTypeOK, ArrivalType
<1>5. out' \in [DOMAIN received' -> Seq(Outcome)]
  BY <1>2, <1>3 DEF With, HistoryTypeOK
<1>6. \A x \in DOMAIN received : x[1] <= taken'
  <2>1. \A x \in DOMAIN received : x[1] \in Nat /\ x[1] <= taken
    BY DEF HistoryTypeOK, SetIds
  <2> QED BY <2>1
<1> QED BY <1>3, <1>4, <1>5, <1>6 DEF HistoryTypeOK, ArrivalType

LEMMA EmitOK ==
  ASSUME HistoryTypeOK, NEW answers, \A id \in DOMAIN answers : answers[id] \in Outcome,
         Emit(answers), received' = received, defined' = defined, taken' = taken
  PROVE  HistoryTypeOK'
<1>1. out \in [DOMAIN received -> Seq(Outcome)] BY DEF HistoryTypeOK
<1>2. \A id \in DOMAIN out : id \in DOMAIN answers =>
        Append(out[id], answers[id]) \in Seq(Outcome)
  BY <1>1
<1>3. out' \in [DOMAIN received -> Seq(Outcome)] BY <1>1, <1>2 DEF Emit
<1> QED BY <1>3 DEF HistoryTypeOK

LEMMA OutcomeFacts ==
  /\ \A layout \in Layout, v \in Versions, f \in BOOLEAN :
       DecodedOutcome(layout, v, f) \in Outcome
  /\ \A how \in Hows, v \in Versions : Plain(how, v) \in Outcome
BY DEF DecodedOutcome, Plain, Outcome, Hows

LEMMA FlushAnswersOK ==
  ASSUME NEW c, CacheOK(c)
  PROVE  \A id \in DOMAIN FlushAnswers(c.pending) :
           FlushAnswers(c.pending)[id] \in Outcome
<1> DEFINE p == c.pending
<1>1. p \in [DOMAIN p -> Seq(PendingRecord)] BY DEF CacheOK, CacheTypeOK
<1> SUFFICES ASSUME NEW id \in AllSets(p) PROVE FlushAnswers(p)[id] \in Outcome
  BY DEF FlushAnswers
<1>2. \E k \in DOMAIN p : id \in SetsOf(p[k]) BY DEF AllSets
<1> DEFINE k == HolderOf(p, id)
<1>3. k \in DOMAIN p /\ id \in SetsOf(p[k]) BY <1>2 DEF HolderOf
<1> HIDE DEF k
<1>4. p[k] \in Seq(PendingRecord) /\ DOMAIN p[k] # {} BY <1>1, <1>3 DEF SetsOf
<1>5. p[k][1] \in PendingRecord BY <1>4
<1>6. p[k][1].version \in Versions BY <1>5 DEF PendingRecord, Versions
<1>7. Plain("missing", p[k][1].version) \in Outcome
  BY <1>6, OutcomeFacts DEF Hows
<1> QED BY <1>7 DEF FlushAnswers, k

LEMMA RetryAnswersOK ==
  ASSUME NEW recs \in Seq(PendingRecord), NEW layout \in Layout, row \in Rows
  PROVE  \A id \in DOMAIN RetryAnswers(recs, layout) :
           RetryAnswers(recs, layout)[id] \in Outcome
<1> SUFFICES ASSUME NEW id \in SetsOf(recs)
             PROVE  RetryAnswers(recs, layout)[id] \in Outcome
  BY DEF RetryAnswers
<1>1. RecordOf(recs, id) \in PendingRecord BY DEF SetsOf, RecordOf
<1>2. RecordOf(recs, id).version \in Versions BY <1>1 DEF PendingRecord, Versions
<1>3. row.flows_only \in BOOLEAN BY RowFacts
<1> QED BY <1>2, <1>3, OutcomeFacts DEF RetryAnswers

LEMMA HistoryStep ==
  ASSUME ScanOK, Next
  PROVE  HistoryTypeOK'
<1> USE DEF ScanOK
<1>0. taken \in Nat BY DEF ControlTypeOK
<1>1. CASE FinishScan
  <2>1. \A id \in DOMAIN FlushAnswers(load_scan_cache.pending) :
          FlushAnswers(load_scan_cache.pending)[id] \in Outcome
    BY FlushAnswersOK DEF CachesOK, load_scan_cache
  <2>2. Emit(FlushAnswers(load_scan_cache.pending))
        /\ received' = received /\ defined' = defined /\ taken' = taken
    BY <1>1 DEF FinishScan
  <2> QED BY <2>1, <2>2, EmitOK
<1>2. ASSUME NEW r \in Rows, AnswerWhole(r) PROVE HistoryTypeOK'
  <2> DEFINE how == IF Accepts(r.version) /\ r.shape = "ok"
                    THEN "stateless" ELSE "rejected"
             id == <<taken + 1, 0>>
  <2>1. taken' = taken + 1 /\ left > 0 /\ defined' = defined
        /\ Receive(id, r, 0, <<Plain(how, r.version)>>)
    BY <1>2 DEF AnswerWhole, TakeRow
  <2>2. Plain(how, r.version) \in Outcome BY RowFacts, OutcomeFacts DEF Hows
  <2>3. <<Plain(how, r.version)>> \in Seq(Outcome) BY <2>2
  <2>4. id \in SetIds /\ id[1] <= taken'
    <3>1. taken + 1 \in 1 .. MaxRows BY <2>1, ScanAssumption DEF ControlTypeOK
    <3>2. 0 \in 0 .. Len(r.sets) BY RowFacts
    <3> QED BY <1>0, <2>1, <3>1, <3>2 DEF SetIds
  <2>5. taken' \in Nat /\ taken <= taken' BY <1>0, <2>1
  <2> HIDE DEF id, how
  <2> QED BY <1>0, <2>1, <2>3, <2>4, <2>5, ReceiveOK
<1>3. ASSUME NEW r \in Rows, SkipNullRow(r) \/ BeginDatagram(r) PROVE HistoryTypeOK'
  <2>1. taken' = taken + 1 /\ received' = received /\ out' = out /\ defined' = defined
    BY <1>3 DEF SkipNullRow, BeginDatagram, TakeRow
  <2>2. \A x \in DOMAIN received : x[1] \in Nat /\ x[1] <= taken
    BY DEF HistoryTypeOK, SetIds
  <2>3. \A x \in DOMAIN received' : x[1] <= taken' BY <1>0, <2>1, <2>2
  <2> QED BY <2>1, <2>3 DEF HistoryTypeOK
<1>4. CASE LearnTemplate
  <2>1. row \in Rows BY <1>4 DEF LearnTemplate, CursorOK
  <2> DEFINE layout == LayoutOf(row.version, CurrentSet, CurrentItem)
             owner == Arrival(row, CurrentItem.template_id).owner
  <2>2. CurrentItem.template_id \in Nat /\ layout \in Layout
    BY <1>4, <2>1, TemplateFacts DEF LearnTemplate
  <2>3. owner \in TemplateKey BY <2>1, <2>2, ArrivalFacts
  <2>4. /\ defined' = With(defined, owner, layout)
        /\ taken' = taken /\ received' = received /\ out' = out
    BY <1>4 DEF LearnTemplate
  <2> HIDE DEF layout, owner
  <2>5. DOMAIN defined' = DOMAIN defined \cup {owner} BY <2>4 DEF With
  <2>6. defined' \in [DOMAIN defined' -> Layout]
    BY <2>2, <2>4, <2>5 DEF With, HistoryTypeOK
  <2> QED BY <2>3, <2>4, <2>5, <2>6 DEF HistoryTypeOK
<1>5. CASE DecodeDataSet \/ BufferDataSet \/ RefuseDataSet
  <2>1. AtDataSet /\ row \in Rows /\ row.version \in Templated /\ taken > 0
    BY <1>5 DEF DecodeDataSet, BufferDataSet, RefuseDataSet, AtDataSet, CursorOK
  <2>2. CurrentSet.id \in Nat /\ SetId(setIdx) \in SetIds BY <2>1, DataSetFacts
  <2>3. taken' = taken /\ defined' = defined
    BY <1>5 DEF DecodeDataSet, BufferDataSet, RefuseDataSet, NextDataSet
  <2>4. row.version \in Versions /\ row.flows_only \in BOOLEAN BY <2>1, RowFacts
  <2>5. PICK outcomes \in Seq(Outcome) :
          Receive(SetId(setIdx), row, CurrentSet.id, outcomes)
    <3>1. CASE DecodeDataSet
      <4> DEFINE key == RowKey(CurrentSet.id)
                 o == DecodedOutcome(cache.entries[key].layout, row.version,
                                     row.flows_only)
      <4>1. key \in DOMAIN cache.entries /\ Receive(SetId(setIdx), row, CurrentSet.id, <<o>>)
        BY <3>1 DEF DecodeDataSet
      <4>2. cache.entries[key].layout \in Layout
        BY <4>1 DEF CachesOK, CacheOK, CacheTypeOK, TemplateEntry
      <4>3. o \in Outcome BY <2>4, <4>2, OutcomeFacts
      <4>4. <<o>> \in Seq(Outcome) BY <4>3
      <4> QED BY <4>1, <4>4
    <3>2. CASE BufferDataSet
      <4>1. Receive(SetId(setIdx), row, CurrentSet.id, <<>>)
        BY <3>2 DEF BufferDataSet
      <4>2. <<>> \in Seq(Outcome) OBVIOUS
      <4> QED BY <4>1, <4>2, Zenon
    <3>3. CASE RefuseDataSet
      <4>1. Receive(SetId(setIdx), row, CurrentSet.id, <<Plain("missing", row.version)>>)
        BY <3>3 DEF RefuseDataSet
      <4>2. Plain("missing", row.version) \in Outcome
        BY <2>4, OutcomeFacts DEF Hows
      <4>3. <<Plain("missing", row.version)>> \in Seq(Outcome) BY <4>2
      <4> QED BY <4>1, <4>3
    <3> QED BY <1>5, <3>1, <3>2, <3>3
  <2>6. SetId(setIdx)[1] <= taken' BY <1>0, <2>3 DEF SetId
  <2> QED BY <1>0, <2>1, <2>2, <2>3, <2>5, <2>6, ReceiveOK
<1>6. ASSUME NEW key \in retry, RetryKey(key) PROVE HistoryTypeOK'
  <2> DEFINE recs == PendingAt(cache, key)
             layout == cache.entries[key].layout
  <2>1. /\ key \in DOMAIN cache.entries /\ phase = "retry"
        /\ Emit(RetryAnswers(recs, layout))
        /\ received' = received /\ defined' = defined /\ taken' = taken
    BY <1>6 DEF RetryKey
  <2>2. row \in Rows BY <2>1 DEF CursorOK
  <2>3. recs \in Seq(PendingRecord) BY DEF PendingAt, CachesOK, CacheOK, CacheTypeOK
  <2>4. layout \in Layout
    BY <2>1 DEF CachesOK, CacheOK, CacheTypeOK, TemplateEntry
  <2> HIDE DEF recs, layout
  <2>5. \A id \in DOMAIN RetryAnswers(recs, layout) :
          RetryAnswers(recs, layout)[id] \in Outcome
    BY <2>2, <2>3, <2>4, RetryAnswersOK
  <2> QED BY <2>1, <2>5, EmitOK
<1>7. CASE \/ BatchStart \/ BatchEnd \/ LearnNextSet \/ LearnEnd \/ SkipSet
           \/ DataEnd \/ RetryEnd \/ Done \/ \E key \in retry : RetrySkip(key)
  <2>1. taken' = taken /\ received' = received /\ out' = out /\ defined' = defined
    BY <1>7 DEF BatchStart, BatchEnd, LearnNextSet, LearnEnd, SkipSet, NextDataSet,
                DataEnd, RetryEnd, Done, RetrySkip, vars
  <2> QED BY <2>1 DEF HistoryTypeOK
<1> QED BY <1>1, <1>2, <1>3, <1>4, <1>5, <1>6, <1>7
        DEF Next, EngineCall, DecodeRow

-----------------------------------------------------------------------------
(* No data set is received twice.                                          *)

\* The data set at the cursor, and those after it, have not been received.
NotYetReceived ==
  /\ phase = "learn" => \A id \in DOMAIN received : id[1] < taken
  /\ phase = "data" =>
       \A id \in DOMAIN received : id[1] < taken \/ id[2] < setIdx

\* Data sets are numbered by row and position.
LEMMA IdFacts ==
  ASSUME HistoryTypeOK
  PROVE  \A id \in DOMAIN received : id[1] \in Nat /\ id[2] \in Nat /\ id[1] <= taken
<1>1. ASSUME NEW id \in SetIds PROVE id[1] \in Nat /\ id[2] \in Nat
  <2>1. id[1] \in 1 .. MaxRows /\ id[2] \in UNION {0 .. Len(r.sets) : r \in Rows}
    BY DEF SetIds
  <2> QED BY <2>1, ScanAssumption
<1> QED BY <1>1 DEF HistoryTypeOK

\* Only the row in hand can be at the cursor, so what is received next is new.
LEMMA NotYetReceivedStep ==
  ASSUME ScanOK, NotYetReceived, Next
  PROVE  NotYetReceived'
<1> USE DEF ScanOK
<1>0. /\ \A id \in DOMAIN received : id[1] \in Nat /\ id[2] \in Nat /\ id[1] <= taken
      /\ taken \in Nat /\ setIdx \in Nat
  BY IdFacts DEF ControlTypeOK
<1>1. CASE \E r \in Rows : BeginDatagram(r)
  <2>1. phase' = "learn" /\ taken' = taken + 1 /\ received' = received
    BY <1>1 DEF BeginDatagram, TakeRow
  <2> QED BY <1>0, <2>1 DEF NotYetReceived
<1>2. CASE LearnTemplate \/ LearnNextSet
  BY <1>2 DEF LearnTemplate, LearnNextSet, NotYetReceived
<1>3. CASE LearnEnd
  BY <1>3 DEF LearnEnd, NotYetReceived
<1>4. CASE DecodeDataSet \/ BufferDataSet \/ RefuseDataSet
  <2>1. phase = "data" /\ phase' = phase /\ taken' = taken /\ setIdx' = setIdx + 1
        /\ DOMAIN received' = DOMAIN received \cup {<<taken, setIdx>>}
    BY <1>4 DEF DecodeDataSet, BufferDataSet, RefuseDataSet, AtDataSet, NextDataSet,
                Receive, With, SetId
  <2>2. ASSUME NEW id \in DOMAIN received'
        PROVE  id[1] < taken \/ id[2] < setIdx + 1
    <3>1. CASE id = <<taken, setIdx>> BY <1>0, <3>1
    <3>2. CASE id \in DOMAIN received BY <1>0, <2>1, <3>2 DEF NotYetReceived
    <3> QED BY <2>1, <3>1, <3>2
  <2> QED BY <2>1, <2>2 DEF NotYetReceived
<1>5. CASE SkipSet
  <2>1. phase = "data" /\ phase' = phase /\ taken' = taken /\ setIdx' = setIdx + 1
        /\ received' = received
    BY <1>5 DEF SkipSet, NextDataSet
  <2> QED BY <1>0, <2>1 DEF NotYetReceived
<1>6. CASE \/ BatchStart \/ FinishScan \/ BatchEnd
           \/ \E r \in Rows : SkipNullRow(r) \/ AnswerWhole(r)
           \/ DataEnd \/ RetryEnd \/ Done
           \/ \E key \in retry : RetryKey(key) \/ RetrySkip(key)
  <2>1. phase' \notin {"learn", "data"}
    BY <1>6 DEF BatchStart, FinishScan, BatchEnd, ReturnTo, SkipNullRow, TakeRow,
                AnswerWhole, AfterDatagram, DataEnd, RetryEnd, RetryKey, RetrySkip,
                Done, vars
  <2> QED BY <2>1 DEF NotYetReceived
<1> QED BY <1>1, <1>2, <1>3, <1>4, <1>5, <1>6 DEF Next, EngineCall, DecodeRow

-----------------------------------------------------------------------------
(* What arrives is new, and what a step adds to the answers.               *)

\* The row that is answered as a whole has not been received.
LEMMA FreshRow ==
  ASSUME ScanOK
  PROVE  <<taken + 1, 0>> \notin DOMAIN received
<1> DEFINE id == <<taken + 1, 0>>
<1>1. id[1] = taken + 1 /\ taken \in Nat BY DEF ScanOK, ControlTypeOK
<1> HIDE DEF id
<1>2. id \notin DOMAIN received BY <1>1, IdFacts DEF ScanOK
<1> QED BY <1>2 DEF id

\* The data set at the cursor has not been received.
LEMMA FreshAtCursor ==
  ASSUME ScanOK, NotYetReceived, AtDataSet
  PROVE  SetId(setIdx) \notin DOMAIN received
<1>1. setIdx \in Nat /\ taken \in Nat BY DEF ScanOK, ControlTypeOK
<1>2. \A id \in DOMAIN received : id[1] < taken \/ id[2] < setIdx
  BY DEF AtDataSet, NotYetReceived
<1>3. SetId(setIdx)[1] = taken /\ SetId(setIdx)[2] = setIdx BY DEF SetId
<1> QED BY <1>1, <1>2, <1>3

LEMMA ReceiveAdds ==
  ASSUME HistoryTypeOK, NEW id, id \notin DOMAIN received, NEW r, NEW tid, NEW outcomes,
         Receive(id, r, tid, outcomes)
  PROVE  /\ DOMAIN out' = DOMAIN out \cup {id} /\ id \notin DOMAIN out
         /\ out'[id] = outcomes /\ received'[id] = Arrival(r, tid)
         /\ \A x \in DOMAIN out : out'[x] = out[x] /\ received'[x] = received[x]
BY DEF HistoryTypeOK, Receive, With

LEMMA EmitAdds ==
  ASSUME HistoryTypeOK, NEW answers, Emit(answers)
  PROVE  /\ DOMAIN out' = DOMAIN out
         /\ \A id \in DOMAIN out : \A n \in DOMAIN out'[id] :
              \/ n \in DOMAIN out[id] /\ out'[id][n] = out[id][n]
              \/ n = Len(out[id]) + 1 /\ id \in DOMAIN answers
                 /\ out'[id][n] = answers[id]
<1>1. DOMAIN out' = DOMAIN out BY DEF Emit
<1>2. ASSUME NEW id \in DOMAIN out, NEW n \in DOMAIN out'[id]
      PROVE  \/ n \in DOMAIN out[id] /\ out'[id][n] = out[id][n]
             \/ n = Len(out[id]) + 1 /\ id \in DOMAIN answers
                /\ out'[id][n] = answers[id]
  <2>1. out[id] \in Seq(Outcome) BY DEF HistoryTypeOK
  <2>2. CASE id \in DOMAIN answers
    <3>1. out'[id] = Append(out[id], answers[id]) BY <2>2 DEF Emit
    <3> QED BY <2>1, <2>2, <3>1
  <2>3. CASE id \notin DOMAIN answers BY <2>3 DEF Emit
  <2> QED BY <2>2, <2>3
<1> QED BY <1>1, <1>2

\* A key that waits for nothing is answered nothing.
LEMMA NoRetryAnswers ==
  ASSUME NEW c, NEW key, key \notin DOMAIN c.pending, NEW layout
  PROVE  DOMAIN RetryAnswers(PendingAt(c, key), layout) = {}
BY DEF PendingAt, RetryAnswers, SetsOf

-----------------------------------------------------------------------------
(* Theorems.                                                               *)

LEMMA ScanInit == Init => ScanOK
<1> SUFFICES ASSUME Init PROVE ScanOK OBVIOUS
<1>1. ControlTypeOK /\ CursorOK
  BY NoRowFacts, ScanAssumption DEF Init, ControlTypeOK, CursorOK, Phases
<1>2. TokenTypeOK /\ CachesOK
  BY NewOK, EmptyTokenOK DEF Init, TokenTypeOK, CachesOK
<1>3. HistoryTypeOK
  <2>1. received = <<>> /\ out = <<>> /\ defined = <<>> BY DEF Init
  <2>2. DOMAIN <<>> = {} OBVIOUS
  <2> QED BY <2>1, <2>2 DEF HistoryTypeOK
<1> QED BY <1>1, <1>2, <1>3 DEF ScanOK

LEMMA ScanStep == ScanOK /\ [Next]_vars => ScanOK'
<1> SUFFICES ASSUME ScanOK, [Next]_vars PROVE ScanOK' OBVIOUS
<1>1. CASE Next BY <1>1, CachesStep, ControlStep, HistoryStep DEF ScanOK
<1>2. CASE UNCHANGED vars
  BY <1>2 DEF vars, ScanOK, ControlTypeOK, TokenTypeOK, HistoryTypeOK, CursorOK,
              CachesOK
<1> QED BY <1>1, <1>2

LEMMA ScanInvariant == Spec => []ScanOK
BY ScanInit, ScanStep, PTL DEF Spec

LEMMA NotYetReceivedInvariant == Spec => []NotYetReceived
<1>1. ScanOK /\ NotYetReceived /\ [Next]_vars => NotYetReceived'
  <2> SUFFICES ASSUME ScanOK, NotYetReceived, [Next]_vars PROVE NotYetReceived' OBVIOUS
  <2>1. CASE Next BY <2>1, NotYetReceivedStep
  <2>2. CASE UNCHANGED vars BY <2>2 DEF vars, NotYetReceived
  <2> QED BY <2>1, <2>2
<1>2. Init => NotYetReceived BY DEF Init, NotYetReceived
<1> QED BY <1>1, <1>2, ScanInvariant, PTL DEF Spec

\* Every variable keeps its type, whatever the relation, the clock and the caps.
THEOREM TypeCorrect == Spec => []TypeOK
<1>1. ScanOK => TypeOK BY DEF ScanOK, TypeOK, CachesOK, CacheOK
<1> QED BY <1>1, ScanInvariant, PTL

\* The byte total is exact and within its cap at every step of every scan, through
\* every rehydration of the cache.
THEOREM BufferIsAccounted == Spec => []BufferAccounting
<1>1. ScanOK => BufferAccounting
  BY DEF ScanOK, CachesOK, CacheOK, BufferAccounting, Live
<1> QED BY <1>1, ScanInvariant, PTL

\* The layouts stay within their cap, in memory and in the token.
THEOREM CapHolds == Spec => []LayoutsWithinCap
<1>1. ScanOK => LayoutsWithinCap
  BY DEF ScanOK, CachesOK, CacheOK, LayoutsWithinCap, Live
<1> QED BY <1>1, ScanInvariant, PTL
=============================================================================
