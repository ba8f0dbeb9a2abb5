--------------------------- MODULE FlowScanSafety ---------------------------
(***************************************************************************)
(* What a scan guarantees about templates and buffered data, proved from   *)
(* the invariant ScanOK of FlowScanProofs and one strengthening each; and  *)
(* that, with scan state to keep the buffer in, no data set is ever lost   *)
(* or answered twice, which is the step-by-step refinement of FlowPromise. *)
(***************************************************************************)
EXTENDS FlowScanProofs

-----------------------------------------------------------------------------
(* The retry after each datagram is complete.                              *)

Disjoint(c) == DOMAIN c.pending \cap DOMAIN c.entries = {}

\* During the retry, what is both cached and buffered is still to be visited.
RetryOK ==
  /\ Disjoint(from_bytes(token))
  /\ phase = "rows" => Disjoint(cache)
  /\ phase = "retry" => DOMAIN cache.pending \cap DOMAIN cache.entries \subseteq retry

LEMMA RetryInit == Init => RetryOK
<1> SUFFICES ASSUME Init PROVE RetryOK OBVIOUS
<1>1. from_bytes(token) = NewCache /\ phase = "idle" BY EmptyTokenOK DEF Init
<1>2. DOMAIN NewCache.pending = {} BY DEF NewCache
<1> QED BY <1>1, <1>2 DEF RetryOK, Disjoint

LEMMA RetryStep ==
  ASSUME ScanOK, RetryOK, Next
  PROVE  RetryOK'
<1> USE DEF ScanOK
<1>1. CASE BatchStart
  BY <1>1 DEF BatchStart, load_scan_cache, RetryOK
<1>2. CASE FinishScan
  <2> DEFINE d == drain_pending(load_scan_cache)
  <2>1. CacheOK(d) /\ d.pending = <<>>
    BY DrainOK DEF load_scan_cache, CachesOK
  <2>2. store_scan_cache(d) /\ phase' = "done" BY <1>2 DEF FinishScan, ReturnTo
  <2> HIDE DEF d
  <2>3. from_bytes(token') = d \/ token' = token BY <2>1, <2>2, StoreOK
  <2>4. Disjoint(d)
    <3>1. DOMAIN d.pending = {} BY <2>1
    <3> QED BY <3>1 DEF Disjoint
  <2> QED BY <2>2, <2>3, <2>4 DEF RetryOK
<1>3. CASE BatchEnd
  <2>1. store_scan_cache(cache) /\ phase' = "idle" /\ phase = "rows"
    BY <1>3 DEF BatchEnd, ReturnTo
  <2>2. from_bytes(token') = cache \/ token' = token BY <2>1, StoreOK DEF CachesOK
  <2> QED BY <2>1, <2>2 DEF RetryOK
<1>4. ASSUME NEW r \in Rows, SkipNullRow(r) PROVE RetryOK'
  BY <1>4 DEF SkipNullRow, TakeRow, RetryOK
<1>5. ASSUME NEW r \in Rows, AnswerWhole(r) PROVE RetryOK'
  BY <1>5 DEF AnswerWhole, TakeRow, AfterDatagram, RetryOK, Disjoint
<1>6. ASSUME NEW r \in Rows, BeginDatagram(r) PROVE RetryOK'
  BY <1>6 DEF BeginDatagram, RetryOK
<1>7. CASE \/ LearnTemplate \/ LearnNextSet \/ LearnEnd
           \/ DecodeDataSet \/ BufferDataSet \/ RefuseDataSet \/ SkipSet
  <2>1. token' = token /\ phase' \in {"learn", "data"}
    BY <1>7 DEF LearnTemplate, LearnNextSet, LearnEnd, DecodeDataSet, BufferDataSet,
                RefuseDataSet, SkipSet, NextDataSet, AtDataSet
  <2> QED BY <2>1 DEF RetryOK
<1>8. CASE DataEnd
  <2>1. AfterDatagram(row, cache) /\ token' = token /\ cache' = cache
        /\ row.version \in Templated
    BY <1>8 DEF DataEnd, CursorOK
  <2> QED BY <2>1 DEF AfterDatagram, RetryOK, Disjoint
<1>9. ASSUME NEW key \in retry, RetryKey(key) PROVE RetryOK'
  <2> DEFINE u == use_template(cache, key, now)
             d == take_pending(u, key)
  <2>1. /\ key \in DOMAIN cache.entries /\ token' = token /\ cache' = d
        /\ phase = "retry" /\ phase' = phase /\ retry' = retry \ {key}
    BY <1>9 DEF RetryKey
  <2>2. now \in Nat BY DEF ControlTypeOK
  <2>3. CacheOK(u) /\ u.pending = cache.pending
        /\ DOMAIN u.entries = DOMAIN cache.entries
    BY <2>1, <2>2, UseOK DEF CachesOK
  <2> HIDE DEF u
  <2>4. d.entries = u.entries /\ DOMAIN d.pending = DOMAIN cache.pending \ {key}
    <3>1. CASE key \in DOMAIN u.pending
      <4>1. d.entries = u.entries /\ d.pending = Without(u.pending, key)
        BY <2>3, <3>1, TakeOK
      <4> QED BY <2>3, <4>1 DEF Without
    <3>2. CASE key \notin DOMAIN u.pending BY <2>3, <3>2 DEF take_pending
    <3> QED BY <3>1, <3>2
  <2> QED BY <2>1, <2>3, <2>4 DEF RetryOK
<1>10. ASSUME NEW key \in retry, RetrySkip(key) PROVE RetryOK'
  BY <1>10 DEF RetrySkip, RetryOK
<1>11. CASE RetryEnd
  BY <1>11 DEF RetryEnd, RetryOK, Disjoint
<1>12. CASE Done
  BY <1>12 DEF Done, vars, RetryOK
<1> QED BY <1>1, <1>2, <1>3, <1>4, <1>5, <1>6, <1>7, <1>8, <1>9, <1>10, <1>11, <1>12
        DEF Next, EngineCall, DecodeRow

\* Between datagrams nothing is buffered whose template is cached, in every scan.
THEOREM RetryIsComplete == Spec => []NothingDecodableIsBuffered
<1>1. ScanOK /\ RetryOK /\ [Next]_vars => RetryOK'
  <2> SUFFICES ASSUME ScanOK, RetryOK, [Next]_vars PROVE RetryOK' OBVIOUS
  <2>1. CASE Next BY <2>1, RetryStep
  <2>2. CASE UNCHANGED vars BY <2>2 DEF vars, RetryOK
  <2> QED BY <2>1, <2>2
<1>2. RetryOK => NothingDecodableIsBuffered
  BY DEF RetryOK, NothingDecodableIsBuffered, Live, Disjoint
<1> QED BY <1>1, <1>2, RetryInit, ScanInvariant, PTL DEF Spec

-----------------------------------------------------------------------------
(* A cached layout is the latest one defined for its own key.              *)

Matches(c) ==
  \A key \in DOMAIN c.entries :
    key \in DOMAIN defined /\ c.entries[key].layout = defined[key]

\* The stored cache lags behind during a call; without storage it stays empty.
LayoutsOK ==
  /\ phase \in {"idle", "done"} => Matches(from_bytes(token))
  /\ phase \notin {"idle", "done"} => Matches(cache)
  /\ ~HasStorage => token = EmptyToken

LEMMA NewMatches == Matches(NewCache)
<1>1. DOMAIN NewCache.entries = {} BY DEF NewCache
<1> QED BY <1>1 DEF Matches

LEMMA LayoutsStep ==
  ASSUME ScanOK, LayoutsOK, Next
  PROVE  LayoutsOK'
<1> USE DEF ScanOK
<1>1. CASE BatchStart
  BY <1>1 DEF BatchStart, load_scan_cache, LayoutsOK, Matches
<1>2. CASE FinishScan
  <2> DEFINE d == drain_pending(load_scan_cache)
  <2>1. CacheOK(d) /\ d.entries = from_bytes(token).entries
    BY DrainOK DEF load_scan_cache, CachesOK
  <2>2. /\ store_scan_cache(d) /\ phase' = "done" /\ phase = "idle"
        /\ defined' = defined
    BY <1>2 DEF FinishScan, ReturnTo
  <2> HIDE DEF d
  <2>3. /\ HasStorage => from_bytes(token') = d
        /\ ~HasStorage => token' = token
    BY <2>1, <2>2, StoreOK
  <2> QED BY <2>1, <2>2, <2>3 DEF LayoutsOK, Matches
<1>3. CASE BatchEnd
  <2>1. /\ store_scan_cache(cache) /\ phase' = "idle" /\ phase = "rows"
        /\ defined' = defined
    BY <1>3 DEF BatchEnd, ReturnTo
  <2>2. /\ HasStorage => from_bytes(token') = cache
        /\ ~HasStorage => token' = token
    BY <2>1, StoreOK DEF CachesOK
  <2>3. Matches(from_bytes(token'))
    <3>1. CASE HasStorage BY <2>1, <2>2, <3>1 DEF LayoutsOK
    <3>2. CASE ~HasStorage
      <4>1. from_bytes(token') = NewCache BY <2>2, <3>2, EmptyTokenOK DEF LayoutsOK
      <4> QED BY <4>1, NewMatches
    <3> QED BY <3>1, <3>2
  <2> QED BY <2>1, <2>2, <2>3 DEF LayoutsOK, Matches
<1>4. CASE LearnTemplate
  <2>1. row \in Rows /\ now \in Nat /\ phase = "learn"
    BY <1>4 DEF LearnTemplate, CursorOK, ControlTypeOK
  <2> DEFINE layout == LayoutOf(row.version, CurrentSet, CurrentItem)
             key == RowKey(CurrentItem.template_id)
             d == upsert(cache, key, NewEntry(layout, now))
  <2>2. key \in TemplateKey /\ layout \in Layout /\ CurrentItem.template_id \in Nat
    BY <1>4, <2>1, TemplateFacts DEF LearnTemplate
  <2>3. NewEntry(layout, now) \in TemplateEntry /\ NewEntry(layout, now).layout = layout
    BY <2>1, <2>2 DEF NewEntry, TemplateEntry
  <2>4. Arrival(row, CurrentItem.template_id).owner = key
    BY <2>1, <2>2, ArrivalFacts DEF RowKey
  <2>5. /\ cache' = d /\ token' = token /\ phase' = phase
        /\ defined' = With(defined, key, layout)
    BY <1>4, <2>4 DEF LearnTemplate
  <2> HIDE DEF layout, key
  <2>6. /\ DOMAIN d.entries \subseteq DOMAIN cache.entries \cup {key}
        /\ \A k \in DOMAIN d.entries :
             d.entries[k].layout = IF k = key THEN layout ELSE cache.entries[k].layout
    BY <2>2, <2>3, UpsertOK DEF CachesOK
  <2>7. DOMAIN defined' = DOMAIN defined \cup {key}
        /\ \A k \in DOMAIN defined' :
             defined'[k] = IF k = key THEN layout ELSE defined[k]
    BY <2>5 DEF With
  <2> HIDE DEF d
  <2> QED BY <2>1, <2>5, <2>6, <2>7 DEF LayoutsOK, Matches
<1>5. CASE DecodeDataSet
  <2> DEFINE key == RowKey(CurrentSet.id)
             d == use_template(cache, key, now)
  <2>1. /\ key \in DOMAIN cache.entries /\ token' = token /\ cache' = d
        /\ phase = "data" /\ phase' = phase /\ defined' = defined
    BY <1>5 DEF DecodeDataSet, NextDataSet, AtDataSet
  <2>2. now \in Nat BY DEF ControlTypeOK
  <2> HIDE DEF key
  <2>3. DOMAIN d.entries = DOMAIN cache.entries
        /\ \A k \in DOMAIN d.entries : d.entries[k].layout = cache.entries[k].layout
    BY <2>1, <2>2, UseOK DEF CachesOK
  <2> HIDE DEF d
  <2> QED BY <2>1, <2>3 DEF LayoutsOK, Matches
<1>6. CASE BufferDataSet
  <2>1. /\ cache' = push_pending(cache, RowKey(CurrentSet.id), PendingOf(CurrentSet))
        /\ token' = token /\ phase = "data" /\ phase' = phase /\ defined' = defined
    BY <1>6 DEF BufferDataSet, NextDataSet, AtDataSet
  <2>2. cache'.entries = cache.entries BY <2>1 DEF push_pending
  <2> QED BY <2>1, <2>2 DEF LayoutsOK, Matches
<1>7. ASSUME NEW key \in retry, RetryKey(key) PROVE LayoutsOK'
  <2> DEFINE u == use_template(cache, key, now)
             d == take_pending(u, key)
  <2>1. /\ key \in DOMAIN cache.entries /\ token' = token /\ cache' = d
        /\ phase = "retry" /\ phase' = phase /\ defined' = defined
    BY <1>7 DEF RetryKey
  <2>2. now \in Nat BY DEF ControlTypeOK
  <2>3. /\ DOMAIN u.entries = DOMAIN cache.entries
        /\ \A k \in DOMAIN u.entries : u.entries[k].layout = cache.entries[k].layout
    BY <2>1, <2>2, UseOK DEF CachesOK
  <2> HIDE DEF u
  <2>4. d.entries = u.entries BY DEF take_pending
  <2> HIDE DEF d
  <2> QED BY <2>1, <2>3, <2>4 DEF LayoutsOK, Matches
<1>8. CASE \/ \E r \in Rows : SkipNullRow(r) \/ AnswerWhole(r) \/ BeginDatagram(r)
           \/ LearnNextSet \/ LearnEnd \/ RefuseDataSet \/ SkipSet \/ DataEnd
           \/ \E key \in retry : RetrySkip(key)
           \/ RetryEnd
  <2>1. /\ cache' = cache /\ token' = token /\ defined' = defined
        /\ phase \notin {"idle", "done"} /\ phase' \notin {"idle", "done"}
    BY <1>8 DEF SkipNullRow, AnswerWhole, BeginDatagram, TakeRow, AfterDatagram,
                LearnNextSet, LearnEnd, RefuseDataSet, SkipSet, NextDataSet,
                AtDataSet, DataEnd, RetrySkip, RetryEnd
  <2> QED BY <2>1 DEF LayoutsOK, Matches
<1>9. CASE Done
  BY <1>9 DEF Done, vars, LayoutsOK, Matches
<1> QED BY <1>1, <1>2, <1>3, <1>4, <1>5, <1>6, <1>7, <1>8, <1>9
        DEF Next, EngineCall, DecodeRow

LEMMA LayoutsInvariant == Spec => []LayoutsOK
<1>1. ScanOK /\ LayoutsOK /\ [Next]_vars => LayoutsOK'
  <2> SUFFICES ASSUME ScanOK, LayoutsOK, [Next]_vars PROVE LayoutsOK' OBVIOUS
  <2>1. CASE Next BY <2>1, LayoutsStep
  <2>2. CASE UNCHANGED vars BY <2>2 DEF vars, LayoutsOK, Matches
  <2> QED BY <2>1, <2>2
<1>2. Init => LayoutsOK
  BY EmptyTokenOK, NewMatches DEF Init, LayoutsOK
<1> QED BY <1>1, <1>2, ScanInvariant, PTL DEF Spec

\* In every scan a cached layout is the latest its own exporter defined, in its own
\* domain, for its id.
THEOREM LayoutsAreLatest == Spec => []CachedLayoutIsLatest
<1>1. LayoutsOK => CachedLayoutIsLatest
  BY DEF LayoutsOK, CachedLayoutIsLatest, Live, Matches
<1> QED BY <1>1, LayoutsInvariant, PTL

-----------------------------------------------------------------------------
(* How the cache a scan would continue with evolves.                       *)

\* A step leaves the layouts alone, learns one, uses one, or, without storage, ends a
\* call and forgets them all.
LEMMA LiveStep ==
  ASSUME ScanOK, LayoutsOK, Next
  PROVE  /\ CacheOK(Live)
         /\ \/ Live'.entries = Live.entries
            \/ \E key \in TemplateKey, entry \in TemplateEntry :
                 Live'.entries = upsert(Live, key, entry).entries
            \/ \E key \in DOMAIN Live.entries, t \in Nat :
                 Live'.entries = use_template(Live, key, t).entries
            \/ ~HasStorage /\ Live'.entries = <<>>
<1> USE DEF ScanOK
<1> DEFINE Goal ==
      \/ Live'.entries = Live.entries
      \/ \E key \in TemplateKey, entry \in TemplateEntry :
           Live'.entries = upsert(Live, key, entry).entries
      \/ \E key \in DOMAIN Live.entries, t \in Nat :
           Live'.entries = use_template(Live, key, t).entries
      \/ ~HasStorage /\ Live'.entries = <<>>
<1>0. CacheOK(Live) BY DEF CachesOK, Live
<1>1. CASE BatchStart
  <2>1. Live' = Live BY <1>1 DEF BatchStart, load_scan_cache, Live
  <2> QED BY <1>0, <2>1
<1>2. CASE FinishScan
  <2> DEFINE d == drain_pending(load_scan_cache)
  <2>1. CacheOK(d) /\ d.entries = from_bytes(token).entries
    BY DrainOK DEF load_scan_cache, CachesOK
  <2>2. /\ store_scan_cache(d) /\ phase' = "done" /\ phase = "idle"
    BY <1>2 DEF FinishScan, ReturnTo
  <2> HIDE DEF d
  <2>3. from_bytes(token') = d \/ token' = token BY <2>1, <2>2, StoreOK
  <2>4. Live' = from_bytes(token') /\ Live = from_bytes(token) BY <2>2 DEF Live
  <2>5. Live'.entries = Live.entries BY <2>1, <2>3, <2>4
  <2> QED BY <1>0, <2>5
<1>3. CASE BatchEnd
  <2>1. store_scan_cache(cache) /\ phase' = "idle" /\ phase = "rows"
    BY <1>3 DEF BatchEnd, ReturnTo
  <2>2. Live' = from_bytes(token') /\ Live = cache BY <2>1 DEF Live
  <2>3. CASE HasStorage
    <3>1. Live' = Live BY <2>1, <2>2, <2>3, StoreOK DEF CachesOK
    <3> QED BY <1>0, <3>1
  <2>4. CASE ~HasStorage
    <3>1. token' = EmptyToken BY <2>1, <2>4, StoreOK DEF CachesOK, LayoutsOK
    <3>2. Live'.entries = <<>> BY <2>2, <3>1, EmptyTokenOK DEF NewCache
    <3> QED BY <1>0, <2>4, <3>2
  <2> QED BY <2>3, <2>4
<1>4. CASE LearnTemplate
  <2>1. row \in Rows /\ now \in Nat /\ phase = "learn"
    BY <1>4 DEF LearnTemplate, CursorOK, ControlTypeOK
  <2> DEFINE layout == LayoutOf(row.version, CurrentSet, CurrentItem)
             key == RowKey(CurrentItem.template_id)
             entry == NewEntry(layout, now)
  <2>2. key \in TemplateKey /\ layout \in Layout
    BY <1>4, <2>1, TemplateFacts DEF LearnTemplate
  <2>3. entry \in TemplateEntry BY <2>1, <2>2 DEF NewEntry, TemplateEntry
  <2>4. cache' = upsert(cache, key, entry) /\ phase' = phase
    BY <1>4 DEF LearnTemplate
  <2> HIDE DEF key, entry
  <2>5. Live' = upsert(Live, key, entry) BY <2>1, <2>4 DEF Live
  <2> QED BY <1>0, <2>2, <2>3, <2>5
<1>5. CASE DecodeDataSet
  <2> DEFINE key == RowKey(CurrentSet.id)
  <2>1. /\ key \in DOMAIN cache.entries /\ cache' = use_template(cache, key, now)
        /\ phase = "data" /\ phase' = phase /\ now \in Nat
    BY <1>5 DEF DecodeDataSet, NextDataSet, AtDataSet, ControlTypeOK
  <2> HIDE DEF key
  <2>2. Live' = use_template(Live, key, now) /\ key \in DOMAIN Live.entries
    BY <2>1 DEF Live
  <2> QED BY <1>0, <2>1, <2>2
<1>6. CASE BufferDataSet
  <2>1. /\ cache' = push_pending(cache, RowKey(CurrentSet.id), PendingOf(CurrentSet))
        /\ phase = "data" /\ phase' = phase
    BY <1>6 DEF BufferDataSet, NextDataSet, AtDataSet
  <2>2. cache'.entries = cache.entries BY <2>1 DEF push_pending
  <2>3. Live'.entries = Live.entries BY <2>1, <2>2 DEF Live
  <2> QED BY <1>0, <2>3
<1>7. ASSUME NEW key \in retry, RetryKey(key) PROVE Goal
  <2> DEFINE u == use_template(cache, key, now)
  <2>1. /\ key \in DOMAIN cache.entries /\ cache' = take_pending(u, key)
        /\ phase = "retry" /\ phase' = phase /\ now \in Nat
    BY <1>7 DEF RetryKey, ControlTypeOK
  <2> HIDE DEF u
  <2>2. cache'.entries = u.entries BY <2>1 DEF take_pending
  <2>3. /\ Live'.entries = use_template(Live, key, now).entries
        /\ key \in DOMAIN Live.entries
    BY <2>1, <2>2 DEF Live, u
  <2> QED BY <2>1, <2>3
<1>8. CASE \/ \E r \in Rows : SkipNullRow(r) \/ AnswerWhole(r) \/ BeginDatagram(r)
           \/ LearnNextSet \/ LearnEnd \/ RefuseDataSet \/ SkipSet \/ DataEnd
           \/ \E key \in retry : RetrySkip(key)
           \/ RetryEnd
  <2>1. /\ cache' = cache
        /\ phase \notin {"idle", "done"} /\ phase' \notin {"idle", "done"}
    BY <1>8 DEF SkipNullRow, AnswerWhole, BeginDatagram, TakeRow, AfterDatagram,
                LearnNextSet, LearnEnd, RefuseDataSet, SkipSet, NextDataSet,
                AtDataSet, DataEnd, RetrySkip, RetryEnd
  <2>2. Live' = Live BY <2>1 DEF Live
  <2> QED BY <1>0, <2>2
<1>9. CASE Done
  <2>1. Live' = Live BY <1>9 DEF Done, vars, Live
  <2> QED BY <1>0, <2>1
<1>10. Goal BY <1>1, <1>2, <1>3, <1>4, <1>5, <1>6, <1>7, <1>8, <1>9
           DEF Next, EngineCall, DecodeRow
<1> QED BY <1>0, <1>10

\* With scan state to keep the cache in, a template only ever disappears from a full
\* cache, and it is one that no template left in it was seen before: nothing is lost to
\* a rehydration, a redefinition or a clock that steps back.
THEOREM EvictionTakesOldest == ASSUME HasStorage PROVE Spec => OnlyOldestIsEvicted
<1>1. ScanOK /\ LayoutsOK /\ [Next]_vars => [EvictsOldest]_vars
  <2> SUFFICES ASSUME ScanOK, LayoutsOK, Next PROVE EvictsOldest OBVIOUS
  <2>1. OldestOut(Live, Live')
    <3>1. CASE Live'.entries = Live.entries BY <3>1 DEF OldestOut
    <3>2. ASSUME NEW key \in TemplateKey, NEW entry \in TemplateEntry,
                 Live'.entries = upsert(Live, key, entry).entries
          PROVE  OldestOut(Live, Live')
      <4>1. OldestOut(Live, upsert(Live, key, entry)) BY LiveStep, UpsertHistory
      <4> QED BY <3>2, <4>1 DEF OldestOut
    <3>3. ASSUME NEW key \in DOMAIN Live.entries, NEW t \in Nat,
                 Live'.entries = use_template(Live, key, t).entries
          PROVE  OldestOut(Live, Live')
      <4>1. OldestOut(Live, use_template(Live, key, t)) BY LiveStep, UseHistory
      <4> QED BY <3>3, <4>1 DEF OldestOut
    <3> QED BY <3>1, <3>2, <3>3, LiveStep
  <2> QED BY <2>1 DEF OldestOut, EvictsOldest
<1> QED BY <1>1, ScanInvariant, LayoutsInvariant, PTL DEF Spec, OnlyOldestIsEvicted

\* With or without scan state, a template that stays cached keeps its first_seen and
\* every use it was counted, through redefinitions and rehydrations.
THEOREM StatisticsSurvive == Spec => StatsSurviveRedefinition
<1>1. ScanOK /\ LayoutsOK /\ [Next]_vars => [KeepsStats]_vars
  <2> SUFFICES ASSUME ScanOK, LayoutsOK, Next PROVE KeepsStats OBVIOUS
  <2>1. StatsKept(Live, Live')
    <3>0. CacheOK(Live) BY LiveStep
    <3>1. CASE Live'.entries = Live.entries
      <4>1. \A key \in DOMAIN Live.entries : Live.entries[key].use_count \in Nat
        BY <3>0 DEF CacheOK, CacheTypeOK, TemplateEntry
      <4> QED BY <3>1, <4>1 DEF StatsKept
    <3>2. ASSUME NEW key \in TemplateKey, NEW entry \in TemplateEntry,
                 Live'.entries = upsert(Live, key, entry).entries
          PROVE  StatsKept(Live, Live')
      <4>1. StatsKept(Live, upsert(Live, key, entry)) BY <3>0, UpsertHistory
      <4> QED BY <3>2, <4>1 DEF StatsKept
    <3>3. ASSUME NEW key \in DOMAIN Live.entries, NEW t \in Nat,
                 Live'.entries = use_template(Live, key, t).entries
          PROVE  StatsKept(Live, Live')
      <4>1. StatsKept(Live, use_template(Live, key, t)) BY <3>0, UseHistory
      <4> QED BY <3>3, <4>1 DEF StatsKept
    <3>4. CASE Live'.entries = <<>>
      <4>1. DOMAIN Live'.entries = {} BY <3>4
      <4> QED BY <4>1 DEF StatsKept
    <3> QED BY <3>1, <3>2, <3>3, <3>4, LiveStep
  <2> QED BY <2>1 DEF StatsKept, KeepsStats
<1> QED BY <1>1, ScanInvariant, LayoutsInvariant, PTL DEF Spec, StatsSurviveRedefinition

-----------------------------------------------------------------------------
(* Whose the buffered data is.                                             *)

\* What waits under a key is data that arrived for that key, with the version it had,
\* and in the order of its rows.
Owned(p, got) ==
  \A k \in DOMAIN p : \A n \in DOMAIN p[k] :
    /\ p[k][n].set \in DOMAIN got
    /\ got[p[k][n].set].owner = k
    /\ got[p[k][n].set].version = p[k][n].version
    /\ \A m \in 1 .. n : p[k][m].set[1] <= p[k][n].set[1]

\* The data sets of a row share the version of its datagram.
RowsHaveOneVersion ==
  /\ \A x, y \in DOMAIN received :
       x[1] = y[1] => received[x].version = received[y].version
  /\ phase = "data" => \A id \in DOMAIN received :
                          id[1] = taken => received[id].version = row.version

OwnedOK ==
  /\ phase \in {"idle", "done"} => Owned(from_bytes(token).pending, received)
  /\ phase \notin {"idle", "done"} => Owned(cache.pending, received)
  /\ RowsHaveOneVersion

LEMMA OwnedEmpty == \A got : Owned(<<>>, got)
BY DEF Owned

\* An arrival changes nothing for what is buffered.
LEMMA OwnedReceive ==
  ASSUME NEW p, Owned(p, received), NEW id, id \notin DOMAIN received,
         NEW r, NEW tid, NEW o, Receive(id, r, tid, o)
  PROVE  Owned(p, received')
<1>1. /\ DOMAIN received \subseteq DOMAIN received'
      /\ \A x \in DOMAIN received : received'[x] = received[x]
  BY DEF Receive, With
<1> QED BY <1>1 DEF Owned

LEMMA OwnedWithout ==
  ASSUME NEW p, NEW got, Owned(p, got), NEW key
  PROVE  Owned(Without(p, key), got)
<1>1. /\ DOMAIN Without(p, key) = DOMAIN p \ {key}
      /\ \A k \in DOMAIN Without(p, key) : Without(p, key)[k] = p[k]
  BY DEF Without
<1> QED BY <1>1 DEF Owned

\* A record pushed under its own key, and not before anything received, belongs there.
LEMMA OwnedPush ==
  ASSUME NEW c, CacheOK(c), NEW got, Owned(c.pending, got),
         NEW key, NEW rec \in PendingRecord,
         rec.set \in DOMAIN got, got[rec.set].owner = key,
         got[rec.set].version = rec.version,
         \A id \in DOMAIN got : id[1] <= rec.set[1]
  PROVE  Owned(push_pending(c, key, rec).pending, got)
<1> DEFINE old == PendingAt(c, key)
           q == With(c.pending, key, Append(old, rec))
           last == Len(old) + 1
<1>0. push_pending(c, key, rec).pending = q BY DEF push_pending
<1>1. old \in Seq(PendingRecord) BY DEF PendingAt, CacheOK, CacheTypeOK
<1>2. /\ DOMAIN q = DOMAIN c.pending \cup {key}
      /\ q[key] = Append(old, rec)
      /\ \A k \in DOMAIN c.pending : k # key => q[k] = c.pending[k]
  BY DEF With
<1>3. /\ DOMAIN q[key] = 1 .. last /\ last \in Nat /\ DOMAIN old = 1 .. last - 1
      /\ \A i \in DOMAIN old : q[key][i] = old[i]
      /\ q[key][last] = rec
  BY <1>1, <1>2
<1>4. ASSUME NEW i \in DOMAIN old
      PROVE  /\ old[i].set \in DOMAIN got
             /\ got[old[i].set].owner = key
             /\ got[old[i].set].version = old[i].version
             /\ \A m \in 1 .. i : old[m].set[1] <= old[i].set[1]
  BY DEF PendingAt, Owned
<1> HIDE DEF q, old, last
<1>5. ASSUME NEW n \in DOMAIN q[key]
      PROVE  /\ q[key][n].set \in DOMAIN got
             /\ got[q[key][n].set].owner = key
             /\ got[q[key][n].set].version = q[key][n].version
             /\ \A m \in 1 .. n : q[key][m].set[1] <= q[key][n].set[1]
  <2>1. CASE n = last BY <1>3, <1>4, <2>1
  <2>2. CASE n # last
    <3>1. n \in DOMAIN old /\ \A m \in 1 .. n : m \in DOMAIN old BY <1>3, <2>2
    <3> QED BY <1>3, <1>4, <3>1
  <2> QED BY <2>1, <2>2
<1>6. ASSUME NEW k \in DOMAIN q, k # key
      PROVE  q[k] = c.pending[k] /\ k \in DOMAIN c.pending
  BY <1>2, <1>6
<1>7. Owned(q, got) BY <1>5, <1>6 DEF Owned
<1> QED BY <1>0, <1>7

LEMMA RowVersionsStep ==
  ASSUME ScanOK, NotYetReceived, RowsHaveOneVersion, Next
  PROVE  RowsHaveOneVersion'
<1>0. /\ \A id \in DOMAIN received : id[1] \in Nat /\ id[1] <= taken
      /\ taken \in Nat
  BY IdFacts DEF ScanOK, ControlTypeOK
<1>1. ASSUME NEW r \in Rows, AnswerWhole(r) PROVE RowsHaveOneVersion'
  <2> DEFINE id == <<taken + 1, 0>>
  <2>1. phase' # "data" BY <1>1 DEF AnswerWhole, AfterDatagram
  <2>2. /\ DOMAIN received' = DOMAIN received \cup {id}
        /\ \A x \in DOMAIN received : x # id => received'[x] = received[x]
    BY <1>1 DEF AnswerWhole, Receive, With
  <2>3. id[1] = taken + 1 OBVIOUS
  <2> HIDE DEF id
  <2>4. ASSUME NEW x \in DOMAIN received', NEW y \in DOMAIN received', x[1] = y[1]
        PROVE  received'[x].version = received'[y].version
    <3>1. CASE x = id
      <4>1. y = id BY <1>0, <2>2, <2>3, <2>4, <3>1
      <4> QED BY <3>1, <4>1
    <3>2. CASE y = id
      <4>1. x = id BY <1>0, <2>2, <2>3, <2>4, <3>2
      <4> QED BY <3>2, <4>1
    <3>3. CASE x # id /\ y # id BY <2>2, <2>4, <3>3 DEF RowsHaveOneVersion
    <3> QED BY <3>1, <3>2, <3>3
  <2> QED BY <2>1, <2>4 DEF RowsHaveOneVersion
<1>2. CASE DecodeDataSet \/ BufferDataSet \/ RefuseDataSet
  <2> DEFINE id == SetId(setIdx)
  <2>1. /\ phase = "data" /\ taken' = taken /\ row' = row
        /\ received' = With(received, id, Arrival(row, CurrentSet.id))
    BY <1>2 DEF DecodeDataSet, BufferDataSet, RefuseDataSet, AtDataSet, NextDataSet,
                Receive
  <2>2. /\ DOMAIN received' = DOMAIN received \cup {id}
        /\ received'[id].version = row.version
        /\ \A x \in DOMAIN received : x # id => received'[x] = received[x]
    BY <2>1 DEF With, Arrival
  <2>3. id[1] = taken BY DEF SetId
  <2> HIDE DEF id
  <2>4. \A x \in DOMAIN received' :
          x[1] = taken => received'[x].version = row.version
    BY <2>1, <2>2 DEF RowsHaveOneVersion
  <2>5. ASSUME NEW x \in DOMAIN received', NEW y \in DOMAIN received', x[1] = y[1]
        PROVE  received'[x].version = received'[y].version
    <3>1. CASE x[1] = taken BY <2>4, <2>5, <3>1
    <3>2. CASE x[1] # taken BY <2>2, <2>3, <2>5, <3>2 DEF RowsHaveOneVersion
    <3> QED BY <3>1, <3>2
  <2> QED BY <2>1, <2>4, <2>5 DEF RowsHaveOneVersion
<1>3. CASE LearnEnd
  BY <1>0, <1>3 DEF LearnEnd, NotYetReceived, RowsHaveOneVersion
<1>4. CASE SkipSet
  BY <1>4 DEF SkipSet, NextDataSet, RowsHaveOneVersion
<1>5. CASE \/ BatchStart \/ FinishScan \/ BatchEnd
           \/ \E r \in Rows : SkipNullRow(r) \/ BeginDatagram(r)
           \/ LearnTemplate \/ LearnNextSet \/ DataEnd \/ RetryEnd \/ Done
           \/ \E key \in retry : RetryKey(key) \/ RetrySkip(key)
  <2>1. phase' # "data" /\ received' = received
    BY <1>5 DEF BatchStart, FinishScan, BatchEnd, ReturnTo, SkipNullRow, BeginDatagram,
                TakeRow, LearnTemplate, LearnNextSet, DataEnd, AfterDatagram, RetryEnd,
                Done, vars, RetryKey, RetrySkip
  <2> QED BY <2>1 DEF RowsHaveOneVersion
<1> QED BY <1>1, <1>2, <1>3, <1>4, <1>5 DEF Next, EngineCall, DecodeRow

LEMMA OwnedStep ==
  ASSUME ScanOK, LayoutsOK, NotYetReceived, OwnedOK, Next
  PROVE  OwnedOK'
<1>0. RowsHaveOneVersion' BY RowVersionsStep DEF OwnedOK
<1>00. CachesOK /\ TokenTypeOK BY DEF ScanOK
<1>1. CASE BatchStart
  BY <1>0, <1>1 DEF BatchStart, load_scan_cache, OwnedOK
<1>2. CASE FinishScan
  <2> DEFINE d == drain_pending(load_scan_cache)
  <2>1. CacheOK(d) /\ d.pending = <<>>
    BY <1>00, DrainOK DEF load_scan_cache, CachesOK
  <2>2. store_scan_cache(d) /\ phase' = "done" /\ phase = "idle" /\ received' = received
    BY <1>2 DEF FinishScan, ReturnTo
  <2> HIDE DEF d
  <2>3. from_bytes(token') = d \/ token' = token BY <1>00, <2>1, <2>2, StoreOK
  <2>4. Owned(from_bytes(token').pending, received')
    BY <2>1, <2>2, <2>3, OwnedEmpty DEF OwnedOK
  <2> QED BY <1>0, <2>2, <2>4 DEF OwnedOK
<1>3. CASE BatchEnd
  <2>1. /\ store_scan_cache(cache) /\ phase' = "idle" /\ phase = "rows"
        /\ received' = received
    BY <1>3 DEF BatchEnd, ReturnTo
  <2>2. Owned(from_bytes(token').pending, received')
    <3>1. CASE HasStorage
      <4>1. from_bytes(token') = cache BY <1>00, <2>1, <3>1, StoreOK DEF CachesOK
      <4> QED BY <2>1, <4>1 DEF OwnedOK
    <3>2. CASE ~HasStorage
      <4>1. from_bytes(token').pending = <<>>
        BY <1>00, <2>1, <3>2, StoreOK, EmptyTokenOK DEF CachesOK, LayoutsOK, NewCache
      <4> QED BY <4>1, OwnedEmpty
    <3> QED BY <3>1, <3>2
  <2> QED BY <1>0, <2>1, <2>2 DEF OwnedOK
<1>4. ASSUME NEW r \in Rows, AnswerWhole(r) PROVE OwnedOK'
  <2> DEFINE id == <<taken + 1, 0>>
  <2>1. /\ phase = "rows" /\ phase' \in {"rows", "retry"} /\ cache' = cache
        /\ \E o : Receive(id, r, 0, o)
    BY <1>4 DEF AnswerWhole, TakeRow, AfterDatagram
  <2>2. id \notin DOMAIN received
    <3>1. id[1] = taken + 1 OBVIOUS
    <3> HIDE DEF id
    <3> QED BY <3>1, IdFacts DEF ScanOK, ControlTypeOK
  <2> HIDE DEF id
  <2>3. Owned(cache.pending, received') BY <2>1, <2>2, OwnedReceive DEF OwnedOK
  <2> QED BY <1>0, <2>1, <2>3 DEF OwnedOK
<1>5. CASE DecodeDataSet \/ RefuseDataSet
  <2>1. AtDataSet /\ phase = "data" /\ phase' = phase
    BY <1>5 DEF DecodeDataSet, RefuseDataSet, AtDataSet, NextDataSet
  <2>2. cache'.pending = cache.pending
    <3>1. CASE DecodeDataSet
      <4>1. cache' = use_template(cache, RowKey(CurrentSet.id), now)
        BY <3>1 DEF DecodeDataSet
      <4> QED BY <4>1 DEF use_template
    <3>2. CASE RefuseDataSet BY <3>2 DEF RefuseDataSet
    <3> QED BY <1>5, <3>1, <3>2
  <2>3. \E o : Receive(SetId(setIdx), row, CurrentSet.id, o)
    <3>1. CASE DecodeDataSet BY <3>1 DEF DecodeDataSet
    <3>2. CASE RefuseDataSet BY <3>2 DEF RefuseDataSet
    <3> QED BY <1>5, <3>1, <3>2
  <2>4. Owned(cache.pending, received')
    BY <2>1, <2>3, FreshAtCursor, OwnedReceive DEF OwnedOK
  <2> QED BY <1>0, <2>1, <2>2, <2>4 DEF OwnedOK
<1>6. CASE BufferDataSet
  <2> DEFINE key == RowKey(CurrentSet.id)
             rec == PendingOf(CurrentSet)
             id == SetId(setIdx)
  <2>1. /\ AtDataSet /\ phase = "data" /\ phase' = phase
        /\ cache' = push_pending(cache, key, rec)
        /\ Receive(id, row, CurrentSet.id, <<>>)
    BY <1>6 DEF BufferDataSet, AtDataSet, NextDataSet
  <2>2. row \in Rows /\ row.version \in Templated /\ taken > 0
    BY <2>1 DEF ScanOK, CursorOK
  <2>3. rec \in PendingRecord /\ CurrentSet.id \in Nat
    BY <2>1, <2>2, DataSetFacts DEF ScanOK
  <2>4. rec.set = id /\ rec.version = row.version /\ id[1] = taken
    BY DEF PendingOf, SetId
  <2>5. /\ DOMAIN received' = DOMAIN received \cup {id}
        /\ received'[id] = Arrival(row, CurrentSet.id)
    BY <2>1 DEF Receive, With
  <2>6. Arrival(row, CurrentSet.id).owner = key
        /\ Arrival(row, CurrentSet.id).version = row.version
    BY <2>2, <2>3, ArrivalFacts DEF RowKey, Arrival
  <2>7. Owned(cache.pending, received')
    BY <2>1, FreshAtCursor, OwnedReceive DEF OwnedOK
  <2>8. \A x \in DOMAIN received' : x[1] <= rec.set[1]
    <3>1. taken \in Nat BY DEF ScanOK, ControlTypeOK
    <3> QED BY <2>4, <2>5, <3>1, IdFacts DEF ScanOK
  <2> HIDE DEF key, rec, id
  <2>9. Owned(push_pending(cache, key, rec).pending, received')
    BY <1>00, <2>3, <2>4, <2>5, <2>6, <2>7, <2>8, OwnedPush DEF CachesOK
  <2> QED BY <1>0, <2>1, <2>9 DEF OwnedOK
<1>7. ASSUME NEW key \in retry, RetryKey(key) PROVE OwnedOK'
  <2>1. /\ phase = "retry" /\ phase' = phase /\ received' = received
        /\ cache' = take_pending(use_template(cache, key, now), key)
    BY <1>7 DEF RetryKey
  <2>2. use_template(cache, key, now).pending = cache.pending BY DEF use_template
  <2>3. cache'.pending = cache.pending \/ cache'.pending = Without(cache.pending, key)
    BY <2>1, <2>2 DEF take_pending
  <2>4. Owned(cache'.pending, received)
    BY <2>1, <2>3, OwnedWithout DEF OwnedOK
  <2> QED BY <1>0, <2>1, <2>4 DEF OwnedOK
<1>8. CASE LearnTemplate
  <2>1. phase = "learn" /\ phase' = phase /\ cache'.pending = cache.pending
        /\ received' = received
    BY <1>8 DEF LearnTemplate, upsert
  <2> QED BY <1>0, <2>1 DEF OwnedOK
<1>9. CASE \/ \E r \in Rows : SkipNullRow(r) \/ BeginDatagram(r)
           \/ LearnNextSet \/ LearnEnd \/ SkipSet \/ DataEnd \/ RetryEnd
           \/ \E key \in retry : RetrySkip(key)
  <2>1. /\ phase \notin {"idle", "done"} /\ phase' \notin {"idle", "done"}
        /\ cache' = cache /\ received' = received
    BY <1>9 DEF SkipNullRow, BeginDatagram, TakeRow, LearnNextSet, LearnEnd, SkipSet,
                NextDataSet, DataEnd, AfterDatagram, RetryEnd, RetrySkip
  <2> QED BY <1>0, <2>1 DEF OwnedOK
<1>10. CASE Done
  BY <1>0, <1>10 DEF Done, vars, OwnedOK
<1> QED BY <1>1, <1>2, <1>3, <1>4, <1>5, <1>6, <1>7, <1>8, <1>9, <1>10
        DEF Next, EngineCall, DecodeRow

LEMMA OwnedInvariant == Spec => []OwnedOK
<1>1. ScanOK /\ LayoutsOK /\ NotYetReceived /\ OwnedOK /\ [Next]_vars => OwnedOK'
  <2> SUFFICES ASSUME ScanOK, LayoutsOK, NotYetReceived, OwnedOK, [Next]_vars
               PROVE  OwnedOK'
    OBVIOUS
  <2>1. CASE Next BY <2>1, OwnedStep
  <2>2. CASE UNCHANGED vars BY <2>2 DEF vars, OwnedOK, RowsHaveOneVersion
  <2> QED BY <2>1, <2>2
<1>2. Init => OwnedOK
  <2> SUFFICES ASSUME Init PROVE OwnedOK OBVIOUS
  <2>1. phase = "idle" /\ received = <<>> /\ from_bytes(token).pending = <<>>
    BY EmptyTokenOK DEF Init, NewCache
  <2> QED BY <2>1, OwnedEmpty DEF OwnedOK, RowsHaveOneVersion
<1> QED BY <1>1, <1>2, ScanInvariant, LayoutsInvariant, NotYetReceivedInvariant, PTL
        DEF Spec

-----------------------------------------------------------------------------
(* What a retry answers.                                                   *)

\* What retry_pending answers: each data set of the key with its own version.
LEMMA RetryAnswerFacts ==
  ASSUME NEW p, NEW got, Owned(p, got), NEW key \in DOMAIN p, NEW layout,
         NEW id \in DOMAIN RetryAnswers(p[key], layout)
  PROVE  /\ id \in DOMAIN got /\ got[id].owner = key
         /\ RetryAnswers(p[key], layout)[id].layout = layout
         /\ RetryAnswers(p[key], layout)[id].version = got[id].version
<1> DEFINE recs == p[key]
           n == CHOOSE n \in DOMAIN recs : recs[n].set = id
<1>1. id \in SetsOf(recs) BY DEF RetryAnswers
<1>2. n \in DOMAIN recs /\ recs[n].set = id BY <1>1 DEF SetsOf
<1>3. RecordOf(recs, id) = recs[n] BY DEF RecordOf
<1> HIDE DEF n
<1>4. RetryAnswers(recs, layout)[id] =
        DecodedOutcome(layout, recs[n].version, row.flows_only)
  BY <1>1, <1>3 DEF RetryAnswers
<1>5. /\ RetryAnswers(recs, layout)[id].layout = layout
      /\ RetryAnswers(recs, layout)[id].version = recs[n].version
  BY <1>4 DEF DecodedOutcome
<1> QED BY <1>2, <1>5 DEF Owned

-----------------------------------------------------------------------------
(* Every decoded data set is decoded with its own template.                *)

LEMMA DecodesStep ==
  ASSUME ScanOK, LayoutsOK, NotYetReceived, OwnedOK, Next
  PROVE  DecodesWithOwner
<1>0. /\ HistoryTypeOK /\ DOMAIN out = DOMAIN received
      /\ \A id \in DOMAIN out : out[id] \in Seq(Outcome)
  BY DEF ScanOK, HistoryTypeOK
<1>1. CASE FinishScan
  <2> DEFINE p == load_scan_cache.pending
  <2>1. Emit(FlushAnswers(p)) BY <1>1 DEF FinishScan
  <2>2. \A id \in DOMAIN FlushAnswers(p) : FlushAnswers(p)[id].how = "missing"
    BY DEF FlushAnswers, Plain
  <2> HIDE DEF p
  <2>3. \A id \in DOMAIN out : \A n \in DOMAIN out'[id] :
          n \in DOMAIN out[id] \/ out'[id][n].how = "missing"
    BY <1>0, <2>1, <2>2, EmitAdds
  <2>4. DOMAIN out' = DOMAIN out BY <2>1 DEF Emit
  <2>5. \A id \in DOMAIN out : out'[id] \in Seq(Outcome)
    BY <2>4, HistoryStep DEF HistoryTypeOK
  <2> QED BY <1>0, <2>3, <2>4, <2>5 DEF DecodesWithOwner
<1>2. ASSUME NEW r \in Rows, AnswerWhole(r) PROVE DecodesWithOwner
  <2> DEFINE id == <<taken + 1, 0>>
             o == Plain(IF Accepts(r.version) /\ r.shape = "ok"
                        THEN "stateless" ELSE "rejected", r.version)
  <2>1. Receive(id, r, 0, <<o>>) /\ id \notin DOMAIN received
    BY <1>2, FreshRow DEF AnswerWhole
  <2>2. o.how \in {"stateless", "rejected"} BY DEF Plain
  <2> HIDE DEF id, o
  <2>3. /\ DOMAIN out' = DOMAIN out \cup {id} /\ out'[id] = <<o>>
        /\ \A x \in DOMAIN out : out'[x] = out[x]
    BY <1>0, <2>1, ReceiveAdds
  <2> QED BY <1>0, <2>2, <2>3 DEF DecodesWithOwner
<1>3. CASE DecodeDataSet
  <2> DEFINE id == SetId(setIdx)
             key == RowKey(CurrentSet.id)
             o == DecodedOutcome(cache.entries[key].layout, row.version, row.flows_only)
  <2>1. /\ AtDataSet /\ key \in DOMAIN cache.entries /\ defined' = defined
        /\ Receive(id, row, CurrentSet.id, <<o>>)
    BY <1>3 DEF DecodeDataSet, NextDataSet
  <2>2. phase = "data" /\ row \in Rows /\ row.version \in Templated /\ taken > 0
    BY <2>1 DEF AtDataSet, ScanOK, CursorOK
  <2>3. CurrentSet.id \in Nat BY <2>1, <2>2, DataSetFacts DEF ScanOK
  <2>4. Arrival(row, CurrentSet.id).owner = key
    BY <2>2, <2>3, ArrivalFacts DEF RowKey
  <2>5. o.layout = cache.entries[key].layout BY DEF DecodedOutcome
  <2>6. key \in DOMAIN defined /\ cache.entries[key].layout = defined[key]
    BY <2>1, <2>2 DEF LayoutsOK, Matches
  <2>7. id \notin DOMAIN received BY <2>1, FreshAtCursor
  <2> HIDE DEF id, key, o
  <2>8. /\ DOMAIN out' = DOMAIN out \cup {id} /\ id \notin DOMAIN out
        /\ out'[id] = <<o>> /\ received'[id].owner = key
        /\ \A x \in DOMAIN out : out'[x] = out[x]
    BY <1>0, <2>1, <2>4, <2>7, ReceiveAdds
  <2>9. ASSUME NEW x \in DOMAIN out,
               NEW n \in Len(out[x]) + 1 .. Len(out'[x])
        PROVE  FALSE
    BY <1>0, <2>8
  <2>10. ASSUME NEW n \in 1 .. Len(out'[id])
         PROVE  out'[id][n] = o
    BY <2>8
  <2> QED BY <2>1, <2>5, <2>6, <2>8, <2>9, <2>10 DEF DecodesWithOwner
<1>4. CASE BufferDataSet \/ RefuseDataSet
  <2> DEFINE id == SetId(setIdx)
  <2>1. PICK outcomes : /\ Receive(id, row, CurrentSet.id, outcomes)
                        /\ \/ outcomes = <<>>
                           \/ outcomes = <<Plain("missing", row.version)>>
    BY <1>4 DEF BufferDataSet, RefuseDataSet
  <2>2. id \notin DOMAIN received
    BY <1>4, FreshAtCursor DEF BufferDataSet, RefuseDataSet
  <2>3. Plain("missing", row.version).how = "missing" BY DEF Plain
  <2> HIDE DEF id
  <2>4. /\ DOMAIN out' = DOMAIN out \cup {id} /\ out'[id] = outcomes
        /\ \A x \in DOMAIN out : out'[x] = out[x]
    BY <1>0, <2>1, <2>2, ReceiveAdds
  <2> QED BY <1>0, <2>1, <2>3, <2>4 DEF DecodesWithOwner
<1>5. ASSUME NEW key \in retry, RetryKey(key) PROVE DecodesWithOwner
  <2> DEFINE layout == cache.entries[key].layout
             answers == RetryAnswers(PendingAt(cache, key), layout)
  <2>1. /\ phase = "retry" /\ key \in DOMAIN cache.entries /\ Emit(answers)
        /\ defined' = defined /\ received' = received
    BY <1>5 DEF RetryKey
  <2>2. key \in DOMAIN defined /\ layout = defined[key]
    BY <2>1 DEF LayoutsOK, Matches
  <2>3. ASSUME NEW id \in DOMAIN answers
        PROVE  received[id].owner = key /\ answers[id].layout = layout
    <3>1. key \in DOMAIN cache.pending BY NoRetryAnswers
    <3>2. PendingAt(cache, key) = cache.pending[key] BY <3>1 DEF PendingAt
    <3> QED BY <2>1, <3>1, <3>2, RetryAnswerFacts DEF OwnedOK
  <2> HIDE DEF layout, answers
  <2>4. DOMAIN out' = DOMAIN out BY <2>1 DEF Emit
  <2>5. \A id \in DOMAIN out : out'[id] \in Seq(Outcome)
    BY <2>4, HistoryStep DEF HistoryTypeOK
  <2>6. \A id \in DOMAIN out : \A n \in DOMAIN out'[id] :
          \/ n \in DOMAIN out[id]
          \/ id \in DOMAIN answers /\ out'[id][n] = answers[id]
    BY <1>0, <2>1, EmitAdds
  <2>7. ASSUME NEW id \in DOMAIN out, NEW n \in Len(out[id]) + 1 .. Len(out'[id])
        PROVE  id \in DOMAIN answers /\ out'[id][n] = answers[id]
    BY <1>0, <2>5, <2>6
  <2> QED BY <2>1, <2>2, <2>3, <2>4, <2>7 DEF DecodesWithOwner
<1>6. CASE \/ BatchStart \/ BatchEnd \/ Done
           \/ \E r \in Rows : SkipNullRow(r) \/ BeginDatagram(r)
           \/ LearnTemplate \/ LearnNextSet \/ LearnEnd \/ SkipSet \/ DataEnd
           \/ RetryEnd \/ \E key \in retry : RetrySkip(key)
  <2>1. out' = out
    BY <1>6 DEF BatchStart, BatchEnd, Done, vars, SkipNullRow, BeginDatagram,
                LearnTemplate, LearnNextSet, LearnEnd, SkipSet, DataEnd, RetryEnd,
                RetrySkip
  <2> QED BY <1>0, <2>1 DEF DecodesWithOwner
<1> QED BY <1>1, <1>2, <1>3, <1>4, <1>5, <1>6 DEF Next, EngineCall, DecodeRow

\* In every scan, with storage or without, a data set is only ever decoded with the
\* layout in force for its own exporter, domain and id at that moment, whether it is
\* decoded on arrival or after waiting in the buffer.  In force is what pass 1 leaves:
\* data that precedes a redefinition in its own datagram gets the later layout.
THEOREM DecodingUsesOwner == Spec => DecodedWithOwnTemplate
<1>1. ScanOK /\ LayoutsOK /\ NotYetReceived /\ OwnedOK /\ [Next]_vars
      => [DecodesWithOwner]_vars
  BY DecodesStep
<1> QED BY <1>1, ScanInvariant, LayoutsInvariant, NotYetReceivedInvariant,
           OwnedInvariant, PTL DEF Spec, DecodedWithOwnTemplate

-----------------------------------------------------------------------------
(* Until finish every answer carries the version of its datagram.          *)

\* An answer with another version is one that finish gave, to data that waited behind
\* an earlier row's data of that other version, under the same template.
OnlyFinishMislabels ==
  \A id \in DOMAIN out : \A n \in DOMAIN out[id] :
    \/ out[id][n].version = received[id].version
    \/ /\ phase = "done" /\ out[id][n].how = "missing"
       /\ \E other \in DOMAIN received :
            /\ received[other].owner = received[id].owner
            /\ received[other].version = out[id][n].version
            /\ other[1] < id[1]

VersionsOK ==
  /\ phase # "done" => FlowVersionIsWireVersion
  /\ OnlyFinishMislabels

\* What finish reports under a key: its first record's version, which is the data
\* set's own or that of an earlier row waiting for the same template.
LEMMA FlushVersions ==
  ASSUME ScanOK, OwnedOK, phase = "idle", NEW id \in AllSets(from_bytes(token).pending)
  PROVE  LET o == FlushAnswers(from_bytes(token).pending)[id] IN
           /\ o.how = "missing"
           /\ \/ o.version = received[id].version
              \/ \E other \in DOMAIN received :
                   /\ received[other].owner = received[id].owner
                   /\ received[other].version = o.version
                   /\ other[1] < id[1]
<1> DEFINE p == from_bytes(token).pending
           k == HolderOf(p, id)
           o == FlushAnswers(p)[id]
           other == p[k][1].set
<1>1. Owned(p, received) BY DEF OwnedOK
<1>2. p \in [DOMAIN p -> Seq(PendingRecord)] BY DEF ScanOK, CachesOK, CacheOK, CacheTypeOK
<1>3. \E j \in DOMAIN p : id \in SetsOf(p[j]) BY DEF AllSets
<1>4. k \in DOMAIN p /\ id \in SetsOf(p[k]) BY <1>3 DEF HolderOf
<1>5. o.how = "missing" /\ o.version = p[k][1].version BY DEF FlushAnswers, Plain
<1> HIDE DEF o, k, p
<1>6. PICK n \in DOMAIN p[k] : p[k][n].set = id BY <1>4 DEF SetsOf
<1>7. p[k] \in Seq(PendingRecord) BY <1>2, <1>4
<1>8. 1 \in DOMAIN p[k] /\ n \in Nat /\ 1 \in 1 .. n BY <1>6, <1>7
<1>9. /\ other \in DOMAIN received /\ id \in DOMAIN received
      /\ received[other].owner = k /\ received[id].owner = k
      /\ received[other].version = o.version
      /\ other[1] <= id[1]
  BY <1>1, <1>4, <1>5, <1>6, <1>8 DEF Owned
<1> HIDE DEF other
<1>10. other[1] \in Nat /\ id[1] \in Nat BY <1>9, IdFacts DEF ScanOK
<1>11. CASE other[1] = id[1]
  <2>1. received[other].version = received[id].version
    BY <1>9, <1>11 DEF OwnedOK, RowsHaveOneVersion
  <2>2. o.version = received[id].version BY <1>9, <2>1
  <2> QED BY <1>5, <2>2 DEF o, p
<1>12. CASE other[1] # id[1]
  <2>1. other[1] < id[1] BY <1>9, <1>10, <1>12
  <2>2. \E y \in DOMAIN received :
          /\ received[y].owner = received[id].owner
          /\ received[y].version = o.version
          /\ y[1] < id[1]
    BY <1>9, <2>1
  <2> QED BY <1>5, <2>2 DEF o, p
<1> QED BY <1>11, <1>12

LEMMA VersionsStep ==
  ASSUME ScanOK, NotYetReceived, OwnedOK, VersionsOK, Next
  PROVE  VersionsOK'
<1>0. HistoryTypeOK /\ DOMAIN out = DOMAIN received BY DEF ScanOK, HistoryTypeOK
<1>a. SUFFICES ASSUME phase # "done"
               PROVE  \/ FlowVersionIsWireVersion'
                      \/ phase' = "done" /\ OnlyFinishMislabels'
  <2>1. CASE phase = "done"
    <3>1. phase' = "done" /\ out' = out /\ received' = received
      BY <2>1 DEF Next, EngineCall, BatchStart, FinishScan, DecodeRow, SkipNullRow,
                  AnswerWhole, BeginDatagram, TakeRow, LearnTemplate, LearnNextSet,
                  LearnEnd, DecodeDataSet, BufferDataSet, RefuseDataSet, AtDataSet,
                  SkipSet, DataEnd, RetryKey, RetrySkip, RetryEnd, BatchEnd, Done, vars
    <3> QED BY <2>1, <3>1 DEF VersionsOK, OnlyFinishMislabels
  <2>2. FlowVersionIsWireVersion' => OnlyFinishMislabels'
    BY DEF FlowVersionIsWireVersion, OnlyFinishMislabels
  <2> QED BY <2>1, <2>2 DEF VersionsOK
<1>b. \A id \in DOMAIN out : \A n \in DOMAIN out[id] :
        out[id][n].version = received[id].version
  BY <1>a DEF VersionsOK, FlowVersionIsWireVersion
<1>1. CASE FinishScan
  <2> DEFINE p == from_bytes(token).pending
             answers == FlushAnswers(p)
  <2>1. phase = "idle" /\ phase' = "done" /\ received' = received /\ Emit(answers)
    BY <1>1 DEF FinishScan, load_scan_cache, ReturnTo
  <2>2. \A id \in DOMAIN answers :
          /\ answers[id].how = "missing"
          /\ \/ answers[id].version = received[id].version
             \/ \E other \in DOMAIN received :
                  /\ received[other].owner = received[id].owner
                  /\ received[other].version = answers[id].version
                  /\ other[1] < id[1]
    <3>1. DOMAIN answers = AllSets(p) BY DEF FlushAnswers
    <3> QED BY <2>1, <3>1, FlushVersions
  <2> HIDE DEF answers
  <2>3. DOMAIN out' = DOMAIN out BY <2>1 DEF Emit
  <2>4. ASSUME NEW id \in DOMAIN out, NEW n \in DOMAIN out'[id]
        PROVE  \/ out'[id][n].version = received'[id].version
               \/ /\ phase' = "done" /\ out'[id][n].how = "missing"
                  /\ \E other \in DOMAIN received' :
                       /\ received'[other].owner = received'[id].owner
                       /\ received'[other].version = out'[id][n].version
                       /\ other[1] < id[1]
    <3>1. CASE n \in DOMAIN out[id] /\ out'[id][n] = out[id][n] BY <1>b, <2>1, <3>1
    <3>2. CASE id \in DOMAIN answers /\ out'[id][n] = answers[id] BY <2>1, <2>2, <3>2
    <3> QED BY <1>0, <2>1, <3>1, <3>2, EmitAdds
  <2>5. OnlyFinishMislabels' BY <2>3, <2>4 DEF OnlyFinishMislabels
  <2> QED BY <2>1, <2>5
\* A data set answered at once is answered with its datagram's version.
<1>2. ASSUME NEW id, id \notin DOMAIN received, NEW r, NEW tid, NEW outcomes,
             Receive(id, r, tid, outcomes),
             \A n \in DOMAIN outcomes : outcomes[n].version = r.version
      PROVE  FlowVersionIsWireVersion'
  <2>1. /\ DOMAIN out' = DOMAIN out \cup {id} /\ out'[id] = outcomes
        /\ received'[id] = Arrival(r, tid)
        /\ \A x \in DOMAIN out : out'[x] = out[x] /\ received'[x] = received[x]
    BY <1>0, <1>2, ReceiveAdds
  <2>2. received'[id].version = r.version BY <2>1 DEF Arrival
  <2> QED BY <1>b, <1>2, <2>1, <2>2 DEF FlowVersionIsWireVersion
<1>3. ASSUME NEW r \in Rows, AnswerWhole(r) PROVE FlowVersionIsWireVersion'
  <2> DEFINE o == Plain(IF Accepts(r.version) /\ r.shape = "ok"
                        THEN "stateless" ELSE "rejected", r.version)
  <2>1. Receive(<<taken + 1, 0>>, r, 0, <<o>>) BY <1>3 DEF AnswerWhole
  <2>2. o.version = r.version BY DEF Plain
  <2> HIDE DEF o
  <2> QED BY <1>2, <2>1, <2>2, FreshRow
<1>4. CASE DecodeDataSet \/ BufferDataSet \/ RefuseDataSet
  <2>1. SetId(setIdx) \notin DOMAIN received
    BY <1>4, FreshAtCursor DEF DecodeDataSet, BufferDataSet, RefuseDataSet
  <2>2. CASE DecodeDataSet
    <3> DEFINE o == DecodedOutcome(cache.entries[RowKey(CurrentSet.id)].layout,
                                   row.version, row.flows_only)
    <3>1. Receive(SetId(setIdx), row, CurrentSet.id, <<o>>) BY <2>2 DEF DecodeDataSet
    <3>2. o.version = row.version BY DEF DecodedOutcome
    <3> HIDE DEF o
    <3> QED BY <1>2, <2>1, <3>1, <3>2
  <2>3. CASE BufferDataSet
    <3>1. Receive(SetId(setIdx), row, CurrentSet.id, <<>>) BY <2>3 DEF BufferDataSet
    <3> QED BY <1>2, <2>1, <3>1
  <2>4. CASE RefuseDataSet
    <3> DEFINE o == Plain("missing", row.version)
    <3>1. Receive(SetId(setIdx), row, CurrentSet.id, <<o>>) BY <2>4 DEF RefuseDataSet
    <3>2. o.version = row.version BY DEF Plain
    <3> HIDE DEF o
    <3> QED BY <1>2, <2>1, <3>1, <3>2
  <2> QED BY <1>4, <2>2, <2>3, <2>4
<1>5. ASSUME NEW key \in retry, RetryKey(key) PROVE FlowVersionIsWireVersion'
  <2> DEFINE layout == cache.entries[key].layout
             answers == RetryAnswers(PendingAt(cache, key), layout)
  <2>1. phase = "retry" /\ Emit(answers) /\ received' = received
    BY <1>5 DEF RetryKey
  <2>2. ASSUME NEW id \in DOMAIN answers
        PROVE  answers[id].version = received[id].version
    <3>1. key \in DOMAIN cache.pending BY NoRetryAnswers
    <3>2. PendingAt(cache, key) = cache.pending[key] BY <3>1 DEF PendingAt
    <3> QED BY <2>1, <3>1, <3>2, RetryAnswerFacts DEF OwnedOK
  <2> HIDE DEF answers
  <2>3. DOMAIN out' = DOMAIN out BY <2>1 DEF Emit
  <2>4. \A id \in DOMAIN out : \A n \in DOMAIN out'[id] :
          \/ n \in DOMAIN out[id] /\ out'[id][n] = out[id][n]
          \/ id \in DOMAIN answers /\ out'[id][n] = answers[id]
    BY <1>0, <2>1, EmitAdds
  <2> QED BY <1>b, <2>1, <2>2, <2>3, <2>4 DEF FlowVersionIsWireVersion
<1>6. CASE \/ BatchStart \/ BatchEnd \/ Done
           \/ \E r \in Rows : SkipNullRow(r) \/ BeginDatagram(r)
           \/ LearnTemplate \/ LearnNextSet \/ LearnEnd \/ SkipSet \/ DataEnd
           \/ RetryEnd \/ \E key \in retry : RetrySkip(key)
  <2>1. out' = out /\ received' = received
    BY <1>6 DEF BatchStart, BatchEnd, Done, vars, SkipNullRow, BeginDatagram,
                LearnTemplate, LearnNextSet, LearnEnd, SkipSet, DataEnd, RetryEnd,
                RetrySkip
  <2> QED BY <1>b, <2>1 DEF FlowVersionIsWireVersion
<1> QED BY <1>1, <1>3, <1>4, <1>5, <1>6 DEF Next, EngineCall, DecodeRow

LEMMA VersionsInvariant == Spec => []VersionsOK
<1>1. ScanOK /\ NotYetReceived /\ OwnedOK /\ VersionsOK /\ [Next]_vars => VersionsOK'
  <2> SUFFICES ASSUME ScanOK, NotYetReceived, OwnedOK, VersionsOK, [Next]_vars
               PROVE  VersionsOK'
    OBVIOUS
  <2>1. CASE Next BY <2>1, VersionsStep
  <2>2. CASE UNCHANGED vars
    BY <2>2 DEF vars, VersionsOK, FlowVersionIsWireVersion, OnlyFinishMislabels
  <2> QED BY <2>1, <2>2
<1>2. Init => VersionsOK
  BY DEF Init, VersionsOK, FlowVersionIsWireVersion, OnlyFinishMislabels
<1> QED BY <1>1, <1>2, ScanInvariant, NotYetReceivedInvariant, OwnedInvariant, PTL DEF Spec

\* In every scan a decoded row carries the version of the datagram its data came in,
\* whichever datagram brought the template (decode_data_set, retry_pending).
THEOREM DecodingKeepsVersions == Spec => []DecodedKeepsVersion
<1>1. VersionsOK => DecodedKeepsVersion
  BY DEF VersionsOK, OnlyFinishMislabels, DecodedKeepsVersion
<1> QED BY <1>1, VersionsInvariant, PTL

\* How far the mislabelling of flush_pending goes: a row's version differs from that of
\* its datagram only if finish reported it missing, and only if data of the other
\* version had waited under its key for longer.
THEOREM MislabelsAreConfined == Spec => []OnlyFinishMislabels
<1>1. VersionsOK => OnlyFinishMislabels BY DEF VersionsOK
<1> QED BY <1>1, VersionsInvariant, PTL

-----------------------------------------------------------------------------
(* The fate of a data set.                                                 *)

\* Either answered once and nowhere buffered, or unanswered and in one place.
FateOf(p, outcomes, id) ==
  \/ Len(outcomes) = 1 /\ BufferPlaces(p, id) = {}
  \/ outcomes = <<>> /\ \E x : BufferPlaces(p, id) = {x}

\* got and o are received and out, before or after a step.
OneFate(p, got, o) ==
  /\ AllSets(p) \subseteq DOMAIN got
  /\ \A id \in DOMAIN got : FateOf(p, o[id], id)

\* The promise is kept by the cache the scan would continue with.
FateOK ==
  /\ phase \in {"idle", "done"} => OneFate(from_bytes(token).pending, received, out)
  /\ phase \notin {"idle", "done"} => OneFate(cache.pending, received, out)
  /\ NotYetReceived

-----------------------------------------------------------------------------
(* Places in the buffer.                                                   *)

LEMMA PlaceFacts ==
  ASSUME NEW p, NEW id, NEW x
  PROVE  x \in BufferPlaces(p, id) <=>
           \E k \in DOMAIN p : \E n \in DOMAIN p[k] :
             p[k][n].set = id /\ x = <<k, n>>
BY DEF BufferPlaces

\* A data set that is not in the buffer has no place in it.
LEMMA NoPlace ==
  ASSUME NEW p, NEW id, id \notin AllSets(p)
  PROVE  BufferPlaces(p, id) = {}
BY PlaceFacts DEF AllSets, SetsOf

LEMMA NoPlaceInEmpty ==
  \A id : BufferPlaces(<<>>, id) = {} /\ AllSets(<<>>) = {}
BY DEF BufferPlaces, AllSets

\* The buffer after a push.
Pushed(c, key, rec) == With(c.pending, key, Append(PendingAt(c, key), rec))

\* The record gets one place and nothing else moves.
OnePlaceMore(p, q, set) ==
  /\ AllSets(q) = AllSets(p) \cup {set}
  /\ \E x : BufferPlaces(q, set) = {x}
  /\ \A id : id # set => BufferPlaces(q, id) = BufferPlaces(p, id)

\* What push_pending does to the places.
LEMMA PlacesAfterPush ==
  ASSUME NEW c, CacheOK(c), NEW key, NEW rec \in PendingRecord,
         rec.set \notin AllSets(c.pending)
  PROVE  OnePlaceMore(c.pending, Pushed(c, key, rec), rec.set)
<1> DEFINE p == Pushed(c, key, rec)
           old == PendingAt(c, key)
           n == Len(old) + 1
<1>1. old \in Seq(PendingRecord) BY DEF PendingAt, CacheOK, CacheTypeOK
<1>2. /\ DOMAIN p = DOMAIN c.pending \cup {key}
      /\ p[key] = Append(old, rec)
      /\ \A k \in DOMAIN c.pending : k # key => p[k] = c.pending[k]
  BY DEF With, Pushed
<1>3. /\ DOMAIN p[key] = DOMAIN old \cup {n}
      /\ \A i \in DOMAIN old : p[key][i] = old[i]
      /\ p[key][n] = rec /\ n \notin DOMAIN old
  BY <1>1, <1>2
<1>4. /\ key \in DOMAIN c.pending => old = c.pending[key]
      /\ key \notin DOMAIN c.pending => DOMAIN old = {}
  BY DEF PendingAt
<1> HIDE DEF p, old, n
\* A place in the new buffer is a place in the old one or the new record's.
<1>5. ASSUME NEW k, NEW m
      PROVE  (k \in DOMAIN p /\ m \in DOMAIN p[k]) <=>
               \/ k \in DOMAIN c.pending /\ m \in DOMAIN c.pending[k]
               \/ k = key /\ m = n
  BY <1>2, <1>3, <1>4
<1>6. ASSUME NEW k \in DOMAIN c.pending, NEW m \in DOMAIN c.pending[k]
      PROVE  p[k][m] = c.pending[k][m]
  BY <1>2, <1>3, <1>4
<1>7. \A k \in DOMAIN c.pending : \A m \in DOMAIN c.pending[k] :
        c.pending[k][m].set \in AllSets(c.pending)
  BY DEF AllSets, SetsOf
<1>8. \A id : id \in AllSets(p) <=>
        \E k \in DOMAIN p : \E m \in DOMAIN p[k] : p[k][m].set = id
  BY DEF AllSets, SetsOf
<1>9. \A id : id \in AllSets(c.pending) <=>
        \E k \in DOMAIN c.pending : \E m \in DOMAIN c.pending[k] :
          c.pending[k][m].set = id
  BY DEF AllSets, SetsOf
<1>10. AllSets(p) = AllSets(c.pending) \cup {rec.set}
  BY <1>3, <1>5, <1>6, <1>8, <1>9
<1>11. BufferPlaces(p, rec.set) = {<<key, n>>}
  <2>1. \A x : x \in BufferPlaces(p, rec.set) <=> x = <<key, n>>
    BY <1>3, <1>5, <1>6, <1>7, PlaceFacts
  <2> QED BY <2>1
<1>12. ASSUME NEW id, id # rec.set
       PROVE  BufferPlaces(p, id) = BufferPlaces(c.pending, id)
  <2>1. \A x : x \in BufferPlaces(p, id) <=> x \in BufferPlaces(c.pending, id)
    BY <1>3, <1>5, <1>6, <1>12, PlaceFacts
  <2> QED BY <2>1
<1> QED BY <1>10, <1>11, <1>12 DEF p, OnePlaceMore

\* What take_pending leaves: the places under the other keys.
LEMMA PlacesAfterTake ==
  ASSUME NEW p, NEW key
  PROVE  LET q == Without(p, key) IN
           /\ AllSets(q) \subseteq AllSets(p)
           /\ \A id, x : x \in BufferPlaces(q, id) <=>
                           x \in BufferPlaces(p, id) /\ x[1] # key
<1> DEFINE q == Without(p, key)
<1>1. DOMAIN q = DOMAIN p \ {key} /\ \A k \in DOMAIN q : q[k] = p[k] BY DEF Without
<1> HIDE DEF q
<1>2. AllSets(q) \subseteq AllSets(p) BY <1>1 DEF AllSets
<1>3. ASSUME NEW id, NEW x
      PROVE  x \in BufferPlaces(q, id) <=> x \in BufferPlaces(p, id) /\ x[1] # key
  BY <1>1, PlaceFacts
<1> QED BY <1>2, <1>3 DEF q

-----------------------------------------------------------------------------
(* Receiving a data set.                                                   *)

\* A data set answered at once: it was never buffered.
LEMMA AnsweredAtOnce ==
  ASSUME HistoryTypeOK, NEW p, OneFate(p, received, out), NEW id, id \notin DOMAIN received,
         NEW r, NEW tid, NEW o, Receive(id, r, tid, <<o>>)
  PROVE  OneFate(p, received', out')
<1>1. DOMAIN received' = DOMAIN received \cup {id}
      /\ out' = With(out, id, <<o>>)
  BY DEF Receive, With
<1>2. DOMAIN out = DOMAIN received BY DEF HistoryTypeOK
<1>3. out'[id] = <<o>> /\ \A x \in DOMAIN received : out'[x] = out[x]
  BY <1>1, <1>2 DEF With
<1>4. BufferPlaces(p, id) = {} BY NoPlace DEF OneFate
<1>5. AllSets(p) \subseteq DOMAIN received' BY <1>1 DEF OneFate
<1>6. ASSUME NEW x \in DOMAIN received' PROVE FateOf(p, out'[x], x)
  <2>1. CASE x = id BY <1>3, <1>4, <2>1 DEF FateOf
  <2>2. CASE x # id BY <1>1, <1>3, <2>2 DEF FateOf, OneFate
  <2> QED BY <2>1, <2>2
<1> QED BY <1>5, <1>6 DEF OneFate

\* A data set that is buffered: it has its one place.
LEMMA Buffered ==
  ASSUME HistoryTypeOK, NEW c, CacheOK(c), OneFate(c.pending, received, out),
         NEW key, NEW rec \in PendingRecord, rec.set \notin DOMAIN received,
         NEW r, NEW tid, Receive(rec.set, r, tid, <<>>)
  PROVE  OneFate(Pushed(c, key, rec), received', out')
<1>1. DOMAIN received' = DOMAIN received \cup {rec.set}
      /\ out' = With(out, rec.set, <<>>)
  BY DEF Receive, With
<1>2. DOMAIN out = DOMAIN received BY DEF HistoryTypeOK
<1>3. out'[rec.set] = <<>> /\ \A x \in DOMAIN received : out'[x] = out[x]
  BY <1>1, <1>2 DEF With
<1>4. rec.set \notin AllSets(c.pending) BY DEF OneFate
<1>5. OnePlaceMore(c.pending, Pushed(c, key, rec), rec.set)
  BY <1>4, PlacesAfterPush
<1>6. AllSets(Pushed(c, key, rec)) \subseteq DOMAIN received'
  BY <1>1, <1>5 DEF OneFate, OnePlaceMore
<1>7. ASSUME NEW id \in DOMAIN received'
      PROVE  FateOf(Pushed(c, key, rec), out'[id], id)
  <2>1. CASE id = rec.set BY <1>3, <1>5, <2>1 DEF OnePlaceMore, FateOf
  <2>2. CASE id # rec.set
    <3>1. id \in DOMAIN received /\ FateOf(c.pending, out[id], id)
      BY <1>1, <2>2 DEF OneFate
    <3> QED BY <1>3, <1>5, <2>2, <3>1 DEF FateOf, OnePlaceMore
  <2> QED BY <2>1, <2>2
<1> QED BY <1>6, <1>7 DEF OneFate

-----------------------------------------------------------------------------
(* Answering what is buffered.                                             *)

\* The buffered data sets in S are answered and leave the buffer together; the
\* others keep their places.
LEMMA Answered ==
  ASSUME HistoryTypeOK, NEW p, OneFate(p, received, out), NEW q, NEW answers, Emit(answers),
         received' = received, DOMAIN answers \subseteq AllSets(p),
         \A id \in DOMAIN answers : BufferPlaces(q, id) = {},
         \A id : id \notin DOMAIN answers => BufferPlaces(q, id) = BufferPlaces(p, id),
         AllSets(q) \subseteq AllSets(p)
  PROVE  OneFate(q, received', out')
<1>1. DOMAIN out = DOMAIN received /\ out \in [DOMAIN received -> Seq(Outcome)]
  BY DEF HistoryTypeOK
<1>2. \A id \in DOMAIN received :
        out'[id] = IF id \in DOMAIN answers THEN Append(out[id], answers[id])
                   ELSE out[id]
  BY <1>1 DEF Emit
<1>3. ASSUME NEW id \in DOMAIN received PROVE FateOf(q, out'[id], id)
  <2>1. CASE id \in DOMAIN answers
    <3>1. BufferPlaces(p, id) # {}
      <4>1. PICK k \in DOMAIN p : id \in SetsOf(p[k]) BY <2>1 DEF AllSets
      <4>2. PICK n \in DOMAIN p[k] : p[k][n].set = id BY <4>1 DEF SetsOf
      <4>3. <<k, n>> \in BufferPlaces(p, id) BY <4>2, PlaceFacts
      <4> QED BY <4>3
    <3>2. out[id] = <<>> BY <3>1 DEF OneFate, FateOf
    <3>3. out'[id] = Append(<<>>, answers[id]) BY <1>2, <2>1, <3>2
    <3>4. Len(out'[id]) = 1 BY <3>3
    <3> QED BY <2>1, <3>4 DEF FateOf
  <2>2. CASE id \notin DOMAIN answers BY <1>2, <2>2 DEF OneFate, FateOf
  <2> QED BY <2>1, <2>2
<1> QED BY <1>3 DEF OneFate

\* take_pending removes exactly the data sets it hands to the retry.
LEMMA Taken ==
  ASSUME NEW p, NEW key \in DOMAIN p, OneFate(p, received, out)
  PROVE  /\ SetsOf(p[key]) \subseteq AllSets(p)
         /\ \A id \in SetsOf(p[key]) : BufferPlaces(Without(p, key), id) = {}
         /\ \A id : id \notin SetsOf(p[key]) =>
              BufferPlaces(Without(p, key), id) = BufferPlaces(p, id)
         /\ AllSets(Without(p, key)) \subseteq AllSets(p)
<1> DEFINE q == Without(p, key)
<1>1. /\ AllSets(q) \subseteq AllSets(p)
      /\ \A id, x : x \in BufferPlaces(q, id) <=> x \in BufferPlaces(p, id) /\ x[1] # key
  BY PlacesAfterTake
<1> HIDE DEF q
<1>2. SetsOf(p[key]) \subseteq AllSets(p) BY DEF AllSets
<1>3. ASSUME NEW id \in SetsOf(p[key]) PROVE BufferPlaces(q, id) = {}
  <2>1. PICK n \in DOMAIN p[key] : p[key][n].set = id BY DEF SetsOf
  <2>2. <<key, n>> \in BufferPlaces(p, id) BY <2>1, PlaceFacts
  <2>3. id \in DOMAIN received BY <1>2 DEF OneFate
  <2>4. PICK x : BufferPlaces(p, id) = {x} BY <2>2, <2>3 DEF OneFate, FateOf
  <2>5. x = <<key, n>> BY <2>2, <2>4
  <2>6. x[1] = key BY <2>5
  <2> QED BY <1>1, <2>4, <2>6
<1>4. ASSUME NEW id, id \notin SetsOf(p[key])
      PROVE  BufferPlaces(q, id) = BufferPlaces(p, id)
  <2>1. ASSUME NEW x \in BufferPlaces(p, id) PROVE x[1] # key
    <3>1. PICK k \in DOMAIN p : \E n \in DOMAIN p[k] : p[k][n].set = id /\ x = <<k, n>>
      BY PlaceFacts
    <3>2. x[1] = k BY <3>1
    <3> QED BY <1>4, <3>1, <3>2 DEF SetsOf
  <2> QED BY <1>1, <2>1
<1> QED BY <1>1, <1>2, <1>3, <1>4 DEF q

-----------------------------------------------------------------------------
(* Every step keeps the promise.                                           *)

\* The data set at the cursor is new, and the buffer is the one in memory.
LEMMA AtCursor ==
  ASSUME ScanOK, FateOK, AtDataSet
  PROVE  /\ SetId(setIdx) \notin DOMAIN received
         /\ OneFate(cache.pending, received, out)
         /\ PendingOf(CurrentSet) \in PendingRecord
         /\ PendingOf(CurrentSet).set = SetId(setIdx)
<1>1. phase = "data" BY DEF AtDataSet
<1>5. SetId(setIdx) \notin DOMAIN received BY FreshAtCursor DEF FateOK
<1>6. row \in Rows /\ row.version \in Templated /\ taken > 0
  BY <1>1 DEF ScanOK, CursorOK
<1>7. PendingOf(CurrentSet) \in PendingRecord BY <1>6, DataSetFacts DEF ScanOK
<1> QED BY <1>1, <1>5, <1>7 DEF FateOK, PendingOf

LEMMA FateStep ==
  ASSUME ScanOK, FateOK, HasStorage, Next
  PROVE  FateOK'
<1>0. HistoryTypeOK /\ CachesOK /\ TokenTypeOK BY DEF ScanOK
<1>1. NotYetReceived' BY NotYetReceivedStep DEF FateOK
<1>2. CASE BatchStart
  BY <1>1, <1>2 DEF BatchStart, load_scan_cache, FateOK
<1>3. CASE FinishScan
  <2> DEFINE p == from_bytes(token).pending
             answers == FlushAnswers(p)
  <2>1. phase = "idle" /\ phase' = "done" /\ received' = received /\ Emit(answers)
        /\ store_scan_cache(drain_pending(from_bytes(token)))
    BY <1>3 DEF FinishScan, load_scan_cache, ReturnTo
  <2>2. OneFate(p, received, out) BY <2>1 DEF FateOK
  <2>3. DOMAIN answers = AllSets(p) BY DEF FlushAnswers
  <2>4. from_bytes(token').pending = <<>>
    <3>1. CacheOK(drain_pending(from_bytes(token))) BY <1>0, DrainOK DEF CachesOK
    <3>2. from_bytes(token') = drain_pending(from_bytes(token))
      BY <1>0, <2>1, <3>1, StoreOK
    <3> QED BY <3>2 DEF drain_pending
  <2> HIDE DEF answers
  <2>5. \A id : id \notin DOMAIN answers => BufferPlaces(<<>>, id) = BufferPlaces(p, id)
    BY <2>3, NoPlace, NoPlaceInEmpty
  <2>6. \A id \in DOMAIN answers : BufferPlaces(<<>>, id) = {} BY NoPlaceInEmpty
  <2>7. AllSets(<<>>) \subseteq AllSets(p) BY NoPlaceInEmpty
  <2>8. DOMAIN answers \subseteq AllSets(p) BY <2>3
  <2> HIDE DEF p
  <2>9. OneFate(<<>>, received', out')
    BY <1>0, <2>1, <2>2, <2>5, <2>6, <2>7, <2>8, Answered
  <2> QED BY <1>1, <2>1, <2>4, <2>9 DEF FateOK
<1>4. CASE BatchEnd
  <2>1. phase = "rows" /\ phase' = "idle" /\ received' = received /\ out' = out
        /\ store_scan_cache(cache)
    BY <1>4 DEF BatchEnd, ReturnTo
  <2>2. from_bytes(token') = cache BY <1>0, <2>1, StoreOK DEF CachesOK
  <2> QED BY <1>1, <2>1, <2>2 DEF FateOK
<1>5. ASSUME NEW r \in Rows, AnswerWhole(r) PROVE FateOK'
  <2> DEFINE id == <<taken + 1, 0>>
             o == Plain(IF Accepts(r.version) /\ r.shape = "ok"
                        THEN "stateless" ELSE "rejected", r.version)
  <2>1. phase = "rows" /\ phase' \in {"rows", "retry"} /\ cache' = cache
        /\ Receive(id, r, 0, <<o>>)
    BY <1>5 DEF AnswerWhole, TakeRow, AfterDatagram
  <2>2. id \notin DOMAIN received BY FreshRow
  <2>3. OneFate(cache.pending, received, out) BY <2>1 DEF FateOK
  <2> HIDE DEF id, o
  <2>4. OneFate(cache.pending, received', out')
    BY <1>0, <2>1, <2>2, <2>3, AnsweredAtOnce
  <2> QED BY <1>1, <2>1, <2>4 DEF FateOK
<1>6. CASE DecodeDataSet \/ RefuseDataSet
  <2>1. AtDataSet /\ phase' = phase /\ phase = "data" /\ cache'.pending = cache.pending
    <3>1. AtDataSet /\ phase' = phase /\ phase = "data"
      BY <1>6 DEF DecodeDataSet, RefuseDataSet, NextDataSet, AtDataSet
    <3>2. CASE DecodeDataSet
      <4>1. cache' = use_template(cache, RowKey(CurrentSet.id), now)
        BY <3>2 DEF DecodeDataSet
      <4> QED BY <3>1, <4>1 DEF use_template
    <3>3. CASE RefuseDataSet BY <3>1, <3>3 DEF RefuseDataSet
    <3> QED BY <1>6, <3>2, <3>3
  <2>2. PICK o : Receive(SetId(setIdx), row, CurrentSet.id, <<o>>)
    BY <1>6 DEF DecodeDataSet, RefuseDataSet
  <2>3. SetId(setIdx) \notin DOMAIN received /\ OneFate(cache.pending, received, out)
    BY <2>1, AtCursor
  <2>4. OneFate(cache.pending, received', out')
    BY <1>0, <2>2, <2>3, AnsweredAtOnce
  <2> QED BY <1>1, <2>1, <2>4 DEF FateOK
<1>7. CASE BufferDataSet
  <2> DEFINE key == RowKey(CurrentSet.id)
             rec == PendingOf(CurrentSet)
  <2>1. AtDataSet /\ phase' = phase /\ phase = "data"
        /\ cache' = push_pending(cache, key, rec)
        /\ Receive(SetId(setIdx), row, CurrentSet.id, <<>>)
    BY <1>7 DEF BufferDataSet, NextDataSet, AtDataSet
  <2>2. /\ rec.set \notin DOMAIN received /\ OneFate(cache.pending, received, out)
        /\ rec \in PendingRecord /\ rec.set = SetId(setIdx)
    BY <2>1, AtCursor
  <2> HIDE DEF key, rec
  <2>3. OneFate(Pushed(cache, key, rec), received', out')
    BY <1>0, <2>1, <2>2, Buffered DEF CachesOK
  <2>4. cache'.pending = Pushed(cache, key, rec)
    BY <2>1 DEF push_pending, Pushed
  <2> QED BY <1>1, <2>1, <2>3, <2>4 DEF FateOK
<1>8. ASSUME NEW key \in retry, RetryKey(key) PROVE FateOK'
  <2> DEFINE answers == RetryAnswers(PendingAt(cache, key), cache.entries[key].layout)
             p == cache.pending
  <2>1. phase = "retry" /\ phase' = phase /\ received' = received /\ Emit(answers)
        /\ cache' = take_pending(use_template(cache, key, now), key)
    BY <1>8 DEF RetryKey
  <2>2. OneFate(p, received, out) BY <2>1 DEF FateOK
  <2>3. use_template(cache, key, now).pending = p BY DEF use_template
  <2>4. DOMAIN answers = SetsOf(PendingAt(cache, key)) BY DEF RetryAnswers
  <2>5. CASE key \in DOMAIN p
    <3>1. cache'.pending = Without(p, key) BY <2>1, <2>3, <2>5 DEF take_pending
    <3>2. DOMAIN answers = SetsOf(p[key]) BY <2>4, <2>5 DEF PendingAt
    <3> HIDE DEF answers, p
    <3>3. /\ DOMAIN answers \subseteq AllSets(p)
          /\ \A id \in DOMAIN answers : BufferPlaces(Without(p, key), id) = {}
          /\ \A id : id \notin DOMAIN answers =>
               BufferPlaces(Without(p, key), id) = BufferPlaces(p, id)
          /\ AllSets(Without(p, key)) \subseteq AllSets(p)
      BY <2>2, <2>5, <3>2, Taken
    <3>4. OneFate(Without(p, key), received', out')
      BY <1>0, <2>1, <2>2, <3>3, Answered
    <3> QED BY <1>1, <2>1, <3>1, <3>4 DEF FateOK
  <2>6. CASE key \notin DOMAIN p
    <3>1. cache'.pending = p BY <2>1, <2>3, <2>6 DEF take_pending
    <3>2. PendingAt(cache, key) = <<>> BY <2>6 DEF PendingAt
    <3>3. SetsOf(<<>>) = {} BY DEF SetsOf
    <3>4. DOMAIN answers = {} BY <2>4, <3>2, <3>3
    <3> HIDE DEF answers
    <3>5. out' = out BY <1>0, <2>1, <3>4 DEF Emit, HistoryTypeOK
    <3> QED BY <1>1, <2>1, <2>2, <3>1, <3>5 DEF FateOK
  <2> QED BY <2>5, <2>6
<1>9. CASE LearnTemplate
  <2>1. phase = "learn" /\ phase' = phase /\ cache'.pending = cache.pending
        /\ received' = received /\ out' = out
    BY <1>9 DEF LearnTemplate, upsert
  <2> QED BY <1>1, <2>1 DEF FateOK
<1>10. CASE \/ \E r \in Rows : SkipNullRow(r) \/ BeginDatagram(r)
            \/ LearnNextSet \/ LearnEnd \/ SkipSet \/ DataEnd \/ RetryEnd
            \/ \E key \in retry : RetrySkip(key)
  <2>1. /\ phase \notin {"idle", "done"} /\ phase' \notin {"idle", "done"}
        /\ cache' = cache /\ received' = received /\ out' = out
    BY <1>10 DEF SkipNullRow, BeginDatagram, TakeRow, LearnNextSet, LearnEnd, SkipSet,
                 NextDataSet, DataEnd, AfterDatagram, RetryEnd, RetrySkip
  <2> QED BY <1>1, <2>1 DEF FateOK
<1>11. CASE Done
  BY <1>1, <1>11 DEF Done, vars, FateOK
<1> QED BY <1>2, <1>3, <1>4, <1>5, <1>6, <1>7, <1>8, <1>9, <1>10, <1>11
        DEF Next, EngineCall, DecodeRow

-----------------------------------------------------------------------------
(* The theorem.                                                            *)

LEMMA FateInit == Init => FateOK
<1> SUFFICES ASSUME Init PROVE FateOK OBVIOUS
<1>1. phase = "idle" /\ received = <<>> /\ from_bytes(token) = NewCache
  BY EmptyTokenOK DEF Init
<1>2. DOMAIN <<>> = {} OBVIOUS
<1>3. NewCache.pending = <<>> BY DEF NewCache
<1> QED BY <1>1, <1>2, <1>3, NoPlaceInEmpty DEF FateOK, OneFate, NotYetReceived

\* One fate in the sense of the invariant is one fate in numbers.
LEMMA FateCounts ==
  ASSUME NEW p, NEW outcomes, NEW id, FateOf(p, outcomes, id)
  PROVE  Len(outcomes) + Cardinality(BufferPlaces(p, id)) = 1
<1>1. CASE Len(outcomes) = 1 /\ BufferPlaces(p, id) = {} BY <1>1, FS_EmptySet
<1>2. CASE outcomes = <<>> /\ \E x : BufferPlaces(p, id) = {x}
  <2>1. PICK x : BufferPlaces(p, id) = {x} BY <1>2
  <2>2. Cardinality(BufferPlaces(p, id)) = 1 BY <2>1, FS_Singleton
  <2>3. Len(outcomes) = 0 BY <1>2
  <2> QED BY <2>2, <2>3
<1> QED BY <1>1, <1>2 DEF FateOf

LEMMA FateInvariant == ASSUME HasStorage PROVE Spec => []FateOK
<1>1. ScanOK /\ FateOK /\ [Next]_vars => FateOK'
  <2> SUFFICES ASSUME ScanOK, FateOK, [Next]_vars PROVE FateOK' OBVIOUS
  <2>1. CASE Next BY <2>1, FateStep
  <2>2. CASE UNCHANGED vars BY <2>2 DEF vars, FateOK, NotYetReceived
  <2> QED BY <2>1, <2>2
<1> QED BY <1>1, FateInit, ScanInvariant, PTL DEF Spec

\* With scan state to keep the cache in, no data set is lost and none is answered
\* twice: through retries, refusals of a full buffer, evictions, redefinitions and
\* rehydrations, each is buffered in one place or has been answered once.
THEOREM NoDataSetLost == ASSUME HasStorage PROVE Spec => []ExactlyOneFate
<1>1. FateOK => ExactlyOneFate
  <2> SUFFICES ASSUME FateOK PROVE ExactlyOneFate OBVIOUS
  <2>1. OneFate(Live.pending, received, out) BY DEF FateOK, Live
  <2> QED BY <2>1, FateCounts DEF OneFate, ExactlyOneFate
<1> QED BY <1>1, FateInvariant, PTL

-----------------------------------------------------------------------------
(* Every step of the scan is a step of FlowPromise.                        *)

\* The refinement mapping of FlowScan, on a buffer and a history.
Mapped(p, got, o) ==
  [id \in DOMAIN got |->
     IF BufferPlaces(p, id) # {} THEN "owed"
     ELSE IF Len(o[id]) = 1 THEN o[id][1].how ELSE "lost"]

\* A fate can be read off the answers alone.
FateFrom(got, o) ==
  [id \in DOMAIN got |-> IF o[id] = <<>> THEN "owed" ELSE o[id][1].how]

LEMMA MappedIsFate ==
  ASSUME NEW p, NEW got, NEW o, OneFate(p, got, o)
  PROVE  Mapped(p, got, o) = FateFrom(got, o)
<1> SUFFICES ASSUME NEW id \in DOMAIN got
             PROVE  Mapped(p, got, o)[id] = FateFrom(got, o)[id]
  BY DEF Mapped, FateFrom
<1>1. CASE Len(o[id]) = 1 /\ BufferPlaces(p, id) = {}
  <2>1. o[id] # <<>> BY <1>1
  <2> QED BY <1>1, <2>1 DEF Mapped, FateFrom
<1>2. CASE o[id] = <<>> /\ \E x : BufferPlaces(p, id) = {x}
  <2>1. BufferPlaces(p, id) # {} BY <1>2
  <2> QED BY <1>2, <2>1 DEF Mapped, FateFrom
<1> QED BY <1>1, <1>2 DEF OneFate, FateOf

fate == FateFrom(received, out)
closed == phase = "done"

\* The steps of FlowPromise on those two.
Arrive(id) ==
  /\ ~closed /\ id \notin DOMAIN fate
  /\ \E f \in Hows \cup {"owed"} : fate' = With(fate, id, f)
  /\ closed' = closed

Resolve ==
  /\ ~closed
  /\ \E S \in SUBSET DOMAIN fate, f \in {"decoded", "filtered"} :
       /\ S # {} /\ \A x \in S : fate[x] = "owed"
       /\ fate' = [x \in DOMAIN fate |-> IF x \in S THEN f ELSE fate[x]]
  /\ closed' = closed

Close ==
  /\ ~closed /\ closed'
  /\ fate' = [x \in DOMAIN fate |->
                IF fate[x] = "owed" THEN "missing" ELSE fate[x]]

PromiseStep ==
  \/ \E id \in SetIds : Arrive(id)
  \/ Resolve
  \/ Close
  \/ fate' = fate /\ closed' = closed

LEMMA ArriveStep ==
  ASSUME HistoryTypeOK, HistoryTypeOK', phase # "done", phase' # "done",
         NEW id, id \notin DOMAIN received, NEW r, NEW tid, NEW outcomes,
         Receive(id, r, tid, outcomes),
         outcomes = <<>> \/ outcomes[1].how \in Hows
  PROVE  PromiseStep
<1> DEFINE f == IF outcomes = <<>> THEN "owed" ELSE outcomes[1].how
<1>1. /\ DOMAIN received' = DOMAIN received \cup {id} /\ out'[id] = outcomes
      /\ \A x \in DOMAIN received : out'[x] = out[x]
      /\ DOMAIN received' \subseteq SetIds
  BY ReceiveAdds DEF HistoryTypeOK
<1>2. f \in Hows \cup {"owed"} OBVIOUS
<1>3. fate' = With(fate, id, f) BY <1>1 DEF fate, FateFrom, With
<1>4. id \notin DOMAIN fate BY DEF fate, FateFrom
<1>5. ~closed /\ closed' = closed BY DEF closed
<1> HIDE DEF f
<1>6. Arrive(id) BY <1>2, <1>3, <1>4, <1>5 DEF Arrive
<1> QED BY <1>1, <1>6 DEF PromiseStep

\* Buffered data sets are answered: the fates of those, and only those, change.
LEMMA EmitStep ==
  ASSUME HistoryTypeOK, NEW p, OneFate(p, received, out), NEW answers, Emit(answers),
         received' = received, DOMAIN answers \subseteq AllSets(p)
  PROVE  /\ DOMAIN answers \subseteq DOMAIN fate
         /\ \A id \in DOMAIN answers : fate[id] = "owed"
         /\ fate' = [x \in DOMAIN fate |->
                       IF x \in DOMAIN answers THEN answers[x].how ELSE fate[x]]
<1>1. DOMAIN out = DOMAIN received /\ DOMAIN fate = DOMAIN received
  BY DEF HistoryTypeOK, fate, FateFrom
<1>2. DOMAIN answers \subseteq DOMAIN received BY DEF OneFate
<1>3. ASSUME NEW id \in DOMAIN answers
      PROVE  out[id] = <<>> /\ out'[id] # <<>> /\ out'[id][1] = answers[id]
  <2>1. BufferPlaces(p, id) # {}
    <3>1. PICK k \in DOMAIN p : id \in SetsOf(p[k]) BY DEF AllSets
    <3>2. PICK n \in DOMAIN p[k] : p[k][n].set = id BY <3>1 DEF SetsOf
    <3>3. <<k, n>> \in BufferPlaces(p, id) BY <3>2, PlaceFacts
    <3> QED BY <3>3
  <2>2. out[id] = <<>> BY <1>2, <2>1 DEF OneFate, FateOf
  <2>3. out'[id] = Append(<<>>, answers[id]) BY <1>1, <1>2, <2>2 DEF Emit
  <2>4. Append(<<>>, answers[id]) = <<answers[id]>> OBVIOUS
  <2> QED BY <2>2, <2>3, <2>4
<1>4. \A id \in DOMAIN received : id \notin DOMAIN answers => out'[id] = out[id]
  BY <1>1 DEF Emit
<1>5. ASSUME NEW x \in DOMAIN fate
      PROVE  fate'[x] = IF x \in DOMAIN answers THEN answers[x].how ELSE fate[x]
  BY <1>1, <1>3, <1>4 DEF fate, FateFrom
<1>6. fate' = [x \in DOMAIN fate |->
                 IF x \in DOMAIN answers THEN answers[x].how ELSE fate[x]]
  BY <1>1, <1>5 DEF fate, FateFrom
<1> QED BY <1>1, <1>2, <1>3, <1>6 DEF fate, FateFrom
\* A retry gives every data set of the key the same answer.
LEMMA RetryHow ==
  ASSUME NEW recs, NEW layout
  PROVE  \E f \in {"decoded", "filtered"} :
           \A id \in DOMAIN RetryAnswers(recs, layout) :
             RetryAnswers(recs, layout)[id].how = f
<1> DEFINE f == IF row.flows_only /\ layout.kind = "options"
                THEN "filtered" ELSE "decoded"
<1>1. \A id \in DOMAIN RetryAnswers(recs, layout) :
        RetryAnswers(recs, layout)[id].how = f
  BY DEF RetryAnswers, DecodedOutcome
<1> QED BY <1>1

LEMMA ScanPromiseStep ==
  ASSUME ScanOK, FateOK, Next
  PROVE  PromiseStep
<1>0. HistoryTypeOK /\ HistoryTypeOK' BY HistoryStep DEF ScanOK
<1>1. CASE FinishScan
  <2> DEFINE p == from_bytes(token).pending
             answers == FlushAnswers(p)
  <2>1. phase = "idle" /\ phase' = "done" /\ received' = received /\ Emit(answers)
    BY <1>1 DEF FinishScan, load_scan_cache, ReturnTo
  <2>2. OneFate(p, received, out) BY <2>1 DEF FateOK
  <2>3. DOMAIN answers = AllSets(p) BY DEF FlushAnswers
  <2>4. \A id \in DOMAIN answers : answers[id].how = "missing"
    BY DEF FlushAnswers, Plain
  <2> HIDE DEF answers
  <2>5. /\ \A id \in DOMAIN answers : fate[id] = "owed"
        /\ fate' = [x \in DOMAIN fate |->
                      IF x \in DOMAIN answers THEN answers[x].how ELSE fate[x]]
    BY <1>0, <2>1, <2>2, <2>3, EmitStep
  <2>6. ASSUME NEW x \in DOMAIN fate, fate[x] = "owed" PROVE x \in DOMAIN answers
    <3>1. CASE BufferPlaces(p, x) # {}
      BY <2>3, <3>1, PlaceFacts DEF AllSets, SetsOf
    <3>2. CASE BufferPlaces(p, x) = {}
      <4>1. x \in DOMAIN received BY DEF fate, FateFrom
      <4>2. Len(out[x]) = 1 BY <2>2, <3>2, <4>1 DEF OneFate, FateOf
      <4>3. out[x] # <<>> BY <4>2
      <4>4. out[x][1] \in Outcome
        <5>1. out[x] \in Seq(Outcome) BY <1>0, <4>1 DEF HistoryTypeOK
        <5> QED BY <4>2, <5>1
      <4>5. fate[x] = out[x][1].how /\ fate[x] \in Hows
        BY <4>1, <4>3, <4>4 DEF fate, FateFrom, Outcome
      <4> QED BY <2>6, <4>5 DEF Hows
    <3> QED BY <3>1, <3>2
  <2>7. \A x \in DOMAIN fate :
          fate'[x] = IF fate[x] = "owed" THEN "missing" ELSE fate[x]
    BY <2>4, <2>5, <2>6
  <2>8. Close BY <2>1, <2>5, <2>7 DEF Close, closed
  <2> QED BY <2>8 DEF PromiseStep
<1>2. ASSUME NEW r \in Rows, AnswerWhole(r) PROVE PromiseStep
  <2> DEFINE o == Plain(IF Accepts(r.version) /\ r.shape = "ok"
                        THEN "stateless" ELSE "rejected", r.version)
  <2>1. phase # "done" /\ phase' # "done" /\ Receive(<<taken + 1, 0>>, r, 0, <<o>>)
    BY <1>2 DEF AnswerWhole, TakeRow, AfterDatagram
  <2>2. o.how \in Hows BY DEF Plain, Hows
  <2> HIDE DEF o
  <2>3. <<o>>[1] = o OBVIOUS
  <2> QED BY <1>0, <2>1, <2>2, <2>3, FreshRow, ArriveStep
<1>3. CASE DecodeDataSet \/ BufferDataSet \/ RefuseDataSet
  <2>1. AtDataSet /\ phase # "done" /\ phase' # "done"
    BY <1>3 DEF DecodeDataSet, BufferDataSet, RefuseDataSet, AtDataSet, NextDataSet
  <2>2. SetId(setIdx) \notin DOMAIN received BY <2>1, AtCursor
  <2>3. \E outcomes : /\ Receive(SetId(setIdx), row, CurrentSet.id, outcomes)
                      /\ outcomes = <<>> \/ outcomes[1].how \in Hows
    <3>1. CASE DecodeDataSet
      <4> DEFINE o == DecodedOutcome(cache.entries[RowKey(CurrentSet.id)].layout,
                                     row.version, row.flows_only)
      <4>1. Receive(SetId(setIdx), row, CurrentSet.id, <<o>>) BY <3>1 DEF DecodeDataSet
      <4>2. o.how \in Hows BY DEF DecodedOutcome, Hows
      <4> HIDE DEF o
      <4> QED BY <4>1, <4>2
    <3>2. CASE BufferDataSet BY <3>2 DEF BufferDataSet
    <3>3. CASE RefuseDataSet
      <4> DEFINE o == Plain("missing", row.version)
      <4>1. Receive(SetId(setIdx), row, CurrentSet.id, <<o>>) BY <3>3 DEF RefuseDataSet
      <4>2. o.how \in Hows BY DEF Plain, Hows
      <4> HIDE DEF o
      <4> QED BY <4>1, <4>2
    <3> QED BY <1>3, <3>1, <3>2, <3>3
  <2> QED BY <1>0, <2>1, <2>2, <2>3, ArriveStep
<1>4. ASSUME NEW key \in retry, RetryKey(key) PROVE PromiseStep
  <2> DEFINE layout == cache.entries[key].layout
             answers == RetryAnswers(PendingAt(cache, key), layout)
             p == cache.pending
  <2>1. phase = "retry" /\ phase' = phase /\ received' = received /\ Emit(answers)
    BY <1>4 DEF RetryKey
  <2>2. OneFate(p, received, out) BY <2>1 DEF FateOK
  <2>3. DOMAIN answers \subseteq AllSets(p)
    BY NoRetryAnswers DEF RetryAnswers, PendingAt, AllSets
  <2>4. PICK f \in {"decoded", "filtered"} : \A id \in DOMAIN answers : answers[id].how = f
    BY RetryHow
  <2> HIDE DEF answers
  <2>5. /\ DOMAIN answers \subseteq DOMAIN fate
        /\ \A id \in DOMAIN answers : fate[id] = "owed"
        /\ fate' = [x \in DOMAIN fate |->
                      IF x \in DOMAIN answers THEN answers[x].how ELSE fate[x]]
    BY <1>0, <2>1, <2>2, <2>3, EmitStep
  <2>6. fate' = [x \in DOMAIN fate |-> IF x \in DOMAIN answers THEN f ELSE fate[x]]
    BY <2>4, <2>5
  <2>7. ~closed /\ closed' = closed BY <2>1 DEF closed
  <2>8. CASE DOMAIN answers = {}
    <3>1. fate' = fate BY <2>6, <2>8 DEF fate, FateFrom
    <3> QED BY <2>7, <3>1 DEF PromiseStep
  <2>9. CASE DOMAIN answers # {}
    <3>1. Resolve BY <2>5, <2>6, <2>7, <2>9 DEF Resolve
    <3> QED BY <3>1 DEF PromiseStep
  <2> QED BY <2>8, <2>9
<1>5. CASE \/ BatchStart \/ BatchEnd \/ Done
           \/ \E r \in Rows : SkipNullRow(r) \/ BeginDatagram(r)
           \/ LearnTemplate \/ LearnNextSet \/ LearnEnd \/ SkipSet \/ DataEnd
           \/ RetryEnd \/ \E key \in retry : RetrySkip(key)
  <2>1. out' = out /\ received' = received /\ closed' = closed
    BY <1>5 DEF BatchStart, BatchEnd, ReturnTo, Done, vars, SkipNullRow, BeginDatagram,
                TakeRow, LearnTemplate, LearnNextSet, LearnEnd, SkipSet, NextDataSet,
                DataEnd, AfterDatagram, RetryEnd, RetrySkip, closed
  <2>2. fate' = fate BY <2>1 DEF fate
  <2> QED BY <2>1, <2>2 DEF PromiseStep
<1> QED BY <1>1, <1>2, <1>3, <1>4, <1>5 DEF Next, EngineCall, DecodeRow

\* A step on fate and closed is a step of FlowPromise under FlowScan's mapping.
LEMMA PromiseBridge ==
  ASSUME FateOK, FateOK', PromiseStep
  PROVE  [Promise!Next]_(Promise!vars)
<1>1. /\ OneFate(Live.pending, received, out)
      /\ OneFate(Live'.pending, received', out')
  BY DEF FateOK, Live
<1>2. /\ Mapped(Live.pending, received, out) = fate
      /\ Mapped(Live'.pending, received', out') = fate'
  BY <1>1, MappedIsFate DEF fate
<1>3. CASE \E id \in SetIds : Arrive(id)
  <2>1. PICK id \in SetIds : Arrive(id) BY <1>3
  <2>2. Promise!Arrive(id)
    BY <1>2, <2>1 DEF Promise!Arrive, Promise!Answers, Arrive, With, Mapped, closed, Hows
  <2>3. id \in SetIds \ DOMAIN received BY <2>2 DEF Promise!Arrive
  <2> QED BY <2>2, <2>3 DEF Promise!Next
<1>4. CASE Resolve
  <2>1. PICK S \in SUBSET DOMAIN fate, f \in {"decoded", "filtered"} :
          /\ S # {} /\ \A x \in S : fate[x] = "owed"
          /\ fate' = [x \in DOMAIN fate |-> IF x \in S THEN f ELSE fate[x]]
    BY <1>4 DEF Resolve
  <2>2. S \in (SUBSET Promise!Owed) \ {{}} BY <1>2, <2>1 DEF Promise!Owed, Mapped
  <2>3. ~closed /\ closed' = closed BY <1>4 DEF Resolve
  <2>4. Promise!Resolve
    <3>1. Mapped(Live.pending, received, out)' =
            [x \in DOMAIN Mapped(Live.pending, received, out) |->
               IF x \in S THEN f ELSE Mapped(Live.pending, received, out)[x]]
      BY <1>2, <2>1
    <3>2. \E T \in (SUBSET Promise!Owed) \ {{}}, g \in {"decoded", "filtered"} :
            Mapped(Live.pending, received, out)' =
              [x \in DOMAIN Mapped(Live.pending, received, out) |->
                 IF x \in T THEN g ELSE Mapped(Live.pending, received, out)[x]]
      BY <2>2, <3>1
    <3> QED BY <2>3, <3>2 DEF Promise!Resolve, Mapped, closed
  <2> QED BY <2>4 DEF Promise!Next
<1>5. CASE Close
  <2>1. Promise!Close
    BY <1>2, <1>5 DEF Promise!Close, Promise!Owed, Close, Mapped, closed
  <2> QED BY <2>1 DEF Promise!Next
<1>6. CASE fate' = fate /\ closed' = closed
  BY <1>2, <1>6 DEF Promise!vars, Mapped, closed
<1> QED BY <1>3, <1>4, <1>5, <1>6 DEF PromiseStep

\* With scan state to keep the cache in, a scan implements the safety part of
\* FlowPromise: data sets arrive once and are answered or owed, only owed ones are
\* answered later, a retry resolves them alike, and finish closes the account.
THEOREM ScanImplementsPromise ==
  ASSUME HasStorage PROVE Spec => Promise!Init /\ [][Promise!Next]_(Promise!vars)
<1>1. Init => Promise!Init
  BY DEF Init, Promise!Init
<1>2. ScanOK /\ FateOK /\ FateOK' /\ [Next]_vars => [Promise!Next]_(Promise!vars)
  <2> SUFFICES ASSUME ScanOK, FateOK, FateOK', [Next]_vars
               PROVE  [Promise!Next]_(Promise!vars)
    OBVIOUS
  <2>1. CASE Next BY <2>1, ScanPromiseStep, PromiseBridge
  <2>2. CASE UNCHANGED vars BY <2>2 DEF vars, Promise!vars, Live
  <2> QED BY <2>1, <2>2
<1> QED BY <1>1, <1>2, ScanInvariant, FateInvariant, PTL DEF Spec
=============================================================================
