------------------------------ MODULE FlowScan ------------------------------
(***************************************************************************)
(* One scan (one execution) of flows() / netflow_decode() / ipfix_decode() *)
(* / sflow_decode(): the engine delivers the input relation in batches and *)
(* then calls finish; the worker loads the template cache from the scan    *)
(* state, decodes the batch row by row, and stores the cache again.        *)
(*                                                                         *)
(* Between two calls nothing of the worker survives but the stored token,  *)
(* so the in-memory cache is reset when a call returns: a torn-down and    *)
(* rehydrated worker and a surviving one behave alike.                     *)
(*                                                                         *)
(* The loops of the decoder are steps: one template definition, one data   *)
(* set or one pending key at a time.  They run inside one call, and one    *)
(* scan's calls do not overlap, so the steps of a scan are sequential; the *)
(* shared projection written by store_scan_cache is in TemplateProjection. *)
(***************************************************************************)
EXTENDS TemplateCache

CONSTANTS
  Rows,         \* the rows the input relation may hold
  Stamps,       \* the readings of now_micros()
  RestrictTo,     \* which formats the function accepts
  HasStorage,   \* ProcessParams::storage is Some
  MaxRows       \* bound on the rows of the relation

-----------------------------------------------------------------------------
(* Input rows.                                                             *)

NoDomain == -1                        \* obs_domain column absent or NULL
Templated == {"9", "10"}
Versions == {"5", "9", "10", "sflow5", "none", "null"}
Shapes == {"ok", "bad-header", "bad-set"}

\* One template definition in a template set.  ok is FALSE when the set ends
\* inside it; fields is 0 for a zero field count.
TemplateItem == [template_id : Nat, fields : Nat, ok : BOOLEAN]

\* A set of a datagram: its id, its body read as templates, its body's length.
WireSet == [id : Nat, items : Seq(TemplateItem), bytes : Nat]

\* version is what probe_version answers ("none" for no flow datagram, "null"
\* for a NULL datagram); shape says where the header or set framing fails.
Row ==
  [version : Versions, shape : Shapes, exporter : Nat, hdr_domain : Nat,
   obs_override : Nat \cup {NoDomain}, flows_only : BOOLEAN,
   sets : Seq(WireSet)]

NoRow ==
  [version |-> "null", shape |-> "ok", exporter |-> 0, hdr_domain |-> 0,
   obs_override |-> NoDomain, flows_only |-> FALSE, sets |-> <<>>]

ASSUME ScanAssumption ==
  /\ Rows \subseteq Row
  /\ Stamps \subseteq Nat
  /\ RestrictTo \in {"Any", "NetflowOnly", "IpfixOnly", "SflowOnly"}
  /\ HasStorage \in BOOLEAN
  /\ MaxRows \in Nat

Accepts(version) ==
  \/ version \in {"5", "9"} /\ RestrictTo \in {"Any", "NetflowOnly"}
  \/ version = "10" /\ RestrictTo \in {"Any", "IpfixOnly"}
  \/ version = "sflow5" /\ RestrictTo \in {"Any", "SflowOnly"}

ObsDomain(r) ==
  IF r.obs_override = NoDomain THEN r.hdr_domain ELSE r.obs_override

\* The kind of template a set defines; set ids differ between the versions.
DefinesData(version, set) == set.id = IF version = "9" THEN 0 ELSE 2
DefinesOptions(version, set) == set.id = IF version = "9" THEN 1 ELSE 3
DefinesTemplates(version, set) ==
  DefinesData(version, set) \/ DefinesOptions(version, set)

LayoutOf(version, set, item) ==
  [kind |-> IF DefinesOptions(version, set) THEN "options" ELSE "data",
   fields |-> item.fields]

\* Where the template parser abandons the rest of its set: the item underruns,
\* its id is 0 (padding), or, in IPFIX, it has no fields (a withdrawal).
StopsAt(version, item) ==
  \/ ~item.ok
  \/ item.template_id = 0
  \/ version = "10" /\ item.fields = 0

IsDataSet(set) == set.id >= 256

-----------------------------------------------------------------------------
VARIABLES
  phase,    \* where the worker is: see Phases
  token,    \* this execution's scan state in FunctionStorage
  cache,    \* the TemplateCache of the call in progress
  now,      \* the clock reading of the call in progress
  left,     \* rows of the current batch not yet taken
  taken,    \* rows of the relation taken so far: the ordinal of the current row
  row,      \* the row being decoded
  setIdx,   \* position in row.sets
  itemIdx,  \* position in the items of that set
  retry,    \* pending keys still to visit: the snapshot retry_pending iterates
  \* History: what the scan has received, emitted and learned.
  received, \* data set |-> how it arrived
  out,      \* data set |-> the outcomes emitted for it, in order
  defined   \* (exporter, domain, template id) |-> the layout last defined for it

scanState == <<phase, token, cache, now, left, taken, row, setIdx, itemIdx, retry>>
vars == <<phase, token, cache, now, left, taken, row, setIdx, itemIdx, retry,
          received, out, defined>>

Phases == {"idle", "rows", "learn", "data", "retry", "done"}

CurrentSet == row.sets[setIdx]

\* A data set is identified by its row and its position; position 0 stands for
\* a datagram that is answered as a whole.
SetId(n) == <<taken, n>>

SetIds == (1 .. MaxRows) \X UNION {0 .. Len(r.sets) : r \in Rows}

\* The key under which the current row's template or data set is filed.
RowKey(template_id) == Key(row.exporter, ObsDomain(row), template_id)

-----------------------------------------------------------------------------
(* Outcomes.                                                               *)

NoLayout == [kind |-> "none", fields |-> 0]

Hows == {"decoded", "filtered", "missing", "rejected", "stateless"}
Outcome == [how : Hows, version : Versions, layout : Layout \cup {NoLayout}]

\* decode_data_set: options data yields no rows in flows-only mode.
DecodedOutcome(layout, version, flows_only) ==
  [how |-> IF flows_only /\ layout.kind = "options" THEN "filtered" ELSE "decoded",
   version |-> version, layout |-> layout]

Plain(how, version) == [how |-> how, version |-> version, layout |-> NoLayout]

\* History of an arrival.  The owner is taken from the wire, not from RowKey.
Arrival(r, template_id) ==
  [owner |-> <<r.exporter, ObsDomain(r), template_id>>,
   version |-> r.version, flows_only |-> r.flows_only]

Receive(id, r, template_id, outcomes) ==
  /\ received' = With(received, id, Arrival(r, template_id))
  /\ out' = With(out, id, outcomes)

SetsOf(recs) == {recs[n].set : n \in DOMAIN recs}

AllSets(pending) == UNION {SetsOf(pending[k]) : k \in DOMAIN pending}

RecordOf(recs, id) == recs[CHOOSE n \in DOMAIN recs : recs[n].set = id]

HolderOf(pending, id) == CHOOSE k \in DOMAIN pending : id \in SetsOf(pending[k])

\* answers maps each buffered data set that is answered now to its outcome.
Emit(answers) ==
  out' = [id \in DOMAIN out |->
            IF id \in DOMAIN answers THEN Append(out[id], answers[id]) ELSE out[id]]

-----------------------------------------------------------------------------
(* The call boundary.                                                      *)

Init ==
  /\ phase = "idle" /\ token = EmptyToken /\ cache = NewCache /\ now = 0
  /\ left = 0 /\ taken = 0
  /\ row = NoRow /\ setIdx = 1 /\ itemIdx = 1 /\ retry = {}
  /\ received = <<>> /\ out = <<>> /\ defined = <<>>

\* Without storage the token stays empty, and so does what load returns.
load_scan_cache == from_bytes(token)

\* Mutant: the scan state keeps the layouts and forgets the buffer.
store_scan_cache_LayoutsOnly(c) ==
  token' = IF HasStorage THEN to_bytes(drain_pending(c)) ELSE token

store_scan_cache(c) == token' = IF HasStorage THEN to_bytes(c) ELSE token

\* The worker's memory is gone when a call returns.
ReturnTo(p) ==
  /\ phase' = p /\ cache' = NewCache /\ now' = 0

\* process(): load the cache, read the clock once, start on the batch's rows.
BatchStart ==
  /\ phase = "idle"
  /\ \E n \in 1 .. MaxRows - taken, t \in Stamps : left' = n /\ now' = t
  /\ phase' = "rows"
  /\ cache' = load_scan_cache
  /\ UNCHANGED <<token, taken, row, setIdx, itemIdx, retry, received, out, defined>>

\* process(): every row is decoded; store the cache and return the rows.
BatchEnd ==
  /\ phase = "rows" /\ left = 0
  /\ store_scan_cache(cache)
  /\ ReturnTo("idle")
  /\ UNCHANGED <<left, taken, row, setIdx, itemIdx, retry, received, out, defined>>

\* Mutant: the buffer is dropped in silence.
FlushAnswers_None(pending) == <<>>

\* flush_pending labels every record of a key with the key's first version.
FlushAnswers(pending) ==
  [id \in AllSets(pending) |->
     Plain("missing", pending[HolderOf(pending, id)][1].version)]

\* finish(): load, answer everything still buffered, store the drained cache.
FinishScan ==
  /\ phase = "idle"
  /\ Emit(FlushAnswers(load_scan_cache.pending))
  /\ store_scan_cache(drain_pending(load_scan_cache))
  /\ ReturnTo("done")
  /\ UNCHANGED <<left, taken, row, setIdx, itemIdx, retry, received, defined>>

-----------------------------------------------------------------------------
(* process(): one row.                                                     *)

TakeRow ==
  /\ phase = "rows" /\ left > 0
  /\ left' = left - 1 /\ taken' = taken + 1

\* Mutant: only v9 datagrams cause a retry.
AfterDatagram_V9Only(r, c) ==
  IF r.version = "9" /\ DOMAIN c.pending # {}
  THEN phase' = "retry" /\ row' = r /\ retry' = DOMAIN c.pending
  ELSE phase' = "rows" /\ row' = NoRow /\ retry' = {}

\* After any v9 or IPFIX datagram the buffer is retried if it is not empty.
AfterDatagram(r, c) ==
  IF r.version \in Templated /\ DOMAIN c.pending # {}
  THEN phase' = "retry" /\ row' = r /\ retry' = DOMAIN c.pending
  ELSE phase' = "rows" /\ row' = NoRow /\ retry' = {}

SkipNullRow(r) ==
  /\ TakeRow
  /\ r.version = "null"
  /\ UNCHANGED <<phase, token, cache, now, row, setIdx, itemIdx, retry,
                 received, out, defined>>

\* Is the datagram decoded set by set against the cache?
Stateful(r) == r.version \in Templated /\ Accepts(r.version) /\ r.shape = "ok"

\* A datagram answered without the cache: v5 and sFlow rows, or one diagnostic
\* for an unaccepted format, an unknown version, a bad header or bad framing.
AnswerWhole(r) ==
  /\ TakeRow
  /\ r.version # "null" /\ ~Stateful(r)
  /\ Receive(<<taken + 1, 0>>, r, 0,
             <<Plain(IF Accepts(r.version) /\ r.shape = "ok"
                     THEN "stateless" ELSE "rejected", r.version)>>)
  /\ AfterDatagram(r, cache)
  /\ UNCHANGED <<token, cache, now, setIdx, itemIdx, defined>>

BeginDatagram(r) ==
  /\ TakeRow
  /\ Stateful(r)
  /\ phase' = "learn" /\ row' = r
  /\ UNCHANGED <<token, cache, now, setIdx, itemIdx, retry, received, out, defined>>

-----------------------------------------------------------------------------
(* Pass 1: learn every template of the datagram.                           *)

CurrentItem == CurrentSet.items[itemIdx]

\* The cursor is on a template definition the parser accepts.
AtTemplate ==
  /\ setIdx <= Len(row.sets)
  /\ DefinesTemplates(row.version, CurrentSet)
  /\ itemIdx <= Len(CurrentSet.items)
  /\ ~StopsAt(row.version, CurrentItem)

LearnTemplate ==
  /\ phase = "learn" /\ AtTemplate
  /\ LET layout == LayoutOf(row.version, CurrentSet, CurrentItem) IN
     /\ cache' = upsert(cache, RowKey(CurrentItem.template_id), NewEntry(layout, now))
     /\ defined' = With(defined,
                        Arrival(row, CurrentItem.template_id).owner, layout)
  /\ itemIdx' = itemIdx + 1
  /\ UNCHANGED <<phase, token, now, left, taken, row, setIdx, retry, received, out>>

\* The set defines no (more) templates.
LearnNextSet ==
  /\ phase = "learn" /\ ~AtTemplate
  /\ setIdx <= Len(row.sets)
  /\ setIdx' = setIdx + 1 /\ itemIdx' = 1
  /\ UNCHANGED <<phase, token, cache, now, left, taken, row, retry,
                 received, out, defined>>

LearnEnd ==
  /\ phase = "learn" /\ setIdx > Len(row.sets)
  /\ phase' = "data" /\ setIdx' = 1
  /\ UNCHANGED <<token, cache, now, left, taken, row, itemIdx, retry,
                 received, out, defined>>

-----------------------------------------------------------------------------
(* Pass 2: decode, buffer or answer every data set of the datagram.        *)

AtDataSet == phase = "data" /\ setIdx <= Len(row.sets) /\ IsDataSet(CurrentSet)

NextDataSet ==
  /\ setIdx' = setIdx + 1
  /\ UNCHANGED <<phase, token, now, left, taken, row, itemIdx, retry, defined>>

PendingOf(set) ==
  [set |-> SetId(setIdx), version |-> row.version, bytes |-> set.bytes]

DecodeDataSet ==
  /\ AtDataSet
  /\ LET key == RowKey(CurrentSet.id) IN
     /\ key \in DOMAIN cache.entries
     /\ cache' = use_template(cache, key, now)
     /\ Receive(SetId(setIdx), row, CurrentSet.id,
                <<DecodedOutcome(cache.entries[key].layout, row.version,
                                 row.flows_only)>>)
  /\ NextDataSet

BufferDataSet ==
  /\ AtDataSet
  /\ LET key == RowKey(CurrentSet.id) IN
     /\ key \notin DOMAIN cache.entries
     /\ HasRoom(cache, PendingOf(CurrentSet))
     /\ cache' = push_pending(cache, key, PendingOf(CurrentSet))
     /\ Receive(SetId(setIdx), row, CurrentSet.id, <<>>)
  /\ NextDataSet

RefuseDataSet ==
  /\ AtDataSet
  /\ RowKey(CurrentSet.id) \notin DOMAIN cache.entries
  /\ ~HasRoom(cache, PendingOf(CurrentSet))
  /\ Receive(SetId(setIdx), row, CurrentSet.id, <<Plain("missing", row.version)>>)
  /\ UNCHANGED cache
  /\ NextDataSet

SkipSet ==
  /\ phase = "data" /\ setIdx <= Len(row.sets) /\ ~IsDataSet(CurrentSet)
  /\ UNCHANGED <<cache, received, out>>
  /\ NextDataSet

DataEnd ==
  /\ phase = "data" /\ setIdx > Len(row.sets)
  /\ setIdx' = 1
  /\ AfterDatagram(row, cache)
  /\ UNCHANGED <<token, cache, now, left, taken, itemIdx, received, out, defined>>

-----------------------------------------------------------------------------
(* retry_pending: visit the snapshot of the pending keys in key order.     *)

IsNextKey(key) == key \in retry /\ \A j \in retry : j = key \/ KeyLess(key, j)

\* Mutant: the answers get the version of the datagram that caused the retry.
RetryAnswers_Trigger(recs, layout) ==
  [id \in SetsOf(recs) |-> DecodedOutcome(layout, row.version, row.flows_only)]

RetryAnswers(recs, layout) ==
  [id \in SetsOf(recs) |->
     DecodedOutcome(layout, RecordOf(recs, id).version, row.flows_only)]

\* One use is counted, however many buffered data sets the key has.
RetryKey(key) ==
  /\ phase = "retry" /\ IsNextKey(key)
  /\ key \in DOMAIN cache.entries
  /\ cache' = take_pending(use_template(cache, key, now), key)
  /\ Emit(RetryAnswers(PendingAt(cache, key), cache.entries[key].layout))
  /\ retry' = retry \ {key}
  /\ UNCHANGED <<phase, token, now, left, taken, row, setIdx, itemIdx,
                 received, defined>>

RetrySkip(key) ==
  /\ phase = "retry" /\ IsNextKey(key)
  /\ key \notin DOMAIN cache.entries
  /\ retry' = retry \ {key}
  /\ UNCHANGED <<phase, token, cache, now, left, taken, row, setIdx, itemIdx,
                 received, out, defined>>

RetryEnd ==
  /\ phase = "retry" /\ retry = {}
  /\ phase' = "rows" /\ row' = NoRow
  /\ UNCHANGED <<token, cache, now, left, taken, setIdx, itemIdx, retry,
                 received, out, defined>>

-----------------------------------------------------------------------------
EngineCall == BatchStart \/ FinishScan

DecodeRow ==
  \/ \E r \in Rows : SkipNullRow(r) \/ AnswerWhole(r) \/ BeginDatagram(r)
  \/ LearnTemplate \/ LearnNextSet \/ LearnEnd
  \/ DecodeDataSet \/ BufferDataSet \/ RefuseDataSet \/ SkipSet \/ DataEnd
  \/ \E key \in retry : RetryKey(key) \/ RetrySkip(key)
  \/ RetryEnd

\* A finished scan does nothing more.
Done == phase = "done" /\ UNCHANGED vars

Next == EngineCall \/ DecodeRow \/ BatchEnd \/ Done

\* The worker runs a call to its end; the relation is finite, so the engine
\* goes on to deliver the next batch or to call finish.
Fairness == WF_vars(DecodeRow \/ BatchEnd) /\ WF_vars(EngineCall)

Spec == Init /\ [][Next]_vars /\ Fairness

-----------------------------------------------------------------------------
(* Properties.                                                             *)

\* The cache the scan would continue with: the loaded one during a call, the
\* rehydrated token between calls.
Live == IF phase \in {"idle", "done"} THEN from_bytes(token) ELSE cache

\* Where a data set sits in a pending map.
BufferPlaces(pending, id) ==
  UNION {{<<k, n>> : n \in {m \in DOMAIN pending[k] : pending[k][m].set = id}} :
           k \in DOMAIN pending}

\* The control state of the worker.
ControlTypeOK ==
  /\ phase \in Phases
  /\ now \in Nat
  /\ left \in Nat /\ taken \in Nat /\ left + taken <= MaxRows
  /\ row \in Rows \cup {NoRow}
  /\ setIdx \in 1 .. Len(row.sets) + 1
  /\ itemIdx \in Nat \ {0}
  /\ retry \subseteq TemplateKey

TokenTypeOK == token = EmptyToken \/ token = to_bytes(from_bytes(token))

HistoryTypeOK ==
  /\ DOMAIN received \subseteq SetIds
  /\ \A id \in DOMAIN received : id[1] <= taken
  /\ received \in [DOMAIN received ->
                     [owner : TemplateKey, version : Versions, flows_only : BOOLEAN]]
  /\ out \in [DOMAIN received -> Seq(Outcome)]
  /\ DOMAIN defined \subseteq TemplateKey
  /\ defined \in [DOMAIN defined -> Layout]

\* Type invariant: every variable, the history included, stays within the sets
\* its Rust counterpart or its use in this module allows, and no key is left in the
\* pending map without records, in a cache or in a token (push_pending, take_pending).
TypeOK ==
  /\ ControlTypeOK /\ TokenTypeOK /\ HistoryTypeOK
  /\ CacheTypeOK(cache) /\ CacheTypeOK(from_bytes(token))

\* No data set is lost or answered twice: at every step, through retries, full
\* buffers, evictions and rehydrations, each data set received is either buffered
\* in exactly one place and unanswered, or answered once and no longer buffered
\* (push_pending, take_pending, retry_pending, flush_pending).
ExactlyOneFate ==
  /\ AllSets(Live.pending) \subseteq DOMAIN received
  /\ \A id \in DOMAIN received :
       Len(out[id]) + Cardinality(BufferPlaces(Live.pending, id)) = 1

\* Between datagrams nothing stays buffered whose template is cached: the retry
\* at the end of decode_datagram is enough, although templates are also evicted,
\* redefined and learned again (decode_datagram's retry, retry_pending).
NothingDecodableIsBuffered ==
  phase \in {"idle", "rows", "done"} =>
    DOMAIN Live.pending \cap DOMAIN Live.entries = {}

\* pending_bytes is exactly what is buffered and within cap_pending_bytes, also
\* when from_bytes has recomputed it (push_pending, take_pending, from_bytes).
BufferAccounting == PendingBytesExact(Live)

\* The cached layouts never outgrow cap_entries (upsert, evict_if_needed).
LayoutsWithinCap == EntriesWithinCap(Live)

\* A cached layout is the latest one its own exporter defined in its own domain
\* for that id: no exporter, domain or override ever reads another's template, and
\* no redefinition is lost to a rehydration (TemplateKey, upsert, load/store).
CachedLayoutIsLatest ==
  \A key \in DOMAIN Live.entries :
    key \in DOMAIN defined /\ Live.entries[key].layout = defined[key]

\* The answers a step gives that decode something, each with the layout of its owner.
DecodesWithOwner ==
  \A id \in DOMAIN out' :
    LET old == IF id \in DOMAIN out THEN Len(out[id]) ELSE 0
    IN  \A n \in old + 1 .. Len(out'[id]) :
          out'[id][n].how \in {"decoded", "filtered"} =>
            /\ received'[id].owner \in DOMAIN defined'
            /\ out'[id][n].layout = defined'[received'[id].owner]

\* Every data set that is decoded, at once or after waiting in the buffer, is
\* decoded with the layout in force for its own template at that moment
\* (use_template in pass 2 and in retry_pending).  Pass 1 has then learned all of a
\* datagram's templates: of data that precedes a redefinition in its own datagram
\* this says that it is decoded with the later layout.
DecodedWithOwnTemplate == [][DecodesWithOwner]_vars

EvictsOldest ==
  \A key \in DOMAIN Live.entries \ DOMAIN Live'.entries :
    /\ Cardinality(DOMAIN Live.entries) = CapEntries
    /\ \A j \in DOMAIN Live'.entries :
         Live.entries[key].last_seen <= Live'.entries[j].last_seen

\* A template disappears from the cache only when the cache is full, and then it
\* is one that no surviving template was seen before (evict_if_needed).
OnlyOldestIsEvicted == [][EvictsOldest]_vars

KeepsStats ==
  \A key \in DOMAIN Live.entries \cap DOMAIN Live'.entries :
    /\ Live'.entries[key].first_seen = Live.entries[key].first_seen
    /\ Live'.entries[key].use_count >= Live.entries[key].use_count

\* While a template stays cached its first_seen is stable and its use_count never
\* falls, whatever redefinitions and rehydrations happen (upsert, from_bytes).
StatsSurviveRedefinition == [][KeepsStats]_vars

\* A row that is decoded carries the version of the datagram its data came in, also
\* when a datagram of the other version brought the template and data of both waited
\* for it under one key (decode_data_set, retry_pending).  Rows that finish reports as
\* missing are not spoken of here: see FlowVersionIsWireVersion.
DecodedKeepsVersion ==
  \A id \in DOMAIN out : \A n \in DOMAIN out[id] :
    out[id][n].how \in {"decoded", "filtered"} =>
      out[id][n].version = received[id].version

\* Every scan ends, and then nothing is owed (finish, flush_pending).
ScanDrains == <>[](phase = "done" /\ \A id \in DOMAIN received : out[id] # <<>>)

-----------------------------------------------------------------------------
(* Statements of the repository that the code does not keep.               *)

\* README.md: a data record that arrives before its template is "buffered and
\* retried, or emitted" as missing-template, "never dropped".  So data received
\* in a mode that shows options records must not vanish when it is retried.
NeverDropped ==
  \A id \in DOMAIN out :
    (\E n \in DOMAIN out[id] : out[id][n].how = "filtered") => received[id].flows_only

\* flows.rs: the column flow_version is the "Wire format of the source datagram".  So
\* every row carries the version its data arrived with, the missing ones included; but
\* flush_pending gives all records of a key the version of the first.
FlowVersionIsWireVersion ==
  \A id \in DOMAIN out : \A n \in DOMAIN out[id] :
    out[id][n].version = received[id].version

\* What the scan promises about each data set, as an abstract specification.
Promise == INSTANCE FlowPromise WITH
  Sets <- SetIds,
  fate <- [id \in DOMAIN received |->
             IF BufferPlaces(Live.pending, id) # {} THEN "owed"
             ELSE IF Len(out[id]) = 1 THEN out[id][1].how ELSE "lost"],
  closed <- phase = "done"

\* The scan implements the promise of FlowPromise.
KeepsPromise == Promise!Spec
=============================================================================
