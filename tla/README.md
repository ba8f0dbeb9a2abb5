# A TLA+ model of vgi-netflow

vgi-netflow decodes captured NetFlow v5/v9, IPFIX and sFlow v5 datagrams to
rows inside DuckDB. The hard part is that v9 and IPFIX data carries no field
descriptors: it can only be decoded against a template that came earlier, in
another datagram, another batch, or before the worker was torn down and
rehydrated. These modules model that machinery, the framing code around it, the
shared view of it that `templates()` reports, and the way from the bytes of a
record to the cells of an Arrow batch. TLC checks them on small instances, and TLAPS
proves every safety property the passing runs check.

Paths below are relative to the repository. `core` is
`crates/netflow-core/src`, `worker` is `crates/netflow-worker/src`.

## 1. Inventory

| Part | State | Operations | Talks to |
|---|---|---|---|
| Template cache, `core/cache.rs` | layouts by (exporter, domain, id) with first/last seen and use count; data sets waiting for a template; byte total; two caps | `upsert` + LRU eviction, `use_template`, `push/take/drain_pending`, `to_bytes`, `from_bytes` | used by the decoders, stored by the worker |
| Scan decoding, `worker/table_in_out/flows.rs`, `core/decode/{mod,v9,ipfix}.rs` | none between calls but the stored token | `process` (a batch), `finish`; `decode_datagram`, two passes, `retry_pending`, `flush_pending` | engine calls it; loads and stores the cache |
| Scan state and projection, `worker/state.rs` | one token per execution, one global token | `load_scan_cache`, `store_scan_cache` (store, then read-merge-write of the global token), `global_cache` | all executions share the storage |
| `templates()`, `worker/table/templates.rs` | a snapshot of the projection | `producer`, `next_batch` | reads what `store_scan_cache` wrote |
| Framing and triage, `core/decode/header.rs`, `core/wellformed.rs`, loops of the decoders | a cursor | `probe_version`, `parse_header`, set/record/sample loops, `well_formed` | three independent readers of the same bytes |
| Record slicing, `core/decode/record.rs` | a cursor | `decode_data_set`, `decode_one_record`, `read_varlen` | called by pass 2 and by the retry |
| Field mapping and flow times, `core/decode/record.rs`, `core/normalize.rs`, `core/inet.rs` | the row under construction, sysUptime readings | `map_field`, `resolve_times`, `ntp_micros`, `put_raw`, `note`, `encode` | called for each field of a v9 or IPFIX record |
| v5 record, sFlow samples, `core/decode/{v5,sflow}.rs` | the row, a cursor | `decode_record`; `decode_flow_sample`, `decode_counter_sample`, the sampled-header chain, `scale_counts` | called by the record and sample loops |
| Arrow output, `worker/arrow_map.rs` | none | `flow_schema`, `rows_to_batch`, `build_inet`, `build_raw_fields` | called at the end of `process` and `finish` |
| Registry, metadata, WebAssembly shell | none | tables and layout | - |

What makes each part correct, and what is hard to test about it:

* **Cache.** Caps hold; the byte total equals what is buffered although it is
  not serialised; eviction takes the oldest. Hard: totals across rehydration,
  eviction among equal stamps, redefinition.
* **Scan.** Every data set is answered exactly once (decoded, filtered by mode,
  or reported as missing its template), with its own exporter's current
  template, and every scan ends owing nothing. Hard: the order of templates and
  data across sets, datagrams, batches and versions; the full buffer; the mode
  and version of the row that triggers a retry; the end of the scan.
* **Projection.** Scans stay isolated; the projection only shows what was
  learned; it shows all of it. Hard: the read-merge-write of several executions
  interleaves; a worker dies between two of its writes.
* **Framing.** All readers stay inside the datagram and terminate; a datagram cut
  short is noticed; triage and decoders agree. Hard: lengths and sizes at every
  boundary; skips whose failure is ignored.
* **Slicing.** Records and fields do not overlap, none is lost, and the loop
  ends. Hard: padding, short records, empty and variable fields.
* **Rows.** Each cell of the batch is what its bytes mean. Hard: several elements
  for one column in any order, values of unexpected length, units and epochs at
  the limits of `i64`, a wrapped sysUptime, parsers that read on after a failed
  read, several counting records in a sample, columns listed in two places.

`PROJECT.json` lists the hazards with their lines and the properties aimed at
each.

## 2. Modules

| Module | Models | Extends |
|---|---|---|
| `TemplateCache` | `core/cache.rs`: a cache is a record value, methods are operators | - |
| `FlowScan` | one scan: `process`, `finish`, both passes, retry, flush, load/store | `TemplateCache` |
| `FlowPromise` | abstract specification: what a scan owes for each data set | - |
| `TemplateProjection` | several executions, the shared projection, `templates()` | `TemplateCache` |
| `ByteCursor` | `core/buf.rs`: a cursor is a record value, a read an operator on it | - |
| `DatagramFraming` | header parsing, the decoders' loops and `well_formed` on one datagram | `ByteCursor` |
| `RecordSlicer` | cutting a data set's payload into records and fields | - |
| `Widths` | machine integers and byte strings over a byte of `Base` values | - |
| `Inet` | `core/inet.rs` | `Widths` |
| `FieldMapping` | `map_field`, `resolve_times` and the columns of a row | `Inet` |
| `SflowSamples` | what an sFlow record does to its sample's row | `ByteCursor`, `FieldMapping` |
| `FlowRows` | a batch: v9/IPFIX records, v5 records, sFlow samples, diagnostics, the Arrow arrays | `SflowSamples` |
| `MC*` | small instances for TLC | the module they are named after |
| `TemplateCacheProofs`, `FlowScanProofs`, `FlowScanSafety`, `TemplateProjectionProofs`, `ByteCursorProofs`, `DatagramFramingProofs`, `RecordSlicerProofs`, `FlowRowsProofs` | theorems | see section 5 |

How state and actions correspond to the code:

* **`TemplateCache`.** `entries`, `pending`, `pending_bytes` are the struct's
  fields; the caps are constants (they are never changed by the code). A field
  list is a number: nothing here depends on its content. `pending_bytes` is
  compared with the *number of buffered byte positions*, so sums need no
  recursion. The eviction loop is one removal, which `EvictRestoresCap` justifies.
  The field `set` of a pending record is an identity for the payload.
* **`FlowScan`.** `token` is the execution's value in `FunctionStorage`; `cache`,
  `now`, `left`, `row`, `setIdx`, `itemIdx`, `retry` are the locals of a call in
  progress. When a call returns its memory is reset, so every pair of calls is
  separated by a rehydration, which is the harsher case. `BatchStart`/`BatchEnd`
  are the ends of `process`, `FinishScan` is `finish`; `SkipNullRow`,
  `AnswerWhole` and `BeginDatagram` are the ways a row starts; `LearnTemplate`,
  `LearnNextSet`, `LearnEnd` are pass 1; `DecodeDataSet`, `BufferDataSet`,
  `RefuseDataSet`, `SkipSet`, `DataEnd` are pass 2; `RetryKey`, `RetrySkip`,
  `RetryEnd` are `retry_pending`. A row says what the probe and the framing make
  of it (`version`, `shape`); how they get there is `DatagramFraming`. The
  variables `received`, `out` and `defined` are history.
* **`TemplateProjection`.** `store_scan_cache` is three steps, `StoreScan`,
  `ReadGlobal`, `WriteGlobal`, with one `MirrorEntry` per layout in between. What
  a call decodes is reduced to any number of upserts and uses. `lister` is one
  call of `templates()`. `Crash` is a worker that dies anywhere in a call: what
  it had stored stays, what it had in memory is gone, and the call does not
  return. `learned`, `durable`, `everStored`, `uses`, `touched` and `overlap` are
  history.
* **`ByteCursor`.** `c \odot Read(n)` and `c \odot Skip(n)` advance the cursor by
  `n`. They differ in what an underrun does: `Read` ends the parse, as `?` and
  let-else do; `Skip` leaves the cursor and goes on, as `unwrap_or` and an ignored
  `skip` do.
* **`DatagramFraming`.** Only words that steer a reader are kept. A length word
  is chosen when first read and remembered, so all readers see the same bytes.
* **`RecordSlicer`.** A template is its sequence of lengths, 65535 for variable.
  Length prefixes are chosen when read. A decoded record is the sequence of its
  fields' extents.
* **`FieldMapping`.** The `match` of `map_field` is the table `Elements`: which
  elements go to which column, and how. The table is taken over from the code: whether
  an element belongs to its column (130 and 131, say, which the registry names
  exporterIPv4Address and exporterIPv6Address) is not questioned. Byte strings are a length and a value.
  `ColumnValue` keeps the narrowing casts and the wrapping multiplication of a
  release build (the Cargo profile has no overflow checks). A `raw_fields` key is
  the pair of enterprise and element id, which the name is made of.
* **`SflowSamples`, v5 records.** What can go wrong here is *where* a value is read
  from, so a value is `Mark(k, offset)`: the bytes at an offset of the k-th record
  of a sample. Words that steer a parser (ethertype, header length, protocol,
  captured length) and the frame length, which is multiplied, are attributes of
  the record. A parser that reads its protocol byte in the wrong place finds
  `elsewhere`.
* **`FlowRows`.** `BeginRecord`, `MapField`, `EndRecord` are `decode_one_record`;
  `BeginSample`, `MapSampleRecord`, `EndSample` are the sample decoders,
  `SkipSample` the samples no row is made of; `V5Record` and `Report` are rows made
  in one step; `BuildBatch` is `rows_to_batch`. `rows` keeps with each row what it
  came from, as history. The exporter is part of the model: a device with a boot
  time and an uptime that writes its clock into headers and fields the way the
  formats ask, so that a resolved time can be compared with the real one.

The storage backend (`kv_get`, `kv_put`) and the engine are outside the
repository; storage is modelled as atomic single-key reads and writes, as the
code uses it, and the calls of one execution as sequential, as `state.rs`
assumes.

## 3. Runs

| Run | Result | Question |
|---|---|---|
| `scan` | pass | Safety of a scan, that it drains and that it implements `FlowPromise`: three rows out of all kinds, error paths included, any batching, cap 2 layouts / 3 bytes, clock 1..2 that may step back |
| `projection` | pass | Isolation, soundness of the projection and of what is listed and, for calls that do not overlap, completeness, with two executions, a cap of two layouts for three keys, a concurrent `templates()` and a worker that dies |
| `framing` | pass | The three readers stay inside and terminate, notice a header cut short, and agree on the sets and records of what passes triage |
| `slicer` | pass | Soundness, exactness and termination of slicing |
| `rows` | pass | Every cell of a batch of mixed rows is what its bytes mean |
| `scan_version`, `scan_dropped`, `projection_lost_update`, `projection_use_count`, `slicer_padding`, `rows_lossless`, `rows_in_place` | violation | Statements of the repository that the code does not keep (section 4) |

Bounds. `MaxRows` 3 is enough for a data set to arrive, be overtaken by a
redefinition or an eviction and be retried, with a rehydration between any two
rows (a row may bring several templates), and for v9 and IPFIX data to wait under one
key until a third row brings its template, or `finish` comes. Two layouts with three competing keys make eviction happen, three bytes
against payloads of 1 to 3 make the buffer fill. For the projection two
executions and three calls are the least that let one overlap the others and a
third observe it; one crash may hit any of them, and a later call observes the
result. A cap of two for three keys allows both relations that evict and relations
that do not; one of the keys has two layouts, so that two executions may hold
different ones and either may redefine its own. Framing takes every size around each
header and part boundary, and length words below, at and above the limits. Slicing
takes payloads up to seven bytes against nine templates: two records of each plus a
remainder.

The `rows` instance scales the machine down: a byte has two values (`Base` = 2),
so a 32-bit word has 16 and an `i64` 256, with a second of 6 microseconds
(`Micros`), a millisecond of 2 (`Millis`) and an epoch offset of 5 (`NtpOffset`).
`FlowRows` depends on the widths only through these constants, and
`UnitsAssumption` keeps the relation that matters, that a 32-bit count of seconds
fits an `i64` of microseconds; in exchange overflow, wrap-around and narrowing are
all in reach of small values. `MaxFields` = 3 lets three elements compete for a
column in any order. `MaxWork` = 6 bounds a batch (a row or a sample record weighs
2, a field 1): three rows without fields, a record of three fields, two records of
one, or a sample of two records. Sample and packet sizes are taken just around the
end of each header.

Fairness. `FlowScan`: weak fairness of the worker's steps (a call is a
sequential program without blocking operations) and of the engine's calls (the
input relation is finite and the engine calls `finish` after the last batch).
`DatagramFraming` and `RecordSlicer`: the loops keep running. `TemplateProjection`
and `FlowRows` have no liveness property and no fairness. Deadlock is checked everywhere; a
finished scan, reader or session stutters explicitly.

## 4. What the checks show

The properties that hold: no data set is lost or answered twice
(`ExactlyOneFate`), nothing decodable stays in the buffer
(`NothingDecodableIsBuffered`), caps and byte totals are exact
(`BufferAccounting`, `LayoutsWithinCap`), layouts never leak between exporters
or go stale (`CachedLayoutIsLatest`, `DecodedWithOwnTemplate`), eviction and
statistics behave (`OnlyOldestIsEvicted`, `StatsSurviveRedefinition`), every scan
drains (`ScanDrains`, `KeepsPromise`); what is decoded carries the version of its own
datagram, whichever version triggered the retry (`DecodedKeepsVersion`); scans are isolated (`ScanIsolation`), the projection
is sound (`ProjectionIsLearned`), `templates()` lists nothing that had not been stored with a
scan before (`ListedIsStored`), and the projection is, while calls do not overlap,
complete, also after a crash between its writes, as the next call of the scan
mirrors again (`SerialCallsAreReported`); datagram parts
tile the datagram (`PartsTile`), a header cut short yields nothing and is noticed
(`CutHeadersYieldNothing`), what passes triage is cut up without complaint
(`TriageAgrees`), and readers terminate (`Ends`); slicing is sound, exact for fixed templates and ends
(`SlicesAreSound`, `FixedIsExact`, `SlicingEnds`); columns hold the element that has
precedence, exactly if there is room (`ColumnsHoldTheWinner`); times from sysUptime
are the device's own, or late by exactly the counter's period when the counter
wrapped in between (`UptimeTimesAreReal`); IPv6 addresses compare as on the wire
(`AddressOrder`); values of v5 records and sFlow samples come from their own place,
truncated records included as far as addresses go (`ValuesInPlace`); sampled counts
are scaled once (`CountsAreScaledOnce`); and the Arrow batch reads back as the rows
(`BatchRoundTrips`).

What three of these do not say. `DecodedWithOwnTemplate` takes the layout in force
when data is decoded, which is after pass 1: data that precedes a redefinition in its
own datagram is decoded with the later layout, and nothing in the repository says
whether it should be. `TriageAgrees` is about NetFlow and IPFIX and about framing:
`validate_sflow` looks at the header only, so an sFlow datagram whose samples are cut
short passes it, and a set that passes may still hold templates or records that the
decoder reports. `CutHeadersYieldNothing` does not say that the readers accept the
same headers, for they do not (point 8).

Where code and repository disagree:

1. `projection_use_count`: `use_count` in `templates()` freezes at the value of
   the first mirror, because `upsert` keeps the count already there.
2. `projection_lost_update`: two overlapping executions overwrite each other's
   templates in the projection.
3. `scan_dropped`: options data buffered in `auto` mode vanishes when a
   `flows-only` row triggers its retry.
4. `slicer_padding`: padding after records with a variable field is reported as
   `truncated`, because a variable field's prefix is not counted in the footprint.
5. `rows_lossless`: a field mapped to a column never goes to `raw_fields`, also when
   another element overrides it or when `resolve_times` has no uptime to use it with.
6. `rows_in_place`: in an sFlow record cut off inside an address, later, smaller
   reads take the address bytes for ports and flags, without a diagnostic.
7. `scan_version`: `finish` labels all buffered data of a key with the version of the
   first, so that `flow_version` is not the "Wire format of the source datagram"
   (`worker/table_in_out/flows.rs:185`) when v9 and IPFIX data waited under one key.
8. A v5 datagram of 22 or 23 bytes, without a run of its own. `parse_v5` reads 22
   bytes of what is a "fixed 24-byte header" (`core/decode/v5.rs:1`); `header()` shows
   such a datagram as whole, while `validate_v5` calls it "datagram shorter than v5
   header" (`core/wellformed.rs:60`). The failed `skip(24)` leaves the decoder at
   offset 0, where there is no room for a record either: it answers `truncated`, or,
   if the header announces no records, nothing, although "a malformed datagram yields
   a diagnostic row" (`README.md:136`). `CutHeadersYieldNothing` states this outcome
   as it is.

Seen while modelling and not the subject of a run: without storage, what a call
buffers is lost (`NoDataSetLost` therefore assumes `HasStorage`); a mirror can
move `last_seen` in the projection back; one to three bytes after the last v9 set
are `truncated` to `well_formed` and ignored by the decoder, so `TriageAgrees`
is an implication in one direction only; a payload shorter than one record of a
fixed template yields no row; an IPFIX decoder reads sets up to the end of the
datagram, `well_formed` up to the declared length, so `TriageAgrees` asks that
the two coincide; a withdrawal ends its template set, so templates behind it are not learned
(the comment at `ipfix.rs:144` says "skip"); the enterprise of an sFlow record or
sample is not looked at, so a vendor's format 1 is parsed as the standard one.

## 5. What is proved

For every relation, cap, clock and template, not just the instances above:

| Theorem | Statement |
|---|---|
| `TemplateCacheProofs!EvictRestoresCap` | one eviction after an insertion restores the cap |
| `TemplateCacheProofs!Rehydration` | `from_bytes(to_bytes(c)) = c` when the total of `c` is exact |
| `FlowScanProofs!TypeCorrect` | `Spec => []TypeOK` |
| `FlowScanProofs!BufferIsAccounted` | `Spec => []BufferAccounting` |
| `FlowScanProofs!CapHolds` | `Spec => []LayoutsWithinCap` |
| `FlowScanSafety!RetryIsComplete` | `Spec => []NothingDecodableIsBuffered` |
| `FlowScanSafety!LayoutsAreLatest` | `Spec => []CachedLayoutIsLatest` |
| `FlowScanSafety!EvictionTakesOldest` | with storage, `Spec => OnlyOldestIsEvicted` |
| `FlowScanSafety!StatisticsSurvive` | `Spec => StatsSurviveRedefinition` |
| `FlowScanSafety!DecodingUsesOwner` | `Spec => DecodedWithOwnTemplate` |
| `FlowScanSafety!DecodingKeepsVersions` | `Spec => []DecodedKeepsVersion` |
| `FlowScanSafety!MislabelsAreConfined` | `Spec => []OnlyFinishMislabels`: only what `finish` reports may carry another version, that of earlier data for its template |
| `FlowScanSafety!NoDataSetLost` | with storage, `Spec => []ExactlyOneFate` |
| `FlowScanSafety!ScanImplementsPromise` | with storage, a scan implements `FlowPromise` without its fairness |
| `TemplateProjectionProofs!ProjectionTypeCorrect` | `Spec => []TypeOK` |
| `TemplateProjectionProofs!ScansAreIsolated` | `Spec => []ScanIsolation` |
| `TemplateProjectionProofs!ProjectionIsSound` | `Spec => []ProjectionIsLearned` |
| `TemplateProjectionProofs!ListingIsBacked` | `Spec => []ListedIsStored` |
| `TemplateProjectionProofs!SerialCallsLoseNothing` | `Spec => []SerialCallsAreReported` |
| `DatagramFramingProofs!FramingTypeCorrect` | `Spec => []TypeOK` |
| `DatagramFramingProofs!PartsTileTheDatagram` | `Spec => []PartsTile` |
| `DatagramFramingProofs!CutHeadersAreNoticed` | `Spec => []CutHeadersYieldNothing` |
| `DatagramFramingProofs!TriageIsReliable` | `Spec => []TriageAgrees` |
| `RecordSlicerProofs!SlicerTypeCorrect` | `Spec => []TypeOK` |
| `RecordSlicerProofs!SlicesSound` | `Spec => []SlicesAreSound` |
| `RecordSlicerProofs!FixedTemplatesAreExact` | `Spec => []FixedIsExact` |
| `FlowRowsProofs!WinnersAreHeld` | `Spec => []ColumnsHoldTheWinner` |
| `FlowRowsProofs!TimesAreReal` | `Spec => []UptimeTimesAreReal` |
| `FlowRowsProofs!AddressesCompare` | `Spec => []AddressOrder` |
| `FlowRowsProofs!ScalingIsOnce` | `Spec => []CountsAreScaledOnce` |
| `FlowRowsProofs!ValuesAreInPlace` | `Spec => []ValuesInPlace` |
| `FlowRowsProofs!BatchesRoundTrip` | `Spec => []BatchRoundTrips` |

Assumptions are those of the modules: caps are natural numbers and the layout
cap is not 0 (`CapsAssumption`), rows, stamps, templates and sizes have their
types (`ScanAssumption`, `SlicerAssumption`, `ProjectionAssumption`,
`FramingAssumption`, `RowsAssumption`). TLC evaluates them in every run. Those that
say more than a type:

* the record count of a v5 header is a 16-bit word (`FramingAssumption`);
* a byte has an even number of values, and a 32-bit count of seconds fits an `i64`
  of microseconds (`BaseAssumption`, `UnitsAssumption`); the theorems about rows hold
  for the real widths and units as for the scaled-down ones of the `rows` run;
* frame length and sampling rate are 32-bit words (`Sample`, `SampleRecord`), which is
  why `scale_counts` never saturates;
* a field of 4, 8 or 16 bytes is a word of that width (`HasWordSizes`: it follows
  from `Bytes` by laws of exponentiation that the provers do not have);
* the sysUptime elements are those the device writes (`UptimeField`), since only they
  have a real time to be compared with;
* `None` is not a number and not an address (`NoneAssumption`).

The arguments:

* `ScanOK` (type correctness and caps) is inductive once it speaks of both the
  cache of the call in progress and the rehydrated token, since each call moves
  one into the other; `Rehydration` is the bridge.
* `RetryOK`: while a retry runs, a key both pending and cached must still be in
  the snapshot `retry`; keys already visited are gone from the buffer, and no
  step of the retry adds a layout. Outside a datagram the set is then empty.
* `LayoutsOK` states the property for cache and token at once; a rehydration
  changes neither the layouts nor the history.
* `FateOK` says, data set by data set, that answers and buffer places add up to
  one, that a buffered set was received, and that the sets still ahead in the
  current row have not been (`NotYetReceived`): without it a set could be
  received twice.
* `SlicerOK` adds to soundness where the fields cut so far lie: those of the
  record in progress between its start and the cursor, those of finished records
  before it.

* The projection in three layers. `TypesOK` gives every token and cache its type.
  `IsolationOK` follows a layout from the scan that learned it: the cache of a call
  holds what its scan learned, the stored token what was `durable`, the mirror and
  the projection only what some scan learned; that `durable` is part of `learned`
  is what makes a crash harmless. `Backed` does the same for `everStored`: from the
  moment a call reads the projection, what it will mirror has been stored. `SerialOK` says how far the call in progress has
  come: while no two calls have overlapped, at most one is away from `idle`
  (`Alone`), and what the calls that returned have learned is in the projection, in
  the token the running call will store, or in its mirror already.
* Framing. `ReadUpTo(c, size, p)` says that a chain of reads either succeeded up to
  offset `p` or has failed for want of bytes; `ReadOn` extends it by a read.
  A skip breaks it (`SkipOn`), and the four words behind the sFlow agent address
  restore it, as they need at least as many bytes as the longest address: that is
  why the ignored skip is harmless (`ReadSflow`). `TilingOK` adds to tiling that the
  parts end where the cursor is. `HeadersOK` says that the header was accepted exactly
  if the bytes `parse_header` reads are there (`ReadBytes`), `CutOK` what a datagram
  shorter than its header has led to: only a v5 decoder can have started on one, with
  its count untouched and fewer than 48 bytes to its end, so it never takes a record.
* Triage. The decoder walks the length words first and `well_formed` walks them
  again, so `TriageOK` describes what the first walk leaves behind: the offsets at
  which a length was read form a chain (`ChainOK`), each set leading to the next, and
  the chain either ends at the tail of the datagram (`CleanOK`) or at a set that does
  not fit, on which the second walk must stumble as well (`RefusedOK`). For v5 both
  readers multiply the same count (`RecordsOK`).
* Exact slicing. `ExactOK` counts: with fixed fields the cursor of a record plus the
  bytes its template still demands is the record's end, and records so far times the
  footprint is where the current one starts. `rows` is a set, so the count needs that
  a new record is not an old one, which `SlicerOK` gives.
* Versions and owners. `OwnedOK` says of each buffered payload that it came for the
  key it waits under, with the version it had, and in the order of its rows. What is
  taken out of the buffer for a key is therefore decoded with that key's layout and
  labelled with its own version, and the first of several answers of `flush_pending` is
  from the earliest row, which is what confines the mislabelling (`VersionsOK`).
* Eviction and statistics are properties of single steps: an action changes the
  cache by one operator (`LiveStep`), and `UpsertHistory`, `UseHistory` and
  `Rehydration` say what those do to the statistics and whom they evict.
* Refinement. `fate` of `FlowPromise` is computed from `received` and `out`
  (`FateFrom`). An action that answers, refuses or buffers on arrival is an `Arrive`,
  the retry of a key a `Resolve`, `finish` a `Close`, all others stutter; `FateOK` is
  what makes a resolved set an owed one.
* Rows. `RowsInv` keeps for the record being decoded that each column of the draft
  holds the value of the field with precedence among those taken so far (`DraftOK`),
  and for a sample that its counts are those of its last counting record
  (`SampleOK`); `resolve_times`, `NtpIsExact`, `SignedAddress` and `Division` then
  compare casts, epochs and wrapped counters with what they stand for.
* Places. A parser that ignores a failed skip is off from there on. `Near` says that
  a cursor is at offset `p` or has fewer than `m` bytes left, so that no read of `m`
  bytes succeeds elsewhere, `Reaches` that it is at `p` if the record is long enough,
  and `At` is both; `SkipAt` carries them from field to field of a packet header. Addresses
  need `Near`, as they are right or NULL even in a truncated record; ports and flags
  only have `Reaches`, which is what `rows_in_place` shows. `SamplePlaced` adds that
  of several records the last that has a value counts.
* The batch. `FlattenSeq` and the offsets of `build_raw_fields` are recursive
  functions, and no induction over a given list is available. `MapsLaid` therefore
  says of the rows so far that whatever satisfies the two recursive equations lays
  the maps end to end; each emitted row extends it by one map (`LaidStep`), so the
  induction is that of the state machine. `MapReadBack` cuts a map out again.

Only model-checked: liveness (`ScanDrains`, `Ends`, `SlicingEnds`) and the fairness in
`KeepsPromise`, which the proof system does not treat; and that the statements of
section 4 that have a run fail.

## 6. Not modelled

* Errors that abort the query (a non-BLOB datagram column, an Arrow batch that
  cannot be built): the scan ends there, nothing is answered afterwards.
* Tokens that `to_bytes` did not write: `from_bytes` starts a fresh cache.
* Overlapping calls of one execution, and repetition of a call whose worker died:
  decided by the framework, outside this repository. In the model a call that died
  is not repeated; a later one starts from the stored state.
* The text forms of addresses, names and diagnostics; the registry, which only
  gives elements a name and a type.
* Arrow types and column comments, documentation strings, argument lookup by
  column name, registration with the framework, the WebAssembly shell, fixtures.
* Offsets of the `raw_fields` map beyond 2^31 entries; duplicate keys in it, which
  the builder allows and whose treatment is the engine's.

## 7. Plan

Done, in this order: cache, scan, promise, projection, framing, slicer, cursor,
field mapping, INET, samples, rows, crashes of a worker, with the theorems above.
Every safety property of the passing runs is proved, with or without storage where
the property allows it. What is left: a theorem that says how much is lost without
storage (now a hazard without a property), and whether `SerialCallsAreReported` can be
stated for each execution alone, so that calls of others may overlap.
