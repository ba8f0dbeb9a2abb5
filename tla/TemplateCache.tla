--------------------------- MODULE TemplateCache ---------------------------
(***************************************************************************)
(* The template cache of netflow-core (cache.rs): template layouts keyed   *)
(* by (exporter, observation domain, template id), and a bounded buffer of *)
(* data sets that arrived before their template.                           *)
(*                                                                         *)
(* A cache is a value, as it is in the code: a record of the two maps and  *)
(* the running byte total.  Its methods are operators from a cache and     *)
(* arguments to the new cache; the state machines that hold a cache are in *)
(* FlowScan and TemplateProjection.                                        *)
(***************************************************************************)
EXTENDS Integers, Sequences, FiniteSets

CONSTANTS
  CapEntries,       \* TemplateCache::cap_entries
  CapPendingBytes   \* TemplateCache::cap_pending_bytes

ASSUME CapsAssumption == CapEntries \in Nat \ {0} /\ CapPendingBytes \in Nat

-----------------------------------------------------------------------------
(* Keys.  The exporter is a string in the code; only equality and the      *)
(* BTreeMap order matter, so it is a number.                               *)

TemplateKey == Nat \X Nat \X Nat

\* Mutant: templates of all exporters share one name space.
Key_NoExporter(exporter, obs_domain, template_id) == <<0, obs_domain, template_id>>

Key(exporter, obs_domain, template_id) == <<exporter, obs_domain, template_id>>

\* The derived Ord of the key struct: lexicographic in declaration order.
KeyLess(j, k) ==
  \/ j[1] < k[1]
  \/ j[1] = k[1] /\ j[2] < k[2]
  \/ j[1] = k[1] /\ j[2] = k[2] /\ j[3] < k[3]

-----------------------------------------------------------------------------
(* Values.  A layout is its kind and its field list; field lists are       *)
(* distinguished by a number, 0 standing for the empty list.               *)

TemplateKind == {"data", "options"}

Layout == [kind : TemplateKind, fields : Nat]

TemplateEntry ==
  [layout : Layout, first_seen : Nat, last_seen : Nat, use_count : Nat]

NewEntry(layout, now) ==
  [layout |-> layout, first_seen |-> now, last_seen |-> now, use_count |-> 0]

\* A buffered data set.  set names the data set the bytes came from; the code
\* has no such field: it identifies the payload, whose content is abstracted.
PendingRecord == [set : Nat \X Nat, version : {"9", "10"}, bytes : Nat]

NewCache == [entries |-> <<>>, pending |-> <<>>, pending_bytes |-> 0]

-----------------------------------------------------------------------------
(* Templates.                                                              *)

Without(f, x) == [y \in DOMAIN f \ {x} |-> f[y]]

With(f, x, v) == [y \in DOMAIN f \cup {x} |-> IF y = x THEN v ELSE f[y]]

\* min_by_key returns the first minimum of the iteration, which is in key order.
OldestSeen(entries) ==
  {k \in DOMAIN entries :
     \A j \in DOMAIN entries : entries[k].last_seen <= entries[j].last_seen}

\* Mutant: the first entry of the map goes, however recently it was seen.
Victim_FirstKey(entries) ==
  CHOOSE k \in DOMAIN entries : \A j \in DOMAIN entries : j = k \/ KeyLess(k, j)

Victim(entries) ==
  CHOOSE k \in OldestSeen(entries) :
    \A j \in OldestSeen(entries) : j = k \/ KeyLess(k, j)

\* Mutant: one entry too many is tolerated.
evict_if_needed_Late(entries) ==
  IF Cardinality(DOMAIN entries) > CapEntries + 1
  THEN Without(entries, Victim(entries))
  ELSE entries

\* Entries only grow through upsert, which calls this after every insertion, so
\* the code's loop removes at most one entry (EvictRestoresCap proves it).
evict_if_needed(entries) ==
  IF Cardinality(DOMAIN entries) > CapEntries
  THEN Without(entries, Victim(entries))
  ELSE entries

\* Mutants: a redefinition forgets the statistics; a redefinition is ignored.
Merged_Fresh(c, key, entry) == entry
Merged_Sticky(c, key, entry) ==
  IF key \in DOMAIN c.entries THEN c.entries[key] ELSE entry

\* A redefinition replaces the layout and keeps first_seen and use_count.
Merged(c, key, entry) ==
  IF key \in DOMAIN c.entries
  THEN [entry EXCEPT !.first_seen = c.entries[key].first_seen,
                     !.use_count = c.entries[key].use_count]
  ELSE entry

upsert(c, key, entry) ==
  [c EXCEPT !.entries =
     evict_if_needed(With(c.entries, key, Merged(c, key, entry)))]

\* Mutant: uses are counted down.
Used_Down(entry, now) == [entry EXCEPT !.use_count = @ - 1, !.last_seen = now]

Used(entry, now) == [entry EXCEPT !.use_count = @ + 1, !.last_seen = now]

\* use_template on a cached key; the callers test membership themselves.
use_template(c, key, now) ==
  [c EXCEPT !.entries = [c.entries EXCEPT ![key] = Used(c.entries[key], now)]]

-----------------------------------------------------------------------------
(* Pending data sets.  A sum of payload lengths is the number of buffered  *)
(* bytes, so totals are cardinalities of sets of byte positions.           *)

PayloadPositions(key, i, len) == {<<key, i, b>> : b \in 1 .. len}

BytePositions(pending, key) ==
  UNION {PayloadPositions(key, i, pending[key][i].bytes) : i \in DOMAIN pending[key]}

BufferedBytes(pending) ==
  UNION {BytePositions(pending, key) : key \in DOMAIN pending}

\* saturating_add can only differ from + above 2^32, far past the cap.
HasRoom(c, rec) == c.pending_bytes + rec.bytes <= CapPendingBytes

PendingAt(c, key) == IF key \in DOMAIN c.pending THEN c.pending[key] ELSE <<>>

\* push_pending when there is room; it answers FALSE and stores nothing if not.
push_pending(c, key, rec) ==
  [entries |-> c.entries,
   pending |-> With(c.pending, key, Append(PendingAt(c, key), rec)),
   pending_bytes |-> c.pending_bytes + rec.bytes]

SaturatingSub(a, b) == IF a >= b THEN a - b ELSE 0

\* Mutant: the records are handed out and stay buffered.
take_pending_Kept(c, key) == c

\* Mutant: the records are taken out of the vector, which stays in the map.
take_pending_Emptied(c, key) ==
  IF key \in DOMAIN c.pending
  THEN [entries |-> c.entries,
        pending |-> With(c.pending, key, <<>>),
        pending_bytes |-> SaturatingSub(c.pending_bytes,
                                        Cardinality(BytePositions(c.pending, key)))]
  ELSE c

take_pending(c, key) ==
  IF key \in DOMAIN c.pending
  THEN [entries |-> c.entries,
        pending |-> Without(c.pending, key),
        pending_bytes |-> SaturatingSub(c.pending_bytes,
                                        Cardinality(BytePositions(c.pending, key)))]
  ELSE c

drain_pending(c) ==
  [entries |-> c.entries, pending |-> <<>>, pending_bytes |-> 0]

-----------------------------------------------------------------------------
(* The scan-state token.  pending_bytes is not serialised: it is recomputed *)
(* from the payloads.  An empty token rehydrates to a fresh cache.          *)

EmptyToken == <<>>

to_bytes(c) == [entries |-> c.entries, pending |-> c.pending]

\* Mutant: the running total starts from zero in a rehydrated cache.
from_bytes_NoTotal(token) ==
  IF token = EmptyToken
  THEN NewCache
  ELSE [entries |-> token.entries, pending |-> token.pending, pending_bytes |-> 0]

from_bytes(token) ==
  IF token = EmptyToken
  THEN NewCache
  ELSE [entries |-> token.entries,
        pending |-> token.pending,
        pending_bytes |-> Cardinality(BufferedBytes(token.pending))]

-----------------------------------------------------------------------------
(* What a cache value must satisfy whenever its owner looks at it.         *)

\* The maps hold what their Rust types say; a key is in pending only with records,
\* which flush_pending relies on when it labels them with the first one's version.
CacheTypeOK(c) ==
  /\ c = [entries |-> c.entries, pending |-> c.pending,
          pending_bytes |-> c.pending_bytes]
  /\ DOMAIN c.entries \subseteq TemplateKey
  /\ IsFiniteSet(DOMAIN c.entries)
  /\ c.entries \in [DOMAIN c.entries -> TemplateEntry]
  /\ DOMAIN c.pending \subseteq TemplateKey
  /\ IsFiniteSet(DOMAIN c.pending)
  /\ c.pending \in [DOMAIN c.pending -> Seq(PendingRecord)]
  /\ \A key \in DOMAIN c.pending : c.pending[key] # <<>>
  /\ c.pending_bytes \in Nat

\* cap_entries bounds the layouts.
EntriesWithinCap(c) == Cardinality(DOMAIN c.entries) <= CapEntries

\* The running total is the number of bytes buffered, and never above the cap.
PendingBytesExact(c) ==
  /\ c.pending_bytes = Cardinality(BufferedBytes(c.pending))
  /\ c.pending_bytes <= CapPendingBytes
=============================================================================
