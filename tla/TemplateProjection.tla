------------------------- MODULE TemplateProjection -------------------------
(***************************************************************************)
(* Several executions share one FunctionStorage (netflow-worker state.rs). *)
(* Each keeps its template cache under its own execution id; every store   *)
(* also mirrors the learned layouts into one global projection, which the  *)
(* templates() function reports.  The mirror is a read of the projection,  *)
(* an upsert of every cached entry into the copy, and a write of the copy: *)
(* three steps that calls of other executions may interleave with.         *)
(*                                                                         *)
(* What a call decodes is abstracted to what it does to the cached         *)
(* layouts: any number of upserts and uses (FlowScan has the detail).  The *)
(* clock advances with every call, so stamps order the calls.              *)
(***************************************************************************)
EXTENDS TemplateCache

CONSTANTS
  Execs,      \* execution ids
  Keys,       \* template keys the executions come across
  Layouts,    \* key |-> the layouts it is defined with
  MaxCalls,   \* bound on the calls of all executions together
  MaxCrashes, \* bound on the workers that die in a call
  MaxOps      \* bound on the upserts and uses of one call

ASSUME ProjectionAssumption ==
  /\ Keys \subseteq TemplateKey /\ IsFiniteSet(Keys)
  /\ Layouts \in [Keys -> SUBSET Layout]
  /\ MaxCalls \in Nat /\ MaxCrashes \in Nat /\ MaxOps \in Nat

VARIABLES
  pc,       \* exec |-> where its call is: see Places
  kv,       \* exec |-> its stored token
  global,   \* the token of the global projection
  cache,    \* exec |-> the cache of its call in progress
  mirror,   \* exec |-> the copy of the projection it is updating
  todo,     \* exec |-> keys not yet mirrored
  stamp,    \* exec |-> the clock reading of its call
  clock,    \* calls started so far
  ops,      \* exec |-> upserts and uses of its call so far
  \* History.
  crashes,  \* workers that died in a call so far
  learned,  \* exec |-> key |-> the layout it last learned for the key
  durable,  \* exec |-> what it had learned when its state was last stored
  everStored, \* templates that were ever part of a stored scan state
  uses,     \* key |-> how often a data set was decoded against it
  touched,  \* key |-> the latest stamp a call that has returned left on it
  overlap,  \* did calls of two executions ever overlap?
  \* A reader.
  lister    \* one call of templates()

calls == <<pc, kv, global, cache, mirror, todo, stamp, clock, ops,
           crashes, learned, durable, everStored, uses, touched, overlap>>
vars == <<pc, kv, global, cache, mirror, todo, stamp, clock, ops,
          crashes, learned, durable, everStored, uses, touched, overlap, lister>>

Places == {"idle", "decode", "stored", "mirror"}

\* The templates of a map of entries: each key with its layout.
Templates(entries) == {<<key, entries[key].layout>> : key \in DOMAIN entries}

NoFilter == -1
Filters == {key[1] : key \in Keys} \cup {NoFilter}

Init ==
  /\ pc = [e \in Execs |-> "idle"]
  /\ kv = [e \in Execs |-> EmptyToken]
  /\ global = EmptyToken
  /\ cache = [e \in Execs |-> NewCache]
  /\ mirror = [e \in Execs |-> NewCache]
  /\ todo = [e \in Execs |-> {}]
  /\ stamp = [e \in Execs |-> 0]
  /\ clock = 0
  /\ ops = [e \in Execs |-> 0]
  /\ crashes = 0
  /\ learned = [e \in Execs |-> <<>>]
  /\ durable = [e \in Execs |-> <<>>]
  /\ everStored = {}
  /\ uses = [k \in Keys |-> 0]
  /\ touched = [k \in Keys |-> 0]
  /\ overlap = FALSE
  /\ lister = [at |-> "closed", filter |-> NoFilter, entries |-> <<>>,
               due |-> {}, rows |-> {}]

-----------------------------------------------------------------------------
(* process() or finish() of one execution.                                 *)

\* Mutant: the scan starts from the shared projection.
load_scan_cache_Shared(e) == from_bytes(global)

\* load_scan_cache reads this execution's scope, never another's.
load_scan_cache(e) == from_bytes(kv[e])

Load(e) ==
  /\ pc[e] = "idle" /\ clock < MaxCalls
  /\ pc' = [pc EXCEPT ![e] = "decode"]
  /\ cache' = [cache EXCEPT ![e] = load_scan_cache(e)]
  /\ clock' = clock + 1
  /\ stamp' = [stamp EXCEPT ![e] = clock + 1]
  /\ ops' = [ops EXCEPT ![e] = 0]
  /\ overlap' = (overlap \/ \E d \in Execs : pc[d] # "idle")
  /\ UNCHANGED <<crashes, durable, everStored, kv, global, mirror, todo, learned, uses,
                 touched, lister>>

Learn(e, key, layout) ==
  /\ pc[e] = "decode" /\ ops[e] < MaxOps
  /\ cache' = [cache EXCEPT ![e] = upsert(@, key, NewEntry(layout, stamp[e]))]
  /\ learned' = [learned EXCEPT ![e] = With(@, key, layout)]
  /\ ops' = [ops EXCEPT ![e] = @ + 1]
  /\ UNCHANGED <<crashes, durable, everStored, pc, kv, global, mirror, todo, stamp,
                 clock, uses, touched, overlap, lister>>

Use(e, key) ==
  /\ pc[e] = "decode" /\ ops[e] < MaxOps
  /\ key \in DOMAIN cache[e].entries
  /\ cache' = [cache EXCEPT ![e] = use_template(@, key, stamp[e])]
  /\ uses' = [uses EXCEPT ![key] = @ + 1]
  /\ ops' = [ops EXCEPT ![e] = @ + 1]
  /\ UNCHANGED <<crashes, durable, everStored, pc, kv, global, mirror, todo, stamp,
                 clock, learned, touched, overlap, lister>>

-----------------------------------------------------------------------------
(* store_scan_cache.                                                       *)

StoreScan(e) ==
  /\ pc[e] = "decode"
  /\ kv' = [kv EXCEPT ![e] = to_bytes(cache[e])]
  /\ durable' = [durable EXCEPT ![e] = learned[e]]
  /\ everStored' = everStored \cup Templates(cache[e].entries)
  /\ pc' = [pc EXCEPT ![e] = "stored"]
  /\ UNCHANGED <<crashes, global, cache, mirror, todo, stamp, clock, ops, learned,
                 uses, touched, overlap, lister>>

\* Mutant: the mirror starts empty instead of from the projection.
ReadGlobal_Fresh(e) ==
  /\ pc[e] = "stored"
  /\ mirror' = [mirror EXCEPT ![e] = NewCache]
  /\ todo' = [todo EXCEPT ![e] = DOMAIN cache[e].entries]
  /\ pc' = [pc EXCEPT ![e] = "mirror"]
  /\ UNCHANGED <<crashes, durable, everStored, kv, global, cache, stamp, clock, ops,
                 learned, uses, touched, overlap, lister>>

\* Mutant: the mirror does not wait for the scan state to be stored.
ReadGlobal_Early(e) ==
  /\ pc[e] \in {"decode", "stored"}
  /\ mirror' = [mirror EXCEPT ![e] = from_bytes(global)]
  /\ todo' = [todo EXCEPT ![e] = DOMAIN cache[e].entries]
  /\ pc' = [pc EXCEPT ![e] = "mirror"]
  /\ UNCHANGED <<crashes, durable, everStored, kv, global, cache, stamp, clock, ops,
                 learned, uses, touched, overlap, lister>>

ReadGlobal(e) ==
  /\ pc[e] = "stored"
  /\ mirror' = [mirror EXCEPT ![e] = from_bytes(global)]
  /\ todo' = [todo EXCEPT ![e] = DOMAIN cache[e].entries]
  /\ pc' = [pc EXCEPT ![e] = "mirror"]
  /\ UNCHANGED <<crashes, durable, everStored, kv, global, cache, stamp, clock, ops,
                 learned, uses, touched, overlap, lister>>

\* The entry goes in as it is cached, its stamps and its use_count included.
MirrorEntry(e, key) ==
  /\ pc[e] = "mirror" /\ key \in todo[e]
  /\ \A j \in todo[e] : j = key \/ KeyLess(key, j)
  /\ mirror' = [mirror EXCEPT ![e] = upsert(@, key, cache[e].entries[key])]
  /\ todo' = [todo EXCEPT ![e] = @ \ {key}]
  /\ UNCHANGED <<crashes, durable, everStored, pc, kv, global, cache, stamp, clock,
                 ops, learned, uses, touched, overlap, lister>>

\* The write ends the call; the worker's memory of it is gone.
WriteGlobal(e) ==
  /\ pc[e] = "mirror" /\ todo[e] = {}
  /\ global' = to_bytes(mirror[e])
  /\ touched' = [k \in Keys |->
                   IF /\ k \in DOMAIN cache[e].entries
                      /\ cache[e].entries[k].last_seen > touched[k]
                   THEN cache[e].entries[k].last_seen ELSE touched[k]]
  /\ pc' = [pc EXCEPT ![e] = "idle"]
  /\ cache' = [cache EXCEPT ![e] = NewCache]
  /\ mirror' = [mirror EXCEPT ![e] = NewCache]
  /\ stamp' = [stamp EXCEPT ![e] = 0]
  /\ ops' = [ops EXCEPT ![e] = 0]
  /\ UNCHANGED <<crashes, durable, everStored, kv, todo, clock, learned, uses, overlap,
                 lister>>

\* The worker dies in the middle of a call.  Its memory is gone and the call does not
\* return; a later call of the execution starts from what was stored.
Crash(e) ==
  /\ pc[e] # "idle" /\ crashes < MaxCrashes
  /\ crashes' = crashes + 1
  /\ learned' = [learned EXCEPT ![e] = durable[e]]
  /\ pc' = [pc EXCEPT ![e] = "idle"]
  /\ cache' = [cache EXCEPT ![e] = NewCache]
  /\ mirror' = [mirror EXCEPT ![e] = NewCache]
  /\ todo' = [todo EXCEPT ![e] = {}]
  /\ stamp' = [stamp EXCEPT ![e] = 0]
  /\ ops' = [ops EXCEPT ![e] = 0]
  /\ UNCHANGED <<kv, global, clock, durable, everStored, uses, touched, overlap,
                 lister>>

-----------------------------------------------------------------------------
(* templates().                                                            *)

global_cache == from_bytes(global)

\* producer(): take a snapshot of the projection.
OpenTemplates(filter) ==
  /\ lister.at = "closed"
  /\ lister' = [lister EXCEPT !.at = "open", !.filter = filter,
                              !.entries = global_cache.entries,
                              !.due = {k \in Keys : touched[k] > 0}]
  /\ UNCHANGED calls

Matches(key) == lister.filter = NoFilter \/ key[1] = lister.filter

\* next_batch(): one row per matching entry of the snapshot, in a single batch;
\* afterwards the producer is exhausted.
NextBatch ==
  /\ lister.at = "open"
  /\ lister' = [lister EXCEPT !.at = "done",
                  !.rows = {[key |-> k, entry |-> lister.entries[k]] :
                              k \in {j \in DOMAIN lister.entries : Matches(j)}}]
  /\ UNCHANGED calls

-----------------------------------------------------------------------------
\* No execution makes a further call.
Done ==
  /\ clock = MaxCalls /\ \A e \in Execs : pc[e] = "idle"
  /\ lister.at = "done"
  /\ UNCHANGED vars

Next ==
  \/ \E e \in Execs :
       \/ Load(e) \/ StoreScan(e) \/ ReadGlobal(e) \/ WriteGlobal(e) \/ Crash(e)
       \/ \E key \in Keys : \E layout \in Layouts[key] : Learn(e, key, layout)
       \/ \E key \in Keys : Use(e, key) \/ MirrorEntry(e, key)
  \/ \E filter \in Filters : OpenTemplates(filter)
  \/ NextBatch
  \/ Done

Spec == Init /\ [][Next]_vars

-----------------------------------------------------------------------------
(* Properties.                                                             *)

\* The caches, stored tokens and the projection hold what their types say.
TypeOK ==
  /\ pc \in [Execs -> Places]
  /\ \A e \in Execs :
       /\ CacheTypeOK(cache[e]) /\ CacheTypeOK(mirror[e])
       /\ CacheTypeOK(load_scan_cache(e))
       /\ todo[e] \subseteq Keys
       /\ stamp[e] \in 0 .. clock /\ ops[e] \in 0 .. MaxOps
  /\ CacheTypeOK(global_cache)
  /\ clock \in 0 .. MaxCalls /\ crashes \in 0 .. MaxCrashes
  /\ uses \in [Keys -> Nat] /\ touched \in [Keys -> Nat]
  /\ lister.at \in {"closed", "open", "done"} /\ lister.filter \in Filters

\* An execution decodes only with layouts it has learned itself, in the version it
\* learned last, however the other executions' calls interleave and wherever in a
\* call its worker dies: scan state is isolated per execution although all write one
\* projection, and it is stored whole or not at all (load/store scoping).
ScanIsolation ==
  \A e \in Execs :
    LET c == IF pc[e] = "idle" THEN load_scan_cache(e) ELSE cache[e]
    IN  \A key \in DOMAIN c.entries :
          key \in DOMAIN learned[e] /\ c.entries[key].layout = learned[e][key]

\* The projection holds nothing that no execution learned and stays within the
\* entry cap, however the mirrors of several calls interleave (store_scan_cache,
\* upsert).
ProjectionIsLearned ==
  /\ \A key \in DOMAIN global_cache.entries :
       \E e \in Execs : key \in DOMAIN learned[e]
  /\ EntriesWithinCap(global_cache)

\* The templates learned so far, by any execution.
AllLearned == UNION {DOMAIN learned[e] : e \in Execs}

\* templates.rs: templates() "reflects templates learned by prior" calls.  Every
\* template of a call that returned before templates() was called is in its rows,
\* if the filter asks for its exporter and no cache ever had to evict.
PriorCallsAreReported ==
  (lister.at = "done" /\ Cardinality(AllLearned) <= CapEntries) =>
    \A key \in lister.due :
      Matches(key) => \E r \in lister.rows : r.key = key

\* Calls of the same or of different executions that follow one another lose nothing:
\* each mirrors into what the ones before it wrote, and all it has cached, so that it
\* makes up for a predecessor that died before its mirror (store_scan_cache).
SerialCallsAreReported == ~overlap => PriorCallsAreReported

\* templates() never runs ahead of the scans: whenever between the two writes of other
\* calls its snapshot is taken, and wherever workers die, each layout it lists had been
\* stored in some scan's state before, so that no crash takes back what a row showed
\* (store_scan_cache writes the scan state first; global_cache, producer).
ListedIsStored ==
  \A r \in lister.rows : <<r.key, r.entry.layout>> \in everStored

Quiet == \A e \in Execs : pc[e] = "idle"

\* templates.rs: use_count is how many data records have been decoded against the
\* template.  When no call is in progress the projection shows all of them.
UseCountIsReported ==
  Quiet => \A key \in DOMAIN global_cache.entries :
             global_cache.entries[key].use_count = uses[key]
=============================================================================
