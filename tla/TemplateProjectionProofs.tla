---------------------- MODULE TemplateProjectionProofs ----------------------
(***************************************************************************)
(* The shared projection, for any number of executions, calls and crashes: *)
(* its types, the isolation of the scans, the soundness of the projection  *)
(* and of what templates() lists, and the completeness of serial calls.    *)
(***************************************************************************)
EXTENDS TemplateProjection, TemplateCacheProofs

\* The steps of one execution's calls.
ExecStep(e) ==
  \/ Load(e) \/ StoreScan(e) \/ ReadGlobal(e) \/ WriteGlobal(e) \/ Crash(e)
  \/ \E key \in Keys : \E layout \in Layouts[key] : Learn(e, key, layout)
  \/ \E key \in Keys : Use(e, key) \/ MirrorEntry(e, key)

ListerStep == (\E filter \in Filters : OpenTemplates(filter)) \/ NextBatch

\* The variables that are functions of the execution are so, on all of them.
Shape ==
  /\ DOMAIN pc = Execs /\ DOMAIN kv = Execs /\ DOMAIN cache = Execs
  /\ DOMAIN mirror = Execs /\ DOMAIN todo = Execs /\ DOMAIN stamp = Execs
  /\ DOMAIN ops = Execs /\ DOMAIN learned = Execs /\ DOMAIN durable = Execs
  /\ pc = [e \in Execs |-> pc[e]]

\* A call changes nothing of another execution but the projection.
SameExec(d) ==
  /\ pc'[d] = pc[d] /\ kv'[d] = kv[d] /\ cache'[d] = cache[d]
  /\ mirror'[d] = mirror[d] /\ todo'[d] = todo[d] /\ stamp'[d] = stamp[d]
  /\ ops'[d] = ops[d] /\ learned'[d] = learned[d] /\ durable'[d] = durable[d]

LEMMA Frame ==
  ASSUME Shape, NEW e \in Execs, ExecStep(e)
  PROVE  Shape' /\ lister' = lister /\ \A d \in Execs \ {e} : SameExec(d)
<1> USE DEF Shape, SameExec
<1>1. CASE Load(e) BY <1>1 DEF Load
<1>2. CASE StoreScan(e) BY <1>2 DEF StoreScan
<1>3. CASE ReadGlobal(e) BY <1>3 DEF ReadGlobal
<1>4. CASE WriteGlobal(e) BY <1>4 DEF WriteGlobal
<1>5. CASE Crash(e) BY <1>5 DEF Crash
<1>6. ASSUME NEW key \in Keys, NEW layout \in Layouts[key], Learn(e, key, layout)
      PROVE  Shape' /\ lister' = lister /\ \A d \in Execs \ {e} : SameExec(d)
  BY <1>6 DEF Learn
<1>7. ASSUME NEW key \in Keys, Use(e, key)
      PROVE  Shape' /\ lister' = lister /\ \A d \in Execs \ {e} : SameExec(d)
  BY <1>7 DEF Use
<1>8. ASSUME NEW key \in Keys, MirrorEntry(e, key)
      PROVE  Shape' /\ lister' = lister /\ \A d \in Execs \ {e} : SameExec(d)
  BY <1>8 DEF MirrorEntry
<1> QED BY <1>1, <1>2, <1>3, <1>4, <1>5, <1>6, <1>7, <1>8 DEF ExecStep

LEMMA NextCases ==
  ASSUME Next
  PROVE  (\E e \in Execs : ExecStep(e)) \/ ListerStep \/ UNCHANGED vars
BY DEF Next, ExecStep, ListerStep, Done

LEMMA EmptyTokenOK == from_bytes(EmptyToken) = NewCache
BY DEF from_bytes

LEMMA NewEmpty == DOMAIN NewCache.entries = {}
BY DEF NewCache

-----------------------------------------------------------------------------
(* Types.                                                                  *)

ExecOK(e) ==
  /\ pc[e] \in Places
  /\ CacheOK(cache[e]) /\ CacheOK(mirror[e]) /\ CacheOK(from_bytes(kv[e]))
  /\ DOMAIN cache[e].entries \subseteq Keys
  /\ DOMAIN from_bytes(kv[e]).entries \subseteq Keys
  /\ todo[e] \subseteq DOMAIN cache[e].entries
  /\ pc[e] # "mirror" => todo[e] = {}
  /\ stamp[e] \in 0 .. clock /\ ops[e] \in 0 .. MaxOps

CountersOK ==
  /\ clock \in 0 .. MaxCalls /\ crashes \in 0 .. MaxCrashes
  /\ uses \in [Keys -> Nat] /\ touched \in [Keys -> Nat]

ListerOK ==
  /\ lister = [at |-> lister.at, filter |-> lister.filter, entries |-> lister.entries,
               due |-> lister.due, rows |-> lister.rows]
  /\ lister.at \in {"closed", "open", "done"} /\ lister.filter \in Filters

TypesOK ==
  /\ Shape /\ CountersOK /\ ListerOK
  /\ \A e \in Execs : ExecOK(e)
  /\ CacheOK(global_cache)

LEMMA EntryTypes ==
  /\ \A key \in Keys : key \in TemplateKey
  /\ \A key \in Keys : \A layout \in Layouts[key], n \in Nat :
       NewEntry(layout, n) \in TemplateEntry /\ NewEntry(layout, n).layout = layout
<1>1. \A key \in Keys : \A layout \in Layouts[key] : layout \in Layout BY ProjectionAssumption
<1> QED BY <1>1, ProjectionAssumption DEF NewEntry, TemplateEntry

\* What the step does to the execution that takes it.
LEMMA ExecTypesStep ==
  ASSUME TypesOK, NEW e \in Execs, ExecStep(e)
  PROVE  ExecOK(e)' /\ CacheOK(global_cache') /\ CountersOK' /\ clock <= clock'
<1> DEFINE Goal == ExecOK(e)' /\ CacheOK(global_cache') /\ CountersOK' /\ clock <= clock'
<1> SUFFICES Goal OBVIOUS
<1>0. /\ Shape /\ CountersOK /\ ExecOK(e) /\ CacheOK(global_cache)
      /\ clock \in Nat /\ MaxCalls \in Nat /\ MaxCrashes \in Nat /\ MaxOps \in Nat
  BY ProjectionAssumption DEF TypesOK, CountersOK
<1>1. CASE Load(e)
  <2>1. /\ pc'[e] = "decode" /\ cache'[e] = from_bytes(kv[e]) /\ clock' = clock + 1
        /\ clock < MaxCalls /\ stamp'[e] = clock + 1 /\ ops'[e] = 0 /\ kv' = kv
        /\ global' = global /\ mirror' = mirror /\ todo' = todo /\ uses' = uses
        /\ touched' = touched /\ crashes' = crashes /\ pc[e] = "idle"
    BY <1>0, <1>1 DEF Load, Shape, load_scan_cache
  <2>2. ExecOK(e)' BY <1>0, <2>1 DEF ExecOK, Places
  <2>3. CountersOK' BY <1>0, <2>1 DEF CountersOK
  <2> QED BY <1>0, <2>1, <2>2, <2>3 DEF global_cache
<1>2. CASE StoreScan(e)
  <2>1. /\ kv'[e] = to_bytes(cache[e]) /\ pc'[e] = "stored" /\ pc[e] = "decode"
        /\ global' = global /\ mirror' = mirror /\ todo' = todo /\ uses' = uses
        /\ touched' = touched /\ crashes' = crashes /\ clock' = clock
        /\ cache' = cache /\ stamp' = stamp /\ ops' = ops
    BY <1>0, <1>2 DEF StoreScan, Shape
  <2>2. from_bytes(kv'[e]) = cache[e] BY <1>0, <2>1, Rehydration DEF ExecOK
  <2>3. ExecOK(e)' BY <1>0, <2>1, <2>2 DEF ExecOK, Places
  <2>4. CountersOK' BY <1>0, <2>1 DEF CountersOK
  <2> QED BY <1>0, <2>1, <2>3, <2>4 DEF global_cache
<1>3. CASE ReadGlobal(e)
  <2>1. /\ mirror'[e] = global_cache /\ todo'[e] = DOMAIN cache[e].entries
        /\ pc'[e] = "mirror"
        /\ kv' = kv /\ global' = global /\ cache' = cache /\ uses' = uses
        /\ touched' = touched /\ crashes' = crashes /\ clock' = clock
        /\ stamp' = stamp /\ ops' = ops
    BY <1>0, <1>3 DEF ReadGlobal, Shape, global_cache
  <2>2. ExecOK(e)' BY <1>0, <2>1 DEF ExecOK, Places
  <2>3. CountersOK' BY <1>0, <2>1 DEF CountersOK
  <2> QED BY <1>0, <2>1, <2>2, <2>3 DEF global_cache
<1>4. CASE WriteGlobal(e)
  <2>1. /\ global' = to_bytes(mirror[e]) /\ todo[e] = {} /\ pc'[e] = "idle"
        /\ cache'[e] = NewCache /\ mirror'[e] = NewCache /\ stamp'[e] = 0
        /\ ops'[e] = 0 /\ kv' = kv /\ todo' = todo /\ uses' = uses
        /\ crashes' = crashes /\ clock' = clock
    BY <1>0, <1>4 DEF WriteGlobal, Shape
  <2>2. global_cache' = mirror[e] BY <1>0, <2>1, Rehydration DEF ExecOK, global_cache
  <2>3. ExecOK(e)' BY <1>0, <2>1, NewOK, NewEmpty DEF ExecOK, Places
  <2>4. touched' \in [Keys -> Nat]
    <3>1. \A k \in DOMAIN cache[e].entries : cache[e].entries[k].last_seen \in Nat
      BY <1>0 DEF ExecOK, CacheOK, CacheTypeOK, TemplateEntry
    <3>2. touched \in [Keys -> Nat] BY <1>0 DEF CountersOK
    <3> QED BY <1>4, <3>1, <3>2 DEF WriteGlobal
  <2>5. CountersOK' BY <1>0, <2>1, <2>4 DEF CountersOK
  <2> QED BY <1>0, <2>1, <2>2, <2>3, <2>5 DEF ExecOK
<1>5. CASE Crash(e)
  <2>1. /\ todo'[e] = {} /\ pc'[e] = "idle"
        /\ cache'[e] = NewCache /\ mirror'[e] = NewCache /\ stamp'[e] = 0
        /\ ops'[e] = 0 /\ kv' = kv /\ uses' = uses /\ global' = global
        /\ crashes' = crashes + 1 /\ crashes < MaxCrashes /\ clock' = clock
        /\ touched' = touched
    BY <1>0, <1>5 DEF Crash, Shape
  <2>2. ExecOK(e)' BY <1>0, <2>1, NewOK, NewEmpty DEF ExecOK, Places
  <2>3. CountersOK' BY <1>0, <2>1 DEF CountersOK
  <2> QED BY <1>0, <2>1, <2>2, <2>3 DEF global_cache
<1>6. ASSUME NEW key \in Keys, NEW layout \in Layouts[key], Learn(e, key, layout) PROVE Goal
  <2> DEFINE d == upsert(cache[e], key, NewEntry(layout, stamp[e]))
  <2>1. /\ cache'[e] = d /\ ops'[e] = ops[e] + 1 /\ ops[e] < MaxOps
        /\ pc' = pc /\ pc[e] = "decode" /\ kv' = kv /\ global' = global
        /\ mirror' = mirror /\ todo' = todo /\ stamp' = stamp /\ clock' = clock
        /\ uses' = uses /\ touched' = touched /\ crashes' = crashes
    BY <1>0, <1>6 DEF Learn, Shape
  <2>2. stamp[e] \in Nat BY <1>0 DEF ExecOK
  <2>3. CacheOK(d) /\ DOMAIN d.entries \subseteq DOMAIN cache[e].entries \cup {key}
    BY <1>0, <2>2, EntryTypes, UpsertOK DEF ExecOK
  <2> HIDE DEF d
  <2>4. ExecOK(e)' BY <1>0, <2>1, <2>3 DEF ExecOK
  <2>5. CountersOK' BY <1>0, <2>1 DEF CountersOK
  <2> QED BY <1>0, <2>1, <2>4, <2>5 DEF global_cache
<1>7. ASSUME NEW key \in Keys, Use(e, key) PROVE Goal
  <2> DEFINE d == use_template(cache[e], key, stamp[e])
  <2>1. /\ cache'[e] = d /\ ops'[e] = ops[e] + 1 /\ ops[e] < MaxOps
        /\ key \in DOMAIN cache[e].entries /\ uses' = [uses EXCEPT ![key] = @ + 1]
        /\ pc' = pc /\ pc[e] = "decode" /\ kv' = kv /\ global' = global
        /\ mirror' = mirror /\ todo' = todo /\ stamp' = stamp /\ clock' = clock
        /\ touched' = touched /\ crashes' = crashes
    BY <1>0, <1>7 DEF Use, Shape
  <2>2. stamp[e] \in Nat BY <1>0 DEF ExecOK
  <2>3. CacheOK(d) /\ DOMAIN d.entries = DOMAIN cache[e].entries
    BY <1>0, <2>1, <2>2, UseOK DEF ExecOK
  <2> HIDE DEF d
  <2>4. ExecOK(e)' BY <1>0, <2>1, <2>3 DEF ExecOK
  <2>5. uses' \in [Keys -> Nat] BY <1>0, <2>1 DEF CountersOK
  <2>6. CountersOK' BY <1>0, <2>1, <2>5 DEF CountersOK
  <2> QED BY <1>0, <2>1, <2>4, <2>6 DEF global_cache
<1>8. ASSUME NEW key \in Keys, MirrorEntry(e, key) PROVE Goal
  <2> DEFINE d == upsert(mirror[e], key, cache[e].entries[key])
  <2>1. /\ mirror'[e] = d /\ todo'[e] = todo[e] \ {key} /\ key \in todo[e]
        /\ pc' = pc /\ pc[e] = "mirror" /\ kv' = kv /\ global' = global
        /\ cache' = cache /\ stamp' = stamp /\ clock' = clock /\ ops' = ops
        /\ uses' = uses /\ touched' = touched /\ crashes' = crashes
    BY <1>0, <1>8 DEF MirrorEntry, Shape
  <2>2. cache[e].entries[key] \in TemplateEntry
    BY <1>0, <2>1 DEF ExecOK, CacheOK, CacheTypeOK
  <2>3. CacheOK(d) BY <1>0, <2>2, EntryTypes, UpsertOK DEF ExecOK
  <2> HIDE DEF d
  <2>4. ExecOK(e)' BY <1>0, <2>1, <2>3 DEF ExecOK
  <2>5. CountersOK' BY <1>0, <2>1 DEF CountersOK
  <2> QED BY <1>0, <2>1, <2>4, <2>5 DEF global_cache
<1> HIDE DEF Goal
<1> QED BY <1>1, <1>2, <1>3, <1>4, <1>5, <1>6, <1>7, <1>8 DEF ExecStep

LEMMA TypesStep ==
  ASSUME TypesOK, [Next]_vars
  PROVE  TypesOK'
<1>0. Shape /\ CountersOK /\ ListerOK /\ CacheOK(global_cache) /\ \A e \in Execs : ExecOK(e)
  BY DEF TypesOK
<1>1. ASSUME NEW e \in Execs, ExecStep(e) PROVE TypesOK'
  <2>1. Shape' /\ lister' = lister /\ \A d \in Execs \ {e} : SameExec(d)
    BY <1>0, <1>1, Frame
  <2>2. ExecOK(e)' /\ CacheOK(global_cache') /\ CountersOK' /\ clock <= clock'
    BY <1>1, ExecTypesStep
  <2>3. clock \in Nat /\ clock' \in Nat BY <1>0, <2>2, ProjectionAssumption DEF CountersOK
  <2>4. ASSUME NEW d \in Execs \ {e} PROVE ExecOK(d)'
    <3>1. SameExec(d) /\ ExecOK(d) BY <1>0, <2>1
    <3>2. stamp[d] \in 0 .. clock' BY <2>2, <2>3, <3>1 DEF ExecOK
    <3> QED BY <3>1, <3>2 DEF SameExec, ExecOK
  <2>5. ListerOK' BY <1>0, <2>1 DEF ListerOK
  <2> QED BY <2>1, <2>2, <2>4, <2>5 DEF TypesOK
<1>2. CASE ListerStep
  <2>1. UNCHANGED calls BY <1>2 DEF ListerStep, OpenTemplates, NextBatch
  <2>2. Shape' /\ CountersOK' /\ CacheOK(global_cache)' /\ \A e \in Execs : ExecOK(e)'
    BY <1>0, <2>1 DEF calls, Shape, CountersOK, ExecOK, global_cache
  <2>3. ListerOK'
    <3>1. ASSUME NEW filter \in Filters, OpenTemplates(filter) PROVE ListerOK'
      BY <1>0, <3>1 DEF OpenTemplates, ListerOK
    <3>2. CASE NextBatch BY <1>0, <3>2 DEF NextBatch, ListerOK
    <3> QED BY <1>2, <3>1, <3>2 DEF ListerStep
  <2> QED BY <2>2, <2>3 DEF TypesOK
<1>3. CASE UNCHANGED vars
  BY <1>0, <1>3 DEF vars, TypesOK, Shape, CountersOK, ListerOK, ExecOK, global_cache
<1> QED BY <1>1, <1>2, <1>3, NextCases

LEMMA TypesInit == Init => TypesOK
<1> SUFFICES ASSUME Init PROVE TypesOK OBVIOUS
<1> USE DEF Init
<1>1. Shape BY DEF Shape
<1>2. CountersOK BY ProjectionAssumption DEF CountersOK
<1>3. ListerOK BY DEF ListerOK, Filters
<1>4. CacheOK(global_cache) BY NewOK, EmptyTokenOK DEF global_cache
<1>5. ASSUME NEW e \in Execs PROVE ExecOK(e)
  BY NewOK, NewEmpty, EmptyTokenOK, ProjectionAssumption DEF ExecOK, Places
<1> QED BY <1>1, <1>2, <1>3, <1>4, <1>5 DEF TypesOK

LEMMA TypesInvariant == Spec => []TypesOK
BY TypesInit, TypesStep, PTL DEF Spec

\* The caches of all calls, the stored tokens and the projection keep their types,
\* however many executions share the storage and whenever their workers die.
THEOREM ProjectionTypeCorrect == Spec => []TypeOK
<1>1. TypesOK => TypeOK
  <2> SUFFICES ASSUME TypesOK PROVE TypeOK OBVIOUS
  <2>1. pc \in [Execs -> Places] BY DEF TypesOK, Shape, ExecOK
  <2>2. ASSUME NEW e \in Execs
        PROVE  /\ CacheTypeOK(cache[e]) /\ CacheTypeOK(mirror[e])
               /\ CacheTypeOK(load_scan_cache(e)) /\ todo[e] \subseteq Keys
               /\ stamp[e] \in 0 .. clock /\ ops[e] \in 0 .. MaxOps
    BY DEF TypesOK, ExecOK, CacheOK, load_scan_cache
  <2> QED BY <2>1, <2>2 DEF TypesOK, CountersOK, ListerOK, TypeOK, CacheOK
<1> QED BY <1>1, TypesInvariant, PTL

-----------------------------------------------------------------------------
(* Isolation and soundness.  What is stored was learned before it was      *)
(* stored, and a crash takes back exactly what was not stored.             *)

Knows(entries, layouts) ==
  \A key \in DOMAIN entries :
    key \in DOMAIN layouts /\ entries[key].layout = layouts[key]

Isolated(e) ==
  /\ Knows(from_bytes(kv[e]).entries, durable[e])
  /\ pc[e] # "idle" => Knows(cache[e].entries, learned[e])
  /\ pc[e] # "decode" => durable[e] = learned[e]
  /\ DOMAIN durable[e] \subseteq DOMAIN learned[e]
  /\ DOMAIN learned[e] \subseteq Keys

\* The templates some execution has stored.
Stored == UNION {DOMAIN durable[e] : e \in Execs}

Sound ==
  /\ DOMAIN global_cache.entries \subseteq Stored
  /\ \A e \in Execs : DOMAIN mirror[e].entries \subseteq Stored

\* What is stored stays so.
LEMMA DurableGrows ==
  ASSUME TypesOK, NEW e \in Execs, Isolated(e), ExecStep(e)
  PROVE  DOMAIN durable[e] \subseteq DOMAIN durable'[e]
<1>0. Shape BY DEF TypesOK
<1>1. CASE StoreScan(e) BY <1>0, <1>1 DEF StoreScan, Shape, Isolated
<1>2. CASE ~StoreScan(e)
  <2>1. durable' = durable
    BY <1>2 DEF ExecStep, Load, ReadGlobal, WriteGlobal, Crash, Learn, Use, MirrorEntry
  <2> QED BY <2>1
<1> QED BY <1>1, <1>2

LEMMA StoredGrows ==
  ASSUME TypesOK, NEW e \in Execs, Isolated(e), ExecStep(e)
  PROVE  Stored \subseteq Stored'
<1>1. \A d \in Execs \ {e} : durable'[d] = durable[d] BY Frame DEF TypesOK, SameExec
<1>2. DOMAIN durable[e] \subseteq DOMAIN durable'[e] BY DurableGrows
<1>3. \A d \in Execs : DOMAIN durable[d] \subseteq DOMAIN durable'[d] BY <1>1, <1>2
<1> QED BY <1>3 DEF Stored

LEMMA IsolatedStep ==
  ASSUME TypesOK, NEW e \in Execs, Isolated(e), ExecStep(e)
  PROVE  Isolated(e)'
<1>0. Shape /\ ExecOK(e) BY DEF TypesOK
<1>1. CASE Load(e)
  BY <1>0, <1>1 DEF Load, Shape, Isolated, load_scan_cache
<1>2. CASE StoreScan(e)
  <2>1. /\ kv'[e] = to_bytes(cache[e]) /\ pc'[e] = "stored" /\ pc[e] = "decode"
        /\ durable'[e] = learned[e] /\ learned' = learned /\ cache' = cache
    BY <1>0, <1>2 DEF StoreScan, Shape
  <2>2. from_bytes(kv'[e]) = cache[e] BY <1>0, <2>1, Rehydration DEF ExecOK
  <2> QED BY <2>1, <2>2 DEF Isolated
<1>3. CASE ReadGlobal(e) BY <1>0, <1>3 DEF ReadGlobal, Shape, Isolated
<1>4. CASE WriteGlobal(e) BY <1>0, <1>4 DEF WriteGlobal, Shape, Isolated
<1>5. CASE Crash(e) BY <1>0, <1>5 DEF Crash, Shape, Isolated
<1>6. ASSUME NEW key \in Keys, NEW layout \in Layouts[key], Learn(e, key, layout)
      PROVE  Isolated(e)'
  <2> DEFINE entry == NewEntry(layout, stamp[e])
             d == upsert(cache[e], key, entry)
  <2>1. /\ cache'[e] = d /\ learned'[e] = With(learned[e], key, layout)
        /\ pc' = pc /\ pc[e] = "decode" /\ kv' = kv /\ durable' = durable
    BY <1>0, <1>6 DEF Learn, Shape
  <2>2. stamp[e] \in Nat BY <1>0 DEF ExecOK
  <2>3. /\ DOMAIN d.entries \subseteq DOMAIN cache[e].entries \cup {key}
        /\ \A k \in DOMAIN d.entries :
             d.entries[k].layout = IF k = key THEN layout ELSE cache[e].entries[k].layout
    <3>1. entry \in TemplateEntry /\ entry.layout = layout /\ key \in TemplateKey
      BY <2>2, EntryTypes
    <3>2. CacheOK(cache[e]) BY <1>0 DEF ExecOK
    <3> HIDE DEF entry
    <3> QED BY <3>1, <3>2, UpsertOK
  <2> HIDE DEF d
  <2>4. /\ DOMAIN learned'[e] = DOMAIN learned[e] \cup {key}
        /\ \A k \in DOMAIN learned'[e] :
             learned'[e][k] = IF k = key THEN layout ELSE learned[e][k]
    BY <2>1 DEF With
  <2>5. Knows(cache'[e].entries, learned'[e])
    BY <2>1, <2>3, <2>4 DEF Isolated, Knows
  <2> QED BY <2>1, <2>4, <2>5 DEF Isolated
<1>7. ASSUME NEW key \in Keys, Use(e, key) PROVE Isolated(e)'
  <2> DEFINE d == use_template(cache[e], key, stamp[e])
  <2>1. /\ cache'[e] = d /\ key \in DOMAIN cache[e].entries
        /\ pc' = pc /\ pc[e] = "decode" /\ kv' = kv /\ durable' = durable
        /\ learned' = learned
    BY <1>0, <1>7 DEF Use, Shape
  <2>2. stamp[e] \in Nat BY <1>0 DEF ExecOK
  <2>3. /\ DOMAIN d.entries = DOMAIN cache[e].entries
        /\ \A k \in DOMAIN d.entries : d.entries[k].layout = cache[e].entries[k].layout
    BY <1>0, <2>1, <2>2, UseOK DEF ExecOK
  <2> HIDE DEF d
  <2> QED BY <2>1, <2>3 DEF Isolated, Knows
<1>8. ASSUME NEW key \in Keys, MirrorEntry(e, key) PROVE Isolated(e)'
  BY <1>0, <1>8 DEF MirrorEntry, Shape, Isolated
<1> QED BY <1>1, <1>2, <1>3, <1>4, <1>5, <1>6, <1>7, <1>8 DEF ExecStep

\* What a step of e does to the projection, to e's mirror and to the layouts known.
LEMMA SoundStep ==
  ASSUME TypesOK, Sound, NEW e \in Execs, \A d \in Execs : Isolated(d), ExecStep(e)
  PROVE  Sound'
<1>0. Shape /\ ExecOK(e) BY DEF TypesOK
<1>1. Shape' /\ lister' = lister /\ \A d \in Execs \ {e} : mirror'[d] = mirror[d]
  BY <1>0, Frame DEF SameExec
<1>2. Stored \subseteq Stored' BY StoredGrows
<1>3. /\ DOMAIN global_cache'.entries \subseteq Stored
      /\ DOMAIN mirror'[e].entries \subseteq Stored
  <2>1. CASE ReadGlobal(e)
    <3>1. mirror'[e] = global_cache /\ global' = global
      BY <1>0, <2>1 DEF ReadGlobal, Shape, global_cache
    <3> QED BY <3>1 DEF Sound, global_cache
  <2>2. CASE WriteGlobal(e)
    <3>1. global' = to_bytes(mirror[e]) /\ mirror'[e] = NewCache
      BY <1>0, <2>2 DEF WriteGlobal, Shape
    <3>2. global_cache' = mirror[e] BY <1>0, <3>1, Rehydration DEF ExecOK, global_cache
    <3> QED BY <3>1, <3>2, NewEmpty DEF Sound
  <2>3. CASE Crash(e)
    <3>1. mirror'[e] = NewCache /\ global' = global BY <1>0, <2>3 DEF Crash, Shape
    <3> QED BY <3>1, NewEmpty DEF Sound, global_cache
  <2>4. ASSUME NEW key \in Keys, MirrorEntry(e, key)
        PROVE  /\ DOMAIN global_cache'.entries \subseteq Stored
               /\ DOMAIN mirror'[e].entries \subseteq Stored
    <3> DEFINE d == upsert(mirror[e], key, cache[e].entries[key])
    <3>1. /\ mirror'[e] = d /\ key \in todo[e] /\ pc[e] = "mirror" /\ global' = global
      BY <1>0, <2>4 DEF MirrorEntry, Shape
    <3>2. key \in DOMAIN cache[e].entries /\ CacheOK(mirror[e]) /\ CacheOK(cache[e])
      BY <1>0, <3>1 DEF ExecOK
    <3>3. cache[e].entries[key] \in TemplateEntry BY <3>2 DEF CacheOK, CacheTypeOK
    <3>4. DOMAIN d.entries \subseteq DOMAIN mirror[e].entries \cup {key}
      BY <3>2, <3>3, EntryTypes, UpsertOK
    <3> HIDE DEF d
    <3>5. key \in DOMAIN durable[e] BY <3>1, <3>2 DEF Isolated, Knows
    <3>6. key \in Stored BY <3>5 DEF Stored
    <3> QED BY <3>1, <3>4, <3>6 DEF Sound, global_cache
  <2>5. ASSUME mirror' = mirror, global' = global
        PROVE  /\ DOMAIN global_cache'.entries \subseteq Stored
               /\ DOMAIN mirror'[e].entries \subseteq Stored
    BY <2>5 DEF Sound, global_cache
  <2> QED BY <2>1, <2>2, <2>3, <2>4, <2>5 DEF ExecStep, Load, StoreScan, Learn, Use
<1>4. \A d \in Execs : DOMAIN mirror'[d].entries \subseteq Stored BY <1>1, <1>3 DEF Sound
<1> QED BY <1>2, <1>3, <1>4 DEF Sound

IsolationOK == Sound /\ \A e \in Execs : Isolated(e)

LEMMA IsolationStep ==
  ASSUME TypesOK, IsolationOK, [Next]_vars
  PROVE  IsolationOK'
<1>1. ASSUME NEW e \in Execs, ExecStep(e) PROVE IsolationOK'
  <2>1. Sound' BY <1>1, SoundStep DEF IsolationOK
  <2>2. Isolated(e)' BY <1>1, IsolatedStep DEF IsolationOK
  <2>3. \A d \in Execs \ {e} : SameExec(d) BY <1>1, Frame DEF TypesOK
  <2>4. ASSUME NEW d \in Execs \ {e} PROVE Isolated(d)'
    BY <2>3 DEF IsolationOK, Isolated, SameExec
  <2> QED BY <2>1, <2>2, <2>4 DEF IsolationOK
<1>2. CASE ListerStep
  <2>1. UNCHANGED calls BY <1>2 DEF ListerStep, OpenTemplates, NextBatch
  <2>2. \A e \in Execs : Isolated(e)' BY <2>1 DEF IsolationOK, Isolated, calls
  <2>3. Sound' BY <2>1 DEF IsolationOK, Sound, Stored, global_cache, calls
  <2> QED BY <2>2, <2>3 DEF IsolationOK
<1>3. CASE UNCHANGED vars
  BY <1>3 DEF vars, IsolationOK, Isolated, Sound, Stored, global_cache
<1> QED BY <1>1, <1>2, <1>3, NextCases

LEMMA IsolationInit == Init => IsolationOK
<1> SUFFICES ASSUME Init PROVE IsolationOK OBVIOUS
<1>1. DOMAIN global_cache.entries = {}
  BY EmptyTokenOK, NewEmpty DEF Init, global_cache
<1>2. ASSUME NEW e \in Execs
      PROVE  Isolated(e) /\ DOMAIN mirror[e].entries = {}
  BY EmptyTokenOK, NewEmpty DEF Init, Isolated, Knows
<1> QED BY <1>1, <1>2 DEF IsolationOK, Sound

LEMMA IsolationInvariant == Spec => []IsolationOK
BY IsolationInit, IsolationStep, TypesInvariant, PTL DEF Spec

\* An execution decodes only with layouts it has learned itself, in the version it
\* learned last, whatever the other executions and the crashes do.
THEOREM ScansAreIsolated == Spec => []ScanIsolation
<1>1. IsolationOK => ScanIsolation
  BY DEF IsolationOK, Isolated, Knows, ScanIsolation, load_scan_cache
<1> QED BY <1>1, IsolationInvariant, PTL

LEMMA StoredIsLearned ==
  ASSUME IsolationOK
  PROVE  \A key \in Stored : \E e \in Execs : key \in DOMAIN learned[e]
BY DEF IsolationOK, Isolated, Stored

\* The projection shows nothing that no execution learned.
THEOREM ProjectionIsSound == Spec => []ProjectionIsLearned
<1>1. TypesOK /\ IsolationOK => ProjectionIsLearned
  BY StoredIsLearned DEF TypesOK, CacheOK, IsolationOK, Sound, ProjectionIsLearned
<1> QED BY <1>1, IsolationInvariant, TypesInvariant, PTL

-----------------------------------------------------------------------------
(* What templates() lists was stored before it was mirrored.               *)

BackedExec(e) ==
  /\ Templates(mirror[e].entries) \subseteq everStored
  /\ pc[e] \in {"stored", "mirror"} => Templates(cache[e].entries) \subseteq everStored

Backed ==
  /\ \A e \in Execs : BackedExec(e)
  /\ Templates(global_cache.entries) \subseteq everStored
  /\ Templates(lister.entries) \subseteq everStored
  /\ ListedIsStored

LEMMA NewTemplates == Templates(NewCache.entries) = {}
BY NewEmpty DEF Templates

\* An upsert brings in no template but the one it is given.
LEMMA UpsertTemplates ==
  ASSUME NEW c, CacheOK(c), NEW key \in TemplateKey, NEW entry \in TemplateEntry
  PROVE  Templates(upsert(c, key, entry).entries)
           \subseteq Templates(c.entries) \cup {<<key, entry.layout>>}
<1> DEFINE d == upsert(c, key, entry)
<1>1. /\ DOMAIN d.entries \subseteq DOMAIN c.entries \cup {key}
      /\ \A k \in DOMAIN d.entries :
           d.entries[k].layout = IF k = key THEN entry.layout ELSE c.entries[k].layout
  BY UpsertOK
<1> HIDE DEF d
<1>2. ASSUME NEW k \in DOMAIN d.entries
      PROVE  <<k, d.entries[k].layout>> \in Templates(c.entries) \cup {<<key, entry.layout>>}
  <2>1. CASE k = key BY <1>1, <2>1
  <2>2. CASE k # key BY <1>1, <2>2 DEF Templates
  <2> QED BY <2>1, <2>2
<1>3. Templates(d.entries) \subseteq Templates(c.entries) \cup {<<key, entry.layout>>}
  BY <1>2 DEF Templates
<1> QED BY <1>3 DEF d

LEMMA BackedExecStep ==
  ASSUME TypesOK, Backed, NEW e \in Execs, ExecStep(e)
  PROVE  /\ everStored \subseteq everStored'
         /\ BackedExec(e)'
         /\ Templates(global_cache'.entries) \subseteq everStored'
<1> DEFINE Goal == /\ everStored \subseteq everStored'
                   /\ BackedExec(e)'
                   /\ Templates(global_cache'.entries) \subseteq everStored'
<1> SUFFICES Goal OBVIOUS
<1>0. Shape /\ ExecOK(e) /\ BackedExec(e) /\ Templates(global_cache.entries) \subseteq everStored
  BY DEF TypesOK, Backed
<1>1. CASE Load(e)
  <2>1. /\ pc'[e] = "decode" /\ mirror' = mirror /\ global' = global
        /\ everStored' = everStored
    BY <1>0, <1>1 DEF Load, Shape
  <2> QED BY <1>0, <2>1 DEF BackedExec, global_cache
<1>2. CASE StoreScan(e)
  <2>1. /\ cache' = cache /\ mirror' = mirror /\ global' = global
        /\ everStored' = everStored \cup Templates(cache[e].entries)
    BY <1>2 DEF StoreScan
  <2> QED BY <1>0, <2>1 DEF BackedExec, global_cache
<1>3. CASE ReadGlobal(e)
  <2>1. /\ mirror'[e] = global_cache /\ global' = global /\ everStored' = everStored
        /\ cache' = cache /\ pc[e] = "stored"
    BY <1>0, <1>3 DEF ReadGlobal, Shape, global_cache
  <2> QED BY <1>0, <2>1 DEF BackedExec, global_cache
<1>4. CASE WriteGlobal(e)
  <2>1. /\ global' = to_bytes(mirror[e]) /\ mirror'[e] = NewCache /\ pc'[e] = "idle"
        /\ everStored' = everStored
    BY <1>0, <1>4 DEF WriteGlobal, Shape
  <2>2. global_cache' = mirror[e] BY <1>0, <2>1, Rehydration DEF ExecOK, global_cache
  <2> QED BY <1>0, <2>1, <2>2, NewTemplates DEF BackedExec
<1>5. CASE Crash(e)
  <2>1. /\ global' = global /\ mirror'[e] = NewCache /\ pc'[e] = "idle"
        /\ everStored' = everStored
    BY <1>0, <1>5 DEF Crash, Shape
  <2> QED BY <1>0, <2>1, NewTemplates DEF BackedExec, global_cache
<1>6. CASE \/ \E key \in Keys : \E layout \in Layouts[key] : Learn(e, key, layout)
           \/ \E key \in Keys : Use(e, key)
  <2>1. /\ pc[e] = "decode" /\ pc' = pc /\ mirror' = mirror /\ global' = global
        /\ everStored' = everStored
    BY <1>6 DEF Learn, Use
  <2> QED BY <1>0, <2>1 DEF BackedExec, global_cache
<1>7. ASSUME NEW key \in Keys, MirrorEntry(e, key) PROVE Goal
  <2> DEFINE d == upsert(mirror[e], key, cache[e].entries[key])
  <2>1. /\ mirror'[e] = d /\ key \in todo[e] /\ pc[e] = "mirror" /\ global' = global
        /\ cache' = cache /\ everStored' = everStored
    BY <1>0, <1>7 DEF MirrorEntry, Shape
  <2>2. key \in DOMAIN cache[e].entries /\ CacheOK(mirror[e]) /\ CacheOK(cache[e])
    BY <1>0, <2>1 DEF ExecOK
  <2>3. cache[e].entries[key] \in TemplateEntry /\ key \in TemplateKey
    BY <2>2, EntryTypes DEF CacheOK, CacheTypeOK
  <2>4. Templates(d.entries)
          \subseteq Templates(mirror[e].entries) \cup {<<key, cache[e].entries[key].layout>>}
    BY <2>2, <2>3, UpsertTemplates
  <2> HIDE DEF d
  <2>5. <<key, cache[e].entries[key].layout>> \in Templates(cache[e].entries)
    BY <2>2 DEF Templates
  <2> QED BY <1>0, <2>1, <2>4, <2>5 DEF BackedExec, global_cache
<1> HIDE DEF Goal
<1> QED BY <1>1, <1>2, <1>3, <1>4, <1>5, <1>6, <1>7 DEF ExecStep

\* The snapshot is the projection's, and the rows are the snapshot's.
LEMMA BackedLister ==
  ASSUME TypesOK, Backed, ListerStep
  PROVE  Templates(lister'.entries) \subseteq everStored /\ ListedIsStored'
<1>0. everStored' = everStored BY DEF ListerStep, OpenTemplates, NextBatch, calls
<1>1. ASSUME NEW filter \in Filters, OpenTemplates(filter)
      PROVE  Templates(lister'.entries) \subseteq everStored /\ ListedIsStored'
  <2>1. lister'.entries = global_cache.entries /\ lister'.rows = lister.rows
    BY <1>1 DEF OpenTemplates, TypesOK, ListerOK
  <2> QED BY <1>0, <2>1 DEF Backed, ListedIsStored
<1>2. CASE NextBatch
  <2> DEFINE shown == {j \in DOMAIN lister.entries : Matches(j)}
  <2>1. /\ lister'.entries = lister.entries
        /\ lister'.rows = {[key |-> k, entry |-> lister.entries[k]] : k \in shown}
    BY <1>2 DEF NextBatch, TypesOK, ListerOK
  <2>2. \A k \in shown : <<k, lister.entries[k].layout>> \in everStored
    BY DEF Backed, Templates
  <2> HIDE DEF shown
  <2>3. ListedIsStored' BY <1>0, <2>1, <2>2 DEF ListedIsStored
  <2> QED BY <2>1, <2>3 DEF Backed
<1> QED BY <1>1, <1>2 DEF ListerStep

LEMMA BackedStep ==
  ASSUME TypesOK, Backed, [Next]_vars
  PROVE  Backed'
<1>1. ASSUME NEW e \in Execs, ExecStep(e) PROVE Backed'
  <2>1. /\ everStored \subseteq everStored' /\ BackedExec(e)'
        /\ Templates(global_cache'.entries) \subseteq everStored'
    BY <1>1, BackedExecStep
  <2>2. lister' = lister /\ \A d \in Execs \ {e} : SameExec(d) BY <1>1, Frame DEF TypesOK
  <2>3. \A d \in Execs \ {e} : BackedExec(d)' BY <2>1, <2>2 DEF Backed, BackedExec, SameExec
  <2>4. Templates(lister'.entries) \subseteq everStored' /\ ListedIsStored'
    BY <2>1, <2>2 DEF Backed, ListedIsStored
  <2> QED BY <2>1, <2>3, <2>4 DEF Backed
<1>2. CASE ListerStep
  <2>1. UNCHANGED calls BY <1>2 DEF ListerStep, OpenTemplates, NextBatch
  <2>2. /\ \A e \in Execs : BackedExec(e)'
        /\ Templates(global_cache'.entries) \subseteq everStored'
        /\ everStored' = everStored
    BY <2>1 DEF Backed, BackedExec, global_cache, calls
  <2> QED BY <1>2, <2>2, BackedLister DEF Backed
<1>3. CASE UNCHANGED vars
  BY <1>3 DEF vars, Backed, BackedExec, global_cache, ListedIsStored
<1> QED BY <1>1, <1>2, <1>3, NextCases

LEMMA BackedInit == Init => Backed
<1> SUFFICES ASSUME Init PROVE Backed OBVIOUS
<1>1. /\ lister.rows = {} /\ DOMAIN lister.entries = {}
      /\ global_cache = NewCache /\ \A e \in Execs : mirror[e] = NewCache /\ pc[e] = "idle"
  BY EmptyTokenOK DEF Init, global_cache
<1>2. Templates(lister.entries) = {} BY <1>1 DEF Templates
<1> QED BY <1>1, <1>2, NewTemplates DEF Backed, BackedExec, ListedIsStored

\* templates() lists only layouts that had been stored in some scan's state before:
\* however its snapshot falls between the two writes of other calls, and wherever their
\* workers die, nothing it showed is taken back.
THEOREM ListingIsBacked == Spec => []ListedIsStored
<1>1. TypesOK /\ Backed /\ [Next]_vars => Backed' BY BackedStep
<1>2. Backed => ListedIsStored BY DEF Backed
<1> QED BY <1>1, <1>2, BackedInit, TypesInvariant, PTL DEF Spec

-----------------------------------------------------------------------------
(* Completeness of serial calls.  As long as no more templates are stored  *)
(* than a cache holds, no mirror evicts; as long as no calls overlap, the  *)
(* projection a call read is the one it replaces.                          *)

Few == Cardinality(Stored) <= CapEntries

\* Without overlap at most one call is in progress.
Alone ==
  /\ overlap \in BOOLEAN
  /\ ~overlap => \A d, e \in Execs : pc[d] # "idle" /\ pc[e] # "idle" => d = e

MirrorComplete(e) ==
  pc[e] = "mirror" =>
    /\ DOMAIN global_cache.entries \subseteq DOMAIN mirror[e].entries
    /\ DOMAIN cache[e].entries \subseteq DOMAIN mirror[e].entries \cup todo[e]

Touched == {k \in Keys : touched[k] > 0}

ListerComplete ==
  /\ lister.at # "closed" => lister.due \subseteq DOMAIN lister.entries
  /\ lister.at = "done" =>
       \A k \in DOMAIN lister.entries :
         Matches(k) => \E r \in lister.rows : r.key = k

Complete ==
  /\ \A e \in Execs : MirrorComplete(e)
  /\ Touched \subseteq DOMAIN global_cache.entries
  /\ ListerComplete

SerialOK == Alone /\ (Few /\ ~overlap => Complete)

LEMMA StoredFinite ==
  ASSUME IsolationOK
  PROVE  Stored \subseteq Keys /\ IsFiniteSet(Stored) /\ Cardinality(Stored) \in Nat
<1>1. Stored \subseteq Keys BY DEF IsolationOK, Isolated, Stored
<1>2. IsFiniteSet(Keys) BY ProjectionAssumption
<1>3. IsFiniteSet(Stored) BY <1>1, <1>2, FS_Subset
<1> QED BY <1>1, <1>3, FS_CardinalityType

\* A cache that has room keeps all it had.
LEMMA UpsertKeeps ==
  ASSUME NEW c, CacheOK(c), NEW key, NEW entry,
         Cardinality(DOMAIN c.entries \cup {key}) <= CapEntries,
         Cardinality(DOMAIN c.entries \cup {key}) \in Nat
  PROVE  DOMAIN upsert(c, key, entry).entries = DOMAIN c.entries \cup {key}
<1> DEFINE w == With(c.entries, key, Merged(c, key, entry))
<1>1. DOMAIN w = DOMAIN c.entries \cup {key} BY DEF With
<1> HIDE DEF w
<1>2. ~(Cardinality(DOMAIN w) > CapEntries) BY <1>1, CapsAssumption
<1>3. evict_if_needed(w) = w BY <1>2 DEF evict_if_needed
<1>4. c = [entries |-> c.entries, pending |-> c.pending, pending_bytes |-> c.pending_bytes]
  BY DEF CacheOK, CacheTypeOK
<1>5. upsert(c, key, entry).entries = w BY <1>3, <1>4 DEF upsert, w
<1> QED BY <1>1, <1>5

LEMMA AloneStep ==
  ASSUME TypesOK, Alone, NEW e \in Execs, ExecStep(e)
  PROVE  Alone' /\ (overlap => overlap')
<1>0. Shape BY DEF TypesOK
<1>1. \A d \in Execs \ {e} : pc'[d] = pc[d] BY <1>0, Frame DEF SameExec
<1>2. CASE Load(e)
  <2>1. overlap' = (overlap \/ \E d \in Execs : pc[d] # "idle")
    BY <1>2 DEF Load
  <2> QED BY <1>1, <2>1 DEF Alone
<1>3. CASE ~Load(e)
  <2>1. overlap' = overlap /\ pc[e] # "idle"
    BY <1>3 DEF ExecStep, StoreScan, ReadGlobal, WriteGlobal, Crash, Learn, Use, MirrorEntry
  <2> QED BY <1>1, <2>1 DEF Alone
<1> QED BY <1>2, <1>3

\* Few is inherited from the later state by the earlier one.
LEMMA FewBefore ==
  ASSUME IsolationOK, IsolationOK', Stored \subseteq Stored', Few'
  PROVE  Few
<1>1. IsFiniteSet(Stored') /\ Cardinality(Stored') \in Nat /\ Cardinality(Stored) \in Nat
  <2>1. Stored' \subseteq Keys BY DEF IsolationOK, Isolated, Stored
  <2>2. IsFiniteSet(Stored') BY <2>1, ProjectionAssumption, FS_Subset
  <2> QED BY <2>2, StoredFinite, FS_CardinalityType
<1>2. Cardinality(Stored) <= Cardinality(Stored') BY <1>1, FS_Subset
<1> QED BY <1>1, <1>2, CapsAssumption DEF Few

\* The execution that takes the step, alone.
LEMMA CompleteExec ==
  ASSUME TypesOK, IsolationOK, NEW e \in Execs, ExecStep(e), Few, Complete,
         \A d \in Execs \ {e} : pc[d] = "idle"
  PROVE  MirrorComplete(e)' /\ Touched' \subseteq DOMAIN global_cache'.entries
<1> DEFINE Goal == MirrorComplete(e)' /\ Touched' \subseteq DOMAIN global_cache'.entries
<1> SUFFICES Goal OBVIOUS
<1>0. Shape /\ ExecOK(e) /\ CountersOK BY DEF TypesOK
<1>1. Touched \subseteq DOMAIN global_cache.entries /\ MirrorComplete(e) BY DEF Complete
<1>2. CASE ReadGlobal(e)
  <2>1. /\ mirror'[e] = global_cache /\ global' = global /\ cache' = cache
        /\ todo'[e] = DOMAIN cache[e].entries /\ touched' = touched
    BY <1>0, <1>2 DEF ReadGlobal, Shape, global_cache
  <2> QED BY <1>1, <2>1 DEF MirrorComplete, Touched, global_cache
<1>3. CASE WriteGlobal(e)
  <2>1. /\ global' = to_bytes(mirror[e]) /\ pc'[e] = "idle" /\ todo[e] = {}
        /\ pc[e] = "mirror"
    BY <1>0, <1>3 DEF WriteGlobal, Shape
  <2>2. global_cache' = mirror[e] BY <1>0, <2>1, Rehydration DEF ExecOK, global_cache
  <2>3. \A k \in Keys : touched'[k] = touched[k] \/ k \in DOMAIN cache[e].entries
    BY <1>3 DEF WriteGlobal
  <2>4. Touched' \subseteq Touched \cup DOMAIN cache[e].entries BY <2>3 DEF Touched
  <2> QED BY <1>1, <2>1, <2>2, <2>4 DEF MirrorComplete
<1>4. ASSUME NEW key \in Keys, MirrorEntry(e, key) PROVE Goal
  <2> DEFINE d == upsert(mirror[e], key, cache[e].entries[key])
  <2>1. /\ mirror'[e] = d /\ todo'[e] = todo[e] \ {key} /\ key \in todo[e]
        /\ pc' = pc /\ pc[e] = "mirror" /\ global' = global /\ cache' = cache
        /\ touched' = touched
    BY <1>0, <1>4 DEF MirrorEntry, Shape
  <2>2. key \in DOMAIN durable[e] BY <1>0, <2>1 DEF ExecOK, IsolationOK, Isolated, Knows
  <2>3. DOMAIN mirror[e].entries \cup {key} \subseteq Stored
    BY <2>2 DEF Stored, IsolationOK, Sound
  <2>4. IsFiniteSet(Stored) /\ Cardinality(Stored) \in Nat BY StoredFinite
  <2>5. /\ Cardinality(DOMAIN mirror[e].entries \cup {key}) \in Nat
        /\ Cardinality(DOMAIN mirror[e].entries \cup {key}) <= Cardinality(Stored)
    BY <2>3, <2>4, FS_Subset, FS_CardinalityType
  <2>6. Cardinality(DOMAIN mirror[e].entries \cup {key}) <= CapEntries
    BY <2>4, <2>5, CapsAssumption DEF Few
  <2>7. DOMAIN d.entries = DOMAIN mirror[e].entries \cup {key}
    BY <1>0, <2>5, <2>6, UpsertKeeps DEF ExecOK
  <2> HIDE DEF d
  <2> QED BY <1>1, <2>1, <2>7 DEF MirrorComplete, Touched, global_cache
<1>5. CASE Load(e) \/ StoreScan(e) \/ Crash(e)
  <2>1. pc'[e] # "mirror" /\ global' = global /\ touched' = touched
    BY <1>0, <1>5 DEF Load, StoreScan, Crash, Shape
  <2> QED BY <1>1, <2>1 DEF MirrorComplete, Touched, global_cache
<1>6. CASE \/ \E key \in Keys : \E layout \in Layouts[key] : Learn(e, key, layout)
           \/ \E key \in Keys : Use(e, key)
  <2>1. pc[e] = "decode" /\ pc' = pc /\ global' = global /\ touched' = touched
    BY <1>6 DEF Learn, Use
  <2> QED BY <1>1, <2>1 DEF MirrorComplete, Touched, global_cache
<1> HIDE DEF Goal
<1> QED BY <1>2, <1>3, <1>4, <1>5, <1>6 DEF ExecStep

LEMMA SerialExecStep ==
  ASSUME TypesOK, IsolationOK, IsolationOK', SerialOK, NEW e \in Execs, ExecStep(e)
  PROVE  SerialOK'
<1>1. Alone' /\ (overlap => overlap') BY AloneStep DEF SerialOK
<1>2. Shape' /\ lister' = lister /\ \A d \in Execs \ {e} : SameExec(d)
  BY Frame DEF TypesOK
<1>3. Stored \subseteq Stored' BY StoredGrows DEF IsolationOK
<1> SUFFICES ASSUME Few', ~overlap' PROVE Complete'
  BY <1>1 DEF SerialOK
<1>4. Few /\ ~overlap /\ Complete BY <1>1, <1>3, FewBefore DEF SerialOK
<1>5. \A d \in Execs \ {e} : pc[d] = "idle"
  <2>1. CASE Load(e)
    <3>1. overlap' = (overlap \/ \E d \in Execs : pc[d] # "idle") BY <2>1 DEF Load
    <3> QED BY <3>1
  <2>2. CASE ~Load(e)
    <3>1. pc[e] # "idle"
      BY <2>2 DEF ExecStep, StoreScan, ReadGlobal, WriteGlobal, Crash, Learn, Use, MirrorEntry
    <3> QED BY <1>4, <3>1 DEF SerialOK, Alone
  <2> QED BY <2>1, <2>2
<1>6. MirrorComplete(e)' /\ Touched' \subseteq DOMAIN global_cache'.entries
  BY <1>4, <1>5, CompleteExec
<1>7. ASSUME NEW d \in Execs \ {e} PROVE MirrorComplete(d)'
  BY <1>2, <1>5 DEF SameExec, MirrorComplete
<1>8. ListerComplete' BY <1>2, <1>4 DEF Complete, ListerComplete, Matches
<1> QED BY <1>6, <1>7, <1>8 DEF Complete

LEMMA SerialListerStep ==
  ASSUME TypesOK, SerialOK, ListerStep
  PROVE  SerialOK'
<1>0. UNCHANGED calls BY DEF ListerStep, OpenTemplates, NextBatch
<1>1. /\ Stored' = Stored /\ global_cache' = global_cache /\ Touched' = Touched
      /\ overlap' = overlap /\ pc' = pc /\ mirror' = mirror /\ cache' = cache /\ todo' = todo
  BY <1>0 DEF calls, Stored, global_cache, Touched
<1>2. Alone' BY <1>1 DEF SerialOK, Alone
<1> SUFFICES ASSUME Few', ~overlap' PROVE Complete'
  BY <1>2 DEF SerialOK
<1>3. Complete BY <1>1 DEF SerialOK, Few
<1>4. \A e \in Execs : MirrorComplete(e)'
  BY <1>1, <1>3 DEF Complete, MirrorComplete
<1>5. ListerComplete'
  <2>1. ASSUME NEW filter \in Filters, OpenTemplates(filter) PROVE ListerComplete'
    <3>1. /\ lister'.at = "open" /\ lister'.entries = global_cache.entries
          /\ lister'.due = Touched
      BY <2>1 DEF OpenTemplates, TypesOK, ListerOK, Touched
    <3> QED BY <1>3, <3>1 DEF ListerComplete, Complete
  <2>2. CASE NextBatch
    <3> DEFINE shown == {j \in DOMAIN lister.entries : Matches(j)}
    <3>1. /\ lister'.at = "done" /\ lister'.entries = lister.entries
          /\ lister'.filter = lister.filter /\ lister'.due = lister.due
          /\ lister'.rows = {[key |-> k, entry |-> lister.entries[k]] : k \in shown}
          /\ lister.at = "open"
      BY <2>2 DEF NextBatch, TypesOK, ListerOK
    <3>2. \A k : Matches(k)' = Matches(k) BY <3>1 DEF Matches
    <3>3. ASSUME NEW k \in DOMAIN lister'.entries, Matches(k)'
          PROVE  \E r \in lister'.rows : r.key = k
      <4>1. k \in shown BY <3>1, <3>2, <3>3
      <4> HIDE DEF shown
      <4>2. [key |-> k, entry |-> lister.entries[k]] \in lister'.rows BY <3>1, <4>1
      <4> QED BY <4>2
    <3>4. lister'.due \subseteq DOMAIN lister'.entries
      BY <1>3, <3>1 DEF Complete, ListerComplete
    <3> QED BY <3>3, <3>4 DEF ListerComplete
  <2> QED BY <2>1, <2>2 DEF ListerStep
<1> QED BY <1>1, <1>3, <1>4, <1>5 DEF Complete

LEMMA SerialStep ==
  ASSUME TypesOK, IsolationOK, IsolationOK', SerialOK, [Next]_vars
  PROVE  SerialOK'
<1>1. CASE \E e \in Execs : ExecStep(e) BY <1>1, SerialExecStep
<1>2. CASE ListerStep BY <1>2, SerialListerStep
<1>3. CASE UNCHANGED vars
  BY <1>3 DEF vars, SerialOK, Alone, Few, Stored, Complete, MirrorComplete, Touched,
              ListerComplete, Matches, global_cache
<1> QED BY <1>1, <1>2, <1>3, NextCases

LEMMA SerialInit == Init => SerialOK
<1> SUFFICES ASSUME Init PROVE SerialOK OBVIOUS
<1>1. Alone BY DEF Init, Alone
<1>2. Touched = {} BY DEF Init, Touched
<1>3. \A e \in Execs : MirrorComplete(e) BY DEF Init, MirrorComplete
<1>4. ListerComplete BY DEF Init, ListerComplete
<1> QED BY <1>1, <1>2, <1>3, <1>4 DEF SerialOK, Complete

\* Calls that follow one another, crashes between their steps included, lose nothing:
\* templates() reports every template of every call that returned before it, as long
\* as no cache has to evict.
THEOREM SerialCallsLoseNothing == Spec => []SerialCallsAreReported
<1>1. TypesOK /\ IsolationOK /\ SerialOK => SerialCallsAreReported
  <2> SUFFICES ASSUME TypesOK, IsolationOK, SerialOK, ~overlap, lister.at = "done",
                      Cardinality(AllLearned) <= CapEntries
               PROVE  \A key \in lister.due :
                        Matches(key) => \E r \in lister.rows : r.key = key
    BY DEF SerialCallsAreReported, PriorCallsAreReported
  <2>1. Stored \subseteq AllLearned BY DEF Stored, AllLearned, IsolationOK, Isolated
  <2>2. AllLearned \subseteq Keys BY DEF AllLearned, IsolationOK, Isolated
  <2>3. IsFiniteSet(AllLearned) BY <2>2, ProjectionAssumption, FS_Subset
  <2>4. /\ Cardinality(Stored) <= Cardinality(AllLearned)
        /\ Cardinality(Stored) \in Nat /\ Cardinality(AllLearned) \in Nat
    BY <2>1, <2>3, FS_Subset, FS_CardinalityType
  <2>5. Few BY <2>4, CapsAssumption DEF Few
  <2>6. ListerComplete BY <2>5 DEF SerialOK, Complete
  <2> QED BY <2>6 DEF ListerComplete
<1>2. TypesOK /\ IsolationOK /\ IsolationOK' /\ SerialOK /\ [Next]_vars => SerialOK'
  BY SerialStep
<1> QED BY <1>1, <1>2, SerialInit, IsolationInvariant, TypesInvariant, PTL DEF Spec
=============================================================================
