------------------------ MODULE TemplateCacheProofs ------------------------
(***************************************************************************)
(* Facts about the operators of TemplateCache, for every cap, every set of *)
(* keys and every payload: what each method preserves.                     *)
(***************************************************************************)
EXTENDS TemplateCache, FiniteSetTheorems, WellFoundedInduction, TLAPS

\* A cache a scan may hold: well typed, within its entry cap, and with an exact
\* byte total within its pending cap.  Cardinality needs the finiteness.
CacheOK(c) ==
  /\ CacheTypeOK(c) /\ EntriesWithinCap(c) /\ PendingBytesExact(c)
  /\ IsFiniteSet(BufferedBytes(c.pending))

-----------------------------------------------------------------------------
(* The victim of an eviction.                                              *)

\* A nonempty set of naturals has a least element.
LEMMA NatMin ==
  ASSUME NEW S, S \subseteq Nat, S # {}
  PROVE  \E m \in S : \A n \in S : m <= n
<1>1. \E x \in S : \A y \in S : ~ (<<y, x>> \in OpToRel(<, Nat))
  BY NatLessThanWellFounded, WFMin, Zenon
<1>2. \A x, y \in Nat : <<y, x>> \in OpToRel(<, Nat) <=> y < x
  BY Zenon DEF OpToRel
<1>3. PICK x \in S : \A y \in S : ~ (y < x)
  BY <1>1, <1>2, Zenon
<1> QED BY <1>3

\* A nonempty set of keys has a least key in the order of the map.
LEMMA KeyMin ==
  ASSUME NEW S, S \subseteq TemplateKey, S # {}
  PROVE  \E k \in S : \A j \in S : j = k \/ KeyLess(k, j)
<1>a. \A k \in S : /\ k[1] \in Nat /\ k[2] \in Nat /\ k[3] \in Nat
                   /\ k = <<k[1], k[2], k[3]>>
  BY DEF TemplateKey
<1> DEFINE A == {k[1] : k \in S}
<1>1. PICK a \in A : \A n \in A : a <= n
  <2>1. A \subseteq Nat /\ A # {} BY <1>a
  <2> QED BY <2>1, NatMin
<1> DEFINE S1 == {k \in S : k[1] = a}
           B == {k[2] : k \in S1}
<1>2. PICK b \in B : \A n \in B : b <= n
  <2>1. B \subseteq Nat /\ B # {} BY <1>a, <1>1
  <2> QED BY <2>1, NatMin
<1> DEFINE S2 == {k \in S1 : k[2] = b}
           D == {k[3] : k \in S2}
<1>3. PICK d \in D : \A n \in D : d <= n
  <2>1. D \subseteq Nat /\ D # {} BY <1>a, <1>2
  <2> QED BY <2>1, NatMin
<1>4. PICK k \in S2 : k[3] = d BY <1>3
<1>5. k \in S /\ k[1] = a /\ k[2] = b BY <1>4
<1>6. ASSUME NEW j \in S PROVE j = k \/ KeyLess(k, j)
  <2>1. a <= j[1] BY <1>1
  <2>2. j[1] = a => j \in S1 /\ b <= j[2] BY <1>2
  <2>3. (j[1] = a /\ j[2] = b) => d <= j[3] BY <1>3
  <2>4. a \in Nat /\ b \in Nat /\ d \in Nat BY <1>a, <1>4, <1>5
  <2>5. k = <<a, b, d>> BY <1>a, <1>4, <1>5
  <2>6. j = <<j[1], j[2], j[3]>> /\ j[1] \in Nat /\ j[2] \in Nat /\ j[3] \in Nat
    BY <1>a
  <2>7. CASE j[1] # a BY <2>1, <2>4, <2>5, <2>6, <2>7 DEF KeyLess
  <2>8. CASE j[1] = a /\ j[2] # b BY <2>2, <2>4, <2>5, <2>6, <2>8 DEF KeyLess
  <2>9. CASE j[1] = a /\ j[2] = b BY <2>3, <2>4, <2>5, <2>6, <2>9 DEF KeyLess
  <2> QED BY <2>7, <2>8, <2>9
<1> QED BY <1>5, <1>6

\* The victim is a cached template that none other was seen before.
LEMMA VictimIsOldest ==
  ASSUME NEW entries, DOMAIN entries \subseteq TemplateKey, DOMAIN entries # {},
         entries \in [DOMAIN entries -> TemplateEntry]
  PROVE  /\ Victim(entries) \in DOMAIN entries
         /\ \A j \in DOMAIN entries :
              entries[Victim(entries)].last_seen <= entries[j].last_seen
<1> DEFINE S == {entries[k].last_seen : k \in DOMAIN entries}
<1>1. S \subseteq Nat /\ S # {} BY DEF TemplateEntry
<1>2. PICK m \in S : \A n \in S : m <= n BY <1>1, NatMin
<1>3. OldestSeen(entries) # {} BY <1>2 DEF OldestSeen
<1>4. OldestSeen(entries) \subseteq TemplateKey BY DEF OldestSeen
<1>5. \E k \in OldestSeen(entries) :
        \A j \in OldestSeen(entries) : j = k \/ KeyLess(k, j)
  BY <1>3, <1>4, KeyMin
<1>6. Victim(entries) \in OldestSeen(entries) BY <1>5 DEF Victim
<1> QED BY <1>6 DEF OldestSeen

-----------------------------------------------------------------------------
(* Templates.                                                              *)

\* One removal restores the cap, so evict_if_needed's loop runs at most once; what
\* is left is a part of what there was.
THEOREM EvictRestoresCap ==
  ASSUME NEW entries, DOMAIN entries \subseteq TemplateKey,
         IsFiniteSet(DOMAIN entries),
         entries \in [DOMAIN entries -> TemplateEntry],
         Cardinality(DOMAIN entries) <= CapEntries + 1
  PROVE  LET left == evict_if_needed(entries) IN
           /\ DOMAIN left \subseteq DOMAIN entries
           /\ IsFiniteSet(DOMAIN left)
           /\ Cardinality(DOMAIN left) <= CapEntries
           /\ left = [k \in DOMAIN left |-> entries[k]]
<1> USE CapsAssumption
<1>1. Cardinality(DOMAIN entries) \in Nat BY FS_CardinalityType
<1>2. CASE Cardinality(DOMAIN entries) > CapEntries
  <2>1. DOMAIN entries # {} BY <1>2, FS_EmptySet
  <2>2. Victim(entries) \in DOMAIN entries BY <2>1, VictimIsOldest
  <2>3. evict_if_needed(entries) = Without(entries, Victim(entries))
    BY <1>2 DEF evict_if_needed
  <2>4. /\ IsFiniteSet(DOMAIN entries \ {Victim(entries)})
        /\ Cardinality(DOMAIN entries \ {Victim(entries)})
             = Cardinality(DOMAIN entries) - 1
    BY <2>2, FS_RemoveElement
  <2>5. DOMAIN Without(entries, Victim(entries)) = DOMAIN entries \ {Victim(entries)}
    BY DEF Without
  <2> QED BY <2>3, <2>4, <2>5, <1>1 DEF Without
<1>3. CASE ~(Cardinality(DOMAIN entries) > CapEntries)
  BY <1>1, <1>3 DEF evict_if_needed
<1> QED BY <1>2, <1>3

\* upsert keeps a cache well formed, touches only layouts, and what it leaves is
\* what was cached or the new layout with the old statistics.
LEMMA UpsertOK ==
  ASSUME NEW c, CacheOK(c), NEW key \in TemplateKey, NEW entry \in TemplateEntry
  PROVE  LET d == upsert(c, key, entry) IN
           /\ CacheOK(d)
           /\ d.pending = c.pending
           /\ DOMAIN d.entries \subseteq DOMAIN c.entries \cup {key}
           /\ \A k \in DOMAIN d.entries :
                d.entries[k].layout = IF k = key THEN entry.layout
                                      ELSE c.entries[k].layout
<1> DEFINE w == With(c.entries, key, Merged(c, key, entry))
           d == upsert(c, key, entry)
<1>1. c = [entries |-> c.entries, pending |-> c.pending,
           pending_bytes |-> c.pending_bytes]
  BY DEF CacheOK, CacheTypeOK
<1>2. d = [entries |-> evict_if_needed(w), pending |-> c.pending,
           pending_bytes |-> c.pending_bytes]
  BY <1>1 DEF upsert
<1>3. Merged(c, key, entry) \in TemplateEntry
      /\ Merged(c, key, entry).layout = entry.layout
  BY DEF Merged, TemplateEntry, CacheOK, CacheTypeOK
<1>4. DOMAIN w = DOMAIN c.entries \cup {key} BY DEF With
<1>5. w \in [DOMAIN w -> TemplateEntry]
  BY <1>3, <1>4 DEF With, CacheOK, CacheTypeOK
<1>6. IsFiniteSet(DOMAIN w) /\ Cardinality(DOMAIN w) <= CapEntries + 1
  <2>1. IsFiniteSet(DOMAIN c.entries) /\ Cardinality(DOMAIN c.entries) <= CapEntries
    BY DEF CacheOK, CacheTypeOK, EntriesWithinCap
  <2>2. /\ IsFiniteSet(DOMAIN c.entries \cup {key})
        /\ \/ Cardinality(DOMAIN c.entries \cup {key}) = Cardinality(DOMAIN c.entries)
           \/ Cardinality(DOMAIN c.entries \cup {key}) = Cardinality(DOMAIN c.entries) + 1
    BY <2>1, FS_AddElement
  <2>3. Cardinality(DOMAIN c.entries) \in Nat BY <2>1, FS_CardinalityType
  <2> QED BY <1>4, <2>1, <2>2, <2>3, CapsAssumption
<1>7. DOMAIN w \subseteq TemplateKey BY <1>4 DEF CacheOK, CacheTypeOK
<1> DEFINE e == evict_if_needed(w)
<1> HIDE DEF w
<1>8. /\ DOMAIN e \subseteq DOMAIN w
      /\ IsFiniteSet(DOMAIN e)
      /\ Cardinality(DOMAIN e) <= CapEntries
      /\ e = [k \in DOMAIN e |-> w[k]]
  BY <1>5, <1>6, <1>7, EvictRestoresCap
<1> HIDE DEF e
<1>9. d.entries = e /\ d.pending = c.pending /\ d.pending_bytes = c.pending_bytes
      /\ d = [entries |-> d.entries, pending |-> d.pending,
              pending_bytes |-> d.pending_bytes]
  BY <1>2 DEF e
<1> HIDE DEF d
<1>10. CacheTypeOK(d)
  <2>1. e \in [DOMAIN e -> TemplateEntry] BY <1>5, <1>8
  <2> QED BY <1>7, <1>8, <1>9, <2>1 DEF CacheOK, CacheTypeOK
<1>11. EntriesWithinCap(d) BY <1>8, <1>9 DEF EntriesWithinCap
<1>12. PendingBytesExact(d) BY <1>9 DEF CacheOK, PendingBytesExact
<1>13. ASSUME NEW k \in DOMAIN e
       PROVE  e[k].layout = IF k = key THEN entry.layout ELSE c.entries[k].layout
  <2>1. e[k] = w[k] /\ k \in DOMAIN w BY <1>8
  <2>2. w[k] = IF k = key THEN Merged(c, key, entry) ELSE c.entries[k]
    BY <2>1, <1>4 DEF w, With
  <2> QED BY <2>1, <2>2, <1>3
<1> QED BY <1>4, <1>8, <1>9, <1>10, <1>11, <1>12, <1>13 DEF CacheOK, d

\* use_template on a cached key keeps a cache well formed and every layout.
LEMMA UseOK ==
  ASSUME NEW c, CacheOK(c), NEW key \in DOMAIN c.entries, NEW now \in Nat
  PROVE  LET d == use_template(c, key, now) IN
           /\ CacheOK(d)
           /\ d.pending = c.pending
           /\ DOMAIN d.entries = DOMAIN c.entries
           /\ \A k \in DOMAIN d.entries : d.entries[k].layout = c.entries[k].layout
<1> DEFINE d == use_template(c, key, now)
           n == c.entries[key].use_count + 1
           u == Used(c.entries[key], now)
           e == [c.entries EXCEPT ![key] = u]
<1>1. c = [entries |-> c.entries, pending |-> c.pending,
           pending_bytes |-> c.pending_bytes]
  BY DEF CacheOK, CacheTypeOK
<1>2. c.entries \in [DOMAIN c.entries -> TemplateEntry]
  BY DEF CacheOK, CacheTypeOK
<1>3. d = [entries |-> e, pending |-> c.pending, pending_bytes |-> c.pending_bytes]
  <2>1. d = [c EXCEPT !.entries = e] BY DEF use_template
  <2> HIDE DEF d, e
  <2> QED BY <1>1, <2>1
<1>4. u \in TemplateEntry /\ u.layout = c.entries[key].layout
  <2>1. n \in Nat BY <1>2 DEF TemplateEntry
  <2>2. c.entries[key] \in TemplateEntry BY <1>2
  <2>3. u = [c.entries[key] EXCEPT !.use_count = n, !.last_seen = now] BY DEF Used
  <2> HIDE DEF n, u
  <2> QED BY <2>1, <2>2, <2>3 DEF TemplateEntry
<1>5. /\ DOMAIN e = DOMAIN c.entries
      /\ e \in [DOMAIN e -> TemplateEntry]
      /\ \A k \in DOMAIN e : e[k].layout = c.entries[k].layout
  BY <1>2, <1>4
<1> HIDE DEF e, u
<1>6. d.entries = e /\ d.pending = c.pending /\ d.pending_bytes = c.pending_bytes
      /\ d = [entries |-> d.entries, pending |-> d.pending,
              pending_bytes |-> d.pending_bytes]
  BY <1>3
<1> HIDE DEF d
<1>7. CacheOK(d)
  BY <1>5, <1>6
     DEF CacheOK, CacheTypeOK, EntriesWithinCap, PendingBytesExact
<1> QED BY <1>5, <1>6, <1>7 DEF d

\* What goes from c to d goes because c is full, and nothing d has was seen before it.
OldestOut(c, d) ==
  \A key \in DOMAIN c.entries \ DOMAIN d.entries :
    /\ Cardinality(DOMAIN c.entries) = CapEntries
    /\ \A j \in DOMAIN d.entries :
         c.entries[key].last_seen <= d.entries[j].last_seen

\* What stays from c to d keeps its first_seen and loses no use.
StatsKept(c, d) ==
  \A key \in DOMAIN c.entries \cap DOMAIN d.entries :
    /\ d.entries[key].first_seen = c.entries[key].first_seen
    /\ d.entries[key].use_count >= c.entries[key].use_count

\* upsert evicts only from a full cache, only the oldest, and the clock reading of the
\* new layout may even make that one the victim; a redefinition keeps the statistics.
LEMMA UpsertHistory ==
  ASSUME NEW c, CacheOK(c), NEW key \in TemplateKey, NEW entry \in TemplateEntry
  PROVE  LET d == upsert(c, key, entry) IN OldestOut(c, d) /\ StatsKept(c, d)
<1> DEFINE m == Merged(c, key, entry)
           w == With(c.entries, key, m)
           e == evict_if_needed(w)
           d == upsert(c, key, entry)
           old == DOMAIN c.entries
<1>1. /\ c = [entries |-> c.entries, pending |-> c.pending,
              pending_bytes |-> c.pending_bytes]
      /\ c.entries \in [old -> TemplateEntry] /\ old \subseteq TemplateKey
      /\ IsFiniteSet(old) /\ Cardinality(old) <= CapEntries
  BY DEF CacheOK, CacheTypeOK, EntriesWithinCap
<1>2. d.entries = e BY <1>1 DEF upsert
<1>3. /\ m \in TemplateEntry
      /\ key \in old => /\ m.first_seen = c.entries[key].first_seen
                        /\ m.use_count = c.entries[key].use_count
  BY <1>1 DEF Merged, TemplateEntry
<1> HIDE DEF m
<1>4. /\ DOMAIN w = old \cup {key}
      /\ \A k \in DOMAIN w : w[k] = IF k = key THEN m ELSE c.entries[k]
  BY DEF With
<1>5. w \in [DOMAIN w -> TemplateEntry] /\ DOMAIN w \subseteq TemplateKey
  BY <1>1, <1>3, <1>4 DEF With
<1> HIDE DEF w, d
<1>6. DOMAIN e \subseteq DOMAIN w /\ \A k \in DOMAIN e : e[k] = w[k]
  BY DEF evict_if_needed, Without
<1>7. StatsKept(c, d)
  <2> SUFFICES ASSUME NEW k \in old \cap DOMAIN e
               PROVE  /\ e[k].first_seen = c.entries[k].first_seen
                      /\ e[k].use_count >= c.entries[k].use_count
    BY <1>2 DEF StatsKept
  <2>1. e[k].first_seen = c.entries[k].first_seen /\ e[k].use_count = c.entries[k].use_count
    BY <1>3, <1>4, <1>6
  <2>2. c.entries[k].use_count \in Nat BY <1>1 DEF TemplateEntry
  <2> QED BY <2>1, <2>2
<1>8. OldestOut(c, d)
  <2> SUFFICES ASSUME NEW k \in old \ DOMAIN e
               PROVE  /\ Cardinality(old) = CapEntries
                      /\ \A j \in DOMAIN e : c.entries[k].last_seen <= e[j].last_seen
    BY <1>2 DEF OldestOut
  <2>1. Cardinality(DOMAIN w) > CapEntries /\ e = Without(w, Victim(w))
    BY <1>4 DEF evict_if_needed
  <2>2. Cardinality(old) \in Nat BY <1>1, FS_CardinalityType
  <2>3. key \notin old
    <3>1. key \in old => DOMAIN w = old BY <1>4
    <3> QED BY <1>1, <2>1, <2>2, <3>1, CapsAssumption
  <2>4. Cardinality(DOMAIN w) = Cardinality(old) + 1 BY <1>1, <1>4, <2>3, FS_AddElement
  <2>5. Cardinality(old) = CapEntries BY <1>1, <2>1, <2>2, <2>4, CapsAssumption
  <2>6. k = Victim(w) BY <1>4, <2>1 DEF Without
  <2>7. \A j \in DOMAIN w : w[k].last_seen <= w[j].last_seen
    BY <1>4, <1>5, <2>6, VictimIsOldest
  <2>8. w[k] = c.entries[k] BY <1>4, <2>3
  <2> QED BY <1>6, <2>5, <2>7, <2>8
<1> QED BY <1>7, <1>8 DEF d

\* use_template drops nothing and counts up.
LEMMA UseHistory ==
  ASSUME NEW c, CacheOK(c), NEW key \in DOMAIN c.entries, NEW now \in Nat
  PROVE  LET d == use_template(c, key, now) IN OldestOut(c, d) /\ StatsKept(c, d)
<1> DEFINE d == use_template(c, key, now)
           u == Used(c.entries[key], now)
<1>1. /\ c = [entries |-> c.entries, pending |-> c.pending,
              pending_bytes |-> c.pending_bytes]
      /\ c.entries \in [DOMAIN c.entries -> TemplateEntry]
  BY DEF CacheOK, CacheTypeOK
<1>2. d.entries = [c.entries EXCEPT ![key] = u] BY <1>1 DEF use_template
<1>3. /\ u.first_seen = c.entries[key].first_seen
      /\ u.use_count = c.entries[key].use_count + 1
  <2>1. c.entries[key] \in TemplateEntry BY <1>1
  <2> QED BY <2>1 DEF Used, TemplateEntry
<1>4. \A k \in DOMAIN c.entries : c.entries[k].use_count \in Nat
  BY <1>1 DEF TemplateEntry
<1> HIDE DEF d, u
<1>5. /\ DOMAIN d.entries = DOMAIN c.entries
      /\ \A k \in DOMAIN c.entries : d.entries[k] = IF k = key THEN u ELSE c.entries[k]
  BY <1>1, <1>2
<1>6. OldestOut(c, d) BY <1>5 DEF OldestOut
<1>7. ASSUME NEW k \in DOMAIN c.entries
      PROVE  /\ d.entries[k].first_seen = c.entries[k].first_seen
             /\ d.entries[k].use_count >= c.entries[k].use_count
  BY <1>3, <1>4, <1>5
<1> QED BY <1>6, <1>7 DEF StatsKept, d

-----------------------------------------------------------------------------
(* The pending buffer.                                                     *)

\* A payload of n bytes has n byte positions.
LEMMA PositionsOfPayload ==
  ASSUME NEW k, NEW i, NEW n \in Nat
  PROVE  /\ IsFiniteSet(PayloadPositions(k, i, n))
         /\ Cardinality(PayloadPositions(k, i, n)) = n
<1> DEFINE f == [b \in 1 .. n |-> <<k, i, b>>]
           P == PayloadPositions(k, i, n)
<1>1. f \in Bijection(1 .. n, P)
  BY DEF PayloadPositions, Bijection, Injection, Surjection, IsInjective
<1>2. ExistsBijection(1 .. n, P) BY <1>1 DEF ExistsBijection
<1>3. IsFiniteSet(P) BY <1>2, FS_NatBijection
<1>4. Cardinality(P) = n BY <1>2, FS_CountingElements
<1> QED BY <1>3, <1>4

\* The cardinality of a disjoint union of finite sets is the sum.
LEMMA DisjointUnion ==
  ASSUME NEW S, NEW T, IsFiniteSet(S), IsFiniteSet(T), S \cap T = {}
  PROVE  /\ IsFiniteSet(S \cup T)
         /\ Cardinality(S \cup T) = Cardinality(S) + Cardinality(T)
         /\ Cardinality(S) \in Nat /\ Cardinality(T) \in Nat
<1>1. Cardinality(S \cap T) = 0 BY FS_EmptySet
<1>2. Cardinality(S) \in Nat /\ Cardinality(T) \in Nat BY FS_CardinalityType
<1>3. /\ IsFiniteSet(S \cup T)
      /\ Cardinality(S \cup T) =
           Cardinality(S) + Cardinality(T) - Cardinality(S \cap T)
  BY FS_Union
<1> QED BY <1>1, <1>2, <1>3

\* push_pending keeps the byte total exact and within its cap.
LEMMA PushOK ==
  ASSUME NEW c, CacheOK(c), NEW key \in TemplateKey, NEW rec \in PendingRecord,
         HasRoom(c, rec)
  PROVE  LET d == push_pending(c, key, rec) IN
           /\ CacheOK(d)
           /\ d.entries = c.entries
           /\ d.pending = With(c.pending, key, Append(PendingAt(c, key), rec))
<1> DEFINE d == push_pending(c, key, rec)
           old == PendingAt(c, key)
           p == With(c.pending, key, Append(old, rec))
           n == Len(old) + 1
           Q == PayloadPositions(key, n, rec.bytes)
<1>1. c = [entries |-> c.entries, pending |-> c.pending,
           pending_bytes |-> c.pending_bytes]
  BY DEF CacheOK, CacheTypeOK
<1>2. d = [entries |-> c.entries, pending |-> p,
           pending_bytes |-> c.pending_bytes + rec.bytes]
  BY DEF push_pending
<1>3. old \in Seq(PendingRecord) BY DEF PendingAt, CacheOK, CacheTypeOK
<1>4. rec.bytes \in Nat BY DEF PendingRecord
<1>5. DOMAIN p = DOMAIN c.pending \cup {key} BY DEF With
<1>6. p \in [DOMAIN p -> Seq(PendingRecord)]
  BY <1>3, <1>5 DEF With, CacheOK, CacheTypeOK
<1>6a. \A k \in DOMAIN p : p[k] # <<>>
  <2>1. Append(old, rec) # <<>>
    <3>1. Len(Append(old, rec)) = Len(old) + 1 /\ Len(old) \in Nat BY <1>3
    <3>2. Len(<<>>) = 0 OBVIOUS
    <3> HIDE DEF old
    <3> QED BY <3>1, <3>2
  <2>2. \A k \in DOMAIN c.pending : c.pending[k] # <<>> BY DEF CacheOK, CacheTypeOK
  <2>3. p[key] = Append(old, rec) BY <1>5 DEF With
  <2>4. \A k \in DOMAIN c.pending : k # key => p[k] = c.pending[k] BY <1>5 DEF With
  <2> HIDE DEF p, old
  <2> QED BY <1>5, <2>1, <2>2, <2>3, <2>4
<1>7. BufferedBytes(p) = BufferedBytes(c.pending) \cup Q
  <2>1. p[key] = Append(old, rec) BY <1>5 DEF With
  <2>2. \A k \in DOMAIN c.pending : k # key => p[k] = c.pending[k] BY <1>5 DEF With
  <2> DEFINE O == UNION {PayloadPositions(key, i, old[i].bytes) : i \in DOMAIN old}
  <2>3. BytePositions(p, key) = O \cup Q
    <3>1. DOMAIN p[key] = DOMAIN old \cup {n} BY <1>3, <2>1
    <3>2. \A i \in DOMAIN old : p[key][i] = old[i] BY <1>3, <2>1
    <3>3. p[key][n] = rec BY <1>3, <2>1
    <3> QED BY <3>1, <3>2, <3>3 DEF BytePositions
  <2>4. \A k \in DOMAIN c.pending : k # key =>
          BytePositions(p, k) = BytePositions(c.pending, k)
    BY <2>2 DEF BytePositions
  <2>5. CASE key \in DOMAIN c.pending
    <3>0. old = c.pending[key] BY <2>5 DEF PendingAt
    <3>1. O = BytePositions(c.pending, key) BY <3>0 DEF BytePositions
    <3> HIDE DEF O, Q, p
    <3> QED BY <2>3, <2>4, <2>5, <3>1, <1>5 DEF BufferedBytes
  <2>6. CASE key \notin DOMAIN c.pending
    <3>1. old = <<>> BY <2>6 DEF PendingAt
    <3>2. O = {} BY <3>1
    <3> HIDE DEF O, Q, p
    <3> QED BY <2>3, <2>4, <2>6, <3>2, <1>5 DEF BufferedBytes
  <2> QED BY <2>5, <2>6
<1>8. BufferedBytes(c.pending) \cap Q = {}
  <2>1. SUFFICES ASSUME NEW b \in 1 .. rec.bytes,
                        <<key, n, b>> \in BufferedBytes(c.pending)
                 PROVE  FALSE
    BY DEF PayloadPositions
  <2>2. PICK k \in DOMAIN c.pending : <<key, n, b>> \in BytePositions(c.pending, k)
    BY <2>1 DEF BufferedBytes
  <2>3. PICK i \in DOMAIN c.pending[k] :
          <<key, n, b>> \in PayloadPositions(k, i, c.pending[k][i].bytes)
    BY <2>2 DEF BytePositions
  <2>4. k = key /\ i = n BY <2>3 DEF PayloadPositions
  <2>5. n \in DOMAIN old BY <2>3, <2>4 DEF PendingAt
  <2> QED BY <2>5, <1>3
<1> HIDE DEF Q, p
<1>9. /\ IsFiniteSet(BufferedBytes(p))
      /\ Cardinality(BufferedBytes(p)) = c.pending_bytes + rec.bytes
  <2>1. IsFiniteSet(Q) /\ Cardinality(Q) = rec.bytes
    BY <1>4, PositionsOfPayload DEF Q
  <2>2. IsFiniteSet(BufferedBytes(c.pending))
        /\ Cardinality(BufferedBytes(c.pending)) = c.pending_bytes
    BY DEF CacheOK, PendingBytesExact
  <2> QED BY <1>7, <1>8, <2>1, <2>2, DisjointUnion
<1>10. d.entries = c.entries /\ d.pending = p
       /\ d.pending_bytes = c.pending_bytes + rec.bytes
       /\ d = [entries |-> d.entries, pending |-> d.pending,
               pending_bytes |-> d.pending_bytes]
  BY <1>2
<1> HIDE DEF d
<1>11. CacheTypeOK(d)
  <2>1. IsFiniteSet(DOMAIN p) /\ DOMAIN p \subseteq TemplateKey
    BY <1>5, FS_AddElement DEF CacheOK, CacheTypeOK
  <2>2. d.pending_bytes \in Nat BY <1>4, <1>10 DEF CacheOK, CacheTypeOK
  <2> QED BY <1>6, <1>6a, <1>10, <2>1, <2>2 DEF CacheOK, CacheTypeOK
<1>12. EntriesWithinCap(d) BY <1>10 DEF CacheOK, EntriesWithinCap
<1>13. PendingBytesExact(d) BY <1>9, <1>10 DEF PendingBytesExact, HasRoom
<1> QED BY <1>9, <1>10, <1>11, <1>12, <1>13 DEF CacheOK, d, p

\* take_pending frees exactly the bytes of the records it hands over.
LEMMA TakeOK ==
  ASSUME NEW c, CacheOK(c), NEW key \in DOMAIN c.pending
  PROVE  LET d == take_pending(c, key) IN
           /\ CacheOK(d)
           /\ d.entries = c.entries
           /\ d.pending = Without(c.pending, key)
<1> DEFINE d == take_pending(c, key)
           p == Without(c.pending, key)
           Q == BytePositions(c.pending, key)
           R == BufferedBytes(p)
<1>1. DOMAIN p = DOMAIN c.pending \ {key} BY DEF Without
<1>2. \A k \in DOMAIN p : p[k] = c.pending[k] BY DEF Without
<1>3. \A k \in DOMAIN p : BytePositions(p, k) = BytePositions(c.pending, k)
  BY <1>2 DEF BytePositions
<1>4. BufferedBytes(c.pending) = R \cup Q BY <1>1, <1>3 DEF BufferedBytes
<1>5. R \cap Q = {}
  <2>1. SUFFICES ASSUME NEW x \in Q, NEW k \in DOMAIN p, x \in BytePositions(c.pending, k)
                 PROVE  FALSE
    BY <1>3 DEF BufferedBytes
  <2>2. x[1] = key BY <2>1 DEF BytePositions, PayloadPositions
  <2>3. x[1] = k BY <2>1 DEF BytePositions, PayloadPositions
  <2> QED BY <1>1, <2>2, <2>3
<1> HIDE DEF Q, R, p
<1>6. /\ IsFiniteSet(R) /\ IsFiniteSet(Q)
      /\ Cardinality(R) \in Nat /\ Cardinality(Q) \in Nat
      /\ c.pending_bytes = Cardinality(R) + Cardinality(Q)
  <2>1. IsFiniteSet(R \cup Q) /\ c.pending_bytes = Cardinality(R \cup Q)
    BY <1>4 DEF CacheOK, PendingBytesExact
  <2>2. IsFiniteSet(R) /\ IsFiniteSet(Q) BY <2>1, FS_Subset
  <2> QED BY <1>5, <2>1, <2>2, DisjointUnion
<1>7. d = [entries |-> c.entries, pending |-> p,
           pending_bytes |-> SaturatingSub(c.pending_bytes, Cardinality(Q))]
  BY DEF take_pending, p, Q
<1>8. SaturatingSub(c.pending_bytes, Cardinality(Q)) = Cardinality(R)
  BY <1>6 DEF SaturatingSub
<1>9. /\ d.entries = c.entries /\ d.pending = p
      /\ d.pending_bytes = Cardinality(R)
      /\ d = [entries |-> d.entries, pending |-> d.pending,
              pending_bytes |-> d.pending_bytes]
  BY <1>7, <1>8
<1> HIDE DEF d
<1>10. CacheTypeOK(d)
  <2>1. IsFiniteSet(DOMAIN p) /\ DOMAIN p \subseteq TemplateKey
    BY <1>1, FS_RemoveElement DEF CacheOK, CacheTypeOK
  <2>2. p \in [DOMAIN p -> Seq(PendingRecord)]
    BY <1>1, <1>2 DEF CacheOK, CacheTypeOK, p, Without
  <2>3. \A k \in DOMAIN p : p[k] # <<>> BY <1>1, <1>2 DEF CacheOK, CacheTypeOK
  <2> QED BY <1>6, <1>9, <2>1, <2>2, <2>3 DEF CacheOK, CacheTypeOK
<1>11. EntriesWithinCap(d) BY <1>9 DEF CacheOK, EntriesWithinCap
<1>12. PendingBytesExact(d)
  <2>1. c.pending_bytes <= CapPendingBytes BY DEF CacheOK, PendingBytesExact
  <2> QED BY <1>6, <1>9, <2>1, CapsAssumption DEF PendingBytesExact, R
<1> QED BY <1>6, <1>9, <1>10, <1>11, <1>12 DEF CacheOK, d, p, R

\* Nothing is buffered in an empty map.
LEMMA NothingBuffered ==
  /\ BufferedBytes(<<>>) = {}
  /\ IsFiniteSet(BufferedBytes(<<>>)) /\ Cardinality(BufferedBytes(<<>>)) = 0
<1>1. BufferedBytes(<<>>) = {} BY DEF BufferedBytes
<1> QED BY <1>1, FS_EmptySet

\* A fresh cache and a drained cache are well formed.
LEMMA NewOK == CacheOK(NewCache)
<1>1. NewCache.entries = <<>> /\ NewCache.pending = <<>> /\ NewCache.pending_bytes = 0
      /\ NewCache = [entries |-> NewCache.entries, pending |-> NewCache.pending,
                     pending_bytes |-> NewCache.pending_bytes]
  BY DEF NewCache
<1>2. DOMAIN <<>> = {} OBVIOUS
<1>3. CacheTypeOK(NewCache)
  BY <1>1, <1>2, FS_EmptySet DEF CacheTypeOK
<1>4. EntriesWithinCap(NewCache)
  BY <1>1, <1>2, FS_EmptySet, CapsAssumption DEF EntriesWithinCap
<1>5. PendingBytesExact(NewCache)
  BY <1>1, NothingBuffered, CapsAssumption DEF PendingBytesExact
<1> QED BY <1>1, <1>3, <1>4, <1>5, NothingBuffered DEF CacheOK

LEMMA DrainOK ==
  ASSUME NEW c, CacheOK(c)
  PROVE  LET d == drain_pending(c) IN
           CacheOK(d) /\ d.entries = c.entries /\ d.pending = <<>>
<1> DEFINE d == drain_pending(c)
<1>1. d.entries = c.entries /\ d.pending = <<>> /\ d.pending_bytes = 0
      /\ d = [entries |-> d.entries, pending |-> d.pending,
              pending_bytes |-> d.pending_bytes]
  BY DEF drain_pending
<1> HIDE DEF d
<1>2. DOMAIN <<>> = {} OBVIOUS
<1>3. CacheTypeOK(d)
  BY <1>1, <1>2, FS_EmptySet DEF CacheTypeOK, CacheOK
<1>4. EntriesWithinCap(d) BY <1>1 DEF CacheOK, EntriesWithinCap
<1>5. PendingBytesExact(d)
  BY <1>1, NothingBuffered, CapsAssumption DEF PendingBytesExact
<1> QED BY <1>1, <1>3, <1>4, <1>5, NothingBuffered DEF CacheOK, d

\* Rehydration is lossless: from_bytes recomputes the byte total that to_bytes
\* leaves out, and arrives at the cache that was stored.
THEOREM Rehydration ==
  ASSUME NEW c, CacheOK(c)
  PROVE  from_bytes(to_bytes(c)) = c
<1>1. c = [entries |-> c.entries, pending |-> c.pending,
           pending_bytes |-> c.pending_bytes]
  BY DEF CacheOK, CacheTypeOK
<1>2. c.pending_bytes = Cardinality(BufferedBytes(c.pending))
  BY DEF CacheOK, PendingBytesExact
<1>3. to_bytes(c).entries = c.entries /\ to_bytes(c).pending = c.pending
  BY DEF to_bytes
<1>4. to_bytes(c) # EmptyToken
  <2>1. DOMAIN to_bytes(c) = {"entries", "pending"} BY DEF to_bytes
  <2>2. DOMAIN EmptyToken = {} BY DEF EmptyToken
  <2> QED BY <2>1, <2>2
<1> QED BY <1>1, <1>2, <1>3, <1>4 DEF from_bytes
=============================================================================
