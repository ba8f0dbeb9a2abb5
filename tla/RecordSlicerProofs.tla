------------------------- MODULE RecordSlicerProofs -------------------------
(***************************************************************************)
(* Slicing a data set is sound for every template, payload size and prefix: *)
(* the cursor stays in the payload, every record has all its fields, and no *)
(* byte is in two of them.  The inductive invariant adds where the fields   *)
(* already cut lie: those of the record in progress between its start and   *)
(* the cursor, those of finished records before it.                         *)
(***************************************************************************)
EXTENDS RecordSlicer, FiniteSetTheorems, TLAPS

Extents == (0 .. size) \X (0 .. size)

\* A field's extent has the length its template entry demands.
Widths(rec) ==
  \A i \in DOMAIN rec : is_variable(fields[i]) \/ rec[i][2] - rec[i][1] = fields[i]

\* All of a record's fields lie between two offsets.
Between(rec, from, to) ==
  \A i \in DOMAIN rec : from <= rec[i][1] /\ rec[i][2] <= to

\* The record in progress.
PartOK ==
  at = "record" =>
    /\ Len(part) = idx - 1
    /\ InOrder(part) /\ Widths(part) /\ Between(part, start, pos)

\* Where the finished records end.
RowsEnd == IF at = "record" THEN start ELSE pos

RowsOK ==
  \A rec \in rows :
    /\ Len(rec) = Len(fields) /\ InOrder(rec) /\ Widths(rec)
    /\ Between(rec, 0, RowsEnd)

RowsApart ==
  \A rec, other \in rows :
    rec = other \/ Precedes(rec, other) \/ Precedes(other, rec)

SlicerOK == TypeOK /\ PartOK /\ RowsOK /\ RowsApart

-----------------------------------------------------------------------------
\* The inductive invariant holds initially.
LEMMA SlicerInit == Init => SlicerOK
<1> SUFFICES ASSUME Init PROVE SlicerOK
  OBVIOUS
<1>1. size \in Nat /\ Len(fields) \in Nat
  BY SlicerAssumption DEF Init
<1>2. part \in Seq((0 .. size) \X (0 .. size))
  BY DEF Init
<1>3. idx \in 1 .. Len(fields) + 1 /\ pos \in 0 .. size /\ start \in 0 .. pos
  BY <1>1 DEF Init
<1>4. TypeOK
  BY <1>2, <1>3 DEF Init, TypeOK, Places
<1> QED
  BY <1>4 DEF Init, SlicerOK, PartOK, RowsOK, RowsApart

\* Appending the extent that starts at or after the cursor keeps a record in order.
LEMMA AppendField ==
  ASSUME NEW rec \in Seq(Nat \X Nat), NEW from \in Nat, NEW to \in Nat,
         NEW a \in Nat, NEW b \in Nat, size \in Nat,
         InOrder(rec), Between(rec, from, to),
         from <= to, to <= a, a <= b, b <= size
  PROVE  /\ InOrder(Append(rec, <<a, b>>))
         /\ Between(Append(rec, <<a, b>>), from, b)
<1> DEFINE new == Append(rec, <<a, b>>)
<1>1. /\ new \in Seq(Nat \X Nat)
      /\ DOMAIN new = 1 .. Len(rec) + 1 /\ DOMAIN rec = 1 .. Len(rec)
      /\ \A i \in 1 .. Len(rec) : new[i] = rec[i]
      /\ new[Len(rec) + 1] = <<a, b>>
  OBVIOUS
<1>2. \A i \in 1 .. Len(rec) : /\ rec[i][1] \in Nat /\ rec[i][2] \in Nat
                               /\ from <= rec[i][1] /\ rec[i][1] <= rec[i][2]
                               /\ rec[i][2] <= to /\ rec[i][2] <= size
  <2> SUFFICES ASSUME NEW i \in 1 .. Len(rec)
               PROVE  /\ rec[i][1] \in Nat /\ rec[i][2] \in Nat
                      /\ from <= rec[i][1] /\ rec[i][1] <= rec[i][2]
                      /\ rec[i][2] <= to /\ rec[i][2] <= size
    OBVIOUS
  <2>1. rec[i] \in Nat \X Nat
    OBVIOUS
  <2>2. rec[i][1] \in Nat /\ rec[i][2] \in Nat
    BY <2>1
  <2>3. i \in DOMAIN rec
    BY <1>1
  <2> QED
    BY <2>2, <2>3 DEF InOrder, Between
<1>3. Len(rec) \in Nat /\ <<a, b>>[1] = a /\ <<a, b>>[2] = b
  OBVIOUS
<1>6. \A i \in DOMAIN new : i \in 1 .. Len(rec) \/ i = Len(rec) + 1
  BY <1>1, <1>3
<1> HIDE DEF new
<1>4. InOrder(new)
  <2>1. \A i \in DOMAIN new : new[i][1] <= new[i][2] /\ new[i][2] <= size
    <3> SUFFICES ASSUME NEW i \in DOMAIN new
                 PROVE  new[i][1] <= new[i][2] /\ new[i][2] <= size
      OBVIOUS
    <3>1. CASE i \in 1 .. Len(rec)
      BY <3>1, <1>1, <1>2
    <3>2. CASE i = Len(rec) + 1
      BY <3>2, <1>1, <1>3
    <3> QED
      BY <3>1, <3>2, <1>6
  <2>2. \A i, j \in DOMAIN new : i < j => new[i][2] <= new[j][1]
    <3> SUFFICES ASSUME NEW i \in DOMAIN new, NEW j \in DOMAIN new, i < j
                 PROVE  new[i][2] <= new[j][1]
      OBVIOUS
    <3>1. i \in 1 .. Len(rec)
      BY <1>1, <1>3
    <3>2. CASE j \in 1 .. Len(rec)
      BY <3>1, <3>2, <1>1 DEF InOrder
    <3>3. CASE j = Len(rec) + 1
      <4>1. new[j][1] = a /\ new[i] = rec[i]
        BY <3>1, <3>3, <1>1, <1>3
      <4> QED
        BY <4>1, <3>1, <1>2
    <3> QED
      BY <3>2, <3>3, <1>6
  <2> QED
    BY <2>1, <2>2 DEF InOrder
<1>5. Between(new, from, b)
  <2> SUFFICES ASSUME NEW i \in DOMAIN new
               PROVE  from <= new[i][1] /\ new[i][2] <= b
    BY DEF Between
  <2>1. CASE i \in 1 .. Len(rec)
    <3>1. new[i] = rec[i]
      BY <2>1, <1>1
    <3> QED
      BY <3>1, <2>1, <1>2
  <2>2. CASE i = Len(rec) + 1
    BY <2>2, <1>1, <1>3
  <2> QED
    BY <2>1, <2>2, <1>6
<1> QED
  BY <1>4, <1>5 DEF new

\* Both ends of an extent are numbers.
LEMMA ExtentNumbers ==
  ASSUME NEW n, NEW rec \in Seq((0 .. n) \X (0 .. n)), NEW i \in DOMAIN rec
  PROVE  rec[i][1] \in Nat /\ rec[i][2] \in Nat
<1>1. rec[i] \in (0 .. n) \X (0 .. n)
  OBVIOUS
<1> QED
  BY <1>1

-----------------------------------------------------------------------------
\* Steps that touch neither the records nor the cursor.
LEMMA QuietStep ==
  ASSUME SlicerOK, UNCHANGED <<input, pos, rows>>,
         RowsEnd' = RowsEnd, PartOK', TypeOK'
  PROVE  SlicerOK'
<1>1. RowsOK'
  BY DEF SlicerOK, RowsOK, input, InOrder, Widths, Between
<1>2. RowsApart'
  BY DEF SlicerOK, RowsApart, Precedes
<1> QED
  BY <1>1, <1>2 DEF SlicerOK

\* Nothing but the place changes, and the slicer is not in a record.
LEMMA MoveStep ==
  ASSUME SlicerOK, at \in {"begin", "loop"}, at' \in {"loop", "done"},
         UNCHANGED <<input, pos, start, idx, part, rows, truncated>>
  PROVE  SlicerOK'
<1>1. TypeOK'
  BY DEF SlicerOK, TypeOK, Places, input
<1>2. PartOK' /\ RowsEnd' = RowsEnd
  BY DEF PartOK, RowsEnd
<1> QED
  BY <1>1, <1>2, QuietStep

LEMMA BeginRecordStep == SlicerOK /\ BeginRecord => SlicerOK'
<1> SUFFICES ASSUME SlicerOK, BeginRecord PROVE SlicerOK'
  OBVIOUS
<1> USE DEF BeginRecord
<1>1. TypeOK'
  BY SlicerAssumption DEF SlicerOK, TypeOK, Places, input
<1>2. PartOK'
  BY DEF PartOK, InOrder, Widths, Between
<1>3. RowsEnd' = RowsEnd
  BY DEF RowsEnd
<1> QED
  BY <1>1, <1>2, <1>3, QuietStep

\* Prefix and length of a field are natural numbers.
LEMMA FieldLengthType ==
  ASSUME TypeOK, AtField, NEW len, NEW prefix, FieldLength(len, prefix)
  PROVE  /\ len \in Nat /\ prefix \in Nat
         /\ prefix <= remaining
         /\ ~is_variable(fields[idx]) => len = fields[idx]
<1>1. fields[idx] \in Nat /\ remaining \in Nat
  BY SlicerAssumption DEF TypeOK, AtField, remaining
<1>2. CASE FixedLength(len, prefix)
  BY <1>1, <1>2 DEF FixedLength
<1>3. CASE is_variable(fields[idx]) /\ read_varlen(len, prefix)
  <2>1. prefix <= remaining /\ (prefix = 1 \/ prefix = 3)
    BY <1>3 DEF read_varlen
  <2>2. len \in PrefixBytes \/ len \in PrefixWords
    BY <1>3 DEF read_varlen
  <2>3. len \in Nat
    BY <2>2, SlicerAssumption, Zenon
  <2>4. prefix \in Nat
    BY <2>1
  <2> QED
    BY <1>3, <2>1, <2>3, <2>4
<1> QED
  BY <1>2, <1>3 DEF FieldLength

LEMMA TakeFieldStep ==
  ASSUME SlicerOK, NEW len, NEW prefix, TakeField(len, prefix)
  PROVE  SlicerOK'
<1> USE DEF TakeField
<1>1. /\ len \in Nat /\ prefix \in Nat
      /\ ~is_variable(fields[idx]) => len = fields[idx]
  BY FieldLengthType DEF SlicerOK
<1>2. /\ fields \in Seq(Nat) /\ size \in Nat /\ pos \in Nat /\ start \in Nat
      /\ start <= pos /\ pos <= size /\ idx \in Nat \ {0} /\ idx <= Len(fields)
      /\ Len(fields) \in Nat
  BY SlicerAssumption DEF SlicerOK, TypeOK, AtField
<1>3. pos' = pos + prefix + len /\ pos' <= size
  BY <1>1, <1>2 DEF After, Fits, remaining
<1>4. part \in Seq(Nat \X Nat) /\ part \in Seq(Extents)
  BY <1>2 DEF SlicerOK, TypeOK, Extents
<1>5. <<pos + prefix, pos + prefix + len>> \in Extents
  BY <1>1, <1>2, <1>3 DEF Extents
<1>6. at = "record" /\ at' = "record"
  BY DEF AtField
<1>7. /\ Len(part) = idx - 1 /\ InOrder(part) /\ Widths(part)
      /\ Between(part, start, pos)
  BY <1>6 DEF SlicerOK, PartOK
<1>8. /\ InOrder(part') /\ Between(part', start, pos')
  <2> DEFINE a == pos + prefix
             b == pos + prefix + len
  <2>1. a \in Nat /\ b \in Nat /\ pos <= a /\ a <= b /\ b <= size /\ pos' = b
    BY <1>1, <1>2, <1>3
  <2>2. part' = Append(part, <<a, b>>)
    OBVIOUS
  <2> HIDE DEF a, b
  <2>3. /\ InOrder(Append(part, <<a, b>>)) /\ Between(Append(part, <<a, b>>), start, b)
    BY <2>1, <1>2, <1>4, <1>7, AppendField
  <2> QED
    BY <2>1, <2>2, <2>3
<1>9. Widths(part')
  <2>1. /\ DOMAIN part' = 1 .. idx /\ DOMAIN part = 1 .. idx - 1
        /\ \A i \in 1 .. idx - 1 : part'[i] = part[i]
        /\ part'[idx] = <<pos + prefix, pos + prefix + len>>
    BY <1>2, <1>4, <1>7
  <2>2. is_variable(fields[idx]) \/ part'[idx][2] - part'[idx][1] = fields[idx]
    BY <2>1, <1>1, <1>2
  <2>3. \A i \in 1 .. idx : i = idx \/ i \in 1 .. idx - 1
    BY <1>2
  <2> QED
    BY <2>1, <2>2, <2>3, <1>7 DEF Widths
<1>10. TypeOK'
  <2>1. part' \in Seq(Extents)
    BY <1>4, <1>5
  <2>2. pos' \in 0 .. size /\ start' \in 0 .. pos' /\ idx' \in 1 .. Len(fields) + 1
    BY <1>1, <1>2, <1>3
  <2>3. /\ fields' = fields /\ options' = options /\ flows_only' = flows_only
        /\ size' = size /\ at' = at /\ truncated' = truncated /\ rows' = rows
    BY DEF input
  <2> QED
    BY <2>1, <2>2, <2>3 DEF SlicerOK, TypeOK, Extents
<1>11. PartOK'
  <2>1. Len(part') = idx' - 1
    BY <1>2, <1>4, <1>7
  <2>2. InOrder(part)' /\ Widths(part)' /\ Between(part, start, pos)'
    BY <1>8, <1>9 DEF InOrder, Widths, Between, input
  <2> QED
    BY <2>1, <2>2 DEF PartOK
<1>12. RowsOK'
  BY <1>6 DEF SlicerOK, RowsOK, RowsEnd, input, InOrder, Widths, Between
<1>13. RowsApart'
  BY DEF SlicerOK, RowsApart, Precedes
<1> QED
  BY <1>10, <1>11, <1>12, <1>13 DEF SlicerOK

\* A later end keeps the finished records before it.
LEMMA TruncateStep ==
  ASSUME SlicerOK, at = "record", Truncate, pos' \in pos .. size
  PROVE  SlicerOK'
<1> USE DEF Truncate
<1>1. size \in Nat /\ pos \in Nat /\ start \in Nat /\ start <= pos /\ pos <= size
  BY SlicerAssumption DEF SlicerOK, TypeOK
<1>2. TypeOK'
  BY <1>1 DEF SlicerOK, TypeOK, Places, input
<1>3. PartOK'
  BY DEF PartOK
<1>4. RowsOK'
  <2>1. RowsEnd = start /\ RowsEnd' = pos' /\ start <= pos' /\ pos' \in Nat
    BY <1>1 DEF RowsEnd
  <2>2. \A rec \in rows : rec \in Seq((0 .. size) \X (0 .. size))
    BY DEF SlicerOK, TypeOK
  <2>3. \A rec \in rows : Between(rec, 0, start) => Between(rec, 0, pos')
    BY <1>1, <2>1, <2>2 DEF Between
  <2> QED
    BY <2>1, <2>3 DEF SlicerOK, RowsOK, input, InOrder, Widths, Between
<1>5. RowsApart'
  BY DEF SlicerOK, RowsApart, Precedes
<1> QED
  BY <1>2, <1>3, <1>4, <1>5 DEF SlicerOK

LEMMA EmitRecordStep == SlicerOK /\ EmitRecord => SlicerOK'
<1> SUFFICES ASSUME SlicerOK, EmitRecord PROVE SlicerOK'
  OBVIOUS
<1> USE DEF EmitRecord
<1>1. /\ fields \in Seq(Nat) /\ size \in Nat /\ pos \in Nat /\ start \in Nat
      /\ start <= pos /\ pos <= size /\ idx \in Nat /\ idx = Len(fields) + 1
  BY SlicerAssumption DEF SlicerOK, TypeOK
<1>2. /\ Len(part) = Len(fields) /\ InOrder(part) /\ Widths(part)
      /\ Between(part, start, pos)
  BY <1>1 DEF SlicerOK, PartOK
<1>3. /\ part \in Seq((0 .. size) \X (0 .. size))
      /\ \A rec \in rows : rec \in Seq((0 .. size) \X (0 .. size))
  BY DEF SlicerOK, TypeOK
<1>4. at = "record" /\ at' \in {"loop", "done"}
  BY DEF AfterRecord
<1>5. TypeOK'
  BY <1>3, <1>4 DEF SlicerOK, TypeOK, Places, input
<1>6. PartOK'
  BY <1>4 DEF PartOK
<1>7. \A rec \in rows : Between(rec, 0, start)
  BY <1>4 DEF SlicerOK, RowsOK, RowsEnd
<1>8. RowsOK'
  <2>1. RowsEnd' = pos
    BY <1>4 DEF RowsEnd
  <2>2. Between(part, 0, pos)
    BY <1>1, <1>2, <1>3 DEF Between
  <2>3. \A rec \in rows : Between(rec, 0, pos)
    BY <1>1, <1>3, <1>7 DEF Between
  <2>4. \A rec \in rows' :
          /\ Len(rec) = Len(fields) /\ InOrder(rec) /\ Widths(rec)
          /\ Between(rec, 0, pos)
    BY <1>2, <2>2, <2>3 DEF SlicerOK, RowsOK
  <2> QED
    BY <2>1, <2>4 DEF RowsOK, input, InOrder, Widths, Between
<1>9. \A rec \in rows : Precedes(rec, part)
  <2> SUFFICES ASSUME NEW rec \in rows, NEW i \in DOMAIN rec, NEW j \in DOMAIN part
               PROVE  rec[i][2] <= part[j][1]
    BY DEF Precedes
  <2>1. rec[i][2] <= start /\ start <= part[j][1]
    BY <1>7, <1>2 DEF Between
  <2>2. rec[i][2] \in Nat /\ part[j][1] \in Nat
    BY <1>3, ExtentNumbers
  <2> QED
    BY <2>1, <2>2, <1>1
<1>10. RowsApart'
  BY <1>9 DEF SlicerOK, RowsApart, Precedes
<1> QED
  BY <1>5, <1>6, <1>8, <1>10 DEF SlicerOK

LEMMA SlicerNext == SlicerOK /\ [Next]_vars => SlicerOK'
<1> SUFFICES ASSUME SlicerOK, [Next]_vars PROVE SlicerOK'
  OBVIOUS
<1>0. /\ remaining \in Nat /\ pos \in Nat /\ size \in Nat /\ pos <= size
      /\ remaining = size - pos
  BY SlicerAssumption DEF SlicerOK, TypeOK, remaining
<1>1. CASE Filter \/ Begin \/ Stop
  <2>1. /\ at \in {"begin", "loop"} /\ at' \in {"loop", "done"}
        /\ UNCHANGED <<input, pos, start, idx, part, rows, truncated>>
    BY <1>1 DEF Filter, Begin, Stop
  <2> QED
    BY <2>1, MoveStep
<1>2. CASE BeginRecord
  BY <1>2, BeginRecordStep
<1>3. ASSUME NEW len, NEW prefix, TakeField(len, prefix)
      PROVE  SlicerOK'
  BY <1>3, TakeFieldStep
<1>4. ASSUME NEW len, NEW prefix, ValueUnderruns(len, prefix)
      PROVE  SlicerOK'
  <2>1. /\ AtField /\ FieldLength(len, prefix) /\ Truncate /\ pos' = pos + prefix
    BY <1>4 DEF ValueUnderruns
  <2>2. prefix \in Nat /\ prefix <= remaining
    BY <2>1, FieldLengthType DEF SlicerOK
  <2>3. pos' \in pos .. size
    BY <2>1, <2>2, <1>0
  <2> QED
    BY <2>1, <2>3, TruncateStep DEF AtField
<1>5. CASE PrefixUnderruns
  <2>1. AtField /\ Truncate /\ pos' \in pos .. size
    BY <1>5, <1>0 DEF PrefixUnderruns
  <2> QED
    BY <2>1, TruncateStep DEF AtField
<1>6. CASE EmitRecord
  BY <1>6, EmitRecordStep
<1>7. CASE UNCHANGED vars
  <2>1. TypeOK' /\ PartOK' /\ RowsOK' /\ RowsApart'
    BY <1>7 DEF vars, SlicerOK, TypeOK, PartOK, RowsOK, RowsApart, RowsEnd, Precedes,
                InOrder, Widths, Between
  <2> QED
    BY <2>1 DEF SlicerOK
<1> QED
  BY <1>1, <1>2, <1>3, <1>4, <1>5, <1>6, <1>7 DEF Next, Slice, Done

-----------------------------------------------------------------------------
\* The slicer's cursor and the fields it cuts stay in the payload, for every
\* template, payload size and length prefix (decode_data_set, Cursor::take).
THEOREM SlicerTypeCorrect == Spec => []TypeOK
<1>1. SlicerOK => TypeOK
  BY DEF SlicerOK
<1> QED
  BY <1>1, SlicerInit, SlicerNext, PTL DEF Spec

\* Every decoded record has one field per template entry, of the demanded length
\* and in order, and no byte is in two records (decode_one_record).
THEOREM SlicesSound == Spec => []SlicesAreSound
<1>1. SlicerOK => SlicesAreSound
  BY DEF SlicerOK, RowsOK, RowsApart, SlicesAreSound, Widths
<1> QED
  BY <1>1, SlicerInit, SlicerNext, PTL DEF Spec

-----------------------------------------------------------------------------
(* Templates of fixed fields: no record is lost, none is truncated.  The   *)
(* footprint test is made once per record, so the proof keeps for the rest *)
(* of the record that the payload still holds the fields to come.          *)

\* The bytes the template fixes from field i on.
Ahead(i) == Cardinality(FixedBytes(fields, i))

\* The sliced records are as many as the bytes before them can hold.
Counted == start = Cardinality(rows) * min_fixed(fields)

ExactOK ==
  AllFixed =>
    /\ ~truncated /\ IsFiniteSet(rows)
    /\ at = "record" => /\ pos + Ahead(idx) = start + min_fixed(fields)
                        /\ pos + Ahead(idx) <= size
                        /\ Counted
    /\ at # "record" => pos = Cardinality(rows) * min_fixed(fields)
    /\ at = "done" /\ ~(flows_only /\ options) =>
         min_fixed(fields) = 0 \/ remaining < min_fixed(fields)

\* The bytes of one field.
LEMMA FieldBytes ==
  ASSUME NEW j, NEW n \in Nat
  PROVE  /\ IsFiniteSet({<<j, b>> : b \in 1 .. n})
         /\ Cardinality({<<j, b>> : b \in 1 .. n}) = n
<1>1. {<<j, b>> : b \in 1 .. n} = {j} \X (1 .. n)
  OBVIOUS
<1>2. IsFiniteSet({j}) /\ Cardinality({j}) = 1
  BY FS_Singleton, Zenon
<1>3. IsFiniteSet(1 .. n) /\ Cardinality(1 .. n) = n
  BY FS_Interval
<1>4. /\ IsFiniteSet({j} \X (1 .. n))
      /\ Cardinality({j} \X (1 .. n)) = Cardinality({j}) * Cardinality(1 .. n)
  BY <1>2, <1>3, FS_Product, Zenon
<1> QED
  BY <1>1, <1>2, <1>3, <1>4

\* The bytes of a template from one field on are finitely many.
LEMMA FixedBytesFinite ==
  ASSUME NEW fs \in Seq(Nat), NEW i \in Nat \ {0}
  PROVE  /\ IsFiniteSet(FixedBytes(fs, i))
         /\ Cardinality(FixedBytes(fs, i)) \in Nat
<1> DEFINE D == {k \in i .. Len(fs) : ~is_variable(fs[k])}
           Of(j) == {<<j, b>> : b \in 1 .. fs[j]}
           S == {Of(j) : j \in D}
           f == [j \in D |-> Of(j)]
<1>1. IsFiniteSet(D)
  <2>1. i \in Int /\ Len(fs) \in Int
    OBVIOUS
  <2>2. IsFiniteSet(i .. Len(fs))
    BY <2>1, FS_Interval
  <2> QED
    BY <2>2, FS_Subset
<1>2. IsFiniteSet(S)
  <2>1. f \in Surjection(D, S)
    BY DEF Surjection
  <2> QED
    BY <2>1, <1>1, FS_Surjection
<1>3. \A j \in D : IsFiniteSet(Of(j))
  <2>1. \A j \in D : fs[j] \in Nat
    OBVIOUS
  <2> QED
    BY <2>1, FieldBytes
<1>4. IsFiniteSet(UNION S)
  <2>1. \A T \in S : IsFiniteSet(T)
    BY <1>3
  <2> QED
    BY <2>1, <1>2, FS_UNION
<1> QED
  BY <1>4, FS_CardinalityType DEF FixedBytes

\* Behind the last field nothing is left; before it, a fixed field and the rest.
LEMMA FixedBytesSum ==
  ASSUME NEW fs \in Seq(Nat)
  PROVE  /\ Cardinality(FixedBytes(fs, Len(fs) + 1)) = 0
         /\ \A i \in 1 .. Len(fs) : ~is_variable(fs[i]) =>
              Cardinality(FixedBytes(fs, i)) = fs[i] + Cardinality(FixedBytes(fs, i + 1))
<1>1. Cardinality(FixedBytes(fs, Len(fs) + 1)) = 0
  <2>1. FixedBytes(fs, Len(fs) + 1) = {}
    BY DEF FixedBytes
  <2> QED
    BY <2>1, FS_EmptySet
<1>2. ASSUME NEW i \in 1 .. Len(fs), ~is_variable(fs[i])
      PROVE  Cardinality(FixedBytes(fs, i)) = fs[i] + Cardinality(FixedBytes(fs, i + 1))
  <2> DEFINE one == {<<i, b>> : b \in 1 .. fs[i]}
             rest == FixedBytes(fs, i + 1)
  <2>1. fs[i] \in Nat /\ i + 1 \in Nat \ {0} /\ Len(fs) \in Nat
    OBVIOUS
  <2>2. IsFiniteSet(one) /\ Cardinality(one) = fs[i]
    BY <2>1, FieldBytes
  <2>3. IsFiniteSet(rest) /\ Cardinality(rest) \in Nat
    BY <2>1, FixedBytesFinite
  <2>4. FixedBytes(fs, i) = one \cup rest
    <3>1. {k \in i .. Len(fs) : ~is_variable(fs[k])}
            = {i} \cup {k \in i + 1 .. Len(fs) : ~is_variable(fs[k])}
      BY <1>2, <2>1
    <3> DEFINE D == {k \in i + 1 .. Len(fs) : ~is_variable(fs[k])}
               Of(j) == {<<j, b>> : b \in 1 .. fs[j]}
    <3>2. /\ FixedBytes(fs, i) = UNION {Of(j) : j \in {i} \cup D}
          /\ rest = UNION {Of(j) : j \in D} /\ one = Of(i)
      BY <3>1 DEF FixedBytes
    <3> HIDE DEF D, Of, one, rest
    <3>3. UNION {Of(j) : j \in {i} \cup D} = Of(i) \cup UNION {Of(j) : j \in D}
      OBVIOUS
    <3> QED
      BY <3>2, <3>3
  <2>5. one \cap rest = {}
    <3> SUFFICES ASSUME NEW x \in one, x \in rest PROVE FALSE
      OBVIOUS
    <3>1. x[1] = i
      OBVIOUS
    <3>2. x[1] \in i + 1 .. Len(fs)
      BY DEF FixedBytes
    <3> QED
      BY <3>1, <3>2
  <2> HIDE DEF one, rest
  <2>6. Cardinality(one \cup rest) = Cardinality(one) + Cardinality(rest) - Cardinality(one \cap rest)
    BY <2>2, <2>3, FS_Union
  <2>7. Cardinality(one \cap rest) = 0
    BY <2>5, FS_EmptySet
  <2> QED
    BY <2>1, <2>2, <2>3, <2>4, <2>6, <2>7 DEF rest
<1> QED
  BY <1>1, <1>2

\* A number is divided by counting how often the divisor fits.
LEMMA Quotient ==
  ASSUME NEW n \in Nat, NEW m \in Nat \ {0}, NEW k \in Nat, k * m <= n, n - k * m < m
  PROVE  k = n \div m
<1> DEFINE q == n \div m
           r == n % m
<1>1. q \in Int /\ r \in 0 .. m - 1 /\ n = m * q + r
  OBVIOUS
<1> HIDE DEF q, r
<1>2. m * q = q * m /\ q * m <= n /\ n < q * m + m
  BY <1>1
<1>3. ~(q >= k + 1)
  <2> SUFFICES ASSUME q >= k + 1 PROVE FALSE
    OBVIOUS
  <2>1. q * m >= (k + 1) * m
    BY <1>1
  <2>2. (k + 1) * m = k * m + m
    OBVIOUS
  <2> QED
    BY <2>1, <2>2, <1>1, <1>2
<1>4. ~(k >= q + 1)
  <2> SUFFICES ASSUME k >= q + 1 PROVE FALSE
    OBVIOUS
  <2>1. k * m >= (q + 1) * m
    BY <1>1
  <2>2. (q + 1) * m = q * m + m
    BY <1>1
  <2> QED
    BY <2>1, <2>2, <1>1, <1>2
<1> QED
  BY <1>1, <1>3, <1>4 DEF q

\* What the proof keeps using of the template.
LEMMA TemplateFacts ==
  ASSUME TypeOK
  PROVE  /\ fields \in Seq(Nat) /\ Len(fields) \in Nat
         /\ size \in Nat /\ pos \in Nat /\ pos <= size /\ start \in Nat
         /\ idx \in 1 .. Len(fields) + 1
         /\ Ahead(idx) \in Nat /\ min_fixed(fields) \in Nat
         /\ Ahead(1) = min_fixed(fields) /\ Ahead(Len(fields) + 1) = 0
         /\ AllFixed /\ idx <= Len(fields) =>
              Ahead(idx) = fields[idx] + Ahead(idx + 1) /\ Ahead(idx + 1) \in Nat
<1>1. /\ fields \in Seq(Nat) /\ Len(fields) \in Nat
      /\ size \in Nat /\ pos \in Nat /\ pos <= size /\ start \in Nat
      /\ idx \in 1 .. Len(fields) + 1
  BY SlicerAssumption DEF TypeOK
<1>2. \A i \in Nat \ {0} : Ahead(i) \in Nat
  BY <1>1, FixedBytesFinite DEF Ahead
<1>3. Ahead(1) = min_fixed(fields)
  BY DEF Ahead, min_fixed
<1>4. Ahead(Len(fields) + 1) = 0
  BY <1>1, FixedBytesSum DEF Ahead
<1>5. ASSUME AllFixed, idx <= Len(fields)
      PROVE  Ahead(idx) = fields[idx] + Ahead(idx + 1)
  BY <1>1, <1>5, FixedBytesSum DEF Ahead, AllFixed
<1>6. idx \in Nat \ {0} /\ idx + 1 \in Nat \ {0} /\ 1 \in Nat \ {0}
  BY <1>1
<1> QED
  BY <1>1, <1>2, <1>3, <1>4, <1>5, <1>6

LEMMA ExactInit == Init => ExactOK
<1> SUFFICES ASSUME Init PROVE ExactOK
  OBVIOUS
<1>1. IsFiniteSet(rows) /\ Cardinality(rows) = 0
  BY FS_EmptySet DEF Init
<1>2. min_fixed(fields) \in Nat
  BY SlicerInit, TemplateFacts DEF SlicerOK
<1> QED
  BY <1>1, <1>2 DEF Init, ExactOK

\* The record just finished is none of those before it, if it has any bytes.
LEMMA RecordIsNew ==
  ASSUME SlicerOK, EmitRecord, AllFixed, min_fixed(fields) # 0
  PROVE  part \notin rows
<1>0. /\ fields \in Seq(Nat) /\ Len(fields) \in Nat /\ start \in Nat
  BY TemplateFacts DEF SlicerOK
<1>1. /\ at = "record" /\ Len(part) = Len(fields) /\ Widths(part)
      /\ Between(part, start, pos)
  BY <1>0 DEF EmitRecord, SlicerOK, PartOK, TypeOK
<1>2. PICK j \in DOMAIN fields : fields[j] > 0
  <2> SUFFICES ASSUME \A j \in DOMAIN fields : ~(fields[j] > 0) PROVE FALSE
    OBVIOUS
  <2>1. \A j \in DOMAIN fields : 1 .. fields[j] = {}
    BY <1>0
  <2>2. FixedBytes(fields, 1) = {}
    BY <2>1, <1>0 DEF FixedBytes
  <2> QED
    BY <2>2, FS_EmptySet DEF min_fixed
<1> SUFFICES ASSUME part \in rows PROVE FALSE
  OBVIOUS
<1>3. part \in Seq((0 .. size) \X (0 .. size)) /\ j \in DOMAIN part
  BY <1>0, <1>1 DEF SlicerOK, TypeOK
<1>4. part[j][1] \in Nat /\ part[j][2] \in Nat /\ fields[j] \in Nat
  BY <1>0, <1>3, ExtentNumbers
<1>5. part[j][2] - part[j][1] = fields[j] /\ start <= part[j][1]
  BY <1>1, <1>3 DEF Widths, Between, AllFixed
<1>6. part[j][2] <= start
  BY <1>1, <1>3 DEF SlicerOK, RowsOK, RowsEnd, Between
<1> QED
  BY <1>0, <1>2, <1>4, <1>5, <1>6

LEMMA ExactEmit ==
  ASSUME SlicerOK, ExactOK, EmitRecord, AllFixed
  PROVE  ExactOK'
<1> DEFINE m == min_fixed(fields)
           k == Cardinality(rows)
<1>1. /\ fields' = fields /\ size' = size /\ flows_only' = flows_only /\ options' = options
      /\ pos' = pos /\ start' = start /\ truncated' = truncated /\ rows' = rows \cup {part}
      /\ at = "record" /\ idx > Len(fields) /\ at' = IF pos = start THEN "done" ELSE "loop"
  BY DEF EmitRecord, AfterRecord, input
<1>2. /\ m \in Nat /\ pos \in Nat /\ start \in Nat /\ idx = Len(fields) + 1 /\ Ahead(idx) = 0
  BY <1>1, TemplateFacts DEF SlicerOK
<1>3. /\ ~truncated /\ IsFiniteSet(rows) /\ pos = start + m /\ start = k * m
  BY <1>1, <1>2 DEF ExactOK, Counted
<1>4. k \in Nat
  BY <1>3, FS_CardinalityType
<1>5. /\ IsFiniteSet(rows')
      /\ Cardinality(rows') = IF part \in rows THEN k ELSE k + 1
  BY <1>1, <1>3, FS_AddElement
<1>6. pos = Cardinality(rows') * m
  <2>1. CASE m = 0
    BY <2>1, <1>2, <1>3, <1>4, <1>5
  <2>2. CASE m # 0
    <3>1. Cardinality(rows') = k + 1
      BY <2>2, <1>5, RecordIsNew
    <3>2. (k + 1) * m = k * m + m
      BY <1>2, <1>4
    <3> QED
      BY <3>1, <3>2, <1>3
  <2> QED
    BY <2>1, <2>2
<1>7. at' = "done" => m = 0
  BY <1>1, <1>2, <1>3
<1>8. min_fixed(fields)' = m /\ AllFixed'
  BY <1>1 DEF min_fixed, FixedBytes, AllFixed
<1> HIDE DEF m
<1> QED
  BY <1>1, <1>3, <1>5, <1>6, <1>7, <1>8 DEF ExactOK

LEMMA ExactNext == SlicerOK /\ ExactOK /\ [Next]_vars => ExactOK'
<1> SUFFICES ASSUME SlicerOK, ExactOK, [Next]_vars, AllFixed' PROVE ExactOK'
  BY DEF ExactOK
<1>0. /\ fields' = fields /\ size' = size /\ flows_only' = flows_only /\ options' = options
      /\ AllFixed
  BY DEF Next, Slice, Filter, Begin, Stop, BeginRecord, TakeField, ValueUnderruns, Truncate,
         PrefixUnderruns, EmitRecord, Done, vars, input, AllFixed
<1>1. /\ min_fixed(fields)' = min_fixed(fields)
      /\ \A i : Cardinality(FixedBytes(fields', i)) = Ahead(i)
  BY <1>0 DEF min_fixed, FixedBytes, Ahead
<1>2. /\ fields \in Seq(Nat) /\ Len(fields) \in Nat
      /\ size \in Nat /\ pos \in Nat /\ pos <= size /\ start \in Nat
      /\ idx \in 1 .. Len(fields) + 1
      /\ Ahead(idx) \in Nat /\ min_fixed(fields) \in Nat /\ Ahead(1) = min_fixed(fields)
      /\ idx <= Len(fields) =>
           Ahead(idx) = fields[idx] + Ahead(idx + 1) /\ Ahead(idx + 1) \in Nat
  BY <1>0, TemplateFacts DEF SlicerOK
<1>3. CASE Filter \/ Begin
  BY <1>0, <1>1, <1>3 DEF Filter, Begin, ExactOK
<1>4. CASE Stop
  <2>1. min_fixed(fields) = 0 \/ remaining < min_fixed(fields)
    BY <1>4, <1>2 DEF Stop, NothingLeft
  <2>2. remaining' = remaining
    BY <1>0, <1>4 DEF Stop, remaining
  <2> QED
    BY <2>1, <2>2, <1>0, <1>1, <1>4 DEF Stop, ExactOK
<1>5. CASE BeginRecord
  <2>1. pos + min_fixed(fields) <= size
    BY <1>5, <1>2 DEF BeginRecord, NothingLeft, remaining
  <2>2. Ahead(idx)' = min_fixed(fields)
    BY <1>0, <1>2, <1>5 DEF BeginRecord, Ahead
  <2> QED
    BY <2>1, <2>2, <1>0, <1>1, <1>2, <1>5 DEF BeginRecord, ExactOK, Counted
<1>6. ASSUME NEW len, NEW prefix, TakeField(len, prefix)
      PROVE  ExactOK'
  <2>1. AtField /\ prefix = 0 /\ len = fields[idx] /\ fields[idx] \in Nat
    BY <1>0, <1>2, <1>6 DEF TakeField, FieldLength, FixedLength, AllFixed, AtField
  <2>2. /\ pos' = pos + fields[idx] /\ idx' = idx + 1 /\ start' = start /\ at' = at
        /\ rows' = rows /\ truncated' = truncated
    BY <2>1, <1>2, <1>6 DEF TakeField, After
  <2>3. Ahead(idx)' = Ahead(idx + 1)
    BY <2>2, <1>0 DEF Ahead
  <2>4. pos' + Ahead(idx)' = pos + Ahead(idx)
    BY <2>1, <2>2, <2>3, <1>2 DEF AtField
  <2> QED
    BY <2>1, <2>2, <2>4, <1>0, <1>1 DEF AtField, ExactOK, Counted
<1>7. ASSUME NEW len, NEW prefix, ValueUnderruns(len, prefix)
      PROVE  ExactOK'
  <2>1. /\ AtField /\ prefix = 0 /\ len = fields[idx] /\ fields[idx] \in Nat
        /\ ~(prefix + len <= remaining)
    BY <1>0, <1>2, <1>7
    DEF ValueUnderruns, FieldLength, FixedLength, AllFixed, AtField, Fits
  <2>2. pos + Ahead(idx) <= size
    BY <2>1, <1>0 DEF AtField, ExactOK
  <2> QED
    BY <2>1, <2>2, <1>2 DEF AtField, remaining
<1>8. CASE PrefixUnderruns
  BY <1>0, <1>2, <1>8 DEF PrefixUnderruns, AtField, AllFixed
<1>9. CASE EmitRecord
  BY <1>0, <1>9, ExactEmit
<1>10. CASE UNCHANGED vars
  BY <1>0, <1>1, <1>10 DEF vars, ExactOK, Counted, Ahead, remaining
<1> QED
  BY <1>3, <1>4, <1>5, <1>6, <1>7, <1>8, <1>9, <1>10 DEF Next, Slice, Done

\* With a template of fixed fields exactly the whole records of the payload are
\* decoded and none is reported truncated, for every such template and every
\* payload size (decode_data_set's footprint test, made once per record).
THEOREM FixedTemplatesAreExact == Spec => []FixedIsExact
<1>1. SlicerOK /\ ExactOK => FixedIsExact
  <2> SUFFICES ASSUME SlicerOK, ExactOK, at = "done", AllFixed, ~(flows_only /\ options),
                      min_fixed(fields) > 0
               PROVE  Cardinality(rows) = size \div min_fixed(fields)
    BY DEF FixedIsExact, ExactOK
  <2>1. /\ IsFiniteSet(rows) /\ pos = Cardinality(rows) * min_fixed(fields)
        /\ size - pos < min_fixed(fields)
    BY DEF ExactOK, remaining
  <2>2. /\ size \in Nat /\ min_fixed(fields) \in Nat \ {0} /\ pos <= size
    BY TemplateFacts DEF SlicerOK
  <2>3. Cardinality(rows) \in Nat
    BY <2>1, FS_CardinalityType
  <2> QED
    BY <2>1, <2>2, <2>3, Quotient
<1> QED
  BY <1>1, SlicerInit, SlicerNext, ExactInit, ExactNext, PTL DEF Spec
=============================================================================
