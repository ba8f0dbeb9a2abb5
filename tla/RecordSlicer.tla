---------------------------- MODULE RecordSlicer ----------------------------
(***************************************************************************)
(* How the payload of a data set is cut into records and fields against a  *)
(* template (netflow-core decode/record.rs).  A fixed field takes its      *)
(* length from the template; a variable one from a prefix in the payload,  *)
(* one byte, or 255 and a 16-bit word.                                     *)
(*                                                                         *)
(* Of the payload only its size and the length prefixes matter; a prefix   *)
(* is chosen when the slicer reads it.  The mapping of a sliced field to a *)
(* column does not steer the slicer and is left out.                       *)
(***************************************************************************)
EXTENDS Integers, Sequences, FiniteSets

CONSTANTS
  Templates,    \* field lists: sequences of lengths, Variable for variable ones
  Sizes,        \* payload sizes
  PrefixBytes,  \* values of a one-byte length prefix
  PrefixWords   \* values of the word after a 255 prefix

Variable == 65535

ASSUME SlicerAssumption ==
  /\ Templates \subseteq Seq(Nat)
  /\ Sizes \subseteq Nat
  /\ PrefixBytes \subseteq Nat /\ PrefixWords \subseteq Nat

is_variable(width) == width = Variable

\* The bytes of one record that the template fixes, from field i on: a sum of
\* lengths, written as a cardinality.
FixedBytes(fields, i) ==
  UNION {{<<j, b>> : b \in 1 .. fields[j]} :
           j \in {k \in i .. Len(fields) : ~is_variable(fields[k])}}

min_fixed(fields) == Cardinality(FixedBytes(fields, 1))

VARIABLES
  fields,     \* the template's field list
  options,    \* is it an options template?
  flows_only, \* the mode of the call
  size,       \* payload.len()
  at,         \* where the slicer is: see Places
  pos,        \* cur.position()
  start,      \* where the current record begins
  idx,        \* the field that is next in it
  part,       \* the extents of the current record's fields
  rows,       \* the records decoded, each known by its fields' extents
  truncated   \* was a "truncated" diagnostic emitted?

vars == <<fields, options, flows_only, size, at, pos, start, idx, part, rows, truncated>>
input == <<fields, options, flows_only, size>>

Places == {"begin", "loop", "record", "done"}

Init ==
  /\ fields \in Templates /\ size \in Sizes
  /\ options \in BOOLEAN /\ flows_only \in BOOLEAN
  /\ at = "begin" /\ pos = 0 /\ start = 0 /\ idx = 1
  /\ part = <<>> /\ rows = {} /\ truncated = FALSE

remaining == size - pos

\* decode_data_set: options data is dropped in flows-only mode.
Filter ==
  /\ at = "begin" /\ flows_only /\ options
  /\ at' = "done"
  /\ UNCHANGED <<input, pos, start, idx, part, rows, truncated>>

Begin ==
  /\ at = "begin" /\ ~(flows_only /\ options)
  /\ at' = "loop"
  /\ UNCHANGED <<input, pos, start, idx, part, rows, truncated>>

\* Mutant: the remainder must be longer than a record.
NothingLeft_Strict ==
  remaining = 0 \/ (min_fixed(fields) > 0 /\ remaining <= min_fixed(fields))

\* Nothing left, or less than the fixed fields of one record (padding).
NothingLeft ==
  remaining = 0 \/ (min_fixed(fields) > 0 /\ remaining < min_fixed(fields))

Stop ==
  /\ at = "loop" /\ NothingLeft
  /\ at' = "done"
  /\ UNCHANGED <<input, pos, start, idx, part, rows, truncated>>

BeginRecord ==
  /\ at = "loop" /\ ~NothingLeft
  /\ at' = "record"
  /\ start' = pos /\ idx' = 1 /\ part' = <<>>
  /\ UNCHANGED <<input, pos, rows, truncated>>

-----------------------------------------------------------------------------
(* decode_one_record, one field at a time.                                 *)

AtField == at = "record" /\ idx <= Len(fields)

\* The field's length, and the bytes of the prefix that says so.
FixedLength(len, prefix) ==
  /\ ~is_variable(fields[idx])
  /\ len = fields[idx] /\ prefix = 0

\* Either form of the prefix, if the payload still holds it.
read_varlen(len, prefix) ==
  /\ prefix <= remaining
  /\ \/ prefix = 1 /\ len \in PrefixBytes \ {255}
     \/ prefix = 3 /\ 255 \in PrefixBytes /\ len \in PrefixWords

FieldLength(len, prefix) ==
  \/ FixedLength(len, prefix)
  \/ is_variable(fields[idx]) /\ read_varlen(len, prefix)

\* Mutant: only the prefix is compared with what is left.
Fits_PrefixOnly(len, prefix) == prefix <= remaining

Fits(len, prefix) == prefix + len <= remaining

\* Mutant: the cursor is not moved past the prefix.
After_NoPrefix(len, prefix) == pos + len

After(len, prefix) == pos + prefix + len

TakeField(len, prefix) ==
  /\ AtField /\ FieldLength(len, prefix) /\ Fits(len, prefix)
  /\ part' = Append(part, <<pos + prefix, pos + prefix + len>>)
  /\ pos' = After(len, prefix)
  /\ idx' = idx + 1
  /\ UNCHANGED <<input, at, start, rows, truncated>>

\* A take that underruns leaves the cursor after whatever was read before it.
Truncate ==
  /\ at' = "done" /\ truncated' = TRUE
  /\ UNCHANGED <<input, start, idx, part, rows>>

\* The value does not fit.
ValueUnderruns(len, prefix) ==
  /\ AtField /\ FieldLength(len, prefix) /\ ~Fits(len, prefix)
  /\ pos' = pos + prefix
  /\ Truncate

\* The prefix is missing, or is 255 with less than a word after it.
PrefixUnderruns ==
  /\ AtField /\ is_variable(fields[idx])
  /\ \/ remaining = 0 /\ pos' = pos
     \/ remaining \in {1, 2} /\ 255 \in PrefixBytes /\ pos' = pos + 1
  /\ Truncate

\* Mutant: a record that took no bytes does not end the loop.
AfterRecord_Again == at' = "loop"

\* The loop ends when a record took no bytes.
AfterRecord == at' = IF pos = start THEN "done" ELSE "loop"

EmitRecord ==
  /\ at = "record" /\ idx > Len(fields)
  /\ rows' = rows \cup {part}
  /\ AfterRecord
  /\ UNCHANGED <<input, pos, start, idx, part, truncated>>

PrefixLengths == {0, 1, 3}

\* The field lengths that can occur at all.
CandidateLengths ==
  PrefixBytes \cup PrefixWords \cup (IF AtField THEN {fields[idx]} ELSE {})

Slice ==
  \/ Filter \/ Begin \/ Stop \/ BeginRecord
  \/ \E len \in CandidateLengths, prefix \in PrefixLengths :
       TakeField(len, prefix) \/ ValueUnderruns(len, prefix)
  \/ PrefixUnderruns \/ EmitRecord

Done == at = "done" /\ UNCHANGED vars

Next == Slice \/ Done

\* The slicer runs to its end.
Spec == Init /\ [][Next]_vars /\ WF_vars(Slice)

-----------------------------------------------------------------------------
(* Properties.                                                             *)

\* Type invariant: the cursor never leaves the payload.
TypeOK ==
  /\ fields \in Templates /\ size \in Sizes
  /\ options \in BOOLEAN /\ flows_only \in BOOLEAN
  /\ at \in Places /\ truncated \in BOOLEAN
  /\ pos \in 0 .. size /\ start \in 0 .. pos
  /\ idx \in 1 .. Len(fields) + 1
  /\ part \in Seq((0 .. size) \X (0 .. size))
  /\ rows \subseteq Seq((0 .. size) \X (0 .. size))

\* The fields of a record lie in the payload in template order.
InOrder(rec) ==
  /\ \A i \in DOMAIN rec : rec[i][1] <= rec[i][2] /\ rec[i][2] <= size
  /\ \A i, j \in DOMAIN rec : i < j => rec[i][2] <= rec[j][1]

\* All of one record's fields come before all of another's.
Precedes(rec, other) ==
  \A i \in DOMAIN rec, j \in DOMAIN other : rec[i][2] <= other[j][1]

\* Every record has one extent per template field, of the template's length where
\* it fixes one, inside the payload and in order, and no byte belongs to two
\* records (decode_one_record, Cursor::take).
SlicesAreSound ==
  /\ \A rec \in rows :
       /\ Len(rec) = Len(fields) /\ InOrder(rec)
       /\ \A i \in DOMAIN rec :
            is_variable(fields[i]) \/ rec[i][2] - rec[i][1] = fields[i]
  /\ \A rec, other \in rows :
       rec = other \/ Precedes(rec, other) \/ Precedes(other, rec)

AllFixed == \A i \in DOMAIN fields : ~is_variable(fields[i])

\* With a template of fixed fields every whole record is decoded and what is left
\* is taken for padding: no record is lost and none is reported truncated, however
\* the payload ends (the footprint test of decode_data_set).
FixedIsExact ==
  at = "done" /\ AllFixed /\ ~(flows_only /\ options) =>
    /\ ~truncated
    /\ min_fixed(fields) > 0 => Cardinality(rows) = size \div min_fixed(fields)

\* Slicing ends on every payload, also for templates without fields, with fields
\* of no length, or with empty variable fields (the zero-advance guard).
SlicingEnds == <>(at = "done")

-----------------------------------------------------------------------------
(* A statement of the source that the code does not keep.                  *)

\* The bytes the shortest record of the template takes.
Footprint ==
  min_fixed(fields) + Cardinality({i \in DOMAIN fields : is_variable(fields[i])})

\* decode_data_set's doc: records are sliced "until the remaining bytes can no
\* longer hold a full record (trailing padding is ignored)".  So when records were
\* decoded, a remainder too short for any other is no reason for a diagnostic.
PaddingIsIgnored ==
  truncated /\ rows # {} => size - start >= Footprint
=============================================================================
