--------------------------- MODULE FlowRowsProofs ---------------------------
(***************************************************************************)
(* What a batch's rows say of the datagrams, for every byte size, every    *)
(* device and every field, sample and record.  The inductive invariant     *)
(* keeps of each row what the fields or records taken so far make of it.   *)
(***************************************************************************)
EXTENDS FlowRows, ByteCursorProofs

-----------------------------------------------------------------------------
(* Arithmetic of the machine words.                                        *)

\* The words have at least two values, and an even number of them.
LEMMA WordSizes ==
  /\ U8 \in Nat /\ U16 \in Nat /\ U32 \in Nat /\ U64 \in Nat /\ U128 \in Nat
  /\ U8 >= 2 /\ U16 >= 2 /\ U32 >= 2 /\ U64 >= U32 /\ U128 >= 2
  /\ U128 = 2 * (U128 \div 2) /\ U128 \div 2 \in Nat /\ U128 \div 2 >= 1
<1>1. Base \in Nat /\ Base >= 2 /\ Base = 2 * (Base \div 2) /\ Base \div 2 \in Nat
  BY BaseAssumption
<1>2. \A a, b \in Nat : a >= 2 /\ b >= 2 => a * b \in Nat /\ a * b >= 2 /\ a * b >= a
  OBVIOUS
<1>3. U8 \in Nat /\ U8 >= 2
  BY <1>1 DEF U8
<1>4. U16 \in Nat /\ U16 >= 2
  BY <1>2, <1>3 DEF U16
<1>5. U32 \in Nat /\ U32 >= 2
  BY <1>2, <1>4 DEF U32
<1>6. U64 \in Nat /\ U64 >= 2 /\ U64 >= U32
  BY <1>2, <1>5 DEF U64
<1>7. U128 \in Nat /\ U128 >= 2
  BY <1>2, <1>6 DEF U128
<1>8. \A a, b \in Nat : a % 2 = 0 => (a * b) % 2 = 0
  <2> SUFFICES ASSUME NEW a \in Nat, NEW b \in Nat, a % 2 = 0
               PROVE  (a * b) % 2 = 0
    OBVIOUS
  <2>1. PICK h \in Nat : a = 2 * h
    <3>1. a = 2 * (a \div 2) /\ a \div 2 \in Nat
      OBVIOUS
    <3> QED
      BY <3>1
  <2>2. a * b = 2 * (h * b) /\ h * b \in Nat
    BY <2>1
  <2>3. \A p \in Nat : (2 * p) % 2 = 0
    OBVIOUS
  <2> QED
    BY <2>2, <2>3, Zenon
<1>9. U128 % 2 = 0
  <2>1. U16 % 2 = 0
    BY <1>3, <1>8, BaseAssumption DEF U16, U8
  <2>2. U32 % 2 = 0
    BY <2>1, <1>4, <1>8 DEF U32
  <2>3. U64 % 2 = 0
    BY <2>2, <1>5, <1>8 DEF U64
  <2> QED
    BY <2>3, <1>6, <1>8 DEF U128
<1>10. U128 = 2 * (U128 \div 2) /\ U128 \div 2 \in Nat /\ U128 \div 2 >= 1
  BY <1>7, <1>9
<1> QED
  BY <1>3, <1>4, <1>5, <1>6, <1>7, <1>10

\* Quotient and remainder.
LEMMA Division ==
  ASSUME NEW n \in Int, NEW m \in Nat \ {0}
  PROVE  n \div m \in Int /\ n % m \in 0 .. m - 1 /\ n = m * (n \div m) + (n % m)
OBVIOUS

\* A number is divided by counting how often the divisor fits.
LEMMA DivisionIsCounting ==
  ASSUME NEW n \in Int, NEW m \in Nat \ {0}, NEW k \in Int, k * m <= n, n - k * m < m
  PROVE  k = n \div m
<1> DEFINE q == n \div m
           r == n % m
<1>1. q \in Int /\ r \in 0 .. m - 1 /\ n = m * q + r
  OBVIOUS
<1> HIDE DEF q, r
<1>2. m * q = q * m /\ q * m <= n /\ n < q * m + m
  BY <1>1
<1>3. ~(q >= k + 1)
  <2> SUFFICES ASSUME q >= k + 1 PROVE FALSE
    OBVIOUS
  <2>1. q * m >= (k + 1) * m
    BY <1>1
  <2>2. (k + 1) * m = k * m + m
    OBVIOUS
  <2> QED
    BY <2>1, <2>2, <1>1, <1>2
<1>4. ~(k >= q + 1)
  <2> SUFFICES ASSUME k >= q + 1 PROVE FALSE
    OBVIOUS
  <2>1. k * m >= (q + 1) * m
    BY <1>1
  <2>2. (q + 1) * m = q * m + m
    BY <1>1
  <2> QED
    BY <2>1, <2>2, <1>1, <1>2
<1> QED
  BY <1>1, <1>3, <1>4 DEF q

\* A number that has room in an i64 is not changed by the cast.
LEMMA FitsI64 ==
  ASSUME NEW n \in Nat, n < U64 \div 2
  PROVE  AsI64(n) = n
<1> DEFINE H == U64 \div 2
<1>1. U64 \in Nat /\ U64 >= 2
  BY WordSizes
<1>2. H \in Nat /\ 2 * H <= U64
  BY <1>1
<1> HIDE DEF H
<1>3. n + H < U64 /\ n + H >= 0
  BY <1>1, <1>2 DEF H
<1>4. (n + H) % U64 = n + H
  BY <1>1, <1>2, <1>3
<1> QED
  BY <1>2, <1>4 DEF AsI64, H

\* The NTP conversion, on seconds and fraction apart, is that of the whole number.
LEMMA NtpIsExact ==
  ASSUME NEW v \in Nat
  PROVE  (v \div U32 - NtpOffset) * Micros + ((v % U32) * Micros) \div U32
           = ((v * Micros) \div U32) - NtpOffset * Micros
<1> DEFINE q == v \div U32
           r == v % U32
           t == (r * Micros) \div U32
           s == (r * Micros) % U32
<1>1. U32 \in Nat \ {0} /\ Micros \in Nat \ {0} /\ NtpOffset \in Nat
  BY WordSizes, UnitsAssumption
<1>2. q \in Int /\ r \in Nat /\ v = U32 * q + r
  BY <1>1
<1> HIDE DEF q, r
<1>3. t \in Int /\ s \in 0 .. U32 - 1 /\ r * Micros = U32 * t + s
  BY <1>1, <1>2
<1> HIDE DEF t, s
<1>4. v * Micros = (q * Micros + t) * U32 + s
  <2>1. v * Micros = (U32 * q) * Micros + r * Micros
    BY <1>1, <1>2
  <2>2. (U32 * q) * Micros = (q * Micros) * U32
    BY <1>1, <1>2
  <2>3. (q * Micros + t) * U32 = (q * Micros) * U32 + U32 * t
    BY <1>1, <1>2, <1>3
  <2> QED
    BY <2>1, <2>2, <2>3, <1>1, <1>2, <1>3
<1>5. q * Micros + t = (v * Micros) \div U32
  <2> DEFINE k == q * Micros + t
             n == v * Micros
  <2>1. k \in Int /\ n \in Int /\ k * U32 \in Int
    BY <1>1, <1>2, <1>3
  <2>2. k * U32 <= n /\ n - k * U32 < U32
    BY <1>1, <1>3, <1>4, <2>1
  <2> HIDE DEF k, n
  <2>3. k = n \div U32
    BY <1>1, <2>1, <2>2, DivisionIsCounting
  <2> QED
    BY <2>3 DEF k, n
<1>6. (q - NtpOffset) * Micros = q * Micros - NtpOffset * Micros
  BY <1>1, <1>2
<1>7. (q - NtpOffset) * Micros + t = (q * Micros + t) - NtpOffset * Micros
  BY <1>1, <1>2, <1>3, <1>6
<1> QED
  BY <1>5, <1>7 DEF q, r, t

\* Sign flip and cast read an IPv6 address as its distance from the middle.
LEMMA SignedAddress ==
  ASSUME NEW v \in Nat, v < U128
  PROVE  /\ AsI128(FlipSign(v)) = v - (U128 \div 2)
         /\ FlipSign(AsU128(v - (U128 \div 2))) = v
<1> DEFINE H == U128 \div 2
<1>1. H \in Nat /\ H >= 1 /\ U128 = 2 * H
  BY WordSizes
<1>2. AsI128(FlipSign(v)) = v - H
  <2> HIDE DEF H
  <2>1. FlipSign(v) = IF v < H THEN v + H ELSE v - H
    BY DEF FlipSign, H
  <2>2. \A n : AsI128(n) = IF n < H THEN n ELSE n - U128
    BY DEF AsI128, H
  <2> QED
    BY <2>1, <2>2, <1>1
<1>3. FlipSign(AsU128(v - H)) = v
  <2>1. \A n : FlipSign(n) = IF n < H THEN n + H ELSE n - H
    BY DEF FlipSign
  <2> HIDE DEF H
  <2>2. CASE v < H
    <3>1. (v - H) % U128 = v + H
      BY <2>2, <1>1
    <3> QED
      BY <3>1, <2>1, <2>2, <1>1 DEF AsU128
  <2>3. CASE ~(v < H)
    <3>1. (v - H) % U128 = v - H
      BY <2>3, <1>1
    <3> QED
      BY <3>1, <2>1, <2>3, <1>1 DEF AsU128
  <2> QED
    BY <2>2, <2>3
<1> QED
  BY <1>2, <1>3

-----------------------------------------------------------------------------
(* Elements and the values they give a column.                             *)

CounterColumns == {"bytes", "packets"}
TimeColumns == {"flow_start", "flow_end"}
MappedColumns == FlowColumns \cup AddressColumns

\* How many values a column has.
Limit(column) ==
  CASE column \in {"protocol", "tcp_flags", "tos", "src_mask", "dst_mask", "direction"} -> U8
    [] column \in {"src_port", "dst_port"} -> U16
    [] column \in {"src_as", "dst_as", "input_snmp", "output_snmp", "sampling_rate"} -> U32
    [] column \in {"bytes", "packets"} -> U64

\* The table of elements agrees with the types of the columns.
LEMMA ElementFacts ==
  ASSUME NEW e \in Elements
  PROVE  /\ e.column \in MappedColumns
         /\ e.how \in {"inet4", "inet6", "number", "counter", "clock", "ntp", "uptime"}
         /\ e.how \in {"inet4", "inet6"} <=> e.column \in AddressColumns
         /\ e.how = "counter" <=> e.column \in CounterColumns
         /\ e.how \in {"clock", "ntp", "uptime"} <=> e.column \in TimeColumns
         /\ e.how = "number" => e.arg = Limit(e.column) /\ e.arg \in {U8, U16, U32}
         /\ e.how = "clock" => e.arg \in {Micros, Millis}
         /\ (21 \in e.ies \/ 22 \in e.ies) => e.how = "uptime"
<1>1. /\ e.column \in MappedColumns
      /\ e.how \in {"inet4", "inet6", "number", "counter", "clock", "ntp", "uptime"}
  BY DEF Elements, Element, MappedColumns, FlowColumns, AddressColumns
<1>2. e.how \in {"inet4", "inet6"} <=> e.column \in AddressColumns
  BY DEF Elements, Element, AddressColumns
<1>3. e.how = "counter" <=> e.column \in CounterColumns
  BY DEF Elements, Element, CounterColumns
<1>4. e.how \in {"clock", "ntp", "uptime"} <=> e.column \in TimeColumns
  BY DEF Elements, Element, TimeColumns
<1>5. e.how = "number" => e.arg = Limit(e.column) /\ e.arg \in {U8, U16, U32}
  BY DEF Elements, Element, Limit
<1>6. e.how = "clock" => e.arg \in {Micros, Millis}
  BY DEF Elements, Element
<1>7. (21 \in e.ies \/ 22 \in e.ies) => e.how = "uptime"
  BY DEF Elements, Element
<1> QED
  BY <1>1, <1>2, <1>3, <1>4, <1>5, <1>6, <1>7

LEMMA ElementOfMapped ==
  ASSUME NEW f, IsMapped(f)
  PROVE  ElementOf(f) \in Elements /\ f.ie \in ElementOf(f).ies
BY DEF IsMapped, ElementOf

\* The fields a record can hold.
KnownFields ==
  Fields \cup {UptimeField(ie, reading) : ie \in {21, 22}, reading \in Readings}

IsUptime(f) == IsMapped(f) /\ ElementOf(f).how = "uptime"

\* Does a field say something about a column?
Speaks(f, c) ==
  /\ IsMapped(f) /\ ElementOf(f).column = c
  /\ CASE ElementOf(f).how = "uptime" -> FALSE
       [] ElementOf(f).how = "inet4" -> f.bytes.len = 4
       [] ElementOf(f).how = "inet6" -> f.bytes.len = 16
       [] ElementOf(f).how = "ntp" -> f.bytes.len = 8
       [] OTHER -> TRUE

ValueOf(f) == ColumnValue(ElementOf(f), f.bytes)

\* A field's bytes make words of their width; only UptimeField makes a sysUptime
\* element, and from its reading.
LEMMA FieldFacts ==
  ASSUME NEW f \in KnownFields
  PROVE  /\ f.bytes.len \in Nat /\ f.bytes.val \in Nat /\ HasWordSizes(f.bytes)
         /\ IsUptime(f) => f.reading \in Nat /\ ValueOf(f) = f.reading % U32
<1>1. CASE f \in Fields
  <2>1. f.bytes \in Bytes /\ HasWordSizes(f.bytes) /\ ~IsUptime(f)
    BY <1>1, RowsAssumption DEF IsUptime
  <2> QED
    BY <2>1 DEF Bytes
<1>2. ASSUME NEW ie \in {21, 22}, NEW reading \in Readings, f = UptimeField(ie, reading)
      PROVE  /\ f.bytes.len \in Nat /\ f.bytes.val \in Nat /\ HasWordSizes(f.bytes)
             /\ f.reading \in Nat /\ (IsUptime(f) => ValueOf(f) = f.reading % U32)
  <2>1. /\ f.reading = reading /\ f.bytes.len = 4 /\ f.bytes.val = reading % U32
        /\ reading \in Nat
    BY <1>2, RowsAssumption DEF UptimeField
  <2>2. U32 \in Nat \ {0} /\ U64 \in Nat /\ U64 >= U32
    BY WordSizes
  <2>3. f.bytes.val \in 0 .. U32 - 1
    BY <2>1, <2>2
  <2>4. be_uint(f.bytes) = f.bytes.val
    BY <2>1 DEF be_uint
  <2>5. HasWordSizes(f.bytes)
    BY <2>1, <2>2, <2>3, <2>4 DEF HasWordSizes
  <2>6. f.bytes.val % U32 = f.bytes.val
    BY <2>2, <2>3
  <2>7. IsUptime(f) => ValueOf(f) = f.reading % U32
    BY <2>1, <2>4, <2>6 DEF IsUptime, ValueOf, ColumnValue
  <2> QED
    BY <2>1, <2>3, <2>5, <2>7
<1> QED
  BY <1>1, <1>2 DEF KnownFields

\* What a field that speaks of a column gives it: a value of the column's type.
LEMMA SpokenValue ==
  ASSUME NEW f \in KnownFields, NEW c, Speaks(f, c)
  PROVE  /\ c \in AddressColumns => /\ ValueOf(f) \in [ip_type : {1, 2}, address : Int, mask : Int]
                                    /\ ValueOf(f).ip_type = IF f.bytes.len = 4 THEN 1 ELSE 2
                                    /\ f.bytes.len # 4 =>
                                         ValueOf(f).address = f.bytes.val - (U128 \div 2)
                                    /\ to_ip(ValueOf(f)) = f.bytes.val
         /\ c \in TimeColumns => ValueOf(f) \in Int
         /\ c \in FlowColumns \ TimeColumns => ValueOf(f) \in 0 .. Limit(c) - 1
         /\ c \in FlowColumns /\ HasRoom(f) => ValueOf(f) = Meaning(f)
         /\ ValueOf(f) # None
<1> DEFINE e == ElementOf(f)
           b == f.bytes
<1>1. e \in Elements /\ e.column = c
  BY ElementOfMapped DEF Speaks
<1>2. /\ e.how \in {"inet4", "inet6", "number", "counter", "clock", "ntp"}
      /\ e.how \in {"inet4", "inet6"} <=> c \in AddressColumns
      /\ e.how = "counter" <=> c \in CounterColumns
      /\ e.how \in {"clock", "ntp", "uptime"} <=> c \in TimeColumns
      /\ e.how = "number" => e.arg = Limit(c) /\ e.arg \in {U8, U16, U32}
      /\ e.how = "clock" => e.arg \in {Micros, Millis}
      /\ e.how = "inet4" => b.len = 4
      /\ e.how = "inet6" => b.len = 16
      /\ e.how = "ntp" => b.len = 8
  BY <1>1, ElementFacts DEF Speaks
<1>3. /\ b.len \in Nat /\ b.val \in Nat /\ be_uint(b) \in 0 .. U64 - 1
      /\ b.len = 4 => b.val < U32
      /\ b.len = 16 => b.val < U128
      /\ b.len <= 8 => be_uint(b) = b.val
  BY FieldFacts DEF HasWordSizes, be_uint
<1>4. /\ U8 \in Nat /\ U16 \in Nat /\ U32 \in Nat /\ U64 \in Nat /\ U128 \in Nat
      /\ U8 >= 2 /\ U16 >= 2 /\ U32 >= 2 /\ U64 >= 2 /\ U128 \div 2 \in Nat
  BY WordSizes
<1>5. /\ TimeColumns \cap AddressColumns = {} /\ CounterColumns \cap TimeColumns = {}
      /\ FlowColumns \cap AddressColumns = {} /\ CounterColumns \subseteq FlowColumns
      /\ \A x \in CounterColumns : Limit(x) = U64
  BY DEF TimeColumns, AddressColumns, CounterColumns, FlowColumns, Limit
<1>6. CASE e.how = "inet4"
  <2>1. ValueOf(f) = encode4(b.val)
    BY <1>2, <1>6 DEF ValueOf, ColumnValue, inet4
  <2>2. b.val % U32 = b.val
    BY <1>2, <1>3, <1>4, <1>6
  <2>3. /\ ValueOf(f) \in [ip_type : {1, 2}, address : Int, mask : Int]
        /\ ValueOf(f).ip_type = 1 /\ to_ip(ValueOf(f)) = b.val
    BY <2>1, <2>2, <1>3 DEF encode4, to_ip
  <2> QED
    BY <2>3, <1>2, <1>5, <1>6, NoneAssumption
<1>7. CASE e.how = "inet6"
  <2>1. ValueOf(f) = encode6(b.val) /\ b.len # 4
    BY <1>2, <1>7 DEF ValueOf, ColumnValue, inet6
  <2>2. /\ AsI128(FlipSign(b.val)) = b.val - (U128 \div 2)
        /\ FlipSign(AsU128(b.val - (U128 \div 2))) = b.val
    BY <1>2, <1>3, <1>7, SignedAddress
  <2>3. /\ ValueOf(f).ip_type = 2 /\ ValueOf(f).address = b.val - (U128 \div 2)
        /\ ValueOf(f) = [ip_type |-> 2, address |-> b.val - (U128 \div 2), mask |-> 128]
    BY <2>1, <2>2 DEF encode6
  <2>4. b.val - (U128 \div 2) \in Int
    BY <1>3, <1>4
  <2>5. to_ip(ValueOf(f)) = b.val
    BY <2>2, <2>3 DEF to_ip
  <2>6. ValueOf(f) \in [ip_type : {1, 2}, address : Int, mask : Int]
    BY <2>3, <2>4
  <2> QED
    BY <2>1, <2>3, <2>5, <2>6, <1>2, <1>5, <1>7, NoneAssumption
<1>8. CASE e.how = "number"
  <2>1. ValueOf(f) = be_uint(b) % e.arg
    BY <1>8 DEF ValueOf, ColumnValue
  <2>2. e.arg \in Nat \ {0}
    BY <1>2, <1>4, <1>8
  <2>3. ValueOf(f) \in 0 .. e.arg - 1
    BY <2>1, <2>2, <1>3, <1>4
  <2>4. HasRoom(f) => ValueOf(f) = Meaning(f)
    <3> SUFFICES ASSUME HasRoom(f) PROVE ValueOf(f) = Meaning(f)
      OBVIOUS
    <3>1. b.len <= 8 /\ b.val < e.arg /\ Meaning(f) = b.val
      BY <1>8 DEF HasRoom, Meaning
    <3>2. b.val % e.arg = b.val
      BY <3>1, <2>2, <1>3
    <3> QED
      BY <3>1, <3>2, <2>1, <1>3
  <2>5. c \notin AddressColumns /\ c \notin TimeColumns
    BY <1>2, <1>8
  <2>6. ValueOf(f) \in Int
    BY <2>2, <2>3
  <2> QED
    BY <2>3, <2>4, <2>5, <2>6, <1>2, <1>8, NoneAssumption
<1>9. CASE e.how = "counter"
  <2>1. ValueOf(f) = be_uint(b)
    BY <1>9 DEF ValueOf, ColumnValue
  <2>2. HasRoom(f) => ValueOf(f) = Meaning(f)
    BY <2>1, <1>3, <1>9 DEF HasRoom, Meaning
  <2>3. ValueOf(f) \in Int /\ c \in CounterColumns
    BY <2>1, <1>2, <1>3, <1>4, <1>9
  <2> QED
    BY <2>1, <2>2, <2>3, <1>2, <1>3, <1>5, <1>9, NoneAssumption
<1>10. CASE e.how = "clock"
  <2>1. ValueOf(f) = AsI64(AsI64(be_uint(b)) * e.arg)
    BY <1>10 DEF ValueOf, ColumnValue
  <2>2. e.arg \in Nat \ {0}
    BY <1>2, <1>10, UnitsAssumption
  <2>3. \A n \in Int : AsI64(n) \in Int
    BY <1>4 DEF AsI64
  <2>4. ValueOf(f) \in Int
    <3>1. AsI64(be_uint(b)) \in Int
      BY <2>3, <1>3, <1>4
    <3>2. AsI64(be_uint(b)) * e.arg \in Int
      BY <3>1, <2>2
    <3> QED
      BY <3>2, <2>1, <2>3
  <2>5. HasRoom(f) => ValueOf(f) = Meaning(f)
    <3> SUFFICES ASSUME HasRoom(f) PROVE ValueOf(f) = Meaning(f)
      OBVIOUS
    <3>1. b.len <= 8 /\ b.val * e.arg < U64 \div 2 /\ Meaning(f) = b.val * e.arg
      BY <1>10 DEF HasRoom, Meaning
    <3>2. b.val * e.arg \in Nat /\ b.val <= b.val * e.arg /\ U64 \div 2 \in Nat
      BY <1>3, <1>4, <2>2
    <3>3. b.val < U64 \div 2
      BY <3>1, <3>2, <1>3
    <3>4. AsI64(b.val) = b.val
      BY <3>3, <1>3, FitsI64
    <3>5. AsI64(b.val * e.arg) = b.val * e.arg
      BY <3>1, <3>2, FitsI64
    <3> QED
      BY <3>1, <3>4, <3>5, <2>1, <1>3
  <2> QED
    BY <2>4, <2>5, <1>2, <1>5, <1>10, NoneAssumption
<1>11. CASE e.how = "ntp"
  <2>1. ValueOf(f) = (b.val \div U32 - NtpOffset) * Micros + ((b.val % U32) * Micros) \div U32
    BY <1>2, <1>11 DEF ValueOf, ColumnValue, ntp_micros
  <2>2. ValueOf(f) = Meaning(f)
    BY <2>1, <1>3, <1>11, NtpIsExact DEF Meaning
  <2>3. ValueOf(f) \in Int
    BY <2>1, <1>3, <1>4, UnitsAssumption
  <2> QED
    BY <2>2, <2>3, <1>2, <1>5, <1>11, NoneAssumption
<1> QED
  BY <1>2, <1>6, <1>7, <1>8, <1>9, <1>10, <1>11

\* A field whose element has another length than the column demands has no value.
LEMMA UnspokenValue ==
  ASSUME NEW f, IsMapped(f), ~IsUptime(f), ~Speaks(f, ElementOf(f).column)
  PROVE  ElementOf(f).how # "counter" /\ ValueOf(f) = None
<1>1. ElementOf(f).how \in {"inet4", "inet6", "number", "counter", "clock", "ntp", "uptime"}
  BY ElementOfMapped, ElementFacts
<1> QED
  BY <1>1 DEF IsUptime, Speaks, ValueOf, ColumnValue, inet4, inet6, ntp_micros

-----------------------------------------------------------------------------
(* The draft of a record against the fields taken so far.                  *)

Preferred(f) == f.ie = ElementOf(f).arg

\* Field i has the say over a column: the last that speaks of it; of counters the
\* last preferred one, or the first if there is none.
Wins(fs, c, i) ==
  /\ i \in DOMAIN fs /\ Speaks(fs[i], c)
  /\ IF c \in CounterColumns
     THEN \/ /\ Preferred(fs[i])
             /\ \A j \in DOMAIN fs : Speaks(fs[j], c) /\ Preferred(fs[j]) => j <= i
          \/ \A j \in DOMAIN fs : Speaks(fs[j], c) => ~Preferred(fs[j]) /\ i <= j
     ELSE \A j \in DOMAIN fs : Speaks(fs[j], c) => j <= i

Silent(fs, c) == \A i \in DOMAIN fs : ~Speaks(fs[i], c)

Held(value, fs, c) ==
  \/ Silent(fs, c) /\ value = None
  \/ \E i \in DOMAIN fs : Wins(fs, c, i) /\ value = ValueOf(fs[i])

\* The same for the sysUptime readings: the last counts.
Reads(f, c) == IsUptime(f) /\ ElementOf(f).column = c

ReadingHeld(value, fs, c) ==
  \/ (\A i \in DOMAIN fs : ~Reads(fs[i], c)) /\ value = None
  \/ \E i \in DOMAIN fs :
       /\ Reads(fs[i], c) /\ value = ValueOf(fs[i])
       /\ \A j \in DOMAIN fs : Reads(fs[j], c) => j <= i

\* A row is a function on the columns, its raw_fields a list.
IsList(s) == s \in Seq(Range(s))
IsRow(row) == row = [c \in Columns |-> row[c]] /\ IsList(row.raw_fields)

IsDraft(draft) ==
  /\ draft = [row |-> draft.row,
              sysup |-> [flow_start |-> draft.sysup.flow_start,
                         flow_end |-> draft.sysup.flow_end]]
  /\ IsRow(draft.row)

DraftOK(draft, fs) ==
  /\ IsDraft(draft)
  /\ \A c \in MappedColumns : Held(draft.row[c], fs, c)
  /\ \A c \in TimeColumns : ReadingHeld(draft.sysup[c], fs, c)

\* Appending to a list adds one thing at its end.
LEMMA AppendList ==
  ASSUME NEW s, IsList(s), NEW x
  PROVE  /\ IsList(Append(s, x)) /\ Range(Append(s, x)) = Range(s) \cup {x}
         /\ Len(s) \in Nat /\ Len(Append(s, x)) = Len(s) + 1
         /\ DOMAIN s = 1 .. Len(s) /\ DOMAIN Append(s, x) = 1 .. Len(s) + 1
         /\ \A i \in 1 .. Len(s) : Append(s, x)[i] = s[i]
         /\ Append(s, x)[Len(s) + 1] = x
<1> DEFINE S == Range(s) \cup {x}
           t == Append(s, x)
<1>1. s \in Seq(S) /\ x \in S
  BY DEF IsList
<1> HIDE DEF S
<1>2. /\ t \in Seq(S) /\ Len(s) \in Nat /\ Len(t) = Len(s) + 1
      /\ DOMAIN s = 1 .. Len(s) /\ DOMAIN t = 1 .. Len(s) + 1
      /\ \A i \in 1 .. Len(s) : t[i] = s[i]
      /\ t[Len(s) + 1] = x
  BY <1>1
<1> HIDE DEF t
<1>3. \A i \in 1 .. Len(s) + 1 : i \in 1 .. Len(s) \/ i = Len(s) + 1
  BY <1>2
<1>4. Range(t) = S
  BY <1>2, <1>3 DEF Range, S
<1> QED
  BY <1>2, <1>4 DEF IsList, S, t

\* A sequence over any set is a list.
LEMMA ListOf ==
  ASSUME NEW S, NEW s \in Seq(S)
  PROVE  IsList(s) /\ \A i \in DOMAIN s : s[i] \in S
BY DEF IsList, Range

\* A field that does not speak of a column changes nothing about it.
LEMMA HeldQuiet ==
  ASSUME NEW fs, IsList(fs), NEW f, NEW c, ~Speaks(f, c), NEW v, Held(v, fs, c)
  PROVE  Held(v, Append(fs, f), c)
<1> DEFINE gs == Append(fs, f)
           n == Len(fs)
<1>1. /\ n \in Nat /\ DOMAIN fs = 1 .. n /\ DOMAIN gs = 1 .. n + 1
      /\ \A i \in 1 .. n : gs[i] = fs[i]
      /\ gs[n + 1] = f
      /\ \A i \in 1 .. n + 1 : i \in 1 .. n \/ i = n + 1
      /\ \A i \in 1 .. n : i \in 1 .. n + 1
  BY AppendList
<1> HIDE DEF gs, n
<1>2. \A i \in DOMAIN gs : Speaks(gs[i], c) => i \in DOMAIN fs /\ Speaks(fs[i], c) /\ gs[i] = fs[i]
  BY <1>1
<1>3. CASE Silent(fs, c) /\ v = None
  BY <1>2, <1>3 DEF Held, Silent, gs
<1>4. ASSUME NEW i \in DOMAIN fs, Wins(fs, c, i), v = ValueOf(fs[i])
      PROVE  Held(v, gs, c)
  <2>1. i \in DOMAIN gs /\ gs[i] = fs[i]
    BY <1>1
  <2>2. Wins(gs, c, i)
    BY <1>2, <1>4, <2>1 DEF Wins
  <2> QED
    BY <1>4, <2>1, <2>2 DEF Held
<1> QED
  BY <1>3, <1>4 DEF Held, gs

\* The last field that speaks of a column has the say, of counters if it is the
\* preferred one or the first.
LEMMA HeldTakes ==
  ASSUME NEW fs, IsList(fs), NEW f, NEW c, Speaks(f, c),
         c \in CounterColumns => Preferred(f) \/ Silent(fs, c)
  PROVE  Held(ValueOf(f), Append(fs, f), c)
<1> DEFINE gs == Append(fs, f)
           n == Len(fs)
<1>1. /\ n \in Nat /\ DOMAIN fs = 1 .. n /\ DOMAIN gs = 1 .. n + 1
      /\ \A i \in 1 .. n : gs[i] = fs[i]
      /\ gs[n + 1] = f
      /\ \A i \in 1 .. n + 1 : i <= n + 1 /\ (i \in 1 .. n \/ i = n + 1)
      /\ n + 1 \in 1 .. n + 1 /\ n + 1 <= n + 1
  BY AppendList
<1> HIDE DEF gs, n
<1>2. Wins(gs, c, n + 1)
  <2>1. CASE c \notin CounterColumns
    BY <1>1, <2>1 DEF Wins
  <2>2. CASE c \in CounterColumns /\ Preferred(f)
    BY <1>1, <2>2 DEF Wins
  <2>3. CASE c \in CounterColumns /\ ~Preferred(f)
    <3>1. \A j \in DOMAIN gs : Speaks(gs[j], c) => j = n + 1 /\ gs[j] = f
      BY <1>1, <2>3 DEF Silent
    <3> QED
      BY <1>1, <2>3, <3>1 DEF Wins
  <2> QED
    BY <2>1, <2>2, <2>3
<1> QED
  BY <1>1, <1>2 DEF Held, gs

\* A counter that is neither preferred nor the first changes nothing.
LEMMA HeldKeeps ==
  ASSUME NEW fs, IsList(fs), NEW f, NEW c \in CounterColumns,
         Speaks(f, c), ~Preferred(f), ~Silent(fs, c), NEW v, Held(v, fs, c)
  PROVE  Held(v, Append(fs, f), c)
<1> DEFINE gs == Append(fs, f)
           n == Len(fs)
<1>1. /\ n \in Nat /\ DOMAIN fs = 1 .. n /\ DOMAIN gs = 1 .. n + 1
      /\ \A i \in 1 .. n : gs[i] = fs[i]
      /\ gs[n + 1] = f
      /\ \A i \in 1 .. n + 1 : i \in 1 .. n \/ i = n + 1
      /\ \A i \in 1 .. n : i \in 1 .. n + 1 /\ i <= n + 1
  BY AppendList
<1> HIDE DEF gs, n
<1>2. PICK i \in DOMAIN fs : Wins(fs, c, i) /\ v = ValueOf(fs[i])
  BY DEF Held
<1>3. i \in DOMAIN gs /\ gs[i] = fs[i] /\ i <= n + 1
  BY <1>1
<1>4. Wins(gs, c, i)
  <2>1. CASE /\ Preferred(fs[i])
             /\ \A j \in DOMAIN fs : Speaks(fs[j], c) /\ Preferred(fs[j]) => j <= i
    BY <1>1, <1>2, <1>3, <2>1 DEF Wins
  <2>2. CASE \A j \in DOMAIN fs : Speaks(fs[j], c) => ~Preferred(fs[j]) /\ i <= j
    BY <1>1, <1>2, <1>3, <2>2 DEF Wins
  <2> QED
    BY <1>2, <2>1, <2>2 DEF Wins
<1> QED
  BY <1>2, <1>3, <1>4 DEF Held, gs

LEMMA ReadingQuiet ==
  ASSUME NEW fs, IsList(fs), NEW f, NEW c, ~Reads(f, c), NEW v, ReadingHeld(v, fs, c)
  PROVE  ReadingHeld(v, Append(fs, f), c)
<1> DEFINE gs == Append(fs, f)
           n == Len(fs)
<1>1. /\ n \in Nat /\ DOMAIN fs = 1 .. n /\ DOMAIN gs = 1 .. n + 1
      /\ \A i \in 1 .. n : gs[i] = fs[i]
      /\ gs[n + 1] = f
      /\ \A i \in 1 .. n + 1 : i \in 1 .. n \/ i = n + 1
      /\ \A i \in 1 .. n : i \in 1 .. n + 1
  BY AppendList
<1> HIDE DEF gs, n
<1>2. \A i \in DOMAIN gs : Reads(gs[i], c) => i \in DOMAIN fs /\ Reads(fs[i], c) /\ gs[i] = fs[i]
  BY <1>1
<1>3. \A i \in DOMAIN fs : i \in DOMAIN gs /\ gs[i] = fs[i]
  BY <1>1
<1> QED
  BY <1>2, <1>3 DEF ReadingHeld, gs

LEMMA ReadingTakes ==
  ASSUME NEW fs, IsList(fs), NEW f, NEW c, Reads(f, c)
  PROVE  ReadingHeld(ValueOf(f), Append(fs, f), c)
<1> DEFINE gs == Append(fs, f)
           n == Len(fs)
<1>1. /\ n \in Nat /\ DOMAIN gs = 1 .. n + 1 /\ gs[n + 1] = f
      /\ \A i \in 1 .. n + 1 : i <= n + 1
      /\ n + 1 \in 1 .. n + 1
  BY AppendList
<1> HIDE DEF gs, n
<1> QED
  BY <1>1 DEF ReadingHeld, gs

\* What the row operations leave alone.
LEMMA PutRaw ==
  ASSUME NEW row, IsRow(row), NEW name, NEW bytes
  PROVE  LET new == put_raw(row, name, bytes)
         IN  /\ IsRow(new) /\ new.raw_fields = Append(row.raw_fields, <<name, bytes>>)
             /\ \A x \in Columns \ {"raw_fields"} : new[x] = row[x]
<1> DEFINE new == put_raw(row, name, bytes)
           list == Append(row.raw_fields, <<name, bytes>>)
<1>1. DOMAIN row = Columns /\ "raw_fields" \in Columns
  BY DEF IsRow, Columns
<1>2. IsList(list)
  BY AppendList DEF IsRow
<1> HIDE DEF list
<1>3. new = [row EXCEPT !.raw_fields = list]
  BY DEF put_raw, list
<1> HIDE DEF new
<1>4. /\ new = [c \in Columns |-> new[c]] /\ new.raw_fields = list
      /\ \A x \in Columns \ {"raw_fields"} : new[x] = row[x]
  BY <1>1, <1>3
<1> QED
  BY <1>2, <1>4 DEF IsRow, new, list

LEMMA NoteRow ==
  ASSUME NEW row, IsRow(row), NEW msg
  PROVE  LET new == note(row, msg)
         IN  IsRow(new) /\ \A x \in Columns \ {"diagnostics"} : new[x] = row[x]
<1> DEFINE set == row.diagnostics \cup {msg}
           new == note(row, msg)
<1>1. "diagnostics" \in Columns \ {"raw_fields"}
  BY DEF Columns
<1>2. new = [row EXCEPT !["diagnostics"] = set]
  BY DEF note
<1> HIDE DEF set, new
<1>3. DOMAIN row = Columns /\ IsList(row.raw_fields)
  BY DEF IsRow
<1>4. /\ new = [c \in Columns |-> new[c]] /\ new.raw_fields = row.raw_fields
      /\ \A x \in Columns \ {"diagnostics"} : new[x] = row[x]
  <2>1. "raw_fields" \in Columns /\ "raw_fields" # "diagnostics"
    BY DEF Columns
  <2> QED
    BY <2>1, <1>1, <1>2, <1>3
<1>5. IsRow(new)
  BY <1>3, <1>4 DEF IsRow
<1> QED
  BY <1>4, <1>5 DEF new

\* The columns elements are mapped to.
LEMMA MappedColumnsAre ==
  /\ MappedColumns \subseteq Columns \ {"raw_fields", "diagnostics"}
  /\ TimeColumns \subseteq FlowColumns /\ CounterColumns \subseteq FlowColumns
BY DEF MappedColumns, Columns, FlowColumns, AddressColumns, TimeColumns, CounterColumns

\* map_field keeps the draft in step with the fields.
LEMMA MapFieldStep ==
  ASSUME NEW fs \in Seq(KnownFields), NEW draft, DraftOK(draft, fs), NEW f \in KnownFields
  PROVE  DraftOK(map_field(draft, f), Append(fs, f))
<1> DEFINE new == map_field(draft, f)
           gs == Append(fs, f)
           e == ElementOf(f)
           row == draft.row
           sysup == draft.sysup
<1>1. /\ IsDraft(draft) /\ IsRow(row)
      /\ \A c \in MappedColumns : Held(row[c], fs, c)
      /\ \A c \in TimeColumns : ReadingHeld(sysup[c], fs, c)
  BY DEF DraftOK, IsDraft
<1>0. IsList(fs) /\ \A i \in DOMAIN fs : fs[i] \in KnownFields
  BY ListOf
<1>2. draft = [row |-> row,
               sysup |-> [flow_start |-> sysup.flow_start, flow_end |-> sysup.flow_end]]
  BY <1>1 DEF IsDraft
<1>3. CASE IsUptime(f)
  <2>1. e \in Elements /\ e.column \in TimeColumns
    BY <1>3, ElementOfMapped, ElementFacts DEF IsUptime
  <2>2. new = [draft EXCEPT !.sysup[e.column] = ValueOf(f)]
    BY <1>3 DEF IsUptime, map_field, MapElement, ValueOf
  <2>3. /\ new = [row |-> row, sysup |-> [flow_start |-> new.sysup.flow_start,
                                          flow_end |-> new.sysup.flow_end]]
        /\ new.sysup[e.column] = ValueOf(f)
        /\ \A c \in TimeColumns \ {e.column} : new.sysup[c] = sysup[c]
    BY <1>2, <2>1, <2>2 DEF TimeColumns
  <2>4. \A c : ~Speaks(f, c)
    BY <1>3 DEF IsUptime, Speaks
  <2> HIDE DEF new, row, sysup
  <2>5. new.row = row
    BY <2>3
  <2>6. \A c \in MappedColumns : Held(new.row[c], gs, c)
    BY <1>1, <2>4, <2>5, <1>0, HeldQuiet
  <2>7. \A c \in TimeColumns : ReadingHeld(new.sysup[c], gs, c)
    <3> SUFFICES ASSUME NEW c \in TimeColumns PROVE ReadingHeld(new.sysup[c], gs, c)
      OBVIOUS
    <3>1. CASE c = e.column
      BY <3>1, <1>3, <2>3, <1>0, ReadingTakes DEF Reads
    <3>2. CASE c # e.column
      <4>1. ~Reads(f, c) /\ new.sysup[c] = sysup[c]
        BY <3>2, <2>3 DEF Reads
      <4> QED
        BY <4>1, <1>1, <1>0, ReadingQuiet
    <3> QED
      BY <3>1, <3>2
  <2>8. IsDraft(new)
    BY <1>1, <2>3, <2>5 DEF IsDraft
  <2> QED
    BY <2>6, <2>7, <2>8 DEF DraftOK, new
<1>4. ASSUME ~IsUptime(f), NEW r, new = [draft EXCEPT !.row = r], IsRow(r),
             \A c \in MappedColumns : Held(r[c], gs, c)
      PROVE  DraftOK(new, gs)
  <2>1. new = [row |-> r, sysup |-> [flow_start |-> sysup.flow_start, flow_end |-> sysup.flow_end]]
    BY <1>2, <1>4
  <2>2. \A c \in TimeColumns : new.sysup[c] = sysup[c]
    BY <2>1 DEF TimeColumns
  <2> HIDE DEF new, sysup, row
  <2>3. \A c \in TimeColumns : ReadingHeld(new.sysup[c], gs, c)
    BY <1>1, <1>4, <2>2, <1>0, ReadingQuiet DEF Reads
  <2>4. /\ new.row = r /\ new.sysup.flow_start = sysup.flow_start
        /\ new.sysup.flow_end = sysup.flow_end
    BY <2>1
  <2> QED
    BY <1>4, <2>1, <2>3, <2>4 DEF DraftOK, IsDraft
<1>5. CASE IsMapped(f) /\ ~IsUptime(f)
  <2> DEFINE c == e.column
             v == ValueOf(f)
             r == IF Replaces(e, f, row[c], v) THEN [row EXCEPT ![c] = v] ELSE row
  <2>1. e \in Elements /\ e.how # "uptime"
    BY <1>5, ElementOfMapped DEF IsUptime
  <2>2. /\ c \in MappedColumns /\ c \in Columns \ {"raw_fields"}
        /\ e.how = "counter" <=> c \in CounterColumns
    BY <2>1, ElementFacts, MappedColumnsAre
  <2>3. new = [draft EXCEPT !.row = r]
    <3>1. new = IF Replaces(e, f, row[c], v) THEN [draft EXCEPT !.row[c] = v] ELSE draft
      BY <1>5, <2>1 DEF map_field, MapElement, ValueOf
    <3> QED
      BY <3>1, <1>2
  <2>4. IsRow(r) /\ \A x \in MappedColumns \ {c} : r[x] = row[x]
    <3>1. CASE Replaces(e, f, row[c], v)
      <4>1. r = [row EXCEPT ![c] = v] /\ IsRow(row) /\ c \in Columns \ {"raw_fields"}
        BY <3>1, <1>1, <2>2
      <4> HIDE DEF r, row, c, v
      <4>2. DOMAIN row = Columns /\ "raw_fields" \in Columns /\ IsList(row.raw_fields)
        BY <4>1 DEF IsRow, Columns
      <4>3. /\ r = [x \in Columns |-> r[x]] /\ r.raw_fields = row.raw_fields
            /\ \A x \in Columns \ {c} : r[x] = row[x]
        BY <4>1, <4>2
      <4> QED
        BY <4>2, <4>3, MappedColumnsAre DEF IsRow
    <3> QED
      BY <3>1, <1>1
  <2>5. r[c] = IF Replaces(e, f, row[c], v) THEN v ELSE row[c]
    <3>1. [row EXCEPT ![c] = v][c] = v
      BY <1>1, <2>2 DEF IsRow
    <3> QED
      BY <3>1
  <2> HIDE DEF r
  <2>6. ASSUME NEW x \in MappedColumns \ {c} PROVE Held(r[x], gs, x)
    <3>1. ~Speaks(f, x) /\ r[x] = row[x]
      BY <2>4, <2>6 DEF Speaks
    <3> QED
      BY <3>1, <1>1, <1>0, HeldQuiet
  <2>7. Held(r[c], gs, c)
    <3>1. CASE ~Speaks(f, c)
      <4>1. r[c] = row[c]
        BY <3>1, <1>5, <2>5, UnspokenValue DEF Replaces
      <4> QED
        BY <4>1, <3>1, <1>1, <2>2, <1>0, HeldQuiet
    <3>2. CASE Speaks(f, c) /\ c \notin CounterColumns
      <4>1. v # None
        BY <3>2, SpokenValue
      <4>2. r[c] = v
        BY <4>1, <3>2, <2>2, <2>5 DEF Replaces
      <4> QED
        BY <4>2, <3>2, <1>0, HeldTakes
    <3>3. CASE Speaks(f, c) /\ c \in CounterColumns
      <4>1. Replaces(e, f, row[c], v) <=> row[c] = None \/ Preferred(f)
        BY <3>3, <2>2 DEF Replaces, Preferred
      <4>2. CASE Preferred(f)
        BY <4>1, <4>2, <3>3, <2>5, <1>0, HeldTakes
      <4>3. CASE ~Preferred(f) /\ Silent(fs, c)
        <5>1. row[c] = None
          BY <4>3, <1>1, <2>2 DEF Held, Silent, Wins
        <5> QED
          BY <5>1, <4>1, <4>3, <3>3, <2>5, <1>0, HeldTakes
      <4>4. CASE ~Preferred(f) /\ ~Silent(fs, c)
        <5>1. Held(row[c], fs, c)
          BY <1>1, <2>2
        <5>2. PICK i \in DOMAIN fs : Wins(fs, c, i) /\ row[c] = ValueOf(fs[i])
          BY <5>1, <4>4 DEF Held
        <5>3. row[c] # None
          BY <5>2, <1>0, SpokenValue DEF Wins
        <5> QED
          BY <5>1, <5>3, <4>1, <4>4, <3>3, <2>5, <1>0, HeldKeeps
      <4> QED
        BY <4>2, <4>3, <4>4
    <3> QED
      BY <3>1, <3>2, <3>3
  <2>8. \A x \in MappedColumns : Held(r[x], gs, x)
    BY <2>6, <2>7
  <2> HIDE DEF new, gs
  <2> QED
    BY <1>4, <1>5, <2>3, <2>4, <2>8 DEF new, gs
<1>6. CASE ~IsMapped(f)
  <2> DEFINE noted == IF f.enterprise = 0 \/ f.known THEN row ELSE note(row, "enterprise-unmapped")
             r == put_raw(noted, <<f.enterprise, f.ie>>, f.bytes)
  <2>1. new = [draft EXCEPT !.row = r]
    BY <1>6, <1>2 DEF map_field
  <2>2. IsRow(noted) /\ \A x \in MappedColumns : noted[x] = row[x]
    BY <1>1, NoteRow, MappedColumnsAre
  <2> HIDE DEF noted
  <2>3. IsRow(r) /\ \A x \in MappedColumns : r[x] = row[x]
    BY <2>2, PutRaw, MappedColumnsAre
  <2> HIDE DEF r
  <2>4. \A c : ~Speaks(f, c)
    BY <1>6 DEF Speaks
  <2>5. \A x \in MappedColumns : Held(r[x], gs, x)
    BY <1>1, <2>3, <2>4, <1>0, HeldQuiet
  <2>6. ~IsUptime(f)
    BY <1>6 DEF IsUptime
  <2> HIDE DEF new, gs
  <2> QED
    BY <1>4, <2>1, <2>3, <2>5, <2>6 DEF new, gs
<1> QED
  BY <1>3, <1>5, <1>6 DEF IsUptime

-----------------------------------------------------------------------------
(* What the finished row of a record holds.                                *)

LEMMA MaxIs ==
  ASSUME NEW S \in SUBSET Int, NEW x \in S, \A y \in S : y <= x
  PROVE  Max(S) = x
<1> DEFINE P(z) == \A y \in S : z >= y
           m == CHOOSE z \in S : P(z)
<1>1. x \in S /\ P(x)
  OBVIOUS
<1> HIDE DEF P
<1>2. m \in S /\ P(m)
  BY <1>1
<1>3. Max(S) = m
  BY DEF Max, P
<1> HIDE DEF m
<1>4. m >= x /\ m <= x /\ m \in Int /\ x \in Int
  BY <1>2 DEF P
<1> QED
  BY <1>3, <1>4

LEMMA MinIs ==
  ASSUME NEW S \in SUBSET Int, NEW x \in S, \A y \in S : x <= y
  PROVE  Min(S) = x
<1> DEFINE P(z) == \A y \in S : z <= y
           m == CHOOSE z \in S : P(z)
<1>1. x \in S /\ P(x)
  OBVIOUS
<1> HIDE DEF P
<1>2. m \in S /\ P(m)
  BY <1>1
<1>3. Min(S) = m
  BY DEF Min, P
<1> HIDE DEF m
<1>4. m >= x /\ m <= x /\ m \in Int /\ x \in Int
  BY <1>2 DEF P
<1> QED
  BY <1>3, <1>4

LEMMA CandidatesAre ==
  ASSUME NEW from, NEW c
  PROVE  Candidates(from, c) = {i \in DOMAIN from.fields : Speaks(from.fields[i], c)}
<1>1. ASSUME NEW i \in DOMAIN from.fields
      PROVE  i \in Candidates(from, c) <=> Speaks(from.fields[i], c)
  BY DEF Candidates, Speaks
<1>2. Candidates(from, c) \subseteq DOMAIN from.fields
  BY DEF Candidates
<1> QED
  BY <1>1, <1>2

\* The field that has the say is the one the property names.
LEMMA WinnerIs ==
  ASSUME NEW from, from.fields \in Seq(KnownFields), NEW c, NEW i, Wins(from.fields, c, i)
  PROVE  Winner(from, c) = i
<1> DEFINE fs == from.fields
           all == Candidates(from, c)
           preferred == {j \in all : fs[j].ie = ElementOf(fs[j]).arg}
<1>1. all = {j \in DOMAIN fs : Speaks(fs[j], c)} /\ all \in SUBSET Int /\ i \in all
  <2>1. all = {j \in DOMAIN fs : Speaks(fs[j], c)}
    BY CandidatesAre
  <2>2. DOMAIN fs \subseteq Int
    OBVIOUS
  <2> QED
    BY <2>1, <2>2 DEF Wins
<1>2. Winner(from, c) = IF c \in {"bytes", "packets"}
                        THEN IF preferred # {} THEN Max(preferred) ELSE Min(all)
                        ELSE Max(all)
  BY DEF Winner
<1>3. preferred = {j \in all : Preferred(fs[j])}
  BY DEF Preferred
<1> HIDE DEF all, preferred
<1>4. CASE c \notin CounterColumns
  <2>1. \A j \in all : j <= i
    BY <1>1, <1>4 DEF Wins
  <2> QED
    BY <2>1, <1>1, <1>2, <1>4, MaxIs DEF CounterColumns
<1>5. CASE c \in CounterColumns /\ Preferred(fs[i])
  <2>1. i \in preferred /\ preferred \in SUBSET Int
    BY <1>1, <1>3, <1>5
  <2>2. \A j \in preferred : j <= i
    BY <1>1, <1>3, <1>5 DEF Wins
  <2> QED
    BY <2>1, <2>2, <1>2, <1>5, MaxIs DEF CounterColumns
<1>6. CASE c \in CounterColumns /\ ~Preferred(fs[i])
  <2>1. \A j \in all : ~Preferred(fs[j]) /\ i <= j
    BY <1>1, <1>6 DEF Wins
  <2>2. preferred = {}
    BY <2>1, <1>3
  <2> QED
    BY <2>1, <2>2, <1>1, <1>2, <1>6, MinIs DEF CounterColumns
<1> QED
  BY <1>4, <1>5, <1>6

RecordEntry(r) ==
  /\ r.from.device \in Devices /\ r.from.fields \in Seq(KnownFields)
  /\ \E version \in {"9", "10"} : r.from.header = Header(version, r.from.device)
  /\ \E draft : /\ DraftOK(draft, r.from.fields)
                /\ r.row = resolve_times(draft, r.from.header.export, r.from.header.uptime)

\* Export time and uptime of a header, and what the header's seconds lose.
LEMMA HeaderFacts ==
  ASSUME NEW version, NEW device \in Devices
  PROVE  LET header == Header(version, device) IN
         /\ device.boot \in Nat /\ device.up \in Nat
         /\ header.export \in Int
         /\ Now(device) - header.export \in 0 .. Micros - 1
         /\ header.uptime = IF version = "10" THEN None ELSE device.up % U32
<1> DEFINE now == Now(device)
<1>1. device.boot \in Nat /\ device.up \in Nat /\ Millis \in Nat /\ Micros \in Nat \ {0}
  BY RowsAssumption, UnitsAssumption
<1>2. now \in Int
  BY <1>1 DEF Now
<1> HIDE DEF now
<1>3. /\ (now \div Micros) * Micros \in Int
      /\ now - (now \div Micros) * Micros \in 0 .. Micros - 1
      /\ now - now \in 0 .. Micros - 1
  <2>1. /\ now \div Micros \in Int /\ now % Micros \in 0 .. Micros - 1
        /\ now = Micros * (now \div Micros) + (now % Micros)
    BY <1>1, <1>2, Division
  <2>2. Micros * (now \div Micros) = (now \div Micros) * Micros
    BY <1>1, <2>1
  <2> QED
    BY <2>1, <2>2, <1>1, <1>2
<1> QED
  BY <1>1, <1>2, <1>3 DEF Header, now

LEMMA RecordRow ==
  ASSUME NEW r, RecordEntry(r)
  PROVE  LET fs == r.from.fields
             header == r.from.header
         IN  /\ IsRow(r.row)
             /\ \A c \in MappedColumns \ TimeColumns : Held(r.row[c], fs, c)
             /\ \A c \in TimeColumns :
                  /\ ~Silent(fs, c) => Held(r.row[c], fs, c)
                  /\ Silent(fs, c) =>
                       \E v : /\ ReadingHeld(v, fs, c)
                              /\ r.row[c] = IF header.uptime = None \/ v = None THEN None
                                            ELSE FromUptime(header.export, header.uptime, v)
<1> DEFINE fs == r.from.fields
           header == r.from.header
<1>1. PICK draft : DraftOK(draft, fs) /\ r.row = resolve_times(draft, header.export, header.uptime)
  BY DEF RecordEntry
<1>2. header.export # None
  BY HeaderFacts, NoneAssumption DEF RecordEntry
<1>3. /\ IsRow(draft.row) /\ fs \in Seq(KnownFields)
      /\ \A c \in MappedColumns : Held(draft.row[c], fs, c)
      /\ \A c \in TimeColumns : ReadingHeld(draft.sysup[c], fs, c)
  BY <1>1 DEF DraftOK, IsDraft, RecordEntry
<1> HIDE DEF header, fs
<1>4. r.row = [c \in Columns |->
                 IF /\ c \in TimeColumns /\ header.uptime # None
                    /\ draft.row[c] = None /\ draft.sysup[c] # None
                 THEN FromUptime(header.export, header.uptime, draft.sysup[c])
                 ELSE draft.row[c]]
  <2>1. CASE header.uptime = None
    <3>1. r.row = draft.row
      BY <1>1, <1>2, <2>1 DEF resolve_times
    <3>2. draft.row = [c \in Columns |-> draft.row[c]]
      BY <1>3 DEF IsRow
    <3> QED
      BY <3>1, <3>2, <2>1
  <2>2. CASE header.uptime # None
    BY <1>1, <1>2, <2>2 DEF resolve_times, TimeColumns
  <2> QED
    BY <2>1, <2>2
<1>5. IsRow(r.row)
  <2>1. r.row.raw_fields = draft.row.raw_fields
    <3>1. "raw_fields" \in Columns /\ "raw_fields" \notin TimeColumns
      BY DEF TimeColumns, Columns
    <3> QED
      BY <3>1, <1>4
  <2>2. r.row = [c \in Columns |-> r.row[c]]
    BY <1>4
  <2> QED
    BY <2>1, <2>2, <1>3 DEF IsRow
<1>6. ASSUME NEW c \in MappedColumns \ TimeColumns PROVE Held(r.row[c], fs, c)
  <2>1. r.row[c] = draft.row[c]
    BY <1>4, MappedColumnsAre
  <2> QED
    BY <2>1, <1>3
<1>7. ASSUME NEW c \in TimeColumns
      PROVE  /\ ~Silent(fs, c) => Held(r.row[c], fs, c)
             /\ Silent(fs, c) =>
                  \E v : /\ ReadingHeld(v, fs, c)
                         /\ r.row[c] = IF header.uptime = None \/ v = None THEN None
                                       ELSE FromUptime(header.export, header.uptime, v)
  <2>1. c \in MappedColumns /\ c \in Columns
    BY MappedColumnsAre DEF MappedColumns
  <2>2. Held(draft.row[c], fs, c) /\ ReadingHeld(draft.sysup[c], fs, c)
    BY <2>1, <1>3
  <2>3. r.row[c] = IF header.uptime # None /\ draft.row[c] = None /\ draft.sysup[c] # None
                   THEN FromUptime(header.export, header.uptime, draft.sysup[c])
                   ELSE draft.row[c]
    BY <1>4, <2>1
  <2>4. CASE ~Silent(fs, c)
    <3>1. PICK i \in DOMAIN fs : Wins(fs, c, i) /\ draft.row[c] = ValueOf(fs[i])
      BY <2>2, <2>4 DEF Held
    <3>2. fs[i] \in KnownFields
      BY <1>3, ListOf
    <3>3. draft.row[c] # None
      BY <3>1, <3>2, SpokenValue DEF Wins
    <3> QED
      BY <3>3, <2>2, <2>3, <2>4
  <2>5. CASE Silent(fs, c)
    <3>1. draft.row[c] = None
      BY <2>2, <2>5 DEF Held, Silent, Wins
    <3> QED
      BY <3>1, <2>2, <2>3, <2>5
  <2> QED
    BY <2>4, <2>5
<1> QED
  BY <1>5, <1>6, <1>7 DEF fs, header

\* The column holds what its winner says.
WinnerHeld(r, c) ==
  IF Candidates(r.from, c) = {}
  THEN c \in {"flow_start", "flow_end"} \/ r.row[c] = None
  ELSE LET f == r.from.fields[Winner(r.from, c)] IN
       IF c \in AddressColumns
       THEN /\ r.row[c].ip_type = IF f.bytes.len = 4 THEN 1 ELSE 2
            /\ to_ip(r.row[c]) = f.bytes.val
       ELSE HasRoom(f) => r.row[c] = Meaning(f)

LEMMA RecordColumn ==
  ASSUME NEW r, RecordEntry(r), NEW c \in MappedColumns
  PROVE  /\ WinnerHeld(r, c)
         /\ c \in FlowColumns \ TimeColumns => r.row[c] = None \/ r.row[c] \in 0 .. Limit(c) - 1
         /\ c \in AddressColumns /\ r.row[c] # None =>
              /\ r.row[c].ip_type \in {1, 2}
              /\ r.row[c].ip_type = 2 =>
                   /\ r.from.fields[Winner(r.from, c)].bytes.val \in Int
                   /\ r.row[c].address =
                        r.from.fields[Winner(r.from, c)].bytes.val - (U128 \div 2)
<1> DEFINE fs == r.from.fields
<1>0. fs \in Seq(KnownFields) /\ Candidates(r.from, c) = {i \in DOMAIN fs : Speaks(fs[i], c)}
  BY CandidatesAre DEF RecordEntry
<1>1. CASE Silent(fs, c)
  <2>1. Candidates(r.from, c) = {}
    BY <1>0, <1>1 DEF Silent
  <2>2. c \notin TimeColumns => Held(r.row[c], fs, c)
    BY RecordRow
  <2>3. c \notin TimeColumns => r.row[c] = None
    BY <1>1, <2>2 DEF Held, Silent, Wins
  <2>4. FlowColumns \cap AddressColumns = {} /\ TimeColumns \cap AddressColumns = {}
    BY DEF FlowColumns, AddressColumns, TimeColumns
  <2> QED
    BY <2>1, <2>3, <2>4 DEF WinnerHeld, TimeColumns
<1>2. CASE ~Silent(fs, c)
  <2>1. Held(r.row[c], fs, c)
    BY <1>2, RecordRow
  <2>2. PICK i \in DOMAIN fs : Wins(fs, c, i) /\ r.row[c] = ValueOf(fs[i])
    BY <2>1, <1>2 DEF Held
  <2>3. Winner(r.from, c) = i /\ fs[i] \in KnownFields /\ Speaks(fs[i], c)
    BY <2>2, <1>0, WinnerIs, ListOf DEF Wins
  <2>4. Candidates(r.from, c) # {}
    BY <2>3, <1>0
  <2>5. /\ c \in AddressColumns =>
             /\ ValueOf(fs[i]) \in [ip_type : {1, 2}, address : Int, mask : Int]
             /\ ValueOf(fs[i]).ip_type = IF fs[i].bytes.len = 4 THEN 1 ELSE 2
             /\ fs[i].bytes.len # 4 => ValueOf(fs[i]).address = fs[i].bytes.val - (U128 \div 2)
             /\ to_ip(ValueOf(fs[i])) = fs[i].bytes.val
        /\ c \in FlowColumns \ TimeColumns => ValueOf(fs[i]) \in 0 .. Limit(c) - 1
        /\ c \in FlowColumns /\ HasRoom(fs[i]) => ValueOf(fs[i]) = Meaning(fs[i])
    BY <2>3, SpokenValue
  <2>6. fs[i].bytes.val \in Int
    BY <2>3, FieldFacts
  <2>7. c \in AddressColumns \/ c \in FlowColumns
    BY DEF MappedColumns
  <2>8. WinnerHeld(r, c)
    BY <2>2, <2>3, <2>4, <2>5, <2>7 DEF WinnerHeld
  <2> QED
    BY <2>2, <2>3, <2>5, <2>6, <2>8
<1> QED
  BY <1>1, <1>2

\* The wall-clock time of a reading, from counters that wrap.
LEMMA UptimeArithmetic ==
  ASSUME NEW device \in Devices, NEW export \in Int, NEW reading \in Nat
  PROVE  LET real == device.boot + reading * Millis
             lost == Now(device) - export
             wraps == (device.up \div U32) - (reading \div U32)
         IN  FromUptime(export, device.up % U32, reading % U32)
               = real - lost + wraps * U32 * Millis
<1> DEFINE up == device.up
           q == up \div U32
           u == up % U32
           p == reading \div U32
           v == reading % U32
<1>1. /\ device.boot \in Nat /\ up \in Nat /\ Millis \in Nat /\ U32 \in Nat \ {0}
  BY RowsAssumption, UnitsAssumption, WordSizes
<1>0. ASSUME NEW n \in Nat
      PROVE  n \div U32 \in Int /\ n % U32 \in Int /\ n = U32 * (n \div U32) + (n % U32)
  <2>1. U32 \in Nat \ {0} /\ n \in Int
    BY <1>1
  <2>2. n \div U32 \in Int /\ n % U32 \in 0 .. U32 - 1 /\ n = U32 * (n \div U32) + (n % U32)
    BY <2>1, Division
  <2> QED
    BY <2>1, <2>2
<1>2. /\ q \in Int /\ u \in Int /\ up = U32 * q + u
  BY <1>0, <1>1
<1>3. /\ p \in Int /\ v \in Int /\ reading = U32 * p + v
  BY <1>0
<1> HIDE DEF q, u, p, v, up
<1>4. (q - p) * U32 * Millis = (U32 * q) * Millis - (U32 * p) * Millis
  <2>1. (q - p) * U32 = U32 * q - U32 * p
    BY <1>1, <1>2, <1>3
  <2>2. \A a, b \in Int : (a - b) * Millis = a * Millis - b * Millis
    BY <1>1
  <2>3. U32 * q \in Int /\ U32 * p \in Int
    BY <1>1, <1>2, <1>3
  <2> QED
    BY <2>1, <2>2, <2>3
<1>5. /\ up * Millis = (U32 * q) * Millis + u * Millis
      /\ reading * Millis = (U32 * p) * Millis + v * Millis
  BY <1>1, <1>2, <1>3
<1>6. /\ (U32 * q) * Millis \in Int /\ (U32 * p) * Millis \in Int
      /\ u * Millis \in Int /\ v * Millis \in Int /\ up * Millis \in Int /\ reading * Millis \in Int
  BY <1>1, <1>2, <1>3
<1>7. export - u * Millis + v * Millis
        = (device.boot + reading * Millis) - ((device.boot + up * Millis) - export)
            + ((U32 * q) * Millis - (U32 * p) * Millis)
  <2>1. \A boot, a, b, x, y, s, t \in Int :
          s = a + x /\ t = b + y =>
            export - x + y = (boot + t) - ((boot + s) - export) + (a - b)
    OBVIOUS
  <2>2. device.boot \in Int
    BY <1>1
  <2> QED
    BY <2>1, <2>2, <1>5, <1>6
<1>8. FromUptime(export, u, v) = export - u * Millis + v * Millis
  BY DEF FromUptime
<1>9. Now(device) = device.boot + up * Millis
  BY DEF Now, up
<1>10. FromUptime(export, u, v)
         = (device.boot + reading * Millis) - (Now(device) - export) + (q - p) * U32 * Millis
  BY <1>4, <1>7, <1>8, <1>9
<1> QED
  BY <1>10 DEF q, u, p, v, up

\* A time of a row and the device's reading behind it.
TimeIsReal(r, c, reading) ==
  LET device == r.from.device
      real == device.boot + reading * Millis
      lost == Now(device) - r.from.header.export
      wraps == (device.up \div U32) - (reading \div U32)
  IN  IF r.from.header.uptime = None THEN r.row[c] = None
      ELSE /\ r.row[c] = real - lost + wraps * U32 * Millis
           /\ lost \in 0 .. Micros - 1

LEMMA RecordTime ==
  ASSUME NEW r, RecordEntry(r), r.from.is = "record", NEW c \in TimeColumns,
         NEW reading \in ReadingsOf(r, c)
  PROVE  TimeIsReal(r, c, reading)
<1> DEFINE fs == r.from.fields
           header == r.from.header
           device == r.from.device
           mine == {i \in DOMAIN fs : Reads(fs[i], c)}
<1>0. fs \in Seq(KnownFields) /\ device \in Devices
  BY DEF RecordEntry
<1>1. Silent(fs, c) /\ mine # {} /\ reading = fs[Max(mine)].reading
  <2>1. Candidates(r.from, c) = {}
    BY DEF ReadingsOf
  <2>2. Silent(fs, c)
    BY <2>1, CandidatesAre DEF Silent
  <2>3. mine = {i \in DOMAIN fs :
                  LET f == fs[i] IN
                  IsMapped(f) /\ ElementOf(f).column = c /\ ElementOf(f).how = "uptime"}
    BY DEF Reads, IsUptime
  <2>4. ReadingsOf(r, c) = IF mine = {} THEN {} ELSE {fs[Max(mine)].reading}
    BY <2>1, <2>3 DEF ReadingsOf
  <2> QED
    BY <2>2, <2>4
<1>2. PICK v : /\ ReadingHeld(v, fs, c)
               /\ r.row[c] = IF header.uptime = None \/ v = None THEN None
                             ELSE FromUptime(header.export, header.uptime, v)
  <2>1. \A d \in TimeColumns : Silent(fs, d) =>
          \E v : /\ ReadingHeld(v, fs, d)
                 /\ r.row[d] = IF header.uptime = None \/ v = None THEN None
                               ELSE FromUptime(header.export, header.uptime, v)
    BY RecordRow
  <2> HIDE DEF fs, header
  <2> QED
    BY <2>1, <1>1, Zenon
<1>3. PICK i \in DOMAIN fs : /\ Reads(fs[i], c) /\ v = ValueOf(fs[i])
                             /\ \A j \in DOMAIN fs : Reads(fs[j], c) => j <= i
  BY <1>1, <1>2 DEF ReadingHeld
<1>4. Max(mine) = i
  <2>1. mine \in SUBSET Int /\ i \in mine /\ \A j \in mine : j <= i
    BY <1>0, <1>3
  <2> HIDE DEF mine
  <2> QED
    BY <2>1, MaxIs
<1>5. reading \in Nat /\ v = reading % U32 /\ v # None
  <2>1. fs[i] \in KnownFields /\ IsUptime(fs[i])
    BY <1>0, <1>3, ListOf DEF Reads
  <2>2. reading \in Nat /\ v = reading % U32
    BY <2>1, <1>1, <1>3, <1>4, FieldFacts
  <2>3. v \in Int
    BY <2>2, WordSizes, Division
  <2> QED
    BY <2>2, <2>3, NoneAssumption
<1>6. PICK version \in {"9", "10"} : header = Header(version, device)
  BY DEF RecordEntry
<1>7. /\ header.export \in Int /\ Now(device) - header.export \in 0 .. Micros - 1
      /\ header.uptime = IF version = "10" THEN None ELSE device.up % U32
  <2>1. LET head == Header(version, device) IN
        /\ head.export \in Int /\ Now(device) - head.export \in 0 .. Micros - 1
        /\ head.uptime = IF version = "10" THEN None ELSE device.up % U32
    BY <1>0, HeaderFacts
  <2> HIDE DEF header, device
  <2> QED
    BY <2>1, <1>6
<1> HIDE DEF header, device
<1>8. CASE header.uptime = None
  <2>1. r.row[c] = None
    BY <1>2, <1>8
  <2> QED
    BY <2>1, <1>8 DEF TimeIsReal, header
<1>9. CASE header.uptime # None
  <2>1. r.row[c] = FromUptime(header.export, device.up % U32, reading % U32)
    BY <1>2, <1>5, <1>7, <1>9
  <2> QED
    BY <2>1, <1>0, <1>5, <1>7, <1>9, UptimeArithmetic DEF TimeIsReal, header, device
<1> QED
  BY <1>8, <1>9

-----------------------------------------------------------------------------
(* Rows that start from a header, and the rows of v5 records.              *)

LEMMA EmptyList == IsList(<<>>)
BY DEF IsList, Range

LEMMA DefaultIsRow ==
  /\ IsRow(DefaultRow) /\ DefaultRow.raw_fields = <<>>
  /\ \A c \in MappedColumns : DefaultRow[c] = None
<1>1. "raw_fields" \in Columns
  BY DEF Columns
<1>2. DefaultRow.raw_fields = <<>>
  BY <1>1 DEF DefaultRow
<1>3. DefaultRow = [c \in Columns |-> DefaultRow[c]]
  BY DEF DefaultRow
<1>4. \A c \in MappedColumns : DefaultRow[c] = None
  BY MappedColumnsAre DEF DefaultRow
<1> QED
  BY <1>2, <1>3, <1>4, EmptyList DEF IsRow

LEMMA HeaderIsRow ==
  ASSUME NEW header
  PROVE  /\ IsRow(HeaderRow(header)) /\ \A c \in MappedColumns : HeaderRow(header)[c] = None
         /\ HeaderRow(header).raw_fields = <<>>
<1> DEFINE row == HeaderRow(header)
           version == header.flow_version
           export == header.export
<1>1. /\ DOMAIN DefaultRow = Columns /\ DefaultRow.raw_fields = <<>>
      /\ \A c \in MappedColumns : DefaultRow[c] = None
  BY DefaultIsRow DEF IsRow
<1>2. "raw_fields" \in Columns /\ MappedColumns \subseteq Columns
  BY MappedColumnsAre DEF Columns
<1>3. MappedColumns \cap HeaderColumns = {} /\ "raw_fields" \notin HeaderColumns
  BY DEF MappedColumns, FlowColumns, AddressColumns, HeaderColumns
<1>4. row = [DefaultRow EXCEPT !.exporter = "r1", !.flow_version = version,
                     !.obs_domain = 0, !.export_time = export, !.sequence = 1]
  BY DEF HeaderRow
<1> HIDE DEF row, version, export
<1>5. DOMAIN row = Columns /\ row = [c \in Columns |-> row[c]]
  BY <1>1, <1>4
<1>6. \A c \in Columns \ HeaderColumns : row[c] = DefaultRow[c]
  BY <1>1, <1>4 DEF HeaderColumns
<1>7. row.raw_fields = <<>> /\ \A c \in MappedColumns : row[c] = None
  BY <1>1, <1>2, <1>3, <1>6
<1> QED
  BY <1>5, <1>7, EmptyList DEF IsRow, row

V5Entry(r) ==
  \E device \in Devices, first, last \in Readings :
    LET header == Header("5", device) IN
    /\ r.from = [is |-> "v5", device |-> device, header |-> header,
                 readings |-> [flow_start |-> first, flow_end |-> last]]
    /\ r.row = decode_record(header, first % U32, last % U32)

\* The columns a v5 record does not have a word for.
LEMMA V5Silent ==
  \A i \in DOMAIN V5Words : V5Words[i][1] \notin {"flow_start", "flow_end", "raw_fields"}
BY DEF V5Words

LEMMA V5Row ==
  ASSUME NEW r, V5Entry(r)
  PROVE  IsRow(r.row) /\ \A c \in TimeColumns : \A reading \in ReadingsOf(r, c) :
                           TimeIsReal(r, c, reading)
<1>1. PICK device \in Devices, first \in Readings, last \in Readings :
        /\ r.from = [is |-> "v5", device |-> device, header |-> Header("5", device),
                     readings |-> [flow_start |-> first, flow_end |-> last]]
        /\ r.row = decode_record(Header("5", device), first % U32, last % U32)
  BY DEF V5Entry
<1> DEFINE header == Header("5", device)
           names == {V5Words[i][1] : i \in DOMAIN V5Words} \cap Columns
           boot == header.export - header.uptime * Millis
<1>2. /\ header.export \in Int /\ Now(device) - header.export \in 0 .. Micros - 1
      /\ header.uptime = device.up % U32
  BY HeaderFacts
<1>3. header.uptime # None /\ header.uptime \in Int
  <2>1. device.up \in Int /\ U32 \in Nat \ {0}
    BY RowsAssumption, WordSizes
  <2>2. device.up % U32 \in Int
    BY <2>1, Division
  <2> QED
    BY <1>2, <2>2, NoneAssumption
<1>4. \A c \in {"flow_start", "flow_end", "raw_fields"} : c \notin names /\ c \in Columns
  BY V5Silent DEF Columns, FlowColumns
<1>5. r.row = [c \in Columns |->
                 CASE c \in names -> V5Value(c)
                   [] c = "flow_start" -> boot + (first % U32) * Millis
                   [] c = "flow_end" -> boot + (last % U32) * Millis
                   [] OTHER -> HeaderRow(header)[c]]
  BY <1>1 DEF decode_record
<1> HIDE DEF names, header, boot
<1>6. /\ r.row.flow_start = boot + (first % U32) * Millis
      /\ r.row.flow_end = boot + (last % U32) * Millis
      /\ r.row.raw_fields = HeaderRow(header).raw_fields
      /\ r.row = [c \in Columns |-> r.row[c]]
  BY <1>4, <1>5
<1>7. IsRow(r.row)
  BY <1>6, HeaderIsRow DEF IsRow
<1>8. ASSUME NEW c \in TimeColumns, NEW reading \in Readings,
             r.row[c] = boot + (reading % U32) * Millis
      PROVE  TimeIsReal(r, c, reading)
  <2>1. reading \in Nat
    BY RowsAssumption
  <2>2. r.row[c] = FromUptime(header.export, device.up % U32, reading % U32)
    BY <1>2, <1>8 DEF boot, FromUptime
  <2>3. r.from.device = device /\ r.from.header = header
    BY <1>1 DEF header
  <2>4. r.row[c] = (device.boot + reading * Millis) - (Now(device) - header.export)
                     + ((device.up \div U32) - (reading \div U32)) * U32 * Millis
    BY <2>1, <2>2, <1>2, UptimeArithmetic
  <2> QED
    BY <2>3, <2>4, <1>2, <1>3 DEF TimeIsReal
<1>9. ASSUME NEW c \in TimeColumns, NEW reading \in ReadingsOf(r, c)
      PROVE  TimeIsReal(r, c, reading)
  <2>1. reading = r.from.readings[c]
    BY <1>1 DEF ReadingsOf
  <2>2. CASE c = "flow_start"
    <3>1. reading = first
      BY <2>1, <2>2, <1>1
    <3> QED
      BY <3>1, <2>2, <1>6, <1>8
  <2>3. CASE c = "flow_end"
    <3>1. reading = last
      BY <2>1, <2>3, <1>1
    <3> QED
      BY <3>1, <2>3, <1>6, <1>8
  <2> QED
    BY <2>2, <2>3 DEF TimeColumns
<1> QED
  BY <1>7, <1>9

-----------------------------------------------------------------------------
(* The rows of sFlow samples: what the records counted.                    *)

\* The packet parsers leave the counts, and what was scaled, alone.
LinkColumns == {"next_hop", "input_snmp", "output_snmp"}
KeptByParsers == {"raw_fields", "bytes", "packets", "sampling_rate"} \cup LinkColumns

Keeps(new, row) == IsRow(new) /\ \A c \in KeptByParsers : new[c] = row[c]

LEMMA KeptColumns == KeptByParsers \subseteq Columns
BY DEF KeptByParsers, LinkColumns, Columns, FlowColumns, AddressColumns

\* A row that differs in no kept column.
LEMMA KeepsRow ==
  ASSUME NEW row, IsRow(row), NEW new, new = [c \in Columns |-> new[c]],
         \A c \in KeptByParsers : new[c] = row[c]
  PROVE  Keeps(new, row)
<1>1. new.raw_fields = row.raw_fields
  BY DEF KeptByParsers, LinkColumns
<1> QED
  BY <1>1 DEF Keeps, IsRow

LEMMA KeepsOn ==
  ASSUME NEW row, NEW mid, Keeps(mid, row), NEW new, Keeps(new, mid)
  PROVE  Keeps(new, row)
BY DEF Keeps

LEMMA parse_l4_Keeps ==
  ASSUME NEW row, IsRow(row), NEW k, NEW c, NEW proto
  PROVE  Keeps(parse_l4(row, k, c, proto), row)
<1> DEFINE a == WordOrZero(k, c, 2)
           b == WordOrZero(k, c \odot Skip(2), 2)
           d == WordOrZero(k, c \odot Skip(2) \odot Skip(2) \odot Skip(8) \odot Skip(1), 1)
           ported == [row EXCEPT !.src_port = a, !.dst_port = b]
           flagged == [ported EXCEPT !.tcp_flags = d]
<1>1. parse_l4(row, k, c, proto) \in {flagged, ported, row}
  BY DEF parse_l4
<1>2. DOMAIN row = Columns /\ KeptByParsers \subseteq Columns
  BY KeptColumns DEF IsRow
<1> HIDE DEF a, b, d
<1>3. /\ ported = [x \in Columns |-> ported[x]] /\ DOMAIN ported = Columns
      /\ \A x \in KeptByParsers : ported[x] = row[x]
  BY <1>2 DEF KeptByParsers, LinkColumns
<1> HIDE DEF ported
<1>4. /\ flagged = [x \in Columns |-> flagged[x]]
      /\ \A x \in KeptByParsers : flagged[x] = row[x]
  BY <1>2, <1>3 DEF KeptByParsers, LinkColumns
<1> HIDE DEF flagged
<1>5. Keeps(ported, row) /\ Keeps(flagged, row) /\ Keeps(row, row)
  BY <1>3, <1>4, KeepsRow DEF Keeps
<1> QED
  BY <1>1, <1>5

LEMMA parse_ipv4_Keeps ==
  ASSUME NEW row, IsRow(row), NEW k, NEW c, NEW packet
  PROVE  Keeps(parse_ipv4(row, k, c, packet), row)
<1> DEFINE c1 == c \odot Read(1) \odot Read(1)
           c2 == c1 \odot Skip(2) \odot Skip(2) \odot Skip(2) \odot Skip(1)
           c3 == c2 \odot Skip(1) \odot Skip(2)
           c4 == c3 \odot Skip(4)
           c5 == c4 \odot Skip(4)
           c6 == IF packet.ihl > 5 THEN c5 \odot Skip(4 * packet.ihl - 20) ELSE c5
           p == ProtocolAt(packet, c2, c.pos + 9)
           s == inet4(BytesOrEmpty(k, c3, 4))
           d == inet4(BytesOrEmpty(k, c4, 4))
           w == WordOrZero(k, c2, 1)
           t == Mark(k, c.pos + 1)
           new == [row EXCEPT !.src_addr = s, !.dst_addr = d, !.protocol = w, !.tos = t]
<1>1. parse_ipv4(row, k, c, packet) = IF c1.ok THEN parse_l4(new, k, c6, p) ELSE row
  BY DEF parse_ipv4
<1>2. DOMAIN row = Columns /\ KeptByParsers \subseteq Columns
  BY KeptColumns DEF IsRow
<1> HIDE DEF c1, c6, p, s, d, w, t
<1>3. /\ new = [x \in Columns |-> new[x]]
      /\ \A x \in KeptByParsers : new[x] = row[x]
  BY <1>2 DEF KeptByParsers, LinkColumns
<1> HIDE DEF new
<1>4. Keeps(new, row) /\ IsRow(new) /\ Keeps(row, row)
  BY <1>3, KeepsRow DEF Keeps
<1>5. Keeps(parse_l4(new, k, c6, p), row)
  BY <1>4, parse_l4_Keeps, KeepsOn
<1> QED
  BY <1>1, <1>4, <1>5

LEMMA parse_ipv6_Keeps ==
  ASSUME NEW row, IsRow(row), NEW k, NEW c, NEW packet
  PROVE  Keeps(parse_ipv6(row, k, c, packet), row)
<1> DEFINE c1 == c \odot Read(4)
           c2 == c1 \odot Skip(2)
           c3 == c2 \odot Skip(1) \odot Skip(1)
           c4 == c3 \odot Skip(16)
           c5 == c4 \odot Skip(16)
           p == ProtocolAt(packet, c2, c.pos + 6)
           s == inet6(BytesOrEmpty(k, c3, 16))
           d == inet6(BytesOrEmpty(k, c4, 16))
           w == WordOrZero(k, c2, 1)
           new == [row EXCEPT !.src_addr = s, !.dst_addr = d, !.protocol = w]
<1>1. parse_ipv6(row, k, c, packet) = IF c1.ok THEN parse_l4(new, k, c5, p) ELSE row
  BY DEF parse_ipv6
<1>2. DOMAIN row = Columns /\ KeptByParsers \subseteq Columns
  BY KeptColumns DEF IsRow
<1> HIDE DEF c1, c5, p, s, d, w
<1>3. /\ new = [x \in Columns |-> new[x]]
      /\ \A x \in KeptByParsers : new[x] = row[x]
  BY <1>2 DEF KeptByParsers, LinkColumns
<1> HIDE DEF new
<1>4. Keeps(new, row) /\ IsRow(new) /\ Keeps(row, row)
  BY <1>3, KeepsRow DEF Keeps
<1>5. Keeps(parse_l4(new, k, c5, p), row)
  BY <1>4, parse_l4_Keeps, KeepsOn
<1> QED
  BY <1>1, <1>4, <1>5

LEMMA parse_l2_Keeps ==
  ASSUME NEW row, IsRow(row), NEW k, NEW c, NEW packet
  PROVE  Keeps(parse_l2(row, k, c, packet), row)
<1> DEFINE c1 == c \odot Read(12)
           c2 == IF packet.tagged THEN c1 \odot Skip(2) \odot Skip(2) ELSE c1
           c3 == c2 \odot Skip(2)
<1>1. parse_l2(row, k, c, packet) \in
        {row, parse_ipv4(row, k, c3, packet), parse_ipv6(row, k, c3, packet)}
  BY DEF parse_l2
<1> HIDE DEF c3
<1>2. Keeps(row, row)
  BY DEF Keeps
<1> QED
  BY <1>1, <1>2, parse_ipv4_Keeps, parse_ipv6_Keeps

\* Scaling sets the counts and puts what was scaled last into raw_fields.
Scaled(new, row, frame, rate) ==
  LET raw == new.raw_fields IN
  /\ IsRow(new) /\ new.sampling_rate = row.sampling_rate
  /\ new.bytes = saturating_mul(frame, rate) /\ new.packets = rate
  /\ Len(raw) \in Nat /\ Len(raw) >= 2
  /\ raw[Len(raw) - 1] = <<"sflow.frame_length", frame>>
  /\ raw[Len(raw)] = <<"sflow.sampling_rate", rate>>

LEMMA ScaleCounts ==
  ASSUME NEW row, IsRow(row), NEW frame, NEW rate
  PROVE  Scaled(scale_counts(row, frame, rate), row, frame, rate)
<1> DEFINE m == saturating_mul(frame, rate)
           base == [row EXCEPT !.bytes = m, !.packets = rate]
           one == put_raw(base, "sflow.frame_length", frame)
           two == put_raw(one, "sflow.sampling_rate", rate)
<1>1. DOMAIN row = Columns /\ IsList(row.raw_fields)
  BY DEF IsRow
<1>2. {"bytes", "packets", "sampling_rate", "raw_fields"} \subseteq Columns
  BY DEF Columns, FlowColumns
<1>3. scale_counts(row, frame, rate) = two
  BY DEF scale_counts
<1> HIDE DEF m
<1>4. /\ base = [c \in Columns |-> base[c]]
      /\ base.bytes = m /\ base.packets = rate /\ base.sampling_rate = row.sampling_rate
      /\ base.raw_fields = row.raw_fields
  BY <1>1, <1>2
<1> HIDE DEF base
<1>5. IsRow(base)
  BY <1>1, <1>4 DEF IsRow
<1>6. /\ IsRow(one) /\ one.raw_fields = Append(base.raw_fields, <<"sflow.frame_length", frame>>)
      /\ \A x \in Columns \ {"raw_fields"} : one[x] = base[x]
  BY <1>5, PutRaw
<1> HIDE DEF one
<1>7. /\ IsRow(two) /\ two.raw_fields = Append(one.raw_fields, <<"sflow.sampling_rate", rate>>)
      /\ \A x \in Columns \ {"raw_fields"} : two[x] = one[x]
  <2>1. IsRow(one)
    BY <1>6
  <2> QED
    BY <2>1, PutRaw
<1> HIDE DEF two
<1>8. two.bytes = m /\ two.packets = rate /\ two.sampling_rate = row.sampling_rate
  BY <1>2, <1>4, <1>6, <1>7
<1>9. LET raw == two.raw_fields IN
      /\ Len(raw) \in Nat /\ Len(raw) >= 2
      /\ raw[Len(raw) - 1] = <<"sflow.frame_length", frame>>
      /\ raw[Len(raw)] = <<"sflow.sampling_rate", rate>>
  <2> DEFINE r0 == base.raw_fields
             r1 == one.raw_fields
             r2 == two.raw_fields
             x1 == <<"sflow.frame_length", frame>>
             x2 == <<"sflow.sampling_rate", rate>>
  <2>1. IsList(r0) /\ IsList(r1) /\ r1 = Append(r0, x1) /\ r2 = Append(r1, x2)
    BY <1>5, <1>6, <1>7 DEF IsRow
  <2> HIDE DEF r0, r1, r2, x1, x2
  <2>2. Len(r0) \in Nat /\ Len(r1) = Len(r0) + 1 /\ r1[Len(r0) + 1] = x1
    BY <2>1, AppendList
  <2>3. /\ Len(r1) \in Nat /\ Len(r2) = Len(r1) + 1 /\ r2[Len(r1) + 1] = x2
        /\ \A i \in 1 .. Len(r1) : r2[i] = r1[i]
    BY <2>1, AppendList
  <2>4. /\ Len(r2) = Len(r0) + 2 /\ Len(r2) - 1 = Len(r0) + 1 /\ Len(r2) \in Nat /\ Len(r2) >= 2
        /\ r2[Len(r0) + 1] = x1
    BY <2>2, <2>3
  <2> QED
    BY <2>2, <2>3, <2>4 DEF r2, x1, x2
<1> QED
  BY <1>3, <1>7, <1>8, <1>9 DEF Scaled, m

Counts(rec) == rec.format \in {1, 3, 4}

LEMMA ScaledKept ==
  ASSUME NEW row, NEW mid, NEW frame, NEW rate, Scaled(mid, row, frame, rate),
         NEW new, Keeps(new, mid)
  PROVE  Scaled(new, row, frame, rate)
<1>1. /\ new.raw_fields = mid.raw_fields /\ new.bytes = mid.bytes
      /\ new.packets = mid.packets /\ new.sampling_rate = mid.sampling_rate /\ IsRow(new)
  BY DEF Keeps, KeptByParsers
<1> QED
  BY <1>1 DEF Scaled

LEMMA SampledTupleScales ==
  ASSUME NEW row, IsRow(row), NEW k, NEW rec \in SampleRecord, NEW rate,
         rec.format \in {3, 4}
  PROVE  \E frame \in 0 .. U32 - 1 :
           /\ Scaled(parse_record(row, k, rec, rate), row, frame, rate)
           /\ rec.size >= 8 => frame = rec.frame
<1> DEFINE frame == IF InBounds(Cursor(rec.size), 4) THEN rec.frame ELSE 0
<1>1. frame \in 0 .. U32 - 1 /\ (rec.size >= 8 => frame = rec.frame)
  <2>1. /\ rec.size \in Nat /\ rec.frame \in 0 .. U32 - 1 /\ 0 \in 0 .. U32 - 1
    BY WordSizes DEF SampleRecord
  <2> QED
    BY <2>1 DEF InBounds, Cursor, remaining
<1>2. ASSUME NEW n, NEW inet(_),
             parse_record(row, k, rec, rate) = SampledTuple(row, k, rec, rate, n, inet)
      PROVE  Scaled(parse_record(row, k, rec, rate), row, frame, rate)
  <2> DEFINE c1 == Cursor(rec.size) \odot Skip(4)
             c2 == c1 \odot Skip(4)
             c3 == c2 \odot Skip(n)
             c4 == c3 \odot Skip(n)
             c5 == c4 \odot Skip(4)
             c6 == c5 \odot Skip(4)
             s == inet(BytesOrEmpty(k, c2, n))
             d == inet(BytesOrEmpty(k, c3, n))
             p == Narrowed(k, c1, 4, 1)
             a == Narrowed(k, c4, 4, 2)
             b == Narrowed(k, c5, 4, 2)
             g == Narrowed(k, c6, 4, 1)
             t == IF n = 4 THEN Narrowed(k, c6 \odot Skip(4), 4, 1) ELSE row.tos
             mid == [row EXCEPT !.src_addr = s, !.dst_addr = d, !.protocol = p,
                                !.src_port = a, !.dst_port = b, !.tcp_flags = g, !.tos = t]
  <2>1. parse_record(row, k, rec, rate) = scale_counts(mid, frame, rate)
    BY <1>2 DEF SampledTuple
  <2>2. DOMAIN row = Columns /\ IsList(row.raw_fields)
    BY DEF IsRow
  <2>3. {"sampling_rate", "raw_fields"} \subseteq Columns
    BY DEF Columns, FlowColumns
  <2> HIDE DEF s, d, p, a, b, g, t, frame
  <2>4. /\ mid = [c \in Columns |-> mid[c]] /\ mid.raw_fields = row.raw_fields
        /\ mid.sampling_rate = row.sampling_rate
    BY <2>2, <2>3
  <2> HIDE DEF mid
  <2>5. IsRow(mid)
    BY <2>2, <2>4 DEF IsRow
  <2>6. Scaled(scale_counts(mid, frame, rate), mid, frame, rate)
    BY <2>5, ScaleCounts
  <2> QED
    BY <2>1, <2>4, <2>6 DEF Scaled
<1>3. CASE rec.format = 3
  <2>1. parse_record(row, k, rec, rate) = SampledTuple(row, k, rec, rate, 4, inet4)
    BY <1>3 DEF parse_record, parse_sampled_ipv4
  <2> HIDE DEF frame
  <2> QED
    BY <2>1, <1>1, <1>2
<1>4. CASE rec.format = 4
  <2>1. parse_record(row, k, rec, rate) = SampledTuple(row, k, rec, rate, 16, inet6)
    BY <1>4 DEF parse_record, parse_sampled_ipv6
  <2> HIDE DEF frame
  <2> QED
    BY <2>1, <1>1, <1>2
<1> QED
  BY <1>3, <1>4

LEMMA RawHeaderScales ==
  ASSUME NEW row, IsRow(row), NEW k, NEW rec \in SampleRecord, NEW rate, rec.format = 1
  PROVE  \E frame \in 0 .. U32 - 1 :
           /\ Scaled(parse_record(row, k, rec, rate), row, frame, rate)
           /\ rec.size >= 8 => frame = rec.frame
<1> DEFINE c1 == Cursor(rec.size) \odot Skip(4)
           c3 == c1 \odot Skip(4) \odot Skip(4)
           frame == IF InBounds(c1, 4) THEN rec.frame ELSE 0
           captured == IF InBounds(c3, 4) THEN rec.captured ELSE 0
           mid == scale_counts(row, frame, rate)
           body == Slice(c3 \odot Skip(4), captured)
<1>1. frame \in 0 .. U32 - 1 /\ (rec.size >= 8 => frame = rec.frame)
  <2>1. /\ rec.size \in Nat /\ rec.frame \in 0 .. U32 - 1 /\ 0 \in 0 .. U32 - 1
    BY WordSizes DEF SampleRecord
  <2>2. rec.size >= 8 => InBounds(c1, 4)
    <3> SUFFICES ASSUME rec.size >= 8 PROVE InBounds(c1, 4)
      OBVIOUS
    <3>1. ReadUpTo(Cursor(rec.size), rec.size, 0)
      BY <2>1, Started
    <3>2. ReadUpTo(c1, rec.size, 0 + 4)
      BY <2>1, <3>1, SkipOn
    <3> HIDE DEF c1
    <3>3. c1.size = rec.size /\ c1.pos = 4
      BY <2>1, <3>2 DEF ReadUpTo, Inside
    <3> QED
      BY <2>1, <3>3 DEF InBounds, remaining
  <2> QED
    BY <2>1, <2>2
<1>2. parse_record(row, k, rec, rate) = parse_l2(mid, k, body, rec.packet)
  BY DEF parse_record, parse_raw_header
<1> HIDE DEF frame, body
<1>3. Scaled(mid, row, frame, rate) /\ IsRow(mid)
  BY ScaleCounts DEF Scaled
<1> HIDE DEF mid
<1>4. Keeps(parse_l2(mid, k, body, rec.packet), mid)
  BY <1>3, parse_l2_Keeps
<1>5. Scaled(parse_l2(mid, k, body, rec.packet), row, frame, rate)
  BY <1>3, <1>4, ScaledKept
<1> QED
  BY <1>1, <1>2, <1>5

LEMMA CountingRecord ==
  ASSUME NEW row, IsRow(row), NEW k, NEW rec \in SampleRecord, NEW rate, Counts(rec)
  PROVE  \E frame \in 0 .. U32 - 1 :
           /\ Scaled(parse_record(row, k, rec, rate), row, frame, rate)
           /\ rec.size >= 8 => frame = rec.frame
BY SampledTupleScales, RawHeaderScales DEF Counts

\* The row of a sample against the records taken so far.
CountsHeld(row, s, recs) ==
  \/ /\ \A k \in DOMAIN recs : ~Counts(recs[k])
     /\ row.bytes = None /\ row.packets = None
  \/ \E k \in DOMAIN recs, frame \in 0 .. U32 - 1 :
       /\ Counts(recs[k]) /\ \A j \in DOMAIN recs : Counts(recs[j]) => j <= k
       /\ Scaled(row, row, frame, SamplingRate(s))
       /\ recs[k].size >= 8 => frame = recs[k].frame

SampleOK(row, s, recs) ==
  /\ IsRow(row) /\ s \in Sample /\ recs \in Seq(SampleRecord)
  /\ IsFlowSample(s) =>
       row.sampling_rate = SamplingRate(s) /\ CountsHeld(row, s, recs)

LEMMA SampleStart ==
  ASSUME NEW s \in Sample, NEW context
  PROVE  SampleOK(SampleRow(s, context), s, <<>>)
<1> DEFINE first == SflowRow(context)
           x == context.exporter
           d == context.domain
           q == context.sequence
           rate == SamplingRate(s)
           i == WordOrNone(0, InputAt(s), 4)
           o == WordOrNone(0, OutputAt(s), 4)
           row == SampleRow(s, context)
<1>0. <<>> \in Seq(SampleRecord) /\ DOMAIN <<>> = {}
  OBVIOUS
<1>1. /\ DOMAIN DefaultRow = Columns /\ DefaultRow.raw_fields = <<>>
      /\ DefaultRow.bytes = None /\ DefaultRow.packets = None
  BY DefaultIsRow DEF IsRow, MappedColumns, FlowColumns
<1>2. {"raw_fields", "bytes", "packets", "sampling_rate"} \subseteq Columns
  BY DEF Columns, FlowColumns
<1>3. first = [DefaultRow EXCEPT !.exporter = x, !.flow_version = "sflow5",
                                 !.obs_domain = d, !.sequence = q]
  BY DEF SflowRow
<1> HIDE DEF first, x, d, q
<1>4. /\ first = [c \in Columns |-> first[c]] /\ first.raw_fields = <<>>
      /\ first.bytes = None /\ first.packets = None
  BY <1>1, <1>2, <1>3
<1>5. IsRow(first)
  BY <1>4, EmptyList DEF IsRow
<1>6. CASE IsFlowSample(s)
  <2>1. row = [first EXCEPT !.sampling_rate = rate, !.input_snmp = i, !.output_snmp = o]
    BY <1>6 DEF SampleRow, first
  <2> HIDE DEF rate, i, o, row
  <2>2. DOMAIN first = Columns
    BY <1>4
  <2>3. /\ row = [c \in Columns |-> row[c]] /\ row.raw_fields = <<>>
        /\ row.bytes = None /\ row.packets = None /\ row.sampling_rate = rate
    BY <2>1, <2>2, <1>2, <1>4
  <2>4. IsRow(row)
    BY <2>3, EmptyList DEF IsRow
  <2>5. CountsHeld(row, s, <<>>)
    BY <1>0, <2>3 DEF CountsHeld
  <2> QED
    BY <1>0, <2>3, <2>4, <2>5 DEF SampleOK, row, rate
<1>7. CASE ~IsFlowSample(s)
  <2>1. row = note(first, "counter-sample")
    BY <1>7 DEF SampleRow, first
  <2>2. IsRow(row)
    BY <2>1, <1>5, NoteRow
  <2> QED
    BY <1>0, <1>7, <2>2 DEF SampleOK
<1> QED
  BY <1>6, <1>7

\* One more record, parsed or kept raw.
LEMMA SampleStep ==
  ASSUME NEW row, NEW s, NEW recs, SampleOK(row, s, recs), NEW k, NEW rec \in SampleRecord,
         NEW new, new = IF IsFlowSample(s) THEN parse_record(row, k, rec, SamplingRate(s))
                        ELSE put_counters(row, k, rec)
  PROVE  SampleOK(new, s, Append(recs, rec))
<1> DEFINE n == Len(recs)
           more == Append(recs, rec)
<1>1. /\ IsRow(row) /\ s \in Sample /\ recs \in Seq(SampleRecord)
      /\ IsFlowSample(s) => row.sampling_rate = SamplingRate(s) /\ CountsHeld(row, s, recs)
  BY DEF SampleOK
<1>2. more \in Seq(SampleRecord) /\ IsList(recs)
  BY <1>1, ListOf
<1>3. /\ n \in Nat /\ DOMAIN recs = 1 .. n /\ DOMAIN more = 1 .. n + 1
      /\ \A i \in 1 .. n : more[i] = recs[i]
      /\ more[n + 1] = rec
  BY <1>2, AppendList
<1>4. /\ \A i \in 1 .. n + 1 : i <= n + 1 /\ (i \in 1 .. n \/ i = n + 1)
      /\ \A i \in 1 .. n : i \in 1 .. n + 1
      /\ n + 1 \in 1 .. n + 1
  BY <1>3
<1> HIDE DEF more, n
<1>5. CASE ~IsFlowSample(s)
  <2>1. IsRow(new)
    BY <1>1, <1>5, PutRaw DEF put_counters
  <2> QED
    BY <2>1, <1>1, <1>2, <1>5 DEF SampleOK, more
<1>6. CASE IsFlowSample(s) /\ Counts(rec)
  <2>1. PICK frame \in 0 .. U32 - 1 :
          /\ Scaled(new, row, frame, SamplingRate(s))
          /\ rec.size >= 8 => frame = rec.frame
    BY <1>1, <1>6, CountingRecord
  <2>2. /\ IsRow(new) /\ new.sampling_rate = SamplingRate(s)
        /\ Scaled(new, new, frame, SamplingRate(s))
    BY <2>1, <1>1, <1>6 DEF Scaled
  <2>3. CountsHeld(new, s, more)
    BY <2>1, <2>2, <1>3, <1>4, <1>6 DEF CountsHeld
  <2> QED
    BY <2>2, <2>3, <1>1, <1>2 DEF SampleOK, more
<1>7. CASE IsFlowSample(s) /\ ~Counts(rec)
  <2>1. new = row
    BY <1>7 DEF parse_record, Counts
  <2>2. CountsHeld(row, s, recs)
    BY <1>1, <1>7
  <2>3. CountsHeld(row, s, more)
    <3>1. CASE /\ \A j \in DOMAIN recs : ~Counts(recs[j])
               /\ row.bytes = None /\ row.packets = None
      <4>1. \A j \in DOMAIN more : ~Counts(more[j])
        BY <3>1, <1>3, <1>4, <1>7
      <4> QED
        BY <3>1, <4>1 DEF CountsHeld
    <3>2. ASSUME NEW j \in DOMAIN recs, NEW frame \in 0 .. U32 - 1,
                 Counts(recs[j]), \A i \in DOMAIN recs : Counts(recs[i]) => i <= j,
                 Scaled(row, row, frame, SamplingRate(s)),
                 recs[j].size >= 8 => frame = recs[j].frame
          PROVE  CountsHeld(row, s, more)
      <4>1. j \in DOMAIN more /\ more[j] = recs[j]
        BY <1>3, <1>4
      <4>2. \A i \in DOMAIN more : Counts(more[i]) => i <= j
        BY <3>2, <1>3, <1>4, <1>7
      <4> QED
        BY <3>2, <4>1, <4>2 DEF CountsHeld
    <3> QED
      BY <2>2, <3>1, <3>2 DEF CountsHeld
  <2> QED
    BY <2>1, <2>3, <1>1, <1>2, <1>7 DEF SampleOK, more
<1> QED
  BY <1>5, <1>6, <1>7

\* What the property says of the row of a sample.
ScaledOnce(r) ==
  LET raw == r.row.raw_fields
      counting == {k \in DOMAIN r.from.records : r.from.records[k].format \in {1, 3, 4}}
  IN  IsFlowSample(r.from.sample) =>
        IF counting = {} THEN r.row.bytes = None /\ r.row.packets = None
        ELSE LET rec == r.from.records[Max(counting)] IN
             /\ raw[Len(raw) - 1][1] = "sflow.frame_length"
             /\ raw[Len(raw)] = <<"sflow.sampling_rate", r.row.sampling_rate>>
             /\ r.row.bytes = raw[Len(raw) - 1][2] * raw[Len(raw)][2]
             /\ r.row.packets = r.row.sampling_rate
             /\ rec.size >= 8 => raw[Len(raw) - 1][2] = rec.frame

\* A product of two 32-bit numbers fits 64 bits.
LEMMA NoSaturation ==
  ASSUME NEW frame \in 0 .. U32 - 1, NEW s \in Sample
  PROVE  saturating_mul(frame, SamplingRate(s)) = frame * SamplingRate(s)
<1> DEFINE rate == SamplingRate(s)
<1>1. U32 \in Nat /\ U32 >= 2 /\ U64 = U32 * U32
  BY WordSizes DEF U64
<1>2. rate \in 0 .. U32 - 1
  BY <1>1 DEF SamplingRate, Sample
<1> HIDE DEF rate
<1>3. \A a, b, m \in Nat : a < m /\ b < m => a * b < m * m
  <2> SUFFICES ASSUME NEW a \in Nat, NEW b \in Nat, NEW m \in Nat, a < m, b < m
               PROVE  a * b < m * m
    OBVIOUS
  <2>1. a * b <= a * m
    OBVIOUS
  <2>2. a * m < m * m
    OBVIOUS
  <2>3. a * b \in Nat /\ a * m \in Nat /\ m * m \in Nat
    OBVIOUS
  <2> QED
    BY <2>1, <2>2, <2>3
<1>4. frame * rate < U64
  BY <1>1, <1>2, <1>3
<1> QED
  BY <1>4 DEF saturating_mul, rate

LEMMA SampleCounts ==
  ASSUME NEW r, SampleOK(r.row, r.from.sample, r.from.records)
  PROVE  ScaledOnce(r)
<1> DEFINE s == r.from.sample
           recs == r.from.records
           raw == r.row.raw_fields
           counting == {k \in DOMAIN recs : recs[k].format \in {1, 3, 4}}
<1> SUFFICES ASSUME IsFlowSample(s) PROVE ScaledOnce(r)
  BY DEF ScaledOnce
<1>1. /\ s \in Sample /\ recs \in Seq(SampleRecord) /\ r.row.sampling_rate = SamplingRate(s)
      /\ CountsHeld(r.row, s, recs)
  BY DEF SampleOK
<1>2. counting = {k \in DOMAIN recs : Counts(recs[k])} /\ counting \in SUBSET Int
  BY <1>1 DEF Counts
<1>3. CASE /\ \A k \in DOMAIN recs : ~Counts(recs[k])
           /\ r.row.bytes = None /\ r.row.packets = None
  <2>1. counting = {}
    BY <1>2, <1>3
  <2> QED
    BY <1>3, <2>1 DEF ScaledOnce
<1>4. ASSUME NEW k \in DOMAIN recs, NEW frame \in 0 .. U32 - 1,
             Counts(recs[k]), \A j \in DOMAIN recs : Counts(recs[j]) => j <= k,
             Scaled(r.row, r.row, frame, SamplingRate(s)),
             recs[k].size >= 8 => frame = recs[k].frame
      PROVE  ScaledOnce(r)
  <2>1. k \in counting /\ \A j \in counting : j <= k
    BY <1>2, <1>4
  <2>2. counting # {} /\ Max(counting) = k
    <3> HIDE DEF counting
    <3> QED
      BY <2>1, <1>2, MaxIs
  <2>3. r.row.bytes = frame * SamplingRate(s) /\ r.row.packets = SamplingRate(s)
    BY <1>1, <1>4, NoSaturation DEF Scaled
  <2>4. /\ raw[Len(raw) - 1] = <<"sflow.frame_length", frame>>
        /\ raw[Len(raw)] = <<"sflow.sampling_rate", SamplingRate(s)>>
    BY <1>4 DEF Scaled
  <2>5. /\ raw[Len(raw) - 1][1] = "sflow.frame_length" /\ raw[Len(raw) - 1][2] = frame
        /\ raw[Len(raw)][2] = SamplingRate(s)
    BY <2>4
  <2> HIDE DEF counting, s, recs, raw
  <2> QED
    BY <1>1, <1>4, <2>2, <2>3, <2>4, <2>5 DEF ScaledOnce, counting, s, recs, raw
<1> QED
  BY <1>1, <1>3, <1>4 DEF CountsHeld

-----------------------------------------------------------------------------
(* The inductive invariant.                                                *)

\* What is known of a row by what it came from.
EntryOK(r) ==
  /\ IsRow(r.row) /\ r.from.is \in {"record", "v5", "sample", "report"}
  /\ r.from.is = "record" => RecordEntry(r)
  /\ r.from.is = "v5" => V5Entry(r)
  /\ r.from.is = "sample" => SampleOK(r.row, r.from.sample, r.from.records)

\* A record being decoded: its draft is what its fields make of it.
RecordOpen(o) ==
  /\ o = [is |-> "record", device |-> o.device, header |-> o.header, draft |-> o.draft,
          fields |-> o.fields]
  /\ o.device \in Devices /\ \E version \in {"9", "10"} : o.header = Header(version, o.device)
  /\ o.fields \in Seq(KnownFields) /\ DraftOK(o.draft, o.fields)

\* A sample being decoded, with work left for all its records.
SampleOpen(o) ==
  /\ o = [is |-> "sample", sample |-> o.sample, cursor |-> o.cursor, left |-> o.left,
          row |-> o.row, records |-> o.records]
  /\ o.left \in Nat /\ SampleOK(o.row, o.sample, o.records)
  /\ work + o.left * RecordWork <= MaxWork

OpenOK == open = None \/ RecordOpen(open) \/ SampleOpen(open)
EntriesOK == IsList(rows) /\ \A r \in Range(rows) : EntryOK(r)
RowsInv == EntriesOK /\ OpenOK /\ work \in 0 .. MaxWork

\* A new row among those of the batch.
LEMMA EmitStep ==
  ASSUME EntriesOK, NEW row, NEW from, Emit(row, from), EntryOK([row |-> row, from |-> from])
  PROVE  EntriesOK'
<1> DEFINE entry == [row |-> row, from |-> from]
<1>1. IsList(rows) /\ (\A r \in Range(rows) : EntryOK(r)) /\ rows' = Append(rows, entry)
  BY DEF EntriesOK, Emit
<1> HIDE DEF entry
<1>2. IsList(rows') /\ Range(rows') = Range(rows) \cup {entry}
  BY <1>1, AppendList
<1>3. \A r \in Range(rows') : EntryOK(r)
  BY <1>1, <1>2 DEF entry
<1> QED
  BY <1>2, <1>3 DEF EntriesOK

\* The draft of a record without fields.
LEMMA DraftStart ==
  ASSUME NEW header
  PROVE  DraftOK(Draft([HeaderRow(header) EXCEPT !.template_id = 256]), <<>>)
<1> DEFINE first == HeaderRow(header)
           row == [first EXCEPT !.template_id = 256]
           draft == Draft(row)
<1>1. /\ DOMAIN first = Columns /\ first.raw_fields = <<>>
      /\ \A c \in MappedColumns : first[c] = None
  BY HeaderIsRow DEF IsRow
<1>2. /\ "raw_fields" \in Columns /\ MappedColumns \subseteq Columns
      /\ "template_id" \notin MappedColumns
  BY DEF Columns, MappedColumns, FlowColumns, AddressColumns
<1> HIDE DEF first
<1>3. /\ row = [c \in Columns |-> row[c]] /\ row.raw_fields = <<>>
      /\ \A c \in MappedColumns : row[c] = None
  BY <1>1, <1>2
<1> HIDE DEF row
<1>4. IsRow(row)
  BY <1>3, EmptyList DEF IsRow
<1>5. draft.row = row /\ draft.sysup = [flow_start |-> None, flow_end |-> None]
  BY DEF Draft
<1>6. IsDraft(draft)
  BY <1>4 DEF Draft, IsDraft
<1>7. DOMAIN <<>> = {}
  OBVIOUS
<1>8. \A c \in MappedColumns : Held(draft.row[c], <<>>, c)
  BY <1>3, <1>5, <1>7 DEF Held, Silent
<1>9. \A c \in TimeColumns : ReadingHeld(draft.sysup[c], <<>>, c)
  <2>1. \A c \in TimeColumns : draft.sysup[c] = None
    BY <1>5 DEF TimeColumns
  <2> QED
    BY <2>1, <1>7 DEF ReadingHeld
<1> QED
  BY <1>6, <1>8, <1>9 DEF DraftOK, row, first

LEMMA RowsInitially == ASSUME Init PROVE RowsInv
<1>1. Range(<<>>) = {}
  BY DEF Range
<1>2. MaxWork \in Nat
  BY RowsAssumption
<1> QED
  BY <1>1, <1>2, EmptyList DEF Init, RowsInv, EntriesOK, OpenOK

\* The actions on records.
LEMMA BeginRecordStep ==
  ASSUME RowsInv, NEW version \in {"9", "10"}, NEW device \in Devices,
         BeginRecord(version, device)
  PROVE  RowsInv'
<1> DEFINE header == Header(version, device)
           draft == Draft([HeaderRow(header) EXCEPT !.template_id = 256])
<1>1. /\ open' = [is |-> "record", device |-> device, header |-> header, draft |-> draft,
                  fields |-> <<>>]
      /\ work' = work + 2 /\ work + 2 <= MaxWork /\ rows' = rows
  BY DEF BeginRecord, Decoding, RowWork
<1>2. DraftOK(draft, <<>>)
  BY DraftStart
<1>3. <<>> \in Seq(KnownFields) /\ header = Header(version, device)
  OBVIOUS
<1> HIDE DEF draft, header
<1>4. RecordOpen(open')
  BY <1>1, <1>2, <1>3 DEF RecordOpen
<1>5. work' \in 0 .. MaxWork
  BY <1>1, RowsAssumption DEF RowsInv
<1> QED
  BY <1>1, <1>4, <1>5 DEF RowsInv, OpenOK, EntriesOK

LEMMA MapFieldKeeps ==
  ASSUME RowsInv, NEW f \in KnownFields, MapField(f)
  PROVE  RowsInv'
<1> DEFINE draft == map_field(open.draft, f)
           fields == Append(open.fields, f)
<1>1. /\ open # None /\ open.is = "record" /\ work < MaxWork /\ work' = work + 1 /\ rows' = rows
      /\ open' = [open EXCEPT !.draft = draft, !.fields = fields]
  BY DEF MapField
<1>2. RecordOpen(open)
  <2>1. SampleOpen(open) => open.is = "sample"
    BY DEF SampleOpen
  <2> QED
    BY <1>1, <2>1 DEF RowsInv, OpenOK
<1>3. /\ open.fields \in Seq(KnownFields) /\ DraftOK(open.draft, open.fields)
      /\ open = [is |-> "record", device |-> open.device, header |-> open.header,
                 draft |-> open.draft, fields |-> open.fields]
      /\ open.device \in Devices
      /\ \E version \in {"9", "10"} : open.header = Header(version, open.device)
  BY <1>2 DEF RecordOpen
<1>4. DraftOK(draft, fields) /\ fields \in Seq(KnownFields)
  BY <1>3, MapFieldStep
<1> HIDE DEF draft, fields
<1>5. open' = [is |-> "record", device |-> open.device, header |-> open.header,
               draft |-> draft, fields |-> fields]
  BY <1>1, <1>3
<1>6. RecordOpen(open')
  BY <1>3, <1>4, <1>5 DEF RecordOpen
<1>7. work' \in 0 .. MaxWork
  BY <1>1, RowsAssumption DEF RowsInv
<1> QED
  BY <1>1, <1>6, <1>7 DEF RowsInv, OpenOK, EntriesOK

LEMMA EndRecordStep ==
  ASSUME RowsInv, EndRecord
  PROVE  RowsInv'
<1> DEFINE row == resolve_times(open.draft, open.header.export, open.header.uptime)
           from == [is |-> "record", device |-> open.device, header |-> open.header,
                    fields |-> open.fields]
           entry == [row |-> row, from |-> from]
<1>1. /\ open # None /\ open.is = "record" /\ Emit(row, from) /\ open' = None
      /\ work' = work
  BY DEF EndRecord
<1>2. RecordOpen(open)
  <2>1. SampleOpen(open) => open.is = "sample"
    BY DEF SampleOpen
  <2> QED
    BY <1>1, <2>1 DEF RowsInv, OpenOK
<1>3. /\ entry.row = row /\ entry.from = from /\ from.is = "record"
      /\ from.device = open.device /\ from.header = open.header /\ from.fields = open.fields
  OBVIOUS
<1> HIDE DEF entry, from
<1>4. RecordEntry(entry)
  BY <1>2, <1>3 DEF RecordOpen, RecordEntry
<1>5. EntryOK(entry)
  BY <1>3, <1>4, RecordRow DEF EntryOK
<1>6. EntriesOK'
  BY <1>1, <1>5, EmitStep DEF RowsInv, entry
<1> QED
  BY <1>1, <1>6 DEF RowsInv, OpenOK

\* Rows that are decoded in one step.
LEMMA V5RecordStep ==
  ASSUME RowsInv, NEW device \in Devices, NEW first \in Readings, NEW last \in Readings,
         V5Record(device, first, last)
  PROVE  RowsInv'
<1> DEFINE header == Header("5", device)
           row == decode_record(header, first % U32, last % U32)
           from == [is |-> "v5", device |-> device, header |-> header,
                    readings |-> [flow_start |-> first, flow_end |-> last]]
           entry == [row |-> row, from |-> from]
<1>1. /\ open = None /\ open' = open /\ work' = work + 2 /\ work + 2 <= MaxWork
      /\ Emit(row, from)
  BY DEF V5Record, Decoding, RowWork
<1>2. entry.row = row /\ entry.from = from /\ from.is = "v5"
  OBVIOUS
<1>3. V5Entry(entry)
  <2> HIDE DEF entry
  <2> QED
    BY <1>2 DEF V5Entry
<1> HIDE DEF entry, from, row
<1>4. EntryOK(entry)
  BY <1>2, <1>3, V5Row DEF EntryOK
<1>5. EntriesOK'
  BY <1>1, <1>4, EmitStep DEF RowsInv, entry
<1>6. work' \in 0 .. MaxWork
  BY <1>1, RowsAssumption DEF RowsInv
<1> QED
  BY <1>1, <1>5, <1>6 DEF RowsInv, OpenOK

LEMMA ReportStep ==
  ASSUME RowsInv, NEW version, NEW device \in Devices, NEW diag, Report(version, device, diag)
  PROVE  RowsInv'
<1> DEFINE header == Header(version, device)
           row == diagnostic(header, diag)
           from == [is |-> "report", device |-> device, header |-> header]
           entry == [row |-> row, from |-> from]
<1>1. /\ open = None /\ open' = open /\ work' = work + 2 /\ work + 2 <= MaxWork
      /\ Emit(row, from)
  BY DEF Report, Decoding, RowWork
<1>2. entry.row = row /\ entry.from = from /\ from.is = "report"
  OBVIOUS
<1>3. IsRow(row)
  BY HeaderIsRow, NoteRow DEF diagnostic
<1> HIDE DEF entry, from, row
<1>4. EntryOK(entry)
  BY <1>2, <1>3 DEF EntryOK
<1>5. EntriesOK'
  BY <1>1, <1>4, EmitStep DEF RowsInv, entry
<1>6. work' \in 0 .. MaxWork
  BY <1>1, RowsAssumption DEF RowsInv
<1> QED
  BY <1>1, <1>5, <1>6 DEF RowsInv, OpenOK

\* The actions on samples.
LEMMA BeginSampleStep ==
  ASSUME RowsInv, NEW sample \in Samples, NEW mode, BeginSample(sample, mode)
  PROVE  RowsInv'
<1> DEFINE n == NumRecords(sample)
           row == SampleRow(sample, SflowContext)
           cursor == RecordsAt(sample)
<1>1. /\ open' = [is |-> "sample", sample |-> sample, cursor |-> cursor, left |-> n,
                  row |-> row, records |-> <<>>]
      /\ work' = work + 2 /\ work + 2 + n * 2 <= MaxWork /\ rows' = rows
  BY DEF BeginSample, RowWork, RecordWork
<1>2. sample \in Sample
  BY RowsAssumption
<1>3. n \in Nat
  BY <1>2 DEF NumRecords, Sample
<1>4. SampleOK(row, sample, <<>>)
  BY <1>2, SampleStart
<1> HIDE DEF n, row, cursor
<1>5. work' \in 0 .. MaxWork /\ work' + n * 2 <= MaxWork
  BY <1>1, <1>3, RowsAssumption DEF RowsInv
<1>6. SampleOpen(open)'
  BY <1>1, <1>3, <1>4, <1>5 DEF SampleOpen, RecordWork
<1> QED
  BY <1>1, <1>5, <1>6 DEF RowsInv, OpenOK, EntriesOK

LEMMA SkipSampleStep ==
  ASSUME RowsInv, NEW sample, NEW mode, SkipSample(sample, mode)
  PROVE  RowsInv'
<1>1. /\ open = None /\ open' = open /\ rows' = rows
      /\ work' = work + 2 /\ work + 2 <= MaxWork
  BY DEF SkipSample, Decoding, RowWork
<1>2. work' \in 0 .. MaxWork
  BY <1>1, RowsAssumption DEF RowsInv
<1> QED
  BY <1>1, <1>2 DEF RowsInv, OpenOK, EntriesOK

LEMMA MapSampleRecordStep ==
  ASSUME RowsInv, NEW rec \in Records, MapSampleRecord(rec)
  PROVE  RowsInv'
<1> DEFINE k == Len(open.records) + 1
           row == IF IsFlowSample(open.sample)
                  THEN parse_record(open.row, k, rec, SamplingRate(open.sample))
                  ELSE put_counters(open.row, k, rec)
           cursor == open.cursor \odot Skip(8) \odot Skip(rec.size)
           left == open.left - 1
           records == Append(open.records, rec)
<1>1. /\ open # None /\ open.is = "sample" /\ open.left > 0 /\ rows' = rows
      /\ work' = work + 2
      /\ open' = [open EXCEPT !.cursor = cursor, !.left = left, !.row = row,
                              !.records = records]
  BY DEF MapSampleRecord, RecordWork
<1>2. SampleOpen(open)
  <2>1. RecordOpen(open) => open.is = "record"
    BY DEF RecordOpen
  <2> QED
    BY <1>1, <2>1 DEF RowsInv, OpenOK
<1>3. /\ open = [is |-> "sample", sample |-> open.sample, cursor |-> open.cursor,
                 left |-> open.left, row |-> open.row, records |-> open.records]
      /\ open.left \in Nat /\ SampleOK(open.row, open.sample, open.records)
      /\ work + open.left * 2 <= MaxWork
  BY <1>2 DEF SampleOpen, RecordWork
<1>4. SampleOK(row, open.sample, records)
  BY <1>3, SampleStep, RowsAssumption
<1> HIDE DEF row, cursor, records
<1>5. left \in Nat /\ work' \in 0 .. MaxWork /\ work' + left * 2 <= MaxWork
  BY <1>1, <1>3, RowsAssumption DEF RowsInv
<1> HIDE DEF left
<1>6. open' = [is |-> "sample", sample |-> open.sample, cursor |-> cursor, left |-> left,
               row |-> row, records |-> records]
  BY <1>1, <1>3
<1>7. SampleOpen(open)'
  BY <1>4, <1>5, <1>6 DEF SampleOpen, RecordWork
<1> QED
  BY <1>1, <1>5, <1>7 DEF RowsInv, OpenOK, EntriesOK

LEMMA EndSampleStep ==
  ASSUME RowsInv, EndSample
  PROVE  RowsInv'
<1> DEFINE from == [is |-> "sample", sample |-> open.sample, records |-> open.records]
           entry == [row |-> open.row, from |-> from]
<1>1. /\ open # None /\ open.is = "sample" /\ Emit(open.row, from) /\ open' = None
      /\ work' = work
  BY DEF EndSample
<1>2. SampleOpen(open)
  <2>1. RecordOpen(open) => open.is = "record"
    BY DEF RecordOpen
  <2> QED
    BY <1>1, <2>1 DEF RowsInv, OpenOK
<1>3. /\ entry.row = open.row /\ entry.from = from /\ from.is = "sample"
      /\ from.sample = open.sample /\ from.records = open.records
  OBVIOUS
<1> HIDE DEF entry, from
<1>4. EntryOK(entry)
  BY <1>2, <1>3 DEF SampleOpen, EntryOK, SampleOK
<1>5. EntriesOK'
  BY <1>1, <1>4, EmitStep DEF RowsInv, entry
<1> QED
  BY <1>1, <1>5 DEF RowsInv, OpenOK

LEMMA RowsNext ==
  ASSUME RowsInv, [Next]_vars
  PROVE  RowsInv'
<1>1. ASSUME NetflowStep PROVE RowsInv'
  <2>1. ASSUME NEW device \in Devices, NEW version \in {"9", "10"}, BeginRecord(version, device)
        PROVE  RowsInv'
    BY <2>1, BeginRecordStep
  <2>2. ASSUME NEW device \in Devices, NEW first \in Readings, NEW last \in Readings,
               V5Record(device, first, last)
        PROVE  RowsInv'
    BY <2>2, V5RecordStep
  <2>3. ASSUME NEW device \in Devices, NEW version, Report(version, device, "truncated")
        PROVE  RowsInv'
    BY <2>3, ReportStep
  <2>4. ASSUME NEW f \in Fields, MapField(f) PROVE RowsInv'
    BY <2>4, MapFieldKeeps DEF KnownFields
  <2>5. ASSUME NEW ie \in {21, 22}, NEW reading \in Readings, MapField(UptimeField(ie, reading))
        PROVE  RowsInv'
    BY <2>5, MapFieldKeeps DEF KnownFields
  <2>6. ASSUME EndRecord PROVE RowsInv'
    BY <2>6, EndRecordStep
  <2> QED
    BY <1>1, <2>1, <2>2, <2>3, <2>4, <2>5, <2>6 DEF NetflowStep
<1>2. ASSUME SflowStep PROVE RowsInv'
  <2>1. ASSUME NEW sample \in Samples, NEW mode, BeginSample(sample, mode) PROVE RowsInv'
    BY <2>1, BeginSampleStep
  <2>2. ASSUME NEW sample, NEW mode, SkipSample(sample, mode) PROVE RowsInv'
    BY <2>2, SkipSampleStep
  <2>3. ASSUME NEW rec \in Records, MapSampleRecord(rec) PROVE RowsInv'
    BY <2>3, MapSampleRecordStep
  <2>4. ASSUME EndSample PROVE RowsInv'
    BY <2>4, EndSampleStep
  <2> QED
    BY <1>2, <2>1, <2>2, <2>3, <2>4 DEF SflowStep
<1>3. ASSUME rows' = rows, open' = open, work' = work PROVE RowsInv'
  BY <1>3 DEF RowsInv, EntriesOK, OpenOK, SampleOpen
<1>4. CASE BuildBatch
  BY <1>3, <1>4 DEF BuildBatch
<1>5. CASE Done \/ UNCHANGED vars
  BY <1>3, <1>5 DEF Done, vars
<1> QED
  BY <1>1, <1>2, <1>4, <1>5 DEF Next

\* Every row of the list, and the record or sample being decoded, is what its fields or
\* records make of it (decode_one_record, decode_flow_sample, v5::decode_record).
THEOREM RowsInvariant == Spec => []RowsInv
<1>1. Init => RowsInv
  BY RowsInitially
<1>2. RowsInv /\ [Next]_vars => RowsInv'
  BY RowsNext
<1> QED
  BY <1>1, <1>2, PTL DEF Spec

-----------------------------------------------------------------------------
(* The properties.                                                         *)

\* However many elements of a record speak of a column, it holds the meaning of the one
\* that has precedence (map_field).
THEOREM WinnersAreHeld == Spec => []ColumnsHoldTheWinner
<1>1. RowsInv => ColumnsHoldTheWinner
  <2> SUFFICES ASSUME RowsInv, NEW r \in RecordRows, NEW c \in FlowColumns \cup AddressColumns
               PROVE  WinnerHeld(r, c)
    BY DEF ColumnsHoldTheWinner, WinnerHeld
  <2>1. RecordEntry(r)
    BY DEF RecordRows, RowsInv, EntriesOK, EntryOK
  <2> QED
    BY <2>1, RecordColumn DEF MappedColumns
<1> QED
  BY <1>1, RowsInvariant, PTL

\* A flow time resolved from sysUptime is the device's wall-clock time, or late by
\* exactly the periods of the 32-bit counter that passed between the reading and the
\* export (v5::decode_record, resolve_times).
THEOREM TimesAreReal == Spec => []UptimeTimesAreReal
<1>1. RowsInv => UptimeTimesAreReal
  <2> SUFFICES ASSUME RowsInv, NEW r \in Range(rows), NEW c \in {"flow_start", "flow_end"},
                      NEW reading \in ReadingsOf(r, c)
               PROVE  TimeIsReal(r, c, reading)
    BY DEF UptimeTimesAreReal, TimeIsReal
  <2>1. EntryOK(r) /\ c \in TimeColumns
    BY DEF RowsInv, EntriesOK, TimeColumns
  <2>2. CASE r.from.is = "record"
    BY <2>1, <2>2, RecordTime DEF EntryOK
  <2>3. CASE r.from.is = "v5"
    BY <2>1, <2>3, V5Row DEF EntryOK
  <2>4. CASE r.from.is \notin {"record", "v5"}
    BY <2>4 DEF ReadingsOf
  <2> QED
    BY <2>2, <2>3, <2>4
<1> QED
  BY <1>1, RowsInvariant, PTL

\* Two IPv6 addresses of a batch compare in their columns as on the wire
\* (inet.rs encode).
THEOREM AddressesCompare == Spec => []AddressOrder
<1>1. RowsInv => AddressOrder
  <2> DEFINE IsV6(r, c) == r \in RecordRows /\ r.row[c] # None /\ r.row[c].ip_type = 2
             wire(r, c) == r.from.fields[Winner(r.from, c)].bytes.val
             pairs(c) == {<<r.row[c].address, wire(r, c)>> :
                            r \in {r \in RecordRows : /\ r.row[c] # None
                                                      /\ r.row[c].ip_type = 2}}
             half == U128 \div 2
  <2> SUFFICES ASSUME RowsInv,
                      NEW x \in UNION {pairs(c) : c \in AddressColumns},
                      NEW y \in UNION {pairs(c) : c \in AddressColumns}
               PROVE  x[1] < y[1] <=> x[2] < y[2]
    BY DEF AddressOrder
  <2>1. ASSUME NEW r, NEW c \in AddressColumns, IsV6(r, c)
        PROVE  wire(r, c) \in Int /\ r.row[c].address = wire(r, c) - half
    <3>1. RecordEntry(r)
      BY <2>1 DEF RecordRows, RowsInv, EntriesOK, EntryOK
    <3> QED
      BY <2>1, <3>1, RecordColumn DEF MappedColumns
  <2>2. ASSUME NEW z \in UNION {pairs(c) : c \in AddressColumns}
        PROVE  z[2] \in Int /\ z[1] = z[2] - half
    <3>1. PICK c \in AddressColumns : z \in pairs(c)
      BY <2>2
    <3>2. PICK r : IsV6(r, c) /\ z = <<r.row[c].address, wire(r, c)>>
      BY <3>1
    <3> HIDE DEF IsV6, wire, half
    <3>3. z[1] = r.row[c].address /\ z[2] = wire(r, c)
      BY <3>2
    <3> QED
      BY <2>1, <3>2, <3>3
  <2>3. x[2] \in Int /\ x[1] = x[2] - half
    BY <2>2
  <2>4. y[2] \in Int /\ y[1] = y[2] - half
    BY <2>2
  <2>5. half \in Int
    BY WordSizes
  <2> HIDE DEF half, pairs
  <2> QED
    BY <2>3, <2>4, <2>5
<1> QED
  BY <1>1, RowsInvariant, PTL

\* Counts are scaled by the sampling rate exactly once, however many records of a sample
\* count, and never saturate (scale_counts).
THEOREM ScalingIsOnce == Spec => []CountsAreScaledOnce
<1>1. RowsInv => CountsAreScaledOnce
  <2> SUFFICES ASSUME RowsInv, NEW r \in SampleRows
               PROVE  ScaledOnce(r)
    BY DEF CountsAreScaledOnce, ScaledOnce
  <2>1. SampleOK(r.row, r.from.sample, r.from.records)
    BY DEF SampleRows, RowsInv, EntriesOK, EntryOK
  <2> QED
    BY <2>1, SampleCounts
<1> QED
  BY <1>1, RowsInvariant, PTL

-----------------------------------------------------------------------------
(* Where the parsers of a sample's records find their values.              *)

TupleColumns ==
  {"src_addr", "dst_addr", "protocol", "tos", "src_port", "dst_port", "tcp_flags"}

LEMMA TupleColumnsAre == TupleColumns \cup {"raw_fields"} \subseteq Columns
BY DEF TupleColumns, Columns, FlowColumns, AddressColumns

\* A word at its place.
LEMMA WordInPlace ==
  ASSUME NEW size \in Nat, NEW p \in Nat, NEW n \in Nat, NEW c, Reaches(c, size, p),
         size >= p + n, NEW k
  PROVE  WordOrZero(k, c, n) = Mark(k, p)
BY ReachReads DEF WordOrZero

\* An address is read in its place or not at all.
LEMMA AddressInPlace ==
  ASSUME NEW size \in Nat, NEW p \in Nat, NEW n \in Nat \ {0}, NEW c, At(c, size, p, n), NEW k
  PROVE  LET b == BytesOrEmpty(k, c, n) IN
         /\ b.len \in {0, n} /\ (b.len = n => b.val = Mark(k, p))
         /\ size >= p + n => b.len = n
<1>1. InBounds(c, n) => c.pos = p
  BY NearReads DEF At
<1>2. size >= p + n => InBounds(c, n)
  BY ReachReads DEF At
<1> QED
  BY <1>1, <1>2 DEF BytesOrEmpty, WordOrZero

\* The transport header: ports and flags, from offset l4.
L4Extent(proto) == IF proto = 6 THEN 14 ELSE IF proto = 17 THEN 4 ELSE 0

LEMMA L4Values ==
  ASSUME NEW row, IsRow(row), NEW k, NEW c, NEW proto, NEW size \in Nat, NEW l4 \in Nat,
         Reaches(c, size, l4)
  PROVE  LET new == parse_l4(row, k, c, proto) IN
         /\ \A x \in Columns \ {"src_port", "dst_port", "tcp_flags"} : new[x] = row[x]
         /\ size >= l4 + L4Extent(proto) =>
              /\ proto \in {6, 17} => /\ new.src_port = Mark(k, l4)
                                      /\ new.dst_port = Mark(k, l4 + 2)
              /\ proto \notin {6, 17} => /\ new.src_port = row.src_port
                                         /\ new.dst_port = row.dst_port
              /\ new.tcp_flags = IF proto = 6 THEN Mark(k, l4 + 13) ELSE row.tcp_flags
<1> DEFINE c1 == c \odot Skip(2)
           c2 == c1 \odot Skip(2)
           c3 == c2 \odot Skip(8)
           c4 == c3 \odot Skip(1)
           a == WordOrZero(k, c, 2)
           b == WordOrZero(k, c1, 2)
           d == WordOrZero(k, c4, 1)
           ported == [row EXCEPT !.src_port = a, !.dst_port = b]
           flagged == [ported EXCEPT !.tcp_flags = d]
           new == parse_l4(row, k, c, proto)
<1>1. new = CASE proto = 6 -> flagged [] proto = 17 -> ported [] OTHER -> row
  BY DEF parse_l4
<1>2. Reaches(c1, size, l4 + 2)
  BY SkipReaches
<1>3. Reaches(c2, size, (l4 + 2) + 2)
  <2> HIDE DEF c1
  <2> QED
    BY <1>2, SkipReaches
<1>4. Reaches(c3, size, ((l4 + 2) + 2) + 8)
  <2> HIDE DEF c2
  <2> QED
    BY <1>3, SkipReaches
<1>5. Reaches(c4, size, (((l4 + 2) + 2) + 8) + 1)
  <2> HIDE DEF c3
  <2> QED
    BY <1>4, SkipReaches
<1>6. ((((l4 + 2) + 2) + 8) + 1) = l4 + 13
  OBVIOUS
<1>7. Reaches(c4, size, l4 + 13)
  BY <1>5, <1>6
<1> HIDE DEF c1, c4
<1>8. size >= l4 + L4Extent(proto) /\ proto \in {6, 17} => a = Mark(k, l4) /\ b = Mark(k, l4 + 2)
  BY <1>2, WordInPlace DEF L4Extent
<1>9. size >= l4 + L4Extent(proto) /\ proto = 6 => d = Mark(k, l4 + 13)
  BY <1>7, WordInPlace DEF L4Extent
<1>10. DOMAIN row = Columns /\ {"src_port", "dst_port", "tcp_flags"} \subseteq Columns
  BY TupleColumnsAre DEF IsRow, TupleColumns
<1> HIDE DEF a, b, d, new
<1>11. /\ \A x \in Columns \ {"src_port", "dst_port"} : ported[x] = row[x]
       /\ ported.src_port = a /\ ported.dst_port = b /\ DOMAIN ported = Columns
  BY <1>10
<1> HIDE DEF ported
<1>12. /\ \A x \in Columns \ {"tcp_flags"} : flagged[x] = ported[x]
       /\ flagged.tcp_flags = d
  BY <1>10, <1>11
<1> HIDE DEF flagged
<1>13. CASE proto = 6
  BY <1>1, <1>8, <1>9, <1>10, <1>11, <1>12, <1>13 DEF new
<1>14. CASE proto = 17
  BY <1>1, <1>8, <1>10, <1>11, <1>14 DEF new
<1>15. CASE proto \notin {6, 17}
  BY <1>1, <1>15 DEF new
<1> QED
  BY <1>13, <1>14, <1>15

\* The values a record has for a column.
ValuesAt(k, places, x) ==
  LET mark == Mark(k, places[x])
  IN  IF x \in AddressColumns THEN {encode4(mark), encode6(mark)} ELSE {mark}

\* What a record makes of a row whose values belong into certain places: its addresses
\* are in place, gone, or as they were; the whole tuple is if the record is complete.
Placed(new, row, k, places, complete) ==
  /\ \A x \in {"src_addr", "dst_addr"} :
       \/ new[x] = row[x] \/ new[x] = None
       \/ x \in DOMAIN places /\ new[x] \in ValuesAt(k, places, x)
  /\ complete => \A x \in TupleColumns :
                   IF x \in DOMAIN places THEN new[x] \in ValuesAt(k, places, x)
                   ELSE new[x] = row[x]

LEMMA PacketOffsets ==
  ASSUME NEW p \in Packet
  PROVE  /\ NetworkAt(p) \in Nat /\ TransportAt(p) \in Nat
         /\ TransportAt(p) >= NetworkAt(p) + 20
         /\ p.l3 = "ipv6" => TransportAt(p) = NetworkAt(p) + 40
         /\ p.l3 = "ipv4" => TransportAt(p) = IF p.ihl > 5 THEN NetworkAt(p) + 4 * p.ihl
                                              ELSE NetworkAt(p) + 20
         /\ p.ihl \in 0 .. 15 /\ p.proto \in Nat /\ p.l3 \in {"ipv4", "ipv6", "other"}
<1>1. p.ihl \in 0 .. 15 /\ p.proto \in Nat /\ p.l3 \in {"ipv4", "ipv6", "other"}
  BY DEF Packet
<1>2. NetworkAt(p) \in {30, 34}
  BY DEF NetworkAt
<1> QED
  BY <1>1, <1>2 DEF TransportAt

LEMMA Ipv4Values ==
  ASSUME NEW row, IsRow(row), NEW k, NEW p \in Packet, p.l3 = "ipv4", NEW size \in Nat,
         NEW c, Inside(c, size), c.ok, c.pos = NetworkAt(p)
  PROVE  Placed(parse_ipv4(row, k, c, p), row, k, PacketPlaces(p),
                size >= TransportAt(p) + L4Extent(p.proto))
<1> DEFINE l3 == NetworkAt(p)
           l4 == TransportAt(p)
           c0 == c \odot Read(1)
           c1 == c0 \odot Read(1)
           e1 == c1 \odot Skip(2)
           e2 == e1 \odot Skip(2)
           e3 == e2 \odot Skip(2)
           c2 == e3 \odot Skip(1)
           e4 == c2 \odot Skip(1)
           c3 == e4 \odot Skip(2)
           c4 == c3 \odot Skip(4)
           c5 == c4 \odot Skip(4)
           c6 == IF p.ihl > 5 THEN c5 \odot Skip(4 * p.ihl - 20) ELSE c5
           proto == ProtocolAt(p, c2, c.pos + 9)
           sb == BytesOrEmpty(k, c3, 4)
           db == BytesOrEmpty(k, c4, 4)
           s == inet4(sb)
           d == inet4(db)
           w == WordOrZero(k, c2, 1)
           t == Mark(k, l3 + 1)
           mid == [row EXCEPT !.src_addr = s, !.dst_addr = d, !.protocol = w, !.tos = t]
           new == parse_ipv4(row, k, c, p)
           complete == size >= l4 + L4Extent(p.proto)
<1>0. new = IF c1.ok THEN parse_l4(mid, k, c6, proto) ELSE row
  BY DEF parse_ipv4
<1>1. /\ l3 \in Nat /\ l4 \in Nat /\ l4 >= l3 + 20 /\ p.ihl \in 0 .. 15
      /\ l4 = IF p.ihl > 5 THEN l3 + 4 * p.ihl ELSE l3 + 20
  BY PacketOffsets
<1>2. L4Extent(p.proto) \in Nat
  BY DEF L4Extent
<1>3. complete => size >= l4
  BY <1>1, <1>2
<1> HIDE DEF l3, l4
<1>4. ReadUpTo(c1, size, (l3 + 1) + 1)
  <2>1. ReadUpTo(c, size, l3)
    BY <1>1 DEF ReadUpTo, Inside, l3
  <2>2. ReadUpTo(c0, size, l3 + 1)
    BY <1>1, <2>1, ReadOn
  <2> HIDE DEF c0
  <2> QED
    BY <1>1, <2>2, ReadOn
<1> HIDE DEF c1
<1>5. CASE ~c1.ok
  <2>1. new = row
    BY <1>0, <1>5
  <2>2. ~complete
    BY <1>1, <1>3, <1>4, <1>5 DEF ReadUpTo
  <2> HIDE DEF complete, new
  <2> QED
    BY <2>1, <2>2 DEF Placed, complete, new, l4
<1>6. CASE c1.ok
  <2>1. At(c1, size, l3 + 2, 4)
    <3>1. Inside(c1, size) /\ c1.pos = l3 + 2
      BY <1>1, <1>4, <1>6 DEF ReadUpTo
    <3> QED
      BY <3>1, AtPlace
  <2>2. At(e1, size, l3 + 4, 4)
    BY <1>1, <2>1, SkipAt
  <2> HIDE DEF e1
  <2>3. At(e2, size, l3 + 6, 4)
    BY <1>1, <2>2, SkipAt
  <2> HIDE DEF e2
  <2>4. At(e3, size, l3 + 8, 4)
    BY <1>1, <2>3, SkipAt
  <2> HIDE DEF e3
  <2>5. At(c2, size, l3 + 9, 4)
    BY <1>1, <2>4, SkipAt
  <2> HIDE DEF c2
  <2>6. At(e4, size, l3 + 10, 4)
    BY <1>1, <2>5, SkipAt
  <2> HIDE DEF e4
  <2>7. At(c3, size, l3 + 12, 4)
    BY <1>1, <2>6, SkipAt
  <2> HIDE DEF c3
  <2>8. At(c4, size, l3 + 16, 4)
    BY <1>1, <2>7, SkipAt
  <2> HIDE DEF c4
  <2>9. At(c5, size, l3 + 20, 4)
    BY <1>1, <2>8, SkipAt
  <2> HIDE DEF c5
  <2>10. Reaches(c6, size, l4)
    <3>1. CASE p.ihl > 5
      <4>1. 4 * p.ihl - 20 \in Nat /\ l4 = (l3 + 20) + (4 * p.ihl - 20) /\ l3 + 20 \in Nat
        BY <1>1, <3>1
      <4>2. Reaches(c5 \odot Skip(4 * p.ihl - 20), size, (l3 + 20) + (4 * p.ihl - 20))
        BY <2>9, <4>1, SkipReaches DEF At
      <4> QED
        BY <3>1, <4>1, <4>2
    <3>2. CASE ~(p.ihl > 5)
      BY <1>1, <2>9, <3>2 DEF At
    <3> QED
      BY <3>1, <3>2
  <2> HIDE DEF c6
  <2>11. s \in {None, encode4(Mark(k, l3 + 12))} /\ (complete => s = encode4(Mark(k, l3 + 12)))
    BY <1>1, <1>3, <2>7, AddressInPlace DEF inet4
  <2>12. d \in {None, encode4(Mark(k, l3 + 16))} /\ (complete => d = encode4(Mark(k, l3 + 16)))
    BY <1>1, <1>3, <2>8, AddressInPlace DEF inet4
  <2>13. complete => w = Mark(k, l3 + 9) /\ proto = p.proto
    <3>1. complete => InBounds(c2, 1) /\ c2.pos = l3 + 9
      BY <1>1, <1>3, <2>5, ReachReads DEF At
    <3>2. c.pos + 9 = l3 + 9
      BY DEF l3
    <3> HIDE DEF complete
    <3> QED
      BY <3>1, <3>2 DEF WordOrZero, ProtocolAt
  <2> HIDE DEF s, d, w, t, proto
  <2>14. DOMAIN row = Columns /\ TupleColumns \cup {"raw_fields"} \subseteq Columns
    BY TupleColumnsAre DEF IsRow
  <2>15. /\ mid = [x \in Columns |-> mid[x]]
         /\ mid.src_addr = s /\ mid.dst_addr = d /\ mid.protocol = w /\ mid.tos = t
         /\ mid.src_port = row.src_port /\ mid.dst_port = row.dst_port
         /\ mid.tcp_flags = row.tcp_flags /\ mid.raw_fields = row.raw_fields
    BY <2>14 DEF TupleColumns
  <2> HIDE DEF mid
  <2>16. IsRow(mid)
    BY <2>15 DEF IsRow
  <2> DEFINE end == parse_l4(mid, k, c6, proto)
  <2>17. /\ end.src_addr = s /\ end.dst_addr = d /\ end.protocol = w /\ end.tos = t
         /\ complete =>
              /\ p.proto \in {6, 17} => end.src_port = Mark(k, l4) /\ end.dst_port = Mark(k, l4 + 2)
              /\ p.proto \notin {6, 17} => /\ end.src_port = row.src_port
                                           /\ end.dst_port = row.dst_port
              /\ end.tcp_flags = IF p.proto = 6 THEN Mark(k, l4 + 13) ELSE row.tcp_flags
    BY <1>1, <2>10, <2>13, <2>14, <2>15, <2>16, L4Values DEF TupleColumns
  <2>18. new = end
    BY <1>0, <1>6
  <2> HIDE DEF end, new
  <2> DEFINE places == PacketPlaces(p)
  <2>19. /\ DOMAIN places = {"src_addr", "dst_addr", "protocol", "tos"}
              \cup (IF p.proto = 6 THEN {"src_port", "dst_port", "tcp_flags"}
                    ELSE IF p.proto = 17 THEN {"src_port", "dst_port"} ELSE {})
         /\ places["src_addr"] = l3 + 12 /\ places["dst_addr"] = l3 + 16
         /\ places["protocol"] = l3 + 9 /\ places["tos"] = l3 + 1
         /\ p.proto \in {6, 17} => places["src_port"] = l4 /\ places["dst_port"] = l4 + 2
         /\ p.proto = 6 => places["tcp_flags"] = l4 + 13
    BY DEF PacketPlaces, PacketColumns, l3, l4
  <2> HIDE DEF places, complete
  <2>20. \A x \in {"src_addr", "dst_addr"} :
            new[x] = None \/ (x \in DOMAIN places /\ new[x] \in ValuesAt(k, places, x))
    BY <2>11, <2>12, <2>17, <2>18, <2>19 DEF ValuesAt, AddressColumns
  <2>21. ASSUME complete, NEW x \in TupleColumns
         PROVE  IF x \in DOMAIN places THEN new[x] \in ValuesAt(k, places, x)
                ELSE new[x] = row[x]
    BY <2>11, <2>12, <2>13, <2>17, <2>18, <2>19, <2>21
    DEF ValuesAt, AddressColumns, TupleColumns, t
  <2> QED
    BY <2>20, <2>21 DEF Placed, complete, new, places, l4
<1> QED
  BY <1>5, <1>6

LEMMA Ipv6Values ==
  ASSUME NEW row, IsRow(row), NEW k, NEW p \in Packet, p.l3 = "ipv6", NEW size \in Nat,
         NEW c, Inside(c, size), c.ok, c.pos = NetworkAt(p)
  PROVE  Placed(parse_ipv6(row, k, c, p), row, k, PacketPlaces(p),
                size >= TransportAt(p) + L4Extent(p.proto))
<1> DEFINE l3 == NetworkAt(p)
           l4 == TransportAt(p)
           c1 == c \odot Read(4)
           c2 == c1 \odot Skip(2)
           e1 == c2 \odot Skip(1)
           c3 == e1 \odot Skip(1)
           c4 == c3 \odot Skip(16)
           c5 == c4 \odot Skip(16)
           proto == ProtocolAt(p, c2, c.pos + 6)
           sb == BytesOrEmpty(k, c3, 16)
           db == BytesOrEmpty(k, c4, 16)
           s == inet6(sb)
           d == inet6(db)
           w == WordOrZero(k, c2, 1)
           mid == [row EXCEPT !.src_addr = s, !.dst_addr = d, !.protocol = w]
           new == parse_ipv6(row, k, c, p)
           complete == size >= l4 + L4Extent(p.proto)
<1>0. new = IF c1.ok THEN parse_l4(mid, k, c5, proto) ELSE row
  BY DEF parse_ipv6
<1>1. l3 \in Nat /\ l4 \in Nat /\ l4 = l3 + 40
  BY PacketOffsets
<1>2. L4Extent(p.proto) \in Nat
  BY DEF L4Extent
<1>3. complete => size >= l4
  BY <1>1, <1>2
<1> HIDE DEF l3, l4
<1>4. ReadUpTo(c1, size, l3 + 4)
  <2>1. ReadUpTo(c, size, l3)
    BY <1>1 DEF ReadUpTo, Inside, l3
  <2> QED
    BY <1>1, <2>1, ReadOn
<1> HIDE DEF c1
<1>5. CASE ~c1.ok
  <2>1. new = row
    BY <1>0, <1>5
  <2>2. ~complete
    BY <1>1, <1>3, <1>4, <1>5 DEF ReadUpTo
  <2> HIDE DEF complete, new
  <2> QED
    BY <2>1, <2>2 DEF Placed, complete, new, l4
<1>6. CASE c1.ok
  <2>1. At(c1, size, l3 + 4, 16)
    <3>1. Inside(c1, size) /\ c1.pos = l3 + 4
      BY <1>1, <1>4, <1>6 DEF ReadUpTo
    <3> QED
      BY <3>1, AtPlace
  <2>2. At(c2, size, l3 + 6, 16)
    BY <1>1, <2>1, SkipAt
  <2> HIDE DEF c2
  <2>3. At(e1, size, l3 + 7, 16)
    BY <1>1, <2>2, SkipAt
  <2> HIDE DEF e1
  <2>4. At(c3, size, l3 + 8, 16)
    BY <1>1, <2>3, SkipAt
  <2> HIDE DEF c3
  <2>5. At(c4, size, l3 + 24, 16)
    BY <1>1, <2>4, SkipAt
  <2> HIDE DEF c4
  <2>6. At(c5, size, l3 + 40, 16)
    BY <1>1, <2>5, SkipAt
  <2>7. Reaches(c5, size, l4)
    BY <1>1, <2>6 DEF At
  <2> HIDE DEF c5
  <2>8. s \in {None, encode6(Mark(k, l3 + 8))} /\ (complete => s = encode6(Mark(k, l3 + 8)))
    BY <1>1, <1>3, <2>4, AddressInPlace DEF inet6
  <2>9. d \in {None, encode6(Mark(k, l3 + 24))} /\ (complete => d = encode6(Mark(k, l3 + 24)))
    BY <1>1, <1>3, <2>5, AddressInPlace DEF inet6
  <2>10. complete => w = Mark(k, l3 + 6) /\ proto = p.proto
    <3>1. complete => InBounds(c2, 1) /\ c2.pos = l3 + 6
      BY <1>1, <1>3, <2>2, ReachReads DEF At
    <3>2. c.pos + 6 = l3 + 6
      BY DEF l3
    <3> HIDE DEF complete
    <3> QED
      BY <3>1, <3>2 DEF WordOrZero, ProtocolAt
  <2> HIDE DEF s, d, w, proto
  <2>11. DOMAIN row = Columns /\ TupleColumns \cup {"raw_fields"} \subseteq Columns
    BY TupleColumnsAre DEF IsRow
  <2>12. /\ mid = [x \in Columns |-> mid[x]]
         /\ mid.src_addr = s /\ mid.dst_addr = d /\ mid.protocol = w /\ mid.tos = row.tos
         /\ mid.src_port = row.src_port /\ mid.dst_port = row.dst_port
         /\ mid.tcp_flags = row.tcp_flags /\ mid.raw_fields = row.raw_fields
    BY <2>11 DEF TupleColumns
  <2> HIDE DEF mid
  <2>13. IsRow(mid)
    BY <2>12 DEF IsRow
  <2> DEFINE end == parse_l4(mid, k, c5, proto)
  <2>14. /\ end.src_addr = s /\ end.dst_addr = d /\ end.protocol = w /\ end.tos = row.tos
         /\ complete =>
              /\ p.proto \in {6, 17} => end.src_port = Mark(k, l4) /\ end.dst_port = Mark(k, l4 + 2)
              /\ p.proto \notin {6, 17} => /\ end.src_port = row.src_port
                                           /\ end.dst_port = row.dst_port
              /\ end.tcp_flags = IF p.proto = 6 THEN Mark(k, l4 + 13) ELSE row.tcp_flags
    BY <1>1, <2>7, <2>10, <2>11, <2>12, <2>13, L4Values DEF TupleColumns
  <2>15. new = end
    BY <1>0, <1>6
  <2> HIDE DEF end, new
  <2> DEFINE places == PacketPlaces(p)
  <2>16. /\ DOMAIN places = {"src_addr", "dst_addr", "protocol"}
              \cup (IF p.proto = 6 THEN {"src_port", "dst_port", "tcp_flags"}
                    ELSE IF p.proto = 17 THEN {"src_port", "dst_port"} ELSE {})
         /\ places["src_addr"] = l3 + 8 /\ places["dst_addr"] = l3 + 24
         /\ places["protocol"] = l3 + 6
         /\ p.proto \in {6, 17} => places["src_port"] = l4 /\ places["dst_port"] = l4 + 2
         /\ p.proto = 6 => places["tcp_flags"] = l4 + 13
    BY DEF PacketPlaces, PacketColumns, l3, l4
  <2> HIDE DEF places, complete
  <2>17. \A x \in {"src_addr", "dst_addr"} :
            new[x] = None \/ (x \in DOMAIN places /\ new[x] \in ValuesAt(k, places, x))
    BY <2>8, <2>9, <2>14, <2>15, <2>16 DEF ValuesAt, AddressColumns
  <2>18. ASSUME complete, NEW x \in TupleColumns
         PROVE  IF x \in DOMAIN places THEN new[x] \in ValuesAt(k, places, x)
                ELSE new[x] = row[x]
    BY <2>8, <2>9, <2>10, <2>14, <2>15, <2>16, <2>18 DEF ValuesAt, AddressColumns, TupleColumns
  <2> QED
    BY <2>17, <2>18 DEF Placed, complete, new, places, l4
<1> QED
  BY <1>5, <1>6

\* The link layer of a packet at offset 16, or of none at all.
LEMMA L2Values ==
  ASSUME NEW row, IsRow(row), NEW k, NEW p \in Packet, NEW size \in Nat,
         NEW c, Inside(c, size), c.ok, c.pos = 16 \/ size = c.pos
  PROVE  Placed(parse_l2(row, k, c, p), row, k, PacketPlaces(p),
                c.pos = 16 /\ size >= TransportAt(p) + L4Extent(p.proto))
<1> DEFINE l3 == NetworkAt(p)
           l4 == TransportAt(p)
           c1 == c \odot Read(12)
           e1 == c1 \odot Skip(2)
           e2 == e1 \odot Skip(2)
           c2 == IF p.tagged THEN e2 ELSE c1
           c3 == c2 \odot Skip(2)
           new == parse_l2(row, k, c, p)
           places == PacketPlaces(p)
           extent == l4 + L4Extent(p.proto)
           complete == c.pos = 16 /\ size >= extent
           known == c1.ok /\ InBounds(c2, 2)
<1>0. new = CASE known /\ p.l3 = "ipv4" -> parse_ipv4(row, k, c3, p)
              [] known /\ p.l3 = "ipv6" -> parse_ipv6(row, k, c3, p)
              [] OTHER -> row
  BY DEF parse_l2
<1>1. /\ l3 \in Nat /\ extent \in Nat /\ extent >= l3 + 20
      /\ p.l3 \in {"ipv4", "ipv6", "other"}
      /\ l3 = IF p.tagged THEN 34 ELSE 30
  BY PacketOffsets DEF L4Extent, NetworkAt
<1>2. c \in CursorType /\ c.size = size /\ c.pos <= size /\ c.pos \in Nat
  BY DEF Inside, CursorType
<1>3. ReadUpTo(c1, size, c.pos + 12)
  <2>1. ReadUpTo(c, size, c.pos)
    BY <1>2 DEF ReadUpTo
  <2> QED
    BY <1>2, <2>1, ReadOn
<1> HIDE DEF c1, extent
<1>4. CASE c1.ok /\ c.pos = 16
  <2>1. At(c1, size, 28, 2)
    <3>1. Inside(c1, size) /\ c1.pos = 28
      BY <1>3, <1>4 DEF ReadUpTo
    <3> QED
      BY <3>1, AtPlace
  <2>2. At(e1, size, 30, 2)
    BY <2>1, SkipAt
  <2> HIDE DEF e1
  <2>3. At(e2, size, 32, 2)
    BY <2>2, SkipAt
  <2> HIDE DEF e2
  <2>4. At(c2, size, l3 - 2, 2)
    BY <1>1, <2>1, <2>3
  <2> HIDE DEF c2
  <2>5. complete => InBounds(c2, 2)
    BY <1>1, <2>4, ReachReads DEF At
  <2>6. CASE InBounds(c2, 2)
    <3>1. c2.pos = l3 - 2 /\ c2 \in CursorType /\ c2.size = size
      BY <1>1, <2>4, <2>6, NearReads DEF At, Near, Inside
    <3>2. c3.pos = l3 /\ Inside(c3, size)
      <4>1. l3 - 2 \in Nat /\ (l3 - 2) + 2 = l3 /\ Inside(c2, size)
        BY <1>1, <2>4 DEF At, Near
      <4> QED
        BY <2>6, <3>1, <4>1, SkipIn, ReadInside
    <3>3. c3.ok
      <4>1. c1.ok => c2.ok
        <5>1. ASSUME NEW a, Inside(a, size), a.ok PROVE (a \odot Skip(2)).ok
          <6>1. a \in CursorType
            BY <5>1 DEF Inside
          <6> QED
            BY <5>1, <6>1, SkipIn, SkipOut
        <5>2. Inside(c1, size) /\ Inside(e1, size)
          BY <2>1, <2>2 DEF At, Near
        <5> QED
          BY <5>1, <5>2 DEF c2, e1, e2
      <4> QED
        BY <1>4, <2>6, <3>1, <4>1, SkipIn
    <3> HIDE DEF c3
    <3>4. CASE p.l3 = "ipv4"
      <4>1. Placed(parse_ipv4(row, k, c3, p), row, k, places, size >= extent)
        BY <3>2, <3>3, <3>4, Ipv4Values DEF extent
      <4>2. new = parse_ipv4(row, k, c3, p)
        BY <1>0, <1>4, <2>6, <3>4
      <4> HIDE DEF new, places
      <4> QED
        BY <4>1, <4>2 DEF Placed, new, places, extent
    <3>5. CASE p.l3 = "ipv6"
      <4>1. Placed(parse_ipv6(row, k, c3, p), row, k, places, size >= extent)
        BY <3>2, <3>3, <3>5, Ipv6Values DEF extent
      <4>2. new = parse_ipv6(row, k, c3, p)
        BY <1>0, <1>4, <2>6, <3>5
      <4> HIDE DEF new, places
      <4> QED
        BY <4>1, <4>2 DEF Placed, new, places, extent
    <3>6. CASE p.l3 = "other"
      <4>1. new = row
        BY <1>0, <3>6
      <4>2. DOMAIN places = {}
        BY <3>6 DEF PacketPlaces, PacketColumns
      <4> HIDE DEF new, places
      <4> QED
        BY <4>1, <4>2 DEF Placed, new, places
    <3> QED
      BY <1>1, <3>4, <3>5, <3>6
  <2>7. CASE ~InBounds(c2, 2)
    <3>1. new = row /\ ~complete
      BY <1>0, <2>5, <2>7
    <3> HIDE DEF new, places, complete
    <3> QED
      BY <3>1 DEF Placed, new, places, complete, extent
  <2> QED
    BY <2>6, <2>7
<1>5. CASE ~(c1.ok /\ c.pos = 16)
  <2>1. ~c1.ok
    BY <1>2, <1>3, <1>5 DEF ReadUpTo
  <2>2. ~complete
    BY <1>1, <1>3, <2>1 DEF ReadUpTo
  <2>3. new = row
    BY <1>0, <2>1
  <2> HIDE DEF new, places, complete
  <2> QED
    BY <2>2, <2>3 DEF Placed, new, places, complete, extent
<1> QED
  BY <1>4, <1>5

\* Scaling touches nothing but the counts.
LEMMA ScaleKeeps ==
  ASSUME NEW row, IsRow(row), NEW frame, NEW rate
  PROVE  LET new == scale_counts(row, frame, rate) IN
         IsRow(new) /\ \A x \in TupleColumns \cup LinkColumns : new[x] = row[x]
<1> DEFINE m == saturating_mul(frame, rate)
           base == [row EXCEPT !.bytes = m, !.packets = rate]
           one == put_raw(base, "sflow.frame_length", frame)
           two == put_raw(one, "sflow.sampling_rate", rate)
<1>1. DOMAIN row = Columns /\ IsList(row.raw_fields) /\ "raw_fields" \in Columns
  BY TupleColumnsAre DEF IsRow
<1>2. /\ TupleColumns \cup LinkColumns \subseteq Columns \ {"raw_fields"}
      /\ {"bytes", "packets"} \cap (TupleColumns \cup LinkColumns) = {}
  BY DEF TupleColumns, LinkColumns, Columns, FlowColumns, AddressColumns
<1>3. scale_counts(row, frame, rate) = two
  BY DEF scale_counts
<1> HIDE DEF m
<1>4. /\ base = [c \in Columns |-> base[c]] /\ base.raw_fields = row.raw_fields
      /\ \A x \in Columns \ {"bytes", "packets"} : base[x] = row[x]
  BY <1>1
<1> HIDE DEF base
<1>5. IsRow(base)
  BY <1>1, <1>4 DEF IsRow
<1>6. IsRow(one) /\ \A x \in Columns \ {"raw_fields"} : one[x] = base[x]
  BY <1>5, PutRaw
<1> HIDE DEF one
<1>7. IsRow(two) /\ \A x \in Columns \ {"raw_fields"} : two[x] = one[x]
  <2>1. IsRow(one)
    BY <1>6
  <2> QED
    BY <2>1, PutRaw
<1> HIDE DEF two
<1>8. \A x \in TupleColumns \cup LinkColumns : two[x] = row[x]
  BY <1>2, <1>4, <1>6, <1>7
<1> QED
  BY <1>3, <1>7, <1>8

\* What a record does to the values of a row, and what it leaves alone.
RecordPlaced(new, row, k, rec) ==
  /\ Placed(new, row, k, Places(rec), Complete(rec))
  /\ \A x \in LinkColumns : new[x] = row[x]

LEMMA RawHeaderValues ==
  ASSUME NEW row, IsRow(row), NEW k, NEW rec \in SampleRecord, NEW rate, rec.format = 1
  PROVE  RecordPlaced(parse_record(row, k, rec, rate), row, k, rec)
<1> DEFINE size == rec.size
           p == rec.packet
           c0 == Cursor(size)
           c1 == c0 \odot Skip(4)
           c2 == c1 \odot Skip(4)
           c3 == c2 \odot Skip(4)
           c4 == c3 \odot Skip(4)
           frame == IF InBounds(c1, 4) THEN rec.frame ELSE 0
           captured == IF InBounds(c3, 4) THEN rec.captured ELSE 0
           mid == scale_counts(row, frame, rate)
           body == Slice(c4, captured)
           new == parse_l2(mid, k, body, p)
           places == PacketPlaces(p)
           extent == TransportAt(p) + L4Extent(p.proto)
<1>1. size \in Nat /\ rec.captured \in Nat /\ p \in Packet
  BY DEF SampleRecord
<1>2. parse_record(row, k, rec, rate) = new /\ Places(rec) = places
  BY DEF parse_record, parse_raw_header, Places
<1>3. Complete(rec) => size >= extent /\ 16 + rec.captured >= extent /\ 16 + rec.captured <= size
  <2>1. Extent(rec) = extent /\ extent \in Nat
    BY <1>1, PacketOffsets DEF Extent, L4Extent
  <2> QED
    BY <1>1, <2>1 DEF Complete
<1>4. extent \in Nat /\ extent >= 50
  BY <1>1, PacketOffsets DEF L4Extent, NetworkAt
<1>5. /\ IsRow(mid) /\ \A x \in TupleColumns \cup LinkColumns : mid[x] = row[x]
  BY ScaleKeeps
<1> HIDE DEF size, p, mid, extent
<1>6. At(c0, size, 0, 4)
  <2>1. Inside(c0, size) /\ c0.pos = 0
    BY <1>1, CursorInside DEF Cursor
  <2> QED
    BY <1>1, <2>1, AtPlace
<1> HIDE DEF c0
<1>7. At(c1, size, 4, 4)
  BY <1>1, <1>6, SkipAt
<1> HIDE DEF c1
<1>8. At(c2, size, 8, 4)
  BY <1>1, <1>7, SkipAt
<1> HIDE DEF c2
<1>9. At(c3, size, 12, 4)
  BY <1>1, <1>8, SkipAt
<1>10. c3 \in CursorType /\ c3.size = size /\ c3.pos <= size /\ c3.pos \in Nat
  BY <1>9 DEF At, Near, Inside, CursorType
<1>11. c3.ok
  <2>1. ASSUME NEW a, a \in CursorType, a.ok PROVE (a \odot Skip(4)).ok
    BY <2>1, SkipIn, SkipOut
  <2>2. c0 \in CursorType /\ c1 \in CursorType /\ c2 \in CursorType
    BY <1>6, <1>7, <1>8 DEF At, Near, Inside
  <2>3. c0.ok
    BY DEF c0, Cursor
  <2> QED
    BY <2>1, <2>2, <2>3 DEF c1, c2
<1> HIDE DEF c3
<1>12. \E end \in Nat :
         /\ Inside(body, end) /\ body.ok /\ (body.pos = 16 \/ end = body.pos)
         /\ Complete(rec) => body.pos = 16 /\ end >= extent
  <2>1. CASE InBounds(c3, 4)
    <3>1. c3.pos = 12 /\ c4 = [size |-> size, pos |-> 16, ok |-> TRUE] /\ size >= 16
      <4>1. c3.pos = 12
        BY <1>1, <1>9, <2>1, NearReads DEF At
      <4>2. c4 = [size |-> c3.size, pos |-> c3.pos + 4, ok |-> c3.ok]
        BY <1>10, <2>1, SkipIn
      <4>3. c3.ok = TRUE
        BY <1>10, <1>11 DEF CursorType
      <4> QED
        BY <1>1, <1>10, <2>1, <4>1, <4>2, <4>3 DEF InBounds, remaining
    <3> HIDE DEF c4
    <3> DEFINE end == IF rec.captured <= size - 16 THEN 16 + rec.captured ELSE 16
    <3>2. body = [size |-> end, pos |-> 16, ok |-> TRUE]
      <4>1. /\ c4 \in CursorType /\ c4.pos = 16 /\ c4.size = size /\ c4.ok = TRUE
            /\ captured = rec.captured
        BY <1>1, <2>1, <3>1 DEF CursorType
      <4>2. Slice(c4, rec.captured)
              = [size |-> IF rec.captured <= c4.size - c4.pos THEN c4.pos + rec.captured
                          ELSE c4.pos,
                 pos |-> c4.pos, ok |-> c4.ok]
        BY <1>1, <3>1, <4>1, SliceIs
      <4> QED
        BY <4>1, <4>2
    <3>3. end \in Nat /\ 16 <= end /\ (Complete(rec) => end >= extent)
      BY <1>1, <1>3, <1>4
    <3> HIDE DEF end, body
    <3>4. Inside(body, end) /\ body.ok /\ body.pos = 16
      BY <3>2, <3>3 DEF Inside, CursorType
    <3> QED
      BY <3>3, <3>4
  <2>2. CASE ~InBounds(c3, 4)
    <3>1. c4 = c3
      BY <1>10, <2>2, SkipOut
    <3>2. ~Complete(rec)
      BY <1>1, <1>3, <1>4, <1>9, <2>2, ReachReads DEF At
    <3>3. captured = 0
      BY <2>2
    <3> HIDE DEF c4, captured
    <3>4. body = [size |-> c3.pos, pos |-> c3.pos, ok |-> TRUE]
      <4>1. c3.ok = TRUE
        BY <1>10, <1>11 DEF CursorType
      <4>2. 0 <= c3.size - c3.pos /\ c3.pos + 0 = c3.pos
        BY <1>1, <1>10
      <4> QED
        BY <1>1, <1>10, <3>1, <3>3, <4>1, <4>2, SliceIs
    <3> HIDE DEF body
    <3>5. Inside(body, c3.pos) /\ body.ok /\ body.pos = c3.pos
      BY <1>10, <3>4 DEF Inside, CursorType
    <3> QED
      BY <1>10, <3>2, <3>5
  <2> QED
    BY <2>1, <2>2
<1> HIDE DEF body
<1>13. PICK end \in Nat :
         /\ Inside(body, end) /\ body.ok /\ (body.pos = 16 \/ end = body.pos)
         /\ Complete(rec) => body.pos = 16 /\ end >= extent
  BY <1>12
<1>14. Placed(new, mid, k, places, body.pos = 16 /\ end >= extent)
  BY <1>1, <1>5, <1>13, L2Values DEF extent
<1>15. Keeps(new, mid)
  BY <1>5, parse_l2_Keeps
<1> HIDE DEF new, places
<1>16. Placed(new, row, k, places, Complete(rec))
  BY <1>5, <1>13, <1>14 DEF Placed, TupleColumns
<1>17. \A x \in LinkColumns : new[x] = row[x]
  BY <1>5, <1>15 DEF Keeps, KeptByParsers
<1> QED
  BY <1>2, <1>16, <1>17 DEF RecordPlaced

\* A word narrowed to its last w bytes.
LEMMA NarrowedInPlace ==
  ASSUME NEW size \in Nat, NEW p \in Nat, NEW m \in Nat, NEW c, At(c, size, p, m),
         size >= p + 4, NEW k, NEW w
  PROVE  Narrowed(k, c, 4, w) = Mark(k, p + 4 - w)
<1>1. InBounds(c, 4) /\ c.pos = p
  BY ReachReads DEF At
<1> QED
  BY <1>1 DEF Narrowed

\* The words of a sampled IPv4 or IPv6 tuple: two addresses of n bytes at offset 8.
LEMMA TupleWords ==
  ASSUME NEW size \in Nat, NEW n \in {4, 16}, NEW k
  PROVE  LET c1 == Cursor(size) \odot Skip(4)
             c2 == c1 \odot Skip(4)
             c3 == c2 \odot Skip(n)
             c4 == c3 \odot Skip(n)
             c5 == c4 \odot Skip(4)
             c6 == c5 \odot Skip(4)
             sb == BytesOrEmpty(k, c2, n)
             db == BytesOrEmpty(k, c3, n)
         IN  /\ sb.len \in {0, n} /\ (sb.len = n => sb.val = Mark(k, 8))
             /\ db.len \in {0, n} /\ (db.len = n => db.val = Mark(k, 8 + n))
             /\ size >= 20 + 2 * n =>
                  /\ sb.len = n /\ db.len = n
                  /\ Narrowed(k, c1, 4, 1) = Mark(k, 7)
                  /\ Narrowed(k, c4, 4, 2) = Mark(k, 10 + 2 * n)
                  /\ Narrowed(k, c5, 4, 2) = Mark(k, 14 + 2 * n)
                  /\ Narrowed(k, c6, 4, 1) = Mark(k, 19 + 2 * n)
             /\ size >= 24 + 2 * n => Narrowed(k, c6 \odot Skip(4), 4, 1) = Mark(k, 23 + 2 * n)
<1> DEFINE c0 == Cursor(size)
           c1 == c0 \odot Skip(4)
           c2 == c1 \odot Skip(4)
           c3 == c2 \odot Skip(n)
           c4 == c3 \odot Skip(n)
           c5 == c4 \odot Skip(4)
           c6 == c5 \odot Skip(4)
           c7 == c6 \odot Skip(4)
<1>0. n \in Nat \ {0} /\ n >= 4
  OBVIOUS
<1>1. At(c0, size, 0, n)
  <2>1. Inside(c0, size) /\ c0.pos = 0
    BY CursorInside DEF Cursor
  <2> QED
    BY <2>1, AtPlace
<1> HIDE DEF c0
<1>2. At(c1, size, 4, n)
  BY <1>0, <1>1, SkipAt
<1> HIDE DEF c1
<1>3. At(c2, size, 8, n)
  BY <1>0, <1>2, SkipAt
<1> HIDE DEF c2
<1>4. At(c3, size, 8 + n, n)
  BY <1>0, <1>3, SkipAt
<1> HIDE DEF c3
<1>5. At(c4, size, 8 + 2 * n, n)
  BY <1>0, <1>4, SkipAt
<1> HIDE DEF c4
<1>6. At(c5, size, 12 + 2 * n, n)
  BY <1>0, <1>5, SkipAt
<1> HIDE DEF c5
<1>7. At(c6, size, 16 + 2 * n, n)
  BY <1>0, <1>6, SkipAt
<1> HIDE DEF c6
<1>8. At(c7, size, 20 + 2 * n, n)
  BY <1>0, <1>7, SkipAt
<1> HIDE DEF c7
<1>9. LET sb == BytesOrEmpty(k, c2, n) IN
      /\ sb.len \in {0, n} /\ (sb.len = n => sb.val = Mark(k, 8))
      /\ size >= 20 + 2 * n => sb.len = n
  BY <1>0, <1>3, AddressInPlace
<1>10. LET db == BytesOrEmpty(k, c3, n) IN
       /\ db.len \in {0, n} /\ (db.len = n => db.val = Mark(k, 8 + n))
       /\ size >= 20 + 2 * n => db.len = n
  BY <1>0, <1>4, AddressInPlace
<1>11. size >= 20 + 2 * n => Narrowed(k, c1, 4, 1) = Mark(k, 7)
  BY <1>0, <1>2, NarrowedInPlace
<1>12. size >= 20 + 2 * n => Narrowed(k, c4, 4, 2) = Mark(k, (8 + 2 * n) + 4 - 2)
  BY <1>0, <1>5, NarrowedInPlace
<1>13. size >= 20 + 2 * n => Narrowed(k, c5, 4, 2) = Mark(k, (12 + 2 * n) + 4 - 2)
  BY <1>0, <1>6, NarrowedInPlace
<1>14. size >= 20 + 2 * n => Narrowed(k, c6, 4, 1) = Mark(k, (16 + 2 * n) + 4 - 1)
  BY <1>0, <1>7, NarrowedInPlace
<1>15. size >= 24 + 2 * n => Narrowed(k, c7, 4, 1) = Mark(k, (20 + 2 * n) + 4 - 1)
  BY <1>0, <1>8, NarrowedInPlace
<1>16. /\ (8 + 2 * n) + 4 - 2 = 10 + 2 * n /\ (12 + 2 * n) + 4 - 2 = 14 + 2 * n
       /\ (16 + 2 * n) + 4 - 1 = 19 + 2 * n /\ (20 + 2 * n) + 4 - 1 = 23 + 2 * n
  BY <1>0
<1> QED
  BY <1>9, <1>10, <1>11, <1>12, <1>13, <1>14, <1>15, <1>16 DEF c0, c1, c2, c3, c4, c5, c6, c7

LEMMA SampledTupleValues ==
  ASSUME NEW row, IsRow(row), NEW k, NEW rec \in SampleRecord, NEW rate, rec.format \in {3, 4}
  PROVE  RecordPlaced(parse_record(row, k, rec, rate), row, k, rec)
<1> DEFINE size == rec.size
           n == IF rec.format = 3 THEN 4 ELSE 16
           c1 == Cursor(size) \odot Skip(4)
           c2 == c1 \odot Skip(4)
           c3 == c2 \odot Skip(n)
           c4 == c3 \odot Skip(n)
           c5 == c4 \odot Skip(4)
           c6 == c5 \odot Skip(4)
           sb == BytesOrEmpty(k, c2, n)
           db == BytesOrEmpty(k, c3, n)
           s == IF rec.format = 3 THEN inet4(sb) ELSE inet6(sb)
           d == IF rec.format = 3 THEN inet4(db) ELSE inet6(db)
           p == Narrowed(k, c1, 4, 1)
           a == Narrowed(k, c4, 4, 2)
           b == Narrowed(k, c5, 4, 2)
           g == Narrowed(k, c6, 4, 1)
           t == IF n = 4 THEN Narrowed(k, c6 \odot Skip(4), 4, 1) ELSE row.tos
           frame == IF InBounds(Cursor(size), 4) THEN rec.frame ELSE 0
           mid == [row EXCEPT !.src_addr = s, !.dst_addr = d, !.protocol = p,
                              !.src_port = a, !.dst_port = b, !.tcp_flags = g, !.tos = t]
           new == scale_counts(mid, frame, rate)
           places == Places(rec)
           complete == Complete(rec)
<1>1. parse_record(row, k, rec, rate) = new
  <2>1. CASE rec.format = 3
    BY <2>1 DEF parse_record, parse_sampled_ipv4, SampledTuple
  <2>2. CASE rec.format = 4
    BY <2>2 DEF parse_record, parse_sampled_ipv6, SampledTuple
  <2> QED
    BY <2>1, <2>2
<1>2. size \in Nat /\ n \in {4, 16}
  BY DEF SampleRecord
<1>3. complete => size >= 20 + 2 * n /\ (n = 4 => size >= 24 + 2 * n)
  BY <1>2 DEF Complete, Extent
<1>4. /\ sb.len \in {0, n} /\ (sb.len = n => sb.val = Mark(k, 8))
      /\ db.len \in {0, n} /\ (db.len = n => db.val = Mark(k, 8 + n))
      /\ complete => /\ sb.len = n /\ db.len = n /\ p = Mark(k, 7) /\ a = Mark(k, 10 + 2 * n)
                     /\ b = Mark(k, 14 + 2 * n) /\ g = Mark(k, 19 + 2 * n)
                     /\ n = 4 => Narrowed(k, c6 \odot Skip(4), 4, 1) = Mark(k, 23 + 2 * n)
  <2> HIDE DEF size, n, complete
  <2> QED
    BY <1>2, <1>3, TupleWords
<1> HIDE DEF c1, c2, c3, c4, c5, c6, sb, db
<1>5. /\ s \in {None, encode4(Mark(k, 8)), encode6(Mark(k, 8))}
      /\ complete => s \in {encode4(Mark(k, 8)), encode6(Mark(k, 8))}
  BY <1>2, <1>4 DEF inet4, inet6
<1>6. /\ d \in {None, encode4(Mark(k, 8 + n)), encode6(Mark(k, 8 + n))}
      /\ complete => d \in {encode4(Mark(k, 8 + n)), encode6(Mark(k, 8 + n))}
  BY <1>2, <1>4 DEF inet4, inet6
<1>7. complete => t = IF n = 4 THEN Mark(k, 23 + 2 * n) ELSE row.tos
  BY <1>4
<1>8. DOMAIN row = Columns /\ TupleColumns \cup {"raw_fields"} \cup LinkColumns \subseteq Columns
  BY TupleColumnsAre, KeptColumns DEF IsRow, KeptByParsers
<1> HIDE DEF s, d, p, a, b, g, t, frame
<1>9. /\ mid = [x \in Columns |-> mid[x]] /\ mid.raw_fields = row.raw_fields
      /\ mid.src_addr = s /\ mid.dst_addr = d /\ mid.protocol = p /\ mid.tos = t
      /\ mid.src_port = a /\ mid.dst_port = b /\ mid.tcp_flags = g
      /\ \A x \in LinkColumns : mid[x] = row[x]
  BY <1>8 DEF TupleColumns, LinkColumns
<1> HIDE DEF mid
<1>10. IsRow(mid)
  BY <1>9 DEF IsRow
<1>11. \A x \in TupleColumns \cup LinkColumns : new[x] = mid[x]
  BY <1>10, ScaleKeeps
<1> HIDE DEF new
<1>12. /\ new.src_addr = s /\ new.dst_addr = d /\ new.protocol = p /\ new.tos = t
       /\ new.src_port = a /\ new.dst_port = b /\ new.tcp_flags = g
       /\ \A x \in LinkColumns : new[x] = row[x]
  BY <1>9, <1>11 DEF TupleColumns
<1>13. /\ DOMAIN places = IF n = 4 THEN TupleColumns ELSE TupleColumns \ {"tos"}
       /\ places["src_addr"] = 8 /\ places["dst_addr"] = 8 + n /\ places["protocol"] = 7
       /\ places["src_port"] = 10 + 2 * n /\ places["dst_port"] = 14 + 2 * n
       /\ places["tcp_flags"] = 19 + 2 * n /\ (n = 4 => places["tos"] = 23 + 2 * n)
  <2>1. CASE rec.format = 3
    BY <2>1 DEF Places, TupleColumns
  <2>2. CASE rec.format = 4
    BY <2>2 DEF Places, TupleColumns
  <2> QED
    BY <2>1, <2>2
<1> HIDE DEF places, complete, n
<1>14. \A x \in {"src_addr", "dst_addr"} :
         new[x] = None \/ (x \in DOMAIN places /\ new[x] \in ValuesAt(k, places, x))
  BY <1>5, <1>6, <1>12, <1>13 DEF ValuesAt, AddressColumns, TupleColumns
<1>15. ASSUME complete, NEW x \in TupleColumns
       PROVE  IF x \in DOMAIN places THEN new[x] \in ValuesAt(k, places, x)
              ELSE new[x] = row[x]
  BY <1>2, <1>4, <1>5, <1>6, <1>7, <1>12, <1>13, <1>15 DEF ValuesAt, AddressColumns, TupleColumns
<1> QED
  BY <1>1, <1>12, <1>14, <1>15 DEF RecordPlaced, Placed, places, complete

\* A record of a flow sample puts its values in place.
LEMMA RecordValues ==
  ASSUME NEW row, IsRow(row), NEW k, NEW rec \in SampleRecord, NEW rate
  PROVE  RecordPlaced(parse_record(row, k, rec, rate), row, k, rec)
<1>1. CASE rec.format \notin {1, 3, 4}
  <2>1. parse_record(row, k, rec, rate) = row /\ DOMAIN Places(rec) = {}
    BY <1>1 DEF parse_record, Places
  <2> QED
    BY <2>1 DEF RecordPlaced, Placed
<1> QED
  BY <1>1, RawHeaderValues, SampledTupleValues

\* The k-th record of a sample has a value for a column.
Tells(s, recs, k, c) == IsFlowSample(s) /\ k \in DOMAIN recs /\ c \in DOMAIN Places(recs[k])

\* The values of a sample's row against the records taken so far.
SamplePlaced(row, s, recs) ==
  /\ row.next_hop = None
  /\ \A c \in {"src_addr", "dst_addr"} :
       row[c] = None \/ \E k \in DOMAIN recs : /\ Tells(s, recs, k, c)
                                               /\ row[c] \in ValuesAt(k, Places(recs[k]), c)
  /\ (\A k \in DOMAIN recs : Complete(recs[k])) =>
       \A c \in TupleColumns :
         \/ \A k \in DOMAIN recs : ~Tells(s, recs, k, c)
         \/ \E k \in DOMAIN recs : /\ Tells(s, recs, k, c)
                                   /\ \A j \in DOMAIN recs : Tells(s, recs, j, c) => j <= k
                                   /\ row[c] \in ValuesAt(k, Places(recs[k]), c)
  /\ IsFlowSample(s) /\ s.size >= 44 =>
       /\ row.input_snmp = Mark(0, IF s.format = 3 THEN 28 ELSE 20)
       /\ row.output_snmp = Mark(0, IF s.format = 3 THEN 36 ELSE 24)

\* Where a flow sample has its interfaces.
LEMMA InterfacesAt ==
  ASSUME NEW s \in Sample, IsFlowSample(s), s.size >= 44
  PROVE  /\ WordOrNone(0, InputAt(s), 4) = Mark(0, IF s.format = 3 THEN 28 ELSE 20)
         /\ WordOrNone(0, OutputAt(s), 4) = Mark(0, IF s.format = 3 THEN 36 ELSE 24)
<1> DEFINE size == s.size
           c0 == Cursor(size)
           a1 == c0 \odot Skip(4)
           a2 == a1 \odot Skip(4)
           a3 == IF Expanded(s) THEN a2 \odot Skip(4) ELSE a2
           b1 == a3 \odot Skip(4)
           b2 == b1 \odot Skip(4)
           b3 == b2 \odot Skip(4)
           i == Interface(s, b3)
           d1 == i \odot Skip(4)
           o == Interface(s, d1)
           w == IF Expanded(s) THEN 4 ELSE 0
<1>1. size \in Nat /\ size >= 44 /\ w \in {0, 4} /\ (s.format = 3 <=> Expanded(s))
  BY DEF Sample, IsFlowSample, Expanded
<1>2. InputAt(s) = i /\ OutputAt(s) = o
  BY DEF InputAt, OutputAt, AfterSource
<1> HIDE DEF size
<1>3. Reaches(c0, size, 0)
  BY <1>1, CursorInside DEF Reaches, Cursor
<1> HIDE DEF c0
<1>4. \A c : \A p, q \in Nat : Reaches(c, size, p) /\ q = p + 4 => Reaches(c \odot Skip(4), size, q)
  BY <1>1, SkipReaches
<1>5. \A c : \A p, q \in Nat : Reaches(c, size, p) /\ q = p + w => Reaches(Interface(s, c), size, q)
  <2> SUFFICES ASSUME NEW c, NEW p \in Nat, NEW q \in Nat, Reaches(c, size, p), q = p + w
               PROVE  Reaches(Interface(s, c), size, q)
    OBVIOUS
  <2>1. CASE Expanded(s)
    BY <1>4, <2>1 DEF Interface
  <2>2. CASE ~Expanded(s)
    BY <2>2 DEF Interface
  <2> QED
    BY <2>1, <2>2
<1>6. Reaches(a1, size, 4)
  BY <1>3, <1>4
<1> HIDE DEF a1
<1>7. Reaches(a2, size, 8)
  BY <1>4, <1>6
<1>8. Reaches(a3, size, 8 + w)
  BY <1>1, <1>5, <1>7 DEF Interface
<1> HIDE DEF a2, a3, w
<1>9. Reaches(b1, size, 12 + w)
  BY <1>1, <1>4, <1>8
<1> HIDE DEF b1
<1>10. Reaches(b2, size, 16 + w)
  BY <1>1, <1>4, <1>9
<1> HIDE DEF b2
<1>11. Reaches(b3, size, 20 + w)
  BY <1>1, <1>4, <1>10
<1> HIDE DEF b3
<1>12. Reaches(i, size, 20 + 2 * w)
  BY <1>1, <1>5, <1>11
<1> HIDE DEF i
<1>13. Reaches(d1, size, 24 + 2 * w)
  BY <1>1, <1>4, <1>12
<1> HIDE DEF d1
<1>14. Reaches(o, size, 24 + 3 * w)
  BY <1>1, <1>5, <1>13
<1> HIDE DEF o
<1>15. InBounds(i, 4) /\ i.pos = 20 + 2 * w /\ InBounds(o, 4) /\ o.pos = 24 + 3 * w
  BY <1>1, <1>12, <1>14, ReachReads
<1>16. /\ 20 + 2 * w = IF s.format = 3 THEN 28 ELSE 20
       /\ 24 + 3 * w = IF s.format = 3 THEN 36 ELSE 24
  BY <1>1 DEF w
<1> QED
  BY <1>2, <1>15, <1>16 DEF WordOrNone

LEMMA PlacedStart ==
  ASSUME NEW s \in Sample, NEW context
  PROVE  SamplePlaced(SampleRow(s, context), s, <<>>)
<1> DEFINE first == SflowRow(context)
           x == context.exporter
           d == context.domain
           q == context.sequence
           rate == SamplingRate(s)
           i == WordOrNone(0, InputAt(s), 4)
           o == WordOrNone(0, OutputAt(s), 4)
           row == SampleRow(s, context)
<1>0. DOMAIN <<>> = {}
  OBVIOUS
<1>1. /\ DOMAIN DefaultRow = Columns /\ DefaultRow.raw_fields = <<>>
      /\ \A c \in AddressColumns : DefaultRow[c] = None
  BY DefaultIsRow DEF IsRow, MappedColumns
<1>2. /\ {"raw_fields", "input_snmp", "output_snmp"} \subseteq Columns
      /\ AddressColumns \subseteq Columns
  BY DEF Columns, FlowColumns
<1>3. first = [DefaultRow EXCEPT !.exporter = x, !.flow_version = "sflow5",
                                 !.obs_domain = d, !.sequence = q]
  BY DEF SflowRow
<1> HIDE DEF first, x, d, q
<1>4. /\ first = [c \in Columns |-> first[c]] /\ first.raw_fields = <<>>
      /\ \A c \in AddressColumns : first[c] = None
  BY <1>1, <1>2, <1>3 DEF AddressColumns
<1>5. IsRow(first)
  BY <1>4, EmptyList DEF IsRow
<1>6. CASE IsFlowSample(s)
  <2>1. row = [first EXCEPT !.sampling_rate = rate, !.input_snmp = i, !.output_snmp = o]
    BY <1>6 DEF SampleRow, first
  <2>2. s.size >= 44 => /\ i = Mark(0, IF s.format = 3 THEN 28 ELSE 20)
                        /\ o = Mark(0, IF s.format = 3 THEN 36 ELSE 24)
    BY <1>6, InterfacesAt
  <2> HIDE DEF rate, i, o, row
  <2>3. DOMAIN first = Columns
    BY <1>4
  <2>4. row.input_snmp = i /\ row.output_snmp = o /\ \A c \in AddressColumns : row[c] = None
    BY <2>1, <2>3, <1>2, <1>4 DEF AddressColumns
  <2> QED
    BY <1>0, <2>2, <2>4 DEF SamplePlaced, AddressColumns, row
<1>7. CASE ~IsFlowSample(s)
  <2>1. row = note(first, "counter-sample")
    BY <1>7 DEF SampleRow, first
  <2>2. \A c \in Columns \ {"diagnostics"} : row[c] = first[c]
    BY <2>1, <1>5, NoteRow
  <2>3. \A c \in AddressColumns : row[c] = None
    BY <2>2, <1>2, <1>4 DEF AddressColumns
  <2> HIDE DEF row
  <2> QED
    BY <1>0, <1>7, <2>3 DEF SamplePlaced, AddressColumns, row
<1> QED
  BY <1>6, <1>7

\* One more record, the k-th.
LEMMA PlacedStep ==
  ASSUME NEW row, NEW s, NEW recs, IsRow(row), recs \in Seq(SampleRecord),
         SamplePlaced(row, s, recs), NEW rec \in SampleRecord, NEW k, k = Len(recs) + 1,
         NEW new, new = IF IsFlowSample(s) THEN parse_record(row, k, rec, SamplingRate(s))
                        ELSE put_counters(row, k, rec)
  PROVE  SamplePlaced(new, s, Append(recs, rec))
<1> DEFINE n == Len(recs)
           more == Append(recs, rec)
<1>1. IsList(recs)
  BY ListOf
<1>2. /\ n \in Nat /\ DOMAIN recs = 1 .. n /\ DOMAIN more = 1 .. n + 1
      /\ \A i \in 1 .. n : more[i] = recs[i]
      /\ more[n + 1] = rec
  BY <1>1, AppendList
<1>3. /\ \A i \in 1 .. n + 1 : i <= n + 1 /\ (i \in 1 .. n \/ i = n + 1)
      /\ \A i \in 1 .. n : i \in 1 .. n + 1
      /\ n + 1 \in 1 .. n + 1 /\ k = n + 1
  BY <1>2
<1> HIDE DEF more, n
<1>4. /\ k \in DOMAIN more /\ more[k] = rec
      /\ \A i \in DOMAIN recs : i \in DOMAIN more /\ more[i] = recs[i]
      /\ \A i \in DOMAIN more : i <= k /\ (i \in DOMAIN recs \/ i = k)
  BY <1>2, <1>3
<1>5. \A c : \A i \in DOMAIN recs : Tells(s, more, i, c) <=> Tells(s, recs, i, c)
  BY <1>4 DEF Tells
<1>6. CASE ~IsFlowSample(s)
  <2>1. \A c : \A i : ~Tells(s, more, i, c) /\ ~Tells(s, recs, i, c)
    BY <1>6 DEF Tells
  <2>2. \A x \in Columns \ {"raw_fields"} : new[x] = row[x]
    BY <1>6, PutRaw DEF put_counters
  <2>3. new.next_hop = row.next_hop /\ new.src_addr = row.src_addr /\ new.dst_addr = row.dst_addr
    BY <2>2 DEF Columns, AddressColumns
  <2> QED
    BY <1>6, <2>1, <2>3 DEF SamplePlaced, more
<1>7. CASE IsFlowSample(s)
  <2>1. /\ Placed(new, row, k, Places(rec), Complete(rec))
        /\ \A x \in LinkColumns : new[x] = row[x]
    BY <1>7, RecordValues DEF RecordPlaced
  <2>2. \A c : Tells(s, more, k, c) <=> c \in DOMAIN Places(rec)
    BY <1>4, <1>7 DEF Tells
  <2>3. ASSUME NEW c \in {"src_addr", "dst_addr"}
        PROVE  \/ new[c] = None
               \/ \E i \in DOMAIN more : /\ Tells(s, more, i, c)
                                         /\ new[c] \in ValuesAt(i, Places(more[i]), c)
    <3>1. CASE new[c] = row[c]
      <4>1. \/ row[c] = None
            \/ \E i \in DOMAIN recs : /\ Tells(s, recs, i, c)
                                      /\ row[c] \in ValuesAt(i, Places(recs[i]), c)
        BY <2>3 DEF SamplePlaced
      <4> QED
        BY <1>4, <1>5, <3>1, <4>1
    <3>2. CASE new[c] # row[c]
      <4>1. new[c] = None \/ (c \in DOMAIN Places(rec) /\ new[c] \in ValuesAt(k, Places(rec), c))
        BY <2>1, <2>3, <3>2 DEF Placed
      <4> QED
        BY <1>4, <2>2, <4>1
    <3> QED
      BY <3>1, <3>2
  <2>4. ASSUME \A i \in DOMAIN more : Complete(more[i]), NEW c \in TupleColumns
        PROVE  \/ \A i \in DOMAIN more : ~Tells(s, more, i, c)
               \/ \E i \in DOMAIN more :
                    /\ Tells(s, more, i, c)
                    /\ \A j \in DOMAIN more : Tells(s, more, j, c) => j <= i
                    /\ new[c] \in ValuesAt(i, Places(more[i]), c)
    <3>1. Complete(rec) /\ \A i \in DOMAIN recs : Complete(recs[i])
      BY <1>4, <2>4
    <3>2. CASE c \in DOMAIN Places(rec)
      <4>1. new[c] \in ValuesAt(k, Places(rec), c)
        BY <2>1, <3>1, <3>2 DEF Placed
      <4> QED
        BY <1>4, <2>2, <3>2, <4>1
    <3>3. CASE c \notin DOMAIN Places(rec)
      <4>1. new[c] = row[c]
        BY <2>1, <3>1, <3>3 DEF Placed
      <4>2. \/ \A i \in DOMAIN recs : ~Tells(s, recs, i, c)
            \/ \E i \in DOMAIN recs :
                 /\ Tells(s, recs, i, c)
                 /\ \A j \in DOMAIN recs : Tells(s, recs, j, c) => j <= i
                 /\ row[c] \in ValuesAt(i, Places(recs[i]), c)
        BY <3>1 DEF SamplePlaced
      <4>3. ~Tells(s, more, k, c)
        BY <2>2, <3>3
      <4>4. CASE \A i \in DOMAIN recs : ~Tells(s, recs, i, c)
        <5>1. \A i \in DOMAIN more : ~Tells(s, more, i, c)
          BY <1>4, <1>5, <4>3, <4>4
        <5> QED
          BY <5>1
      <4>5. ASSUME NEW i \in DOMAIN recs, Tells(s, recs, i, c),
                   \A j \in DOMAIN recs : Tells(s, recs, j, c) => j <= i,
                   row[c] \in ValuesAt(i, Places(recs[i]), c)
            PROVE  /\ i \in DOMAIN more /\ Tells(s, more, i, c)
                   /\ \A j \in DOMAIN more : Tells(s, more, j, c) => j <= i
                   /\ new[c] \in ValuesAt(i, Places(more[i]), c)
        <5>1. \A j \in DOMAIN more : Tells(s, more, j, c) => j <= i
          BY <1>4, <1>5, <4>3, <4>5
        <5> QED
          BY <1>4, <1>5, <4>1, <4>5, <5>1
      <4> QED
        BY <4>2, <4>4, <4>5
    <3> QED
      BY <3>2, <3>3
  <2>5. /\ new.next_hop = row.next_hop /\ new.input_snmp = row.input_snmp
        /\ new.output_snmp = row.output_snmp
    BY <2>1 DEF LinkColumns
  <2>6. /\ row.next_hop = None
        /\ IsFlowSample(s) /\ s.size >= 44 =>
             /\ row.input_snmp = Mark(0, IF s.format = 3 THEN 28 ELSE 20)
             /\ row.output_snmp = Mark(0, IF s.format = 3 THEN 36 ELSE 24)
    BY DEF SamplePlaced
  <2> QED
    BY <2>3, <2>4, <2>5, <2>6 DEF SamplePlaced, more
<1> QED
  BY <1>6, <1>7

\* What the property says of the row of a sample.
SampleInPlace(r) ==
  LET s == r.from.sample IN
  /\ \A c \in {"src_addr", "dst_addr"} :
       r.row[c] = None \/ \E k \in Speakers(r.from, c) : InPlace(r, c, k)
  /\ (\A k \in DOMAIN r.from.records : Complete(r.from.records[k])) =>
       \A c \in UNION {DOMAIN Places(r.from.records[k]) : k \in DOMAIN r.from.records} :
         IsFlowSample(s) => InPlace(r, c, Max(Speakers(r.from, c)))
  /\ IsFlowSample(s) /\ s.size >= 44 =>
       /\ r.row.input_snmp = Mark(0, IF s.format = 3 THEN 28 ELSE 20)
       /\ r.row.output_snmp = Mark(0, IF s.format = 3 THEN 36 ELSE 24)

\* A record has values for columns of the tuple only.
LEMMA PlacesAre ==
  ASSUME NEW rec
  PROVE  DOMAIN Places(rec) \subseteq TupleColumns
<1>1. DOMAIN PacketPlaces(rec.packet) \subseteq TupleColumns
  BY DEF PacketPlaces, PacketColumns, TupleColumns
<1>2. CASE rec.format = 1
  BY <1>1, <1>2 DEF Places
<1>3. CASE rec.format = 3
  BY <1>3 DEF Places, TupleColumns
<1>4. CASE rec.format = 4
  BY <1>4 DEF Places, TupleColumns
<1>5. CASE rec.format \notin {1, 3, 4}
  BY <1>5 DEF Places
<1> QED
  BY <1>2, <1>3, <1>4, <1>5

LEMMA SampleValues ==
  ASSUME NEW r, r.from.records \in Seq(SampleRecord),
         SamplePlaced(r.row, r.from.sample, r.from.records)
  PROVE  SampleInPlace(r)
<1> DEFINE s == r.from.sample
           recs == r.from.records
<1>1. \A c : Speakers(r.from, c) = {k \in DOMAIN recs : Tells(s, recs, k, c)}
  BY DEF Speakers, Tells
<1>2. \A c, k : InPlace(r, c, k) <=> r.row[c] \in ValuesAt(k, Places(recs[k]), c)
  BY DEF InPlace, ValuesAt
<1>3. DOMAIN recs \subseteq Int
  OBVIOUS
<1>4. ASSUME NEW c \in {"src_addr", "dst_addr"}
      PROVE  r.row[c] = None \/ \E k \in Speakers(r.from, c) : InPlace(r, c, k)
  BY <1>1, <1>2 DEF SamplePlaced
<1>5. ASSUME \A k \in DOMAIN recs : Complete(recs[k]), IsFlowSample(s),
             NEW c \in UNION {DOMAIN Places(recs[k]) : k \in DOMAIN recs}
      PROVE  InPlace(r, c, Max(Speakers(r.from, c)))
  <2>1. PICK i \in DOMAIN recs : c \in DOMAIN Places(recs[i])
    OBVIOUS
  <2>2. c \in TupleColumns
    BY <2>1, PlacesAre
  <2>3. Tells(s, recs, i, c)
    BY <1>5, <2>1 DEF Tells
  <2>4. PICK k \in DOMAIN recs : /\ Tells(s, recs, k, c)
                                 /\ \A j \in DOMAIN recs : Tells(s, recs, j, c) => j <= k
                                 /\ r.row[c] \in ValuesAt(k, Places(recs[k]), c)
    BY <1>5, <2>2, <2>3 DEF SamplePlaced
  <2> DEFINE all == Speakers(r.from, c)
  <2>5. all \in SUBSET Int /\ k \in all /\ \A j \in all : j <= k
    BY <1>1, <1>3, <2>4
  <2> HIDE DEF all
  <2>6. Max(all) = k
    BY <2>5, MaxIs
  <2> QED
    BY <1>2, <2>4, <2>6 DEF all
<1>6. IsFlowSample(s) /\ s.size >= 44 =>
        /\ r.row.input_snmp = Mark(0, IF s.format = 3 THEN 28 ELSE 20)
        /\ r.row.output_snmp = Mark(0, IF s.format = 3 THEN 36 ELSE 24)
  BY DEF SamplePlaced
<1> QED
  BY <1>4, <1>5, <1>6 DEF SampleInPlace

-----------------------------------------------------------------------------
(* The words of a v5 record.                                               *)

\* The offsets the widths of the words add up to.
V5Offsets ==
  <<0, 4, 8, 12, 14, 16, 20, 24, 28, 32, 34, 36, 37, 38, 39, 40, 42, 44, 45>>

IsV5Cursor(f) ==
  f = [i \in 1 .. Len(V5Words) |->
         IF i = 1 THEN Cursor(48) ELSE f[i - 1] \odot Skip(V5Words[i - 1][2])]

\* A record is as long as its words, so that every read finds its bytes.
LEMMA V5CursorIs ==
  \A i \in 1 .. 19 : V5Cursor[i] = [size |-> 48, pos |-> V5Offsets[i], ok |-> TRUE]
<1> DEFINE Here(i) == [size |-> 48, pos |-> V5Offsets[i], ok |-> TRUE]
           f == [i \in 1 .. 19 |-> Here(i)]
<1>1. Len(V5Words) = 19
  BY DEF V5Words
<1>2. \A p \in 0 .. 48, n \in 0 .. 48 : p + n <= 48 =>
        [size |-> 48, pos |-> p, ok |-> TRUE] \odot Skip(n)
          = [size |-> 48, pos |-> p + n, ok |-> TRUE]
  <2> SUFFICES ASSUME NEW p \in 0 .. 48, NEW n \in 0 .. 48, p + n <= 48
               PROVE  [size |-> 48, pos |-> p, ok |-> TRUE] \odot Skip(n)
                        = [size |-> 48, pos |-> p + n, ok |-> TRUE]
    OBVIOUS
  <2> DEFINE c == [size |-> 48, pos |-> p, ok |-> TRUE]
  <2>1. c \in CursorType /\ InBounds(c, n) /\ c.pos = p /\ c.size = 48 /\ c.ok = TRUE
    BY DEF CursorType, InBounds, remaining
  <2> HIDE DEF c
  <2>2. c \odot Skip(n) = [size |-> c.size, pos |-> c.pos + n, ok |-> c.ok]
    BY <2>1, SkipIn
  <2> QED
    BY <2>1, <2>2 DEF c
<1>3. \A i \in 2 .. 19 : /\ V5Offsets[i - 1] \in 0 .. 48 /\ V5Words[i - 1][2] \in 0 .. 48
                         /\ V5Offsets[i - 1] + V5Words[i - 1][2] = V5Offsets[i]
                         /\ V5Offsets[i] <= 48
  <2> SUFFICES ASSUME NEW i \in 2 .. 19
               PROVE  /\ V5Offsets[i - 1] \in 0 .. 48 /\ V5Words[i - 1][2] \in 0 .. 48
                      /\ V5Offsets[i - 1] + V5Words[i - 1][2] = V5Offsets[i]
                      /\ V5Offsets[i] <= 48
    OBVIOUS
  <2>2. CASE i = 2
    BY <2>2 DEF V5Offsets, V5Words
  <2>3. CASE i = 3
    BY <2>3 DEF V5Offsets, V5Words
  <2>4. CASE i = 4
    BY <2>4 DEF V5Offsets, V5Words
  <2>5. CASE i = 5
    BY <2>5 DEF V5Offsets, V5Words
  <2>6. CASE i = 6
    BY <2>6 DEF V5Offsets, V5Words
  <2>7. CASE i = 7
    BY <2>7 DEF V5Offsets, V5Words
  <2>8. CASE i = 8
    BY <2>8 DEF V5Offsets, V5Words
  <2>9. CASE i = 9
    BY <2>9 DEF V5Offsets, V5Words
  <2>10. CASE i = 10
    BY <2>10 DEF V5Offsets, V5Words
  <2>11. CASE i = 11
    BY <2>11 DEF V5Offsets, V5Words
  <2>12. CASE i = 12
    BY <2>12 DEF V5Offsets, V5Words
  <2>13. CASE i = 13
    BY <2>13 DEF V5Offsets, V5Words
  <2>14. CASE i = 14
    BY <2>14 DEF V5Offsets, V5Words
  <2>15. CASE i = 15
    BY <2>15 DEF V5Offsets, V5Words
  <2>16. CASE i = 16
    BY <2>16 DEF V5Offsets, V5Words
  <2>17. CASE i = 17
    BY <2>17 DEF V5Offsets, V5Words
  <2>18. CASE i = 18
    BY <2>18 DEF V5Offsets, V5Words
  <2>19. CASE i = 19
    BY <2>19 DEF V5Offsets, V5Words
  <2> QED
    BY <2>2, <2>3, <2>4, <2>5, <2>6, <2>7, <2>8, <2>9, <2>10, <2>11, <2>12, <2>13,
       <2>14, <2>15, <2>16, <2>17, <2>18, <2>19
<1>4. Here(1) = Cursor(48)
  <2>1. V5Offsets[1] = 0
    BY DEF V5Offsets
  <2> QED
    BY <2>1 DEF Cursor
<1>5. ASSUME NEW i \in 2 .. 19 PROVE Here(i - 1) \odot Skip(V5Words[i - 1][2]) = Here(i)
  <2> DEFINE p == V5Offsets[i - 1]
             n == V5Words[i - 1][2]
  <2>1. p \in 0 .. 48 /\ n \in 0 .. 48 /\ p + n = V5Offsets[i] /\ p + n <= 48
    BY <1>3
  <2> HIDE DEF p, n
  <2>2. [size |-> 48, pos |-> p, ok |-> TRUE] \odot Skip(n)
          = [size |-> 48, pos |-> p + n, ok |-> TRUE]
    BY <1>2, <2>1
  <2> QED
    BY <2>1, <2>2 DEF p, n
<1> HIDE DEF Here
<1>6. IsV5Cursor(f)
  <2>1. /\ \A i \in 1 .. 19 : i = 1 \/ (i \in 2 .. 19 /\ i # 1 /\ i - 1 \in 1 .. 19)
        /\ \A i \in 1 .. 19 : f[i] = Here(i)
        /\ f = [i \in 1 .. 19 |-> f[i]]
    OBVIOUS
  <2> HIDE DEF f
  <2>2. \A i \in 1 .. 19 :
          f[i] = IF i = 1 THEN Cursor(48) ELSE f[i - 1] \odot Skip(V5Words[i - 1][2])
    BY <1>4, <1>5, <2>1
  <2> QED
    BY <1>1, <2>1, <2>2 DEF IsV5Cursor
<1>7. IsV5Cursor(V5Cursor)
  <2>1. V5Cursor = CHOOSE g : IsV5Cursor(g)
    BY DEF V5Cursor, IsV5Cursor
  <2> HIDE DEF f
  <2> QED
    BY <1>6, <2>1
<1>8. \A i \in 1 .. 19 :
        V5Cursor[i] = IF i = 1 THEN Cursor(48) ELSE V5Cursor[i - 1] \odot Skip(V5Words[i - 1][2])
  BY <1>1, <1>7 DEF IsV5Cursor
<1>9. V5Cursor[1] = Here(1)
  BY <1>4, <1>8
<1>10. \A i \in 2 .. 19 : V5Cursor[i - 1] = Here(i - 1) => V5Cursor[i] = Here(i)
  <2>1. \A i \in 2 .. 19 : i \in 1 .. 19 /\ i # 1
    OBVIOUS
  <2> QED
    BY <1>5, <1>8, <2>1
<1>11. V5Cursor[2] = Here(2)
  BY <1>10, <1>9
<1>12. V5Cursor[3] = Here(3)
  BY <1>10, <1>11
<1>13. V5Cursor[4] = Here(4)
  BY <1>10, <1>12
<1>14. V5Cursor[5] = Here(5)
  BY <1>10, <1>13
<1>15. V5Cursor[6] = Here(6)
  BY <1>10, <1>14
<1>16. V5Cursor[7] = Here(7)
  BY <1>10, <1>15
<1>17. V5Cursor[8] = Here(8)
  BY <1>10, <1>16
<1>18. V5Cursor[9] = Here(9)
  BY <1>10, <1>17
<1>19. V5Cursor[10] = Here(10)
  BY <1>10, <1>18
<1>20. V5Cursor[11] = Here(11)
  BY <1>10, <1>19
<1>21. V5Cursor[12] = Here(12)
  BY <1>10, <1>20
<1>22. V5Cursor[13] = Here(13)
  BY <1>10, <1>21
<1>23. V5Cursor[14] = Here(14)
  BY <1>10, <1>22
<1>24. V5Cursor[15] = Here(15)
  BY <1>10, <1>23
<1>25. V5Cursor[16] = Here(16)
  BY <1>10, <1>24
<1>26. V5Cursor[17] = Here(17)
  BY <1>10, <1>25
<1>27. V5Cursor[18] = Here(18)
  BY <1>10, <1>26
<1>28. V5Cursor[19] = Here(19)
  BY <1>10, <1>27
<1>29. \A i \in 1 .. 19 : V5Cursor[i] = Here(i)
  BY <1>9, <1>11, <1>12, <1>13, <1>14, <1>15, <1>16, <1>17, <1>18, <1>19, <1>20, <1>21,
     <1>22, <1>23, <1>24, <1>25, <1>26, <1>27, <1>28
<1> QED
  BY <1>29 DEF Here

\* The words have different names, lie in the record, and addresses are four bytes.
LEMMA V5WordsAre ==
  ASSUME NEW j \in 1 .. 19
  PROVE  /\ DOMAIN V5Words = 1 .. 19
         /\ \A i \in 1 .. 19 : V5Words[i][1] = V5Words[j][1] => i = j
         /\ V5Words[j][2] \in Nat /\ V5Offsets[j] \in Nat /\ V5Offsets[j] + V5Words[j][2] <= 48
         /\ V5Words[j][1] \in AddressColumns => V5Words[j][2] = 4
<1>0. DOMAIN V5Words = 1 .. 19
  BY DEF V5Words
<1> DEFINE P == /\ \A i \in 1 .. 19 : V5Words[i][1] = V5Words[j][1] => i = j
                /\ V5Words[j][2] \in Nat /\ V5Offsets[j] \in Nat
                /\ V5Offsets[j] + V5Words[j][2] <= 48
                /\ V5Words[j][1] \in AddressColumns => V5Words[j][2] = 4
<1> SUFFICES P
  BY <1>0
<1>1. CASE j = 1
  BY <1>1 DEF V5Words, V5Offsets, AddressColumns
<1>2. CASE j = 2
  BY <1>2 DEF V5Words, V5Offsets, AddressColumns
<1>3. CASE j = 3
  BY <1>3 DEF V5Words, V5Offsets, AddressColumns
<1>4. CASE j = 4
  BY <1>4 DEF V5Words, V5Offsets, AddressColumns
<1>5. CASE j = 5
  BY <1>5 DEF V5Words, V5Offsets, AddressColumns
<1>6. CASE j = 6
  BY <1>6 DEF V5Words, V5Offsets, AddressColumns
<1>7. CASE j = 7
  BY <1>7 DEF V5Words, V5Offsets, AddressColumns
<1>8. CASE j = 8
  BY <1>8 DEF V5Words, V5Offsets, AddressColumns
<1>9. CASE j = 9
  BY <1>9 DEF V5Words, V5Offsets, AddressColumns
<1>10. CASE j = 10
  BY <1>10 DEF V5Words, V5Offsets, AddressColumns
<1>11. CASE j = 11
  BY <1>11 DEF V5Words, V5Offsets, AddressColumns
<1>12. CASE j = 12
  BY <1>12 DEF V5Words, V5Offsets, AddressColumns
<1>13. CASE j = 13
  BY <1>13 DEF V5Words, V5Offsets, AddressColumns
<1>14. CASE j = 14
  BY <1>14 DEF V5Words, V5Offsets, AddressColumns
<1>15. CASE j = 15
  BY <1>15 DEF V5Words, V5Offsets, AddressColumns
<1>16. CASE j = 16
  BY <1>16 DEF V5Words, V5Offsets, AddressColumns
<1>17. CASE j = 17
  BY <1>17 DEF V5Words, V5Offsets, AddressColumns
<1>18. CASE j = 18
  BY <1>18 DEF V5Words, V5Offsets, AddressColumns
<1>19. CASE j = 19
  BY <1>19 DEF V5Words, V5Offsets, AddressColumns
<1> HIDE DEF P
<1> QED
  BY <1>1, <1>2, <1>3, <1>4, <1>5, <1>6, <1>7, <1>8, <1>9, <1>10, <1>11, <1>12, <1>13,
     <1>14, <1>15, <1>16, <1>17, <1>18, <1>19

LEMMA V5ValueIs ==
  ASSUME NEW j \in 1 .. 19
  PROVE  LET mark == Mark(0, V5Offsets[j]) IN
         V5Value(V5Words[j][1]) = IF V5Words[j][1] \in AddressColumns THEN encode4(mark) ELSE mark
<1> DEFINE column == V5Words[j][1]
           i == CHOOSE i \in DOMAIN V5Words : V5Words[i][1] = column
           width == V5Words[j][2]
           c == V5Cursor[j]
<1>1. i = j
  BY V5WordsAre
<1>2. V5Value(column) = IF column \in AddressColumns THEN inet4(BytesOrEmpty(0, c, width))
                        ELSE WordOrZero(0, c, width)
  <2>1. V5Value(column) = IF column \in AddressColumns
                          THEN inet4(BytesOrEmpty(0, V5Cursor[i], V5Words[i][2]))
                          ELSE WordOrZero(0, V5Cursor[i], V5Words[i][2])
    BY DEF V5Value
  <2> HIDE DEF i
  <2> QED
    BY <1>1, <2>1
<1>3. c.pos = V5Offsets[j] /\ InBounds(c, width)
  <2>1. c = [size |-> 48, pos |-> V5Offsets[j], ok |-> TRUE]
    BY V5CursorIs
  <2>2. V5Offsets[j] \in Nat /\ width \in Nat /\ V5Offsets[j] + width <= 48
    BY V5WordsAre
  <2> HIDE DEF c, width
  <2> QED
    BY <2>1, <2>2 DEF InBounds, remaining
<1>4. column \in AddressColumns => width = 4
  BY V5WordsAre
<1> HIDE DEF c, width, column
<1> QED
  BY <1>2, <1>3, <1>4 DEF inet4, BytesOrEmpty, WordOrZero, column

\* The layout of a v5 record, by the names of its words.
LEMMA V5PlacesAre ==
  ASSUME NEW c \in DOMAIN V5Places
  PROVE  \E j \in 1 .. 19 : V5Words[j][1] = c /\ V5Offsets[j] = V5Places[c] /\ c \in Columns
<1> DEFINE P(j) == V5Words[j][1] = c /\ V5Offsets[j] = V5Places[c] /\ c \in Columns
<1>1. CASE c = "src_addr"
  <2>1. P(1)
    BY <1>1 DEF V5Words, V5Offsets, V5Places, Columns, FlowColumns, AddressColumns
  <2> QED
    BY <2>1
<1>2. CASE c = "dst_addr"
  <2>1. P(2)
    BY <1>2 DEF V5Words, V5Offsets, V5Places, Columns, FlowColumns, AddressColumns
  <2> QED
    BY <2>1
<1>3. CASE c = "next_hop"
  <2>1. P(3)
    BY <1>3 DEF V5Words, V5Offsets, V5Places, Columns, FlowColumns, AddressColumns
  <2> QED
    BY <2>1
<1>4. CASE c = "input_snmp"
  <2>1. P(4)
    BY <1>4 DEF V5Words, V5Offsets, V5Places, Columns, FlowColumns, AddressColumns
  <2> QED
    BY <2>1
<1>5. CASE c = "output_snmp"
  <2>1. P(5)
    BY <1>5 DEF V5Words, V5Offsets, V5Places, Columns, FlowColumns, AddressColumns
  <2> QED
    BY <2>1
<1>6. CASE c = "packets"
  <2>1. P(6)
    BY <1>6 DEF V5Words, V5Offsets, V5Places, Columns, FlowColumns, AddressColumns
  <2> QED
    BY <2>1
<1>7. CASE c = "bytes"
  <2>1. P(7)
    BY <1>7 DEF V5Words, V5Offsets, V5Places, Columns, FlowColumns, AddressColumns
  <2> QED
    BY <2>1
<1>8. CASE c = "src_port"
  <2>1. P(10)
    BY <1>8 DEF V5Words, V5Offsets, V5Places, Columns, FlowColumns, AddressColumns
  <2> QED
    BY <2>1
<1>9. CASE c = "dst_port"
  <2>1. P(11)
    BY <1>9 DEF V5Words, V5Offsets, V5Places, Columns, FlowColumns, AddressColumns
  <2> QED
    BY <2>1
<1>10. CASE c = "tcp_flags"
  <2>1. P(13)
    BY <1>10 DEF V5Words, V5Offsets, V5Places, Columns, FlowColumns, AddressColumns
  <2> QED
    BY <2>1
<1>11. CASE c = "protocol"
  <2>1. P(14)
    BY <1>11 DEF V5Words, V5Offsets, V5Places, Columns, FlowColumns, AddressColumns
  <2> QED
    BY <2>1
<1>12. CASE c = "tos"
  <2>1. P(15)
    BY <1>12 DEF V5Words, V5Offsets, V5Places, Columns, FlowColumns, AddressColumns
  <2> QED
    BY <2>1
<1>13. CASE c = "src_as"
  <2>1. P(16)
    BY <1>13 DEF V5Words, V5Offsets, V5Places, Columns, FlowColumns, AddressColumns
  <2> QED
    BY <2>1
<1>14. CASE c = "dst_as"
  <2>1. P(17)
    BY <1>14 DEF V5Words, V5Offsets, V5Places, Columns, FlowColumns, AddressColumns
  <2> QED
    BY <2>1
<1>15. CASE c = "src_mask"
  <2>1. P(18)
    BY <1>15 DEF V5Words, V5Offsets, V5Places, Columns, FlowColumns, AddressColumns
  <2> QED
    BY <2>1
<1>16. CASE c = "dst_mask"
  <2>1. P(19)
    BY <1>16 DEF V5Words, V5Offsets, V5Places, Columns, FlowColumns, AddressColumns
  <2> QED
    BY <2>1
<1> HIDE DEF P
<1>17. c \in {"src_addr", "dst_addr", "next_hop", "input_snmp", "output_snmp", "packets",
              "bytes", "src_port", "dst_port", "tcp_flags", "protocol", "tos", "src_as",
              "dst_as", "src_mask", "dst_mask"}
  BY DEF V5Places
<1> QED
  BY <1>1, <1>2, <1>3, <1>4, <1>5, <1>6, <1>7, <1>8, <1>9, <1>10, <1>11, <1>12, <1>13,
     <1>14, <1>15, <1>16, <1>17

\* Every value of a v5 row is from its place.
V5InPlace(r) ==
  \A c \in DOMAIN V5Places :
    LET mark == Mark(0, V5Places[c])
    IN  r.row[c] = IF c \in AddressColumns THEN encode4(mark) ELSE mark

LEMMA V5Values ==
  ASSUME NEW r, V5Entry(r)
  PROVE  V5InPlace(r)
<1> DEFINE names == {V5Words[i][1] : i \in DOMAIN V5Words} \cap Columns
<1>1. PICK device, first, last : r.row = decode_record(Header("5", device), first % U32, last % U32)
  BY DEF V5Entry
<1>2. {"flow_start", "flow_end"} \cap names = {}
  BY V5Silent
<1>3. \A c \in names : r.row[c] = V5Value(c)
  <2> DEFINE header == Header("5", device)
             boot == header.export - header.uptime * Millis
             f == first % U32
             l == last % U32
  <2>1. r.row = [c \in Columns |-> CASE c \in names -> V5Value(c)
                                     [] c = "flow_start" -> boot + f * Millis
                                     [] c = "flow_end" -> boot + l * Millis
                                     [] OTHER -> HeaderRow(header)[c]]
    BY <1>1 DEF decode_record
  <2> SUFFICES ASSUME NEW c \in names PROVE r.row[c] = V5Value(c)
    OBVIOUS
  <2>2. c \in Columns /\ c \notin {"flow_start", "flow_end"}
    BY <1>2
  <2> HIDE DEF names, boot, header, f, l
  <2> QED
    BY <2>1, <2>2
<1> SUFFICES ASSUME NEW c \in DOMAIN V5Places
             PROVE  LET mark == Mark(0, V5Places[c])
                    IN  r.row[c] = IF c \in AddressColumns THEN encode4(mark) ELSE mark
  BY DEF V5InPlace
<1>4. PICK j \in 1 .. 19 : V5Words[j][1] = c /\ V5Offsets[j] = V5Places[c] /\ c \in Columns
  BY V5PlacesAre
<1>5. c \in names
  BY <1>4, V5WordsAre
<1> QED
  BY <1>3, <1>4, <1>5, V5ValueIs

-----------------------------------------------------------------------------
(* The maps of a batch.  FlattenSeq and the offsets are recursive          *)
(* functions; what they compute for a list of maps is carried along as the *)
(* list grows, so that no induction over a given list is needed.           *)

IsFlat(f, maps) ==
  f = [i \in 1 .. Len(maps) |-> IF i = 1 THEN maps[i] ELSE f[i - 1] \o maps[i]]

IsOffsets(g, maps) ==
  g = [i \in 1 .. Len(maps) + 1 |-> IF i = 1 THEN 0 ELSE g[i - 1] + Len(maps[i - 1])]

\* The entries of each map lie one after the other, from its offset to the next.
Laid(maps, f, g) ==
  LET n == Len(maps) IN
  /\ \A i \in 1 .. n + 1 : g[i] \in Nat /\ g[i] <= g[n + 1]
  /\ \A r \in 1 .. n : g[r + 1] = g[r] + Len(maps[r])
  /\ n = 0 => g[n + 1] = 0
  /\ n # 0 => /\ IsList(f[n]) /\ Len(f[n]) = g[n + 1]
              /\ \A r \in 1 .. n : \A j \in 1 .. Len(maps[r]) : f[n][g[r] + j] = maps[r][j]

MapsLaid(maps) ==
  /\ IsList(maps) /\ \A r \in DOMAIN maps : IsList(maps[r])
  /\ \E f : IsFlat(f, maps)
  /\ \E g : IsOffsets(g, maps)
  /\ \A f, g : IsFlat(f, maps) /\ IsOffsets(g, maps) => Laid(maps, f, g)

\* Lists put together.
LEMMA ConcatLists ==
  ASSUME NEW s, IsList(s), NEW t, IsList(t)
  PROVE  /\ IsList(s \o t) /\ Len(s) \in Nat /\ Len(t) \in Nat
         /\ Len(s \o t) = Len(s) + Len(t)
         /\ \A i \in 1 .. Len(s) : (s \o t)[i] = s[i]
         /\ \A j \in 1 .. Len(t) : (s \o t)[Len(s) + j] = t[j]
<1> DEFINE S == Range(s) \cup Range(t)
<1>1. s \in Seq(S) /\ t \in Seq(S)
  BY DEF IsList
<1> HIDE DEF S
<1>2. s \o t \in Seq(S)
  BY <1>1
<1>3. IsList(s \o t)
  BY <1>2, ListOf
<1>4. Len(s) \in Nat /\ Len(t) \in Nat /\ Len(s \o t) = Len(s) + Len(t)
  BY <1>1
<1>5. \A i \in 1 .. Len(s) : (s \o t)[i] = s[i]
  BY <1>1, <1>4
<1>6. \A j \in 1 .. Len(t) : (s \o t)[Len(s) + j] = t[j]
  BY <1>1, <1>4
<1> QED
  BY <1>3, <1>4, <1>5, <1>6

LEMMA NothingLaid == MapsLaid(<<>>)
<1>1. IsList(<<>>) /\ Len(<<>>) = 0 /\ DOMAIN <<>> = {} /\ 1 .. 0 = {} /\ 1 .. 0 + 1 = {1}
  BY EmptyList
<1>2. \E f : IsFlat(f, <<>>)
  <2>1. IsFlat([i \in 1 .. 0 |-> 0], <<>>)
    BY <1>1 DEF IsFlat
  <2> QED
    BY <2>1
<1>3. \E g : IsOffsets(g, <<>>)
  <2>1. IsOffsets([i \in 1 .. 1 |-> 0], <<>>)
    BY <1>1 DEF IsOffsets
  <2> QED
    BY <2>1
<1>4. ASSUME NEW f, NEW g, IsOffsets(g, <<>>) PROVE Laid(<<>>, f, g)
  <2>1. g[1] = 0
    BY <1>1, <1>4 DEF IsOffsets
  <2> QED
    BY <1>1, <2>1 DEF Laid
<1> QED
  BY <1>1, <1>2, <1>3, <1>4 DEF MapsLaid

LEMMA FlatGrows ==
  ASSUME NEW maps, IsList(maps), NEW m
  PROVE  LET more == Append(maps, m)
             n == Len(maps)
         IN  /\ (\E f : IsFlat(f, maps)) => \E f : IsFlat(f, more)
             /\ \A h : IsFlat(h, more) =>
                  /\ IsFlat([i \in 1 .. n |-> h[i]], maps)
                  /\ h[n + 1] = IF n = 0 THEN m ELSE h[n] \o m
<1> DEFINE more == Append(maps, m)
           n == Len(maps)
<1>1. /\ n \in Nat /\ Len(more) = n + 1 /\ \A i \in 1 .. n : more[i] = maps[i]
      /\ more[n + 1] = m
  BY AppendList
<1>2. /\ \A i \in 1 .. n + 1 : i \in 1 .. n \/ i = n + 1
      /\ \A i \in 1 .. n : i \in 1 .. n + 1 /\ i # n + 1 /\ (i # 1 => i - 1 \in 1 .. n)
      /\ n + 1 \in 1 .. n + 1 /\ n + 1 - 1 = n /\ (n + 1 = 1 <=> n = 0)
      /\ n # 0 => n \in 1 .. n
  BY <1>1
<1> HIDE DEF more, n
<1>3. ASSUME NEW f, IsFlat(f, maps) PROVE \E h : IsFlat(h, more)
  <2> DEFINE last == IF n = 0 THEN m ELSE f[n] \o m
             h == [i \in 1 .. n + 1 |-> IF i = n + 1 THEN last ELSE f[i]]
  <2>1. \A i \in 1 .. n : f[i] = IF i = 1 THEN maps[i] ELSE f[i - 1] \o maps[i]
    BY <1>3 DEF IsFlat, n
  <2>2. \A i \in 1 .. n : h[i] = f[i]
    BY <1>2
  <2>3. h[n + 1] = last
    BY <1>2
  <2>4. h = [i \in 1 .. n + 1 |-> h[i]]
    OBVIOUS
  <2> HIDE DEF h
  <2>5. \A i \in 1 .. n + 1 : h[i] = IF i = 1 THEN more[i] ELSE h[i - 1] \o more[i]
    <3> SUFFICES ASSUME NEW i \in 1 .. n + 1
                 PROVE  h[i] = IF i = 1 THEN more[i] ELSE h[i - 1] \o more[i]
      OBVIOUS
    <3>1. CASE i \in 1 .. n
      BY <1>1, <1>2, <2>1, <2>2, <3>1
    <3>2. CASE i = n + 1 /\ n = 0
      BY <1>1, <1>2, <2>3, <3>2
    <3>3. CASE i = n + 1 /\ n # 0
      <4>1. i # 1 /\ i - 1 = n /\ h[n] = f[n]
        BY <1>2, <2>2, <3>3
      <4> QED
        BY <1>1, <2>3, <3>3, <4>1
    <3> QED
      BY <1>2, <3>1, <3>2, <3>3
  <2>6. IsFlat(h, more)
    BY <1>1, <2>4, <2>5 DEF IsFlat
  <2> QED
    BY <2>6
<1>4. ASSUME NEW h, IsFlat(h, more)
      PROVE  /\ IsFlat([i \in 1 .. n |-> h[i]], maps)
             /\ h[n + 1] = IF n = 0 THEN m ELSE h[n] \o m
  <2> DEFINE f == [i \in 1 .. n |-> h[i]]
  <2>1. \A i \in 1 .. n + 1 : h[i] = IF i = 1 THEN more[i] ELSE h[i - 1] \o more[i]
    BY <1>1, <1>4 DEF IsFlat
  <2>2. (\A i \in 1 .. n : f[i] = h[i]) /\ f = [i \in 1 .. n |-> f[i]]
    OBVIOUS
  <2> HIDE DEF f
  <2>3. \A i \in 1 .. n : f[i] = IF i = 1 THEN maps[i] ELSE f[i - 1] \o maps[i]
    BY <1>1, <1>2, <2>1, <2>2
  <2>4. IsFlat(f, maps)
    BY <2>2, <2>3 DEF IsFlat, n
  <2>5. h[n + 1] = IF n = 0 THEN m ELSE h[n] \o m
    BY <1>1, <1>2, <2>1
  <2> QED
    BY <2>4, <2>5 DEF f
<1> QED
  BY <1>3, <1>4 DEF more, n

LEMMA OffsetsGrow ==
  ASSUME NEW maps, IsList(maps), NEW m
  PROVE  LET more == Append(maps, m)
             n == Len(maps)
         IN  /\ (\E g : IsOffsets(g, maps)) => \E g : IsOffsets(g, more)
             /\ \A h : IsOffsets(h, more) =>
                  /\ IsOffsets([i \in 1 .. n + 1 |-> h[i]], maps)
                  /\ h[n + 2] = h[n + 1] + Len(m)
<1> DEFINE more == Append(maps, m)
           n == Len(maps)
<1>1. /\ n \in Nat /\ Len(more) = n + 1 /\ \A i \in 1 .. n : more[i] = maps[i]
      /\ more[n + 1] = m
  BY AppendList
<1>2. /\ (n + 1) + 1 = n + 2 /\ (n + 2) - 1 = n + 1 /\ n + 2 # 1
      /\ \A i \in 1 .. n + 2 : i \in 1 .. n + 1 \/ i = n + 2
      /\ \A i \in 1 .. n + 1 : /\ i \in 1 .. n + 2 /\ i # n + 2
                               /\ i # 1 => i - 1 \in 1 .. n /\ i - 1 \in 1 .. n + 1
      /\ n + 2 \in 1 .. n + 2 /\ n + 1 \in 1 .. n + 1
  BY <1>1
<1> HIDE DEF more, n
<1>3. ASSUME NEW g, IsOffsets(g, maps) PROVE \E h : IsOffsets(h, more)
  <2> DEFINE last == g[n + 1] + Len(m)
             h == [i \in 1 .. n + 2 |-> IF i = n + 2 THEN last ELSE g[i]]
  <2>1. \A i \in 1 .. n + 1 : g[i] = IF i = 1 THEN 0 ELSE g[i - 1] + Len(maps[i - 1])
    BY <1>3 DEF IsOffsets, n
  <2>2. \A i \in 1 .. n + 1 : h[i] = g[i]
    BY <1>2
  <2>3. h[n + 2] = last
    BY <1>2
  <2>4. h = [i \in 1 .. n + 2 |-> h[i]]
    OBVIOUS
  <2> HIDE DEF h
  <2>5. \A i \in 1 .. n + 2 : h[i] = IF i = 1 THEN 0 ELSE h[i - 1] + Len(more[i - 1])
    <3> SUFFICES ASSUME NEW i \in 1 .. n + 2
                 PROVE  h[i] = IF i = 1 THEN 0 ELSE h[i - 1] + Len(more[i - 1])
      OBVIOUS
    <3>1. CASE i \in 1 .. n + 1
      BY <1>1, <1>2, <2>1, <2>2, <3>1
    <3>2. CASE i = n + 2
      <4>1. i # 1 /\ i - 1 = n + 1 /\ h[n + 1] = g[n + 1]
        BY <1>2, <2>2, <3>2
      <4> QED
        BY <1>1, <2>3, <3>2, <4>1
    <3> QED
      BY <1>2, <3>1, <3>2
  <2>6. IsOffsets(h, more)
    <3>1. Len(more) + 1 = n + 2
      BY <1>1
    <3>2. h = [i \in 1 .. n + 2 |-> IF i = 1 THEN 0 ELSE h[i - 1] + Len(more[i - 1])]
      BY <2>4, <2>5
    <3> QED
      BY <3>1, <3>2, Zenon DEF IsOffsets
  <2> QED
    BY <2>6
<1>4. ASSUME NEW h, IsOffsets(h, more)
      PROVE  /\ IsOffsets([i \in 1 .. n + 1 |-> h[i]], maps)
             /\ h[n + 2] = h[n + 1] + Len(m)
  <2> DEFINE g == [i \in 1 .. n + 1 |-> h[i]]
  <2>1. \A i \in 1 .. n + 2 : h[i] = IF i = 1 THEN 0 ELSE h[i - 1] + Len(more[i - 1])
    BY <1>1, <1>2, <1>4 DEF IsOffsets
  <2>2. (\A i \in 1 .. n + 1 : g[i] = h[i]) /\ g = [i \in 1 .. n + 1 |-> g[i]]
    OBVIOUS
  <2> HIDE DEF g
  <2>3. \A i \in 1 .. n + 1 : g[i] = IF i = 1 THEN 0 ELSE g[i - 1] + Len(maps[i - 1])
    BY <1>1, <1>2, <2>1, <2>2
  <2>4. IsOffsets(g, maps)
    BY <2>2, <2>3 DEF IsOffsets, n
  <2>5. h[n + 2] = h[n + 1] + Len(m)
    BY <1>1, <1>2, <2>1
  <2> QED
    BY <2>4, <2>5 DEF g
<1> QED
  BY <1>3, <1>4 DEF more, n

\* One more map keeps them laid out.
LEMMA LaidStep ==
  ASSUME NEW maps, MapsLaid(maps), NEW m, IsList(m)
  PROVE  MapsLaid(Append(maps, m))
<1> DEFINE more == Append(maps, m)
           n == Len(maps)
<1>1. IsList(maps) /\ \A r \in DOMAIN maps : IsList(maps[r])
  BY DEF MapsLaid
<1>2. /\ n \in Nat /\ Len(more) = n + 1 /\ IsList(more) /\ DOMAIN more = 1 .. n + 1
      /\ DOMAIN maps = 1 .. n
      /\ (\A i \in 1 .. n : more[i] = maps[i]) /\ more[n + 1] = m
  BY <1>1, AppendList DEF IsList
<1>3. \A i \in 1 .. n + 1 : i \in 1 .. n \/ i = n + 1
  BY <1>2
<1>4. \A r \in DOMAIN more : IsList(more[r])
  BY <1>1, <1>2, <1>3
<1>5. (\E f : IsFlat(f, more)) /\ \E g : IsOffsets(g, more)
  BY <1>1, FlatGrows, OffsetsGrow DEF MapsLaid
<1>6. ASSUME NEW h, NEW k, IsFlat(h, more), IsOffsets(k, more)
      PROVE  Laid(more, h, k)
  <2> DEFINE f == [i \in 1 .. n |-> h[i]]
             g == [i \in 1 .. n + 1 |-> k[i]]
  <2>1. IsFlat(f, maps) /\ h[n + 1] = IF n = 0 THEN m ELSE h[n] \o m
    BY <1>1, <1>6, FlatGrows
  <2>2. IsOffsets(g, maps) /\ k[n + 2] = k[n + 1] + Len(m)
    BY <1>1, <1>6, OffsetsGrow
  <2>3. Laid(maps, f, g)
    BY <2>1, <2>2 DEF MapsLaid
  <2>4. (\A i \in 1 .. n + 1 : g[i] = k[i]) /\ (n # 0 => f[n] = h[n])
    BY <1>2
  <2>5. Len(m) \in Nat
    BY ConcatLists
  <2>6. /\ \A i \in 1 .. n + 1 : k[i] \in Nat /\ k[i] <= k[n + 1]
        /\ \A r \in 1 .. n : k[r + 1] = k[r] + Len(maps[r])
        /\ n = 0 => k[n + 1] = 0
        /\ n # 0 => /\ IsList(h[n]) /\ Len(h[n]) = k[n + 1]
                    /\ \A r \in 1 .. n : \A j \in 1 .. Len(maps[r]) :
                         h[n][k[r] + j] = maps[r][j]
    <3>1. /\ \A i \in 1 .. n : i \in 1 .. n + 1 /\ i + 1 \in 1 .. n + 1
          /\ n + 1 \in 1 .. n + 1
      BY <1>2
    <3> HIDE DEF f, g, n
    <3> QED
      BY <2>3, <2>4, <3>1 DEF Laid, n
  <2>7. \A i \in 1 .. n + 2 : i \in 1 .. n + 1 \/ i = n + 2
    BY <1>2
  <2>8. n + 1 \in 1 .. n + 1 /\ (n + 1) + 1 = n + 2
    BY <1>2
  <2> HIDE DEF f, g, n, more
  <2>9. \A i \in 1 .. n + 2 : k[i] \in Nat /\ k[i] <= k[n + 2]
    BY <2>2, <2>5, <2>6, <2>7, <2>8
  <2>10. \A r \in 1 .. n + 1 : k[r + 1] = k[r] + Len(more[r])
    BY <1>2, <1>3, <2>2, <2>6, <2>8
  <2>11. IsList(h[n + 1]) /\ Len(h[n + 1]) = k[n + 2]
    <3>1. CASE n = 0
      BY <2>1, <2>2, <2>5, <2>6, <3>1
    <3>2. CASE n # 0
      <4>1. IsList(h[n]) /\ Len(h[n]) = k[n + 1] /\ h[n + 1] = h[n] \o m
        BY <2>1, <2>6, <3>2
      <4>2. IsList(h[n] \o m) /\ Len(h[n] \o m) = Len(h[n]) + Len(m)
        BY <4>1, ConcatLists, Zenon
      <4> QED
        BY <2>2, <4>1, <4>2
    <3> QED
      BY <3>1, <3>2
  <2>12. ASSUME NEW r \in 1 .. n + 1, NEW j \in 1 .. Len(more[r])
         PROVE  h[n + 1][k[r] + j] = more[r][j]
    <3>1. CASE n = 0
      <4>1. r = n + 1 /\ k[r] = 0 /\ more[r] = m /\ h[n + 1] = m /\ j \in 1 .. Len(m)
        BY <1>2, <1>3, <2>1, <2>6, <2>12, <3>1
      <4>2. 0 + j = j
        BY <2>5, <4>1
      <4> QED
        BY <4>1, <4>2
    <3>2. CASE n # 0 /\ r = n + 1
      <4>1. more[r] = m /\ h[n + 1] = h[n] \o m /\ k[r] = Len(h[n]) /\ j \in 1 .. Len(m)
        BY <1>2, <2>1, <2>6, <2>12, <3>2
      <4>2. IsList(h[n])
        BY <2>6, <3>2
      <4>3. \A i \in 1 .. Len(m) : (h[n] \o m)[Len(h[n]) + i] = m[i]
        <5> DEFINE s == h[n]
        <5>1. IsList(s)
          BY <4>2
        <5> HIDE DEF s
        <5>2. \A i \in 1 .. Len(m) : (s \o m)[Len(s) + i] = m[i]
          BY <5>1, ConcatLists
        <5> QED
          BY <5>2 DEF s
      <4>4. (h[n] \o m)[Len(h[n]) + j] = m[j]
        BY <4>1, <4>3
      <4>5. h[n + 1][k[r] + j] = (h[n] \o m)[Len(h[n]) + j]
        BY <4>1
      <4> QED
        BY <4>1, <4>4, <4>5
    <3>3. CASE n # 0 /\ r \in 1 .. n
      <4>1. /\ more[r] = maps[r] /\ h[n + 1] = h[n] \o m /\ h[n][k[r] + j] = maps[r][j]
            /\ j \in 1 .. Len(maps[r]) /\ IsList(h[n])
        BY <1>2, <2>1, <2>6, <2>12, <3>3
      <4>2. k[r] \in Nat /\ k[r + 1] = k[r] + Len(maps[r]) /\ k[r + 1] <= k[n + 1]
        BY <1>2, <2>6, <3>3
      <4>3. Len(maps[r]) \in Nat
        BY <1>1, <1>2, <3>3, ConcatLists
      <4>4. k[n + 1] \in Nat /\ Len(h[n]) = k[n + 1]
        BY <2>6, <2>8, <3>3
      <4>5. k[r] + j \in 1 .. Len(h[n])
        BY <4>1, <4>2, <4>3, <4>4
      <4> QED
        BY <4>1, <4>5, ConcatLists
    <3> QED
      BY <1>3, <3>1, <3>2, <3>3
  <2> QED
    <3>1. n + 1 # 0 /\ n \in Nat
      BY <1>2
    <3> QED
      BY <1>2, <2>8, <2>9, <2>10, <2>11, <2>12, <3>1 DEF Laid
<1> QED
  BY <1>2, <1>4, <1>5, <1>6 DEF MapsLaid

\* What lies in a longer list at a place is cut out of it again.
LEMMA CutOut ==
  ASSUME NEW e, IsList(e), NEW m, IsList(m), NEW a \in Nat, NEW b \in Nat,
         b = a + Len(m), b <= Len(e), \A j \in 1 .. Len(m) : e[a + j] = m[j]
  PROVE  SubSeq(e, a + 1, b) = m
<1>1. Len(m) \in Nat /\ Len(e) \in Nat
  BY ConcatLists
<1>2. m = [j \in 1 .. Len(m) |-> m[j]]
  BY DEF IsList
<1>3. SubSeq(e, a + 1, b) = [j \in 1 .. Len(m) |-> e[a + j]]
  <2>1. 1 .. (1 + b - (a + 1)) = 1 .. Len(m)
    BY <1>1
  <2>2. \A j \in 1 .. Len(m) : (a + 1) + j - 1 = a + j
    BY <1>1
  <2>3. e \in Seq(Range(e))
    BY DEF IsList
  <2>4. SubSeq(e, a + 1, b) \in Seq(Range(e)) /\ Len(SubSeq(e, a + 1, b)) = Len(m)
    BY <1>1, <2>3
  <2>5. \A j \in 1 .. Len(m) : SubSeq(e, a + 1, b)[j] = e[a + j]
    BY <1>1, <2>3, <2>4
  <2> HIDE DEF Range
  <2> QED
    BY <2>4, <2>5
<1> QED
  BY <1>2, <1>3

\* Each map is read back from its offset to the next.
LEMMA MapReadBack ==
  ASSUME NEW maps, MapsLaid(maps), NEW r \in DOMAIN maps
  PROVE  LET array == build_raw_fields(maps)
         IN  SubSeq(array.entries, array.offsets[r] + 1, array.offsets[r + 1]) = maps[r]
<1> DEFINE n == Len(maps)
           f == CHOOSE x : IsFlat(x, maps)
           g == CHOOSE x : IsOffsets(x, maps)
           array == build_raw_fields(maps)
<1>1. IsFlat(f, maps) /\ IsOffsets(g, maps)
  BY Zenon DEF MapsLaid
<1>2. Laid(maps, f, g)
  BY <1>1 DEF MapsLaid
<1>3. IsList(maps) /\ IsList(maps[r])
  BY DEF MapsLaid
<1>4. n \in Nat /\ DOMAIN maps = 1 .. n
  BY <1>3 DEF IsList
<1>5. n # 0 /\ r \in 1 .. n + 1 /\ r + 1 \in 1 .. n + 1 /\ r \in 1 .. n
  BY <1>4
<1>6. array.entries = f[n]
  BY <1>5 DEF build_raw_fields, FlattenSeq, IsFlat
<1>7. array.offsets = g
  BY DEF build_raw_fields, IsOffsets
<1> HIDE DEF f, g, array, n
<1>8. IsList(f[n]) /\ Len(f[n]) = g[n + 1]
  BY <1>2, <1>5 DEF Laid, n
<1>9. /\ g[r] \in Nat /\ g[r + 1] \in Nat /\ g[r + 1] = g[r] + Len(maps[r])
      /\ g[r + 1] <= g[n + 1]
      /\ \A j \in 1 .. Len(maps[r]) : f[n][g[r] + j] = maps[r][j]
  BY <1>2, <1>5 DEF Laid, n
<1>10. SubSeq(f[n], g[r] + 1, g[r + 1]) = maps[r]
  <2> DEFINE e == f[n]
             a == g[r]
             b == g[r + 1]
  <2>1. /\ IsList(e) /\ IsList(maps[r]) /\ a \in Nat /\ b \in Nat /\ b = a + Len(maps[r])
        /\ b <= Len(e) /\ \A j \in 1 .. Len(maps[r]) : e[a + j] = maps[r][j]
    BY <1>3, <1>8, <1>9
  <2> HIDE DEF e, a, b
  <2>2. SubSeq(e, a + 1, b) = maps[r]
    BY <2>1, CutOut, Zenon
  <2> QED
    BY <2>2 DEF e, a, b
<1> QED
  BY <1>6, <1>7, <1>10 DEF array

-----------------------------------------------------------------------------
(* The second invariant: rows hold the values of their places, their maps  *)
(* can be laid out, and the batch is built of them.                        *)

Maps(list) == [i \in DOMAIN list |-> list[i].row.raw_fields]

EntryPlaced(r) ==
  /\ r.from.is = "sample" => SamplePlaced(r.row, r.from.sample, r.from.records)
  /\ r.from.is = "report" => \A c \in AddressColumns : r.row[c] = None

PlacesInv ==
  /\ open # None /\ open.is = "sample" => SamplePlaced(open.row, open.sample, open.records)
  /\ \A r \in Range(rows) : EntryPlaced(r)
  /\ MapsLaid(Maps(rows))
  /\ batch # None => /\ open = None
                     /\ batch = rows_to_batch([r \in DOMAIN rows |-> rows[r].row])

\* A row more is a map more.
LEMMA MapsGrow ==
  ASSUME NEW list, IsList(list), NEW e
  PROVE  /\ IsList(Maps(list))
         /\ Maps(Append(list, e)) = Append(Maps(list), e.row.raw_fields)
<1> DEFINE n == Len(list)
           m == e.row.raw_fields
           S == {list[i].row.raw_fields : i \in DOMAIN list}
           old == Maps(list)
           new == Append(list, e)
<1>1. /\ n \in Nat /\ DOMAIN list = 1 .. n /\ DOMAIN new = 1 .. n + 1
      /\ (\A i \in 1 .. n : new[i] = list[i]) /\ new[n + 1] = e
  BY AppendList
<1>2. old = [i \in 1 .. n |-> list[i].row.raw_fields]
  BY <1>1 DEF Maps
<1>3. old \in Seq(S)
  BY <1>1, <1>2
<1>4. IsList(old)
  BY <1>3, ListOf
<1> HIDE DEF S, old
<1>5. Len(old) = n
  BY <1>1, <1>2, <1>3
<1>6. /\ DOMAIN Append(old, m) = 1 .. n + 1
      /\ (\A i \in 1 .. n : Append(old, m)[i] = old[i]) /\ Append(old, m)[n + 1] = m
      /\ IsList(Append(old, m))
  BY <1>4, <1>5, AppendList
<1>7. \A i \in 1 .. n + 1 : Append(old, m)[i] = new[i].row.raw_fields
  <2> SUFFICES ASSUME NEW i \in 1 .. n + 1
               PROVE  Append(old, m)[i] = new[i].row.raw_fields
    OBVIOUS
  <2>1. CASE i \in 1 .. n
    <3>1. Append(old, m)[i] = old[i] /\ new[i] = list[i]
      BY <1>1, <1>6, <2>1
    <3>2. old[i] = list[i].row.raw_fields
      BY <1>2, <2>1
    <3> HIDE DEF m, new
    <3> QED
      BY <3>1, <3>2
  <2>2. CASE i = n + 1
    <3>1. Append(old, m)[i] = m /\ new[i] = e
      BY <1>1, <1>6, <2>2
    <3> QED
      BY <3>1, Zenon
  <2>3. i \in 1 .. n \/ i = n + 1
    BY <1>1
  <2> QED
    BY <2>1, <2>2, <2>3
<1>8. Append(old, m) = [i \in 1 .. n + 1 |-> Append(old, m)[i]]
  BY <1>6 DEF IsList
<1>9. Maps(new) = [i \in 1 .. n + 1 |-> new[i].row.raw_fields]
  BY <1>1, Zenon DEF Maps
<1> HIDE DEF new, m
<1>10. Maps(new) = Append(old, m)
  BY <1>7, <1>8, <1>9
<1> QED
  BY <1>4, <1>10 DEF old, new, m

\* A step that leaves the rows alone.
LEMMA PlacesQuiet ==
  ASSUME PlacesInv, rows' = rows, batch' = batch, batch # None => open' = None,
         open' # None /\ open'.is = "sample" =>
           SamplePlaced(open'.row, open'.sample, open'.records)
  PROVE  PlacesInv'
<1>1. /\ \A r \in Range(rows') : EntryPlaced(r)
      /\ MapsLaid(Maps(rows'))
  BY DEF PlacesInv
<1>2. batch' # None => /\ open' = None
                       /\ batch' = rows_to_batch([r \in DOMAIN rows' |-> rows'[r].row])
  BY DEF PlacesInv
<1> QED
  BY <1>1, <1>2 DEF PlacesInv

\* A step that emits a row.
LEMMA PlacesEmit ==
  ASSUME PlacesInv, RowsInv, RowsInv', NEW row, NEW from, Emit(row, from),
         EntryPlaced([row |-> row, from |-> from]), batch = None, batch' = batch, open' = None
  PROVE  PlacesInv'
<1> DEFINE entry == [row |-> row, from |-> from]
<1>1. rows' = Append(rows, entry) /\ EntryPlaced(entry)
  BY DEF Emit
<1> HIDE DEF entry
<1>2. IsList(rows)
  BY DEF RowsInv, EntriesOK
<1>3. Range(rows') = Range(rows) \cup {entry}
  BY <1>1, <1>2, AppendList
<1>4. IsList(entry.row.raw_fields)
  BY <1>3 DEF RowsInv, EntriesOK, EntryOK, IsRow
<1>5. MapsLaid(Maps(rows'))
  <2>1. Maps(rows') = Append(Maps(rows), entry.row.raw_fields)
    BY <1>1, <1>2, MapsGrow
  <2>2. MapsLaid(Maps(rows))
    BY DEF PlacesInv
  <2> QED
    BY <1>4, <2>1, <2>2, LaidStep
<1>6. \A r \in Range(rows') : EntryPlaced(r)
  BY <1>1, <1>3 DEF PlacesInv
<1> QED
  BY <1>5, <1>6 DEF PlacesInv

LEMMA PlacesInitially == Init => PlacesInv
<1> SUFFICES ASSUME Init PROVE PlacesInv
  OBVIOUS
<1>1. open = None /\ rows = <<>> /\ batch = None
  BY DEF Init
<1>2. Maps(<<>>) = <<>> /\ Range(<<>>) = {}
  BY DEF Maps, Range
<1> QED
  BY <1>1, <1>2, NothingLaid DEF PlacesInv

\* The actions on samples.
LEMMA BeginSamplePlaces ==
  ASSUME PlacesInv, NEW sample \in Samples, NEW mode, BeginSample(sample, mode)
  PROVE  PlacesInv'
<1> DEFINE row == SampleRow(sample, SflowContext)
<1>1. /\ open' = [is |-> "sample", sample |-> sample, cursor |-> RecordsAt(sample),
                  left |-> NumRecords(sample), row |-> row, records |-> <<>>]
      /\ rows' = rows /\ batch' = batch /\ batch = None
  BY DEF BeginSample, Decoding
<1>2. SamplePlaced(row, sample, <<>>)
  BY PlacedStart, RowsAssumption
<1> HIDE DEF row
<1>3. SamplePlaced(open'.row, open'.sample, open'.records)
  BY <1>1, <1>2
<1> QED
  BY <1>1, <1>3, PlacesQuiet

LEMMA MapSampleRecordPlaces ==
  ASSUME RowsInv, PlacesInv, NEW rec \in Records, MapSampleRecord(rec)
  PROVE  PlacesInv'
<1> DEFINE k == Len(open.records) + 1
           row == IF IsFlowSample(open.sample)
                  THEN parse_record(open.row, k, rec, SamplingRate(open.sample))
                  ELSE put_counters(open.row, k, rec)
           cursor == open.cursor \odot Skip(8) \odot Skip(rec.size)
           left == open.left - 1
           records == Append(open.records, rec)
<1>1. /\ open # None /\ open.is = "sample" /\ rows' = rows /\ batch' = batch
      /\ open' = [open EXCEPT !.cursor = cursor, !.left = left, !.row = row,
                              !.records = records]
  BY DEF MapSampleRecord
<1>2. SampleOpen(open)
  <2>1. RecordOpen(open) => open.is = "record"
    BY DEF RecordOpen
  <2> QED
    BY <1>1, <2>1 DEF RowsInv, OpenOK
<1>3. /\ open = [is |-> "sample", sample |-> open.sample, cursor |-> open.cursor,
                 left |-> open.left, row |-> open.row, records |-> open.records]
      /\ SampleOK(open.row, open.sample, open.records)
  BY <1>2 DEF SampleOpen
<1>4. SamplePlaced(open.row, open.sample, open.records) /\ batch = None
  BY <1>1 DEF PlacesInv
<1>5. SamplePlaced(row, open.sample, records)
  BY <1>3, <1>4, PlacedStep, RowsAssumption DEF SampleOK
<1> HIDE DEF row, cursor, records, left
<1>6. open' = [is |-> "sample", sample |-> open.sample, cursor |-> cursor, left |-> left,
               row |-> row, records |-> records]
  BY <1>1, <1>3
<1>7. SamplePlaced(open'.row, open'.sample, open'.records)
  BY <1>5, <1>6
<1> QED
  BY <1>1, <1>4, <1>7, PlacesQuiet

LEMMA EndSamplePlaces ==
  ASSUME RowsInv, RowsInv', PlacesInv, EndSample
  PROVE  PlacesInv'
<1> DEFINE from == [is |-> "sample", sample |-> open.sample, records |-> open.records]
           entry == [row |-> open.row, from |-> from]
<1>1. /\ open # None /\ open.is = "sample" /\ Emit(open.row, from) /\ open' = None
      /\ batch' = batch
  BY DEF EndSample
<1>2. SamplePlaced(open.row, open.sample, open.records) /\ batch = None
  BY <1>1 DEF PlacesInv
<1>3. /\ entry.row = open.row /\ entry.from = from /\ from.is = "sample"
      /\ from.sample = open.sample /\ from.records = open.records
  OBVIOUS
<1> HIDE DEF entry, from
<1>4. EntryPlaced(entry)
  BY <1>2, <1>3 DEF EntryPlaced
<1> QED
  BY <1>1, <1>2, <1>4, PlacesEmit DEF entry

\* The actions on NetFlow records.
LEMMA NetflowPlaces ==
  ASSUME RowsInv, RowsInv', PlacesInv, NetflowStep
  PROVE  PlacesInv'
<1>1. ASSUME NEW device, NEW version, BeginRecord(version, device)
      PROVE  PlacesInv'
  <2>1. rows' = rows /\ batch' = batch /\ batch = None /\ open'.is = "record"
    BY <1>1 DEF BeginRecord, Decoding
  <2> QED
    BY <2>1, PlacesQuiet
<1>2. ASSUME NEW device, NEW first, NEW last, V5Record(device, first, last)
      PROVE  PlacesInv'
  <2> DEFINE header == Header("5", device)
             row == decode_record(header, first % U32, last % U32)
             from == [is |-> "v5", device |-> device, header |-> header,
                      readings |-> [flow_start |-> first, flow_end |-> last]]
             entry == [row |-> row, from |-> from]
  <2>1. /\ Emit(row, from) /\ batch' = batch /\ batch = None /\ open' = None
    BY <1>2 DEF V5Record, Decoding
  <2>2. entry.from.is = "v5"
    OBVIOUS
  <2> HIDE DEF entry, row, from
  <2>3. EntryPlaced(entry)
    BY <2>2 DEF EntryPlaced
  <2> QED
    BY <2>1, <2>3, PlacesEmit DEF entry
<1>3. ASSUME NEW device, NEW version, NEW diag, Report(version, device, diag)
      PROVE  PlacesInv'
  <2> DEFINE header == Header(version, device)
             row == diagnostic(header, diag)
             from == [is |-> "report", device |-> device, header |-> header]
             entry == [row |-> row, from |-> from]
  <2>1. /\ Emit(row, from) /\ batch' = batch /\ batch = None /\ open' = None
    BY <1>3 DEF Report, Decoding
  <2>2. entry.from.is = "report" /\ entry.row = row
    OBVIOUS
  <2>3. \A c \in AddressColumns : row[c] = None
    <3>1. IsRow(HeaderRow(header)) /\ \A c \in MappedColumns : HeaderRow(header)[c] = None
      BY HeaderIsRow
    <3>2. /\ AddressColumns \subseteq MappedColumns
          /\ AddressColumns \subseteq Columns \ {"diagnostics"}
      BY DEF MappedColumns, AddressColumns, Columns
    <3> QED
      BY <3>1, <3>2, NoteRow DEF diagnostic
  <2> HIDE DEF entry, row, from
  <2>4. EntryPlaced(entry)
    BY <2>2, <2>3 DEF EntryPlaced
  <2> QED
    BY <2>1, <2>4, PlacesEmit DEF entry
<1>4. ASSUME NEW f, MapField(f) PROVE PlacesInv'
  <2>1. open # None /\ open.is = "record" /\ rows' = rows /\ batch' = batch
    BY <1>4 DEF MapField
  <2>2. batch = None
    BY <2>1 DEF PlacesInv
  <2>3. RecordOpen(open)
    <3>1. SampleOpen(open) => open.is = "sample"
      BY DEF SampleOpen
    <3> QED
      BY <2>1, <3>1 DEF RowsInv, OpenOK
  <2>4. open'.is = "record"
    <3> DEFINE draft == map_field(open.draft, f)
               fields == Append(open.fields, f)
    <3>1. /\ open' = [open EXCEPT !.draft = draft, !.fields = fields]
          /\ "is" \in DOMAIN open
      BY <1>4, <2>3 DEF MapField, RecordOpen
    <3> HIDE DEF draft, fields
    <3> QED
      BY <2>1, <3>1
  <2> QED
    BY <2>1, <2>2, <2>4, PlacesQuiet
<1>5. ASSUME EndRecord PROVE PlacesInv'
  <2> DEFINE row == resolve_times(open.draft, open.header.export, open.header.uptime)
             from == [is |-> "record", device |-> open.device, header |-> open.header,
                      fields |-> open.fields]
             entry == [row |-> row, from |-> from]
  <2>1. open # None /\ Emit(row, from) /\ open' = None /\ batch' = batch
    BY <1>5 DEF EndRecord
  <2>2. batch = None
    BY <2>1 DEF PlacesInv
  <2>3. entry.from.is = "record"
    OBVIOUS
  <2> HIDE DEF entry, row, from
  <2>4. EntryPlaced(entry)
    BY <2>3 DEF EntryPlaced
  <2> QED
    BY <2>1, <2>2, <2>4, PlacesEmit DEF entry
<1> QED
  BY <1>1, <1>2, <1>3, <1>4, <1>5 DEF NetflowStep

LEMMA PlacesNext ==
  ASSUME RowsInv, RowsInv', PlacesInv, [Next]_vars
  PROVE  PlacesInv'
<1>1. ASSUME SflowStep PROVE PlacesInv'
  <2>1. ASSUME NEW sample \in Samples, NEW mode, BeginSample(sample, mode) PROVE PlacesInv'
    BY <2>1, BeginSamplePlaces
  <2>2. ASSUME NEW sample, NEW mode, SkipSample(sample, mode) PROVE PlacesInv'
    <3>1. rows' = rows /\ batch' = batch /\ open' = None
      BY <2>2 DEF SkipSample, Decoding
    <3> QED
      BY <3>1, PlacesQuiet
  <2>3. ASSUME NEW rec \in Records, MapSampleRecord(rec) PROVE PlacesInv'
    BY <2>3, MapSampleRecordPlaces
  <2>4. ASSUME EndSample PROVE PlacesInv'
    BY <2>4, EndSamplePlaces
  <2> QED
    BY <1>1, <2>1, <2>2, <2>3, <2>4 DEF SflowStep
<1>2. CASE BuildBatch
  <2>1. /\ open = None /\ open' = open /\ rows' = rows
        /\ batch' = rows_to_batch([r \in DOMAIN rows |-> rows[r].row])
    BY <1>2 DEF BuildBatch
  <2> QED
    BY <2>1 DEF PlacesInv
<1>3. CASE Done \/ UNCHANGED vars
  <2>1. open' = open /\ rows' = rows /\ batch' = batch
    BY <1>3 DEF Done, vars
  <2> QED
    BY <2>1 DEF PlacesInv
<1> QED
  BY <1>1, <1>2, <1>3, NetflowPlaces DEF Next

\* Every row has its values from their places, the maps of all rows can be laid out one
\* after the other, and a batch is built of the rows (parse_record, rows_to_batch).
THEOREM PlacesInvariant == Spec => []PlacesInv
<1>1. Init => PlacesInv
  BY PlacesInitially
<1>2. RowsInv /\ RowsInv' /\ PlacesInv /\ [Next]_vars => PlacesInv'
  BY PlacesNext
<1> QED
  BY <1>1, <1>2, RowsInvariant, PTL DEF Spec

\* Every value of a v5 or sFlow row comes from its own place in the record, whatever
\* tags, header options and records lie before it (decode_record, parse_record).
THEOREM ValuesAreInPlace == Spec => []ValuesInPlace
<1>1. RowsInv /\ PlacesInv => ValuesInPlace
  <2> SUFFICES ASSUME RowsInv, PlacesInv PROVE ValuesInPlace
    OBVIOUS
  <2>1. ASSUME NEW r \in Range(rows), r.from.is = "v5" PROVE V5InPlace(r)
    BY <2>1, V5Values DEF RowsInv, EntriesOK, EntryOK
  <2>2. ASSUME NEW r \in SampleRows PROVE SampleInPlace(r)
    <3>1. r \in Range(rows) /\ r.from.is = "sample"
      BY <2>2 DEF SampleRows
    <3>2. r.from.records \in Seq(SampleRecord)
      BY <3>1 DEF RowsInv, EntriesOK, EntryOK, SampleOK
    <3>3. SamplePlaced(r.row, r.from.sample, r.from.records)
      BY <3>1 DEF PlacesInv, EntryPlaced
    <3> QED
      BY <3>2, <3>3, SampleValues
  <2> QED
    BY <2>1, <2>2 DEF ValuesInPlace, V5InPlace, SampleInPlace
<1> QED
  BY <1>1, RowsInvariant, PlacesInvariant, PTL

-----------------------------------------------------------------------------
(* The batch read back.                                                    *)

\* An address of a row is NULL or has the three parts its arrays hold.
IsInet(v) == v = None \/ v = [ip_type |-> v.ip_type, address |-> v.address, mask |-> v.mask]

LEMMA EncodedIsInet == \A n : IsInet(encode4(n)) /\ IsInet(encode6(n))
BY DEF IsInet, encode4, encode6

LEMMA AddressesAreInet ==
  ASSUME RowsInv, PlacesInv, NEW r \in Range(rows), NEW c \in AddressColumns
  PROVE  IsInet(r.row[c])
<1>1. EntryOK(r) /\ EntryPlaced(r)
  BY DEF RowsInv, EntriesOK, PlacesInv
<1>2. r.row[c] = None => IsInet(r.row[c])
  BY DEF IsInet
<1>3. CASE r.from.is = "record"
  <2> DEFINE fs == r.from.fields
  <2>1. RecordEntry(r) /\ fs \in Seq(KnownFields)
    BY <1>1, <1>3 DEF EntryOK, RecordEntry
  <2>2. c \in MappedColumns \ TimeColumns
    BY DEF MappedColumns, AddressColumns, TimeColumns
  <2>3. Held(r.row[c], fs, c)
    BY <2>1, <2>2, RecordRow
  <2>4. r.row[c] = None \/ \E i \in DOMAIN fs : Speaks(fs[i], c) /\ r.row[c] = ValueOf(fs[i])
    BY <2>3 DEF Held, Wins
  <2>5. ASSUME NEW i \in DOMAIN fs, Speaks(fs[i], c), r.row[c] = ValueOf(fs[i])
        PROVE  IsInet(r.row[c])
    <3>1. fs[i] \in KnownFields
      BY <2>1
    <3>2. r.row[c] \in [ip_type : {1, 2}, address : Int, mask : Int]
      BY <2>5, <3>1, SpokenValue
    <3> QED
      BY <3>2 DEF IsInet
  <2> QED
    BY <1>2, <2>4, <2>5
<1>4. CASE r.from.is = "v5"
  <2>1. V5InPlace(r)
    BY <1>1, <1>4, V5Values DEF EntryOK
  <2>2. c \in DOMAIN V5Places
    BY DEF V5Places, AddressColumns
  <2>3. r.row[c] = encode4(Mark(0, V5Places[c]))
    BY <2>1, <2>2 DEF V5InPlace
  <2> QED
    BY <2>3, EncodedIsInet
<1>5. CASE r.from.is = "sample"
  <2>1. c \in {"src_addr", "dst_addr", "next_hop"}
    BY DEF AddressColumns
  <2>2. r.row[c] = None \/ \E k, p : r.row[c] \in ValuesAt(k, p, c)
    BY <1>1, <1>5, <2>1 DEF EntryPlaced, SamplePlaced
  <2>3. \A k, p : r.row[c] \in ValuesAt(k, p, c) => IsInet(r.row[c])
    BY EncodedIsInet DEF ValuesAt
  <2> QED
    BY <1>2, <2>2, <2>3
<1>6. CASE r.from.is = "report"
  BY <1>1, <1>2, <1>6 DEF EntryPlaced
<1> QED
  BY <1>1, <1>3, <1>4, <1>5, <1>6 DEF EntryOK

\* Every column is built at the place where the schema declares it.
LEMMA SchemaHasColumn ==
  ASSUME NEW c \in Columns
  PROVE  \E i \in 1 .. 28 : flow_schema[i] = c
<1> SUFFICES ASSUME \A i \in 1 .. 28 : flow_schema[i] # c PROVE FALSE
  OBVIOUS
<1>1. /\ flow_schema[1] = "exporter" /\ flow_schema[2] = "flow_version"
      /\ flow_schema[3] = "obs_domain" /\ flow_schema[4] = "template_id"
      /\ flow_schema[5] = "export_time" /\ flow_schema[6] = "sequence"
      /\ flow_schema[7] = "src_addr" /\ flow_schema[8] = "dst_addr"
      /\ flow_schema[9] = "src_port" /\ flow_schema[10] = "dst_port"
      /\ flow_schema[11] = "protocol" /\ flow_schema[12] = "tcp_flags"
      /\ flow_schema[13] = "bytes" /\ flow_schema[14] = "packets"
      /\ flow_schema[15] = "flow_start" /\ flow_schema[16] = "flow_end"
      /\ flow_schema[17] = "src_as" /\ flow_schema[18] = "dst_as"
      /\ flow_schema[19] = "input_snmp" /\ flow_schema[20] = "output_snmp"
      /\ flow_schema[21] = "next_hop" /\ flow_schema[22] = "tos"
      /\ flow_schema[23] = "src_mask" /\ flow_schema[24] = "dst_mask"
      /\ flow_schema[25] = "sampling_rate" /\ flow_schema[26] = "direction"
      /\ flow_schema[27] = "raw_fields" /\ flow_schema[28] = "diagnostics"
  BY DEF flow_schema
<1> QED
  BY <1>1 DEF Columns, HeaderColumns, AddressColumns, FlowColumns

LEMMA ColumnIsBuilt ==
  ASSUME NEW c \in Columns
  PROVE  LET i == CHOOSE i \in DOMAIN flow_schema : flow_schema[i] = c
         IN  i \in DOMAIN BuildOrder /\ BuildOrder[i] = c
<1>1. DOMAIN flow_schema = 1 .. 28
  BY DEF flow_schema
<1>2. \E i \in DOMAIN flow_schema : flow_schema[i] = c
  BY <1>1, SchemaHasColumn
<1>3. BuildOrder = flow_schema
  BY DEF BuildOrder, flow_schema
<1> QED
  BY <1>2, <1>3

\* Every cell the engine reads is that of the row decoded (flow_schema, rows_to_batch).
THEOREM BatchesRoundTrip == Spec => []BatchRoundTrips
<1>1. RowsInv /\ PlacesInv => BatchRoundTrips
  <2> SUFFICES ASSUME RowsInv, PlacesInv, batch # None, NEW r \in DOMAIN rows, NEW c \in Columns
               PROVE  CellOf(c, r) = rows[r].row[c]
    BY DEF BatchRoundTrips
  <2> DEFINE i == CHOOSE i \in DOMAIN flow_schema : flow_schema[i] = c
             vals == [q \in DOMAIN rows |-> rows[q].row[c]]
             array == CASE c \in AddressColumns -> build_inet(vals)
                        [] c = "raw_fields" -> build_raw_fields(vals)
                        [] OTHER -> vals
  <2>1. i \in DOMAIN BuildOrder /\ BuildOrder[i] = c
    BY ColumnIsBuilt
  <2>2. batch = rows_to_batch([q \in DOMAIN rows |-> rows[q].row])
    BY DEF PlacesInv
  <2>3. vals[r] = rows[r].row[c] /\ DOMAIN vals = DOMAIN rows
    OBVIOUS
  <2>4. CellOf(c, r) = LET a == batch[i]
                       IN  CASE c \in AddressColumns ->
                                  IF a.valid[r]
                                  THEN [ip_type |-> a.ip_type[r], address |-> a.address[r],
                                        mask |-> a.mask[r]]
                                  ELSE None
                             [] c = "raw_fields" ->
                                  SubSeq(a.entries, a.offsets[r] + 1, a.offsets[r + 1])
                             [] OTHER -> a[r]
    BY Zenon DEF CellOf
  <2> HIDE DEF i
  <2>5. batch[i] = array
    <3> DEFINE rs == [q \in DOMAIN rows |-> rows[q].row]
    <3>1. [q \in DOMAIN rs |-> rs[q][c]] = vals
      OBVIOUS
    <3> HIDE DEF rs
    <3>2. rows_to_batch(rs)[i] = LET v == [q \in DOMAIN rs |-> rs[q][c]]
                                 IN  CASE c \in AddressColumns -> build_inet(v)
                                       [] c = "raw_fields" -> build_raw_fields(v)
                                       [] OTHER -> v
      BY <2>1 DEF rows_to_batch
    <3> QED
      BY <2>2, <3>1, <3>2 DEF rs
  <2> HIDE DEF array
  <2>6. "raw_fields" \notin AddressColumns
    BY DEF AddressColumns
  <2>7. CASE c \in AddressColumns
    <3>1. array = build_inet(vals)
      BY <2>6, <2>7 DEF array
    <3> DEFINE v == vals[r]
    <3> HIDE DEF vals
    <3>2. /\ array.valid[r] = (v # None)
          /\ array.ip_type[r] = IF v = None THEN 0 ELSE v.ip_type
          /\ array.address[r] = IF v = None THEN 0 ELSE v.address
          /\ array.mask[r] = IF v = None THEN 0 ELSE v.mask
      BY <2>3, <3>1 DEF build_inet
    <3>3. IsInet(v)
      <4>1. rows[r] \in Range(rows)
        BY DEF Range
      <4> QED
        BY <2>3, <2>7, <4>1, AddressesAreInet
    <3>4. CellOf(c, r) = IF v # None
                         THEN [ip_type |-> array.ip_type[r], address |-> array.address[r],
                               mask |-> array.mask[r]]
                         ELSE None
      BY <2>4, <2>5, <2>6, <2>7, <3>2
    <3> HIDE DEF v
    <3>5. CellOf(c, r) = v
      BY <3>2, <3>3, <3>4 DEF IsInet
    <3> QED
      BY <2>3, <3>5 DEF v
  <2>8. CASE c = "raw_fields"
    <3>1. vals = Maps(rows)
      BY <2>8 DEF Maps
    <3>2. array = build_raw_fields(Maps(rows))
      BY <2>6, <2>8, <3>1 DEF array
    <3>3. MapsLaid(Maps(rows)) /\ r \in DOMAIN Maps(rows)
      BY <2>3, <3>1 DEF PlacesInv
    <3>4. SubSeq(array.entries, array.offsets[r] + 1, array.offsets[r + 1]) = Maps(rows)[r]
      BY <3>2, <3>3, MapReadBack
    <3>5. CellOf(c, r) = SubSeq(array.entries, array.offsets[r] + 1, array.offsets[r + 1])
      BY <2>4, <2>5, <2>6, <2>8
    <3> QED
      BY <2>3, <3>1, <3>4, <3>5
  <2>9. CASE c \notin AddressColumns /\ c # "raw_fields"
    <3>1. array = vals
      BY <2>9 DEF array
    <3> QED
      BY <2>3, <2>4, <2>5, <2>9, <3>1
  <2> QED
    BY <2>7, <2>8, <2>9
<1> QED
  BY <1>1, RowsInvariant, PlacesInvariant, PTL
=============================================================================
