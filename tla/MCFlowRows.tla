----------------------------- MODULE MCFlowRows -----------------------------
(* A byte of two values, a second of six microseconds.  A 32-bit counter then *)
(* wraps after 16 milliseconds and an i64 after 128 microseconds.             *)
EXTENDS FlowRows

\* One device that has just booted, one whose uptime counter has wrapped.
TwoDevices == {[boot |-> 5, up |-> 4], [boot |-> 5, up |-> 17]}
SomeReadings == {3, 17}

Field(ie, len, val) ==
  [ie |-> ie, enterprise |-> 0, known |-> TRUE, bytes |-> [len |-> len, val |-> val]]

\* Addresses of the right and of a wrong length, on both sides of the sign bit.
AddressFields ==
  {Field(8, 4, 9), Field(8, 2, 1), Field(27, 16, 5), Field(28, 16, U128 \div 2)}

\* Numbers that fit their column, that do not, and that are longer than eight bytes.
NumberFields ==
  {Field(7, 4, 13), Field(180, 2, 1), Field(34, 10, 700),
   Field(1, 8, 200), Field(23, 4, 6)}

\* Times in all units: an eight-byte seconds value overflows; NTP seconds count from
\* before the epoch.
ClockFields ==
  {Field(150, 4, 15), Field(150, 8, 250), Field(152, 8, 11),
   Field(154, 8, 7 * U32 + 9), Field(157, 8, 6 * U32 + 15)}

\* Elements no column takes, of the IANA registry, known and unknown vendors.
RawFields ==
  {Field(82, 2, 1),
   [ie |-> 8, enterprise |-> 9, known |-> TRUE, bytes |-> [len |-> 4, val |-> 6]],
   [ie |-> 9, enterprise |-> 7, known |-> FALSE, bytes |-> [len |-> 1, val |-> 0]]}

AllFields == AddressFields \cup NumberFields \cup ClockFields \cup RawFields

-----------------------------------------------------------------------------
NoPacket == [tagged |-> FALSE, l3 |-> "other", ihl |-> 0, proto |-> 1, elsewhere |-> 17]

Raw(packet, captured) ==
  [enterprise |-> 0, format |-> 1, size |-> 16 + captured, frame |-> 5, captured |-> captured,
   packet |-> packet]

Ipv4(tagged, ihl, proto) ==
  [NoPacket EXCEPT !.tagged = tagged, !.l3 = "ipv4", !.ihl = ihl, !.proto = proto]
Ipv6(tagged, proto) == [NoPacket EXCEPT !.tagged = tagged, !.l3 = "ipv6", !.proto = proto]

\* Complete packets of all kinds.
Packets ==
  {Raw(Ipv4(tagged, ihl, proto), 56) : tagged \in BOOLEAN, ihl \in {4, 6}, proto \in {6, 17}}
  \cup {Raw(Ipv6(tagged, proto), 72) : tagged \in BOOLEAN, proto \in {6, 17}}

\* Packets cut off in each of their headers.
CutPackets ==
  {Raw(Ipv4(FALSE, 6, 6), captured) : captured \in {11, 13, 15, 26, 29, 33, 36, 43}}
  \cup {Raw(Ipv4(TRUE, 5, 1), captured) : captured \in {15, 17, 38}}
  \cup {Raw(Ipv6(FALSE, 6), captured) : captured \in {17, 19, 37, 53, 58}}

\* The other formats, complete and cut off; a frame that announces more than it has; a
\* record of a vendor.
OtherRecords ==
  {[Raw(NoPacket, 0) EXCEPT !.format = format, !.size = size, !.frame = 7] :
     format \in {3, 4}, size \in {6, 20, 56}}
  \cup
  {[Raw(NoPacket, 14) EXCEPT !.captured = 20], [Raw(NoPacket, 0) EXCEPT !.size = 6],
   [Raw(NoPacket, 14) EXCEPT !.enterprise = 4413, !.format = 3]}

AllRecords == Packets \cup CutPackets \cup OtherRecords

\* Compact and expanded flow and counter samples of none, one or two records, some too
\* short for their header or for their records; a format the decoder does not know.
ASample(format, size, rate, count) ==
  [enterprise |-> 0, format |-> format, size |-> size, rate |-> rate, count |-> count]

AllSamples ==
  {ASample(format, size, 3, 1) : format \in {1, 3}, size \in {10, 26, 120}}
  \cup {ASample(1, 260, 3, 2), ASample(3, 260, 0, 1)}
  \cup {ASample(format, size, 1, 1) : format \in {2, 4, 5}, size \in {14, 80}}
=============================================================================
