-------------------------------- MODULE Inet --------------------------------
(***************************************************************************)
(* DuckDB's INET triple (netflow-core inet.rs): an address family, the     *)
(* address as a signed 128-bit number, and a prefix length.                *)
(***************************************************************************)
EXTENDS Widths

CONSTANT None   \* Option::None, SQL NULL

ASSUME NoneAssumption ==
  None \notin Int /\ None \notin [ip_type : Int, address : Int, mask : Int]

encode4(addr) == [ip_type |-> 1, address |-> addr, mask |-> 32]

\* Mutant: the sign bit is not flipped.
encode6_Plain(addr) == [ip_type |-> 2, address |-> AsI128(addr), mask |-> 128]

encode6(addr) == [ip_type |-> 2, address |-> AsI128(FlipSign(addr)), mask |-> 128]

\* None on a length mismatch.
inet4(b) == IF b.len = 4 THEN encode4(b.val) ELSE None
inet6(b) == IF b.len = 16 THEN encode6(b.val) ELSE None

\* `as u128` of a signed number, `as u32` of an IPv4 one.
AsU128(n) == n % U128
to_ip(v) == IF v.ip_type = 1 THEN v.address % U32 ELSE FlipSign(AsU128(v.address))
=============================================================================
