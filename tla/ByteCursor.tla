----------------------------- MODULE ByteCursor -----------------------------
(***************************************************************************)
(* The read cursor of the decoders (netflow-core buf.rs).  A read that     *)
(* underruns leaves the cursor where it was.  Callers do one of two things *)
(* about it: end the parse (`?`, let-else), or carry on (`unwrap_or`, an   *)
(* ignored skip), so that the next, smaller read takes the bytes the       *)
(* larger one could not.                                                   *)
(***************************************************************************)
EXTENDS Integers

Cursor(size) == [size |-> size, pos |-> 0, ok |-> TRUE]

\* ok records whether the parse goes on.
Read(n) == [width |-> n, must |-> TRUE]
Skip(n) == [width |-> n, must |-> FALSE]

remaining(c) == c.size - c.pos

InBounds(c, n) == n <= remaining(c)

c \odot op ==
  IF InBounds(c, op.width) THEN [c EXCEPT !.pos = @ + op.width]
  ELSE IF op.must THEN [c EXCEPT !.ok = FALSE]
  ELSE c

\* The next n bytes as a buffer of their own, offsets still counted in the whole;
\* empty if there are fewer.
Slice(c, n) == [c EXCEPT !.size = IF InBounds(c, n) THEN @ - (remaining(c) - n) ELSE c.pos]
=============================================================================
