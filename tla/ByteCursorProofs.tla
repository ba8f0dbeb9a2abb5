-------------------------- MODULE ByteCursorProofs --------------------------
(***************************************************************************)
(* What a chain of reads does to a cursor, for every buffer size.          *)
(***************************************************************************)
EXTENDS ByteCursor, TLAPS

CursorType == [size : Nat, pos : Nat, ok : BOOLEAN]

\* A cursor inside its buffer.
Inside(c, size) == c \in CursorType /\ c.size = size /\ c.pos <= size

LEMMA CursorInside ==
  ASSUME NEW size \in Nat
  PROVE  Inside(Cursor(size), size)
BY DEF Cursor, Inside, CursorType

\* What a read and a skip make of a cursor.
LEMMA ReadIn ==
  ASSUME NEW c \in CursorType, NEW n \in Nat, InBounds(c, n)
  PROVE  c \odot Read(n) = [size |-> c.size, pos |-> c.pos + n, ok |-> c.ok]
BY DEF \odot, Read, CursorType

LEMMA SkipIn ==
  ASSUME NEW c \in CursorType, NEW n \in Nat, InBounds(c, n)
  PROVE  c \odot Skip(n) = [size |-> c.size, pos |-> c.pos + n, ok |-> c.ok]
BY DEF \odot, Skip, CursorType

LEMMA ReadOut ==
  ASSUME NEW c \in CursorType, NEW n \in Nat, ~InBounds(c, n)
  PROVE  c \odot Read(n) = [size |-> c.size, pos |-> c.pos, ok |-> FALSE]
BY DEF \odot, Read, CursorType

LEMMA SkipOut ==
  ASSUME NEW c \in CursorType, NEW n \in Nat, ~InBounds(c, n)
  PROVE  c \odot Skip(n) = c
<1>1. Skip(n).width = n /\ ~Skip(n).must BY DEF Skip
<1> QED BY <1>1 DEF \odot

LEMMA ReadInside ==
  ASSUME NEW size \in Nat, NEW c, Inside(c, size), NEW n \in Nat
  PROVE  Inside(c \odot Read(n), size) /\ Inside(c \odot Skip(n), size)
<1>1. c \in CursorType /\ c.size = size /\ c.pos <= size BY DEF Inside
<1>2. CASE InBounds(c, n)
  BY <1>1, <1>2, ReadIn, SkipIn DEF Inside, CursorType, InBounds, remaining
<1>3. CASE ~InBounds(c, n)
  <2>0. c \odot Read(n) = [size |-> size, pos |-> c.pos, ok |-> FALSE]
    BY <1>1, <1>3, ReadOut
  <2>1. Inside(c \odot Read(n), size)
    <3>1. c.pos \in Nat BY <1>1 DEF CursorType
    <3>2. [size |-> size, pos |-> c.pos, ok |-> FALSE] \in CursorType
      BY <3>1 DEF CursorType
    <3> QED BY <1>1, <2>0, <3>2 DEF Inside
  <2> QED BY <1>1, <1>3, <2>1, SkipOut DEF Inside
<1> QED BY <1>2, <1>3

\* All reads up to offset p succeeded, or one has failed for want of bytes.
ReadUpTo(c, size, p) ==
  /\ Inside(c, size)
  /\ size >= p => c.ok /\ c.pos = p
  /\ size < p => ~c.ok

LEMMA ReadOn ==
  ASSUME NEW size \in Nat, NEW p \in Nat, NEW c, ReadUpTo(c, size, p), NEW n \in Nat
  PROVE  ReadUpTo(c \odot Read(n), size, p + n)
<1> DEFINE r == c \odot Read(n)
<1> SUFFICES ReadUpTo(r, size, p + n) OBVIOUS
<1>0. c \in CursorType /\ c.size = size /\ c.pos <= size BY DEF ReadUpTo, Inside
<1>1. Inside(r, size) BY ReadInside DEF ReadUpTo
<1>2. CASE InBounds(c, n)
  <2>1. r.pos = c.pos + n /\ r.ok = c.ok BY <1>0, <1>2, ReadIn
  <2>2. c.pos + n <= size BY <1>0, <1>2 DEF InBounds, remaining, CursorType
  <2> HIDE DEF r
  <2> QED BY <1>0, <1>1, <2>1, <2>2 DEF ReadUpTo, CursorType
<1>3. CASE ~InBounds(c, n)
  <2>1. ~r.ok BY <1>0, <1>3, ReadOut
  <2>2. c.pos + n > size BY <1>0, <1>3 DEF InBounds, remaining, CursorType
  <2> HIDE DEF r
  <2> QED BY <1>0, <1>1, <2>1, <2>2 DEF ReadUpTo, CursorType
<1> QED BY <1>2, <1>3

LEMMA Started ==
  ASSUME NEW size \in Nat
  PROVE  ReadUpTo(Cursor(size), size, 0)
<1>1. Cursor(size).ok /\ Cursor(size).pos = 0 BY DEF Cursor
<1> QED BY <1>1, CursorInside DEF ReadUpTo

\* A skip that underruns goes unnoticed.
LEMMA SkipOn ==
  ASSUME NEW size \in Nat, NEW p \in Nat, NEW c, ReadUpTo(c, size, p), NEW n \in Nat
  PROVE  \/ ReadUpTo(c \odot Skip(n), size, p + n)
         \/ size < p + n /\ ReadUpTo(c \odot Skip(n), size, p)
<1> DEFINE r == c \odot Skip(n)
<1> SUFFICES ReadUpTo(r, size, p + n) \/ (size < p + n /\ ReadUpTo(r, size, p)) OBVIOUS
<1>0. c \in CursorType /\ c.size = size /\ c.pos <= size BY DEF ReadUpTo, Inside
<1>1. Inside(r, size) BY ReadInside DEF ReadUpTo
<1>2. CASE InBounds(c, n)
  <2>1. r.pos = c.pos + n /\ r.ok = c.ok BY <1>0, <1>2, SkipIn
  <2>2. c.pos + n <= size BY <1>0, <1>2 DEF InBounds, remaining, CursorType
  <2> HIDE DEF r
  <2> QED BY <1>0, <1>1, <2>1, <2>2 DEF ReadUpTo, CursorType
<1>3. CASE ~InBounds(c, n)
  <2>1. r = c BY <1>0, <1>3, SkipOut
  <2>2. c.pos + n > size BY <1>0, <1>3 DEF InBounds, remaining, CursorType
  <2> HIDE DEF r
  <2> QED BY <1>0, <2>1, <2>2 DEF ReadUpTo, CursorType
<1> QED BY <1>2, <1>3

\* A cursor that has come to offset p if the buffer goes that far.
Reaches(c, size, p) == Inside(c, size) /\ (size >= p => c.pos = p)

\* A cursor at offset p, or one with fewer than m bytes left.
Near(c, size, p, m) == Inside(c, size) /\ (c.pos = p \/ size - c.pos < m)

LEMMA SkipReaches ==
  ASSUME NEW size \in Nat, NEW p \in Nat, NEW c, Reaches(c, size, p), NEW n \in Nat
  PROVE  Reaches(c \odot Skip(n), size, p + n)
<1> DEFINE r == c \odot Skip(n)
<1>1. c \in CursorType /\ c.size = size /\ c.pos <= size BY DEF Reaches, Inside
<1>2. Inside(r, size) BY ReadInside DEF Reaches
<1>3. ASSUME size >= p + n PROVE r.pos = p + n
  <2>1. c.pos = p BY <1>3 DEF Reaches
  <2>2. InBounds(c, n) BY <1>1, <1>3, <2>1 DEF InBounds, remaining
  <2> QED BY <1>1, <2>1, <2>2, SkipIn
<1> QED BY <1>2, <1>3 DEF Reaches

\* No skip of at most m bytes leads away from that.
LEMMA SkipNear ==
  ASSUME NEW size \in Nat, NEW p \in Nat, NEW m \in Nat, NEW c, Near(c, size, p, m),
         NEW n \in Nat, n <= m
  PROVE  Near(c \odot Skip(n), size, p + n, m)
<1> DEFINE r == c \odot Skip(n)
<1> SUFFICES Near(r, size, p + n, m) OBVIOUS
<1>1. c \in CursorType /\ c.size = size /\ c.pos <= size BY DEF Near, Inside
<1>2. Inside(r, size) BY ReadInside DEF Near
<1>3. CASE InBounds(c, n)
  <2>1. r.pos = c.pos + n BY <1>1, <1>3, SkipIn
  <2> HIDE DEF r
  <2> QED BY <1>1, <1>2, <2>1 DEF Near, CursorType
<1>4. CASE ~InBounds(c, n)
  <2>1. r = c BY <1>1, <1>4, SkipOut
  <2>2. size - c.pos < n BY <1>1, <1>4 DEF InBounds, remaining, CursorType
  <2> HIDE DEF r
  <2> QED BY <1>1, <1>2, <2>1, <2>2 DEF Near, CursorType
<1> QED BY <1>3, <1>4

\* Where m bytes can be read, they are read at p.
LEMMA NearReads ==
  ASSUME NEW size \in Nat, NEW p \in Nat, NEW m \in Nat, NEW c, Near(c, size, p, m),
         InBounds(c, m)
  PROVE  c.pos = p
BY DEF Near, Inside, CursorType, InBounds, remaining

LEMMA ReachReads ==
  ASSUME NEW size \in Nat, NEW p \in Nat, NEW n \in Nat, NEW c, Reaches(c, size, p),
         size >= p + n
  PROVE  InBounds(c, n) /\ c.pos = p
BY DEF Reaches, Inside, CursorType, InBounds, remaining

\* Both: in place if the buffer goes that far, and never m bytes from another place.
At(c, size, p, m) == Reaches(c, size, p) /\ Near(c, size, p, m)

LEMMA AtPlace ==
  ASSUME NEW size \in Nat, NEW c, Inside(c, size), NEW m \in Nat
  PROVE  At(c, size, c.pos, m)
BY DEF At, Reaches, Near

LEMMA SkipAt ==
  ASSUME NEW size \in Nat, NEW p \in Nat, NEW m \in Nat, NEW c, At(c, size, p, m),
         NEW n \in Nat, n <= m, NEW q \in Nat, q = p + n
  PROVE  At(c \odot Skip(n), size, q, m)
BY SkipReaches, SkipNear DEF At

\* The next n bytes, or none.
LEMMA SliceIs ==
  ASSUME NEW c \in CursorType, c.pos <= c.size, NEW n \in Nat
  PROVE  Slice(c, n) = [size |-> IF n <= c.size - c.pos THEN c.pos + n ELSE c.pos,
                        pos |-> c.pos, ok |-> c.ok]
<1> DEFINE v == IF InBounds(c, n) THEN c.size - (remaining(c) - n) ELSE c.pos
           w == IF n <= c.size - c.pos THEN c.pos + n ELSE c.pos
<1>1. v = w BY DEF InBounds, remaining, CursorType
<1>2. Slice(c, n) = [c EXCEPT !.size = v] BY DEF Slice
<1> HIDE DEF v, w
<1>3. Slice(c, n) = [size |-> v, pos |-> c.pos, ok |-> c.ok] BY <1>2 DEF CursorType
<1> QED BY <1>1, <1>3 DEF w
=============================================================================
