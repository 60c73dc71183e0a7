----------------------------- MODULE RingBuffer -----------------------------
(***************************************************************************)
(* class ringbuffer: the bytes that a connection has read and not yet      *)
(* handed on.  A ring is a value here; the operators return what the       *)
(* methods leave behind.                                                   *)
(*                                                                         *)
(* The ring has no byte count.  readpos = writepos means that it is empty, *)
(* so it is never filled completely.  When it is too small it is moved to  *)
(* a buffer of a larger power of two, with its content at the beginning.   *)
(***************************************************************************)
EXTENDS Naturals, Sequences

CONSTANTS
  Byte,           \* the values of a byte
  Garbage,        \* what is in memory that nobody has written to
  FirstCapacity,  \* of the first buffer, 1024
  MaxCapacity     \* bound: malloc fails for more

ASSUME RingAssumption ==
  /\ Garbage \notin Byte
  /\ FirstCapacity \in Nat \ {0}
  /\ MaxCapacity \in Nat

\* A ring without a buffer.
NoBuffer == [buffer |-> <<>>, capacity |-> 0, readpos |-> 0, writepos |-> 0]

size(b) ==
  IF b.readpos <= b.writepos THEN b.writepos - b.readpos
                             ELSE b.capacity - b.readpos + b.writepos

\* A position below 2 * capacity, % capacity.
Wrapped(p, capacity) == IF p < capacity THEN p ELSE p - capacity

\* memcpy of the n elements of data from number i on to position p.
Copied(buffer, p, data, i, n) ==
  [k \in DOMAIN buffer |->
     IF p <= k /\ k < p + n THEN data[i + (k - p)] ELSE buffer[k]]

\* The capacities that write may choose for n more bytes: the first that is
\* enough when the present one is doubled again and again.
Doubled(b) ==
  LET first == IF b.capacity = 0 THEN FirstCapacity ELSE b.capacity
  IN  {c \in 1..MaxCapacity : \E k \in 0..MaxCapacity : c = first * 2^k}

NewCapacity(b, n) ==
  LET enough == {c \in Doubled(b) : size(b) + n < c}
  IN  {c \in enough : \A d \in enough : c <= d}

\* Mutant: the part at the beginning of the buffer is forgotten.
Reserved_OnePart(b, c) ==
  IF c = b.capacity THEN b ELSE
  [buffer |-> Copied([k \in 0..(c - 1) |-> Garbage], 0, b.buffer, b.readpos,
                     IF b.readpos <= b.writepos THEN size(b) ELSE b.capacity - b.readpos),
   capacity |-> c,
   readpos |-> 0,
   writepos |-> size(b)]

\* The ring with capacity c.
Reserved(b, c) ==
  LET new == [k \in 0..(c - 1) |-> Garbage]
      high == b.capacity - b.readpos
  IN  IF c = b.capacity THEN b ELSE
      [buffer |-> IF b.readpos <= b.writepos
                  THEN Copied(new, 0, b.buffer, b.readpos, b.writepos - b.readpos)
                  ELSE Copied(Copied(new, 0, b.buffer, b.readpos, high),
                              high, b.buffer, 0, b.writepos),
       capacity |-> c,
       readpos |-> 0,
       writepos |-> size(b)]

\* write, once there is room.  data is a sequence.
Written(b, data) ==
  LET n == Len(data)
      high == b.capacity - b.writepos
  IN  IF n <= high
      THEN [b EXCEPT !.buffer = Copied(b.buffer, b.writepos, data, 1, n),
                     !.writepos = Wrapped(b.writepos + n, b.capacity)]
      ELSE [b EXCEPT !.buffer = Copied(Copied(b.buffer, b.writepos, data, 1, high),
                                       0, data, high + 1, n - high),
                     !.writepos = n - high]

Available(b, n) == IF size(b) >= n THEN n ELSE size(b)

\* Mutant: a read up to the very end does not wrap.
InOnePart_AtMost(b, n) == b.readpos <= b.writepos \/ n <= b.capacity - b.readpos

\* Does a read of n bytes end before the end of the buffer?
InOnePart(b, n) == b.readpos <= b.writepos \/ n < b.capacity - b.readpos

\* The bytes that peek and read copy out.
Peeked(b, n) ==
  LET m == Available(b, n)
      high == b.capacity - b.readpos
  IN  IF InOnePart(b, m)
      THEN [i \in 1..m |-> b.buffer[b.readpos + i - 1]]
      ELSE [i \in 1..m |-> IF i <= high THEN b.buffer[b.readpos + i - 1]
                                        ELSE b.buffer[i - 1 - high]]

\* The ring after read.
AfterRead(b, n) ==
  LET m == Available(b, n)
  IN  [b EXCEPT !.readpos = IF InOnePart(b, m) THEN @ + m
                                               ELSE Wrapped(@ + m, b.capacity)]

\* The ring after remove.
Removed(b, n) ==
  [b EXCEPT !.readpos = IF size(b) > 0 THEN Wrapped(@ + Available(b, n), b.capacity)
                                       ELSE @]

\* What a ring stands for: the bytes written and not yet read, oldest first.
Content(b) ==
  [i \in 1..size(b) |-> b.buffer[Wrapped(b.readpos + i - 1, b.capacity)]]

\* The rings that can occur.
IsRing(b) ==
  \/ b = NoBuffer
  \/ /\ b = [buffer |-> b.buffer, capacity |-> b.capacity,
             readpos |-> b.readpos, writepos |-> b.writepos]
     /\ b.capacity \in 1..MaxCapacity
     /\ b.buffer \in [0..(b.capacity - 1) -> Byte \cup {Garbage}]
     /\ b.readpos \in 0..(b.capacity - 1)
     /\ b.writepos \in 0..(b.capacity - 1)

=============================================================================
