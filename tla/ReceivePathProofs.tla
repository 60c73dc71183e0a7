------------------------- MODULE ReceivePathProofs -------------------------
(***************************************************************************)
(* Proofs about the receiving side: the ring buffer is a queue of bytes,   *)
(* data_in hands on exactly the peer's bytes, in whole messages, these are *)
(* the peer's messages, and none is left waiting in the ring buffer.       *)
(***************************************************************************)
EXTENDS ReceivePath, TLAPS

\* The ring b stands for the bytes s.
Holds(b, s) ==
  /\ IsRing(b)
  /\ s \in Seq(Byte)
  /\ size(b) = Len(s)
  /\ \A i \in 1..Len(s) : b.buffer[Wrapped(b.readpos + i - 1, b.capacity)] = s[i]

\* The bytes a ring stands for are its content.
LEMMA HoldsContent ==
  ASSUME NEW b, NEW s, Holds(b, s)
  PROVE  Content(b) = s
BY DEF Holds, Content

\* A new connection's ring is empty.
LEMMA NoBufferHolds == Holds(NoBuffer, <<>>)
BY DEF Holds, NoBuffer, IsRing, size

\* The numbers of a ring.
LEMMA RingNumbers ==
  ASSUME NEW b, IsRing(b)
  PROVE  /\ b.capacity \in Nat /\ b.readpos \in Nat /\ b.writepos \in Nat
         /\ size(b) \in Nat
         /\ b.capacity = 0 => b = NoBuffer
         /\ b.capacity > 0 => /\ b.readpos < b.capacity
                              /\ b.writepos < b.capacity
                              /\ size(b) < b.capacity
                              /\ b.capacity <= MaxCapacity
                              /\ b.buffer \in [0..(b.capacity - 1) -> Byte \cup {Garbage}]
BY RingAssumption, SMTT(20) DEF IsRing, NoBuffer, size

\* peek and read copy out the oldest bytes.
LEMMA PeekHolds ==
  ASSUME NEW b, NEW s, Holds(b, s), NEW n \in 0..Len(s)
  PROVE  Peeked(b, n) = SubSeq(s, 1, n)
<1>1. Available(b, n) = n
  BY DEF Available, Holds
<1>2. DOMAIN Peeked(b, n) = 1..n
  BY <1>1 DEF Peeked
<1>3. ASSUME NEW i \in 1..n
      PROVE  Peeked(b, n)[i] = s[i]
  <2>. DEFINE at == b.readpos + i - 1
  <2>1. s[i] = b.buffer[Wrapped(at, b.capacity)]
    BY DEF Holds
  <2>2. /\ IsRing(b) /\ i \in Nat /\ n \in Nat /\ i >= 1 /\ i <= n /\ n <= size(b)
        /\ b.capacity > 0
    BY RingNumbers DEF Holds, NoBuffer, size
  <2>3. CASE InOnePart(b, n)
    <3>1. at < b.capacity
      BY <2>2, <2>3, RingNumbers DEF InOnePart, size
    <3>. QED
      BY <1>1, <2>1, <2>3, <3>1 DEF Peeked, Wrapped
  <2>4. CASE ~InOnePart(b, n)
    <3>1. CASE i <= b.capacity - b.readpos
      <4>1. at < b.capacity
        BY <2>2, <3>1, RingNumbers
      <4>. QED
        BY <1>1, <2>1, <2>4, <3>1, <4>1 DEF Peeked, Wrapped
    <3>2. CASE ~(i <= b.capacity - b.readpos)
      <4>1. ~(at < b.capacity) /\ at - b.capacity = i - 1 - (b.capacity - b.readpos)
        BY <2>2, <3>2, RingNumbers
      <4>. QED
        BY <1>1, <2>1, <2>4, <3>2, <4>1 DEF Peeked, Wrapped
    <3>. QED
      BY <3>1, <3>2
  <2>. QED
    BY <2>3, <2>4
<1>4. Peeked(b, n) = [i \in 1..n |-> s[i]]
  BY <1>1, <1>3, Zenon DEF Peeked
<1>5. SubSeq(s, 1, n) = [i \in 1..n |-> s[i]]
  BY DEF Holds
<1>. QED
  BY <1>4, <1>5

\* Positions may be wrapped on the way.
LEMMA WrappedTwice ==
  ASSUME NEW p \in Nat, NEW c \in Nat, NEW i \in Nat \ {0}, p + i <= c + c
  PROVE  Wrapped(p + i - 1, c) = Wrapped(Wrapped(p, c) + i - 1, c)
BY DEF Wrapped

\* read leaves the rest.
LEMMA ReadHolds ==
  ASSUME NEW b, NEW s, Holds(b, s), NEW n \in 0..Len(s)
  PROVE  Holds(AfterRead(b, n), SubSeq(s, n + 1, Len(s)))
<1>. DEFINE a == AfterRead(b, n)
            t == SubSeq(s, n + 1, Len(s))
<1>1. /\ IsRing(b) /\ n \in Nat /\ n <= size(b) /\ Len(s) = size(b)
      /\ Available(b, n) = n
  BY DEF Holds, Available
<1>2. CASE b.capacity = 0
  <2>1. b = NoBuffer /\ n = 0 /\ s = <<>>
    BY <1>1, <1>2, RingNumbers DEF NoBuffer, size, Holds
  <2>2. a = NoBuffer
    BY <1>1, <2>1 DEF AfterRead, NoBuffer, InOnePart
  <2>3. t = <<>>
    BY <2>1
  <2>. QED
    BY <2>2, <2>3, NoBufferHolds, Zenon
<1>3. CASE b.capacity > 0
  <2>1. /\ a.buffer = b.buffer /\ a.capacity = b.capacity /\ a.writepos = b.writepos
        /\ a.readpos = Wrapped(b.readpos + n, b.capacity)
        /\ a = [buffer |-> a.buffer, capacity |-> a.capacity,
                readpos |-> a.readpos, writepos |-> a.writepos]
    <3>1. (IF InOnePart(b, n) THEN b.readpos + n ELSE Wrapped(b.readpos + n, b.capacity))
          = Wrapped(b.readpos + n, b.capacity)
      BY <1>1, <1>3, RingNumbers DEF InOnePart, Wrapped, size
    <3>2. a = [b EXCEPT !.readpos = Wrapped(b.readpos + n, b.capacity)]
      BY <1>1, <3>1 DEF AfterRead
    <3>3. b = [buffer |-> b.buffer, capacity |-> b.capacity,
               readpos |-> b.readpos, writepos |-> b.writepos]
      BY <1>1, <1>3 DEF IsRing, NoBuffer
    <3>. HIDE DEF a
    <3>. QED
      BY <3>2, <3>3
  <2>2. IsRing(a) /\ size(a) = size(b) - n
    <3>1. /\ b.readpos \in Nat /\ b.capacity \in Nat /\ b.writepos \in Nat
          /\ b.readpos < b.capacity /\ b.writepos < b.capacity /\ n \in Nat
          /\ n <= IF b.readpos <= b.writepos THEN b.writepos - b.readpos
                                             ELSE b.capacity - b.readpos + b.writepos
      BY <1>1, <1>3, RingNumbers DEF size
    <3>. HIDE DEF a
    <3>2. a.readpos \in 0..(b.capacity - 1)
      BY <2>1, <3>1, SMTT(20) DEF Wrapped
    <3>3. IsRing(a)
      BY <1>1, <1>3, <2>1, <3>2 DEF IsRing, NoBuffer
    <3>4. CASE b.readpos <= b.writepos
      BY <2>1, <3>1, <3>3, <3>4, SMTT(20) DEF Wrapped, size
    <3>5. CASE ~(b.readpos <= b.writepos)
      BY <2>1, <3>1, <3>3, <3>5 DEF Wrapped, size
    <3>. QED
      BY <3>4, <3>5
  <2>3. t \in Seq(Byte) /\ Len(t) = Len(s) - n
    BY <1>1 DEF Holds
  <2>4. ASSUME NEW i \in 1..Len(t)
        PROVE  a.buffer[Wrapped(a.readpos + i - 1, a.capacity)] = t[i]
    <3>1. t[i] = s[n + i] /\ n + i \in 1..Len(s)
      BY <1>1, <2>3 DEF Holds
    <3>2. s[n + i] = b.buffer[Wrapped(b.readpos + (n + i) - 1, b.capacity)]
      BY <3>1 DEF Holds
    <3>3. Wrapped(b.readpos + (n + i) - 1, b.capacity)
          = Wrapped(a.readpos + i - 1, b.capacity)
      <4>1. i \in Nat \ {0} /\ n + i <= size(b)
        BY <1>1, <2>3, <3>1, RingNumbers
      <4>2. /\ b.readpos + n \in Nat /\ b.capacity \in Nat
            /\ b.readpos + n + i <= b.capacity + b.capacity
            /\ b.readpos + (n + i) - 1 = (b.readpos + n) + i - 1
        <5>1. /\ b.readpos \in Nat /\ b.capacity \in Nat /\ size(b) \in Nat
              /\ b.readpos < b.capacity /\ size(b) < b.capacity /\ n \in Nat
          BY <1>1, <1>3, RingNumbers
        <5>. HIDE DEF a, t
        <5>2. b.readpos + n \in Nat
          BY <5>1
        <5>3. b.readpos + n + i <= b.capacity + b.capacity
          BY <4>1, <5>1
        <5>4. b.readpos + (n + i) - 1 = (b.readpos + n) + i - 1
          BY <4>1, <5>1, SMTT(20)
        <5>. QED
          BY <5>1, <5>2, <5>3, <5>4, Zenon
      <4>. QED
        BY <2>1, <4>1, <4>2, WrappedTwice
    <3>. QED
      BY <2>1, <3>1, <3>2, <3>3
  <2>. QED
    BY <1>1, <2>2, <2>3, <2>4 DEF Holds
<1>. QED
  BY <1>1, <1>2, <1>3, RingNumbers

\* remove does the same.
LEMMA RemoveHolds ==
  ASSUME NEW b, NEW s, Holds(b, s), NEW n \in 0..Len(s)
  PROVE  Holds(Removed(b, n), SubSeq(s, n + 1, Len(s)))
<1>1. /\ IsRing(b) /\ n \in Nat /\ n <= size(b) /\ Available(b, n) = n
  BY DEF Holds, Available
<1>2. Removed(b, n) = AfterRead(b, n)
  <2>1. CASE size(b) = 0
    <3>1. n = 0 /\ b.readpos <= b.writepos
      BY <1>1, <2>1, RingNumbers DEF size, NoBuffer
    <3>2. b.readpos + n = b.readpos
      BY <1>1, <3>1, RingNumbers
    <3>. QED
      BY <1>1, <2>1, <3>1, <3>2 DEF Removed, AfterRead, InOnePart
  <2>2. CASE size(b) > 0
    <3>1. (IF InOnePart(b, n) THEN b.readpos + n ELSE Wrapped(b.readpos + n, b.capacity))
          = Wrapped(b.readpos + n, b.capacity)
      BY <1>1, <2>2, RingNumbers, SMTT(20) DEF InOnePart, Wrapped, size, NoBuffer
    <3>. QED
      BY <1>1, <2>2, <3>1 DEF Removed, AfterRead
  <2>. QED
    BY <1>1, <2>1, <2>2, RingNumbers
<1>. QED
  BY <1>2, ReadHolds

\* Moving the content to a larger buffer keeps it.
LEMMA ReserveHolds ==
  ASSUME NEW b, NEW s, Holds(b, s), NEW c \in 1..MaxCapacity, Len(s) < c
  PROVE  Holds(Reserved(b, c), s) /\ Reserved(b, c).capacity = c
<1>. DEFINE a == Reserved(b, c)
            new == [k \in 0..(c - 1) |-> Garbage]
            high == b.capacity - b.readpos
            Any == Byte \cup {Garbage}
<1>1. CASE c = b.capacity
  BY <1>1 DEF Reserved
<1>2. CASE c # b.capacity
  <2>. DEFINE low == Copied(new, 0, b.buffer, b.readpos, high)
  <2>1. /\ IsRing(b) /\ s \in Seq(Byte) /\ Len(s) \in Nat /\ size(b) = Len(s)
        /\ c \in Nat /\ c > 0 /\ c <= MaxCapacity /\ Len(s) < c
    BY RingAssumption DEF Holds
  <2>2. /\ a.capacity = c /\ a.readpos = 0 /\ a.writepos = Len(s)
        /\ a = [buffer |-> a.buffer, capacity |-> a.capacity,
                readpos |-> a.readpos, writepos |-> a.writepos]
        /\ b.readpos <= b.writepos =>
             a.buffer = Copied(new, 0, b.buffer, b.readpos, b.writepos - b.readpos)
        /\ ~(b.readpos <= b.writepos) =>
             a.buffer = Copied(low, high, b.buffer, 0, b.writepos)
    BY <1>2, <2>1 DEF Reserved
  <2>3. /\ b.capacity \in Nat /\ b.readpos \in Nat /\ b.writepos \in Nat
        /\ b.readpos <= b.writepos => b.writepos - b.readpos = Len(s)
        /\ ~(b.readpos <= b.writepos) => high + b.writepos = Len(s)
        /\ Len(s) > 0 => /\ b.readpos < b.capacity /\ b.writepos < b.capacity
                         /\ b.buffer \in [0..(b.capacity - 1) -> Any]
        /\ ~(b.readpos <= b.writepos) => b.readpos < b.capacity
    BY <2>1, RingNumbers DEF size, NoBuffer
  <2>4. ASSUME NEW i \in 1..Len(s)
        PROVE  a.buffer[i - 1] = s[i]
    <3>1. s[i] = b.buffer[Wrapped(b.readpos + i - 1, b.capacity)]
      BY DEF Holds
    <3>2. i \in Nat /\ i - 1 \in 0..(c - 1) /\ Len(s) > 0
      BY <2>1
    <3>3. CASE b.readpos <= b.writepos
      <4>1. /\ 0 <= i - 1 /\ i - 1 < 0 + (b.writepos - b.readpos)
            /\ b.readpos + ((i - 1) - 0) = b.readpos + i - 1
            /\ b.readpos + i - 1 < b.capacity
        BY <2>1, <2>3, <3>2, <3>3, SMTT(20)
      <4>2. a.buffer[i - 1] = b.buffer[b.readpos + ((i - 1) - 0)]
        BY <2>2, <3>2, <3>3, <4>1, SMTT(20) DEF Copied
      <4>. QED
        BY <3>1, <4>1, <4>2 DEF Wrapped
    <3>4. CASE ~(b.readpos <= b.writepos)
      <4>1. CASE i - 1 < high
        <5>1. /\ ~(high <= i - 1) /\ 0 <= i - 1 /\ i - 1 < 0 + high
              /\ b.readpos + ((i - 1) - 0) = b.readpos + i - 1
              /\ b.readpos + i - 1 < b.capacity
          BY <2>3, <3>2, <4>1
        <5>2. a.buffer[i - 1] = low[i - 1]
          BY <2>2, <3>2, <3>4, <5>1 DEF Copied
        <5>3. low[i - 1] = b.buffer[b.readpos + ((i - 1) - 0)]
          BY <3>2, <5>1 DEF Copied
        <5>. QED
          BY <3>1, <5>1, <5>2, <5>3 DEF Wrapped
      <4>2. CASE ~(i - 1 < high)
        <5>1. /\ high <= i - 1 /\ i - 1 < high + b.writepos
              /\ 0 + ((i - 1) - high) = b.readpos + i - 1 - b.capacity
              /\ ~(b.readpos + i - 1 < b.capacity)
          BY <2>1, <2>3, <3>2, <3>4, <4>2, SMTT(20)
        <5>2. a.buffer[i - 1] = b.buffer[0 + ((i - 1) - high)]
          BY <2>2, <3>2, <3>4, <5>1, SMTT(20) DEF Copied
        <5>3. Wrapped(b.readpos + i - 1, b.capacity) = 0 + ((i - 1) - high)
          BY <2>3, <3>2, <5>1 DEF Wrapped
        <5>. QED
          BY <3>1, <5>2, <5>3
      <4>. QED
        BY <4>1, <4>2
    <3>. QED
      BY <3>3, <3>4
  <2>5. a.buffer \in [0..(c - 1) -> Any]
    <3>1. DOMAIN a.buffer = 0..(c - 1) /\ a.buffer = [k \in 0..(c - 1) |-> a.buffer[k]]
      BY <2>2 DEF Copied
    <3>2. ASSUME NEW k \in 0..(c - 1), k >= Len(s)
          PROVE  a.buffer[k] = Garbage
      <4>1. CASE b.readpos <= b.writepos
        <5>1. ~(k < 0 + (b.writepos - b.readpos))
          BY <2>3, <3>2, <4>1
        <5>. QED
          BY <2>2, <4>1, <5>1 DEF Copied
      <4>2. CASE ~(b.readpos <= b.writepos)
        <5>1. ~(k < high + b.writepos) /\ ~(k < 0 + high)
          BY <2>1, <2>3, <3>2, <4>2
        <5>. QED
          BY <2>2, <4>2, <5>1 DEF Copied
      <4>. QED
        BY <4>1, <4>2
    <3>3. ASSUME NEW k \in 0..(c - 1), k < Len(s)
          PROVE  a.buffer[k] \in Byte
      <4>1. k + 1 \in 1..Len(s) /\ (k + 1) - 1 = k
        BY <2>1, <3>3
      <4>2. s[k + 1] \in Byte
        BY <2>1, <4>1
      <4>. QED
        BY <2>4, <4>1, <4>2
    <3>4. \A k \in 0..(c - 1) : a.buffer[k] \in Any
      BY <2>1, <3>2, <3>3
    <3>. HIDE DEF a
    <3>. QED
      BY <3>1, <3>4
  <2>. HIDE DEF a
  <2>6. IsRing(a) /\ size(a) = Len(s)
    BY <2>1, <2>2, <2>5 DEF IsRing, size
  <2>7. ASSUME NEW i \in 1..Len(s)
        PROVE  a.buffer[Wrapped(a.readpos + i - 1, a.capacity)] = s[i]
    <3>1. Wrapped(a.readpos + i - 1, a.capacity) = i - 1
      BY <2>1, <2>2 DEF Wrapped
    <3>. QED
      BY <2>4, <3>1
  <2>8. Holds(a, s)
    BY <2>1, <2>6, <2>7 DEF Holds
  <2>. QED
    BY <2>2, <2>8 DEF a
<1>. QED
  BY <1>1, <1>2

\* How far the position k is behind the position p of a ring.
Behind(k, p, c) == IF p <= k THEN k - p ELSE k - p + c

\* The two copies of write put the data where the ring goes on.
LEMMA WrittenAt ==
  ASSUME NEW b, IsRing(b), NEW data \in Seq(Byte), b.capacity > 0,
         Len(data) < b.capacity, NEW k \in 0..(b.capacity - 1)
  PROVE  Written(b, data).buffer[k] =
           IF Behind(k, b.writepos, b.capacity) < Len(data)
           THEN data[Behind(k, b.writepos, b.capacity) + 1] ELSE b.buffer[k]
<1>. DEFINE n == Len(data)
            high == b.capacity - b.writepos
            d == Behind(k, b.writepos, b.capacity)
            first == Copied(b.buffer, b.writepos, data, 1, high)
<1>1. /\ b.capacity \in Nat /\ b.writepos \in Nat /\ b.writepos < b.capacity
      /\ DOMAIN b.buffer = 0..(b.capacity - 1) /\ n \in Nat /\ k \in Nat
      /\ b = [buffer |-> b.buffer, capacity |-> b.capacity,
              readpos |-> b.readpos, writepos |-> b.writepos]
  BY RingNumbers DEF IsRing, NoBuffer
<1>2. CASE n <= high
  <2>1. Written(b, data).buffer = Copied(b.buffer, b.writepos, data, 1, n)
    BY <1>1, <1>2 DEF Written
  <2>2. CASE b.writepos <= k /\ k < b.writepos + n
    <3>1. d < n /\ d + 1 = 1 + (k - b.writepos)
      BY <1>1, <2>2 DEF Behind
    <3>. QED
      BY <1>1, <2>1, <2>2, <3>1 DEF Copied
  <2>3. CASE ~(b.writepos <= k /\ k < b.writepos + n)
    <3>1. ~(d < n)
      BY <1>1, <1>2, <2>3 DEF Behind
    <3>. QED
      BY <1>1, <2>1, <2>3, <3>1 DEF Copied
  <2>. QED
    BY <2>2, <2>3
<1>3. CASE ~(n <= high)
  <2>1. Written(b, data).buffer = Copied(first, 0, data, high + 1, n - high)
    BY <1>1, <1>3 DEF Written
  <2>2. DOMAIN first = 0..(b.capacity - 1)
    BY <1>1 DEF Copied
  <2>3. CASE k < n - high
    <3>1. d < n /\ d + 1 = high + 1 + (k - 0) /\ 0 <= k /\ k < 0 + (n - high)
      BY <1>1, <1>3, <2>3 DEF Behind
    <3>. QED
      BY <2>1, <2>2, <3>1, Zenon DEF Copied
  <2>4. CASE ~(k < n - high) /\ b.writepos <= k
    <3>1. /\ d < n /\ d + 1 = 1 + (k - b.writepos) /\ k < b.writepos + high
          /\ ~(k < 0 + (n - high))
      BY <1>1, <1>3, <2>4 DEF Behind
    <3>2. first[k] = data[1 + (k - b.writepos)]
      BY <1>1, <2>4, <3>1 DEF Copied
    <3>3. Written(b, data).buffer[k] = first[k]
      BY <2>1, <2>2, <3>1, Zenon DEF Copied
    <3>. QED
      BY <3>1, <3>2, <3>3
  <2>5. CASE ~(k < n - high) /\ ~(b.writepos <= k)
    <3>1. ~(d < n) /\ ~(k < 0 + (n - high))
      BY <1>1, <1>3, <2>5 DEF Behind
    <3>2. first[k] = b.buffer[k]
      BY <1>1, <2>5 DEF Copied
    <3>3. Written(b, data).buffer[k] = first[k]
      BY <2>1, <2>2, <3>1, Zenon DEF Copied
    <3>. QED
      BY <3>1, <3>2, <3>3
  <2>. QED
    BY <2>3, <2>4, <2>5
<1>. QED
  BY <1>2, <1>3

\* A ring of capacity c, with m bytes from r up to w, has room for n more.
HasRoom(c, r, w, m, n) ==
  /\ c \in Nat /\ r \in Nat /\ w \in Nat /\ m \in Nat /\ n \in Nat
  /\ r < c /\ w < c /\ m + n < c
  /\ r <= w => m = w - r
  /\ ~(r <= w) => m = c - r + w

\* The size after a write.
LEMMA SizeAfter ==
  ASSUME NEW c, NEW r, NEW w, NEW m, NEW n, HasRoom(c, r, w, m, n),
         NEW v, v = Wrapped(w + n, c)
  PROVE  /\ v \in Nat /\ v < c
         /\ r <= v => v - r = m + n
         /\ ~(r <= v) => c - r + v = m + n
BY DEF Wrapped, HasRoom

\* The old bytes are where nothing is written.
LEMMA OldPosition ==
  ASSUME NEW c, NEW r, NEW w, NEW m, NEW n, HasRoom(c, r, w, m, n),
         NEW i \in Nat, i >= 1, i <= m
  PROVE  ~(Behind(Wrapped(r + i - 1, c), w, c) < n)
<1>1. CASE r <= w
  BY <1>1 DEF Wrapped, Behind, HasRoom
<1>2. CASE ~(r <= w)
  BY <1>2 DEF Wrapped, Behind, HasRoom
<1>. QED
  BY <1>1, <1>2

\* The new bytes are where they are written.
LEMMA NewPosition ==
  ASSUME NEW c, NEW r, NEW w, NEW m, NEW n, HasRoom(c, r, w, m, n),
         NEW i \in Nat, i > m, i <= m + n
  PROVE  Behind(Wrapped(r + i - 1, c), w, c) = i - m - 1
<1>1. CASE r <= w
  BY <1>1 DEF Wrapped, Behind, HasRoom
<1>2. CASE ~(r <= w)
  BY <1>2 DEF Wrapped, Behind, HasRoom
<1>. QED
  BY <1>1, <1>2

\* write appends.
LEMMA WriteHolds ==
  ASSUME NEW b, NEW s, Holds(b, s), NEW data \in Seq(Byte),
         Len(s) + Len(data) < b.capacity
  PROVE  Holds(Written(b, data), s \o data)
<1>. DEFINE a == Written(b, data)
            n == Len(data)
            c == b.capacity
            Any == Byte \cup {Garbage}
<1>1. /\ IsRing(b) /\ s \in Seq(Byte) /\ Len(s) \in Nat /\ size(b) = Len(s) /\ n \in Nat
  BY DEF Holds
<1>2. /\ c \in Nat /\ c > 0 /\ c <= MaxCapacity /\ n < c
      /\ b.readpos \in Nat /\ b.readpos < c /\ b.writepos \in Nat /\ b.writepos < c
      /\ b.buffer \in [0..(c - 1) -> Any]
      /\ b = [buffer |-> b.buffer, capacity |-> b.capacity,
              readpos |-> b.readpos, writepos |-> b.writepos]
  BY <1>1, RingNumbers DEF IsRing, NoBuffer
<1>3. /\ a.capacity = c /\ a.readpos = b.readpos
      /\ a.writepos = Wrapped(b.writepos + n, c)
      /\ a = [buffer |-> a.buffer, capacity |-> a.capacity,
              readpos |-> a.readpos, writepos |-> a.writepos]
      /\ a.buffer = [k \in 0..(c - 1) |-> a.buffer[k]]
  <2>1. CASE n <= c - b.writepos
    BY <1>1, <1>2, <2>1, Zenon DEF Written, Copied
  <2>2. CASE ~(n <= c - b.writepos)
    <3>1. n - (c - b.writepos) = Wrapped(b.writepos + n, c)
      BY <1>1, <1>2, <2>2 DEF Wrapped
    <3>. QED
      BY <1>1, <1>2, <2>2, <3>1, Zenon DEF Written, Copied
  <2>. QED
    BY <2>1, <2>2
<1>4. ASSUME NEW k \in 0..(c - 1)
      PROVE  a.buffer[k] = IF Behind(k, b.writepos, c) < n
                           THEN data[Behind(k, b.writepos, c) + 1] ELSE b.buffer[k]
  BY <1>1, <1>2, WrittenAt, Zenon
<1>. HIDE DEF a
<1>5. ASSUME NEW k \in 0..(c - 1)
      PROVE  a.buffer[k] \in Any
  <2>1. CASE Behind(k, b.writepos, c) < n
    <3>1. Behind(k, b.writepos, c) + 1 \in 1..n
      <4>1. Behind(k, b.writepos, c) \in Nat
        BY <1>2 DEF Behind
      <4>. QED
        BY <1>1, <2>1, <4>1
    <3>. QED
      BY <1>4, <2>1, <3>1
  <2>2. CASE ~(Behind(k, b.writepos, c) < n)
    BY <1>2, <1>4, <2>2, SMTT(20)
  <2>. QED
    BY <2>1, <2>2
<1>6. a.buffer \in [0..(c - 1) -> Any]
  BY <1>3, <1>5, Zenon
<1>7. IsRing(a)
  <2>1. a.writepos \in 0..(c - 1)
    BY <1>1, <1>2, <1>3 DEF Wrapped
  <2>. QED
    BY <1>2, <1>3, <1>6, <2>1 DEF IsRing
<1>8. HasRoom(c, b.readpos, b.writepos, Len(s), n)
  BY <1>1, <1>2 DEF size, HasRoom
<1>9. size(a) = Len(s) + n
  BY <1>2, <1>3, <1>8, SizeAfter DEF size
<1>10. s \o data \in Seq(Byte) /\ Len(s \o data) = Len(s) + n
  BY <1>1
<1>11. ASSUME NEW i \in 1..(Len(s) + n)
       PROVE  a.buffer[Wrapped(a.readpos + i - 1, a.capacity)] = (s \o data)[i]
  <2>. DEFINE q == Wrapped(b.readpos + i - 1, c)
  <2>1. q \in 0..(c - 1)
    BY <1>1, <1>2 DEF Wrapped
  <2>2. CASE i <= Len(s)
    <3>1. ~(Behind(q, b.writepos, c) < n)
      <4>1. i \in Nat /\ i >= 1
        BY <1>1
      <4>. QED
        BY <1>8, <2>2, <4>1, OldPosition
    <3>2. (s \o data)[i] = s[i] /\ i \in 1..Len(s)
      BY <1>1, <2>2
    <3>3. s[i] = b.buffer[q]
      BY <3>2 DEF Holds
    <3>. HIDE DEF q
    <3>4. a.buffer[q] = b.buffer[q]
      BY <1>4, <2>1, <3>1
    <3>. QED
      BY <1>3, <3>2, <3>3, <3>4 DEF q
  <2>3. CASE ~(i <= Len(s))
    <3>1. Behind(q, b.writepos, c) = i - Len(s) - 1
      <4>1. i \in Nat /\ i > Len(s) /\ i <= Len(s) + n
        BY <1>1, <2>3
      <4>. QED
        BY <1>8, <4>1, NewPosition
    <3>2. (s \o data)[i] = data[i - Len(s)]
      BY <1>1, <2>3
    <3>. HIDE DEF q
    <3>3. i - Len(s) - 1 < n /\ (i - Len(s) - 1) + 1 = i - Len(s)
      BY <1>1
    <3>4. a.buffer[q] = data[i - Len(s)]
      BY <1>4, <2>1, <3>1, <3>3
    <3>. QED
      BY <1>3, <3>2, <3>4 DEF q
  <2>. QED
    BY <2>2, <2>3
<1>12. Holds(a, s \o data)
  BY <1>7, <1>9, <1>10, <1>11 DEF Holds
<1>. QED
  BY <1>12 DEF a

-----------------------------------------------------------------------------
(* Headers and pieces of sequences.                                        *)

\* A ring of bytes stands for its content.
LEMMA ContentHolds ==
  ASSUME NEW b, IsRing(b), Content(b) \in Seq(Byte)
  PROVE  Holds(b, Content(b)) /\ Len(Content(b)) = size(b)
<1>1. size(b) \in Nat
  BY RingNumbers
<1>2. Len(Content(b)) = size(b)
  BY <1>1 DEF Content
<1>3. \A i \in 1..size(b) :
        Content(b)[i] = b.buffer[Wrapped(b.readpos + i - 1, b.capacity)]
  BY DEF Content
<1>. QED
  BY <1>2, <1>3 DEF Holds

\* A message has at least its header.
LEMMA TotalSizeType ==
  ASSUME NEW s \in Seq(Byte), Len(s) >= 5
  PROVE  TotalSize(s) \in Nat /\ TotalSize(s) >= 5
<1>1. ASSUME NEW x \in Nat, NEW y \in Byte PROVE x * Base + y \in Nat
  BY <1>1, ReceiveAssumption
<1>2. s[2] \in Byte /\ s[3] \in Byte /\ s[4] \in Byte /\ s[5] \in Byte
  OBVIOUS
<1>3. s[2] \in Nat
  BY <1>2, ReceiveAssumption
<1>4. s[2] * Base + s[3] \in Nat
  BY <1>1, <1>2, <1>3, Zenon
<1>5. (s[2] * Base + s[3]) * Base + s[4] \in Nat
  BY <1>1, <1>2, <1>4, Zenon
<1>6. ((s[2] * Base + s[3]) * Base + s[4]) * Base + s[5] \in Nat
  BY <1>1, <1>2, <1>5, Zenon
<1>7. stream_read_uint32_t(s, 2) \in Nat
  BY <1>6 DEF stream_read_uint32_t
<1>. QED
  BY <1>7 DEF TotalSize

\* The size is in the first five bytes.
LEMMA TotalSizeSame ==
  ASSUME NEW s, NEW t, \A i \in 1..5 : s[i] = t[i]
  PROVE  TotalSize(s) = TotalSize(t)
<1>1. s[2] = t[2] /\ s[3] = t[3] /\ s[4] = t[4] /\ s[5] = t[5]
  OBVIOUS
<1>. QED
  BY <1>1 DEF TotalSize, stream_read_uint32_t

\* Sequences with the same elements are equal.
LEMMA SameSequence ==
  ASSUME NEW S, NEW s \in Seq(S), NEW t \in Seq(S), Len(s) = Len(t),
         \A i \in 1..Len(s) : s[i] = t[i]
  PROVE  s = t
OBVIOUS

\* A sequence is what is in front and what is behind.
LEMMA Split ==
  ASSUME NEW S, NEW s \in Seq(S), NEW n \in 0..Len(s)
  PROVE  /\ SubSeq(s, 1, n) \in Seq(S) /\ Len(SubSeq(s, 1, n)) = n
         /\ \A i \in 1..n : SubSeq(s, 1, n)[i] = s[i]
         /\ SubSeq(s, n + 1, Len(s)) \in Seq(S)
         /\ Len(SubSeq(s, n + 1, Len(s))) = Len(s) - n
         /\ SubSeq(s, 1, n) \o SubSeq(s, n + 1, Len(s)) = s
<1>. DEFINE f == SubSeq(s, 1, n)
            g == SubSeq(s, n + 1, Len(s))
<1>1. n \in Nat /\ n <= Len(s) /\ Len(s) \in Nat
  OBVIOUS
<1>2. f \in Seq(S) /\ Len(f) = n /\ \A i \in 1..n : f[i] = s[i]
  BY <1>1
<1>3. /\ g \in Seq(S) /\ Len(g) = Len(s) - n
      /\ \A i \in 1..(Len(s) - n) : g[i] = s[n + i]
  BY <1>1
<1>. HIDE DEF f, g
<1>4. f \o g \in Seq(S) /\ Len(f \o g) = Len(s)
  BY <1>1, <1>2, <1>3
<1>5. ASSUME NEW i \in 1..Len(s)
      PROVE  (f \o g)[i] = s[i]
  <2>1. CASE i <= n
    <3>1. (f \o g)[i] = f[i] /\ i \in 1..n
      BY <1>1, <1>2, <1>3, <2>1
    <3>. QED
      BY <1>2, <3>1, Zenon
  <2>2. CASE ~(i <= n)
    <3>1. (f \o g)[i] = g[i - n] /\ i - n \in 1..(Len(s) - n) /\ n + (i - n) = i
      BY <1>1, <1>2, <1>3, <2>2
    <3>. QED
      BY <1>3, <3>1
  <2>. QED
    BY <2>1, <2>2, Zenon
<1>6. f \o g = s
  BY <1>4, <1>5, SameSequence, Zenon
<1>. QED
  BY <1>2, <1>3, <1>6, Zenon DEF f, g

\* Taking some and then some more.
LEMMA SplitTwice ==
  ASSUME NEW S, NEW s \in Seq(S), NEW w \in Nat, w >= 5, w <= Len(s)
  PROVE  LET t == SubSeq(s, 6, Len(s))
         IN  /\ SubSeq(s, 1, 5) \o SubSeq(t, 1, w - 5) = SubSeq(s, 1, w)
             /\ SubSeq(t, (w - 5) + 1, Len(t)) = SubSeq(s, w + 1, Len(s))
OBVIOUS

\* The elements of a sequence with one more.
LEMMA OneMore ==
  \A d \in Seq(Seq(Byte)), m \in Seq(Byte) : \A i \in DOMAIN Append(d, m) :
    \/ i \in DOMAIN d /\ Append(d, m)[i] = d[i]
    \/ Append(d, m)[i] = m
<1>. SUFFICES ASSUME NEW S, NEW d \in Seq(S), NEW m \in S, NEW i \in DOMAIN Append(d, m)
              PROVE  \/ i \in DOMAIN d /\ Append(d, m)[i] = d[i]
                     \/ Append(d, m)[i] = m
  BY Zenon
<1>1. CASE i <= Len(d)
  BY <1>1
<1>2. CASE ~(i <= Len(d))
  BY <1>2
<1>. QED
  BY <1>1, <1>2

\* The length of a concatenation.
LEMMA ConcatLength ==
  \A s, t \in Seq(Byte) : s \o t \in Seq(Byte) /\ Len(s \o t) = Len(s) + Len(t)
OBVIOUS

\* The elements of a concatenation.
LEMMA Joined ==
  \A s, t \in Seq(Byte) :
    /\ \A i \in 1..Len(s) : (s \o t)[i] = s[i]
    /\ \A i \in 1..Len(t) : (s \o t)[Len(s) + i] = t[i]
OBVIOUS

\* Concatenation is associative.
LEMMA Assoc == \A r, s, t \in Seq(Byte) : (r \o s) \o t = r \o (s \o t)
<1>. SUFFICES ASSUME NEW r \in Seq(Byte), NEW s \in Seq(Byte), NEW t \in Seq(Byte)
              PROVE  (r \o s) \o t = r \o (s \o t)
  OBVIOUS
<1>. DEFINE f == (r \o s) \o t
            g == r \o (s \o t)
            n == Len(r) + Len(s) + Len(t)
<1>1. f \in Seq(Byte) /\ g \in Seq(Byte) /\ Len(f) = n /\ Len(g) = n
  OBVIOUS
<1>2. ASSUME NEW i \in 1..n
      PROVE  f[i] = g[i]
  <2>1. CASE i <= Len(r)
    BY <2>1
  <2>2. CASE i > Len(r) /\ i <= Len(r) + Len(s)
    BY <2>2
  <2>3. CASE i > Len(r) + Len(s)
    BY <2>3
  <2>. QED
    BY <2>1, <2>2, <2>3
<1>. HIDE DEF f, g
<1>3. f = g
  BY <1>1, <1>2, SameSequence
<1>. QED
  BY <1>3 DEF f, g

-----------------------------------------------------------------------------
(* What the peer writes: the length in a header is the length of the body. *)

\* Of two ways to divide a number, the first has no smaller quotient.
LEMMA Order ==
  ASSUME NEW b \in Nat \ {0}, NEW p \in Nat, NEW q \in Nat, NEW r \in Nat, NEW s \in Nat,
         r < b, b * p + r = b * q + s
  PROVE  q <= p
<1>. SUFFICES ASSUME q > p PROVE FALSE
  OBVIOUS
<1>1. PICK k \in Nat : q = p + 1 + k
  <2>1. q - p - 1 \in Nat
    OBVIOUS
  <2>. QED
    BY <2>1
<1>2. b * q = b * p + b + b * k
  BY <1>1
<1>3. b * k \in Nat /\ b * p \in Nat
  OBVIOUS
<1>. QED
  BY <1>2, <1>3

\* A number is what its quotient and its remainder say.
LEMMA Division ==
  ASSUME NEW b \in Nat \ {0}, NEW a \in Nat
  PROVE  /\ a \div b \in Nat /\ a % b \in Nat /\ a % b < b
         /\ a = b * (a \div b) + (a % b)
OBVIOUS

\* There is one quotient.
LEMMA Quotient ==
  ASSUME NEW b \in Nat \ {0}, NEW a \in Nat, NEW q \in Nat, NEW r \in Nat, r < b, a = b * q + r
  PROVE  a \div b = q
<1>1. a \div b \in Nat /\ a % b \in Nat /\ a % b < b /\ a = b * (a \div b) + (a % b)
  BY Division
<1>2. \A p \in Nat, s \in Nat : s < b /\ a = b * p + s => q <= p
  BY Order
<1>3. \A p \in Nat, s \in Nat : s < b /\ a = b * p + s => p <= q
  BY Order
<1>4. q <= a \div b
  BY <1>1, <1>2
<1>5. a \div b <= q
  BY <1>1, <1>3
<1>. QED
  BY <1>1, <1>4, <1>5

\* Dividing twice.
LEMMA DivideTwice ==
  ASSUME NEW b \in Nat \ {0}, NEW c \in Nat \ {0}, NEW a \in Nat
  PROVE  a \div (c * b) = (a \div c) \div b
<1>. DEFINE p == a \div c
            q == p \div b
            r == a % c
            s == p % b
<1>1. p \in Nat /\ r \in Nat /\ r < c /\ a = c * p + r
  BY Division
<1>2. q \in Nat /\ s \in Nat /\ s < b /\ p = b * q + s
  BY <1>1, Division
<1>. HIDE DEF p, q, r, s
<1>3. PICK k \in Nat : b = s + 1 + k
  <2>1. b - s - 1 \in Nat
    BY <1>2
  <2>. QED
    BY <1>2, <2>1
<1>4. a = (c * b) * q + (c * s + r)
  BY <1>1, <1>2
<1>5. c * b = c * s + c + c * k /\ c * s \in Nat /\ c * k \in Nat
  BY <1>2, <1>3
<1>6. c * s + r \in Nat /\ c * s + r < c * b /\ c * b \in Nat \ {0}
  BY <1>1, <1>5
<1>7. a \div (c * b) = q
  BY <1>2, <1>4, <1>6, Quotient
<1>. QED
  BY <1>7 DEF p, q

\* A number below b * c has a quotient below c.
LEMMA SmallQuotient ==
  ASSUME NEW b \in Nat \ {0}, NEW c \in Nat \ {0}, NEW a \in Nat, a < b * c
  PROVE  a \div b < c
<1>. DEFINE q == a \div b
<1>1. q \in Nat /\ b * q <= a
  BY Division
<1>. HIDE DEF q
<1>2. SUFFICES ASSUME q >= c PROVE FALSE
  BY <1>1 DEF q
<1>3. PICK k \in Nat : q = c + k
  <2>1. q - c \in Nat
    BY <1>1, <1>2
  <2>. QED
    BY <2>1, <1>1
<1>4. b * q = b * c + b * k /\ b * k \in Nat /\ b * c \in Nat
  BY <1>3
<1>. QED
  BY <1>1, <1>4

\* stream_read_uint32_t reads what stream_write_uint32_t wrote.
LEMMA ReadsWritten ==
  ASSUME NEW d \in Nat, d < Base * Base * Base * Base
  PROVE  LET w == stream_write_uint32_t(d)
         IN  /\ w[1] \in Byte /\ w[2] \in Byte /\ w[3] \in Byte /\ w[4] \in Byte
             /\ ((w[1] * Base + w[2]) * Base + w[3]) * Base + w[4] = d
<1>. DEFINE p == d \div Base
            q == d \div (Base * Base)
            r == d \div (Base * Base * Base)
<1>1. Base \in Nat \ {0} /\ Base * Base \in Nat \ {0} /\ Base * Base * Base \in Nat \ {0}
  BY ReceiveAssumption
<1>2. p \in Nat /\ d % Base \in Nat /\ d % Base < Base /\ d = Base * p + (d % Base)
  BY <1>1, Division
<1>3. q = p \div Base /\ r = q \div Base
  BY <1>1, DivideTwice, Zenon
<1>4. q \in Nat /\ p % Base \in Nat /\ p % Base < Base /\ p = Base * q + (p % Base)
  BY <1>1, <1>2, <1>3, Division, Zenon
<1>5. r \in Nat /\ q % Base \in Nat /\ q % Base < Base /\ q = Base * r + (q % Base)
  BY <1>1, <1>3, <1>4, Division, Zenon
<1>6. r < Base
  BY <1>1, SmallQuotient
<1>. HIDE DEF p, q, r
<1>7. r % Base = r
  BY <1>1, <1>5, <1>6
<1>8. stream_write_uint32_t(d) = <<r, q % Base, p % Base, d % Base>>
  BY <1>7 DEF stream_write_uint32_t, p, q, r
<1>9. r \in Byte /\ q % Base \in Byte /\ p % Base \in Byte /\ d % Base \in Byte
  BY <1>1, <1>2, <1>4, <1>5, <1>6, ReceiveAssumption
<1>10. ((r * Base + (q % Base)) * Base + (p % Base)) * Base + (d % Base) = d
  <2>1. r * Base + (q % Base) = q
    BY <1>1, <1>5
  <2>2. q * Base + (p % Base) = p
    BY <1>1, <1>4
  <2>3. p * Base + (d % Base) = d
    BY <1>1, <1>2
  <2>. QED
    BY <2>1, <2>2, <2>3
<1>. QED
  BY <1>8, <1>9, <1>10

\* write_message_header and the body make a message whose header says its size.
LEMMA MessageFramed ==
  ASSUME NEW m \in Messages
  PROVE  m \in Seq(Byte) /\ Len(m) >= 5 /\ Len(m) = TotalSize(m)
<1>1. PICK id \in Ids, body \in Bodies : m = Message(id, body)
  BY DEF Messages
<1>2. /\ id \in Byte /\ body \in Seq(Byte)
      /\ Len(body) \in Nat /\ Len(body) < Base * Base * Base * Base
  <2>1. /\ id \in Byte /\ body \in Seq(Byte) /\ Len(body) \in Nat /\ Base \in Nat
        /\ 5 + Len(body) < Base * Base * Base * Base
    BY ReceiveAssumption
  <2>2. Base * Base * Base * Base \in Nat
    BY <2>1
  <2>. QED BY <2>1, <2>2
<1>. DEFINE w == stream_write_uint32_t(Len(body))
            h == <<id>> \o w
<1>3. /\ w[1] \in Byte /\ w[2] \in Byte /\ w[3] \in Byte /\ w[4] \in Byte
      /\ ((w[1] * Base + w[2]) * Base + w[3]) * Base + w[4] = Len(body)
  BY <1>2, ReadsWritten
<1>4. w = <<w[1], w[2], w[3], w[4]>>
  BY DEF stream_write_uint32_t
<1>5. w \in Seq(Byte) /\ Len(w) = 4
  <2>1. \A a, b, c, e \in Byte : <<a, b, c, e>> \in Seq(Byte) /\ Len(<<a, b, c, e>>) = 4
    OBVIOUS
  <2>. HIDE DEF w
  <2>. QED
    BY <1>3, <1>4, <2>1, ZenonT(30)
<1>. HIDE DEF w
<1>6. /\ h \in Seq(Byte) /\ Len(h) = 5
      /\ h[2] = w[1] /\ h[3] = w[2] /\ h[4] = w[3] /\ h[5] = w[4]
  <2>1. <<id>> \in Seq(Byte) /\ Len(<<id>>) = 1
    BY <1>2
  <2>2. /\ h \in Seq(Byte) /\ Len(h) = Len(<<id>>) + Len(w)
        /\ \A i \in 1..Len(w) : h[Len(<<id>>) + i] = w[i]
    BY <1>5, <2>1, ConcatLength, Joined, Zenon
  <2>. HIDE DEF h
  <2>3. h \in Seq(Byte) /\ Len(h) = 1 + 4 /\ \A i \in 1..4 : h[1 + i] = w[i]
    BY <1>5, <2>1, <2>2, Zenon
  <2>. QED
    BY <2>3
<1>7. m = h \o body
  BY <1>1 DEF Message, w
<1>. HIDE DEF h
<1>8. /\ m \in Seq(Byte) /\ Len(m) = 5 + Len(body)
      /\ m[2] = h[2] /\ m[3] = h[3] /\ m[4] = h[4] /\ m[5] = h[5]
  <2>1. /\ m \in Seq(Byte) /\ Len(m) = Len(h) + Len(body)
        /\ \A i \in 1..Len(h) : m[i] = h[i]
    BY <1>2, <1>6, <1>7, ConcatLength, Joined, Zenon
  <2>. QED
    BY <1>6, <2>1
<1>9. stream_read_uint32_t(m, 2) = Len(body)
  BY <1>3, <1>6, <1>8 DEF stream_read_uint32_t
<1>. QED
  BY <1>2, <1>8, <1>9 DEF TotalSize

-----------------------------------------------------------------------------
(* data_in.                                                                *)

\* What taking the first w bytes of the ring buffer as a message preserves.
LEMMA TakesMessage ==
  ASSUME ReceiveInv, NEW w \in Nat,
         w = TotalSize(Content(receive_buffer)), size(receive_buffer) >= 5,
         size(receive_buffer) >= w,
         LET s == Content(receive_buffer)
         IN  /\ Deliver(SubSeq(s, 1, w))
             /\ Holds(receive_buffer', SubSeq(s, w + 1, Len(s))),
         wanted_ib_size' = 0, UNCHANGED <<sent, wire, stream, pc>>, failures' \in Nat
  PROVE  ReceiveInv'
<1>. DEFINE s == Content(receive_buffer)
            m == SubSeq(s, 1, w)
            t == SubSeq(s, w + 1, Len(s))
<1>1. /\ s \in Seq(Byte) /\ Len(s) = size(receive_buffer) /\ Len(s) \in Nat
      /\ w >= 5 /\ w \in 0..Len(s)
  BY ContentHolds, TotalSizeType DEF ReceiveInv, ReceiveTypeOK
<1>2. /\ m \in Seq(Byte) /\ Len(m) = w /\ t \in Seq(Byte) /\ m \o t = s
      /\ \A i \in 1..w : m[i] = s[i]
  BY <1>1, Split, Zenon
<1>3. TotalSize(m) = w
  <2>1. \A i \in 1..5 : m[i] = s[i]
    <3>1. 1..5 \subseteq 1..w
      BY <1>1
    <3>. QED
      BY <1>2, <3>1, Zenon
  <2>. QED
    BY <2>1, TotalSizeSame, Zenon
<1>4. /\ delivered' = Append(delivered, m) /\ received' = received \o m
      /\ Holds(receive_buffer', t)
  BY DEF Deliver
<1>5. Content(receive_buffer') = t /\ IsRing(receive_buffer')
  BY <1>4, HoldsContent, Zenon DEF Holds
<1>6. /\ wire \in Seq(Byte) /\ received \in Seq(Byte) /\ delivered \in Seq(Seq(Byte))
      /\ received \o s \o wire = stream
  BY DEF ReceiveInv, ReceiveTypeOK, BytesKept
<1>. HIDE DEF s, m, t
<1>7. ReceiveTypeOK'
  BY <1>2, <1>4, <1>5, <1>6 DEF ReceiveInv, ReceiveTypeOK
<1>8. BytesKept'
  <2>1. (received \o m) \o t = received \o s
    <3>1. (received \o m) \o t = received \o (m \o t)
      BY <1>2, <1>6, Assoc, ZenonT(30)
    <3>. QED
      BY <1>2, <3>1
  <2>. QED
    BY <1>4, <1>5, <1>6, <2>1, Zenon DEF BytesKept
<1>9. Framed'
  <2>1. ASSUME NEW i \in DOMAIN delivered'
        PROVE  Len(delivered'[i]) >= 5 /\ Len(delivered'[i]) = TotalSize(delivered'[i])
    <3>1. \/ i \in DOMAIN delivered /\ delivered'[i] = delivered[i]
          \/ delivered'[i] = m
      <4>1. i \in DOMAIN Append(delivered, m)
        BY <1>4
      <4>2. \/ i \in DOMAIN delivered /\ Append(delivered, m)[i] = delivered[i]
            \/ Append(delivered, m)[i] = m
        BY <1>2, <1>6, <4>1, OneMore, Zenon
      <4>. QED
        BY <1>4, <4>2, Zenon
    <3>2. CASE i \in DOMAIN delivered /\ delivered'[i] = delivered[i]
      BY <3>2 DEF ReceiveInv, Framed
    <3>3. CASE delivered'[i] = m
      BY <1>1, <1>2, <1>3, <3>3, SMTT(20)
    <3>. QED
      BY <3>1, <3>2, <3>3
  <2>. QED
    BY <2>1 DEF Framed
<1>. QED
  BY <1>2, <1>5, <1>7, <1>8, <1>9 DEF ReceiveInv

\* The bytes that read returns are appended.
LEMMA AppendKeeps ==
  ASSUME ReceiveInv, NEW n \in 1..Chunk, Append_Data(n)
  PROVE  ReceiveInv'
<1>. DEFINE s == Content(receive_buffer)
            d == SubSeq(wire, 1, n)
            u == SubSeq(wire, n + 1, Len(wire))
<1>1. /\ s \in Seq(Byte) /\ Len(s) = size(receive_buffer) /\ Len(s) \in Nat
      /\ Holds(receive_buffer, s) /\ n \in Nat
      /\ wire \in Seq(Byte) /\ received \in Seq(Byte) /\ n \in 0..Len(wire)
  BY ContentHolds, ReceiveAssumption DEF ReceiveInv, ReceiveTypeOK, Append_Data
<1>2. d \in Seq(Byte) /\ Len(d) = n /\ u \in Seq(Byte)
  BY <1>1, Split
<1>3. PICK c \in NewCapacity(receive_buffer, n) :
        receive_buffer' = Written(Reserved(receive_buffer, c), d)
  BY DEF Append_Data
<1>4. c \in 1..MaxCapacity /\ Len(s) + n < c
  BY <1>1, <1>3 DEF NewCapacity, Doubled
<1>5. /\ wire' = u /\ pc' = "parse"
      /\ UNCHANGED <<sent, wanted_ib_size, delivered, received, stream, failures>>
  BY DEF Append_Data
<1>6. d \o u = wire
  BY <1>1, Split
<1>7. (received \o s) \o wire = stream
  BY DEF ReceiveInv, BytesKept
<1>. HIDE DEF s, d, u
<1>8. Holds(Reserved(receive_buffer, c), s) /\ Reserved(receive_buffer, c).capacity = c
  <2>1. Len(s) < c
    BY <1>1, <1>4, RingAssumption
  <2>. QED
    BY <1>1, <1>4, <2>1, ReserveHolds
<1>9. Holds(receive_buffer', s \o d)
  BY <1>2, <1>3, <1>4, <1>8, WriteHolds
<1>10. Content(receive_buffer') = s \o d /\ IsRing(receive_buffer')
      /\ size(receive_buffer') = Len(s) + n /\ s \o d \in Seq(Byte)
  <2>1. s \o d \in Seq(Byte) /\ Len(s \o d) = Len(s) + n
    BY <1>1, <1>2, ConcatLength, Zenon
  <2>2. Content(receive_buffer') = s \o d
    BY <1>9, HoldsContent, Zenon
  <2>. QED
    BY <1>9, <2>1, <2>2 DEF Holds
<1>11. ReceiveTypeOK'
  BY <1>2, <1>5, <1>10 DEF ReceiveInv, ReceiveTypeOK
<1>12. BytesKept'
  <2>1. (received \o (s \o d)) \o u = received \o ((s \o d) \o u)
    BY <1>1, <1>2, <1>10, Assoc, ZenonT(30)
  <2>2. (s \o d) \o u = s \o (d \o u)
    <3>1. s \in Seq(Byte) /\ d \in Seq(Byte) /\ u \in Seq(Byte)
      BY <1>1, <1>2, Zenon
    <3>. QED
      BY <3>1, Assoc, ZenonT(30)
  <2>3. (received \o s) \o wire = received \o (s \o wire)
    BY <1>1, Assoc, Zenon
  <2>. QED
    BY <1>5, <1>10, <1>6, <1>7, <2>1, <2>2, <2>3 DEF BytesKept
<1>13. ASSUME wanted_ib_size > 0
       PROVE  size(receive_buffer') >= 5 /\ wanted_ib_size = TotalSize(s \o d)
  <2>1. Len(s) >= 5 /\ wanted_ib_size = TotalSize(s)
    BY <1>1, <1>13 DEF ReceiveInv, s
  <2>2. \A i \in 1..5 : s[i] = (s \o d)[i]
    BY <1>1, <1>2, <2>1
  <2>3. TotalSize(s) = TotalSize(s \o d)
    BY <2>2, TotalSizeSame, Zenon
  <2>. QED
    BY <1>1, <1>10, <2>1, <2>3
<1>14. Framed'
  BY <1>5 DEF ReceiveInv, Framed
<1>. QED
  BY <1>5, <1>10, <1>11, <1>12, <1>13, <1>14 DEF ReceiveInv

\* What the peer sends comes after everything else.
LEMMA PeerSendsKeeps ==
  ASSUME ReceiveInv, NEW m \in Messages, PeerSends(m)
  PROVE  ReceiveInv'
<1>. DEFINE s == Content(receive_buffer)
<1>1. /\ received \in Seq(Byte) /\ s \in Seq(Byte) /\ wire \in Seq(Byte)
      /\ sent \in Seq(Messages) /\ (received \o s) \o wire = stream
  BY DEF ReceiveInv, ReceiveTypeOK, BytesKept
<1>2. m \in Seq(Byte)
  BY MessageFramed
<1>3. /\ sent' = Append(sent, m) /\ wire' = wire \o m /\ stream' = stream \o m
      /\ UNCHANGED <<receive_buffer, wanted_ib_size, pc, delivered, received, failures>>
  BY DEF PeerSends
<1>4. wire' \in Seq(Byte) /\ stream' \in Seq(Byte)
  BY <1>1, <1>2, <1>3, ConcatLength, Zenon DEF ReceiveInv, ReceiveTypeOK
<1>5. ReceiveTypeOK'
  BY <1>1, <1>3, <1>4 DEF ReceiveInv, ReceiveTypeOK
<1>6. BytesKept'
  <2>1. received \o s \in Seq(Byte)
    BY <1>1, ConcatLength, Zenon
  <2>. HIDE DEF s
  <2>2. ((received \o s) \o wire) \o m = (received \o s) \o (wire \o m)
    BY <1>1, <1>2, <2>1, Assoc, Zenon
  <2>. QED
    BY <1>1, <1>3, <2>2, Zenon DEF BytesKept, s
<1>7. Framed'
  BY <1>3 DEF ReceiveInv, Framed
<1>. QED
  BY <1>3, <1>5, <1>6, <1>7 DEF ReceiveInv

\* A failing allocation leaves everything in the ring buffer.
LEMMA NoMemoryKeeps ==
  ASSUME ReceiveInv, failures' \in Nat, pc' \in {"poll", "parse", "closed", "terminated"},
         UNCHANGED <<sent, wire, stream, receive_buffer, delivered, received>>,
         wanted_ib_size' \in {0, wanted_ib_size}
  PROVE  ReceiveInv'
<1>1. ReceiveTypeOK' /\ BytesKept' /\ Framed'
  <2>1. ReceiveTypeOK'
    BY DEF ReceiveInv, ReceiveTypeOK
  <2>2. BytesKept'
    BY DEF ReceiveInv, BytesKept
  <2>3. Framed'
    BY DEF ReceiveInv, Framed
  <2>. QED
    BY <2>1, <2>2, <2>3
<1>. QED
  BY <1>1 DEF ReceiveInv

\* What the header in the ring buffer says.
LEMMA HeaderSays ==
  ASSUME ReceiveInv, size(receive_buffer) >= 5
  PROVE  /\ TotalSize(Peeked(receive_buffer, 5)) = TotalSize(Content(receive_buffer))
         /\ TotalSize(Content(receive_buffer)) \in Nat
         /\ TotalSize(Content(receive_buffer)) >= 5
<1>. DEFINE s == Content(receive_buffer)
<1>1. Holds(receive_buffer, s) /\ s \in Seq(Byte) /\ Len(s) >= 5 /\ 5 \in 0..Len(s)
  BY ContentHolds, SMTT(20) DEF ReceiveInv, ReceiveTypeOK
<1>. HIDE DEF s
<1>2. Peeked(receive_buffer, 5) = SubSeq(s, 1, 5)
  BY <1>1, PeekHolds, Zenon
<1>3. \A i \in 1..5 : Peeked(receive_buffer, 5)[i] = s[i]
  BY <1>1, <1>2
<1>. QED
  BY <1>1, <1>3, TotalSizeSame, TotalSizeType DEF s

\* The loop's first branch takes the first message.
LEMMA AtOnceKeeps ==
  ASSUME ReceiveInv, AtOnce
  PROVE  ReceiveInv'
<1>. DEFINE s == Content(receive_buffer)
            w == TotalSize(Peeked(receive_buffer, 5))
            rest == Removed(receive_buffer, 5)
            t == SubSeq(s, 6, Len(s))
<1>1. /\ wanted_ib_size = 0 /\ size(receive_buffer) >= 5 /\ size(receive_buffer) >= w
      /\ UNCHANGED <<sent, wire, wanted_ib_size, pc, stream>>
      /\ failures \in Nat /\ pc \in {"poll", "parse", "closed", "terminated"}
  BY DEF AtOnce, HeaderThere, ReceiveInv, ReceiveTypeOK
<1>2. CASE NoMemory
  BY <1>1, <1>2, NoMemoryKeeps DEF NoMemory
<1>3. CASE TakeAfterHeader(w)
  <2>1. w = TotalSize(s) /\ w \in Nat /\ w >= 5
    BY <1>1, HeaderSays
  <2>2. Holds(receive_buffer, s) /\ s \in Seq(Byte) /\ Len(s) = size(receive_buffer)
    BY ContentHolds DEF ReceiveInv, ReceiveTypeOK
  <2>3. /\ Deliver(Peeked(receive_buffer, 5) \o Peeked(rest, w - 5))
        /\ receive_buffer' = AfterRead(rest, w - 5) /\ failures' = failures
    BY <1>3 DEF TakeAfterHeader
  <2>4. 5 \in 0..Len(s) /\ 5 + 1 = 6
    BY <1>1, <2>2
  <2>. HIDE DEF s, w, rest
  <2>5. Peeked(receive_buffer, 5) = SubSeq(s, 1, 5)
    BY <2>2, <2>4, PeekHolds, Zenon
  <2>6. Holds(rest, SubSeq(s, 5 + 1, Len(s)))
    BY <2>2, <2>4, RemoveHolds DEF rest
  <2>7. Holds(rest, t) /\ Len(t) = Len(s) - 5 /\ w - 5 \in 0..Len(t)
    BY <1>1, <2>1, <2>2, <2>4, <2>6
  <2>. HIDE DEF t
  <2>8. Peeked(rest, w - 5) = SubSeq(t, 1, w - 5)
    BY <2>7, PeekHolds
  <2>9. Holds(receive_buffer', SubSeq(t, (w - 5) + 1, Len(t)))
    BY <2>3, <2>7, ReadHolds
  <2>10. /\ SubSeq(s, 1, 5) \o SubSeq(t, 1, w - 5) = SubSeq(s, 1, w)
         /\ SubSeq(t, (w - 5) + 1, Len(t)) = SubSeq(s, w + 1, Len(s))
    BY <1>1, <2>1, <2>2, SplitTwice, Zenon DEF t
  <2>11. Deliver(SubSeq(s, 1, w)) /\ Holds(receive_buffer', SubSeq(s, w + 1, Len(s)))
    BY <2>3, <2>5, <2>8, <2>9, <2>10, Zenon
  <2>. QED
    BY <1>1, <2>1, <2>3, <2>11, TakesMessage DEF s
<1>. QED
  BY <1>2, <1>3 DEF AtOnce

\* The loop's second branch takes the message whose size is known.
LEMMA CompletedKeeps ==
  ASSUME ReceiveInv, Completed
  PROVE  ReceiveInv'
<1>. DEFINE s == Content(receive_buffer)
            w == wanted_ib_size
<1>1. /\ w > 0 /\ w \in Nat /\ size(receive_buffer) >= w
      /\ UNCHANGED <<sent, wire, pc, stream>> /\ wanted_ib_size' = 0
      /\ failures \in Nat /\ pc \in {"poll", "parse", "closed", "terminated"}
  BY DEF Completed, ReceiveInv, ReceiveTypeOK
<1>2. CASE NoMemory
  BY <1>1, <1>2, NoMemoryKeeps DEF NoMemory
<1>3. CASE /\ Deliver(Peeked(receive_buffer, w))
           /\ receive_buffer' = AfterRead(receive_buffer, w)
           /\ UNCHANGED failures
  <2>1. w = TotalSize(s) /\ size(receive_buffer) >= 5
    BY <1>1 DEF ReceiveInv
  <2>2. Holds(receive_buffer, s) /\ s \in Seq(Byte) /\ w \in 0..Len(s)
    BY <1>1, ContentHolds DEF ReceiveInv, ReceiveTypeOK
  <2>3. Deliver(SubSeq(s, 1, w)) /\ Holds(receive_buffer', SubSeq(s, w + 1, Len(s)))
    BY <1>3, <2>2, PeekHolds, ReadHolds, Zenon
  <2>. QED
    BY <1>1, <1>3, <2>1, <2>3, TakesMessage
<1>. QED
  BY <1>2, <1>3 DEF Completed

\* On a connection as data_in leaves it, the bytes received are exactly the bytes
\* sent and every stream is one whole message, for every capacity, size of read,
\* conversation and failing allocation.
THEOREM Receiving == Spec => []ReceiveInv
<1>1. Init => ReceiveInv
  <2>. SUFFICES ASSUME Init PROVE ReceiveInv
    OBVIOUS
  <2>1. Content(NoBuffer) = <<>> /\ IsRing(NoBuffer)
    BY NoBufferHolds, HoldsContent, Zenon DEF Holds
  <2>2. (<<>> \o <<>>) \o <<>> = <<>>
    OBVIOUS
  <2>3. ReceiveTypeOK /\ BytesKept /\ Framed
    BY <2>1, <2>2 DEF Init, ReceiveTypeOK, BytesKept, Framed
  <2>. QED
    BY <2>1, <2>3 DEF Init, ReceiveInv
<1>2. ReceiveInv /\ [Next]_vars => ReceiveInv'
  <2>. SUFFICES ASSUME ReceiveInv, [Next]_vars PROVE ReceiveInv'
    OBVIOUS
  <2>. USE DEF ReceiveTypeOK
  <2>1. failures \in Nat
    BY DEF ReceiveInv
  <2>0. ASSUME NEW m \in Messages, PeerSends(m) PROVE ReceiveInv'
    BY <2>0, PeerSendsKeeps
  <2>2. CASE AppendSome
    BY <2>2, AppendKeeps DEF AppendSome
  <2>3. ASSUME NEW n \in 1..Chunk, WriteThrows(n) PROVE ReceiveInv'
    BY <2>1, <2>3, NoMemoryKeeps DEF WriteThrows
  <2>4. CASE NoHeaderStream
    BY <2>1, <2>4, NoMemoryKeeps DEF NoHeaderStream, NoMemory
  <2>5. CASE PartlyThere
    <3>1. /\ size(receive_buffer) >= 5
          /\ wanted_ib_size' = TotalSize(Content(receive_buffer))
          /\ wanted_ib_size' \in Nat
      BY <2>5, HeaderSays DEF PartlyThere, HeaderThere
    <3>2. ReceiveTypeOK' /\ BytesKept' /\ Framed'
      BY <2>5, <3>1 DEF PartlyThere, ReceiveInv, BytesKept, Framed
    <3>. QED
      BY <2>5, <3>1, <3>2 DEF PartlyThere, ReceiveInv
  <2>6. CASE AtOnce
    BY <2>6, AtOnceKeeps
  <2>7. CASE Completed
    BY <2>7, CompletedKeeps
  <2>8. CASE NoProgress
    BY <2>1, <2>8, NoMemoryKeeps DEF NoProgress
  <2>9. CASE Closes
    BY <2>1, <2>9, NoMemoryKeeps DEF Closes
  <2>10. CASE UNCHANGED vars
    BY <2>1, <2>10, NoMemoryKeeps DEF vars, ReceiveInv
  <2>. QED
    BY <2>0, <2>2, <2>3, <2>4, <2>5, <2>6, <2>7, <2>8, <2>9, <2>10 DEF Next, Parse
<1>. QED
  BY <1>1, <1>2, PTL DEF Spec

\* No byte between the peer and the callbacks is lost, repeated, swapped or made
\* up by Connection::data_in and its ring buffer.
THEOREM Kept == Spec => []BytesKept
<1>1. ReceiveInv => BytesKept
  BY DEF ReceiveInv
<1>. QED
  BY <1>1, Receiving, PTL

\* Every stream that data_in gives to the callback is as long as its header says.
THEOREM Framing == Spec => []Framed
<1>1. ReceiveInv => Framed
  BY DEF ReceiveInv
<1>. QED
  BY <1>1, Receiving, PTL

-----------------------------------------------------------------------------
(* Messages.                                                               *)

\* data_in only goes back to polling when no whole message is left.
THEOREM Waiting == Spec => []NoneWaiting
<1>1. Init => NoneWaiting
  BY DEF Init, NoneWaiting, Complete, NoBuffer, size
<1>2. ReceiveInv /\ NoneWaiting /\ [Next]_vars => NoneWaiting'
  <2>. SUFFICES ASSUME ReceiveInv, NoneWaiting, [Next]_vars, pc' = "poll", failures' = 0
                PROVE  ~Complete'
    BY DEF NoneWaiting
  <2>1. failures \in Nat /\ wanted_ib_size \in Nat /\ size(receive_buffer) \in Nat
    BY RingNumbers DEF ReceiveInv, ReceiveTypeOK
  <2>2. ASSUME NEW m \in Messages, PeerSends(m) PROVE ~Complete'
    BY <2>2 DEF PeerSends, NoneWaiting, Complete
  <2>3. CASE PartlyThere
    <3>1. size(receive_buffer) >= 5
      BY <2>3 DEF PartlyThere, HeaderThere
    <3>2. TotalSize(Peeked(receive_buffer, 5)) \in Nat
      BY <3>1, HeaderSays
    <3>. QED
      BY <2>1, <2>3, <3>2 DEF PartlyThere, Complete
  <2>4. CASE NoProgress
    <3>1. receive_buffer' = receive_buffer
      BY <2>4 DEF NoProgress
    <3>2. CASE size(receive_buffer) >= 5
      <4>1. wanted_ib_size > 0 /\ size(receive_buffer) < wanted_ib_size
        BY <2>1, <2>4, <3>2 DEF NoProgress, HeaderThere
      <4>2. wanted_ib_size = TotalSize(Content(receive_buffer))
        BY <4>1 DEF ReceiveInv
      <4>3. TotalSize(Peeked(receive_buffer, 5)) = wanted_ib_size
        BY <3>2, <4>2, HeaderSays
      <4>. QED
        BY <2>1, <3>1, <4>1, <4>3 DEF Complete
    <3>3. CASE ~(size(receive_buffer) >= 5)
      BY <3>1, <3>3 DEF Complete
    <3>. QED
      BY <3>2, <3>3
  <2>5. CASE UNCHANGED vars
    BY <2>5 DEF vars, NoneWaiting, Complete
  <2>6. CASE AppendSome \/ Closes \/ \E n \in 1..Chunk : WriteThrows(n)
    BY <2>6 DEF AppendSome, Append_Data, Closes, WriteThrows
  <2>7. CASE NoHeaderStream
    BY <2>1, <2>7 DEF NoHeaderStream, NoMemory
  <2>8. CASE AtOnce \/ Completed
    BY <2>8 DEF AtOnce, Completed
  <2>. QED
    BY <2>2, <2>3, <2>4, <2>5, <2>6, <2>7, <2>8 DEF Next, Parse
<1>. QED
  BY <1>1, <1>2, Receiving, PTL DEF Spec

\* The number of bytes e[i] before the end of message i of the peer.
Ends(e) ==
  /\ e \in [0..Len(sent) -> 0..Len(stream)]
  /\ e[0] = 0
  /\ e[Len(sent)] = Len(stream)
  /\ \A i \in 1..Len(sent) :
       /\ e[i] = e[i - 1] + Len(sent[i])
       /\ \A j \in 1..Len(sent[i]) : stream[e[i - 1] + j] = sent[i][j]

\* The callbacks got the peer's first messages, and their bytes end with them.
Parsed ==
  /\ MessagesWhole
  /\ \E e \in [0..Len(sent) -> 0..Len(stream)] : Ends(e) /\ e[Len(delivered)] = Len(received)

\* What is in front of three sequences of bytes.
LEMMA Front ==
  ASSUME NEW r \in Seq(Byte), NEW s \in Seq(Byte), NEW w \in Seq(Byte), NEW u,
         (r \o s) \o w = u
  PROVE  Len(r) <= Len(u) /\ \A j \in 1..Len(r) : u[j] = r[j]
<1>. DEFINE t == s \o w
<1>1. t \in Seq(Byte) /\ u = r \o t
  <2>1. (r \o s) \o w = r \o (s \o w)
    BY Assoc, Zenon
  <2>. QED
    BY <2>1, ConcatLength
<1>. HIDE DEF t
<1>2. Len(u) = Len(r) + Len(t)
  BY <1>1, ConcatLength, Zenon
<1>3. \A j \in 1..Len(r) : u[j] = r[j]
  <2>1. \A j \in 1..Len(r) : (r \o t)[j] = r[j]
    BY <1>1, Joined, Zenon
  <2>. QED
    BY <1>1, <2>1, Zenon
<1>. QED
  BY <1>1, <1>2, <1>3

\* A framed stream with the peer's next bytes is the peer's next message.
LEMMA DeliverParsed ==
  ASSUME ReceiveInv, ReceiveInv', Parsed, NEW x, Deliver(x), UNCHANGED <<sent, stream>>
  PROVE  Parsed'
<1>. DEFINE k == Len(delivered)
            r == Len(received)
<1>1. /\ delivered' = Append(delivered, x) /\ received' = received \o x
      /\ delivered \in Seq(Seq(Byte)) /\ delivered' \in Seq(Seq(Byte))
      /\ received \in Seq(Byte) /\ sent \in Seq(Messages) /\ stream \in Seq(Byte)
  BY DEF Deliver, ReceiveInv, ReceiveTypeOK
<1>2. /\ k \in Nat /\ r \in Nat /\ Len(delivered') = k + 1 /\ delivered'[k + 1] = x
      /\ \A i \in 1..k : delivered'[i] = delivered[i]
  BY <1>1
<1>3. x \in Seq(Byte) /\ Len(x) \in Nat /\ Len(x) >= 5 /\ Len(x) = TotalSize(x)
  <2>1. k + 1 \in DOMAIN delivered'
    BY <1>1, <1>2
  <2>2. delivered'[k + 1] \in Seq(Byte)
    BY <1>1, <2>1
  <2>. QED
    BY <1>2, <2>1, <2>2 DEF ReceiveInv, Framed
<1>4. /\ Len(received') = r + Len(x)
      /\ r + Len(x) <= Len(stream)
      /\ \A j \in 1..Len(x) : stream[r + j] = x[j]
  <2>1. Len(received') = r + Len(x)
    BY <1>1, <1>3, ConcatLength, Zenon
  <2>2. Len(received') <= Len(stream) /\ \A j \in 1..Len(received') : stream[j] = received'[j]
    <3>1. /\ received' \in Seq(Byte) /\ Content(receive_buffer') \in Seq(Byte)
          /\ wire' \in Seq(Byte)
          /\ (received' \o Content(receive_buffer')) \o wire' = stream
      BY DEF ReceiveInv, ReceiveTypeOK, BytesKept
    <3>. QED
      BY <3>1, Front
  <2>3. \A j \in 1..Len(x) : received'[r + j] = x[j]
    BY <1>1, <1>3, Joined, Zenon
  <2>. QED
    BY <1>2, <1>3, <2>1, <2>2, <2>3
<1>5. PICK e \in [0..Len(sent) -> 0..Len(stream)] : Ends(e) /\ e[k] = r
  BY DEF Parsed
<1>6. k <= Len(sent) /\ \A i \in 1..k : delivered[i] = sent[i]
  BY <1>1 DEF Parsed, MessagesWhole
<1>7. k + 1 \in 1..Len(sent)
  <2>1. k # Len(sent)
    BY <1>1, <1>2, <1>3, <1>4, <1>5 DEF Ends
  <2>. QED
    BY <1>1, <1>2, <1>6, <2>1
<1>. DEFINE y == sent[k + 1]
<1>8. y \in Seq(Byte) /\ Len(y) \in Nat /\ Len(y) >= 5 /\ Len(y) = TotalSize(y)
  BY <1>1, <1>7, MessageFramed
<1>9. e[k + 1] = r + Len(y) /\ \A j \in 1..Len(y) : stream[r + j] = y[j]
  <2>1. /\ e[k + 1] = e[(k + 1) - 1] + Len(y)
        /\ \A j \in 1..Len(y) : stream[e[(k + 1) - 1] + j] = y[j]
    BY <1>5, <1>7, Zenon DEF Ends
  <2>2. (k + 1) - 1 = k
    BY <1>2
  <2>. QED
    BY <1>5, <2>1, <2>2, Zenon
<1>. HIDE DEF y
<1>10. Len(x) = Len(y)
  <2>1. \A i \in 1..5 : x[i] = y[i]
    <3>1. 1..5 \subseteq 1..Len(x) /\ 1..5 \subseteq 1..Len(y)
      BY <1>3, <1>8
    <3>. QED
      BY <1>4, <1>9, <3>1, Zenon
  <2>. QED
    BY <1>3, <1>8, <2>1, TotalSizeSame, Zenon
<1>11. x = y
  <2>1. \A j \in 1..Len(x) : x[j] = y[j]
    BY <1>4, <1>9, <1>10, Zenon
  <2>. QED
    BY <1>3, <1>8, <1>10, <2>1, SameSequence, Zenon
<1>12. MessagesWhole'
  <2>1. Len(delivered') <= Len(sent)
    BY <1>2, <1>7
  <2>2. ASSUME NEW i \in DOMAIN delivered' PROVE delivered'[i] = sent[i]
    <3>1. i \in 1..k \/ i = k + 1
      <4>1. i \in 1..(k + 1)
        BY <1>1, <1>2
      <4>. QED
        BY <1>2, <4>1
    <3>2. CASE i \in 1..k
      BY <1>2, <1>6, <3>2, Zenon
    <3>3. CASE i = k + 1
      BY <1>2, <1>11, <3>3, Zenon DEF y
    <3>. QED
      BY <3>1, <3>2, <3>3
  <2>. QED
    BY <2>1, <2>2 DEF MessagesWhole
<1>13. Ends(e)' /\ e[Len(delivered')] = Len(received')
  BY <1>2, <1>4, <1>5, <1>9, <1>10 DEF Ends
<1>. QED
  BY <1>12, <1>13 DEF Parsed

\* A message more of the peer ends where its bytes end.
LEMMA PeerSendsParsed ==
  ASSUME ReceiveInv, Parsed, NEW m \in Messages, PeerSends(m)
  PROVE  Parsed'
<1>. DEFINE n == Len(sent)
            l == Len(stream)
<1>1. /\ sent \in Seq(Messages) /\ stream \in Seq(Byte) /\ delivered \in Seq(Seq(Byte))
      /\ m \in Seq(Byte) /\ n \in Nat /\ l \in Nat /\ Len(m) \in Nat
  BY MessageFramed DEF ReceiveInv, ReceiveTypeOK
<1>2. /\ sent' = Append(sent, m) /\ stream' = stream \o m
      /\ UNCHANGED <<delivered, received>>
  BY DEF PeerSends
<1>3. Len(sent') = n + 1 /\ sent'[n + 1] = m /\ \A i \in 1..n : sent'[i] = sent[i]
  BY <1>1, <1>2
<1>4. /\ Len(stream') = l + Len(m)
      /\ \A j \in 1..l : stream'[j] = stream[j]
      /\ \A j \in 1..Len(m) : stream'[l + j] = m[j]
  BY <1>1, <1>2, ConcatLength, Joined, Zenon
<1>5. PICK e \in [0..n -> 0..l] : Ends(e) /\ e[Len(delivered)] = Len(received)
  BY DEF Parsed
<1>6. Len(delivered) \in 0..n /\ \A i \in DOMAIN delivered : i \in 1..n /\ delivered[i] = sent[i]
  BY <1>1 DEF Parsed, MessagesWhole
<1>7. PICK f \in [0..Len(sent') -> 0..Len(stream')] :
        /\ f[n + 1] = l + Len(m)
        /\ \A i \in 0..n : f[i] = e[i]
  <2>. DEFINE g == [i \in 0..(n + 1) |-> IF i = n + 1 THEN l + Len(m) ELSE e[i]]
  <2>1. g \in [0..Len(sent') -> 0..Len(stream')]
    BY <1>1, <1>3, <1>4
  <2>2. g[n + 1] = l + Len(m)
    BY <1>1
  <2>3. \A i \in 0..n : g[i] = e[i]
    <3>1. \A i \in 0..n : i \in 0..(n + 1) /\ i # n + 1
      BY <1>1
    <3>. QED
      BY <3>1, Zenon
  <2>. HIDE DEF g
  <2>. QED
    BY <2>1, <2>2, <2>3, Zenon
<1>8. \A i \in 0..n : f[i] = e[i] /\ e[i] \in 0..l
  BY <1>7, Zenon
<1>9. f[n + 1] = l + Len(m)
  BY <1>7
<1>10. ASSUME NEW i \in 1..(n + 1)
       PROVE  /\ f[i] = f[i - 1] + Len(sent'[i])
              /\ \A j \in 1..Len(sent'[i]) : stream'[f[i - 1] + j] = sent'[i][j]
  <2>1. CASE i = n + 1
    <3>1. f[i - 1] = l /\ sent'[i] = m /\ f[i] = l + Len(m)
      <4>1. i - 1 = n /\ n \in 0..n
        BY <1>1, <2>1
      <4>2. f[i - 1] = e[n] /\ e[n] = l
        BY <1>5, <1>8, <4>1, Zenon DEF Ends
      <4>. QED
        BY <1>3, <1>9, <2>1, <4>2, Zenon
    <3>. QED
      BY <1>4, <3>1
  <2>2. CASE i \in 1..n
    <3>. DEFINE x == sent[i]
    <3>1. x \in Messages /\ x \in Seq(Byte) /\ Len(x) \in Nat
      BY <1>1, <2>2, MessageFramed, SMTT(20)
    <3>2. i - 1 \in 0..n /\ i \in 0..n
      BY <1>1, <2>2
    <3>3. f[i] = e[i] /\ f[i - 1] = e[i - 1] /\ sent'[i] = x /\ e[i] \in 0..l /\ e[i - 1] \in 0..l
      BY <1>3, <1>8, <2>2, <3>2, Zenon
    <3>4. e[i] = e[i - 1] + Len(x) /\ \A j \in 1..Len(x) : stream[e[i - 1] + j] = x[j]
      BY <1>5, <2>2, Zenon DEF Ends
    <3>. HIDE DEF x
    <3>5. \A j \in 1..Len(x) : e[i - 1] + j \in 1..l
      <4>1. \A a, b \in 0..l : a = b + Len(x) => \A j \in 1..Len(x) : b + j \in 1..l
        BY <1>1, <3>1
      <4>. QED
        BY <3>3, <3>4, <4>1, Zenon
    <3>6. \A j \in 1..Len(x) : stream'[e[i - 1] + j] = x[j]
      BY <1>4, <3>4, <3>5, Zenon
    <3>. QED
      BY <3>3, <3>4, <3>6, Zenon
  <2>3. i = n + 1 \/ i \in 1..n
    BY <1>1
  <2>. QED
    BY <2>1, <2>2, <2>3, Zenon
<1>11. Ends(f)'
  <2>1. f[0] = 0
    BY <1>1, <1>5, <1>8, SMTT(20) DEF Ends
  <2>. QED
    BY <1>3, <1>4, <1>7, <1>9, <1>10, <2>1, Zenon DEF Ends
<1>12. f[Len(delivered')] = Len(received')
  BY <1>2, <1>5, <1>6, <1>8
<1>13. MessagesWhole'
  BY <1>1, <1>2, <1>3, <1>6 DEF MessagesWhole
<1>. QED
  BY <1>7, <1>11, <1>12, <1>13, Zenon DEF Parsed

\* The callbacks get the messages that the peer laid out, one by one, whole and in
\* order, for every length of them that fits its four bytes.
THEOREM Messaging == Spec => []MessagesWhole
<1>1. Init => Parsed
  <2>. SUFFICES ASSUME Init PROVE Parsed
    OBVIOUS
  <2>. DEFINE e == [i \in 0..0 |-> 0]
  <2>1. Len(sent) = 0 /\ Len(stream) = 0 /\ Len(delivered) = 0 /\ Len(received) = 0
        /\ DOMAIN delivered = {}
    BY DEF Init
  <2>2. e \in [0..0 -> 0..0] /\ e[0] = 0
    OBVIOUS
  <2>. HIDE DEF e
  <2>3. Ends(e) /\ e[Len(delivered)] = Len(received)
    BY <2>1, <2>2 DEF Ends
  <2>4. MessagesWhole
    BY <2>1 DEF MessagesWhole
  <2>. QED
    BY <2>1, <2>2, <2>3, <2>4 DEF Parsed
<1>2. ReceiveInv /\ ReceiveInv' /\ Parsed /\ [Next]_vars => Parsed'
  <2>. SUFFICES ASSUME ReceiveInv, ReceiveInv', Parsed, [Next]_vars PROVE Parsed'
    OBVIOUS
  <2>1. ASSUME NEW m \in Messages, PeerSends(m) PROVE Parsed'
    BY <2>1, PeerSendsParsed
  <2>2. ASSUME UNCHANGED <<sent, stream, delivered, received>> PROVE Parsed'
    BY <2>2, Zenon DEF Parsed, MessagesWhole, Ends
  <2>3. ASSUME NEW x, Deliver(x), UNCHANGED <<sent, stream>> PROVE Parsed'
    BY <2>3, DeliverParsed
  <2>4. CASE AtOnce
    BY <2>2, <2>3, <2>4 DEF AtOnce, TakeAfterHeader, NoMemory
  <2>5. CASE Completed
    BY <2>2, <2>3, <2>5 DEF Completed, NoMemory
  <2>6. CASE AppendSome \/ Closes \/ \E n \in 1..Chunk : WriteThrows(n)
    BY <2>2, <2>6 DEF AppendSome, Append_Data, Closes, WriteThrows
  <2>7. CASE NoHeaderStream \/ PartlyThere \/ NoProgress
    BY <2>2, <2>7 DEF NoHeaderStream, NoMemory, PartlyThere, NoProgress
  <2>8. CASE UNCHANGED vars
    BY <2>2, <2>8 DEF vars
  <2>. QED
    BY <2>1, <2>4, <2>5, <2>6, <2>7, <2>8 DEF Next, Parse
<1>3. Parsed => MessagesWhole
  BY DEF Parsed
<1>. QED
  BY <1>1, <1>2, <1>3, Receiving, PTL DEF Spec

=============================================================================
