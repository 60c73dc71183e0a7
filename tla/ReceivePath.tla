---------------------------- MODULE ReceivePath ----------------------------
(***************************************************************************)
(* How a connection makes messages from the bytes it receives:             *)
(* Connection::data_in and the ring buffer and streams it uses.            *)
(*                                                                         *)
(* TCP hands over the peer's bytes in pieces of any size.  data_in appends *)
(* a piece to the ring buffer and then takes whole messages from it, each  *)
(* in a stream of its own, and calls the receive callback.  A message is   *)
(* an id, the length of its body in four bytes, and the body.  When only   *)
(* a part of a message is there, its length is kept in wanted_ib_size.     *)
(*                                                                         *)
(* Memory may be short at each allocation.  Where data_in needs a stream,  *)
(* it leaves the message in the ring buffer; where the ring buffer needs   *)
(* to grow, it throws, which nobody on the event loop's stack catches.     *)
(*                                                                         *)
(* Only the event loop calls data_in, and the callback does not touch the  *)
(* receive buffer, so m_receive is never waited for and is left out.       *)
(***************************************************************************)
EXTENDS RingBuffer

CONSTANTS
  Base,           \* a byte is a digit of this base, 256
  Chunk,          \* the most that one read returns, 10000
  Ids, Bodies,    \* the ids and contents of the messages of the peer
  MaxMessages,    \* bound on the messages that the peer sends
  MaxFailures     \* bound on failing allocations

\* Bound: a message with its header has less than 2^32 bytes, so that the sum
\* that TotalSize forms in 32 bits does not wrap.
ASSUME ReceiveAssumption ==
  /\ Base \in Nat \ {0}
  /\ Byte = 0..(Base - 1)
  /\ Chunk \in Nat \ {0}
  /\ Ids \subseteq Byte
  /\ \A body \in Bodies : body \in Seq(Byte) /\ 5 + Len(body) < Base * Base * Base * Base
  /\ MaxMessages \in Nat

VARIABLES
  sent,            \* the messages the peer has sent
  wire,            \* their bytes, as far as not yet read
  receive_buffer,
  wanted_ib_size,
  pc,              \* "poll", "parse", "closed", or "terminated" by an exception
  delivered,       \* the streams given to receive_callback
  received,        \* history: the bytes of these streams, one after another
  stream,          \* history: all bytes the peer has sent
  failures         \* allocations that failed

vars == <<sent, wire, receive_buffer, wanted_ib_size, pc, delivered, received,
          stream, failures>>

-----------------------------------------------------------------------------
(* Streams.                                                                *)

\* stream_write_uint32_t: most significant byte first.
stream_write_uint32_t(d) ==
  <<(d \div (Base * Base * Base)) % Base, (d \div (Base * Base)) % Base,
    (d \div Base) % Base, d % Base>>

\* Mutant: least significant byte first.
stream_read_uint32_t_Reversed(s, pos) ==
  ((s[pos + 3] * Base + s[pos + 2]) * Base + s[pos + 1]) * Base + s[pos]

stream_read_uint32_t(s, pos) ==
  ((s[pos] * Base + s[pos + 1]) * Base + s[pos + 2]) * Base + s[pos + 3]

\* A message as write_message_header and what follows it lay it out.
Message(id, body) == <<id>> \o stream_write_uint32_t(Len(body)) \o body

\* The size of the message with this header.  The sum does not wrap, by
\* ReceiveAssumption.
TotalSize(header) == 5 + stream_read_uint32_t(header, 2)

-----------------------------------------------------------------------------
(* data_in.                                                                *)

\* The messages of the peer.
Messages == {Message(id, body) : id \in Ids, body \in Bodies}

Init ==
  /\ sent = <<>>
  /\ wire = <<>>
  /\ stream = <<>>
  /\ receive_buffer = NoBuffer
  /\ wanted_ib_size = 0
  /\ pc = "poll"
  /\ delivered = <<>>
  /\ received = <<>>
  /\ failures = 0

\* The peer sends one more message, while the connection is read or not: its
\* Connection::send and data_out write the bytes of whole messages in order (see
\* SendPath).
PeerSends(m) ==
  /\ Len(sent) < MaxMessages
  /\ sent' = Append(sent, m)
  /\ wire' = wire \o m
  /\ stream' = stream \o m
  /\ UNCHANGED <<receive_buffer, wanted_ib_size, pc, delivered, received, failures>>

\* read returns n bytes, which are appended to the ring buffer.
Append_Data(n) ==
  /\ pc = "poll"
  /\ n <= Len(wire)
  /\ \E c \in NewCapacity(receive_buffer, n) :
       receive_buffer' = Written(Reserved(receive_buffer, c), SubSeq(wire, 1, n))
  /\ wire' = SubSeq(wire, n + 1, Len(wire))
  /\ pc' = "parse"
  /\ UNCHANGED <<sent, wanted_ib_size, delivered, received, stream, failures>>

\* The ring buffer cannot grow.
WriteThrows(n) ==
  /\ pc = "poll"
  /\ n <= Len(wire)
  /\ receive_buffer.capacity \notin NewCapacity(receive_buffer, n)
  /\ \/ NewCapacity(receive_buffer, n) = {}
     \/ failures < MaxFailures
  /\ pc' = "terminated"
  /\ failures' = failures + 1
  /\ UNCHANGED <<sent, wire, receive_buffer, wanted_ib_size, delivered, received,
                 stream>>

\* The callback gets the message s.
Deliver(s) ==
  /\ delivered' = Append(delivered, s)
  /\ received' = received \o s

\* No memory for a stream.
NoMemory ==
  /\ failures < MaxFailures
  /\ failures' = failures + 1
  /\ UNCHANGED <<receive_buffer, delivered, received>>

HeaderThere == wanted_ib_size = 0 /\ size(receive_buffer) >= 5

\* remove(5), and the rest is read behind the header in the stream.
TakeAfterHeader(wanted) ==
  LET rest == Removed(receive_buffer, 5)
  IN  /\ Deliver(Peeked(receive_buffer, 5) \o Peeked(rest, wanted - 5))
      /\ receive_buffer' = AfterRead(rest, wanted - 5)
      /\ UNCHANGED failures

\* The first branch of the loop, without memory for the header.
NoHeaderStream ==
  /\ pc = "parse"
  /\ HeaderThere
  /\ NoMemory
  /\ pc' = "poll"
  /\ UNCHANGED <<sent, wire, wanted_ib_size, stream>>

\* The first branch, with only a part of the message there.
PartlyThere ==
  /\ pc = "parse"
  /\ HeaderThere
  /\ size(receive_buffer) < TotalSize(Peeked(receive_buffer, 5))
  /\ wanted_ib_size' = TotalSize(Peeked(receive_buffer, 5))
  /\ pc' = "poll"
  /\ UNCHANGED <<sent, wire, receive_buffer, delivered, received, stream, failures>>

\* The first branch, with the whole message there.
AtOnce ==
  /\ pc = "parse"
  /\ HeaderThere
  /\ size(receive_buffer) >= TotalSize(Peeked(receive_buffer, 5))
  /\ TakeAfterHeader(TotalSize(Peeked(receive_buffer, 5))) \/ NoMemory
  /\ UNCHANGED <<sent, wire, wanted_ib_size, pc, stream>>

\* Mutant: the size is kept for the next message.
Completed_WantedKept ==
  /\ pc = "parse"
  /\ wanted_ib_size > 0
  /\ size(receive_buffer) >= wanted_ib_size
  /\ Deliver(Peeked(receive_buffer, wanted_ib_size))
  /\ receive_buffer' = AfterRead(receive_buffer, wanted_ib_size)
  /\ UNCHANGED <<sent, wire, wanted_ib_size, pc, stream, failures>>

\* The second branch: the rest of a message has come.
Completed ==
  /\ pc = "parse"
  /\ wanted_ib_size > 0
  /\ size(receive_buffer) >= wanted_ib_size
  /\ \/ /\ Deliver(Peeked(receive_buffer, wanted_ib_size))
        /\ receive_buffer' = AfterRead(receive_buffer, wanted_ib_size)
        /\ UNCHANGED failures
     \/ NoMemory
  /\ wanted_ib_size' = 0
  /\ UNCHANGED <<sent, wire, pc, stream>>

\* Mutant: a message that fills the ring buffer exactly is not seen.
NoProgress_AtMost ==
  /\ pc = "parse"
  /\ ~HeaderThere
  /\ wanted_ib_size > 0 => size(receive_buffer) <= wanted_ib_size
  /\ pc' = "poll"
  /\ UNCHANGED <<sent, wire, receive_buffer, wanted_ib_size, delivered, received,
                 stream, failures>>

\* Neither branch: the loop ends.
NoProgress ==
  /\ pc = "parse"
  /\ ~HeaderThere
  /\ wanted_ib_size > 0 => size(receive_buffer) < wanted_ib_size
  /\ pc' = "poll"
  /\ UNCHANGED <<sent, wire, receive_buffer, wanted_ib_size, delivered, received,
                 stream, failures>>

\* read returns 0 or an error: data_in returns false.
Closes ==
  /\ pc = "poll"
  /\ pc' = "closed"
  /\ UNCHANGED <<sent, wire, receive_buffer, wanted_ib_size, delivered, received,
                 stream, failures>>

AppendSome == \E n \in 1..Chunk : Append_Data(n)

Parse == NoHeaderStream \/ PartlyThere \/ AtOnce \/ Completed \/ NoProgress

Next ==
  \/ \E m \in Messages : PeerSends(m)
  \/ AppendSome
  \/ \E n \in 1..Chunk : WriteThrows(n)
  \/ Parse
  \/ Closes

Spec == Init /\ [][Next]_vars

\* What has arrived is polled as readable, and the loop of data_in runs on.
FairSpec == Spec /\ WF_vars(AppendSome) /\ WF_vars(Parse)

-----------------------------------------------------------------------------
(* Properties.                                                             *)

\* Type invariant of the connection's receiving side.
ReceiveTypeOK ==
  /\ sent \in Seq(Messages)
  /\ wire \in Seq(Byte)
  /\ IsRing(receive_buffer)
  /\ wanted_ib_size \in Nat
  /\ pc \in {"poll", "parse", "closed", "terminated"}
  /\ delivered \in Seq(Seq(Byte))
  /\ received \in Seq(Byte)
  /\ stream \in Seq(Byte)
  /\ failures \in Nat

\* Not a byte is lost, repeated, swapped or made up: what the callbacks got, what
\* is in the ring buffer and what was not read yet are together what the peer
\* has sent, whichever way ringbuffer::write and read wrap, grow and move, and
\* wherever an allocation fails.
BytesKept == received \o Content(receive_buffer) \o wire = stream

\* A callback gets one whole message: as many bytes as the header in front of
\* them says.  data_in finds the size in one call and may take the message from
\* the ring buffer in a later one.
Framed ==
  \A i \in DOMAIN delivered :
    Len(delivered[i]) >= 5 /\ Len(delivered[i]) = TotalSize(delivered[i])

\* The inductive invariant behind these two: what wanted_ib_size remembers from an
\* earlier call of data_in is still the size of the message in front, and the ring
\* buffer never shows memory that was not written.
ReceiveInv ==
  /\ ReceiveTypeOK
  /\ Content(receive_buffer) \in Seq(Byte)
  /\ BytesKept
  /\ Framed
  /\ wanted_ib_size > 0 =>
       /\ size(receive_buffer) >= 5
       /\ wanted_ib_size = TotalSize(Content(receive_buffer))

\* The callbacks get the peer's messages, whole and in order.
MessagesWhole ==
  /\ Len(delivered) <= Len(sent)
  /\ \A i \in DOMAIN delivered : delivered[i] = sent[i]

\* Is the next message complete in the ring buffer?
Complete ==
  LET b == receive_buffer
  IN  size(b) >= 5 /\ size(b) >= TotalSize(Peeked(b, 5))

\* data_in does not return while a whole message waits ("Note that multiple
\* messages may arrive at once"), unless memory was short: nothing would call it
\* again for bytes that it has already read.
NoneWaiting == pc = "poll" /\ failures = 0 => ~Complete

\* Every message gets to its callback, however its bytes arrive, unless the
\* connection is closed or memory was short.
AllDelivered ==
  \A k \in 1..MaxMessages :
    Len(sent) >= k ~> Len(delivered) >= k \/ pc = "closed" \/ failures > 0

=============================================================================
