--------------------------- MODULE SendPathProofs ---------------------------
(***************************************************************************)
(* Proofs about the sending side: the peer sees whole messages in order,   *)
(* no message is forgotten in the queue, and the two orders in which the   *)
(* mutexes m and m_epfd are taken do not meet.                             *)
(***************************************************************************)
EXTENDS SendPath, TLAPS

-----------------------------------------------------------------------------
(* The inductive invariant.                                                *)

\* A sender is inside send_message_tcp.
Inside == {"queue", "ask", "enable", "enable_flag", "enable_poll", "sent"}

\* Where the threads can be.
Places ==
  /\ \A t \in Sender : pc[t] \in {"send", "done"} \cup Inside
  /\ pc[Loop] \in {"start", "register", "check", "ended", "wait", "input", "output",
                   "write", "disable", "disable_flag", "destroy", "unregister"}
  /\ pc[Closer] \in {"close", "quit", "join", "closed"}
  /\ pc[Closer] \in {"close", "quit"} => pefd = 0

\* Which mutexes a thread has where it is.
Owners ==
  /\ \A t \in Sender : pc[t] \in Inside => mutex["m_tcp_connection"] = t
  /\ \A t \in Sender : pc[t] \in {"enable_flag", "enable_poll"} => mutex["m_epfd"] = t
  /\ pc[Loop] \in {"register", "unregister"} => mutex["m_epfd"] = Loop
  /\ pc[Loop] \in {"write", "disable", "disable_flag"} => mutex["m_send"] = Loop

\* How the threads' locations agree with the flag and with the registration.
Handshake ==
  /\ armed => out_enabled
  /\ \A t \in Sender : pc[t] \in {"enable", "enable_flag"} => ~out_enabled
  /\ \A t \in Sender : pc[t] = "enable_poll" => out_enabled
  /\ \A t \in Sender : pc[t] = "enable_poll" => ~armed
  /\ pc[Loop] \in {"output", "write", "disable", "disable_flag"} => armed
  /\ pc[Loop] = "input" /\ "OUT" \in events => armed
  /\ pc[Loop] \notin {"start", "register", "ended"} => epfd
  /\ out_enabled /\ epfd /\ polled =>
       armed \/ \E t \in Sender : pc[t] = "enable_poll"

\* What the threads know about the queue.
Served ==
  /\ pc[Loop] = "write" => send_queue # <<>>
  /\ pc[Loop] \in {"disable", "disable_flag"} => send_queue = <<>>
  /\ send_queue # <<>> =>
       out_enabled \/ \E t \in Sender : pc[t] \in {"ask", "enable", "enable_flag"}

\* The bytes of a message that are written when left bytes of it are not.
Begun == IF send_queue = <<>> THEN 0 ELSE Size - left

\* The queue is the end of what was sent, and the wire is what is before it.
Ordered ==
  /\ Len(send_queue) <= Len(sent)
  /\ \A i \in 1..Len(send_queue) :
       send_queue[i] = sent[Len(sent) - Len(send_queue) + i]
  /\ IF send_queue = <<>> THEN left = 0 ELSE left >= 1
  /\ Len(wire) = (Len(sent) - Len(send_queue)) * Size + Begun
  /\ \A i \in 1..Len(wire) : wire[i] = sent[((i - 1) \div Size) + 1]

Control == Places /\ Owners /\ Handshake /\ Served

SendInv == SendTypeOK /\ Control /\ Ordered

-----------------------------------------------------------------------------
(* Control.                                                                *)

\* Every step of a thread leaves the others where they are, and takes and gives
\* back mutexes as the invariant says.
LEMMA ControlNext ==
  ASSUME SendTypeOK, Control, [Next]_vars
  PROVE  Control'
<1>. DEFINE Goal == Places' /\ Owners' /\ Handshake' /\ Served'
<1>. SUFFICES Goal
  BY DEF Control
<1>0. SendTypeOK /\ Places /\ Owners /\ Handshake /\ Served
  BY DEF Control
<1>. USE SendAssumption DEF Step, SendTypeOK, Places, Owners, Handshake, Served, Inside,
         Threads, Mutex, connection, manager
<1>1. ASSUME NEW t \in Sender, SendMessage(t) PROVE Goal
  BY <1>0, <1>1 DEF SendMessage
<1>2. ASSUME NEW t \in Sender, Queue(t) PROVE Goal
  BY <1>0, <1>2 DEF Queue
<1>3. ASSUME NEW t \in Sender, Ask(t) PROVE Goal
  <2>1. CASE out_enabled /\ Step(t, "ask", "sent", {"m"}, {"m"})
    BY <1>0, <1>3, <2>1 DEF Ask
  <2>2. CASE ~out_enabled /\ Step(t, "ask", "enable", {"m"}, {"m"})
    BY <1>0, <1>3, <2>2 DEF Ask
  <2>. QED BY <1>3, <2>1, <2>2 DEF Ask
<1>4. ASSUME NEW t \in Sender, EnableLock(t) PROVE Goal
  BY <1>0, <1>4 DEF EnableLock
<1>5. ASSUME NEW t \in Sender, EnableFlag(t) PROVE Goal
  BY <1>0, <1>5 DEF EnableFlag
<1>6. ASSUME NEW t \in Sender, EnablePoll(t) PROVE Goal
  BY <1>0, <1>6 DEF EnablePoll
<1>7. ASSUME NEW t \in Sender, Sent(t) PROVE Goal
  BY <1>0, <1>7 DEF Sent
<1>8. CASE StartLock
  BY <1>0, <1>8 DEF StartLock
<1>9. CASE Register
  BY <1>0, <1>9 DEF Register
<1>10. CASE CheckQuit
  BY <1>0, <1>10 DEF CheckQuit
<1>11. CASE EventWake
  BY <1>0, <1>11 DEF EventWake
<1>12. CASE DataIn
  BY <1>0, <1>12 DEF DataIn
<1>13. CASE OutLock
  BY <1>0, <1>13 DEF OutLock
<1>14. ASSUME NEW n \in 0..Size, Write(n) PROVE Goal
  <2>1. send_queue' # <<>> => send_queue # <<>>
    BY <1>0, <1>14 DEF Write
  <2>2. CASE send_queue' = <<>> /\ Step(Loop, "write", "disable", {"m"}, {"m"})
    BY <1>0, <1>14, <2>2 DEF Write
  <2>3. CASE send_queue' # <<>> /\ Step(Loop, "write", "check", {"m"}, {"m", "m_send"})
    BY <1>0, <1>14, <2>1, <2>3 DEF Write
  <2>. QED BY <1>14, <2>2, <2>3 DEF Write
<1>15. CASE DisableLock
  BY <1>0, <1>15 DEF DisableLock
<1>16. CASE DisableFlag
  BY <1>0, <1>16 DEF DisableFlag
<1>17. CASE DestroyLock
  BY <1>0, <1>17 DEF DestroyLock
<1>18. CASE Unregister
  BY <1>0, <1>18 DEF Unregister
<1>19. ASSUME NEW e \in {{"IN"}, {"OUT"}, {"IN", "OUT"}}, EventReady(e) PROVE Goal
  <2>1. CASE "IN" \in e
    BY <1>0, <1>19, <2>1 DEF EventReady
  <2>2. CASE "IN" \notin e
    BY <1>0, <1>19, <2>2 DEF EventReady
  <2>. QED BY <2>1, <2>2
<1>20. CASE Fails
  BY <1>0, <1>20 DEF Fails
<1>e. CASE EpollFails
  BY <1>0, <1>e DEF EpollFails
<1>21. CASE CloseLock
  BY <1>0, <1>21 DEF CloseLock
<1>22. CASE RequestQuit
  BY <1>0, <1>22 DEF RequestQuit
<1>23. CASE Join
  BY <1>0, <1>23 DEF Join
<1>24. CASE UNCHANGED vars
  BY <1>0, <1>24 DEF vars
<1>. HIDE DEF Goal
<1>25. ASSUME NEW t \in Sender, SenderStep(t) PROVE Goal
  BY <1>1, <1>2, <1>3, <1>4, <1>5, <1>6, <1>7, <1>25, Zenon DEF SenderStep
<1>26. CASE LoopRuns
  BY <1>8, <1>9, <1>10, <1>11, <1>12, <1>13, <1>14, <1>15,
     <1>16, <1>17, <1>18, <1>26, Zenon DEF LoopRuns
<1>27. CASE PeerActs
  BY <1>19, <1>20, <1>27, <1>e, Zenon DEF PeerActs
<1>28. CASE CloserStep
  BY <1>21, <1>22, <1>23, <1>28, Zenon DEF CloserStep
<1>. QED BY <1>24, <1>25, <1>26, <1>27, <1>28, Zenon DEF Next

-----------------------------------------------------------------------------
(* Types.                                                                  *)

LEMMA TypeNext ==
  ASSUME SendTypeOK, Control, [Next]_vars
  PROVE  SendTypeOK'
<1>. DEFINE Goal == SendTypeOK'
<1>. SUFFICES Goal
  OBVIOUS
<1>0. SendTypeOK /\ Control
  OBVIOUS
<1>. USE SendAssumption DEF Step, SendTypeOK, Location, Threads, Mutex, connection, manager
<1>1. ASSUME NEW t \in Sender, SendMessage(t) PROVE Goal
  BY <1>1 DEF SendMessage
<1>2. ASSUME NEW t \in Sender, Queue(t) PROVE Goal
  BY <1>2 DEF Queue
<1>3. ASSUME NEW t \in Sender, Ask(t) PROVE Goal
  <2>1. CASE out_enabled /\ Step(t, "ask", "sent", {"m"}, {"m"})
    BY <1>3, <2>1 DEF Ask
  <2>2. CASE ~out_enabled /\ Step(t, "ask", "enable", {"m"}, {"m"})
    BY <1>3, <2>2 DEF Ask
  <2>. QED BY <1>3, <2>1, <2>2 DEF Ask
<1>4. ASSUME NEW t \in Sender, EnableLock(t) PROVE Goal
  BY <1>4 DEF EnableLock
<1>5. ASSUME NEW t \in Sender, EnableFlag(t) PROVE Goal
  BY <1>5 DEF EnableFlag
<1>6. ASSUME NEW t \in Sender, EnablePoll(t) PROVE Goal
  BY <1>6 DEF EnablePoll
<1>7. ASSUME NEW t \in Sender, Sent(t) PROVE Goal
  BY <1>7 DEF Sent
<1>8. CASE StartLock
  BY <1>8 DEF StartLock
<1>9. CASE Register
  BY <1>9 DEF Register
<1>10. CASE CheckQuit
  BY <1>10 DEF CheckQuit
<1>11. CASE EventWake
  BY <1>11 DEF EventWake
<1>12. CASE DataIn
  BY <1>12 DEF DataIn
<1>13. CASE OutLock
  BY <1>13 DEF OutLock
<1>14. ASSUME NEW n \in 0..Size, Write(n) PROVE Goal
  <2>1. send_queue # <<>> /\ Head(send_queue) \in Sender
    BY <1>0, <1>14 DEF Write, Control, Served
  <2>2. [i \in 1..n |-> Head(send_queue)] \in Seq(Sender)
    BY <2>1
  <2>3. wire' \in Seq(Sender)
    BY <1>0, <1>14, <2>2 DEF Write
  <2>4. send_queue' \in Seq(Sender) /\ left' \in 0..Size
    BY <1>14, <2>1 DEF Write
  <2>. QED BY <1>14, <2>3, <2>4 DEF Write
<1>15. CASE DisableLock
  BY <1>15 DEF DisableLock
<1>16. CASE DisableFlag
  BY <1>16, Zenon DEF DisableFlag
<1>17. CASE DestroyLock
  BY <1>17 DEF DestroyLock
<1>18. CASE Unregister
  BY <1>18, Zenon DEF Unregister
<1>19. ASSUME NEW e \in {{"IN"}, {"OUT"}, {"IN", "OUT"}}, EventReady(e) PROVE Goal
  BY <1>19 DEF EventReady
<1>20. CASE Fails
  BY <1>20 DEF Fails
<1>e. CASE EpollFails
  BY <1>e DEF EpollFails
<1>21. CASE CloseLock
  BY <1>21 DEF CloseLock
<1>22. CASE RequestQuit
  BY <1>0, <1>22 DEF RequestQuit, Control, Places
<1>23. CASE Join
  BY <1>23 DEF Join
<1>24. CASE UNCHANGED vars
  BY <1>24 DEF vars
<1>. HIDE DEF Goal
<1>25. ASSUME NEW t \in Sender, SenderStep(t) PROVE Goal
  BY <1>1, <1>2, <1>3, <1>4, <1>5, <1>6, <1>7, <1>25, Zenon DEF SenderStep
<1>26. CASE LoopRuns
  BY <1>8, <1>9, <1>10, <1>11, <1>12, <1>13, <1>14, <1>15,
     <1>16, <1>17, <1>18, <1>26, Zenon DEF LoopRuns
<1>27. CASE PeerActs
  BY <1>19, <1>20, <1>27, <1>e, Zenon DEF PeerActs
<1>28. CASE CloserStep
  BY <1>21, <1>22, <1>23, <1>28, Zenon DEF CloserStep
<1>. QED BY <1>24, <1>25, <1>26, <1>27, <1>28, Zenon DEF Next

-----------------------------------------------------------------------------
(* The bytes on the wire.                                                  *)

\* The number of the message that a byte belongs to.
LEMMA Message ==
  ASSUME NEW S \in Nat \ {0}, NEW q \in Nat, NEW x \in Nat, q * S <= x, x < q * S + S
  PROVE  x \div S = q
OBVIOUS

LEMMA MessageBound ==
  ASSUME NEW S \in Nat \ {0}, NEW N \in Nat, NEW x \in Nat, x < N * S
  PROVE  x \div S \in Nat /\ x \div S < N
<1>. DEFINE q == x \div S
<1>1. q \in Nat /\ q * S <= x
  OBVIOUS
<1>. HIDE DEF q
<1>2. q >= N => q * S >= N * S
  BY <1>1
<1>3. q * S \in Nat /\ N * S \in Nat
  BY <1>1
<1>4. q < N
  BY <1>1, <1>2, <1>3
<1>. QED BY <1>1, <1>4 DEF q

\* The wire is not longer than what was sent.
LEMMA WireBound ==
  ASSUME SendTypeOK, Ordered
  PROVE  Len(wire) <= Len(sent) * Size
<1>. DEFINE D == Len(sent) - Len(send_queue)
<1>1. Size \in Nat \ {0} /\ left \in 0..Size /\ D \in Nat /\ Len(sent) \in Nat /\ Len(send_queue) \in Nat
  BY SendAssumption DEF SendTypeOK, Ordered
<1>2. Len(wire) = D * Size + Begun
  BY DEF Ordered
<1>3. CASE send_queue = <<>>
  BY <1>1, <1>2, <1>3 DEF Begun
<1>4. CASE send_queue # <<>>
  <2>1. Begun \in 0..Size
    BY <1>1, <1>4 DEF Begun
  <2>2. Len(send_queue) >= 1
    BY <1>4 DEF SendTypeOK
  <2>3. D + 1 <= Len(sent)
    BY <1>1, <2>2
  <2>. HIDE DEF D
  <2>4. (D + 1) * Size <= Len(sent) * Size
    BY <1>1, <2>3
  <2>5. (D + 1) * Size = D * Size + Size /\ D * Size \in Nat /\ Len(sent) * Size \in Nat
    BY <1>1
  <2>. QED BY <1>1, <1>2, <2>1, <2>4, <2>5
<1>. QED BY <1>3, <1>4

\* Connection::send appends to the queue and to what was sent.
LEMMA QueueOrdered ==
  ASSUME SendTypeOK, Ordered, NEW t \in Sender, Queue(t)
  PROVE  Ordered'
<1>1. /\ Size \in Nat \ {0} /\ left \in 0..Size /\ Len(sent) \in Nat /\ Len(send_queue) \in Nat
      /\ send_queue \in Seq(Sender) /\ sent \in Seq(Sender) /\ wire \in Seq(Sender)
  BY SendAssumption DEF SendTypeOK
<1>2. /\ send_queue' = Append(send_queue, t) /\ sent' = Append(sent, t) /\ wire' = wire
      /\ left' = IF send_queue = <<>> THEN Size ELSE left
  BY DEF Queue
<1>3. /\ Len(send_queue') = Len(send_queue) + 1 /\ Len(sent') = Len(sent) + 1
      /\ send_queue' # <<>>
  BY <1>1, <1>2
<1>4. Len(send_queue') <= Len(sent')
  BY <1>1, <1>3 DEF Ordered
<1>5. \A i \in 1..Len(send_queue') :
        send_queue'[i] = sent'[Len(sent') - Len(send_queue') + i]
  <2>. SUFFICES ASSUME NEW i \in 1..Len(send_queue')
                PROVE  send_queue'[i] = sent'[Len(sent') - Len(send_queue') + i]
    OBVIOUS
  <2>1. Len(sent') - Len(send_queue') = Len(sent) - Len(send_queue)
    BY <1>1, <1>3
  <2>2. CASE i = Len(send_queue) + 1
    BY <1>1, <1>2, <2>1, <2>2
  <2>3. CASE i \in 1..Len(send_queue)
    BY <1>1, <1>2, <2>1, <2>3 DEF Ordered
  <2>. QED BY <1>1, <1>3, <2>2, <2>3
<1>6. left' >= 1
  BY <1>1, <1>2 DEF Ordered
<1>7. Len(wire') = (Len(sent') - Len(send_queue')) * Size + Begun'
  <2>1. Len(sent') - Len(send_queue') = Len(sent) - Len(send_queue)
    BY <1>1, <1>3
  <2>2. Begun' = Begun
    BY <1>1, <1>2, <1>3 DEF Begun
  <2>. QED BY <1>2, <2>1, <2>2 DEF Ordered
<1>8. \A i \in 1..Len(wire') : wire'[i] = sent'[((i - 1) \div Size) + 1]
  <2>. SUFFICES ASSUME NEW i \in 1..Len(wire)
                PROVE  wire[i] = sent'[((i - 1) \div Size) + 1]
    BY <1>2, Zenon
  <2>. DEFINE k == (i - 1) \div Size
  <2>1. Len(wire) \in Nat /\ Len(sent) * Size \in Nat /\ i - 1 \in Nat
    BY <1>1
  <2>2. i - 1 < Len(sent) * Size
    BY <2>1, WireBound
  <2>3. k \in Nat /\ k < Len(sent)
    BY <1>1, <2>1, <2>2, MessageBound, Zenon
  <2>4. wire[i] = sent[k + 1]
    BY DEF Ordered
  <2>. HIDE DEF k
  <2>5. sent'[k + 1] = sent[k + 1]
    BY <1>1, <1>2, <2>3
  <2>. QED BY <2>4, <2>5 DEF k
<1>. QED BY <1>3, <1>4, <1>5, <1>6, <1>7, <1>8 DEF Ordered

\* Connection::data_out writes a part of the head of the queue, or the rest of it.
LEMMA WriteOrdered ==
  ASSUME SendTypeOK, Control, Ordered, NEW n \in 0..Size, Write(n)
  PROVE  Ordered'
<1>. DEFINE D == Len(sent) - Len(send_queue)
            f == [i \in 1..n |-> Head(send_queue)]
<1>1. /\ Size \in Nat \ {0} /\ left \in 0..Size /\ n \in Nat /\ n <= left
      /\ send_queue \in Seq(Sender) /\ sent \in Seq(Sender) /\ wire \in Seq(Sender)
  BY SendAssumption DEF SendTypeOK, Write
<1>2. send_queue # <<>>
  BY DEF Control, Served, Write
<1>3. /\ Len(send_queue) \in Nat /\ Len(send_queue) >= 1 /\ Len(sent) \in Nat
      /\ Len(send_queue) <= Len(sent) /\ D \in Nat /\ D < Len(sent) /\ left >= 1
  BY <1>1, <1>2 DEF Ordered
<1>4. Head(send_queue) \in Sender /\ Head(send_queue) = sent[D + 1]
  <2>1. Head(send_queue) = send_queue[1] /\ send_queue[1] \in Sender
    BY <1>1, <1>2
  <2>2. 1 \in 1..Len(send_queue)
    BY <1>3
  <2>. QED BY <2>1, <2>2 DEF Ordered
<1>5. sent' = sent
  BY DEF Write
<1>6. /\ f \in Seq(Sender) /\ Len(f) = n /\ wire' = wire \o f
      /\ \A i \in 1..n : f[i] = Head(send_queue)
  BY <1>1, <1>4 DEF Write
<1>. HIDE DEF f
<1>7. Len(wire) = D * Size + (Size - left) /\ D * Size \in Nat
  BY <1>1, <1>2, <1>3 DEF Ordered, Begun
<1>8. Len(wire') = D * Size + (Size - left) + n
  <2>1. wire \in Seq(Sender) /\ f \in Seq(Sender)
    BY <1>1, <1>6
  <2>2. Len(wire \o f) = Len(wire) + Len(f)
    BY <2>1
  <2>3. Len(wire') = Len(wire) + n
    BY <1>6, <2>2
  <2>. QED BY <1>7, <2>3
<1>9. \A i \in 1..Len(wire') : wire'[i] = sent'[((i - 1) \div Size) + 1]
  <2>. SUFFICES ASSUME NEW i \in 1..Len(wire')
                PROVE  wire'[i] = sent[((i - 1) \div Size) + 1]
    BY <1>5
  <2>1. CASE i \in 1..Len(wire)
    BY <1>1, <1>6, <2>1, SMTT(20) DEF Ordered
  <2>2. CASE i > Len(wire)
    <3>1. wire'[i] = Head(send_queue)
      <4>1. i - Len(wire) \in 1..n /\ i \in Nat /\ Len(wire) \in Nat
        BY <1>1, <1>7, <1>8, <2>2, SMTT(20)
      <4>2. wire'[i] = f[i - Len(wire)]
        BY <1>1, <1>6, <2>2, <4>1
      <4>. QED BY <1>6, <4>1, <4>2
    <3>2. i - 1 \in Nat /\ D * Size <= i - 1 /\ i - 1 < D * Size + Size
      BY <1>1, <1>7, <1>8, <2>2, SMTT(20)
    <3>. HIDE DEF D
    <3>3. (i - 1) \div Size = D
      BY <1>1, <1>3, <3>2, Message, Zenon
    <3>. QED BY <1>4, <3>1, <3>3
  <2>. QED BY <1>1, <1>7, <1>8, <2>1, <2>2
<1>10. CASE n < left
  <2>1. send_queue' = send_queue /\ left' = left - n
    BY <1>1, <1>10 DEF Write
  <2>2. left' >= 1 /\ Begun' = (Size - left) + n
    BY <1>1, <1>2, <1>10, <2>1 DEF Begun
  <2>3. Len(wire') = (Len(sent') - Len(send_queue')) * Size + Begun'
    BY <1>1, <1>5, <1>7, <1>8, <2>1, <2>2
  <2>. QED BY <1>2, <1>5, <1>9, <2>1, <2>2, <2>3 DEF Ordered
<1>11. CASE n = left
  <2>1. /\ send_queue' = Tail(send_queue)
        /\ left' = IF send_queue' = <<>> THEN 0 ELSE Size
    BY <1>1, <1>11 DEF Write
  <2>2. /\ send_queue' \in Seq(Sender) /\ Len(send_queue') = Len(send_queue) - 1
        /\ \A i \in 1..Len(send_queue') : send_queue'[i] = send_queue[i + 1]
    BY <1>1, <1>2, <2>1
  <2>3. Len(sent') - Len(send_queue') = D + 1
    BY <1>3, <1>5, <2>2
  <2>4. Begun' = 0
    BY <1>1, <2>1 DEF Begun
  <2>5. Len(wire') = (Len(sent') - Len(send_queue')) * Size + Begun'
    <3>1. Len(wire') = D * Size + Size
      BY <1>1, <1>7, <1>8, <1>11
    <3>. HIDE DEF D
    <3>2. (D + 1) * Size = D * Size + Size
      BY <1>1, <1>3
    <3>. QED BY <1>1, <1>7, <2>3, <2>4, <3>1, <3>2
  <2>6. \A i \in 1..Len(send_queue') :
          send_queue'[i] = sent'[Len(sent') - Len(send_queue') + i]
    <3>. SUFFICES ASSUME NEW i \in 1..Len(send_queue')
                  PROVE  send_queue'[i] = sent[D + 1 + i]
      BY <1>5, <2>3
    <3>1. i + 1 \in 1..Len(send_queue) /\ send_queue'[i] = send_queue[i + 1]
      BY <1>3, <2>2
    <3>2. send_queue[i + 1] = sent[D + (i + 1)]
      BY <3>1 DEF Ordered
    <3>3. D + (i + 1) = D + 1 + i
      BY <1>3, <3>1
    <3>. QED BY <3>1, <3>2, <3>3
  <2>7. /\ Len(send_queue') <= Len(sent')
        /\ IF send_queue' = <<>> THEN left' = 0 ELSE left' >= 1
    BY <1>1, <1>3, <1>5, <2>1, <2>2
  <2>. QED BY <1>9, <2>5, <2>6, <2>7 DEF Ordered
<1>. QED BY <1>1, <1>10, <1>11

LEMMA OrderedNext ==
  ASSUME SendTypeOK, Control, Ordered, [Next]_vars
  PROVE  Ordered'
<1>0. SendTypeOK /\ Control /\ Ordered
  OBVIOUS
<1>1. ASSUME UNCHANGED connection PROVE Ordered'
  BY <1>0, <1>1 DEF connection, Ordered, Begun
<1>2. ASSUME NEW t \in Sender, SenderStep(t) PROVE Ordered'
  <2>1. CASE Queue(t)
    BY <1>0, <2>1, QueueOrdered
  <2>2. CASE ~Queue(t)
    BY <1>1, <1>2, <2>2
       DEF SenderStep, SendMessage, Ask, EnableLock, EnableFlag, EnablePoll, Sent
  <2>. QED BY <2>1, <2>2
<1>3. CASE LoopRuns
  <2>1. ASSUME NEW n \in 0..Size, Write(n) PROVE Ordered'
    BY <1>0, <2>1, WriteOrdered
  <2>2. CASE ~\E n \in 0..Size : Write(n)
    BY <1>1, <1>3, <2>2
       DEF LoopRuns, StartLock, Register, CheckQuit, EventWake, DataIn, OutLock,
           DisableLock, DisableFlag, DestroyLock, Unregister
  <2>. QED BY <2>1, <2>2
<1>4. CASE PeerActs
  BY <1>1, <1>4 DEF PeerActs, EventReady, Fails, EpollFails
<1>5. CASE CloserStep
  BY <1>1, <1>5 DEF CloserStep, CloseLock, RequestQuit, Join
<1>6. CASE UNCHANGED vars
  BY <1>1, <1>6 DEF vars, connection
<1>. QED BY <1>2, <1>3, <1>4, <1>5, <1>6 DEF Next

-----------------------------------------------------------------------------
(* Theorems.                                                               *)

\* The invariant of the two sides of the connection: where the threads are, the
\* mutexes they have, the flag, the registration, the queue and the wire agree.
THEOREM SendInvariant == Spec => []SendInv
<1>1. Init => SendInv
  <2>. SUFFICES ASSUME Init PROVE SendInv
    OBVIOUS
  <2>1. SendTypeOK
    <3>1. pc \in [Threads -> Location]
      BY DEF Init, Threads, Location
    <3>2. mutex \in [Mutex -> Threads \cup {Free}]
      BY DEF Init
    <3>3. /\ send_queue \in Seq(Sender) /\ sent \in Seq(Sender) /\ wire \in Seq(Sender)
          /\ left \in 0..Size /\ pefd \in 0..1
      BY SendAssumption DEF Init
    <3>4. /\ {out_enabled, epfd, polled, armed, pefd_polled, quit_requested} \subseteq BOOLEAN
          /\ events \subseteq {"IN", "OUT"}
      BY Zenon DEF Init
    <3>. QED BY <3>1, <3>2, <3>3, <3>4 DEF SendTypeOK
  <2>2. Places /\ Owners /\ Handshake /\ Served
    BY SendAssumption DEF Init, Places, Owners, Handshake, Served, Threads, Inside, Mutex
  <2>3. Ordered
    BY SendAssumption DEF Init, Ordered, Begun
  <2>. QED BY <2>1, <2>2, <2>3 DEF SendInv, Control
<1>2. SendInv /\ [Next]_vars => SendInv'
  BY ControlNext, TypeNext, OrderedNext DEF SendInv
<1>. QED BY <1>1, <1>2, PTL DEF Spec

\* The state of the send path keeps its types: among them, less than a message
\* is left of the head of the queue, and the eventfd counts at most one request.
THEOREM SendTypes == Spec => []SendTypeOK
<1>1. SendInv => SendTypeOK
  BY DEF SendInv
<1>. QED BY <1>1, SendInvariant, PTL

\* The peer sees whole messages in the order in which Connection::send queued
\* them, for any number of senders and however many bytes each write takes.
THEOREM Wire == Spec => []WireInOrder
<1>1. SendInv => WireInOrder
  <2>. SUFFICES ASSUME SendInv PROVE WireInOrder
    OBVIOUS
  <2>1. DOMAIN wire = 1..Len(wire)
    BY DEF SendInv, SendTypeOK
  <2>2. Len(wire) <= Len(sent) * Size
    BY WireBound DEF SendInv
  <2>. QED BY <2>1, <2>2 DEF SendInv, Ordered, WireInOrder
<1>. QED BY <1>1, SendInvariant, PTL

\* No message is forgotten in the queue: when the main loop is about to wait in
\* epoll_wait and no sender is on its way, the fd is polled for output.
THEOREM Polled == Spec => []NothingStuck
<1>1. SendInv => NothingStuck
  BY DEF SendInv, Control, Handshake, Served, NothingStuck, AllDone
<1>. QED BY <1>1, SendInvariant, PTL

\* fd_disable_out under m and fd_enable_out under m_epfd never run at the same
\* time, so that the opposite orders of the two mutexes cannot block the threads.
THEOREM LockOrder == Spec => []NoInversion
<1>1. SendInv => NoInversion
  BY SendAssumption, Zenon DEF SendInv, Control, Handshake, NoInversion
<1>. QED BY <1>1, SendInvariant, PTL

=============================================================================
