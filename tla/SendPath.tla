------------------------------ MODULE SendPath ------------------------------
(***************************************************************************)
(* How a client sends: threads that call Access_Concentrator::send_message *)
(* _tcp, the thread that runs Communications_Manager::main_loop, and at    *)
(* the end the thread that destroys the Access_Concentrator.               *)
(*                                                                         *)
(* A sender appends its message to the connection's queue and, if the fd   *)
(* is not polled for output, asks the manager to do so.  The main loop     *)
(* writes what the socket takes and stops polling for output when the      *)
(* queue is empty.  The flag out_enabled, the epoll registration and the   *)
(* queue are protected by different mutexes, which the two sides take in   *)
(* different orders: data_out takes m_send, m and m_epfd, fd_enable_out    *)
(* takes m_epfd and m.  A step of the model ends where a thread takes      *)
(* another mutex.                                                          *)
(***************************************************************************)
EXTENDS Naturals, Sequences

CONSTANTS
  Sender,    \* the threads that may send, a message each
  Size,      \* bound: the bytes of a message
  Loop,      \* the thread of the main loop
  Closer,    \* the thread of ~Access_Concentrator
  Free,      \* a mutex that nobody has
  Faults     \* what may fail: the "connection", or calls of the "epoll" family

ASSUME SendAssumption ==
  /\ Size \in Nat \ {0}
  /\ Faults \subseteq {"connection", "epoll"}
  /\ Loop # Closer
  /\ Sender \cap {Loop, Closer} = {}
  /\ Free \notin Sender \cup {Loop, Closer}

Threads == Sender \cup {Loop, Closer}

Mutex == {"m_tcp_connection", "m_send", "m", "m_epfd", "m_flags"}

VARIABLES
  pc,              \* what a thread does next
  mutex,           \* who has a mutex; m and m_epfd are recursive
  send_queue,      \* messages, the head with the bytes left of it
  left,            \* bytes of the head of the queue that are to be written
  out_enabled,     \* polled_fd::out_enabled
  epfd,            \* the epoll instance exists
  polled,          \* the fd is registered with it
  armed,           \* it is registered for EPOLLOUT
  events,          \* what epoll_wait returned
  pefd,            \* the value of the eventfd
  pefd_polled,     \* the eventfd is registered with the epoll instance
  quit_requested,
  sent,            \* the messages in the order in which they were queued
  wire             \* the bytes written, each as the message it is part of

vars == <<pc, mutex, send_queue, left, out_enabled, epfd, polled, armed, events,
          pefd, pefd_polled, quit_requested, sent, wire>>

connection == <<send_queue, left, sent, wire>>
manager == <<epfd, polled, events, pefd, pefd_polled, quit_requested>>

\* Thread t at a takes the mutexes in X, which are free or its own, and goes on
\* at b; it gives back those in Y.
Step(t, a, b, X, Y) ==
  /\ pc[t] = a
  /\ \A x \in X : mutex[x] \in {Free, t}
  /\ pc' = [pc EXCEPT ![t] = b]
  /\ mutex' = [x \in Mutex |-> IF x \in Y THEN Free ELSE
                               IF x \in X THEN t ELSE mutex[x]]

-----------------------------------------------------------------------------
(* A sender.                                                               *)

\* Mutant: senders do not exclude each other.
SendMessage_Unlocked(t) ==
  /\ Step(t, "send", "queue", {}, {})
  /\ UNCHANGED <<connection, out_enabled, armed, manager>>

\* Access_Concentrator::send_message_tcp
SendMessage(t) ==
  /\ Step(t, "send", "queue", {"m_tcp_connection"}, {})
  /\ UNCHANGED <<connection, out_enabled, armed, manager>>

\* Connection::send: the message is queued ...
Queue(t) ==
  /\ Step(t, "queue", "ask", {"m_send"}, {"m_send"})
  /\ send_queue' = Append(send_queue, t)
  /\ left' = IF send_queue = <<>> THEN Size ELSE left
  /\ sent' = Append(sent, t)
  /\ UNCHANGED <<wire, out_enabled, armed, manager>>

\* ... and the manager is asked if output is not enabled.
Ask(t) ==
  /\ \/ out_enabled /\ Step(t, "ask", "sent", {"m"}, {"m"})
     \/ ~out_enabled /\ Step(t, "ask", "enable", {"m"}, {"m"})
  /\ UNCHANGED <<connection, out_enabled, armed, manager>>

\* Communications_Manager::fd_enable_out
EnableLock(t) ==
  /\ Step(t, "enable", "enable_flag", {"m_epfd"}, {})
  /\ UNCHANGED <<connection, out_enabled, armed, manager>>

EnableFlag(t) ==
  /\ Step(t, "enable_flag", "enable_poll", {"m"}, {"m"})
  /\ out_enabled' = TRUE
  /\ UNCHANGED <<connection, armed, manager>>

\* get_fd needs m again.  The modification fails if the fd is not registered.
EnablePoll(t) ==
  /\ Step(t, "enable_poll", "sent", {"m"}, {"m", "m_epfd"})
  /\ armed' = (armed \/ (epfd /\ polled))
  /\ UNCHANGED <<connection, out_enabled, manager>>

\* Mutant: the mutex is kept.
Sent_Locked(t) ==
  /\ Step(t, "sent", "done", {}, {})
  /\ UNCHANGED <<connection, out_enabled, armed, manager>>

Sent(t) ==
  /\ Step(t, "sent", "done", {}, {"m_tcp_connection"})
  /\ UNCHANGED <<connection, out_enabled, armed, manager>>

SenderStep(t) ==
  \/ SendMessage(t)
  \/ Queue(t)
  \/ Ask(t)
  \/ EnableLock(t)
  \/ EnableFlag(t)
  \/ EnablePoll(t)
  \/ Sent(t)

-----------------------------------------------------------------------------
(* The main loop.                                                          *)

\* main_loop makes the epoll instance ...
StartLock ==
  /\ Step(Loop, "start", "register", {"m_epfd"}, {})
  /\ UNCHANGED <<connection, out_enabled, armed, manager>>

\* ... and registers the fd, for output if senders have enabled that before, and
\* the eventfd.  Whether add_polled_fd could register the eventfd is not looked at.
Register ==
  /\ Step(Loop, "register", "check", {"m"}, {"m", "m_epfd"})
  /\ epfd' = TRUE
  /\ armed' = out_enabled
  /\ pefd_polled' \in {TRUE, "epoll" \notin Faults}
  /\ UNCHANGED <<connection, out_enabled, polled, events, pefd, quit_requested>>

\* main_loop returns: epoll_create fails, or epoll_ctl for the fd, which closes
\* the epoll instance again, or epoll_wait.
EpollFails ==
  /\ "epoll" \in Faults
  /\ \/ Step(Loop, "start", "ended", {"m_epfd"}, {"m_epfd"})
     \/ Step(Loop, "register", "ended", {"m"}, {"m", "m_epfd"})
     \/ Step(Loop, "wait", "ended", {}, {})
  /\ UNCHANGED <<connection, out_enabled, armed, manager>>

CheckQuit ==
  /\ \/ quit_requested /\ Step(Loop, "check", "ended", {"m_flags"}, {"m_flags"})
     \/ ~quit_requested /\ Step(Loop, "check", "wait", {"m_flags"}, {"m_flags"})
  /\ UNCHANGED <<connection, out_enabled, armed, manager>>

\* epoll_wait returns one fd that is ready: the eventfd, whose value is read,
\* or the connection with something to read, room to write, or both.
EventWake ==
  /\ Step(Loop, "wait", "check", {}, {})
  /\ pefd_polled
  /\ pefd > 0
  /\ pefd' = 0
  /\ UNCHANGED <<connection, out_enabled, armed, epfd, polled, events, pefd_polled,
                 quit_requested>>

EventReady(e) ==
  /\ Step(Loop, "wait", IF "IN" \in e THEN "input" ELSE "output", {}, {})
  /\ polled
  /\ "OUT" \in e => armed
  /\ events' = e
  /\ UNCHANGED <<connection, out_enabled, armed, epfd, polled, pefd, pefd_polled,
                 quit_requested>>

\* Connection::data_in reads under m; what it does with the data needs none of
\* the mutexes here.
DataIn ==
  /\ \/ "OUT" \in events /\ Step(Loop, "input", "output", {"m"}, {"m"})
     \/ "OUT" \notin events /\ Step(Loop, "input", "check", {"m"}, {"m"})
  /\ UNCHANGED <<connection, out_enabled, armed, manager>>

\* Connection::data_out
OutLock ==
  /\ \/ send_queue # <<>> /\ Step(Loop, "output", "write", {"m_send"}, {})
     \/ send_queue = <<>> /\ Step(Loop, "output", "disable", {"m_send"}, {})
  /\ UNCHANGED <<connection, out_enabled, armed, manager>>

\* Mutant: a message leaves the queue when a part of it is written.
Write_PartIsAll(n) ==
  /\ pc[Loop] = "write"
  /\ n <= left
  /\ wire' = wire \o [i \in 1..n |-> Head(send_queue)]
  /\ send_queue' = IF n > 0 THEN Tail(send_queue) ELSE send_queue
  /\ left' = IF send_queue' = <<>> THEN 0 ELSE Size
  /\ \/ send_queue' = <<>> /\ Step(Loop, "write", "disable", {"m"}, {"m"})
     \/ send_queue' # <<>> /\ Step(Loop, "write", "check", {"m"}, {"m", "m_send"})
  /\ UNCHANGED <<sent, out_enabled, armed, manager>>

\* Mutant: the position in the message is not regarded.
Write_FromStart(n) ==
  /\ pc[Loop] = "write"
  /\ wire' = wire \o [i \in 1..n |-> Head(send_queue)]
  /\ send_queue' = IF n = left THEN Tail(send_queue) ELSE send_queue
  /\ left' = IF n # left THEN left - n ELSE
             IF send_queue' = <<>> THEN 0 ELSE Size
  /\ \/ send_queue' = <<>> /\ Step(Loop, "write", "disable", {"m"}, {"m"})
     \/ send_queue' # <<>> /\ Step(Loop, "write", "check", {"m"}, {"m", "m_send"})
  /\ UNCHANGED <<sent, out_enabled, armed, manager>>

\* write takes n bytes; -1 with EAGAIN is n = 0.  A message that is complete
\* leaves the queue.
Write(n) ==
  /\ pc[Loop] = "write"
  /\ n <= left
  /\ wire' = wire \o [i \in 1..n |-> Head(send_queue)]
  /\ send_queue' = IF n = left THEN Tail(send_queue) ELSE send_queue
  /\ left' = IF n < left THEN left - n ELSE
             IF send_queue' = <<>> THEN 0 ELSE Size
  /\ \/ send_queue' = <<>> /\ Step(Loop, "write", "disable", {"m"}, {"m"})
     \/ send_queue' # <<>> /\ Step(Loop, "write", "check", {"m"}, {"m", "m_send"})
  /\ UNCHANGED <<sent, out_enabled, armed, manager>>

\* Communications_Manager::fd_disable_out, called with m_send and m.
DisableLock ==
  /\ Step(Loop, "disable", "disable_flag", {"m"}, {})
  /\ UNCHANGED <<connection, out_enabled, armed, manager>>

\* Mutant: out_enabled is not reset.
DisableFlag_Kept ==
  /\ Step(Loop, "disable_flag", "check", {"m_epfd"}, {"m_send", "m", "m_epfd"})
  /\ armed' = FALSE
  /\ UNCHANGED <<connection, out_enabled, manager>>

DisableFlag ==
  /\ Step(Loop, "disable_flag", "check", {"m_epfd"}, {"m_send", "m", "m_epfd"})
  /\ out_enabled' = FALSE
  /\ armed' = FALSE
  /\ UNCHANGED <<connection, manager>>

\* The connection breaks: read or write fail, or epoll_wait says so.
Fails ==
  /\ "connection" \in Faults
  /\ \/ Step(Loop, "input", "destroy", {"m"}, {"m"})
     \/ Step(Loop, "write", "destroy", {"m"}, {"m", "m_send"})
     \/ polled /\ Step(Loop, "wait", "destroy", {}, {})
  /\ UNCHANGED <<connection, out_enabled, armed, manager>>

\* Communications_Manager::destroy_polled_fd
DestroyLock ==
  /\ Step(Loop, "destroy", "unregister", {"m_epfd"}, {})
  /\ UNCHANGED <<connection, out_enabled, armed, manager>>

Unregister ==
  /\ Step(Loop, "unregister", "check", {"m"}, {"m", "m_epfd"})
  /\ polled' = FALSE
  /\ armed' = FALSE
  /\ UNCHANGED <<connection, out_enabled, epfd, events, pefd, pefd_polled,
                 quit_requested>>

\* What the thread does by itself, and what happens to it.
LoopRuns ==
  \/ StartLock
  \/ Register
  \/ CheckQuit
  \/ EventWake
  \/ DataIn
  \/ OutLock
  \/ \E n \in 0..Size : Write(n)
  \/ DisableLock
  \/ DisableFlag
  \/ DestroyLock
  \/ Unregister

PeerActs ==
  \/ \E e \in {{"IN"}, {"OUT"}, {"IN", "OUT"}} : EventReady(e)
  \/ Fails
  \/ EpollFails

-----------------------------------------------------------------------------
(* ~Access_Concentrator.  All calls have returned then, so that their      *)
(* messages were sent.  A program that made none may close at once.        *)

AllDone == \A t \in Sender : pc[t] = "done"

CloseLock ==
  /\ AllDone
  /\ send_queue = <<>>
  /\ Step(Closer, "close", "quit", {"m_flags"}, {})
  /\ UNCHANGED <<connection, out_enabled, armed, manager>>

\* Mutant: the flag is set only if there is an eventfd to write to.
RequestQuit_OnlyRunning ==
  /\ Step(Closer, "quit", "join", {"m_epfd"}, {"m_epfd", "m_flags"})
  /\ pefd' = IF epfd THEN pefd + 1 ELSE pefd
  /\ quit_requested' = epfd
  /\ UNCHANGED <<connection, out_enabled, armed, epfd, polled, events, pefd_polled>>

\* Communications_Manager::request_quit.  The eventfd exists with the epoll
\* instance.
RequestQuit ==
  /\ Step(Closer, "quit", "join", {"m_epfd"}, {"m_epfd", "m_flags"})
  /\ pefd' = IF epfd THEN pefd + 1 ELSE pefd
  /\ quit_requested' = TRUE
  /\ UNCHANGED <<connection, out_enabled, armed, epfd, polled, events, pefd_polled>>

Join ==
  /\ pc[Loop] = "ended"
  /\ Step(Closer, "join", "closed", {}, {})
  /\ UNCHANGED <<connection, out_enabled, armed, manager>>

CloserStep == CloseLock \/ RequestQuit \/ Join

-----------------------------------------------------------------------------
\* Some of the threads call, the others have nothing to send.
Init ==
  /\ \E callers \in SUBSET Sender :
       pc = [t \in Threads |-> IF t = Loop THEN "start" ELSE
                               IF t = Closer THEN "close" ELSE
                               IF t \in callers THEN "send" ELSE "done"]
  /\ mutex = [x \in Mutex |-> Free]
  /\ send_queue = <<>>
  /\ left = 0
  /\ out_enabled = FALSE
  /\ epfd = FALSE
  /\ polled = TRUE
  /\ armed = FALSE
  /\ events = {}
  /\ pefd = 0
  /\ pefd_polled = FALSE
  /\ quit_requested = FALSE
  /\ sent = <<>>
  /\ wire = <<>>

Next ==
  \/ \E t \in Sender : SenderStep(t)
  \/ LoopRuns
  \/ PeerActs
  \/ CloserStep

Spec == Init /\ [][Next]_vars

\* Threads are scheduled and get a mutex that is free again and again; epoll
\* hands out every fd that stays ready; the socket has room and takes bytes
\* again and again as long as the peer reads.  Nothing is assumed about input.
FairSpec ==
  /\ Spec
  /\ \A t \in Sender : SF_vars(SenderStep(t))
  /\ SF_vars(LoopRuns)
  /\ SF_vars(EventReady({"OUT"}))
  /\ SF_vars(\E n \in 1..Size : Write(n))
  /\ SF_vars(EventWake)
  /\ SF_vars(CloserStep)

-----------------------------------------------------------------------------
(* Properties.                                                             *)

Location == {"send", "queue", "ask", "enable", "enable_flag", "enable_poll",
             "sent", "done", "start", "register", "check", "ended", "wait",
             "input", "output", "write", "disable", "disable_flag", "destroy",
             "unregister", "close", "quit", "join", "closed"}

\* Type invariant of the send path.
SendTypeOK ==
  /\ pc \in [Threads -> Location]
  /\ mutex \in [Mutex -> Threads \cup {Free}]
  /\ send_queue \in Seq(Sender)
  /\ left \in 0..Size
  /\ {out_enabled, epfd, polled, armed, pefd_polled, quit_requested} \subseteq BOOLEAN
  /\ events \subseteq {"IN", "OUT"}
  /\ pefd \in 0..1
  /\ sent \in Seq(Sender)
  /\ wire \in Seq(Sender)

\* The peer sees whole messages in the order in which they were queued,
\* although every write may take only a part of one.
WireInOrder ==
  /\ Len(wire) <= Len(sent) * Size
  /\ \A i \in DOMAIN wire : wire[i] = sent[((i - 1) \div Size) + 1]

\* No message is forgotten in the queue: when no thread is on its way to do
\* something about it, the fd is polled for output.
NothingStuck ==
  (AllDone /\ pc[Loop] = "wait" /\ polled /\ send_queue # <<>>) => armed

\* data_out asks for m_epfd while it has m, and fd_enable_out for m while it has
\* m_epfd.  The two threads never meet there: a sender enables output only when
\* it is off, the main loop disables it only when it is on, and m_tcp_connection
\* keeps a second sender from acting on what the first one saw.
NoInversion ==
  pc[Loop] = "disable_flag" =>
    \A t \in Sender : pc[t] \notin {"enable_flag", "enable_poll"}

\* Every message gets to the peer, unless the connection breaks or epoll fails:
\* whatever order the two sides take the mutexes in, they do not block each
\* other, and no wake-up is lost.
AllSent ==
  <>(\/ ~polled \/ pc[Loop] = "destroy"
     \/ pc[Loop] = "ended" /\ ~quit_requested
     \/ AllDone /\ Len(wire) = Len(sent) * Size)

\* Connection::send returns to every sender, also when the main loop destroys
\* the connection at the same time.
SendsReturn == \A t \in Sender : <>(pc[t] = "done")

\* ~Access_Concentrator returns: after request_quit the main loop ends, wherever
\* it was, before the eventfd exists, between its check of the flag and
\* epoll_wait, or in epoll_wait.  The exception is a loop whose eventfd could not
\* be registered: nothing wakes it.
LoopEnds ==
  pc[Closer] = "quit" ~> pc[Closer] = "closed" \/ (epfd /\ ~pefd_polled)

=============================================================================
