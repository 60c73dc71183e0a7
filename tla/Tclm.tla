-------------------------------- MODULE Tclm --------------------------------
(***************************************************************************)
(* Programs that use libtclm_client, and tclmd: the whole path of a call.  *)
(*                                                                         *)
(* A client is one tclmc object with its Access_Concentrator and its one   *)
(* TCP connection.  A thread of the program calls a method of tclmc,       *)
(* Process or Lock; the method makes a request object, enters it in a      *)
(* table of the Access_Concentrator, sends a message and waits.  tclmd     *)
(* (class daemon) hands the message to the backend, which is LockForest,   *)
(* and answers at once or, if the request is queued, from the handler of   *)
(* another message.  The client's Communications_Manager thread receives   *)
(* the answer, looks up the request by the parameters that the answer      *)
(* repeats, removes it from the table and wakes the caller.                *)
(*                                                                         *)
(* A Process object of the daemon is identified with its id.  Process is   *)
(* therefore the set of all ids, 0..MaxId.  The client library unregisters *)
(* a process when the last reference to it is gone, and calls hold a       *)
(* reference; but "tclm kill" unregisters any process at any time.         *)
(***************************************************************************)
EXTENDS LockForest, SequencesExt

CONSTANTS
  Clients,      \* the tclmc objects
  Thread,       \* the threads of all programs
  Manager,      \* those of them that are runs of "tclm kill", see CallKill
  Kills,        \* the processes that they are asked to kill
  ClientOf,     \* the tclmc object, or the connection of tclm, of a thread
  Habits,       \* what programs do, see MayAsk
  Faults,       \* "loss" of a connection, "oom" while a message is built
  MaxId,        \* bound: the largest process id, 2^32 - 1 in the code
  MaxNonce,     \* bound: the largest nonce, 2^32 - 1 in the code
  MaxCalls,     \* bound: calls of a thread other than release and unregister
  Nobody,       \* no thread owns a process, no connection is known
  NoAnswer,     \* a request that is not answered
  NoHandler     \* the daemon waits for a message

ASSUME TclmAssumption ==
  /\ Process = 0..MaxId
  /\ MaxNonce \in Nat
  /\ MaxCalls \in Nat
  /\ Manager \subseteq Thread
  /\ Kills \subseteq Process
  /\ ClientOf \in [Thread -> Clients]
  /\ Habits \subseteq {"share", "same", "missing", "several"}
  /\ Faults \subseteq {"loss", "oom"}

VARIABLES
  pc,            \* what a thread does: idle, sending, or waiting for the answer
                 \* to what it sent, or to what was "unsent"
  request,       \* the request object of a thread's current call
  answer,        \* its status_code (and id) once it is answered
  table,         \* the threads whose requests the Access_Concentrator knows
  next_nonce,    \* Access_Concentrator::register_process_next_nonce
  owner,         \* the thread that registered a process, while it is in use
  holds,         \* the locks that programs were told they have
  creations,     \* how often a create returned true, per path
  calls,         \* calls made by a thread
  connected,     \* the clients whose connection is alive
  to_server,     \* messages from a client to the daemon
  to_client,     \* messages from the daemon to a client
  next_id,       \* Process_map::next_id
  tcp_conn,      \* Process::tcp_conn
  lock_created,  \* requests with Lock_Request::lock_created set
  handling,      \* the handler that the daemon executes, or NoHandler
  abandoned      \* history: the threads whose requests were in a queue when their
                 \* process was unregistered

thread_vars == <<pc, request, answer, owner, holds, creations, calls>>
concentrator_vars == <<table, next_nonce>>
network_vars == <<connected, to_server, to_client>>
daemon_vars == <<next_id, tcp_conn, lock_created, handling, abandoned>>
tclm_vars == <<vars, thread_vars, concentrator_vars, network_vars, daemon_vars>>

Kind == {"register", "unregister", "create", "acquire", "release"}

\* A request object, and the message made from it.
ClientRequest == [kind : Kind, pid : Process, path : Path \cup {<<>>},
                  mode : Mode, acquire_X : BOOLEAN, nonce : 0..MaxNonce]

Status == {"SUCCESS", "TOO_MANY_PROCESSES", "QUEUED", "LOCK_EXISTS",
           "LOCK_NOT_HELD", "NO_SUCH_LOCK", "PARENT_NOT_HELD", "NO_SUCH_PROCESS"}

\* An answer repeats the parameters of its request.
Reply == [to : ClientRequest, status : Status, id : Process]

ToRegister(nonce) ==
  [kind |-> "register", pid |-> 0, path |-> <<>>, mode |-> "X",
   acquire_X |-> FALSE, nonce |-> nonce]

ToUnregister(p) == [ToRegister(0) EXCEPT !.kind = "unregister", !.pid = p]

ToCreate(p, path, acquire_X) ==
  [ToUnregister(p) EXCEPT !.kind = "create", !.path = path, !.acquire_X = acquire_X]

ToLock(kind, p, path, mode) ==
  [ToUnregister(p) EXCEPT !.kind = kind, !.path = path, !.mode = mode]

\* Mutant: acquire and release requests are found by process and path alone.
Key_ModeIgnored(r) == [r EXCEPT !.acquire_X = FALSE, !.mode = "X"]

\* What the tables of the Access_Concentrator are keyed by: a create is found
\* by its process and path alone.
Key(r) == [r EXCEPT !.acquire_X = FALSE]

ClientLock == [requester : Process, path : Path, mode : Mode]

TheLock(r) == [requester |-> r.pid, path |-> r.path, mode |-> r.mode]

-----------------------------------------------------------------------------
(* The calling thread: Lock_impl, Process_impl, tclmc_impl, the request    *)
(* classes and the issue and send methods of Access_Concentrator.          *)

\* Programs use their own processes, and those of the program's other threads
\* if they "share" them.
MayUse(t, p) ==
  /\ owner[p] # Nobody
  /\ ClientOf[owner[p]] = ClientOf[t]
  /\ owner[p] = t \/ "share" \in Habits

InUse(p) == {t \in Thread : pc[t] # "idle" /\ request[t].pid = p
                                           /\ request[t].kind # "register"}

\* A call that asks for a lock, not only for a node.
AsksForLock(r) == r.kind = "acquire" \/ r.acquire_X

\* What programs ask for: no lock that their process has or deals with in
\* another call, unless threads make the "same" call at the same time; one lock
\* at a time, or "several"; only locks that exist, or also "missing" ones.
MayAsk(t, r) ==
  /\ MayUse(t, r.pid)
  /\ "same" \in Habits \/ \A u \in InUse(r.pid) : TheLock(request[u]) # TheLock(r)
  /\ AsksForLock(r) =>
       /\ TheLock(r) \notin holds
       /\ "several" \in Habits \/ \A l \in holds : l.requester # r.pid
  /\ r.kind = "acquire" => "missing" \in Habits \/ r.path \in exists

\* issue_*_request: the request enters its table.  The maps of create, acquire
\* and release requests ignore a request whose key is there; the keys of the
\* vectors of register and unregister requests are unique, see their calls.
Issue(t, r) ==
  /\ pc' = [pc EXCEPT ![t] = "sending"]
  /\ request' = [request EXCEPT ![t] = r]
  /\ table' = table \cup
       {u \in {t} : \A v \in table : ClientOf[v] = ClientOf[t] =>
                                       Key(request[v]) # Key(r)}
  /\ UNCHANGED <<vars, answer, creations, network_vars, daemon_vars>>

\* tclmc_impl::register_process, with the next nonce.  Bound: a nonce does not
\* come round while a request still uses it, that takes 2^32 requests.
CallRegister(t) ==
  /\ pc[t] = "idle"
  /\ calls[t] < MaxCalls
  /\ \A u \in table : ClientOf[u] = ClientOf[t] =>
                       request[u] # ToRegister(next_nonce[ClientOf[t]])
  /\ calls' = [calls EXCEPT ![t] = @ + 1]
  /\ LET c == ClientOf[t]
     IN  /\ Issue(t, ToRegister(next_nonce[c]))
         /\ next_nonce' = [next_nonce EXCEPT ![c] =
                             IF @ = MaxNonce THEN 0 ELSE @ + 1]
  /\ UNCHANGED <<owner, holds>>

\* Mutant: the process is unregistered while the program has references to it.
CallUnregister_InUse(t, p) ==
  /\ pc[t] = "idle"
  /\ MayUse(t, p)
  /\ InUse(p) = {}
  /\ Issue(t, ToUnregister(p))
  /\ UNCHANGED <<owner, holds, calls, next_nonce>>

\* Process_impl::~Process_impl, when no call refers to the process.
CallUnregister(t, p) ==
  /\ pc[t] = "idle"
  /\ MayUse(t, p)
  /\ InUse(p) = {}
  /\ Issue(t, ToUnregister(p))
  /\ owner' = [owner EXCEPT ![p] = Nobody]
  /\ holds' = {l \in holds : l.requester # p}
  /\ UNCHANGED <<calls, next_nonce>>

\* "tclm kill": a message to unregister a process that the user names.  tclm
\* ends with the answer.
CallKill(t, p) ==
  /\ t \in Manager
  /\ calls[t] = 0
  /\ calls' = [calls EXCEPT ![t] = 1]
  /\ Issue(t, ToUnregister(p))
  /\ UNCHANGED <<owner, holds, next_nonce>>

\* Lock_impl::create and Lock_impl::acquire
CallLock(t, r) ==
  /\ pc[t] = "idle"
  /\ calls[t] < MaxCalls
  /\ MayAsk(t, r)
  /\ calls' = [calls EXCEPT ![t] = @ + 1]
  /\ Issue(t, r)
  /\ UNCHANGED <<owner, holds, next_nonce>>

\* Lock_impl::release.  From here on the program does not rely on the lock.
CallRelease(t, l) ==
  /\ pc[t] = "idle"
  /\ MayUse(t, l.requester)
  /\ holds' = holds \ {l}
  /\ Issue(t, ToLock("release", l.requester, l.path, l.mode))
  /\ UNCHANGED <<owner, calls, next_nonce>>

\* send_*_request.  The connection object is kept when the connection is lost;
\* what is sent through it then stays in its queue.
Send(t) ==
  /\ pc[t] = "sending"
  /\ pc' = [pc EXCEPT ![t] = "waiting"]
  /\ to_server' = [to_server EXCEPT ![ClientOf[t]] =
                     IF ClientOf[t] \in connected THEN Append(@, request[t]) ELSE @]
  /\ UNCHANGED <<vars, request, answer, owner, holds, creations, calls,
                 concentrator_vars, connected, to_client, daemon_vars>>

\* stream_new or stream_ensure_remaining_capacity fails: nothing is sent, and
\* the caller waits all the same.
SendFails(t) ==
  /\ "oom" \in Faults
  /\ pc[t] = "sending"
  /\ pc' = [pc EXCEPT ![t] = "unsent"]
  /\ UNCHANGED <<vars, request, answer, owner, holds, creations, calls,
                 concentrator_vars, network_vars, daemon_vars>>

\* The call returns to the program.
Return(t) ==
  /\ pc[t] \in {"waiting", "unsent"}
  /\ answer[t] # NoAnswer
  /\ pc' = [pc EXCEPT ![t] = "idle"]
  /\ request' = [request EXCEPT ![t] = ToRegister(0)]
  /\ answer' = [answer EXCEPT ![t] = NoAnswer]
  /\ LET r == request[t]
         a == answer[t]
     IN  /\ owner' = [p \in Process |->
              IF r.kind = "register" /\ a.status = "SUCCESS" /\ p = a.id
              THEN t ELSE owner[p]]
         /\ holds' = holds \cup
              {l \in {TheLock(r)} : AsksForLock(r) /\
                                     a.status \in {"SUCCESS", "LOCK_EXISTS"}}
         /\ creations' = [n \in Path |->
              IF r.kind = "create" /\ n = r.path /\ a.status = "SUCCESS"
              THEN creations[n] + 1 ELSE creations[n]]
  /\ UNCHANGED <<vars, calls, concentrator_vars, network_vars, daemon_vars>>

-----------------------------------------------------------------------------
(* The Communications_Manager thread of a client.                          *)

\* Mutant: the request stays in its table.
Receive_NotErased(c) ==
  /\ to_client[c] # <<>>
  /\ to_client' = [to_client EXCEPT ![c] = Tail(@)]
  /\ LET a == Head(to_client[c])
     IN  answer' = [t \in Thread |->
           IF t \in table /\ ClientOf[t] = c /\ Key(request[t]) = a.to
                /\ a.status # "QUEUED" THEN a ELSE answer[t]]
  /\ UNCHANGED <<vars, pc, request, owner, holds, creations, calls, table,
                 next_nonce, connected, to_server, daemon_vars>>

\* Mutant: the announcement that a request is QUEUED is taken for its answer.
Receive_QueuedIsAnswer(c) ==
  /\ to_client[c] # <<>>
  /\ to_client' = [to_client EXCEPT ![c] = Tail(@)]
  /\ LET a == Head(to_client[c])
         found == {t \in table : ClientOf[t] = c /\ Key(request[t]) = a.to}
     IN  /\ table' = table \ found
         /\ answer' = [t \in Thread |-> IF t \in found THEN a ELSE answer[t]]
  /\ UNCHANGED <<vars, pc, request, owner, holds, creations, calls, next_nonce,
                 connected, to_server, daemon_vars>>

\* Access_Concentrator::receive_*: the request with the answer's key leaves its
\* table and is answered, unless it is merely QUEUED.
Receive(c) ==
  /\ to_client[c] # <<>>
  /\ to_client' = [to_client EXCEPT ![c] = Tail(@)]
  /\ LET a == Head(to_client[c])
         found == {t \in table : /\ ClientOf[t] = c
                                 /\ Key(request[t]) = a.to
                                 /\ a.status # "QUEUED"}
     IN  /\ table' = table \ found
         /\ answer' = [t \in Thread |-> IF t \in found THEN a ELSE answer[t]]
  /\ UNCHANGED <<vars, pc, request, owner, holds, creations, calls, next_nonce,
                 connected, to_server, daemon_vars>>

-----------------------------------------------------------------------------
(* tclmd: the handlers of class daemon.                                    *)

\* The daemon takes the next message of client c, m, from its event loop.
Takes(c, m) ==
  /\ handling = NoHandler
  /\ to_server[c] # <<>>
  /\ m = Head(to_server[c])
  /\ to_server' = [to_server EXCEPT ![c] = Tail(@)]
  /\ UNCHANGED <<thread_vars, concentrator_vars, connected>>

\* to_client after messages were sent, a sequence of pairs of client and reply.
\* What is sent through a lost connection goes nowhere.
Sent(messages) ==
  [c \in Clients |-> IF c \notin connected THEN to_client[c] ELSE
     to_client[c] \o LET mine == SelectSeq(messages, LAMBDA x : x[1] = c)
                     IN  [i \in DOMAIN mine |-> mine[i][2]]]

ReplyTo(m, status, id) == [to |-> Key(m), status |-> status, id |-> id]

\* receive_message_register_process and Process_map::create: the id is next_id,
\* or there are too many processes.
DaemonRegister(c, m) ==
  /\ m.kind = "register"
  /\ Takes(c, m)
  /\ \/ /\ RegisterProcess(next_id)
        /\ next_id' = IF next_id = MaxId THEN 0 ELSE next_id + 1
        /\ tcp_conn' = [tcp_conn EXCEPT ![next_id] = c]
        /\ to_client' = Sent(<<<<c, ReplyTo(m, "SUCCESS", next_id)>>>>)
     \/ /\ next_id \in Processes
        /\ to_client' = Sent(<<<<c, ReplyTo(m, "TOO_MANY_PROCESSES", 0)>>>>)
        /\ UNCHANGED <<vars, next_id, tcp_conn>>
  /\ UNCHANGED <<lock_created, handling, abandoned>>

\* Mutant: a queued request is reported as acquired.
DaemonAcquire_QueuedIsSuccess(c, m) ==
  /\ m.kind = "acquire"
  /\ Takes(c, m)
  /\ AcquireLock(m.pid, m.path, m.mode)
  /\ LET status == IF Traces' # Traces THEN "SUCCESS" ELSE "NO_SUCH_LOCK"
     IN  to_client' = Sent(<<<<c, ReplyTo(m, status, 0)>>>>)
  /\ tcp_conn' = [tcp_conn EXCEPT ![m.pid] = c]
  /\ UNCHANGED <<next_id, lock_created, handling, abandoned>>

\* receive_message_acquire_lock
DaemonAcquire(c, m) ==
  /\ m.kind = "acquire"
  /\ Takes(c, m)
  /\ AcquireLock(m.pid, m.path, m.mode)
  /\ LET status == IF Queued' # Queued THEN "QUEUED" ELSE
                   IF Held' # Held THEN "SUCCESS" ELSE "NO_SUCH_LOCK"
     IN  to_client' = Sent(<<<<c, ReplyTo(m, status, 0)>>>>)
  /\ tcp_conn' = [tcp_conn EXCEPT ![m.pid] = c]
  /\ UNCHANGED <<next_id, lock_created, handling, abandoned>>

\* receive_message_create_lock with acquire_X
DaemonCreate(c, m) ==
  /\ m.kind = "create"
  /\ m.acquire_X
  /\ Takes(c, m)
  /\ CreateLock(m.pid, m.path)
  /\ LET status == IF Queued' # Queued THEN "QUEUED" ELSE
                   IF exists' # exists THEN "SUCCESS" ELSE "LOCK_EXISTS"
     IN  to_client' = Sent(<<<<c, ReplyTo(m, status, 0)>>>>)
  /\ tcp_conn' = [tcp_conn EXCEPT ![m.pid] = c]
  /\ UNCHANGED <<next_id, lock_created, handling, abandoned>>

\* receive_message_create_lock without acquire_X.  Without an X lock above, only
\* the owner of an existing root is told that the lock exists.
DaemonCreateNotHeld(c, m) ==
  /\ m.kind = "create"
  /\ ~m.acquire_X
  /\ Takes(c, m)
  /\ \/ /\ CreateNotHeld(m.pid, m.path)
        /\ to_client' = Sent(<<<<c, ReplyTo(m,
             IF exists' # exists THEN "SUCCESS" ELSE "LOCK_EXISTS", 0)>>>>)
     \/ /\ m.pid \in Processes
        /\ \A n \in Path : Above(n, m.path) =>
              \A r \in lockers["X"][n] : r.requester # m.pid
        /\ to_client' = Sent(<<<<c, ReplyTo(m,
             IF Len(m.path) = 1 /\ \E r \in lockers["X"][m.path] : r.requester = m.pid
             THEN "LOCK_EXISTS" ELSE "PARENT_NOT_HELD", 0)>>>>)
        /\ UNCHANGED vars
  /\ tcp_conn' = [tcp_conn EXCEPT ![m.pid] = c]
  /\ UNCHANGED <<next_id, lock_created, handling, abandoned>>

\* receive_message_release_lock, up to the answer of the backend
DaemonRelease(c, m) ==
  /\ m.kind = "release"
  /\ Takes(c, m)
  /\ ReleaseLock(m.pid, m.path, m.mode)
  /\ handling' = [client |-> c, reply |-> ReplyTo(m,
       IF forest' = forest THEN "LOCK_NOT_HELD" ELSE "SUCCESS", 0)]
  /\ tcp_conn' = [tcp_conn EXCEPT ![m.pid] = c]
  /\ UNCHANGED <<to_client, next_id, lock_created, abandoned>>

\* Lock request q of the forest was made for the message m.
MadeFor(q, m) ==
  /\ q.requester = m.pid
  /\ q.path = m.path
  /\ q.mode = m.mode
  /\ q.create_missing = (m.kind = "create")

\* receive_message_unregister_process, up to the answer of the backend
DaemonUnregister(c, m) ==
  /\ m.kind = "unregister"
  /\ Takes(c, m)
  /\ UnregisterProcess(m.pid)
  /\ handling' = [client |-> c, reply |-> ReplyTo(m, "SUCCESS", 0)]
  /\ tcp_conn' = [tcp_conn EXCEPT ![m.pid] = c]
  /\ abandoned' = abandoned \cup
       {t \in Thread : /\ pc[t] = "waiting"
                       /\ \E q \in Queued : q.requester = m.pid /\ MadeFor(q, request[t])}
  /\ UNCHANGED <<to_client, next_id, lock_created>>

\* Mutant: a create or an acquire for a process that is gone is not answered.
DaemonRejects_Silently(c, m) ==
  /\ m.kind # "register"
  /\ m.pid \notin Processes
  /\ Takes(c, m)
  /\ to_client' = IF m.kind \in {"create", "acquire"} THEN to_client
                  ELSE Sent(<<<<c, ReplyTo(m, "NO_SUCH_PROCESS", 0)>>>>)
  /\ UNCHANGED <<vars, daemon_vars>>

\* The handlers of all messages but register, if the process is not there.
DaemonRejects(c, m) ==
  /\ m.kind # "register"
  /\ m.pid \notin Processes
  /\ Takes(c, m)
  /\ to_client' = Sent(<<<<c, ReplyTo(m, "NO_SUCH_PROCESS", 0)>>>>)
  /\ UNCHANGED <<vars, daemon_vars>>

\* The backend works.  A request that waited may create the nodes it missed.
DaemonWorks ==
  /\ \/ GrantHead
     \/ GrantDone
     \/ DestroyReleases
     \/ DestroyRepeats
     \/ DestroyDone
  /\ lock_created' = lock_created \cup
       {a.request : a \in {b \in answered_requests' \ answered_requests : exists' # exists}}
  /\ UNCHANGED <<thread_vars, concentrator_vars, network_vars, next_id, tcp_conn,
                 handling, abandoned>>

\* Mutant: the result of a request that waited is not looked at.
Update_AlwaysSuccess(a) ==
  LET r == a.request
  IN  IF r.create_missing
      THEN ReplyTo(ToCreate(r.requester, r.path, FALSE), "SUCCESS", 0)
      ELSE ReplyTo(ToLock("acquire", r.requester, r.path, r.mode), "SUCCESS", 0)

\* The update that notify_answered_requests sends for an answered request.
Update(a) ==
  LET r == a.request
  IN  IF r.create_missing
      THEN ReplyTo(ToCreate(r.requester, r.path, FALSE),
                   IF r \in lock_created THEN "SUCCESS" ELSE "LOCK_EXISTS", 0)
      ELSE ReplyTo(ToLock("acquire", r.requester, r.path, r.mode),
                   IF a.status = "ACQUIRED" THEN "SUCCESS" ELSE "NO_SUCH_LOCK", 0)

\* Mutant: the handler does not call notify_answered_requests.
DaemonAnswers_NoUpdates ==
  /\ handling # NoHandler
  /\ call = NoCall
  /\ dying = NoProcess
  /\ Notify \/ (answered_requests = {} /\ UNCHANGED vars)
  /\ to_client' = Sent(<<<<handling.client, handling.reply>>>>)
  /\ lock_created' = {}
  /\ handling' = NoHandler
  /\ UNCHANGED <<thread_vars, concentrator_vars, connected, to_server, next_id,
                 tcp_conn, abandoned>>

\* The end of the release and unregister handlers: the answer is sent, then an
\* update to the connection of every answered request's process, in the order
\* of a std::set of pointers.
DaemonAnswers ==
  /\ handling # NoHandler
  /\ call = NoCall
  /\ dying = NoProcess
  /\ Notify \/ (answered_requests = {} /\ UNCHANGED vars)
  /\ \E order \in SetToSeqs({a \in answered_requests :
                                a.request \notin requester_destroyed}) :
       to_client' = Sent(<<<<handling.client, handling.reply>>>> \o
         [i \in DOMAIN order |->
            <<tcp_conn[order[i].request.requester], Update(order[i])>>])
  /\ lock_created' = {}
  /\ handling' = NoHandler
  /\ UNCHANGED <<thread_vars, concentrator_vars, connected, to_server, next_id,
                 tcp_conn, abandoned>>

-----------------------------------------------------------------------------
\* The connection of a client breaks.  Both ends drop what is on its way, and
\* neither does anything else: the daemon keeps the processes and their locks,
\* the client does not connect again.
LoseConnection(c) ==
  /\ "loss" \in Faults
  /\ c \in connected
  /\ connected' = connected \ {c}
  /\ to_server' = [to_server EXCEPT ![c] = <<>>]
  /\ to_client' = [to_client EXCEPT ![c] = <<>>]
  /\ UNCHANGED <<vars, thread_vars, concentrator_vars, daemon_vars>>

TclmInit ==
  /\ Init
  /\ pc = [t \in Thread |-> "idle"]
  /\ request = [t \in Thread |-> ToRegister(0)]
  /\ answer = [t \in Thread |-> NoAnswer]
  /\ table = {}
  /\ next_nonce = [c \in Clients |-> 0]
  /\ owner = [p \in Process |-> Nobody]
  /\ holds = {}
  /\ creations = [n \in Path |-> 0]
  /\ calls = [t \in Thread |-> 0]
  /\ connected = Clients
  /\ to_server = [c \in Clients |-> <<>>]
  /\ to_client = [c \in Clients |-> <<>>]
  /\ next_id = 0
  /\ tcp_conn = [p \in Process |-> Nobody]
  /\ lock_created = {}
  /\ handling = NoHandler
  /\ abandoned = {}

\* What a thread of a program calls.
Calls(t) ==
  \/ CallRegister(t)
  \/ \E p \in Process : CallUnregister(t, p)
  \/ \E p \in Process, path \in Path, mode \in Modes :
       CallLock(t, ToLock("acquire", p, path, mode))
  \/ \E p \in Process, path \in Path, acquire_X \in BOOLEAN :
       CallLock(t, ToCreate(p, path, acquire_X))
  \/ \E l \in holds : CallRelease(t, l)

Daemon ==
  \/ \E c \in Clients : \E m \in Range(to_server[c]) :
       \/ DaemonRegister(c, m)
       \/ DaemonUnregister(c, m)
       \/ DaemonCreate(c, m)
       \/ DaemonCreateNotHeld(c, m)
       \/ DaemonAcquire(c, m)
       \/ DaemonRelease(c, m)
       \/ DaemonRejects(c, m)
  \/ DaemonWorks
  \/ DaemonAnswers

TclmNext ==
  \/ \E t \in Thread \ Manager : Calls(t)
  \/ \E t \in Manager, p \in Kills : CallKill(t, p)
  \/ \E t \in Thread : Send(t) \/ SendFails(t) \/ Return(t)
  \/ \E c \in Clients : Receive(c) \/ LoseConnection(c)
  \/ Daemon

TclmSpec == TclmInit /\ [][TclmNext]_tclm_vars

\* Every thread of the programs and of the system runs on: a thread that was
\* woken returns from its call, messages are delivered by TCP and taken by the
\* event loops, handlers are executed to their end, and a program releases a
\* lock it has when it has nothing else to do.
FairTclmSpec ==
  /\ TclmSpec
  /\ WF_tclm_vars(Daemon)
  /\ \A c \in Clients : WF_tclm_vars(Receive(c))
  /\ \A t \in Thread : WF_tclm_vars(Send(t) \/ SendFails(t) \/ Return(t))
  /\ \A t \in Thread \ Manager : WF_tclm_vars(\E l \in holds : CallRelease(t, l))

-----------------------------------------------------------------------------
(* Properties.                                                             *)

\* Type invariant of the clients, the network and the daemon.  The answer that a
\* call returns with is final: request::QUEUED is not one.
TclmTypeOK ==
  /\ pc \in [Thread -> {"idle", "sending", "waiting", "unsent"}]
  /\ request \in [Thread -> ClientRequest]
  /\ answer \in [Thread -> {a \in Reply : a.status # "QUEUED"} \cup {NoAnswer}]
  /\ table \subseteq Thread
  /\ next_nonce \in [Clients -> 0..MaxNonce]
  /\ owner \in [Process -> Thread \cup {Nobody}]
  /\ holds \subseteq ClientLock
  /\ creations \in [Path -> Nat]
  /\ calls \in [Thread -> 0..MaxCalls]
  /\ connected \subseteq Clients
  /\ to_server \in [Clients -> Seq(ClientRequest)]
  /\ to_client \in [Clients -> Seq(Reply)]
  /\ next_id \in Process
  /\ tcp_conn \in [Process -> Clients \cup {Nobody}]
  /\ lock_created \subseteq Lock_Request
  /\ handling \in [client : Clients, reply : Reply] \cup {NoHandler}
  /\ abandoned \subseteq Thread

\* The process is registered, and nothing unregisters it right now.
Lives(p) ==
  /\ p \in Processes
  /\ handling # NoHandler =>
       ~(handling.reply.to.kind = "unregister" /\ handling.reply.to.pid = p)

\* A program that was told that it has a lock has it: from the return of
\* acquire (or create) to the call of release the lock is held in the daemon,
\* unless its process was killed.  The answer may come from the handler of
\* another process' message and is matched with the call only by the parameters
\* that it repeats.
GrantedIsHeld ==
  \A l \in holds : Lives(l.requester) =>
    \E r \in Held : TheLock([pid |-> r.requester, path |-> r.path, mode |-> r.mode]) = l

\* The service as programs see it: two locks that were granted to processes
\* that live and were not yet given back, on one node or on a node and one
\* below it, are compatible, whichever clients, threads and messages are in
\* between.
ClientExclusion ==
  \A k, l \in holds : /\ k # l
                      /\ AtOrAbove(k.path, l.path)
                      /\ Lives(k.requester) /\ Lives(l.requester)
                      => Compatible(k, l)

\* The Access_Concentrator knows the requests that wait for an answer, and no
\* others.  (Access_Concentrator.h: "it must remember which operations where
\* requested until the requests are answered"; "When a request is answered, it
\* must not be accessed anymore".)
Remembered ==
  table = {t \in Thread : pc[t] # "idle" /\ answer[t] = NoAnswer}

\* A message of the call of t, a handler at work for it, its request in a queue
\* of the forest or in the set that the handler will notify, or its answer is on
\* its way.
UnderWay(t) ==
  LET r == request[t]
      c == ClientOf[t]
  IN  \/ pc[t] = "sending"
      \/ \E i \in DOMAIN to_server[c] : to_server[c][i] = r
      \/ handling # NoHandler /\ handling.client = c /\ handling.reply.to = Key(r)
      \/ \E i \in DOMAIN to_client[c] : /\ to_client[c][i].to = Key(r)
                                        /\ to_client[c][i].status # "QUEUED"
      \/ \E q \in Queued \cup {a.request : a \in answered_requests} : MadeFor(q, r)

\* Nothing is lost: a call that waits and was sent through a connection that is
\* still there is on its way.  Only the killing of its process while its request
\* is in a queue leaves it without: the request is removed and nobody is told.  A
\* call that reaches the daemon after the killing is refused and answered.
NothingLost ==
  \A t \in table : \/ UnderWay(t)
                   \/ pc[t] = "unsent"
                   \/ ClientOf[t] \notin connected
                   \/ t \in abandoned

\* A lock is created once: of all creates for a path at most one returns true,
\* also if they waited for each other (Lock_Request::lock_created).
OneCreator == \A n \in Path : creations[n] <= 1

\* A process that a program uses exists in the daemon, under the id that the
\* program knows, although ids are used again.
IdsValid == \A p \in Process : owner[p] # Nobody => p \in Processes

\* Every call returns, that is, every thread is again and again in no call, if
\* programs use one lock at a time and give it back; the exception is a call whose
\* request was in a queue when its process was killed.  A call for a process that
\* is already gone is answered with NO_SUCH_PROCESS.
CallsReturn ==
  \A t \in Thread : []<>(pc[t] = "idle" \/ t \in abandoned)

=============================================================================
