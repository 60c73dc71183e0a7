# TCLM in TLA+

TCLM is a central manager for multiple granularity locks. Programs link
`libtclm_client` and talk over TCP to one daemon, `tclmd`, which keeps a forest
of named locks (`a`, `a.b`, `a.b.c`) and grants them in the modes S, S+ and X.
This directory holds TLA+ models of it, TLC configurations that check them on
small instances, and proofs checked by TLAPS. Source paths below are relative to
the repository (`src/server/Lock.cpp`); `PROJECT.json` maps every definition to
the lines it models.

## The system

| Part | State | Operations that change it | Module |
|---|---|---|---|
| `Lock`, `Lock_Forest`, `Lock_Request` | nodes; per node the lockers S, S+, X, the intent multisets IS, IS+, IX, a queue of requests | create, create_not_held, acquire, release (which grants queued requests) | LockForest |
| `Process`, `Process_map`, `backend` | registered processes, `held_locks`, `next_id`, `requester_destroyed` | register, unregister (releases everything) | LockForest, ids in Tclm |
| `daemon` | connection of every process | a handler per message; updates for requests that waited | Tclm |
| `tclmc`, `Process`, `Lock` (client) | request objects with condition variables | register_process, ~Process, create, acquire_*, release_* | Tclm |
| `tclm_manager` | | kill | Tclm |
| `Access_Concentrator` | tables of pending requests, nonce, the connection | issue, send, receive | Tclm, SendPath |
| `Connection`, `polled_fd` | send queue, `out_enabled`, receive buffer, `wanted_ib_size` | send, data_out, data_in | SendPath, ReceivePath |
| `Communications_Manager` | epoll registrations, eventfd, `quit_requested` | main_loop, fd_enable_out, fd_disable_out, destroy_polled_fd, request_quit | SendPath |
| `ringbuffer`, `stream` | bytes | write, peek, read, remove | RingBuffer, ReceivePath |
| `TCP_Listener`, `main.cpp`, Python binding, example | | I/O, start-up, output | |

A call goes from a thread of a program through the `Access_Concentrator` and the
`Connection` to a handler of `daemon`, which calls `backend`. The answer comes
back at once or, for a request that was queued, from the handler of some later
message. `tclmd` has one thread. A client has its own threads and one that runs
the `Communications_Manager`.

What is hard here:

* exclusion between locks on different levels rests on intents that are taken and
  given back node by node, while requests wait half way down;
* releasing a lock runs the queues of all nodes above and answers other
  processes' requests, inside a loop that unregisters a process;
* `held_locks` records a second time what the nodes record, at other moments;
* answers carry no number: the client finds the call by the parameters;
* `tclm kill` unregisters a process at any moment of what its program does;
* the send queue, `out_enabled` and the epoll registration have three different
  mutexes, which the two sides take in opposite orders;
* bytes arrive in any pieces, in a buffer that wraps and grows, and the size of
  a message is remembered from one piece to the next;
* connections break, memory runs out, ids and nonces wrap.

## Modules

### LockForest (the core)

The backend: `exists`, `lockers`, `intents`, `lock_requests` are the members of
`Lock`, `Processes`, `held_locks` and `requester_destroyed` those of the
processes and requests. A multiset of `Process*` in the code is a set of requests
here: each occurrence of a pointer carries the request that inserted it. The code
erases any one occurrence of the pointer, which gives the same multiset.

| Action | Code |
|---|---|
| `RegisterProcess` | `Process_map::create` |
| `AcquireLock`, `CreateLock` | `backend::acquire_lock`, `create_lock`: one step each, the whole descent of `Lock::acquire` (`FirstStop`, `Acquired`, `WaitsAt`, `NonExistent`) |
| `CreateNotHeld` | `Lock::create_not_held` |
| `ReleaseLock`, `GrantHead`, `GrantDone` | `Lock::release`: the removal at the target, each iteration of the grant loop, the ascent to the parent (`Ascend`) |
| `UnregisterProcess`, `DestroyReleases`, `DestroyRepeats`, `DestroyDone` | `Process_map::try_destroy` with its two loops, `Process::~Process` |
| `Notify` | the end of a handler, when `answered_requests` is handed over |

Handlers run in one thread, so `call` and `dying` are the program counter of the
handler at work and no other request starts in between. `Liberties` says what
clients do: a careful client (`{}`) asks for locks that exist and that it has not
asked for; `"repeat"` asks again for a lock it has or waits for, `"missing"` asks
for locks that do not exist, `"cancel"` releases or unregisters while waiting.

### LockService and LockRefinement (what the backend promises)

`LockService` knows neither a tree nor queues: requests wait or are granted, one
at a time, and what is granted at the same time does not exclude each other.
`LockRefinement` instantiates it with the requests in all queues as `waiting` and
the locks on all nodes as `granted`; two claims exclude each other when their
modes do and one is on a node at or above the other's. `ImplementsService` says
that every behaviour of LockForest is one of the service.

### Tclm (the whole path of a call)

Extends LockForest with programs' threads, the tables of the
`Access_Concentrator`, one connection per client as two FIFO channels, the
handlers of `daemon`, process ids and faults. `Call*`, `Send` and `Return` are
steps of the calling thread, `Receive` of the client's communications thread,
`Daemon*` of the daemon. A handler that may loop (release, unregister) is
`DaemonRelease` or `DaemonUnregister`, then steps of the backend (`DaemonWorks`),
then `DaemonAnswers`, which sends the answer and the updates.

Clients hold a `shared_ptr<Process>` during a call, so the library unregisters a
process only when no call uses it (`InUse`). The threads in `Manager` are runs of
`tclm kill` (`CallKill`): they unregister a process of `Kills` whoever uses it.
Its later requests are then refused with `NO_SUCH_PROCESS` (`DaemonRejects`). The
daemon answers nobody whose request it removes from a queue in this way; the history
variable `abandoned` has the threads of these calls, so that the properties can except
them and no others.

`Habits` says what programs do: `"share"` their processes among threads, hold
`"several"` locks, acquire `"missing"` ones, make the `"same"` call at the same
time. `Faults` lets connections break (`LoseConnection`) and messages be dropped
when no stream can be allocated (`SendFails`).

The channels of Tclm are reliable, ordered and carry whole messages. That they may
be modelled so is what SendPath and ReceivePath show, and their proof modules prove,
of the two ends of a connection (`WireInOrder`; `BytesKept`, `MessagesWhole`).

### SendPath (threads and mutexes of a client)

The threads that call `send_message_tcp`, the thread of
`Communications_Manager::main_loop` and the thread in `~Access_Concentrator`, with
`m_tcp_connection`, `m_send`, `m`, `m_epfd` and `m_flags`. A step ends where a
thread takes another mutex, so that every order of lock acquisition is explored.
`write` may take any part of a message. Any of the senders may make a call or none; a
program that makes none may close its `Access_Concentrator` before the loop has started.

`Faults` has what may go wrong. With `"connection"`, the connection breaks at any read,
write or wait. With `"epoll"`, `main_loop` returns because `epoll_create`, `epoll_ctl`
or `epoll_wait` fails (`EpollFails`), or `add_polled_fd` fails for the eventfd, which
`main_loop` does not notice: `pefd_polled` is false then, and the loop does not hear
`request_quit`.

### RingBuffer and ReceivePath (from bytes to messages)

`RingBuffer` is `class ringbuffer` as operators on a value: the two copies of a
write or read that wraps, the move to a larger power of two, the rule that a ring
is never filled completely. `ReceivePath` is `Connection::data_in` on top of it. The
peer sends messages at any time (`PeerSends`, the `Connection` of the other end, whose
details are in SendPath), laid out as `write_message_header` does.
`Append_Data` and `WriteThrows` are the read and the write to the ring,
`NoHeaderStream`, `PartlyThere`, `AtOnce`, `Completed` and `NoProgress` are the ways
through one iteration of its loop, `Closes` is the read that ends the connection.
The length in a header is four bytes, most significant first, as
`stream_write_uint32_t` writes it.

An allocation may fail. Where `data_in` needs a stream it leaves the message in the
ring; if that is the stream for the header, a complete message stays there until
more bytes come, so `NoneWaiting` and `AllDelivered` speak of runs without failures
(`BytesKept`, `MessagesWhole` and `ReceiveInv` of all runs). Where the ring needs to
grow, `ringbuffer::write` throws; nothing on the stack of the event loop catches
it, and the model goes to `"terminated"`.

### Instances and proofs

`MCLockForest`, `MCTclm`, `MCSendPath` and `MCReceivePath` hold the instances for TLC.

| Proof module | Holds |
|---|---|
| `LockForestLemmas` | paths, the effects of `Lock::acquire`, queues; what requests and the ascent do to the inductive invariant |
| `LockForestInvariant` | what releases and grants do to it; the invariant, exclusion |
| `LockForestMoves` | where a step may take requests and locks; no wake-up is lost |
| `LockForestIntents` | no intent is stale; `held_locks` is exact |
| `LockForestService` | LockForest implements LockService |
| `SendPathProofs` | the sending side with its threads and mutexes |
| `ReceivePathProofs` | the ring buffer, headers and the receiving side |

LockForest defines `AtOrAbove`, `Above`, `Parent` and `Erased` itself although
SequencesExt has them (`IsPrefix`, `IsStrictPrefix`, `Front`, `RemoveAt`): tlapm
carries every definition a module reaches into every obligation, and with
SequencesExt and what it extends an obligation takes ten times as long.

## What the runs show

Passing runs, for the instance in their cfg:

| Run | Shows |
|---|---|
| `careful` | three careful processes, two levels, all modes: `IntentsCover`, `NoLostWakeup`, `HeldLocksExact`, `NoLocksOfTheDead` |
| `careful_tree` | two careful processes on a forest with siblings and three levels: requests wait at intermediate nodes and advance, siblings share what is above them; exclusion across levels, no intent is left behind (`NoStaleIntents`), every handler ends, so the event loop goes on (`HandlerEnds`) |
| `any_client` | all liberties: exclusion, `OnePlace`, `NoDanglingRequester`, `NoPhantoms` and `ImplementsService` do not depend on what clients do. `NoPhantoms` names the creator: who calls `create_not_held`, or gets the lock it asked for, has the X lock around the new node |
| `two_programs` | with connections that break: what programs were told is true (`GrantedIsHeld`), excludes (`ClientExclusion`), no request is lost (`NothingLost`), tables are exact (`Remembered`), one create returns true (`OneCreator`), ids are valid (`IdsValid`) |
| `shared_process` | two threads that share their processes, hold several locks and ask for missing ones, with requests that are not sent for want of memory |
| `calls_return` | two programs and `tclm kill` at any moment: every call returns (`CallsReturn`), except one whose request was in a queue when its process was killed; a call that reaches the daemon later is answered, no other is lost (`NothingLost`), and locks that pass on through the kill exclude each other (`ClientExclusion`) |
| `send_path` | on a connection that may break, with epoll calls that may fail, messages go out whole and in order (`WireInOrder`), none is stuck in the queue (`NothingStuck`, `AllSent`), the two orders of `m` and `m_epfd` do not meet (`NoInversion`), no mutex is waited for for ever (`SendsReturn`), the event loop ends after `request_quit`, also one that comes before the eventfd exists (`LoopEnds`, which excepts a loop whose eventfd could not be polled) |
| `receive_path` | up to three messages, sent at any time and cut in every way: no byte is lost or repeated (`BytesKept`), callbacks get the messages whole and in order (`MessagesWhole`), none waits in the ring (`NoneWaiting`), all arrive (`AllDelivered`) |

Runs in which the code does not do what its documentation says:

| Run | Finding |
|---|---|
| `stale_intents` | a request that waits below the root and then finds its target missing leaves its upper intents behind (`debian/changelog:15` says they are fixed) |
| `unregister_hangs` | the same request stays in `held_locks`, and unregistering its process never ends (`src/server/Process_map.h:36`) |
| `dead_hold_locks` | a lock taken twice has one entry in `held_locks`; the process is deleted while a node still names it (`src/server/Process.h:30`) |
| `same_call` | the second of two equal calls is not entered in the table (`src/client/Access_Concentrator.h:5`) |

Where the code does less than its documentation hopes for, and the models follow
the code without a run that says so:

* nothing connects again after a connection is lost, and calls that wait then do
  not return (`src/client/tclmc_impl.h:12`: "if if is closed, a new one is
  established silently"; `src/client/Access_Concentrator.h:7`: "to try it multiple
  times if needed");
* a request that could not be sent for want of memory is not sent later
  (`src/client/Access_Concentrator.h:110`: "the main thread will try sending again");
* registering is refused as soon as `next_id` is in use, also when other ids are
  free (`src/server/backend_exceptions.cpp:8`: "no free ids left").

Behaviours of which no document promises otherwise, and which no property forbids:

* new S requests overtake a waiting X request for ever: `Lock::acquire` never looks
  at the queue;
* the locks of a client that died stay locked;
* a call that waits for a lock when its process is killed never returns;
* `main_loop` goes on when its eventfd cannot be added to the epoll instance, and then
  ends only if an event of the connection wakes it after `request_quit`;
* releasing a lock while waiting for it removes the first queued request of that
  process and mode on the path, answers nobody, and wakes nobody behind it. This is
  why the theorem on wake-ups leaves out the liberty `"cancel"`.

### Bounds

* Forests of two or four nodes: two nodes have an ancestor; four have siblings and
  a node that is neither root nor target. Conflicts are between two locks, a third
  process gives a queue of length two and a waiter behind a waiter.
* `Serial`: equal requests of one process at one time, one or two. Two are needed
  for a repeated request to be told from the first.
* `MaxRequests`, `MaxHeld`: requests with a trace in the forest, entries of
  `held_locks`. They bound stale entries, which the code accumulates.
* `MaxId`, `MaxNonce`: 2^32 - 1 in the code; with one, ids and nonces wrap within a
  run (`calls_return` has four ids, so that no registration is refused). A nonce
  does not come round while it is in use.
* `MaxCalls`: calls of a thread other than release and unregister, two or three:
  register, then locks; register, unregister and register again for reused ids.
* `Size = 2` bytes per message in SendPath: a write takes none, a part or all. Three
  senders give a queue with a message between the first and the last.
* ReceivePath: bytes are bits (`Base = 2`), so that a header has five of them as in
  the code; rings of 4, 8 and 16 bytes instead of 1024 and more, so that they wrap,
  fill to the last byte and grow twice; reads of up to nine bytes, more than a
  message and less than three of them; two failing allocations. A message
  with its header is shorter than 2^32 bytes, so that the sum of length and header
  does not wrap.
* Symmetry of processes is used in `careful`, `any_client`, `stale_intents` and
  `dead_hold_locks`, which check safety only.

Deadlock is checked in all runs of LockForest. In Tclm, SendPath and ReceivePath a
behaviour ends when the programs have made their calls or the peer's bytes are
read, so their configurations do not check it; `NothingLost`, `CallsReturn`,
`AllSent`, `SendsReturn` and `AllDelivered` say what must not be stuck.

### Fairness

* LockForest: the handler at work goes on (weak fairness of its steps). It runs in
  the daemon's only thread and waits for nothing.
* Tclm: the daemon takes messages and finishes handlers, clients receive, threads
  send and return when woken; TCP delivers. A program that has nothing else to do
  gives back a lock it has. No fairness of new calls.
* SendPath: threads run, and a thread gets a mutex that is free again and again
  (strong fairness: glibc mutexes and the scheduler do not starve a waiter for
  ever). epoll hands out every descriptor that stays ready, and the socket takes
  bytes again and again. Nothing is assumed about input.
* ReceivePath: bytes that are there are read (epoll is level-triggered), and the
  loop of `data_in` goes on.

## What is proved

For every set of processes, every prefix-closed set of paths and every bound:

| Theorem | States | Clients |
|---|---|---|
| `LockInvariant` | the inductive invariant `LockInv` | any |
| `TypeCorrect` | `TypeOK` | any |
| `Exclusion` | `HierarchicalExclusion`: no two locks on a node, or on a node and any node below, exclude each other | any |
| `Cover` | `IntentsCover`, so that `erase (find (p))` in `Lock::release` always finds an element | any |
| `Places` | `OnePlace`: no request is both held and queued, queued twice, or queued after its answer | any |
| `Requesters` | `NoDanglingRequester` | any |
| `Phantoms` | `NoPhantoms`, an action property: where a node appears, its creator has an X lock around it and nobody else a lock above | any |
| `Implementation` | `ImplementsService` | any |
| `Wakeups` | `NoLostWakeup` | all but `"cancel"` |
| `Tidy` | `NoStaleIntents` | all but `"missing"` |
| `HeldLocks` | `HeldLocksExact` | careful |
| `NothingOfTheDead` | `NoLocksOfTheDead` | careful |

For any number of senders and any size of messages, about the sending side:

| Theorem | States |
|---|---|
| `SendInvariant`, `SendTypes` | the inductive invariant `SendInv`; `SendTypeOK` |
| `Wire` | `WireInOrder`: the peer sees whole messages in the order of the queue |
| `Polled` | `NothingStuck`: no message is forgotten in the queue |
| `LockOrder` | `NoInversion`: no sender is in `fd_enable_out` with `m_epfd` while the loop asks for it with `m` |

For every capacity, base, chunk size, number of failures and set of messages, about
the receiving side:

| Theorem | States |
|---|---|
| `Receiving` | the inductive invariant `ReceiveInv` |
| `Kept` | `BytesKept` |
| `Framing` | every stream that a callback gets is as long as its own header says |
| `Messaging` | `MessagesWhole`: callbacks get the peer's messages, in order |
| `Waiting` | `NoneWaiting`: no whole message is left in the ring |

**LockInv.** Exclusion relates two nodes, but `Lock::acquire` compares only what one
node records. `LockInv` therefore has `NodeConsistent`, which says what may be
recorded together at one node, `IntentsCover`, which says that a lock below is
recorded as an intent at every node above, and `Placed` and `OnePlace`, which say
that records agree with their requests and that a grant does not find its request
elsewhere. For two locks on one path the upper node has the upper lock and the
intent of the lower, and `NodeConsistent` there gives the exclusion
(`ExclusionLemma`). The proof that steps preserve it goes through lemmas on the
effect of a descent (`AcquiredEffect`, `WaitsEffect`), on queues and on the ascent
(`AscendInv`), then one lemma per operation (`RequestInv`, `ReleaseInv`,
`GrantHeadInv`, `GrantDoneInv`) and `LockInvNext`.

**Implementation.** Each step changes the sets of queued and of held requests in one
of the ways of LockService; that what it grants is grantable follows from the
exclusion among the locks held after the step.

**Phantoms.** Who creates the nodes of a step is read off the step (`CreatedBy`): the
process for which it is a `create_not_held`, or the requester of a lock that is held
only afterwards. A descent that creates nodes ends in one new X lock, so there is one
creator (`AcquiredCreates`), and `Exclusion` in the state after the step keeps the
others away (`AcquiredProtects`, `NotHeldProtects`).

**Wakeups.** `NoLostWakeup` speaks of the time between handlers. While a release
climbs, the head of the queue at the node where it works may have become free. The
invariant is that the head of every *other* queue is blocked (`HeadsBlocked`), and
that a process being unregistered waits nowhere (`DyingWaitsNot`), which the liberty
`"cancel"` would break. What blocks a request stays as long as its node loses nothing
(`BlockedStays`), and only the node where a release works loses anything.

**Tidy.** Every intent is accounted for by something further down: a lock, a waiting
request, or the release that is under way (`IntentsExact`). The step that breaks this
for other clients is a queued request that finds its lock missing. `Grounded` shows
that it is not taken: without `"missing"`, what is asked for exists or is created,
nodes are never destroyed, and the nodes above an existing node exist.

**HeldLocks.** `held_locks` is changed when a request is made and at the end of a
release, the nodes in between. `Booked` says what the two have to do with each other
at every step: the lock that is being released is still noted, and nothing else
differs; the requests of one process for one lock are the same request, which is where
careful clients are needed. While a process is unregistered, `todo` and the release
under way account for all that is noted. `NothingOfTheDead` follows, since the last step
of `try_destroy` finds `held_locks` empty.

**SendInvariant.** `Owners` says which thread has which mutex where. `Handshake` relates
`out_enabled`, the registration with epoll and the places of the threads: a sender goes
on to `fd_enable_out` only with output off and keeps `m_tcp_connection` there, the loop
goes on to `fd_disable_out` only with output on. `Served` says that a queue that is not
empty has output on or a sender that will see to it, and `Ordered` cuts what was sent
into what is on the wire, the rest of a message that `write` split, and the queue.

**Receiving.** `ReceiveInv` has the shape of the ring, that what it shows was written
(memory that was not is `Garbage`), and that `wanted_ib_size`, if set, is the size of
the message in front, also after the ring has moved. The lemmas say what `write`,
`peek`, `read`, `remove` and the move do to `Content`.

**Messaging.** `Parsed` says where in the peer's bytes each of its messages ends, and
that the callbacks have got bytes up to one of these ends. A stream that is framed and
has the peer's next bytes is then the peer's next message: its first five bytes are
those of the message, so both have the same length. That the header of a message gives
its length rests on `ReadsWritten`: `stream_read_uint32_t` inverts
`stream_write_uint32_t` for every number below `Base`^4.

The assumptions are `PathAssumption` (paths are non-empty and the parents of paths
are paths), `BoundAssumption` and `SentinelAssumption` for LockForest,
`SendAssumption` (the threads are different from each other) for the sending side,
`RingAssumption` and `ReceiveAssumption` (bytes are digits, and a message, header
included, is shorter than the least number that does not fit four of them) for the receiving side. TLC evaluates them
in the runs of the modules that extend these.

Only model-checked: liveness (`HandlerEnds`, `CallsReturn`, `AllSent`, `SendsReturn`,
`LoopEnds`, `AllDelivered`), which needs fairness and ENABLED and is out of the
prover's reach; and everything in Tclm.

## Not modelled

* Spellings of paths. `split_path` skips empty components but for the last, so `a..b`
  and `.a.b` name the node of `a.b`, while `held_locks` and the client's tables keep the
  spelling that was sent, and `notify_answered_requests` joins the components with
  single dots. The models have one spelling per node. What they show holds for
  programs that write a path in one way, without empty components.
* The signal handler of `tclmd`. It runs in the daemon's only thread and calls
  `request_quit`, which locks `m_flags`, a mutex that is not recursive; if the loop is
  interrupted while it has `m_flags` to look at `quit_requested`, the behaviour is
  undefined (a self-deadlock with glibc). No document says what a signal may
  interrupt. SendPath has `request_quit` from another thread, as in clients.
* `add_polled_fd` for a connection while the loop runs: clients add their one connection
  before, and in the daemon one thread does both. `eventfd` failing: the exception ends
  the program. `request_run` has no caller.
* `Lock::destroy` and `Lock::query`, which nothing calls, and `read_uint8`, `16`, `32`
  and `get_capacity` of `ringbuffer`; the `list_*` handlers, which only read; failing
  allocations in the daemon's handlers.
* The layout of message bodies: each is read by the code that mirrors the one which
  wrote it. A connection without a receive callback: both users set one.
* `TCP_Listener`, name resolution and connecting; the commands of `tclm` other than
  kill, the Python binding, the example, texts of exceptions: input and output around
  what is modelled.
