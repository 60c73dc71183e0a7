----------------------------- MODULE LockForest -----------------------------
(***************************************************************************)
(* The backend of tclmd: the forest of locks (Lock, Lock_Forest), the      *)
(* requests waiting in it (Lock_Request) and the processes that own both   *)
(* (Process, Process_map), driven through the operations of class backend. *)
(*                                                                         *)
(* A lock is a node of a forest and is named by its path.  A process locks *)
(* a node in mode S, S+ or X and at the same time takes an intent (IS, IS+ *)
(* or IX) on every node above it.  A request that meets a conflict waits   *)
(* in the queue of the node where it met it, with its intents above.       *)
(*                                                                         *)
(* tclmd runs every handler in its one event loop thread, so acquiring and *)
(* creating are one step each.  Releasing a lock and unregistering a       *)
(* process are loops whose progress depends on the state; they are split   *)
(* in one step per iteration and nothing else happens in between.          *)
(*                                                                         *)
(* The code's multisets of Process pointers are sets of requests here: an  *)
(* element stands for one occurrence of its requester's pointer and is     *)
(* labelled with the request that inserted it.  The code erases any one    *)
(* occurrence of a pointer; erasing the one with a given label is the same *)
(* multiset.  A Process pointer is an address and may be used again by a   *)
(* process that registers later.                                           *)
(***************************************************************************)
EXTENDS Naturals, FiniteSets, Sequences, Functions

CONSTANTS
  Process,      \* the addresses at which a Process object may live
  Name,         \* the components of lock paths
  Path,         \* the paths of all locks that may come to exist
  Serial,       \* numbers telling apart equal requests of one process
  Modes,        \* the modes in which clients ask for locks
  Liberties,    \* what clients do beyond careful use, see MayRequest, MayDrop
  MaxRequests,  \* bound: requests with a trace in the forest at one time
  MaxHeld,      \* bound: entries of one process' held_locks
  NoCall,       \* no release is being executed
  NoProcess     \* no process is being unregistered

-----------------------------------------------------------------------------
(* Paths and queues are sequences.                                         *)

\* Lock m is lock n or one of the locks above it.
AtOrAbove(m, n) == Len(m) <= Len(n) /\ SubSeq(n, 1, Len(m)) = m

\* Lock m is one of the locks above lock n.
Above(m, n) == AtOrAbove(m, n) /\ m # n

\* The path of the parent of the lock with path n.
Parent(n) == SubSeq(n, 1, Len(n) - 1)

\* Queue q when its i-th request is erased.
Erased(q, i) == SubSeq(q, 1, i - 1) \o SubSeq(q, i + 1, Len(q))

ASSUME PathAssumption ==
  /\ Path \subseteq Seq(Name) \ {<<>>}
  /\ \A n \in Path : Len(n) > 1 => Parent(n) \in Path

ASSUME BoundAssumption ==
  /\ Serial \subseteq Nat
  /\ Modes \subseteq {"S", "Splus", "X"}
  /\ MaxRequests \in Nat
  /\ MaxHeld \in Nat
  /\ Liberties \subseteq {"repeat", "missing", "cancel"}

Mode == {"S", "Splus", "X"}

Lock_Request == [mode : Mode, requester : Process, path : Path,
                 create_missing : BOOLEAN, serial : Serial]

\* A release in progress: its arguments, the request whose lock or queue entry
\* it removed, and the node it is working on.
Call == [requester : Process, path : Path, mode : Mode,
         request : Lock_Request, at : Path]

Answer == [request : Lock_Request, status : {"ACQUIRED", "NON_EXISTENT"}]

ASSUME SentinelAssumption ==
  /\ NoCall \notin Call
  /\ NoProcess \notin Process

VARIABLES
  exists,             \* the nodes of the forest
  lockers,            \* lockers_S, locker_Splus, locker_X ({} for nullptr)
  intents,            \* lockers_IS, lockers_ISplus, lockers_IX
  lock_requests,      \* the queue of every node
  Processes,          \* the processes that are registered
  held_locks,         \* Process::held_locks, pairs of path and mode
  requester_destroyed,\* requests whose requester was deleted
  call,               \* the Lock::release being executed, or NoCall
  dying,              \* the process try_destroy works on, or NoProcess
  todo,               \* what is left of try_destroy's copy of held_locks
  answered_requests   \* the requests the current handler has answered

forest == <<exists, lockers, intents, lock_requests>>
handler == <<call, dying, todo, answered_requests>>
vars == <<forest, Processes, held_locks, requester_destroyed, handler>>

-----------------------------------------------------------------------------
(* State functions.                                                        *)

\* The locks that are held, by the requests that obtained them.
Held == UNION {lockers[m][n] : m \in Mode, n \in Path}

Queued == UNION {Range(lock_requests[n]) : n \in Path}

\* Every request that has left a trace in the forest.
Traces ==
  Held \cup Queued \cup UNION {intents[m][n] : m \in Mode, n \in Path}

Outstanding(p) == {r \in Held \cup Queued : r.requester = p}

Idle == call = NoCall /\ dying = NoProcess /\ answered_requests = {}

\* Every element of a multiset (or the pointer, unless null) is p.
Only(p, S) == \A r \in S : r.requester = p

\* The conditions under which a node can be locked in mode m ...
CanLock(p, m, n) ==
  \/ /\ m = "S"
     /\ lockers["X"][n] = {}
     /\ intents["X"][n] = {}
  \/ /\ m = "Splus"
     /\ lockers["Splus"][n] = {}
     /\ intents["Splus"][n] = {}
     /\ Only(p, lockers["X"][n])
     /\ Only(p, intents["X"][n])
  \/ /\ m = "X"
     /\ lockers["S"][n] = {}
     /\ lockers["X"][n] = {}
     /\ intents["S"][n] = {}
     /\ intents["X"][n] = {}
     /\ Only(p, lockers["Splus"][n])
     /\ Only(p, intents["Splus"][n])

\* Mutant: IX does not look at the S+ lock of the node.
CanIntend_SplusIgnored(p, m, n) ==
  \/ m = "S" /\ lockers["X"][n] = {}
  \/ m = "Splus" /\ lockers["Splus"][n] = {} /\ Only(p, lockers["X"][n])
  \/ m = "X" /\ lockers["S"][n] = {} /\ lockers["X"][n] = {}

\* ... and under which the intent of mode m can be taken on it.
CanIntend(p, m, n) ==
  \/ /\ m = "S"
     /\ lockers["X"][n] = {}
  \/ /\ m = "Splus"
     /\ lockers["Splus"][n] = {}
     /\ Only(p, lockers["X"][n])
  \/ /\ m = "X"
     /\ lockers["S"][n] = {}
     /\ lockers["X"][n] = {}
     /\ Only(p, lockers["Splus"][n])

Blocked(r, n) ==
  IF n = r.path THEN ~CanLock(r.requester, r.mode, n)
                ELSE ~CanIntend(r.requester, r.mode, n)

\* The nodes from n down to path.
Between(n, path) == {k \in Path : AtOrAbove(n, k) /\ AtOrAbove(k, path)}

\* The nodes that Lock::acquire visits when it is called for r on node n.
Walk(r, n) == Between(n, r.path)

\* Where the walk can end before it reaches the target.
Stops(r, n) ==
  {k \in Walk(r, n) : Blocked(r, k) \/ (k \notin exists /\ ~r.create_missing)}

FirstStop(r, n, k) ==
  /\ k \in Stops(r, n)
  /\ \A l \in Stops(r, n) : AtOrAbove(k, l)

-----------------------------------------------------------------------------
(* Lock::acquire, called for request r on node n.  Either r gets its lock, *)
(* and with create_missing the nodes that were missing, or it waits at the *)
(* first node that blocks it, or a node is missing and the intents taken   *)
(* by this call are given back.                                            *)

Intend(r, nodes) ==
  [intents EXCEPT ![r.mode] =
     [k \in Path |-> IF k \in nodes THEN @[k] \cup {r} ELSE @[k]]]

Acquired(r, n) ==
  /\ Stops(r, n) = {}
  /\ exists' = exists \cup Walk(r, n)
  /\ lockers' = [lockers EXCEPT ![r.mode][r.path] =
                   IF r.mode = "S" THEN @ \cup {r} ELSE {r}]
  /\ intents' = Intend(r, Walk(r, n) \ {r.path})

\* Mutant: no intent is taken on the node where the walk starts.
WaitsAt_StartSkipped(r, n, k) ==
  /\ FirstStop(r, n, k)
  /\ k \in exists
  /\ intents' = Intend(r, {l \in Walk(r, n) \ {n} : Above(l, k)})
  /\ UNCHANGED <<exists, lockers>>

WaitsAt(r, n, k) ==
  /\ FirstStop(r, n, k)
  /\ k \in exists
  /\ intents' = Intend(r, {l \in Walk(r, n) : Above(l, k)})
  /\ UNCHANGED <<exists, lockers>>

NonExistent(r, n) ==
  /\ \E k \in Path : FirstStop(r, n, k) /\ k \notin exists
  /\ UNCHANGED <<exists, lockers, intents>>

-----------------------------------------------------------------------------
(* What clients ask for.  Careful clients do not request a lock they have  *)
(* or wait for already, request existing locks, and do not release locks   *)
(* or unregister while they wait.                                          *)

MayRequest(p, path, mode) ==
  /\ Cardinality(Traces) < MaxRequests
  /\ Cardinality(held_locks[p]) < MaxHeld
  /\ \/ "repeat" \in Liberties
     \/ \A r \in Outstanding(p) : <<r.path, r.mode>> # <<path, mode>>

MayDrop(p, requests) ==
  "cancel" \in Liberties \/ \E r \in requests : r.requester = p

\* Lock_Request::create.  The serial is the first that tells r from the
\* requests that have left a trace.
NewRequest(r) ==
  /\ r \notin Traces
  /\ \A s \in Serial : s < r.serial => [r EXCEPT !.serial = s] \in Traces

\* Mutant: add_held_lock is called for locks that are acquired only.
Request_QueuedNotNoted(r, root) ==
  \/ /\ Acquired(r, root)
     /\ held_locks' = [held_locks EXCEPT ![r.requester] = @ \cup {<<r.path, r.mode>>}]
     /\ UNCHANGED lock_requests
  \/ /\ \E k \in Path :
          /\ WaitsAt(r, root, k)
          /\ lock_requests' = [lock_requests EXCEPT ![k] = Append(@, r)]
     /\ UNCHANGED held_locks

\* Lock_Forest::create (acquire_X) and Lock_Forest::acquire end alike.
Request(r, root) ==
  /\ \/ /\ Acquired(r, root)
        /\ UNCHANGED lock_requests
     \/ \E k \in Path :
          /\ WaitsAt(r, root, k)
          /\ lock_requests' = [lock_requests EXCEPT ![k] = Append(@, r)]
  /\ held_locks' = [held_locks EXCEPT ![r.requester] =
                      @ \cup {<<r.path, r.mode>>}]

Root(path) == SubSeq(path, 1, 1)

\* backend::register_process
RegisterProcess(p) ==
  /\ Idle
  /\ p \notin Processes
  /\ Processes' = Processes \cup {p}
  /\ held_locks' = [held_locks EXCEPT ![p] = {}]
  /\ UNCHANGED <<forest, requester_destroyed, handler>>

\* backend::acquire_lock
AcquireLock(p, path, mode) ==
  /\ Idle
  /\ p \in Processes
  /\ MayRequest(p, path, mode)
  /\ "missing" \in Liberties \/ path \in exists
  /\ \E s \in Serial :
       LET r == [mode |-> mode, requester |-> p, path |-> path,
                 create_missing |-> FALSE, serial |-> s]
       IN  /\ NewRequest(r)
           /\ \/ Request(r, Root(path))
              \/ NonExistent(r, Root(path)) /\ UNCHANGED <<lock_requests, held_locks>>
  /\ UNCHANGED <<Processes, requester_destroyed, handler>>

\* backend::create_lock with acquire_X
CreateLock(p, path) ==
  /\ Idle
  /\ p \in Processes
  /\ MayRequest(p, path, "X")
  /\ \E s \in Serial :
       LET r == [mode |-> "X", requester |-> p, path |-> path,
                 create_missing |-> TRUE, serial |-> s]
       IN  NewRequest(r) /\ Request(r, Root(path))
  /\ UNCHANGED <<Processes, requester_destroyed, handler>>

\* Mutant: locker_X != nullptr instead of p == locker_X.
CreateNotHeld_AnyHolder(p, path) ==
  /\ Idle
  /\ p \in Processes
  /\ \E n \in exists : Above(n, path) /\ lockers["X"][n] # {}
  /\ exists' = exists \cup Between(Root(path), path)
  /\ UNCHANGED <<lockers, intents, lock_requests, Processes, held_locks,
                 requester_destroyed, handler>>

\* backend::create_lock without acquire_X: Lock::create_not_held.  p must have
\* an X lock above the first node that is missing.
CreateNotHeld(p, path) ==
  /\ Idle
  /\ p \in Processes
  /\ \E n \in exists : /\ Above(n, path)
                       /\ \E r \in lockers["X"][n] : r.requester = p
  /\ exists' = exists \cup Between(Root(path), path)
  /\ UNCHANGED <<lockers, intents, lock_requests, Processes, held_locks,
                 requester_destroyed, handler>>

-----------------------------------------------------------------------------
(* Lock::release.  It works bottom up: the deepest node of the path where  *)
(* the process holds or awaits a lock of this mode gives it up; then every *)
(* node above loses an intent and lets its waiting requests advance.       *)

\* Mutant: the recursion does not end at the root.
Ascend_PastRoot(c) ==
  /\ intents' = [intents EXCEPT ![c.mode] =
       [n \in Path |-> IF n = Parent(c.at) THEN @[n] \ {c.request} ELSE @[n]]]
  /\ call' = [c EXCEPT !.at = Parent(c.at)]
  /\ UNCHANGED held_locks

\* Mutant: the parent keeps the intent.
Ascend_IntentKept(c) ==
  /\ call' = IF Len(c.at) > 1 THEN [c EXCEPT !.at = Parent(c.at)] ELSE NoCall
  /\ held_locks' = IF Len(c.at) > 1 THEN held_locks ELSE
       [held_locks EXCEPT ![c.requester] = @ \ {<<c.path, c.mode>>}]
  /\ UNCHANGED intents

\* Mutant: Lock_Forest::release does not call remove_held_lock.
Ascend_HeldLockKept(c) ==
  /\ intents' = [intents EXCEPT ![c.mode] =
       [n \in Path |-> IF Len(c.at) > 1 /\ n = Parent(c.at)
                        THEN @[n] \ {c.request} ELSE @[n]]]
  /\ call' = IF Len(c.at) > 1 THEN [c EXCEPT !.at = Parent(c.at)] ELSE NoCall
  /\ UNCHANGED held_locks

\* The release has finished with node c.at: its parent loses the intent, or
\* the root returns and Lock_Forest::release updates held_locks.
Ascend(c) ==
  \/ /\ Len(c.at) > 1
     /\ intents' = [intents EXCEPT ![c.mode][Parent(c.at)] = @ \ {c.request}]
     /\ call' = [c EXCEPT !.at = Parent(c.at)]
     /\ UNCHANGED held_locks
  \/ /\ Len(c.at) = 1
     /\ call' = NoCall
     /\ held_locks' = [held_locks EXCEPT ![c.requester] = @ \ {<<c.path, c.mode>>}]
     /\ UNCHANGED intents

\* The lock is held.  Of several equal ones any may be taken.
ReleaseHeld(p, path, mode) ==
  /\ \E r \in lockers[mode][path] :
       /\ r.requester = p
       /\ \A q \in lockers[mode][path] : q.requester = p => r.serial <= q.serial
       /\ lockers' = [lockers EXCEPT ![mode][path] = @ \ {r}]
       /\ call' = [requester |-> p, path |-> path, mode |-> mode,
                   request |-> r, at |-> path]
  /\ UNCHANGED <<exists, intents, lock_requests, held_locks, requester_destroyed>>

\* The positions in n's queue that Lock::release takes for the request to
\* remove.  The request's own path is not compared.
Matches(p, mode, n) ==
  {i \in DOMAIN lock_requests[n] : /\ lock_requests[n][i].mode = mode
                                   /\ lock_requests[n][i].requester = p}

\* The lock is not held, but a request waits at a node of the path.  The
\* queue it is removed from is not looked at again.
ReleaseQueued(p, path, mode) ==
  /\ \A r \in lockers[mode][path] : r.requester # p
  /\ \E n \in Path : \E i \in Matches(p, mode, n) :
       /\ AtOrAbove(n, path)
       /\ \A k \in Path : Above(n, k) /\ AtOrAbove(k, path)
                            => Matches(p, mode, k) = {}
       /\ \A j \in Matches(p, mode, n) : i <= j
       /\ lock_requests' = [lock_requests EXCEPT ![n] = Erased(@, i)]
       /\ requester_destroyed' = requester_destroyed \ {lock_requests[n][i]}
       /\ Ascend([requester |-> p, path |-> path, mode |-> mode,
                  request |-> lock_requests[n][i], at |-> n])
  /\ UNCHANGED <<exists, lockers>>

ReleaseNotHeld(p, path, mode) ==
  /\ \A r \in lockers[mode][path] : r.requester # p
  /\ \A n \in Path : AtOrAbove(n, path) => Matches(p, mode, n) = {}
  /\ UNCHANGED <<forest, held_locks, requester_destroyed, call>>

Release(p, path, mode) ==
  \/ ReleaseHeld(p, path, mode)
  \/ ReleaseQueued(p, path, mode)
  \/ ReleaseNotHeld(p, path, mode)

\* backend::release_lock
ReleaseLock(p, path, mode) ==
  /\ Idle
  /\ p \in Processes
  /\ MayDrop(p, lockers[mode][path])
  /\ Release(p, path, mode)
  /\ UNCHANGED <<Processes, dying, todo, answered_requests>>

\* Mutant: a request that acquires its lock stays in the queue.
GrantHead_NotPopped ==
  /\ call # NoCall
  /\ lock_requests[call.at] # <<>>
  /\ LET n == call.at
         r == Head(lock_requests[n])
     IN  \/ /\ Acquired(r, n)
            /\ answered_requests' = answered_requests \cup
                 {[request |-> r, status |-> "ACQUIRED"]}
            /\ UNCHANGED lock_requests
         \/ /\ NonExistent(r, n)
            /\ lock_requests' = [lock_requests EXCEPT ![n] = Tail(@)]
            /\ answered_requests' = answered_requests \cup
                 {[request |-> r, status |-> "NON_EXISTENT"]}
  /\ UNCHANGED <<Processes, held_locks, requester_destroyed, call, dying, todo>>

\* One iteration of the loop at the end of Lock::release: the head of the
\* queue of the current node acquires what it waits for, or advances to a
\* queue further down, or turns out to want a lock that does not exist.
GrantHead ==
  /\ call # NoCall
  /\ lock_requests[call.at] # <<>>
  /\ LET n == call.at
         r == Head(lock_requests[n])
         rest == [lock_requests EXCEPT ![n] = Tail(@)]
     IN  \/ /\ Acquired(r, n)
            /\ lock_requests' = rest
            /\ answered_requests' = answered_requests \cup
                 {[request |-> r, status |-> "ACQUIRED"]}
         \/ /\ NonExistent(r, n)
            /\ lock_requests' = rest
            /\ answered_requests' = answered_requests \cup
                 {[request |-> r, status |-> "NON_EXISTENT"]}
         \/ \E k \in Path \ {n} :
              /\ WaitsAt(r, n, k)
              /\ lock_requests' = [rest EXCEPT ![k] = Append(@, r)]
              /\ UNCHANGED answered_requests
  /\ UNCHANGED <<Processes, held_locks, requester_destroyed, call, dying, todo>>

\* Mutant: the loop may end with a head that is not blocked.
GrantDone_Early ==
  /\ call # NoCall
  /\ Ascend(call)
  /\ UNCHANGED <<exists, lockers, lock_requests, Processes, requester_destroyed,
                 dying, todo, answered_requests>>

\* The loop ends: the queue is empty or its head is still blocked here.
GrantDone ==
  /\ call # NoCall
  /\ lock_requests[call.at] # <<>> =>
       Blocked(Head(lock_requests[call.at]), call.at)
  /\ Ascend(call)
  /\ UNCHANGED <<exists, lockers, lock_requests, Processes, requester_destroyed,
                 dying, todo, answered_requests>>

-----------------------------------------------------------------------------
(* Process_map::try_destroy.  It releases the locks in a copy of the       *)
(* process' held_locks, as often as it takes to leave none, and deletes    *)
(* the process.                                                            *)

\* backend::unregister_process
UnregisterProcess(p) ==
  /\ Idle
  /\ p \in Processes
  /\ \/ "cancel" \in Liberties
     \/ \A r \in Queued : r.requester # p
  /\ dying' = p
  /\ todo' = held_locks[p]
  /\ UNCHANGED <<forest, Processes, held_locks, requester_destroyed, call,
                 answered_requests>>

\* The next lock of the copy.  The code takes them in the order of std::set.
DestroyReleases ==
  /\ dying # NoProcess
  /\ call = NoCall
  /\ \E lock \in todo :
       /\ Release(dying, lock[1], lock[2])
       /\ todo' = todo \ {lock}
  /\ UNCHANGED <<Processes, dying, answered_requests>>

\* Locks are left after the copy was worked through: the loop starts again.
DestroyRepeats ==
  /\ dying # NoProcess
  /\ call = NoCall
  /\ todo = {}
  /\ held_locks[dying] # {}
  /\ todo' = held_locks[dying]
  /\ UNCHANGED <<forest, Processes, held_locks, requester_destroyed, call, dying,
                 answered_requests>>

\* Mutant: the process is deleted before its locks are released.
DestroyDone_LocksKept ==
  /\ dying # NoProcess
  /\ call = NoCall
  /\ Processes' = Processes \ {dying}
  /\ dying' = NoProcess
  /\ UNCHANGED <<forest, held_locks, requester_destroyed, call, todo, answered_requests>>

\* Mutant: the destructor does not mark the requests.
DestroyDone_Unmarked ==
  /\ dying # NoProcess
  /\ call = NoCall
  /\ todo = {}
  /\ held_locks[dying] = {}
  /\ Processes' = Processes \ {dying}
  /\ dying' = NoProcess
  /\ UNCHANGED <<forest, held_locks, requester_destroyed, call, todo, answered_requests>>

\* delete p.  The destructor marks the process' requests that still exist, in
\* the queues or in the set of answered requests.
DestroyDone ==
  /\ dying # NoProcess
  /\ call = NoCall
  /\ todo = {}
  /\ held_locks[dying] = {}
  /\ Processes' = Processes \ {dying}
  /\ requester_destroyed' = requester_destroyed \cup
       {r \in Queued \cup {a.request : a \in answered_requests} :
          r.requester = dying}
  /\ dying' = NoProcess
  /\ UNCHANGED <<forest, held_locks, call, todo, answered_requests>>

\* daemon::notify_answered_requests, at the end of both handlers.  The request
\* objects go away with the set.
Notify ==
  /\ call = NoCall
  /\ dying = NoProcess
  /\ answered_requests # {}
  /\ requester_destroyed' = requester_destroyed \ {a.request : a \in answered_requests}
  /\ answered_requests' = {}
  /\ UNCHANGED <<forest, Processes, held_locks, call, dying, todo>>

-----------------------------------------------------------------------------
Init ==
  /\ exists = {}
  /\ lockers = [m \in Mode |-> [n \in Path |-> {}]]
  /\ intents = [m \in Mode |-> [n \in Path |-> {}]]
  /\ lock_requests = [n \in Path |-> <<>>]
  /\ Processes = {}
  /\ held_locks = [p \in Process |-> {}]
  /\ requester_destroyed = {}
  /\ call = NoCall
  /\ dying = NoProcess
  /\ todo = {}
  /\ answered_requests = {}

\* What a client asks for starts a handler.
Client ==
  \E p \in Process :
    \/ RegisterProcess(p)
    \/ UnregisterProcess(p)
    \/ \E path \in Path :
         \/ CreateLock(p, path)
         \/ CreateNotHeld(p, path)
         \/ \E mode \in Modes : \/ AcquireLock(p, path, mode)
                                \/ ReleaseLock(p, path, mode)

\* The steps that the event loop thread takes by itself.
Server ==
  \/ GrantHead
  \/ GrantDone
  \/ DestroyReleases
  \/ DestroyRepeats
  \/ DestroyDone
  \/ Notify

Next == Client \/ Server

Spec == Init /\ [][Next]_vars

\* A handler that was started keeps running: nothing else is done by the
\* thread, and no step of it waits for anything.
FairSpec == Spec /\ WF_vars(Server)

-----------------------------------------------------------------------------
(* Properties.                                                             *)

\* Type invariant of the backend's data structures.
TypeOK ==
  /\ exists \subseteq Path
  /\ lockers \in [Mode -> [Path -> SUBSET Lock_Request]]
  /\ intents \in [Mode -> [Path -> SUBSET Lock_Request]]
  /\ lock_requests \in [Path -> Seq(Lock_Request)]
  /\ Processes \subseteq Process
  /\ held_locks \in [Process -> SUBSET (Path \X Mode)]
  /\ requester_destroyed \subseteq Lock_Request
  /\ call \in Call \cup {NoCall}
  /\ dying \in Process \cup {NoProcess}
  /\ todo \subseteq Path \X Mode
  /\ answered_requests \subseteq Answer

\* Which locks may be held at the same time on one node, or on two nodes one
\* of which is above the other.
Compatible(q, r) ==
  \/ {q.mode, r.mode} \in {{"S"}, {"S", "Splus"}}
  \/ {q.mode, r.mode} = {"Splus", "X"} /\ q.requester = r.requester

\* Multiple granularity locking works: of two locks held on the same node or
\* on a node and one below it, neither excludes the other.  X excludes all
\* but the holder's own S+, and S+ excludes S+.  This is what the checks in
\* Lock::acquire and the intents are for; no single node shows it.
HierarchicalExclusion ==
  \A q, r \in Held :
    q # r /\ AtOrAbove(q.path, r.path) => Compatible(q, r)

\* Whoever holds a lock or waits at a node has its intent on every node above.
\* Lock::release and the undoing of intents in Lock::acquire erase
\* lockers_I*.find(p) without a check, which is undefined for an absent p.
IntentsCover ==
  /\ \A r \in Held, n \in Path :
       Above(n, r.path) => r \in intents[r.mode][n]
  /\ \A k \in Path : \A i \in DOMAIN lock_requests[k] : \A n \in Path :
       LET r == lock_requests[k][i]
       IN  Above(n, k) => r \in intents[r.mode][n]
  /\ call # NoCall =>
       \A n \in Path : Above(n, call.at) =>
                         call.request \in intents[call.mode][n]

\* A request is in one place: it holds its lock, or waits once in one queue, or
\* is the one being released, or was answered in this handler.
OnePlace ==
  /\ Held \cap Queued = {}
  /\ \A m, n \in Path :
       \A i \in DOMAIN lock_requests[m], j \in DOMAIN lock_requests[n] :
         lock_requests[m][i] = lock_requests[n][j] => m = n /\ i = j
  /\ call # NoCall => call.request \notin Held \cup Queued
  /\ \A a \in answered_requests : a.request \notin Queued

\* What a lock or an intent is recorded for agrees with the request's mode and
\* path.
Placed ==
  /\ \A m \in Mode, n \in Path :
       \A r \in lockers[m][n] : r.mode = m /\ r.path = n
  /\ \A n \in Path : \A i \in DOMAIN lock_requests[n] :
       AtOrAbove(n, lock_requests[n][i].path)
  /\ call # NoCall => call.mode = call.request.mode

\* The locks and intents recorded at one node agree with each other.
NodeConsistent(n) ==
  /\ \A m \in {"Splus", "X"} : \A q, r \in lockers[m][n] : q = r
  /\ lockers["S"][n] # {} => lockers["X"][n] = {} /\ intents["X"][n] = {}
  /\ \A x \in lockers["X"][n] :
       /\ intents["S"][n] = {}
       /\ intents["X"][n] = {}
       /\ Only(x.requester, lockers["Splus"][n])
       /\ Only(x.requester, intents["Splus"][n])
  /\ \A x \in lockers["Splus"][n] :
       /\ intents["Splus"][n] = {}
       /\ Only(x.requester, intents["X"][n])

\* The inductive invariant behind HierarchicalExclusion.
LockInv ==
  /\ TypeOK
  /\ Placed
  /\ OnePlace
  /\ IntentsCover
  /\ \A n \in Path : NodeConsistent(n)

\* Only what is still in use is left behind: between two handlers every intent
\* belongs to a lock that is held or to a request that waits.  (debian/changelog,
\* 1.0.6: "Fixed stale intent locks after trying to acquire non-existent locks.")
NoStaleIntents ==
  Idle => \A m \in Mode, n \in Path : intents[m][n] \subseteq Held \cup Queued

\* No wake-up is lost: between two handlers the head of every queue is blocked
\* at its node.  Lock::release must have looked at every queue whose node lost
\* a lock or an intent, at the right moment.
NoLostWakeup ==
  Idle => \A n \in Path : lock_requests[n] # <<>> =>
            Blocked(Head(lock_requests[n]), n)

\* Process::held_locks is the list of what unregistering has to release: it
\* names exactly the locks the process holds or waits for.
HeldLocksExact ==
  Idle => \A p \in Process :
            held_locks[p] = {<<r.path, r.mode>> : r \in Outstanding(p)}

\* A process leaves nothing behind.  (Process_map.h: "all held locks are
\* released automatically before the process is destroyed".)
NoLocksOfTheDead ==
  \A r \in Held \cup Queued : r.requester \in Processes

\* notify_answered_requests follows the requester pointer of a request unless
\* the request was marked.  An unmarked pointer is valid, now and when the
\* request is answered.
NoDanglingRequester ==
  \A r \in Queued \cup {a.request : a \in answered_requests} :
    r \in requester_destroyed \/ r.requester \in Processes

\* Process p has an X lock around node n, and nobody else has a lock above n.
Protects(p, n) ==
  \E x \in Held :
    /\ x.mode = "X"
    /\ x.requester = p
    /\ AtOrAbove(x.path, n) \/ AtOrAbove(n, x.path)
    /\ \A r \in Held : Above(r.path, n) => r.requester = p

\* Process p creates the locks that appear in this step: it has asked for them
\* without wanting to hold them, or it gets the lock that it has asked for.
CreatedBy(p) ==
  \/ \E path \in Path : CreateNotHeld(p, path)
  \/ \E r \in Held' \ Held : r.requester = p

\* Subtrees are protected: where a lock appears, the process that creates it holds
\* an X lock around it and nobody else holds a lock above it.  Lock::create_not_held
\* looks for its caller in locker_X only; the intents and the other nodes must
\* exclude the rest.  (Lock_Forest::create: "We can create it only if we can
\* acquire it. Otherwise we are not able to protect the new lock.")
NewNodesProtected ==
  \A n \in exists' \ exists :
    /\ \E p \in Process : CreatedBy(p)
    /\ \A p \in Process : CreatedBy(p) => Protects(p, n)'

NoPhantoms == [][NewNodesProtected]_vars

\* Every handler ends, so the event loop gets to the next message: again and again
\* no handler is at work.  The release of a lock reaches the root and the loop of
\* try_destroy empties held_locks.
HandlerEnds == []<>Idle

\* Unregistering a process ends.  (Process_map.h: "all held locks are released
\* automatically before the process is destroyed".)
UnregisterEnds == \A p \in Process : dying = p ~> dying # p

=============================================================================
