-------------------------- MODULE LockForestMoves ---------------------------
(***************************************************************************)
(* Theorems about where a step may take a request or a lock, from the      *)
(* inductive invariant of LockForestInvariant:                             *)
(*                                                                         *)
(*   Requesters     no request with a dangling requester is answered       *)
(*   Phantoms       locks appear only where their creator protects them    *)
(*   Wakeups        no wake-up is lost                                     *)
(*                                                                         *)
(* The last one does not hold for all clients.  It leaves out the liberty  *)
(* "cancel", releasing or unregistering while a request waits.             *)
(***************************************************************************)
EXTENDS LockForestInvariant

-----------------------------------------------------------------------------

\* Where requests go in the loop at the end of Lock::release.
LEMMA GrantHeadMoves ==
  ASSUME LockInv, GrantHead
  PROVE  /\ requester_destroyed' = requester_destroyed /\ Processes' = Processes
         /\ \A q \in Queued' : q \in Queued
         /\ \A a \in answered_requests' : a \in answered_requests \/ a.request \in Queued
<1>. DEFINE n == call.at
            r == Head(lock_requests[n])
            rest == [lock_requests EXCEPT ![n] = Tail(@)]
<1>1. call # NoCall /\ lock_requests[n] # <<>> /\ n \in Path
  BY DEF GrantHead, LockInv, TypeOK, Call
<1>2. lock_requests \in [Path -> Seq(Lock_Request)]
  BY DEF LockInv, TypeOK
<1>3. 1 \in DOMAIN lock_requests[n] /\ r = lock_requests[n][1]
  BY <1>1, <1>2
<1>4. r \in Queued
  BY <1>1, <1>3, QueuedMembers
<1>5. \A k \in Path : \A i \in DOMAIN rest[k] : rest[k][i] \in Queued
  <2>1. \A k \in Path : \A i \in DOMAIN rest[k] :
          \E j \in DOMAIN lock_requests[k] : rest[k][i] = lock_requests[k][j]
    <3>. TAKE k \in Path
    <3>1. CASE k = n
      BY <1>1, <1>2, <3>1
    <3>2. CASE k # n
      BY <1>1, <1>2, <3>2
    <3>. QED BY <3>1, <3>2
  <2>. QED BY <2>1, QueuedMembers
<1>6. rest \in [Path -> Seq(Lock_Request)] /\ r \in Lock_Request
  BY <1>1, <1>2
<1>7. /\ requester_destroyed' = requester_destroyed /\ Processes' = Processes
      /\ \/ lock_requests' = rest
         \/ \E k \in Path : lock_requests' = [rest EXCEPT ![k] = Append(@, r)]
      /\ \A a \in answered_requests' : a \in answered_requests \/ a.request = r
  <2>1. requester_destroyed' = requester_destroyed /\ Processes' = Processes
    BY Zenon DEF GrantHead
  <2>2. \/ lock_requests' = rest
        \/ \E k \in Path : lock_requests' = [rest EXCEPT ![k] = Append(@, r)]
    BY Zenon DEF GrantHead
  <2>3. \/ answered_requests' = answered_requests
        \/ answered_requests' = answered_requests \cup {[request |-> r, status |-> "ACQUIRED"]}
        \/ answered_requests' = answered_requests \cup
             {[request |-> r, status |-> "NON_EXISTENT"]}
    BY Zenon DEF GrantHead
  <2>4. \A a \in answered_requests' : a \in answered_requests \/ a.request = r
    BY <2>3
  <2>. QED BY <2>1, <2>2, <2>4, Zenon
<1>. HIDE DEF r, rest, n
<1>8. ASSUME NEW q \in Queued' PROVE q \in Queued
  <2>1. CASE lock_requests' = rest
    BY <1>5, <2>1, QueuedMembers
  <2>2. ASSUME NEW k \in Path, lock_requests' = [rest EXCEPT ![k] = Append(@, r)]
        PROVE  q \in Queued
    <3>1. \A l \in Path : \A i \in DOMAIN lock_requests'[l] :
            \/ lock_requests'[l][i] = r
            \/ i \in DOMAIN rest[l] /\ lock_requests'[l][i] = rest[l][i]
      BY <1>6, <2>2
    <3>. QED BY <1>4, <1>5, <3>1, QueuedMembers
  <2>. QED BY <1>7, <2>1, <2>2
<1>. QED BY <1>4, <1>7, <1>8

\* Where requests go in Lock::release.
LEMMA ReleaseMoves ==
  ASSUME LockInv, call = NoCall, NEW p \in Process, NEW path \in Path, NEW mode \in Mode,
         Release(p, path, mode),
         UNCHANGED <<Processes, dying, answered_requests>>,
         todo' \subseteq Path \X Mode
  PROVE  /\ exists' = exists
         /\ \/ /\ requester_destroyed' = requester_destroyed
               /\ \A q \in Queued' : q \in Queued
            \/ \E x \in Queued : /\ requester_destroyed' = requester_destroyed \ {x}
                                 /\ \A q \in Queued' : q \in Queued /\ q # x
<1>1. CASE ReleaseHeld(p, path, mode)
  BY <1>1 DEF ReleaseHeld, Queued
<1>2. CASE ReleaseQueued(p, path, mode)
  <2>1. exists' = exists
    BY <1>2 DEF ReleaseQueued
  <2>. QED BY <1>2, <2>1, ReleaseQueuedInv
<1>3. CASE ReleaseNotHeld(p, path, mode)
  BY <1>3 DEF ReleaseNotHeld, forest, Queued
<1>. QED BY <1>1, <1>2, <1>3 DEF Release

\* Where a new request goes.
LEMMA RequestMoves ==
  ASSUME TypeOK, NEW r \in Lock_Request, NEW root, Request(r, root)
  PROVE  \A q \in Queued' : q \in Queued \/ q = r
<1>1. CASE UNCHANGED lock_requests
  BY <1>1 DEF Queued
<1>2. ASSUME NEW k \in Path, lock_requests' = [lock_requests EXCEPT ![k] = Append(@, r)]
      PROVE  \A q \in Queued' : q \in Queued \/ q = r
  <2>1. lock_requests \in [Path -> Seq(Lock_Request)]
    BY DEF TypeOK
  <2>2. \A l \in Path : \A i \in DOMAIN lock_requests'[l] :
          \/ lock_requests'[l][i] = r
          \/ i \in DOMAIN lock_requests[l] /\ lock_requests'[l][i] = lock_requests[l][i]
    BY <1>2, <2>1
  <2>. QED BY <2>2, QueuedMembers
<1>. QED BY <1>1, <1>2 DEF Request

\* Who asks for missing locks to be created asks for an X lock.
CreatorsExclusive ==
  \A r \in Queued : r.create_missing => r.mode = "X"

\* Where requests go in one step, whatever it is.
LEMMA MovesNext ==
  ASSUME LockInv, [Next]_vars
  PROVE  \/ /\ \A q \in Queued' : \/ q \in Queued
                                 \/ /\ q.requester \in Processes
                                    /\ q.create_missing => q.mode = "X"
            /\ \A a \in answered_requests' : a \in answered_requests \/ a.request \in Queued
            /\ requester_destroyed' = requester_destroyed
            /\ Processes \subseteq Processes'
         \/ /\ \E x \in Queued : /\ requester_destroyed' = requester_destroyed \ {x}
                                 /\ \A q \in Queued' : q \in Queued /\ q # x
            /\ UNCHANGED <<Processes, answered_requests>>
         \/ DestroyDone
         \/ Notify
<1>0. LockInv /\ TypeOK
  BY DEF LockInv
<1>m. Modes \subseteq Mode
  BY BoundAssumption DEF Mode
<1>. DEFINE Goal ==
       \/ /\ \A q \in Queued' : \/ q \in Queued
                                \/ /\ q.requester \in Processes
                                   /\ q.create_missing => q.mode = "X"
          /\ \A a \in answered_requests' : a \in answered_requests \/ a.request \in Queued
          /\ requester_destroyed' = requester_destroyed
          /\ Processes \subseteq Processes'
       \/ /\ \E x \in Queued : /\ requester_destroyed' = requester_destroyed \ {x}
                               /\ \A q \in Queued' : q \in Queued /\ q # x
          /\ UNCHANGED <<Processes, answered_requests>>
       \/ DestroyDone
       \/ Notify
<1>1. ASSUME UNCHANGED <<lock_requests, requester_destroyed, answered_requests>>,
             Processes \subseteq Processes'
      PROVE  Goal
  BY <1>1 DEF Queued
<1>2. ASSUME NEW p \in Process, RegisterProcess(p) \/ UnregisterProcess(p) PROVE Goal
  BY <1>1, <1>2 DEF RegisterProcess, UnregisterProcess, forest, handler
<1>3. ASSUME NEW p \in Process, NEW path \in Path, CreateLock(p, path) PROVE Goal
  <2>1. PICK s \in Serial :
          Request([mode |-> "X", requester |-> p, path |-> path,
                   create_missing |-> TRUE, serial |-> s], Root(path))
    BY <1>3, Zenon DEF CreateLock
  <2>. DEFINE r == [mode |-> "X", requester |-> p, path |-> path,
                    create_missing |-> TRUE, serial |-> s]
  <2>2. r \in Lock_Request /\ r.requester = p /\ r.mode = "X"
    BY DEF Lock_Request, Mode
  <2>3. Request(r, Root(path))
    BY <2>1
  <2>. HIDE DEF r
  <2>4. \A q \in Queued' : q \in Queued \/ q = r
    BY <1>0, <2>2, <2>3, RequestMoves
  <2>. QED BY <1>3, <2>2, <2>4 DEF CreateLock, handler
<1>4. ASSUME NEW p \in Process, NEW path \in Path, CreateNotHeld(p, path) PROVE Goal
  BY <1>1, <1>4 DEF CreateNotHeld, handler
<1>5. ASSUME NEW p \in Process, NEW path \in Path, NEW mode \in Mode,
             AcquireLock(p, path, mode)
      PROVE  Goal
  <2>1. PICK s \in Serial :
          LET r == [mode |-> mode, requester |-> p, path |-> path,
                    create_missing |-> FALSE, serial |-> s]
          IN  \/ Request(r, Root(path))
              \/ UNCHANGED lock_requests
    BY <1>5, Zenon DEF AcquireLock
  <2>. DEFINE r == [mode |-> mode, requester |-> p, path |-> path,
                    create_missing |-> FALSE, serial |-> s]
  <2>2. r \in Lock_Request /\ r.requester = p /\ r.create_missing = FALSE
    BY DEF Lock_Request
  <2>3. Request(r, Root(path)) \/ UNCHANGED lock_requests
    BY <2>1
  <2>. HIDE DEF r
  <2>4. CASE Request(r, Root(path))
    <3>1. \A q \in Queued' : q \in Queued \/ q = r
      BY <1>0, <2>2, <2>4, RequestMoves
    <3>. QED BY <1>5, <2>2, <3>1 DEF AcquireLock, handler
  <2>5. CASE UNCHANGED lock_requests
    BY <1>1, <1>5, <2>5, Zenon DEF AcquireLock, handler
  <2>. QED BY <2>3, <2>4, <2>5
<1>6. ASSUME NEW p \in Process, NEW path \in Path, NEW mode \in Mode,
             call = NoCall, Release(p, path, mode),
             UNCHANGED <<Processes, dying, answered_requests>>,
             todo' \subseteq Path \X Mode
      PROVE  Goal
  BY <1>0, <1>6, ReleaseMoves
<1>7. ASSUME NEW p \in Process, NEW path \in Path, NEW mode \in Mode,
             ReleaseLock(p, path, mode)
      PROVE  Goal
  <2>1. /\ call = NoCall /\ Release(p, path, mode)
        /\ UNCHANGED <<Processes, dying, answered_requests>>
        /\ todo' \subseteq Path \X Mode
    BY <1>0, <1>7 DEF ReleaseLock, Idle, TypeOK
  <2>. QED BY <1>6, <2>1
<1>8. CASE GrantHead
  BY <1>0, <1>8, GrantHeadMoves
<1>9. CASE GrantDone
  BY <1>1, <1>9 DEF GrantDone
<1>10. CASE DestroyReleases
  <2>1. PICK lock \in todo : Release(dying, lock[1], lock[2]) /\ todo' = todo \ {lock}
    BY <1>10 DEF DestroyReleases
  <2>2. /\ call = NoCall /\ dying \in Process
        /\ UNCHANGED <<Processes, dying, answered_requests>>
    BY <1>0, <1>10 DEF DestroyReleases, TypeOK
  <2>3. lock[1] \in Path /\ lock[2] \in Mode /\ todo' \subseteq Path \X Mode
    BY <1>0, <2>1 DEF TypeOK
  <2>. QED BY <1>6, <2>1, <2>2, <2>3
<1>11. CASE DestroyRepeats
  BY <1>1, <1>11 DEF DestroyRepeats, forest
<1>12. CASE UNCHANGED vars
  BY <1>1, <1>12 DEF vars, forest, handler
<1>13. CASE Client
  BY <1>m, <1>2, <1>3, <1>4, <1>5, <1>7, <1>13 DEF Client
<1>14. CASE Server
  BY <1>8, <1>9, <1>10, <1>11, <1>14 DEF Server
<1>. QED BY <1>12, <1>13, <1>14 DEF Next

\* Every step leaves unmarked requesters valid.
LEMMA RequestersNext ==
  ASSUME LockInv, NoDanglingRequester, [Next]_vars
  PROVE  NoDanglingRequester'
<1>0. OnePlace
  BY DEF LockInv
<1>1. CASE /\ \A q \in Queued' : q \in Queued \/ q.requester \in Processes
           /\ \A a \in answered_requests' : a \in answered_requests \/ a.request \in Queued
           /\ requester_destroyed' = requester_destroyed
           /\ Processes \subseteq Processes'
  BY <1>1 DEF NoDanglingRequester
<1>2. CASE /\ \E x \in Queued : /\ requester_destroyed' = requester_destroyed \ {x}
                                /\ \A q \in Queued' : q \in Queued /\ q # x
           /\ UNCHANGED <<Processes, answered_requests>>
  BY <1>0, <1>2 DEF NoDanglingRequester, OnePlace
<1>3. CASE DestroyDone
  <2>1. Queued' = Queued /\ answered_requests' = answered_requests
    BY <1>3 DEF DestroyDone, forest, Queued
  <2>. QED BY <1>3, <2>1 DEF DestroyDone, NoDanglingRequester
<1>4. CASE Notify
  <2>1. Queued' = Queued /\ answered_requests' = {}
    BY <1>4 DEF Notify, forest, Queued
  <2>. QED BY <1>0, <1>4, <2>1 DEF Notify, NoDanglingRequester, OnePlace
<1>. QED BY <1>1, <1>2, <1>3, <1>4, MovesNext

\* daemon::notify_answered_requests never follows a dangling requester pointer:
\* Process::~Process marks every request that can still be answered.
THEOREM Requesters == Spec => []NoDanglingRequester
<1>1. Init => NoDanglingRequester
  BY QueuedMembers DEF Init, NoDanglingRequester
<1>2. LockInv /\ NoDanglingRequester /\ [Next]_vars => NoDanglingRequester'
  BY RequestersNext
<1>. QED BY <1>1, <1>2, LockInvariant, PTL DEF Spec

-----------------------------------------------------------------------------

\* Every step preserves CreatorsExclusive.
LEMMA CreatorsNext ==
  ASSUME LockInv, CreatorsExclusive, [Next]_vars
  PROVE  CreatorsExclusive'
<1>1. CASE DestroyDone \/ Notify
  <2>1. Queued' = Queued
    BY <1>1 DEF DestroyDone, Notify, forest, Queued
  <2>. QED BY <2>1 DEF CreatorsExclusive
<1>2. CASE ~(DestroyDone \/ Notify)
  BY <1>2, MovesNext DEF CreatorsExclusive
<1>. QED BY <1>1, <1>2

\* A request that acquires its lock is the one that gets a lock in this step.
LEMMA AcquiredCreates ==
  ASSUME TypeOK, NEW r \in Lock_Request, NEW n, Acquired(r, n), r \notin Held
  PROVE  /\ r \in Held' /\ r.requester \in Process /\ CreatedBy(r.requester)
         /\ \A p \in Process : CreatedBy(p) => p = r.requester
<1>1. r.mode \in Mode /\ r.path \in Path /\ r.requester \in Process
  BY DEF Lock_Request
<1>2. r \in Held'
  <2>1. r \in lockers'[r.mode][r.path]
    BY <1>1 DEF Acquired, TypeOK
  <2>. QED BY <1>1, <2>1, HeldMembers
<1>3. ASSUME NEW x \in Held', x \notin Held PROVE x = r
  <2>1. PICK m \in Mode, l \in Path : x \in lockers'[m][l]
    BY HeldMembers
  <2>2. x \in lockers[m][l] \/ x = r
    BY <1>1, <2>1 DEF Acquired, TypeOK
  <2>. QED BY <1>3, <2>1, <2>2, HeldMembers
<1>4. ASSUME NEW p \in Process, NEW path \in Path, CreateNotHeld(p, path) PROVE FALSE
  <2>1. lockers' = lockers
    BY <1>4 DEF CreateNotHeld
  <2>2. Held' = Held
    BY <2>1 DEF Held
  <2>. QED BY <1>2, <2>2
<1>. QED BY <1>1, <1>2, <1>3, <1>4 DEF CreatedBy

\* A node that appears while r acquires its lock is protected by r's requester.
LEMMA AcquiredProtects ==
  ASSUME LockInv', TypeOK, NEW r \in Lock_Request, NEW n, Acquired(r, n), r \notin Held,
         r.create_missing => r.mode = "X"
  PROVE  NewNodesProtected
<1>. SUFFICES ASSUME NEW k \in exists' \ exists
              PROVE  Protects(r.requester, k)'
  BY AcquiredCreates DEF NewNodesProtected
<1>1. r.mode \in Mode /\ r.path \in Path
  BY DEF Lock_Request
<1>2. k \in Path /\ AtOrAbove(k, r.path) /\ k \in Walk(r, n)
  BY DEF Acquired, Walk, Between
<1>3. r.mode = "X"
  BY <1>2 DEF Acquired, Stops
<1>4. r \in Held'
  BY AcquiredCreates
<1>5. HierarchicalExclusion'
  BY ExclusionLemma, PTL
<1>6. ASSUME NEW q \in Held', Above(q.path, k)
      PROVE  q.requester = r.requester
  <2>1. q.path \in Path
    <3>1. PICK m \in Mode, l \in Path : q \in lockers'[m][l]
      BY HeldMembers
    <3>2. Placed'
      BY Zenon DEF LockInv
    <3>. QED BY <3>1, <3>2 DEF Placed
  <2>2. AtOrAbove(q.path, r.path) /\ q # r
    BY <1>1, <1>2, <1>6, <2>1, PrefixTrans, PrefixAntisym DEF Above
  <2>3. Compatible(q, r)
    BY <1>4, <1>5, <2>2 DEF HierarchicalExclusion, Compatible
  <2>. QED BY <1>3, <2>3 DEF Compatible
<1>. QED BY <1>2, <1>3, <1>4, <1>6 DEF Protects

\* A node that Lock::create_not_held creates is protected by the X lock that it
\* found, which is its caller's.
LEMMA NotHeldProtects ==
  ASSUME LockInv, LockInv', NEW p \in Process, NEW path \in Path, CreateNotHeld(p, path),
         NEW k \in exists' \ exists
  PROVE  Protects(p, k)'
<1>0. TypeOK /\ Placed
  BY DEF LockInv
<1>1. k \in Path /\ AtOrAbove(k, path)
  BY DEF CreateNotHeld, Between
<1>2. PICK n \in exists : /\ Above(n, path)
                          /\ \E x \in lockers["X"][n] : x.requester = p
  BY DEF CreateNotHeld
<1>3. PICK x \in lockers["X"][n] : x.requester = p
  BY <1>2
<1>4. n \in Path /\ "X" \in Mode /\ lockers' = lockers
  BY <1>0 DEF TypeOK, Mode, CreateNotHeld
<1>5. x \in Held' /\ x.mode = "X" /\ x.path = n
  BY <1>0, <1>3, <1>4, HeldMembers DEF Placed
<1>6. AtOrAbove(n, path) /\ (AtOrAbove(n, k) \/ AtOrAbove(k, n))
  BY <1>1, <1>2, <1>4, PrefixChain DEF Above
<1>7. HierarchicalExclusion'
  BY ExclusionLemma, PTL
<1>8. ASSUME NEW q \in Held', Above(q.path, k)
      PROVE  q.requester = p
  <2>1. q.path \in Path
    <3>1. PICK m \in Mode, l \in Path : q \in lockers'[m][l]
      BY HeldMembers
    <3>2. Placed'
      BY Zenon DEF LockInv
    <3>. QED BY <3>1, <3>2 DEF Placed
  <2>2. AtOrAbove(q.path, x.path) \/ AtOrAbove(x.path, q.path)
    BY <1>1, <1>4, <1>5, <1>6, <1>8, <2>1, PrefixTrans, PrefixChain DEF Above
  <2>3. CASE q # x
    <3>1. Compatible(q, x) \/ Compatible(x, q)
      BY <1>5, <1>7, <2>2, <2>3 DEF HierarchicalExclusion, Compatible
    <3>. QED BY <1>3, <1>5, <3>1 DEF Compatible
  <2>. QED BY <1>3, <2>3
<1>. QED BY <1>3, <1>5, <1>6, <1>8 DEF Protects

\* Every step protects the nodes it creates.
LEMMA PhantomsNext ==
  ASSUME LockInv, LockInv', CreatorsExclusive, Next
  PROVE  NewNodesProtected
<1>0. LockInv /\ TypeOK
  BY DEF LockInv
<1>m. Modes \subseteq Mode
  BY BoundAssumption DEF Mode
<1>1. ASSUME exists' = exists PROVE NewNodesProtected
  BY <1>1 DEF NewNodesProtected
<1>2. ASSUME NEW p \in Process, RegisterProcess(p) \/ UnregisterProcess(p)
      PROVE  NewNodesProtected
  BY <1>1, <1>2 DEF RegisterProcess, UnregisterProcess, forest
<1>3. ASSUME NEW r \in Lock_Request, NEW root, r.create_missing => r.mode = "X",
             Request(r, root), NewRequest(r)
      PROVE  NewNodesProtected
  <2>1. CASE Acquired(r, root)
    BY <1>0, <1>3, <2>1, AcquiredProtects DEF NewRequest, Traces
  <2>2. CASE \E k \in Path : WaitsAt(r, root, k)
    BY <1>1, <2>2 DEF WaitsAt
  <2>. QED BY <1>3, <2>1, <2>2 DEF Request
<1>4. ASSUME NEW p \in Process, NEW path \in Path, CreateLock(p, path)
      PROVE  NewNodesProtected
  <2>1. PICK s \in Serial :
          LET r == [mode |-> "X", requester |-> p, path |-> path,
                    create_missing |-> TRUE, serial |-> s]
          IN  NewRequest(r) /\ Request(r, Root(path))
    BY <1>4, Zenon DEF CreateLock
  <2>. DEFINE r == [mode |-> "X", requester |-> p, path |-> path,
                    create_missing |-> TRUE, serial |-> s]
  <2>2. r \in Lock_Request /\ r.mode = "X"
    BY DEF Lock_Request, Mode
  <2>3. NewRequest(r) /\ Request(r, Root(path))
    BY <2>1
  <2>. HIDE DEF r
  <2>. QED BY <1>3, <2>2, <2>3
<1>5. ASSUME NEW p \in Process, NEW path \in Path, NEW mode \in Mode,
             AcquireLock(p, path, mode)
      PROVE  NewNodesProtected
  <2>1. PICK s \in Serial :
          LET r == [mode |-> mode, requester |-> p, path |-> path,
                    create_missing |-> FALSE, serial |-> s]
          IN  /\ NewRequest(r)
              /\ Request(r, Root(path)) \/ NonExistent(r, Root(path))
    BY <1>5, Zenon DEF AcquireLock
  <2>. DEFINE r == [mode |-> mode, requester |-> p, path |-> path,
                    create_missing |-> FALSE, serial |-> s]
  <2>2. r \in Lock_Request /\ r.create_missing = FALSE
    BY DEF Lock_Request
  <2>3. NewRequest(r) /\ (Request(r, Root(path)) \/ NonExistent(r, Root(path)))
    BY <2>1
  <2>. HIDE DEF r
  <2>. QED BY <1>1, <1>3, <2>2, <2>3 DEF NonExistent
<1>6. ASSUME NEW p \in Process, NEW path \in Path, CreateNotHeld(p, path)
      PROVE  NewNodesProtected
  <2>1. CreatedBy(p)
    BY <1>6 DEF CreatedBy
  <2>2. Held' = Held
    BY <1>6 DEF CreateNotHeld, Held
  <2>3. ASSUME NEW o \in Process, CreatedBy(o), NEW k \in exists' \ exists
        PROVE  Protects(o, k)'
    BY <1>0, <2>2, <2>3, NotHeldProtects DEF CreatedBy
  <2>. QED BY <2>1, <2>3 DEF NewNodesProtected
<1>7. ASSUME NEW p \in Process, NEW path \in Path, NEW mode \in Mode,
             ReleaseLock(p, path, mode)
      PROVE  NewNodesProtected
  BY <1>1, <1>7 DEF ReleaseLock, Release, ReleaseHeld, ReleaseQueued, ReleaseNotHeld, forest
<1>8. CASE GrantHead
  <2>. DEFINE n == call.at
              r == Head(lock_requests[n])
  <2>1. call # NoCall /\ lock_requests[n] # <<>> /\ n \in Path
    BY <1>0, <1>8, Zenon DEF GrantHead, TypeOK, Call
  <2>2. lock_requests \in [Path -> Seq(Lock_Request)]
    BY <1>0 DEF TypeOK
  <2>3. 1 \in DOMAIN lock_requests[n] /\ r = lock_requests[n][1] /\ r \in Lock_Request
    BY <2>1, <2>2
  <2>4. Acquired(r, n) \/ NonExistent(r, n) \/ \E k \in Path : WaitsAt(r, n, k)
    BY <1>8, Zenon DEF GrantHead
  <2>. HIDE DEF r, n
  <2>5. r.create_missing => r.mode = "X"
    BY <2>1, <2>3, QueuedMembers DEF CreatorsExclusive
  <2>6. CASE Acquired(r, n)
    <3>1. r \in Queued
      BY <2>1, <2>3, QueuedMembers
    <3>2. r \notin Held
      BY <1>0, <3>1 DEF LockInv, OnePlace
    <3>. QED BY <1>0, <2>3, <2>5, <2>6, <3>2, AcquiredProtects
  <2>. QED BY <1>1, <2>4, <2>6, Zenon DEF NonExistent, WaitsAt
<1>9. CASE DestroyReleases
  BY <1>1, <1>9, Zenon DEF DestroyReleases, Release, ReleaseHeld, ReleaseQueued, ReleaseNotHeld,
                    forest
<1>10. CASE GrantDone \/ DestroyRepeats \/ DestroyDone \/ Notify
  BY <1>1, <1>10 DEF GrantDone, DestroyRepeats, DestroyDone, Notify, forest
<1>11. CASE Client
  BY <1>m, <1>2, <1>4, <1>5, <1>6, <1>7, <1>11 DEF Client
<1>12. CASE Server
  BY <1>8, <1>9, <1>10, <1>12 DEF Server
<1>. QED BY <1>11, <1>12 DEF Next

\* Lock::acquire with create_missing and Lock::create_not_held make a lock appear
\* only where the process that they create it for has an X lock around it and
\* excludes everybody else above it.
THEOREM Phantoms == Spec => NoPhantoms
<1>1. Init => CreatorsExclusive
  BY QueuedMembers DEF Init, CreatorsExclusive
<1>2. LockInv /\ CreatorsExclusive /\ [Next]_vars => CreatorsExclusive'
  BY CreatorsNext
<1>3. LockInv /\ LockInv' /\ CreatorsExclusive /\ [Next]_vars => [NewNodesProtected]_vars
  BY PhantomsNext
<1>. QED BY <1>1, <1>2, <1>3, LockInvariant, PTL DEF Spec, NoPhantoms

-----------------------------------------------------------------------------
(* Wake-ups.  A request that waits is blocked by what is recorded at its   *)
(* node.  Only Lock::release takes something away from a node, and then it *)
(* stays there until the head of the queue is blocked again.               *)

\* The head of every queue is blocked, but at the node where a release works.
HeadsBlocked ==
  \A n \in Path, r \in Lock_Request :
    /\ lock_requests[n] # <<>>
    /\ r = Head(lock_requests[n])
    /\ call # NoCall => n # call.at
    => Blocked(r, n)

\* A process that is unregistered does not wait.
DyingWaitsNot == dying # NoProcess => \A r \in Queued : r.requester # dying

\* What blocks a request blocks it as long as the node loses nothing.
LEMMA BlockedStays ==
  ASSUME NEW n \in Path, Grown(n)
  PROVE  \A r \in Lock_Request : Blocked(r, n) => Blocked(r, n)'
<1>1. /\ lockers["S"][n] \subseteq lockers'["S"][n]
      /\ lockers["Splus"][n] \subseteq lockers'["Splus"][n]
      /\ lockers["X"][n] \subseteq lockers'["X"][n]
      /\ intents["S"][n] \subseteq intents'["S"][n]
      /\ intents["Splus"][n] \subseteq intents'["Splus"][n]
      /\ intents["X"][n] \subseteq intents'["X"][n]
  BY DEF Grown, Mode
<1>2. ASSUME NEW p, NEW m, CanLock(p, m, n)' PROVE CanLock(p, m, n)
  BY <1>1, <1>2 DEF CanLock, Only
<1>3. ASSUME NEW p, NEW m, CanIntend(p, m, n)' PROVE CanIntend(p, m, n)
  BY <1>1, <1>3 DEF CanIntend, Only
<1>. QED BY <1>2, <1>3, Zenon DEF Blocked

\* A request that is queued is blocked at the node of the queue.
LEMMA WaitsBlocked ==
  ASSUME TypeOK, NEW r \in Lock_Request, NEW n, NEW k \in Path, WaitsAt(r, n, k)
  PROVE  (\A l \in Path : Grown(l)) /\ Blocked(r, k)'
<1>1. r.mode \in Mode /\ r.path \in Path
  BY DEF Lock_Request
<1>2. \A m \in Mode, l \in Path : intents[m][l] \subseteq intents'[m][l]
  BY <1>1 DEF WaitsAt, Intend, TypeOK
<1>3. \A l \in Path : Grown(l)
  BY <1>2, Zenon DEF WaitsAt, Grown
<1>4. Blocked(r, k)
  BY DEF WaitsAt, FirstStop, Stops
<1>. QED BY <1>3, <1>4, BlockedStays

\* A node that loses nothing and whose queue stays as it is.
LEMMA SameQueue ==
  ASSUME HeadsBlocked, NEW n \in Path, call # NoCall => n # call.at, Grown(n),
         lock_requests'[n] = lock_requests[n]
  PROVE  \A r \in Lock_Request : lock_requests'[n] # <<>> /\ r = Head(lock_requests'[n])
                                   => Blocked(r, n)'
<1>. TAKE r \in Lock_Request
<1>1. lock_requests[n] # <<>> /\ r = Head(lock_requests[n]) => Blocked(r, n)
  BY Zenon DEF HeadsBlocked
<1>2. Blocked(r, n) => Blocked(r, n)'
  BY BlockedStays
<1>. QED BY <1>1, <1>2, Zenon

\* A node that loses nothing and whose queue gets a request that is blocked.
LEMMA LongerQueue ==
  ASSUME HeadsBlocked, NEW n \in Path, call # NoCall => n # call.at, Grown(n),
         lock_requests[n] \in Seq(Lock_Request),
         NEW x \in Lock_Request, Blocked(x, n)',
         lock_requests'[n] = Append(lock_requests[n], x)
  PROVE  \A r \in Lock_Request : lock_requests'[n] # <<>> /\ r = Head(lock_requests'[n])
                                   => Blocked(r, n)'
<1>1. CASE lock_requests[n] = <<>>
  <2>1. Head(lock_requests'[n]) = x
    BY <1>1
  <2>. QED BY <2>1
<1>2. CASE lock_requests[n] # <<>>
  <2>1. Head(lock_requests'[n]) = Head(lock_requests[n])
    BY <1>2
  <2>. TAKE r \in Lock_Request
  <2>2. r = Head(lock_requests[n]) => Blocked(r, n)
    BY <1>2, Zenon DEF HeadsBlocked
  <2>3. Blocked(r, n) => Blocked(r, n)'
    BY BlockedStays
  <2>. QED BY <2>1, <2>2, <2>3
<1>. QED BY <1>1, <1>2

\* Lock_Forest::acquire and create append at most one request, which is blocked.
LEMMA RequestBlocked ==
  ASSUME TypeOK, HeadsBlocked, Idle, NEW r \in Lock_Request, Request(r, Root(r.path)),
         UNCHANGED handler
  PROVE  HeadsBlocked'
<1>1. call = NoCall /\ call' = NoCall /\ lock_requests \in [Path -> Seq(Lock_Request)]
  BY DEF Idle, handler, TypeOK
<1>2. r.path \in Path
  BY DEF Lock_Request
<1>. SUFFICES ASSUME NEW n \in Path
              PROVE  \A x \in Lock_Request :
                       lock_requests'[n] # <<>> /\ x = Head(lock_requests'[n])
                         => Blocked(x, n)'
  BY Zenon DEF HeadsBlocked
<1>3. CASE Acquired(r, Root(r.path)) /\ UNCHANGED lock_requests
  <2>1. AtOrAbove(Root(r.path), r.path)
    BY <1>2, PrefixRefl, RootPrefix
  <2>2. Grown(n)
    BY <1>3, <2>1, AcquiredGrows
  <2>. QED BY <1>1, <1>3, <2>2, SameQueue
<1>4. ASSUME NEW k \in Path, WaitsAt(r, Root(r.path), k),
             lock_requests' = [lock_requests EXCEPT ![k] = Append(@, r)]
      PROVE  \A x \in Lock_Request :
               lock_requests'[n] # <<>> /\ x = Head(lock_requests'[n]) => Blocked(x, n)'
  <2>1. Grown(n) /\ Blocked(r, k)'
    BY <1>4, WaitsBlocked
  <2>2. CASE n = k
    <3>1. lock_requests'[n] = Append(lock_requests[n], r) /\ lock_requests[n] \in Seq(Lock_Request)
      BY <1>1, <1>4, <2>2
    <3>2. Blocked(r, n)'
      BY <2>1, <2>2
    <3>. QED BY <1>1, <2>1, <3>1, <3>2, LongerQueue, Zenon
  <2>3. CASE n # k
    <3>1. lock_requests'[n] = lock_requests[n]
      BY <1>1, <1>4, <2>3
    <3>. QED BY <1>1, <2>1, <3>1, SameQueue, Zenon
  <2>. QED BY <2>2, <2>3
<1>. QED BY <1>3, <1>4, Zenon DEF Request

\* The loop of Lock::release moves a request from its node to a queue where it is
\* blocked, or out of the queues.
LEMMA GrantHeadBlocked ==
  ASSUME LockInv, HeadsBlocked, GrantHead
  PROVE  HeadsBlocked'
<1>. DEFINE n == call.at
            rest == [lock_requests EXCEPT ![n] = Tail(@)]
<1>1. call # NoCall /\ lock_requests[n] # <<>> /\ n \in Path /\ call' = call
  BY Zenon DEF GrantHead, LockInv, TypeOK, Call
<1>2. lock_requests \in [Path -> Seq(Lock_Request)] /\ TypeOK /\ Placed
  BY DEF LockInv, TypeOK
<1>r. PICK r \in Lock_Request : r = Head(lock_requests[n])
  BY <1>1, <1>2
<1>3. AtOrAbove(n, r.path) /\ rest \in [Path -> Seq(Lock_Request)]
  <2>1. 1 \in DOMAIN lock_requests[n] /\ r = lock_requests[n][1]
    BY <1>1, <1>2, <1>r
  <2>. QED BY <1>1, <1>2, <2>1 DEF Placed
<1>4. \/ Acquired(r, n) /\ lock_requests' = rest
      \/ NonExistent(r, n) /\ lock_requests' = rest
      \/ \E k \in Path \ {n} :
           WaitsAt(r, n, k) /\ lock_requests' = [rest EXCEPT ![k] = Append(@, r)]
  BY <1>r, Zenon DEF GrantHead
<1>. SUFFICES ASSUME NEW l \in Path, l # n
              PROVE  \A x \in Lock_Request :
                       lock_requests'[l] # <<>> /\ x = Head(lock_requests'[l])
                         => Blocked(x, l)'
  BY <1>1, Zenon DEF HeadsBlocked
<1>5. rest[l] = lock_requests[l]
  BY <1>2
<1>. HIDE DEF rest
<1>6. CASE Acquired(r, n) /\ lock_requests' = rest
  <2>1. Grown(l)
    BY <1>2, <1>3, <1>6, AcquiredGrows
  <2>2. lock_requests'[l] = lock_requests[l]
    BY <1>5, <1>6
  <2>. QED BY <2>1, <2>2, SameQueue
<1>7. CASE NonExistent(r, n) /\ lock_requests' = rest
  <2>1. Grown(l)
    BY <1>7 DEF NonExistent, Grown
  <2>2. lock_requests'[l] = lock_requests[l]
    BY <1>5, <1>7
  <2>. QED BY <2>1, <2>2, SameQueue
<1>8. ASSUME NEW k \in Path \ {n}, WaitsAt(r, n, k),
             lock_requests' = [rest EXCEPT ![k] = Append(@, r)]
      PROVE  \A x \in Lock_Request :
               lock_requests'[l] # <<>> /\ x = Head(lock_requests'[l]) => Blocked(x, l)'
  <2>1. Grown(l) /\ Blocked(r, k)'
    BY <1>2, <1>3, <1>8, WaitsBlocked
  <2>2. CASE l = k
    <3>1. lock_requests'[l] = Append(lock_requests[l], r) /\ lock_requests[l] \in Seq(Lock_Request)
      BY <1>2, <1>3, <1>5, <1>8, <2>2
    <3>2. Blocked(r, l)'
      BY <2>1, <2>2
    <3>. QED BY <2>1, <3>1, <3>2, LongerQueue, Zenon
  <2>3. CASE l # k
    <3>1. lock_requests'[l] = lock_requests[l]
      BY <1>3, <1>5, <1>8, <2>3
    <3>. QED BY <2>1, <3>1, SameQueue
  <2>. QED BY <2>2, <2>3
<1>. QED BY <1>4, <1>6, <1>7, <1>8

\* Lock::release takes a lock from the node where it goes on working.
LEMMA ReleaseHeldBlocked ==
  ASSUME TypeOK, HeadsBlocked, call = NoCall,
         NEW p \in Process, NEW path \in Path, NEW mode \in Mode,
         ReleaseHeld(p, path, mode)
  PROVE  HeadsBlocked' /\ Queued' = Queued
<1>1. PICK r \in lockers[mode][path] :
        /\ lockers' = [lockers EXCEPT ![mode][path] = @ \ {r}]
        /\ call' = [requester |-> p, path |-> path, mode |-> mode,
                    request |-> r, at |-> path]
  BY Zenon DEF ReleaseHeld
<1>2. UNCHANGED <<intents, lock_requests>>
  BY DEF ReleaseHeld
<1>3. call' # NoCall /\ call'.at = path
  <2>1. call'.at = path
    BY <1>1
  <2>2. call' \in Call
    BY <1>1 DEF Call, TypeOK
  <2>. QED BY <2>1, <2>2, SentinelAssumption
<1>4. ASSUME NEW n \in Path, n # path PROVE Grown(n)
  BY <1>1, <1>2, <1>4 DEF Grown, TypeOK
<1>5. ASSUME NEW n \in Path, n # path
      PROVE  \A x \in Lock_Request : lock_requests'[n] # <<>> /\ x = Head(lock_requests'[n])
                                       => Blocked(x, n)'
  BY <1>2, <1>4, <1>5, SameQueue, Zenon
<1>6. HeadsBlocked'
  BY <1>3, <1>5, Zenon DEF HeadsBlocked
<1>. QED BY <1>2, <1>6 DEF Queued

\* Lock::release leaves a node with its head blocked and takes an intent from
\* the node above, where it goes on working.
LEMMA GrantDoneBlocked ==
  ASSUME LockInv, HeadsBlocked, GrantDone
  PROVE  HeadsBlocked'
<1>1. /\ call \in Call /\ call # NoCall /\ call.at \in Path /\ call.mode \in Mode
      /\ Ascend(call) /\ lockers' = lockers /\ lock_requests' = lock_requests
  BY DEF GrantDone, LockInv, TypeOK, Call
<1>2. intents \in [Mode -> [Path -> SUBSET Lock_Request]]
  BY DEF LockInv, TypeOK
<1>. SUFFICES ASSUME NEW n \in Path, call' # NoCall => n # call'.at,
                     NEW r \in Lock_Request, lock_requests[n] # <<>>,
                     r = Head(lock_requests[n])
              PROVE  Blocked(r, n)'
  BY <1>1, Zenon DEF HeadsBlocked
<1>3. Blocked(r, n)
  <2>1. CASE n = call.at
    BY <2>1 DEF GrantDone
  <2>2. CASE n # call.at
    BY <2>2, Zenon DEF HeadsBlocked
  <2>. QED BY <2>1, <2>2
<1>4. Grown(n)
  <2>1. CASE UNCHANGED intents
    BY <1>1, <2>1 DEF Grown
  <2>2. CASE /\ Len(call.at) > 1
             /\ intents' = [intents EXCEPT ![call.mode][Parent(call.at)] = @ \ {call.request}]
             /\ call' = [call EXCEPT !.at = Parent(call.at)]
    <3>1. Parent(call.at) \in Path
      BY <1>1, <2>2, ParentAbove
    <3>2. call'.at = Parent(call.at) /\ call' \in Call
      BY <1>1, <2>2, <3>1 DEF Call
    <3>3. n # Parent(call.at)
      BY <3>2, SentinelAssumption
    <3>4. \A m \in Mode : intents'[m][n] = intents[m][n]
      BY <1>1, <1>2, <2>2, <3>1, <3>3
    <3>. QED BY <1>1, <3>4 DEF Grown
  <2>. QED BY <1>1, <2>1, <2>2 DEF Ascend
<1>. QED BY <1>3, <1>4, BlockedStays

\* Every step of clients that do not release or unregister what waits.
LEMMA BlockedNext ==
  ASSUME LockInv, HeadsBlocked, DyingWaitsNot, "cancel" \notin Liberties, [Next]_vars
  PROVE  HeadsBlocked' /\ DyingWaitsNot'
<1>0. TypeOK
  BY DEF LockInv
<1>m. Modes \subseteq Mode
  BY BoundAssumption DEF Mode
<1>. DEFINE Goal == HeadsBlocked' /\ DyingWaitsNot'
<1>. SUFFICES Goal
  OBVIOUS
<1>1. ASSUME UNCHANGED <<lockers, intents, lock_requests, call>> PROVE HeadsBlocked' /\ Queued' = Queued
  BY <1>1 DEF HeadsBlocked, Blocked, CanLock, CanIntend, Only, Queued
<1>2. ASSUME NEW p \in Process, RegisterProcess(p) PROVE Goal
  BY <1>1, <1>2 DEF RegisterProcess, forest, handler, DyingWaitsNot
<1>3. ASSUME NEW p \in Process, UnregisterProcess(p) PROVE Goal
  BY <1>1, <1>3 DEF UnregisterProcess, forest, DyingWaitsNot
<1>4. ASSUME NEW p \in Process, NEW path \in Path, CreateNotHeld(p, path) PROVE Goal
  BY <1>1, <1>4 DEF CreateNotHeld, handler, DyingWaitsNot
<1>5. ASSUME NEW r \in Lock_Request, Idle, Request(r, Root(r.path)), UNCHANGED handler
      PROVE  Goal
  <2>1. HeadsBlocked'
    BY <1>0, <1>5, RequestBlocked
  <2>2. dying' = NoProcess
    BY <1>5 DEF Idle, handler
  <2>. QED BY <2>1, <2>2 DEF DyingWaitsNot
<1>6. ASSUME NEW p \in Process, NEW path \in Path, CreateLock(p, path) PROVE Goal
  <2>1. PICK s \in Serial :
          Request([mode |-> "X", requester |-> p, path |-> path,
                   create_missing |-> TRUE, serial |-> s], Root(path))
    BY <1>6, Zenon DEF CreateLock
  <2>. DEFINE r == [mode |-> "X", requester |-> p, path |-> path,
                    create_missing |-> TRUE, serial |-> s]
  <2>2. r \in Lock_Request /\ r.path = path
    BY DEF Lock_Request, Mode
  <2>3. Request(r, Root(path))
    BY <2>1
  <2>. HIDE DEF r, Goal
  <2>. QED BY <1>5, <1>6, <2>2, <2>3 DEF CreateLock
<1>7. ASSUME NEW p \in Process, NEW path \in Path, NEW mode \in Mode,
             AcquireLock(p, path, mode)
      PROVE  Goal
  <2>1. PICK s \in Serial :
          LET r == [mode |-> mode, requester |-> p, path |-> path,
                    create_missing |-> FALSE, serial |-> s]
          IN  \/ Request(r, Root(path))
              \/ NonExistent(r, Root(path)) /\ UNCHANGED <<lock_requests, held_locks>>
    BY <1>7, Zenon DEF AcquireLock
  <2>. DEFINE r == [mode |-> mode, requester |-> p, path |-> path,
                    create_missing |-> FALSE, serial |-> s]
  <2>2. r \in Lock_Request /\ r.path = path
    BY DEF Lock_Request
  <2>3. \/ Request(r, Root(path))
        \/ NonExistent(r, Root(path)) /\ UNCHANGED <<lock_requests, held_locks>>
    BY <2>1
  <2>. HIDE DEF r
  <2>4. CASE Request(r, Root(path))
    <3>. HIDE DEF Goal
    <3>. QED BY <1>5, <1>7, <2>2, <2>4 DEF AcquireLock
  <2>5. CASE NonExistent(r, Root(path)) /\ UNCHANGED <<lock_requests, held_locks>>
    BY <1>1, <1>7, <2>5 DEF NonExistent, AcquireLock, handler, DyingWaitsNot
  <2>. QED BY <2>3, <2>4, <2>5
<1>8. ASSUME NEW p \in Process, NEW path \in Path, NEW mode \in Mode,
             call = NoCall, Release(p, path, mode), ~ReleaseQueued(p, path, mode),
             UNCHANGED dying
      PROVE  Goal
  <2>1. CASE ReleaseHeld(p, path, mode)
    BY <1>0, <1>8, <2>1, ReleaseHeldBlocked DEF DyingWaitsNot
  <2>2. CASE ReleaseNotHeld(p, path, mode)
    BY <1>1, <1>8, <2>2 DEF ReleaseNotHeld, forest, DyingWaitsNot
  <2>. QED BY <1>8, <2>1, <2>2 DEF Release
<1>9. ASSUME NEW p \in Process, NEW path \in Path, NEW mode \in Mode,
             ReleaseLock(p, path, mode)
      PROVE  Goal
  <2>1. ~ReleaseQueued(p, path, mode)
    BY <1>9, Zenon DEF ReleaseLock, MayDrop, ReleaseQueued
  <2>. HIDE DEF Goal
  <2>. QED BY <1>8, <1>9, <2>1 DEF ReleaseLock, Idle
<1>10. CASE GrantHead
  <2>1. HeadsBlocked' /\ \A q \in Queued' : q \in Queued
    BY <1>10, GrantHeadBlocked, GrantHeadMoves
  <2>. QED BY <1>10, <2>1, Zenon DEF GrantHead, DyingWaitsNot
<1>11. CASE GrantDone
  <2>1. HeadsBlocked'
    BY <1>11, GrantDoneBlocked
  <2>. QED BY <1>11, <2>1, Zenon DEF GrantDone, DyingWaitsNot, Queued
<1>12. CASE DestroyReleases
  <2>1. PICK lock \in todo : Release(dying, lock[1], lock[2])
    BY <1>12 DEF DestroyReleases
  <2>2. call = NoCall /\ dying \in Process /\ dying # NoProcess /\ dying' = dying
    BY <1>0, <1>12 DEF DestroyReleases, TypeOK
  <2>3. lock[1] \in Path /\ lock[2] \in Mode
    BY <1>0, <2>1 DEF TypeOK
  <2>4. ~ReleaseQueued(dying, lock[1], lock[2])
    <3>1. \A n \in Path : \A i \in DOMAIN lock_requests[n] :
            lock_requests[n][i].requester # dying
      BY <2>2, QueuedMembers DEF DyingWaitsNot
    <3>. QED BY <3>1, Zenon DEF ReleaseQueued, Matches
  <2>. HIDE DEF Goal
  <2>. QED BY <1>8, <2>1, <2>2, <2>3, <2>4
<1>13. CASE DestroyRepeats
  BY <1>1, <1>13 DEF DestroyRepeats, forest, DyingWaitsNot
<1>14. CASE DestroyDone
  BY <1>1, <1>14 DEF DestroyDone, forest, DyingWaitsNot
<1>15. CASE Notify
  BY <1>1, <1>15 DEF Notify, forest, DyingWaitsNot
<1>16. CASE UNCHANGED vars
  BY <1>1, <1>16 DEF vars, forest, handler, DyingWaitsNot
<1>. HIDE DEF Goal
<1>17. CASE Client
  BY <1>m, <1>2, <1>3, <1>4, <1>6, <1>7, <1>9, <1>17 DEF Client
<1>18. CASE Server
  BY <1>10, <1>11, <1>12, <1>13, <1>14, <1>15, <1>18 DEF Server
<1>. QED BY <1>16, <1>17, <1>18 DEF Next

\* No wake-up is lost: between two handlers the head of every queue is blocked by
\* what is recorded at its node, as long as clients do not release locks or
\* unregister while they wait.  (Lock::release does not run the queue that it
\* erases a request from.)
THEOREM Wakeups ==
  ASSUME "cancel" \notin Liberties
  PROVE  Spec => []NoLostWakeup
<1>1. Init => HeadsBlocked /\ DyingWaitsNot
  BY DEF Init, HeadsBlocked, DyingWaitsNot
<1>2. LockInv /\ HeadsBlocked /\ DyingWaitsNot /\ [Next]_vars
        => HeadsBlocked' /\ DyingWaitsNot'
  BY BlockedNext
<1>3. LockInv /\ HeadsBlocked => NoLostWakeup
  <2>. SUFFICES ASSUME LockInv, HeadsBlocked, call = NoCall, NEW n \in Path,
                       lock_requests[n] # <<>>
                PROVE  Blocked(Head(lock_requests[n]), n)
    BY DEF NoLostWakeup, Idle
  <2>1. lock_requests[n] \in Seq(Lock_Request)
    BY DEF LockInv, TypeOK
  <2>2. Head(lock_requests[n]) \in Lock_Request
    BY <2>1
  <2>. QED BY <2>2, Zenon DEF HeadsBlocked
<1>. QED BY <1>1, <1>2, <1>3, LockInvariant, PTL DEF Spec

=============================================================================
