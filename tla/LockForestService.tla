------------------------- MODULE LockForestService --------------------------
(***************************************************************************)
(* LockForest implements LockService, for every forest, any processes and  *)
(* any behaviour of clients.  The proof follows the steps of LockForest:   *)
(* first what each does to the queues and to the locks as sets, then that  *)
(* this is a step of the service.  That a lock is grantable follows from   *)
(* the exclusion of the locks that are held after the step.                *)
(***************************************************************************)
EXTENDS LockForestInvariant, LockRefinement

-----------------------------------------------------------------------------
(* Queues as sets.                                                         *)

\* R has what Q has and r; R has what Q has but r.
OneMore(R, Q, r) == \A x : InQueue(x, R) <=> InQueue(x, Q) \/ x = r
OneLess(R, Q, r) ==
  InQueue(r, Q) /\ \A x : InQueue(x, R) <=> InQueue(x, Q) /\ x # r

\* A request at the end of a queue is one more.
LEMMA AppendMembers ==
  ASSUME NEW Q \in [Path -> Seq(Lock_Request)], NEW r \in Lock_Request, NEW k \in Path,
         NEW R, R = [Q EXCEPT ![k] = Append(@, r)]
  PROVE  OneMore(R, Q, r)
<1>1. R[k] = Append(Q[k], r) /\ Q[k] \in Seq(Lock_Request)
  OBVIOUS
<1>2. /\ Len(Q[k]) + 1 \in DOMAIN R[k]
      /\ R[k][Len(Q[k]) + 1] = r
      /\ \A i \in DOMAIN Q[k] : i \in DOMAIN R[k] /\ R[k][i] = Q[k][i]
      /\ \A i \in DOMAIN R[k] : R[k][i] = r \/ (i \in DOMAIN Q[k] /\ R[k][i] = Q[k][i])
  BY <1>1
<1>3. \A n \in Path : n # k => R[n] = Q[n]
  OBVIOUS
<1>4. InQueue(r, R)
  BY <1>2 DEF InQueue
<1>5. ASSUME NEW x, InQueue(x, Q) PROVE InQueue(x, R)
  BY <1>2, <1>3, <1>5 DEF InQueue
<1>6. ASSUME NEW x, InQueue(x, R) PROVE InQueue(x, Q) \/ x = r
  BY <1>2, <1>3, <1>6 DEF InQueue
<1>. QED BY <1>4, <1>5, <1>6, Zenon DEF OneMore

\* Without its head a queue has one less.
LEMMA TailMembers ==
  ASSUME NEW Q \in [Path -> Seq(Lock_Request)], Distinct(Q), NEW k \in Path, Q[k] # <<>>,
         NEW R, R = [Q EXCEPT ![k] = Tail(@)]
  PROVE  OneLess(R, Q, Head(Q[k]))
<1>. DEFINE r == Head(Q[k])
<1>1. R[k] = Tail(Q[k]) /\ Q[k] \in Seq(Lock_Request) /\ r \in Lock_Request
  OBVIOUS
<1>2. /\ 1 \in DOMAIN Q[k] /\ Q[k][1] = r
      /\ \A i \in DOMAIN Q[k] : i = 1 \/ (i - 1 \in DOMAIN R[k] /\ R[k][i - 1] = Q[k][i])
  BY <1>1
<1>3. \A n \in Path : n # k => R[n] = Q[n]
  OBVIOUS
<1>4. R \in [Path -> Seq(Lock_Request)]
  BY <1>1
<1>5. ~InQueue(r, R) /\ Entries(R, Q)
  BY <1>1, <1>4, TailQueue, Zenon
<1>6. InQueue(r, Q)
  BY <1>2 DEF InQueue
<1>7. ASSUME NEW x, InQueue(x, Q), x # r PROVE InQueue(x, R)
  <2>1. PICK n \in Path : \E i \in DOMAIN Q[n] : x = Q[n][i]
    BY <1>7 DEF InQueue
  <2>2. PICK i \in DOMAIN Q[n] : x = Q[n][i]
    BY <2>1
  <2>3. CASE n = k
    <3>1. i - 1 \in DOMAIN R[k] /\ R[k][i - 1] = x
      BY <1>2, <1>7, <2>2, <2>3
    <3>. QED BY <3>1 DEF InQueue
  <2>4. CASE n # k
    BY <1>3, <2>2, <2>4 DEF InQueue
  <2>. QED BY <2>3, <2>4
<1>8. ASSUME NEW x, InQueue(x, R) PROVE InQueue(x, Q)
  BY <1>5, <1>8 DEF InQueue, Entries
<1>. QED BY <1>5, <1>6, <1>7, <1>8, Zenon DEF OneLess

\* Without the entry at some position, too.
LEMMA RemoveMembers ==
  ASSUME NEW Q \in [Path -> Seq(Lock_Request)], Distinct(Q),
         NEW k \in Path, NEW p \in DOMAIN Q[k],
         NEW R, R = [Q EXCEPT ![k] = Erased(@, p)]
  PROVE  OneLess(R, Q, Q[k][p])
<1>. DEFINE r == Q[k][p]
<1>1. R[k] = Erased(Q[k], p) /\ Q[k] \in Seq(Lock_Request) /\ p \in 1..Len(Q[k])
  OBVIOUS
<1>2. /\ R[k] \in Seq(Lock_Request) /\ Len(R[k]) = Len(Q[k]) - 1
      /\ \A j \in 1..Len(Q[k]) - 1 : R[k][j] = IF j < p THEN Q[k][j] ELSE Q[k][j + 1]
  BY <1>1, ErasedProperties, Zenon
<1>3. \A i \in DOMAIN Q[k] : \/ i = p
                             \/ i \in DOMAIN R[k] /\ R[k][i] = Q[k][i]
                             \/ i - 1 \in DOMAIN R[k] /\ R[k][i - 1] = Q[k][i]
  <2>. SUFFICES ASSUME NEW i \in 1..Len(Q[k]), i # p
                PROVE  \/ i \in 1..Len(R[k]) /\ R[k][i] = Q[k][i]
                       \/ i - 1 \in 1..Len(R[k]) /\ R[k][i - 1] = Q[k][i]
    BY <1>1, <1>2, SMTT(20)
  <2>1. CASE i < p
    BY <1>1, <1>2, <2>1
  <2>2. CASE i > p
    BY <1>1, <1>2, <2>2
  <2>. QED BY <1>1, <2>1, <2>2
<1>4. \A n \in Path : n # k => R[n] = Q[n]
  OBVIOUS
<1>5. ~InQueue(r, R) /\ Entries(R, Q)
  BY RemoveQueue, Zenon
<1>6. InQueue(r, Q)
  BY DEF InQueue
<1>7. ASSUME NEW x, InQueue(x, Q), x # r PROVE InQueue(x, R)
  <2>1. PICK n \in Path : \E i \in DOMAIN Q[n] : x = Q[n][i]
    BY <1>7 DEF InQueue
  <2>. QED BY <1>3, <1>4, <1>7, <2>1 DEF InQueue
<1>8. ASSUME NEW x, InQueue(x, R) PROVE InQueue(x, Q)
  BY <1>5, <1>8 DEF InQueue, Entries
<1>. QED BY <1>5, <1>6, <1>7, <1>8, Zenon DEF OneLess

-----------------------------------------------------------------------------
(* Steps as steps of the service.                                          *)

\* Lock::acquire grants one lock, which nothing that is held excludes.
LEMMA AcquireGrants ==
  ASSUME LockInv, LockInv', NEW r \in Lock_Request, NEW n, AtOrAbove(n, r.path),
         Acquired(r, n), r \notin Held
  PROVE  Held' = Held \cup {r} /\ \A q \in Held : ~Excludes(q, r)
<1>1. r.mode \in Mode /\ r.path \in Path
  BY DEF Lock_Request
<1>2. lockers \in [Mode -> [Path -> SUBSET Lock_Request]]
  BY DEF LockInv, TypeOK
<1>3. r.mode = "S" \/ lockers[r.mode][r.path] = {}
  <2>1. r.path \in Walk(r, n)
    BY <1>1, PrefixRefl DEF Walk, Between
  <2>2. CanLock(r.requester, r.mode, r.path)
    BY <2>1 DEF Acquired, Stops, Blocked
  <2>. QED BY <1>1, <2>2 DEF CanLock, Mode
<1>4. lockers' = [lockers EXCEPT ![r.mode][r.path] = @ \cup {r}]
  BY <1>3, Zenon DEF Acquired
<1>5. \A m \in Mode, k \in Path :
        \/ lockers'[m][k] = lockers[m][k] /\ (m # r.mode \/ k # r.path)
        \/ lockers'[m][k] = lockers[m][k] \cup {r}
  BY <1>1, <1>2, <1>4
<1>6. ASSUME NEW x PROVE x \in Held' <=> x \in Held \/ x = r
  <2>1. r \in Held'
    BY <1>1, <1>5, HeldMembers
  <2>2. ASSUME x \in Held PROVE x \in Held'
    <3>1. PICK m \in Mode, k \in Path : x \in lockers[m][k]
      BY <2>2, HeldMembers
    <3>. QED BY <1>5, <3>1, HeldMembers
  <2>3. ASSUME x \in Held', x # r PROVE x \in Held
    <3>1. PICK m \in Mode, k \in Path : x \in lockers'[m][k]
      BY <2>3, HeldMembers
    <3>2. x \in lockers[m][k]
      BY <1>5, <2>3, <3>1
    <3>. QED BY <3>2, HeldMembers
  <2>. QED BY <2>1, <2>2, <2>3
<1>7. Held' = Held \cup {r}
  BY <1>6
<1>8. HierarchicalExclusion'
  BY ExclusionLemma, PTL
<1>9. ASSUME NEW q \in Held PROVE ~Excludes(q, r)
  <2>1. /\ AtOrAbove(q.path, r.path) => Compatible(q, r)
        /\ AtOrAbove(r.path, q.path) => Compatible(r, q)
    BY <1>7, <1>8, <1>9, Zenon DEF HierarchicalExclusion, Compatible
  <2>2. Compatible(r, q) => Compatible(q, r)
    BY DEF Compatible
  <2>. QED BY <2>1, <2>2 DEF Excludes
<1>. QED BY <1>7, <1>9

\* A new request is granted or waits.
LEMMA RequestServes ==
  ASSUME LockInv, LockInv', NEW r \in Lock_Request, NewRequest(r), Request(r, Root(r.path))
  PROVE  Service!Next
<1>1. r \notin Held \cup Queued
  BY DEF NewRequest, Traces
<1>2. CASE Acquired(r, Root(r.path)) /\ UNCHANGED lock_requests
  <2>1. AtOrAbove(Root(r.path), r.path)
    BY RootPrefix, PrefixRefl DEF Lock_Request
  <2>2. Held' = Held \cup {r} /\ \A q \in Held : ~Excludes(q, r)
    BY <1>1, <1>2, <2>1, AcquireGrants
  <2>3. Queued' = Queued
    BY <1>2 DEF Queued
  <2>. QED BY <1>1, <2>2, <2>3 DEF Service!Next, Service!Obtain, Service!Grantable
<1>3. ASSUME NEW k \in Path, WaitsAt(r, Root(r.path), k),
             lock_requests' = [lock_requests EXCEPT ![k] = Append(@, r)]
      PROVE  Service!Next
  <2>1. Held' = Held
    BY <1>3 DEF WaitsAt, Held
  <2>2. lock_requests \in [Path -> Seq(Lock_Request)]
    BY DEF LockInv, TypeOK
  <2>3. OneMore(lock_requests', lock_requests, r)
    BY <1>3, <2>2, AppendMembers, Zenon
  <2>4. Queued' = Queued \cup {r}
    BY <2>3, QueuedMembers, Zenon DEF InQueue, OneMore
  <2>. QED BY <1>1, <2>1, <2>4 DEF Service!Next, Service!Wait
<1>. QED BY <1>2, <1>3 DEF Request

\* Lock::release gives back one lock, or withdraws one request, or finds none.
LEMMA ReleaseServes ==
  ASSUME LockInv, NEW p, NEW path \in Path, NEW mode \in Mode, Release(p, path, mode)
  PROVE  Service!Next \/ UNCHANGED <<Queued, Held>>
<1>0. TypeOK /\ Placed /\ OnePlace
  BY DEF LockInv
<1>1. CASE ReleaseHeld(p, path, mode)
  <2>1. PICK r \in lockers[mode][path] : lockers' = [lockers EXCEPT ![mode][path] = @ \ {r}]
    BY <1>1, Zenon DEF ReleaseHeld
  <2>2. \A m \in Mode, k \in Path :
          \/ lockers'[m][k] = lockers[m][k] /\ (m # mode \/ k # path)
          \/ lockers'[m][k] = lockers[m][k] \ {r}
    BY <1>0, <2>1 DEF TypeOK
  <2>3. \A m \in Mode, k \in Path : r \in lockers[m][k] => m = mode /\ k = path
    BY <1>0 DEF Placed
  <2>4. ASSUME NEW x PROVE x \in Held' <=> x \in Held /\ x # r
    <3>1. ASSUME x \in Held, x # r PROVE x \in Held'
      <4>1. PICK m \in Mode, k \in Path : x \in lockers[m][k]
        BY <3>1, HeldMembers
      <4>. QED BY <2>2, <3>1, <4>1, HeldMembers
    <3>2. ASSUME x \in Held' PROVE x \in Held /\ x # r
      <4>1. PICK m \in Mode, k \in Path : x \in lockers'[m][k]
        BY <3>2, HeldMembers
      <4>2. x \in lockers[m][k] /\ x # r
        BY <2>2, <2>3, <4>1
      <4>. QED BY <4>2, HeldMembers
    <3>. QED BY <3>1, <3>2
  <2>5. r \in Held /\ r \in Lock_Request
    BY <1>0, HeldMembers, RequestsTyped
  <2>6. Queued' = Queued
    BY <1>1 DEF ReleaseHeld, Queued
  <2>. QED BY <2>4, <2>5, <2>6 DEF Service!Next, Service!GiveBack
<1>2. CASE ReleaseQueued(p, path, mode)
  <2>1. PICK n \in Path : \E i \in Matches(p, mode, n) :
          lock_requests' = [lock_requests EXCEPT ![n] = Erased(@, i)]
    BY <1>2, Zenon DEF ReleaseQueued
  <2>2. PICK i \in DOMAIN lock_requests[n] :
          lock_requests' = [lock_requests EXCEPT ![n] = Erased(@, i)]
    BY <2>1, Zenon DEF Matches
  <2>. DEFINE r == lock_requests[n][i]
  <2>3. lock_requests \in [Path -> Seq(Lock_Request)] /\ Distinct(lock_requests)
    BY <1>0 DEF TypeOK, OnePlace, Distinct
  <2>4. OneLess(lock_requests', lock_requests, r)
    BY <2>2, <2>3, RemoveMembers, Zenon
  <2>. HIDE DEF r
  <2>5. r \in Queued /\ Queued' = Queued \ {r}
    BY <2>4, QueuedMembers, Zenon DEF InQueue, OneLess
  <2>6. r \in Lock_Request
    BY <1>0, <2>5, RequestsTyped
  <2>7. Held' = Held
    BY <1>2 DEF ReleaseQueued, Held
  <2>. QED BY <2>5, <2>6, <2>7 DEF Service!Next, Service!Withdraw
<1>3. CASE ReleaseNotHeld(p, path, mode)
  BY <1>3 DEF ReleaseNotHeld, forest, Queued, Held
<1>. QED BY <1>1, <1>2, <1>3 DEF Release

\* One iteration of the loop in Lock::release grants one request, or withdraws
\* it, or moves it to another queue.
LEMMA GrantHeadServes ==
  ASSUME LockInv, LockInv', GrantHead
  PROVE  Service!Next \/ UNCHANGED <<Queued, Held>>
<1>0. TypeOK /\ Placed /\ OnePlace
  BY DEF LockInv
<1>. DEFINE n == call.at
            r == Head(lock_requests[n])
            rest == [lock_requests EXCEPT ![n] = Tail(@)]
<1>1. call # NoCall /\ lock_requests[n] # <<>> /\ n \in Path
  BY <1>0, Zenon DEF GrantHead, TypeOK, Call
<1>2. lock_requests \in [Path -> Seq(Lock_Request)] /\ Distinct(lock_requests)
  BY <1>0 DEF TypeOK, OnePlace, Distinct
<1>3. \/ Acquired(r, n) /\ lock_requests' = rest
      \/ NonExistent(r, n) /\ lock_requests' = rest
      \/ \E k \in Path : /\ WaitsAt(r, n, k)
                         /\ lock_requests' = [rest EXCEPT ![k] = Append(@, r)]
  BY Zenon DEF GrantHead
<1>4. OneLess(rest, lock_requests, r)
  BY <1>1, <1>2, TailMembers, Zenon
<1>5. rest \in [Path -> Seq(Lock_Request)] /\ r \in Lock_Request
  BY <1>1, <1>2
<1>6. AtOrAbove(n, r.path)
  <2>1. 1 \in DOMAIN lock_requests[n] /\ r = lock_requests[n][1]
    BY <1>1, <1>2
  <2>. QED BY <1>0, <1>1, <2>1, Zenon DEF Placed
<1>. HIDE DEF r, rest, n
<1>7. r \in Queued /\ r \notin Held
  BY <1>0, <1>4, QueuedMembers DEF InQueue, OneLess, OnePlace
<1>8. ASSUME lock_requests' = rest PROVE Queued' = Queued \ {r}
  BY <1>4, <1>8, QueuedMembers DEF InQueue, OneLess
<1>9. CASE Acquired(r, n) /\ lock_requests' = rest
  <2>1. Held' = Held \cup {r} /\ \A q \in Held : ~Excludes(q, r)
    BY <1>5, <1>6, <1>7, <1>9, AcquireGrants
  <2>. QED BY <1>5, <1>7, <1>8, <1>9, <2>1
              DEF Service!Next, Service!Grant, Service!Grantable
<1>10. CASE NonExistent(r, n) /\ lock_requests' = rest
  <2>1. Held' = Held
    BY <1>10 DEF NonExistent, Held
  <2>. QED BY <1>5, <1>7, <1>8, <1>10, <2>1 DEF Service!Next, Service!Withdraw
<1>11. ASSUME NEW k \in Path, WaitsAt(r, n, k),
              lock_requests' = [rest EXCEPT ![k] = Append(@, r)]
       PROVE  UNCHANGED <<Queued, Held>>
  <2>1. Held' = Held
    BY <1>11 DEF WaitsAt, Held
  <2>2. OneMore(lock_requests', rest, r)
    BY <1>5, <1>11, AppendMembers, Zenon
  <2>3. \A x : InQueue(x, lock_requests') <=> InQueue(x, lock_requests)
    BY <1>4, <2>2 DEF OneLess, OneMore
  <2>4. Queued' = Queued
    BY <2>3, QueuedMembers, Zenon DEF InQueue
  <2>. QED BY <2>1, <2>4
<1>. QED BY <1>3, <1>9, <1>10, <1>11

\* Every step of the backend is a step of the service or does not concern it.
LEMMA NextServes ==
  ASSUME LockInv, LockInv', [Next]_vars
  PROVE  Service!Next \/ UNCHANGED <<Queued, Held>>
<1>0. LockInv /\ LockInv' /\ TypeOK
  BY DEF LockInv
<1>m. Modes \subseteq Mode
  BY BoundAssumption DEF Mode
<1>. DEFINE Goal == Service!Next \/ UNCHANGED <<Queued, Held>>
<1>1. ASSUME UNCHANGED <<lockers, lock_requests>> PROVE Goal
  BY <1>1 DEF Queued, Held
<1>2. ASSUME NEW r \in Lock_Request, NewRequest(r), Request(r, Root(r.path)) PROVE Goal
  BY <1>0, <1>2, RequestServes
<1>3. ASSUME NEW p \in Process, NEW path \in Path, NEW mode \in Mode,
             Release(p, path, mode)
      PROVE  Goal
  BY <1>0, <1>3, ReleaseServes
<1>. SUFFICES Goal
  OBVIOUS
<1>. HIDE DEF Goal
<1>4. ASSUME NEW p \in Process, NEW path \in Path, CreateLock(p, path) PROVE Goal
  <2>. DEFINE r(s) == [mode |-> "X", requester |-> p, path |-> path,
                       create_missing |-> TRUE, serial |-> s]
  <2>1. PICK s \in Serial : NewRequest(r(s)) /\ Request(r(s), Root(path))
    BY <1>4, Zenon DEF CreateLock
  <2>2. r(s) \in Lock_Request /\ r(s).path = path
    BY DEF Lock_Request, Mode
  <2>. HIDE DEF r
  <2>. QED BY <1>2, <2>1, <2>2
<1>5. ASSUME NEW p \in Process, NEW path \in Path, NEW mode \in Mode,
             AcquireLock(p, path, mode)
      PROVE  Goal
  <2>. DEFINE r(s) == [mode |-> mode, requester |-> p, path |-> path,
                       create_missing |-> FALSE, serial |-> s]
  <2>1. PICK s \in Serial :
          /\ NewRequest(r(s))
          /\ \/ Request(r(s), Root(path))
             \/ NonExistent(r(s), Root(path)) /\ UNCHANGED <<lock_requests, held_locks>>
    BY <1>5, Zenon DEF AcquireLock
  <2>2. r(s) \in Lock_Request /\ r(s).path = path
    BY DEF Lock_Request
  <2>. HIDE DEF r
  <2>3. CASE Request(r(s), Root(path))
    BY <1>2, <2>1, <2>2, <2>3
  <2>4. CASE NonExistent(r(s), Root(path)) /\ UNCHANGED lock_requests
    BY <1>1, <2>4 DEF NonExistent
  <2>. QED BY <2>1, <2>3, <2>4
<1>6. ASSUME NEW p \in Process, NEW path \in Path, NEW mode \in Mode,
             ReleaseLock(p, path, mode)
      PROVE  Goal
  BY <1>3, <1>6 DEF ReleaseLock
<1>7. ASSUME NEW p \in Process,
             \/ RegisterProcess(p) \/ UnregisterProcess(p)
             \/ \E path \in Path : CreateNotHeld(p, path)
      PROVE  Goal
  BY <1>1, <1>7 DEF RegisterProcess, UnregisterProcess, CreateNotHeld, forest
<1>8. CASE Client
  BY <1>m, <1>4, <1>5, <1>6, <1>7, <1>8 DEF Client
<1>9. CASE GrantHead
  BY <1>0, <1>9, GrantHeadServes DEF Goal
<1>10. CASE DestroyReleases
  <2>1. PICK lock \in todo : Release(dying, lock[1], lock[2])
    BY <1>10 DEF DestroyReleases
  <2>2. dying \in Process /\ lock[1] \in Path /\ lock[2] \in Mode
    BY <1>0, <1>10, <2>1 DEF DestroyReleases, TypeOK
  <2>. QED BY <1>3, <2>1, <2>2
<1>11. CASE GrantDone \/ DestroyRepeats \/ DestroyDone \/ Notify
  BY <1>1, <1>11 DEF GrantDone, DestroyRepeats, DestroyDone, Notify, forest
<1>12. CASE UNCHANGED vars
  BY <1>1, <1>12 DEF vars, forest
<1>. QED BY <1>8, <1>9, <1>10, <1>11, <1>12 DEF Next, Server

\* Lock_Forest, Lock and Process_map together are a lock service: every request
\* is granted only when nothing granted excludes it, and none is lost, duplicated
\* or made up.
THEOREM Implementation == Spec => ImplementsService
<1>1. Init => Service!Init
  <2>. SUFFICES ASSUME Init PROVE Service!Init
    OBVIOUS
  <2>1. \A m \in Mode, n \in Path : lockers[m][n] = {}
    BY DEF Init
  <2>2. \A n \in Path : lock_requests[n] = <<>>
    BY DEF Init
  <2>3. Held = {}
    BY <2>1, HeldMembers, Zenon
  <2>4. Queued = {}
    BY <2>2, QueuedMembers
  <2>. QED BY <2>3, <2>4 DEF Service!Init
<1>2. LockInv /\ LockInv' /\ [Next]_vars => [Service!Next]_<<Queued, Held>>
  BY NextServes
<1>. QED BY <1>1, <1>2, LockInvariant, PTL DEF Spec, Service!Spec, ImplementsService

=============================================================================
