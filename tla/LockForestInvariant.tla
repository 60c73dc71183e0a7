------------------------ MODULE LockForestInvariant -------------------------
(***************************************************************************)
(* Theorems about LockForest, for every set of processes, every forest of  *)
(* paths, every behaviour of the clients and every bound:                  *)
(*                                                                         *)
(*   LockInvariant  the inductive invariant                                *)
(*   TypeCorrect    the type invariant                                     *)
(*   Cover          intents cover the locks and requests below             *)
(*   Places         a request is in one place                              *)
(*   Exclusion      multiple granularity locking excludes what it should   *)
(***************************************************************************)
EXTENDS LockForestLemmas

-----------------------------------------------------------------------------
(* What Lock::release does to the inductive invariant LockInv: giving up a *)
(* held lock, taking back a queued request, and granting, moving or        *)
(* refusing the head of the queue.                                         *)

\* Lock::release at a node whose lock is held.
LEMMA ReleaseHeldInv ==
  ASSUME LockInv, call = NoCall, NEW p \in Process, NEW path \in Path, NEW mode \in Mode,
         ReleaseHeld(p, path, mode),
         UNCHANGED <<Processes, dying, answered_requests>>,
         todo' \subseteq Path \X Mode
  PROVE  LockInv'
<1>0. LockInv
  OBVIOUS
<1>1. TypeOK /\ Placed /\ OnePlace /\ IntentsCover /\ \A k \in Path : NodeConsistent(k)
  BY <1>0 DEF LockInv
<1>2. PICK r \in lockers[mode][path] :
        /\ lockers' = [lockers EXCEPT ![mode][path] = @ \ {r}]
        /\ call' = [requester |-> p, path |-> path, mode |-> mode,
                    request |-> r, at |-> path]
  BY Zenon DEF ReleaseHeld
<1>3. UNCHANGED <<exists, intents, lock_requests, held_locks, requester_destroyed>>
  BY DEF ReleaseHeld
<1>4. r \in Lock_Request /\ r \in Held /\ r.mode = mode /\ r.path = path
  BY <1>1, HeldMembers DEF TypeOK, Placed
<1>5. call' \in Call /\ call'.request = r /\ call'.mode = mode /\ call'.at = path
  BY <1>2, <1>4 DEF Call
<1>6. lockers' \in [Mode -> [Path -> SUBSET Lock_Request]]
  BY <1>1, <1>2 DEF TypeOK
<1>7. /\ \A m \in Mode, k \in Path : lockers'[m][k] \subseteq lockers[m][k]
      /\ r \notin lockers'[mode][path]
  BY <1>1, <1>2 DEF TypeOK
<1>8. TypeOK'
  BY <1>1, <1>3, <1>5, <1>6 DEF TypeOK
<1>9. \A q \in Held' : q \in Held /\ q # r
  <2>1. \A m \in Mode, k \in Path : \A q \in lockers'[m][k] : q \in lockers[m][k] /\ q # r
    <3>1. \A m \in Mode, k \in Path : r \in lockers[m][k] => m = mode /\ k = path
      BY <1>1, <1>4 DEF Placed
    <3>. QED BY <1>7, <3>1
  <2>. QED BY <2>1, HeldMembers
<1>10. Queued' = Queued
  BY <1>3 DEF Queued
<1>11. Placed'
  <2>1. \A m \in Mode, k \in Path : \A q \in lockers'[m][k] : q.mode = m /\ q.path = k
    BY <1>1, <1>7 DEF Placed
  <2>. QED BY <1>1, <1>3, <1>4, <1>5, <2>1 DEF Placed
<1>12. OnePlace'
  BY <1>1, <1>3, <1>4, <1>5, <1>9, <1>10 DEF OnePlace
<1>13. IntentsCover'
  BY <1>1, <1>3, <1>4, <1>5, <1>9 DEF IntentsCover
<1>14. \A k \in Path : NodeConsistent(k)'
  <2>. TAKE k \in Path
  <2>1. \A m \in Mode : lockers'[m][k] \subseteq lockers[m][k]
    BY <1>7
  <2>2. \A m \in Mode : intents'[m][k] \subseteq intents[m][k]
    BY <1>3
  <2>. QED BY <1>1, <2>1, <2>2, ShrinkConsistent
<1>. QED BY <1>8, <1>11, <1>12, <1>13, <1>14 DEF LockInv

\* A request is erased from its queue and its intent from the parent.
LEMMA TakeBackInv ==
  ASSUME LockInv, NEW c \in Call, c.request \in Queued, c.mode = c.request.mode,
         exists' = exists, lockers' = lockers, Ascend(c),
         lock_requests' \in [Path -> Seq(Lock_Request)], Distinct(lock_requests'),
         ~InQueue(c.request, lock_requests'), Entries(lock_requests', lock_requests),
         \A l \in Path : Above(l, c.at) => c.request \in intents[c.mode][l],
         requester_destroyed' \subseteq requester_destroyed,
         UNCHANGED <<Processes, dying, answered_requests>>,
         todo' \subseteq Path \X Mode
  PROVE  LockInv' /\ \A q \in Queued' : q \in Queued /\ q # c.request
<1>1. TypeOK /\ Placed /\ OnePlace /\ IntentsCover /\ \A k \in Path : NodeConsistent(k)
  BY DEF LockInv
<1>2. Held' = Held
  BY DEF Held
<1>3. \A q \in Queued' : q \in Queued /\ q # c.request
  BY QueuedMembers DEF InQueue, Entries
<1>4. c.request \notin Held' \cup Queued'
  BY <1>1, <1>2, <1>3 DEF OnePlace
<1>5. \A q \in Held', l \in Path : Above(l, q.path) => q \in intents[q.mode][l]
  BY <1>1, <1>2 DEF IntentsCover
<1>6. \A k \in Path : \A j \in DOMAIN lock_requests'[k] : \A l \in Path :
        Above(l, k) =>
          lock_requests'[k][j] \in intents[lock_requests'[k][j].mode][l]
  BY <1>1 DEF IntentsCover, Entries
<1>7. /\ IntentsCover'
      /\ intents' \in [Mode -> [Path -> SUBSET Lock_Request]]
      /\ \A m \in Mode, l \in Path : intents'[m][l] \subseteq intents[m][l]
      /\ held_locks' \in [Process -> SUBSET (Path \X Mode)]
      /\ call' \in Call \cup {NoCall}
      /\ call' # NoCall => call'.mode = c.mode /\ call'.request = c.request
  BY <1>1, <1>4, <1>5, <1>6, AscendInv, Zenon
<1>8. TypeOK'
  BY <1>1, <1>7, Zenon DEF TypeOK
<1>9. Placed'
  <2>1. \A k \in Path : \A j \in DOMAIN lock_requests'[k] :
          AtOrAbove(k, lock_requests'[k][j].path)
    BY <1>1 DEF Placed, Entries
  <2>2. \A m \in Mode, k \in Path : \A q \in lockers'[m][k] : q.mode = m /\ q.path = k
    BY <1>1 DEF Placed
  <2>. QED BY <1>7, <2>1, <2>2 DEF Placed
<1>10. OnePlace'
  BY <1>1, <1>2, <1>3, <1>4, <1>7 DEF OnePlace, Distinct
<1>11. \A k \in Path : NodeConsistent(k)'
  BY <1>1, <1>7, ShrinkConsistent, Zenon
<1>. QED BY <1>3, <1>7, <1>8, <1>9, <1>10, <1>11 DEF LockInv

\* Lock::release of a request that waits: it is the one that is erased, with its
\* mark.
LEMMA ReleaseQueuedInv ==
  ASSUME LockInv, call = NoCall, NEW p \in Process, NEW path \in Path, NEW mode \in Mode,
         ReleaseQueued(p, path, mode),
         UNCHANGED <<Processes, dying, answered_requests>>,
         todo' \subseteq Path \X Mode
  PROVE  /\ LockInv'
         /\ \E x \in Queued : /\ requester_destroyed' = requester_destroyed \ {x}
                             /\ \A q \in Queued' : q \in Queued /\ q # x
<1>0. LockInv
  OBVIOUS
<1>1. TypeOK /\ Placed /\ OnePlace /\ IntentsCover /\ \A k \in Path : NodeConsistent(k)
  BY <1>0 DEF LockInv
<1>. DEFINE removed(n, i) == lock_requests[n][i]
            step(n, i) == [requester |-> p, path |-> path, mode |-> mode,
                           request |-> removed(n, i), at |-> n]
<1>a. PICK n \in Path : \E i \in Matches(p, mode, n) :
        /\ lock_requests' = [lock_requests EXCEPT ![n] = Erased(@, i)]
        /\ requester_destroyed' = requester_destroyed \ {removed(n, i)}
        /\ Ascend(step(n, i))
  BY Zenon DEF ReleaseQueued
<1>2. PICK i \in Matches(p, mode, n) :
        /\ lock_requests' = [lock_requests EXCEPT ![n] = Erased(@, i)]
        /\ requester_destroyed' = requester_destroyed \ {removed(n, i)}
        /\ Ascend(step(n, i))
  BY <1>a, Zenon
<1>3. exists' = exists /\ lockers' = lockers
  BY Zenon DEF ReleaseQueued
<1>. DEFINE r == removed(n, i)
            c == step(n, i)
<1>4. i \in DOMAIN lock_requests[n] /\ r.mode = mode /\ r \in Queued
  BY QueuedMembers DEF Matches
<1>5. r \in Lock_Request
  BY <1>1, <1>4, RequestsTyped
<1>6. c \in Call /\ c.mode = mode /\ c.request = r /\ c.at = n
  BY <1>5 DEF Call
<1>7. lock_requests \in [Path -> Seq(Lock_Request)] /\ Distinct(lock_requests)
  BY <1>1 DEF TypeOK, OnePlace, Distinct
<1>8. /\ lock_requests' \in [Path -> Seq(Lock_Request)]
      /\ Distinct(lock_requests')
      /\ ~InQueue(r, lock_requests')
      /\ Entries(lock_requests', lock_requests)
  BY <1>2, <1>4, <1>7, RemoveQueue, Zenon
<1>9. \A l \in Path : Above(l, n) => r \in intents[mode][l]
  BY <1>1, <1>4 DEF IntentsCover
<1>10. Ascend(c) /\ requester_destroyed' = requester_destroyed \ {r}
  BY <1>2
<1>. HIDE DEF r, c, removed, step
<1>11. LockInv' /\ \A q \in Queued' : q \in Queued /\ q # r
  BY <1>3, <1>4, <1>6, <1>8, <1>9, <1>10, TakeBackInv, Zenon
<1>. QED BY <1>4, <1>10, <1>11

\* Lock::release at the node where it finds something, or nothing.
LEMMA ReleaseInv ==
  ASSUME LockInv, call = NoCall, NEW p \in Process, NEW path \in Path, NEW mode \in Mode,
         Release(p, path, mode),
         UNCHANGED <<Processes, dying, answered_requests>>,
         todo' \subseteq Path \X Mode
  PROVE  LockInv'
<1>1. CASE ReleaseHeld(p, path, mode)
  BY <1>1, ReleaseHeldInv
<1>2. CASE ReleaseQueued(p, path, mode)
  BY <1>2, ReleaseQueuedInv
<1>3. CASE ReleaseNotHeld(p, path, mode)
  <2>1. UNCHANGED <<forest, held_locks, requester_destroyed, call>>
    BY <1>3 DEF ReleaseNotHeld
  <2>2. TypeOK'
    BY <2>1 DEF LockInv, TypeOK, forest
  <2>. QED BY <2>1, <2>2, ForestUnchanged DEF forest
<1>. QED BY <1>1, <1>2, <1>3 DEF Release

\* The loop at the end of Lock::release grants, moves or refuses the head.
LEMMA GrantHeadInv ==
  ASSUME LockInv, GrantHead
  PROVE  LockInv'
<1>0. LockInv
  OBVIOUS
<1>1. TypeOK /\ Placed /\ OnePlace /\ IntentsCover /\ \A k \in Path : NodeConsistent(k)
  BY <1>0 DEF LockInv
<1>. DEFINE n == call.at
            r == Head(lock_requests[n])
            rest == [lock_requests EXCEPT ![n] = Tail(@)]
<1>2. call # NoCall /\ lock_requests[n] # <<>> /\ n \in Path
  BY <1>1, Zenon DEF GrantHead, TypeOK, Call
<1>3. lock_requests \in [Path -> Seq(Lock_Request)] /\ Distinct(lock_requests)
  BY <1>1 DEF TypeOK, OnePlace, Distinct
<1>5. /\ UNCHANGED <<Processes, held_locks, requester_destroyed, call, dying, todo>>
      /\ \/ /\ Acquired(r, n)
            /\ lock_requests' = rest
            /\ answered_requests' = answered_requests \cup
                 {[request |-> r, status |-> "ACQUIRED"]}
         \/ /\ NonExistent(r, n)
            /\ lock_requests' = rest
            /\ answered_requests' = answered_requests \cup
                 {[request |-> r, status |-> "NON_EXISTENT"]}
         \/ \E k \in Path \ {n} :
              /\ WaitsAt(r, n, k)
              /\ lock_requests' = [rest EXCEPT ![k] = Append(@, r)]
              /\ UNCHANGED answered_requests
  BY Zenon DEF GrantHead
<1>6. 1 \in DOMAIN lock_requests[n] /\ r = lock_requests[n][1]
  BY <1>2, <1>3
<1>a. r = Head(lock_requests[n]) /\ rest = [lock_requests EXCEPT ![n] = Tail(@)]
  OBVIOUS
<1>. HIDE DEF r, rest, n
<1>4. /\ r \in Lock_Request
      /\ InQueue(r, lock_requests)
      /\ rest \in [Path -> Seq(Lock_Request)]
      /\ Distinct(rest)
      /\ ~InQueue(r, rest)
      /\ Entries(rest, lock_requests)
  <2>1. r \in Lock_Request
    BY <1>2, <1>3, <1>a
  <2>2. InQueue(r, lock_requests)
    BY <1>2, <1>6 DEF InQueue
  <2>3. rest \in [Path -> Seq(Lock_Request)]
    BY <1>2, <1>3, <1>a
  <2>4. Distinct(rest) /\ ~InQueue(r, rest) /\ Entries(rest, lock_requests)
    BY <1>2, <1>3, <1>a, <2>1, <2>3, TailQueue, Zenon
  <2>. QED BY <2>1, <2>2, <2>3, <2>4
<1>7. AtOrAbove(n, r.path) /\ r.path \in Path /\ r.mode \in Mode
  BY <1>1, <1>2, <1>4, <1>6 DEF Placed, Lock_Request
<1>8. ASSUME NEW k \in Path, Above(k, r.path), ~AtOrAbove(n, k)
      PROVE  r \in intents[r.mode][k]
  <2>1. Above(k, n)
    BY <1>2, <1>7, <1>8, PrefixChain, PrefixRefl DEF Above
  <2>. QED BY <1>1, <1>2, <1>6, <2>1 DEF IntentsCover
<1>9. r \in Queued /\ r \notin Held
  BY <1>1, <1>4, QueuedMembers DEF InQueue, OnePlace
<1>10. call.request # r
  BY <1>1, <1>2, <1>9 DEF OnePlace
<1>11. \A a \in answered_requests : a.request \notin Queued
  BY <1>1 DEF OnePlace
<1>12. \A st \in {"ACQUIRED", "NON_EXISTENT"} :
         [request |-> r, status |-> st] \in Answer
  BY <1>4 DEF Answer
<1>13. ASSUME lock_requests' = rest,
              \/ answered_requests' = answered_requests \cup
                   {[request |-> r, status |-> "ACQUIRED"]}
              \/ answered_requests' = answered_requests \cup
                   {[request |-> r, status |-> "NON_EXISTENT"]}
       PROVE  /\ answered_requests' \subseteq Answer
              /\ \A q \in Queued' : q \in Queued /\ q # r
              /\ \A a \in answered_requests' : a.request \notin Queued'
  <2>1. \A q \in Queued' : q \in Queued /\ q # r
    BY <1>4, <1>13, QueuedMembers DEF InQueue, Entries
  <2>2. answered_requests' \subseteq Answer
    BY <1>1, <1>12, <1>13 DEF TypeOK
  <2>. QED BY <1>11, <1>13, <2>1, <2>2
<1>14. CASE /\ Acquired(r, n)
            /\ lock_requests' = rest
            /\ answered_requests' = answered_requests \cup
                 {[request |-> r, status |-> "ACQUIRED"]}
  <2>1. /\ exists' \subseteq Path
        /\ lockers' \in [Mode -> [Path -> SUBSET Lock_Request]]
        /\ intents' \in [Mode -> [Path -> SUBSET Lock_Request]]
        /\ \A k \in Path : NodeConsistent(k)'
    BY <1>1, <1>4, <1>7, <1>8, <1>14, AcquiredEffect, Zenon
  <2>2. TypeOK'
    BY <1>1, <1>4, <1>5, <1>13, <1>14, <2>1 DEF TypeOK
  <2>3. /\ Distinct(lock_requests') /\ ~InQueue(r, lock_requests')
        /\ Entries(lock_requests', lock_requests)
    BY <1>4, <1>14
  <2>4. \A a \in answered_requests' : a.request \notin Queued'
    BY <1>13, <1>14
  <2>5. Placed' /\ OnePlace' /\ IntentsCover'
    BY <1>0, <1>4, <1>5, <1>7, <1>8, <1>10, <1>14, <2>3, <2>4, AcquiredInv, Zenon
  <2>. QED BY <2>1, <2>2, <2>5 DEF LockInv
<1>15. CASE /\ NonExistent(r, n)
            /\ lock_requests' = rest
            /\ answered_requests' = answered_requests \cup
                 {[request |-> r, status |-> "NON_EXISTENT"]}
  <2>1. UNCHANGED <<exists, lockers, intents>>
    BY <1>15 DEF NonExistent
  <2>2. TypeOK'
    <3>1. answered_requests' \subseteq Answer
      BY <1>13, <1>15
    <3>2. lock_requests' \in [Path -> Seq(Lock_Request)]
      BY <1>4, <1>15
    <3>. QED BY <1>1, <1>5, <2>1, <3>1, <3>2 DEF TypeOK
  <2>3. Held' = Held /\ Entries(lock_requests', lock_requests) /\ Distinct(lock_requests')
    <3>1. Held' = Held
      BY <2>1, SameStanding, Zenon
    <3>2. Entries(lock_requests', lock_requests) /\ Distinct(lock_requests')
      BY <1>4, <1>15, Zenon
    <3>. QED BY <3>1, <3>2, Zenon
  <2>4. Placed'
    <3>1. \A k \in Path : \A j \in DOMAIN lock_requests'[k] :
            AtOrAbove(k, lock_requests'[k][j].path)
      BY <1>1, <2>3, Zenon DEF Placed, Entries
    <3>. QED BY <1>1, <1>5, <2>1, <3>1, Zenon DEF Placed
  <2>5. OnePlace'
    <3>1. \A q \in Queued' : q \in Queued
      BY <1>13, <1>15
    <3>2. \A a \in answered_requests' : a.request \notin Queued'
      BY <1>13, <1>15
    <3>. QED BY <1>1, <1>5, <2>3, <3>1, <3>2, Zenon DEF OnePlace, Distinct
  <2>6. IntentsCover'
    <3>1. \A k \in Path : \A j \in DOMAIN lock_requests'[k] : \A l \in Path :
            Above(l, k) =>
              lock_requests'[k][j] \in intents[lock_requests'[k][j].mode][l]
      BY <1>1, <2>3 DEF IntentsCover, Entries
    <3>. QED BY <1>1, <1>5, <2>1, <2>3, <3>1, Zenon DEF IntentsCover
  <2>7. \A k \in Path : NodeConsistent(k)'
    BY <1>1, <2>1, ShrinkConsistent, Zenon
  <2>. QED BY <2>2, <2>4, <2>5, <2>6, <2>7 DEF LockInv
<1>16. ASSUME NEW k \in Path, WaitsAt(r, n, k),
              lock_requests' = [rest EXCEPT ![k] = Append(@, r)],
              UNCHANGED answered_requests
       PROVE  LockInv'
  <2>1. /\ exists' = exists /\ lockers' = lockers
        /\ intents' \in [Mode -> [Path -> SUBSET Lock_Request]]
        /\ \A l \in Path : NodeConsistent(l)'
    BY <1>1, <1>4, <1>8, <1>16, WaitsEffect, Zenon
  <2>2. /\ lock_requests' \in [Path -> Seq(Lock_Request)]
        /\ Distinct(lock_requests')
        /\ EntriesAnd(lock_requests', rest, k, r)
    BY <1>4, <1>16, AppendQueue, Zenon
  <2>3. EntriesAnd(lock_requests', lock_requests, k, r)
    BY <1>4, <2>2, EntriesTrans
  <2>4. TypeOK'
    BY <1>1, <1>5, <1>16, <2>1, <2>2 DEF TypeOK
  <2>5. \A a \in answered_requests' : a.request \notin Queued'
    <3>1. \A q \in Queued' : q \in Queued
      BY <1>9, <2>3, QueuedMembers DEF EntriesAnd
    <3>. QED BY <1>11, <1>16, <3>1
  <2>6. Placed' /\ OnePlace' /\ IntentsCover'
    BY <1>0, <1>4, <1>5, <1>8, <1>9, <1>10, <1>16, <2>2, <2>3, <2>5, WaitsInv, Zenon
  <2>. QED BY <2>1, <2>4, <2>6 DEF LockInv
<1>. QED BY <1>5, <1>14, <1>15, <1>16

\* The end of that loop.
LEMMA GrantDoneInv ==
  ASSUME LockInv, GrantDone
  PROVE  LockInv'
<1>0. LockInv
  OBVIOUS
<1>1. TypeOK /\ Placed /\ OnePlace /\ IntentsCover /\ \A k \in Path : NodeConsistent(k)
  BY <1>0 DEF LockInv
<1>2. /\ call \in Call /\ call # NoCall /\ Ascend(call)
      /\ UNCHANGED <<exists, lockers, lock_requests, Processes, requester_destroyed,
                     dying, todo, answered_requests>>
  BY <1>1 DEF GrantDone, TypeOK
<1>3. Held' = Held /\ Queued' = Queued
  BY <1>2, SameStanding, Zenon
<1>4. /\ call.mode = call.request.mode
      /\ call.request \notin Held' \cup Queued'
      /\ \A l \in Path : Above(l, call.at) => call.request \in intents[call.mode][l]
      /\ \A q \in Held', l \in Path : Above(l, q.path) => q \in intents[q.mode][l]
      /\ \A k \in Path : \A i \in DOMAIN lock_requests'[k] : \A l \in Path :
           Above(l, k) =>
             lock_requests'[k][i] \in intents[lock_requests'[k][i].mode][l]
  BY <1>1, <1>2, <1>3, Zenon DEF Placed, OnePlace, IntentsCover
<1>5. /\ IntentsCover'
      /\ intents' \in [Mode -> [Path -> SUBSET Lock_Request]]
      /\ \A m \in Mode, l \in Path : intents'[m][l] \subseteq intents[m][l]
      /\ held_locks' \in [Process -> SUBSET (Path \X Mode)]
      /\ call' \in Call \cup {NoCall}
      /\ call' # NoCall => call'.mode = call.mode /\ call'.request = call.request
  BY <1>1, <1>2, <1>4, AscendInv, Zenon
<1>6. TypeOK'
  BY <1>1, <1>2, <1>5 DEF TypeOK
<1>7. /\ call' # NoCall => call'.mode = call'.request.mode
      /\ call' # NoCall => call'.request \notin Held' \cup Queued'
      /\ UNCHANGED <<lockers, lock_requests, answered_requests>>
  BY <1>2, <1>4, <1>5
<1>8. Placed'
  BY <1>1, <1>7 DEF Placed
<1>9. OnePlace'
  BY <1>1, <1>3, <1>7 DEF OnePlace
<1>10. \A k \in Path : NodeConsistent(k)'
  BY <1>1, <1>2, <1>5, ShrinkConsistent
<1>. QED BY <1>5, <1>6, <1>8, <1>9, <1>10 DEF LockInv

-----------------------------------------------------------------------------

\* The empty forest satisfies the invariant.
LEMMA LockInvInit ==
  ASSUME Init
  PROVE  LockInv
<1>1. TypeOK
  BY DEF Init, TypeOK
<1>2. Held = {} /\ Queued = {}
  BY HeldMembers, QueuedMembers DEF Init
<1>3. Placed /\ OnePlace /\ IntentsCover
  BY <1>2 DEF Init, Placed, OnePlace, IntentsCover
<1>4. \A n \in Path : NodeConsistent(n)
  BY DEF Init, NodeConsistent, Mode
<1>. QED BY <1>1, <1>3, <1>4 DEF LockInv

\* Every step preserves the invariant.
LEMMA LockInvNext ==
  ASSUME LockInv, [Next]_vars
  PROVE  LockInv'
<1>0. LockInv /\ TypeOK
  BY DEF LockInv
<1>m. Modes \subseteq Mode
  BY BoundAssumption DEF Mode
<1>1. ASSUME NEW p \in Process, RegisterProcess(p) PROVE LockInv'
  <2>1. TypeOK'
    BY <1>0, <1>1 DEF RegisterProcess, TypeOK, forest, handler
  <2>. QED BY <1>1, <2>1, ForestUnchanged DEF RegisterProcess, forest, handler
<1>2. ASSUME NEW p \in Process, UnregisterProcess(p) PROVE LockInv'
  <2>1. TypeOK'
    BY <1>0, <1>2 DEF UnregisterProcess, TypeOK, forest
  <2>. QED BY <1>2, <2>1, ForestUnchanged DEF UnregisterProcess, forest
<1>3. ASSUME NEW p \in Process, NEW path \in Path, CreateLock(p, path) PROVE LockInv'
  <2>1. PICK s \in Serial :
          LET r == [mode |-> "X", requester |-> p, path |-> path,
                    create_missing |-> TRUE, serial |-> s]
          IN  NewRequest(r) /\ Request(r, Root(path))
    BY <1>3, Zenon DEF CreateLock
  <2>. DEFINE r == [mode |-> "X", requester |-> p, path |-> path,
                    create_missing |-> TRUE, serial |-> s]
  <2>2. r \in Lock_Request /\ r.path = path
    BY DEF Lock_Request, Mode
  <2>3. NewRequest(r) /\ Request(r, Root(path))
    BY <2>1
  <2>. HIDE DEF r
  <2>4. NewRequest(r) /\ Request(r, Root(r.path))
    BY <2>2, <2>3
  <2>. QED BY <1>0, <1>3, <2>2, <2>4, RequestInv DEF CreateLock
<1>4. ASSUME NEW p \in Process, NEW path \in Path, CreateNotHeld(p, path) PROVE LockInv'
  <2>1. TypeOK'
    BY <1>0, <1>4 DEF CreateNotHeld, TypeOK, Between, handler
  <2>. QED BY <1>4, <2>1, ForestUnchanged, Zenon DEF CreateNotHeld, handler
<1>5. ASSUME NEW p \in Process, NEW path \in Path, NEW mode \in Mode,
             AcquireLock(p, path, mode)
      PROVE  LockInv'
  <2>1. PICK s \in Serial :
          LET r == [mode |-> mode, requester |-> p, path |-> path,
                    create_missing |-> FALSE, serial |-> s]
          IN  /\ NewRequest(r)
              /\ \/ Request(r, Root(path))
                 \/ NonExistent(r, Root(path)) /\ UNCHANGED <<lock_requests, held_locks>>
    BY <1>5, Zenon DEF AcquireLock
  <2>. DEFINE r == [mode |-> mode, requester |-> p, path |-> path,
                    create_missing |-> FALSE, serial |-> s]
  <2>2. r \in Lock_Request /\ r.path = path
    BY DEF Lock_Request
  <2>3. NewRequest(r)
    BY <2>1
  <2>4. \/ Request(r, Root(path))
        \/ NonExistent(r, Root(path)) /\ UNCHANGED <<lock_requests, held_locks>>
    BY <2>1
  <2>. HIDE DEF r
  <2>5. Idle /\ UNCHANGED <<Processes, requester_destroyed, handler>>
    BY <1>5 DEF AcquireLock
  <2>6. CASE Request(r, Root(path))
    BY <1>0, <2>2, <2>3, <2>5, <2>6, RequestInv
  <2>7. CASE NonExistent(r, Root(path)) /\ UNCHANGED <<lock_requests, held_locks>>
    <3>1. UNCHANGED <<exists, lockers, intents, lock_requests, held_locks>>
      BY <2>7 DEF NonExistent
    <3>2. TypeOK'
      BY <1>0, <2>5, <3>1 DEF TypeOK, handler
    <3>. QED BY <2>5, <3>1, <3>2, ForestUnchanged DEF handler
  <2>. QED BY <2>4, <2>6, <2>7
<1>6. ASSUME NEW p \in Process, NEW path \in Path, NEW mode \in Mode,
             ReleaseLock(p, path, mode)
      PROVE  LockInv'
  <2>1. /\ call = NoCall /\ Release(p, path, mode)
        /\ UNCHANGED <<Processes, dying, todo, answered_requests>>
        /\ todo' \subseteq Path \X Mode
    BY <1>0, <1>6 DEF ReleaseLock, Idle, TypeOK
  <2>. QED BY <1>0, <2>1, ReleaseInv
<1>7. CASE GrantHead
  BY <1>7, GrantHeadInv
<1>8. CASE GrantDone
  BY <1>8, GrantDoneInv
<1>9. CASE DestroyReleases
  <2>1. PICK lock \in todo : Release(dying, lock[1], lock[2]) /\ todo' = todo \ {lock}
    BY <1>9 DEF DestroyReleases
  <2>2. /\ call = NoCall /\ dying \in Process
        /\ UNCHANGED <<Processes, dying, answered_requests>>
    BY <1>0, <1>9 DEF DestroyReleases, TypeOK
  <2>3. lock[1] \in Path /\ lock[2] \in Mode /\ todo' \subseteq Path \X Mode
    BY <1>0, <2>1 DEF TypeOK
  <2>. QED BY <1>0, <2>1, <2>2, <2>3, ReleaseInv
<1>10. CASE DestroyRepeats
  <2>1. TypeOK'
    BY <1>0, <1>10 DEF DestroyRepeats, TypeOK, forest
  <2>. QED BY <1>10, <2>1, ForestUnchanged DEF DestroyRepeats, forest
<1>11. CASE DestroyDone
  <2>1. requester_destroyed' \subseteq Lock_Request
    <3>1. \A r \in Queued : r \in Lock_Request
      BY <1>0, RequestsTyped
    <3>2. \A a \in answered_requests : a.request \in Lock_Request
      BY <1>0 DEF TypeOK, Answer
    <3>. QED BY <1>0, <1>11, <3>1, <3>2, Zenon DEF DestroyDone, TypeOK
  <2>2. TypeOK'
    BY <1>0, <1>11, <2>1, Zenon DEF DestroyDone, TypeOK, forest
  <2>. QED BY <1>11, <2>2, ForestUnchanged DEF DestroyDone, forest
<1>12. CASE Notify
  <2>1. TypeOK'
    BY <1>0, <1>12, Zenon DEF Notify, TypeOK, forest
  <2>. QED BY <1>12, <2>1, ForestUnchanged DEF Notify, forest
<1>13. CASE UNCHANGED vars
  <2>1. TypeOK'
    BY <1>0, <1>13 DEF vars, forest, handler, TypeOK
  <2>. QED BY <1>13, <2>1, ForestUnchanged DEF vars, forest, handler
<1>14. CASE Client
  BY <1>m, <1>1, <1>2, <1>3, <1>4, <1>5, <1>6, <1>14 DEF Client
<1>15. CASE Server
  BY <1>7, <1>8, <1>9, <1>10, <1>11, <1>12, <1>15 DEF Server
<1>. QED BY <1>13, <1>14, <1>15 DEF Next

\* The inductive invariant holds: what is recorded agrees with the requests, a
\* request is in one place, intents cover what is below, and no node contradicts
\* itself.
THEOREM LockInvariant == Spec => []LockInv
<1>1. Init => LockInv
  BY LockInvInit
<1>2. LockInv /\ [Next]_vars => LockInv'
  BY LockInvNext
<1>. QED BY <1>1, <1>2, PTL DEF Spec

\* The data structures of the backend are well formed.
THEOREM TypeCorrect == Spec => []TypeOK
  BY LockInvariant, PTL DEF LockInv

\* Lock::release and Lock::acquire never erase an intent that is not there: who
\* holds or waits has its intents above.
THEOREM Cover == Spec => []IntentsCover
  BY LockInvariant, PTL DEF LockInv

\* The loop of Lock::release takes a request out of its queue and puts it in at
\* most one other place: nobody holds and waits for one request at a time.
THEOREM Places == Spec => []OnePlace
  BY LockInvariant, PTL DEF LockInv

-----------------------------------------------------------------------------

\* On one node NodeConsistent excludes two incompatible locks; on two nodes the
\* lower one is represented by its intent at the upper one.
LEMMA ExclusionLemma ==
  ASSUME LockInv
  PROVE  HierarchicalExclusion
<1>0. LockInv
  OBVIOUS
<1>1. TypeOK /\ Placed /\ IntentsCover /\ \A k \in Path : NodeConsistent(k)
  BY <1>0 DEF LockInv
<1>. SUFFICES ASSUME NEW q \in Held, NEW r \in Held, q # r, AtOrAbove(q.path, r.path)
              PROVE  Compatible(q, r)
  BY DEF HierarchicalExclusion
<1>2. /\ q.mode \in Mode /\ q.path \in Path /\ q \in lockers[q.mode][q.path]
      /\ r.mode \in Mode /\ r.path \in Path /\ r \in lockers[r.mode][r.path]
  BY <1>1, RequestsTyped, HeldMembers, SMTT(20) DEF Placed
<1>. DEFINE n == q.path
<1>3. NodeConsistent(n)
  BY <1>1, <1>2
<1>4. CASE r.path = n
  <2>1. q \in lockers[q.mode][n] /\ r \in lockers[r.mode][n]
    BY <1>2, <1>4
  <2>. HIDE DEF n
  <2>2. ~(q.mode = "X" /\ r.mode = "S") /\ ~(q.mode = "S" /\ r.mode = "X")
    BY <1>3, <2>1, Zenon DEF NodeConsistent
  <2>3. ~(q.mode = "X" /\ r.mode = "X") /\ ~(q.mode = "Splus" /\ r.mode = "Splus")
    BY <1>3, <2>1, Zenon DEF NodeConsistent
  <2>4. (q.mode = "X" /\ r.mode = "Splus") \/ (q.mode = "Splus" /\ r.mode = "X")
          => q.requester = r.requester
    BY <1>3, <2>1, Zenon DEF NodeConsistent, Only
  <2>. QED BY <1>2, <2>2, <2>3, <2>4 DEF Mode, Compatible
<1>5. CASE r.path # n
  <2>1. q \in lockers[q.mode][n] /\ r \in intents[r.mode][n]
    BY <1>1, <1>2, <1>5 DEF IntentsCover, Above
  <2>. HIDE DEF n
  <2>2. ~(q.mode = "X" /\ r.mode = "S") /\ ~(q.mode = "S" /\ r.mode = "X")
    BY <1>3, <2>1, Zenon DEF NodeConsistent
  <2>3. ~(q.mode = "X" /\ r.mode = "X") /\ ~(q.mode = "Splus" /\ r.mode = "Splus")
    BY <1>3, <2>1 DEF NodeConsistent
  <2>4. (q.mode = "X" /\ r.mode = "Splus") \/ (q.mode = "Splus" /\ r.mode = "X")
          => q.requester = r.requester
    BY <1>3, <2>1 DEF NodeConsistent, Only
  <2>. QED BY <1>2, <2>2, <2>3, <2>4 DEF Mode, Compatible
<1>. QED BY <1>4, <1>5

\* No sequence of create, acquire, release and unregister, by clients that do
\* whatever they want, makes Lock::acquire grant two locks that exclude each
\* other, at one node or one above the other.
THEOREM Exclusion == Spec => []HierarchicalExclusion
<1>1. LockInv => HierarchicalExclusion
  BY ExclusionLemma
<1>. QED BY <1>1, LockInvariant, PTL

=============================================================================
