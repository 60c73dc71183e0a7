------------------------- MODULE LockForestIntents --------------------------
(***************************************************************************)
(* Theorems about what is left between two handlers:                       *)
(*                                                                         *)
(*   Tidy              no intent is left of a request that has gone        *)
(*   HeldLocks         held_locks names what the nodes record              *)
(*   NothingOfTheDead  nothing is left of a process that has gone          *)
(*                                                                         *)
(* They do not hold for all clients.  The first leaves out the liberty     *)
(* with which clients reach the code that breaks it: asking for a lock     *)
(* that does not exist.  The other two are about careful clients: a lock   *)
(* asked for twice has one entry in held_locks for both.                   *)
(***************************************************************************)
EXTENDS LockForestInvariant

-----------------------------------------------------------------------------
(* Intents.  Every intent belongs to a request that holds, waits or is     *)
(* being released further down.  The loop of Lock::release never finds     *)
(* that the lock a request waited for is missing: it is missing neither    *)
(* when the request is made nor later, since no lock is ever destroyed.    *)

\* What is below node n and explains an intent of r there.
Accounted(r, n) ==
  \/ r \in lockers[r.mode][r.path] /\ Above(n, r.path)
  \/ \E k \in Path : Waits(r, k, lock_requests) /\ Above(n, k)
  \/ call # NoCall /\ call.request = r /\ Above(n, call.at)

IntentsExact ==
  \A m \in Mode, n \in Path : \A r \in intents[m][n] : r.mode = m /\ Accounted(r, n)

\* The nodes above a node exist, nothing is recorded at a node that does not, and
\* what is waited for exists or will be created.
Grounded ==
  /\ \A n \in exists, k \in Path : AtOrAbove(k, n) => k \in exists
  /\ \A m \in Mode, n \in Path :
       n \notin exists => lockers[m][n] = {} /\ intents[m][n] = {}
  /\ \A r \in Lock_Request, k \in Path :
       Waits(r, k, lock_requests) => k \in exists /\ (r.create_missing \/ r.path \in exists)

\* A step that leaves request r where it is ...
Stays(r) ==
  /\ r \in lockers[r.mode][r.path] => r \in lockers'[r.mode][r.path]
  /\ \A l \in Path : Waits(r, l, lock_requests) => Waits(r, l, lock_requests')
  /\ call # NoCall /\ call.request = r => call' = call

\* ... leaves its intents accounted for.
LEMMA StaysAccounted ==
  ASSUME NEW r, Stays(r), NEW n \in Path, Accounted(r, n)
  PROVE  Accounted(r, n)'
<1>1. CASE r \in lockers[r.mode][r.path] /\ Above(n, r.path)
  BY <1>1 DEF Stays, Accounted
<1>2. CASE \E k \in Path : Waits(r, k, lock_requests) /\ Above(n, k)
  BY <1>2 DEF Stays, Accounted, Waits
<1>3. CASE call # NoCall /\ call.request = r /\ Above(n, call.at)
  BY <1>3 DEF Stays, Accounted
<1>. QED BY <1>1, <1>2, <1>3 DEF Accounted

\* A step that creates no node, takes locks and intents away and moves no
\* request to a queue keeps Grounded.
LEMMA GroundedShrinks ==
  ASSUME Grounded, exists' = exists,
         \A m \in Mode, n \in Path : /\ lockers'[m][n] \subseteq lockers[m][n]
                                     /\ intents'[m][n] \subseteq intents[m][n],
         \A r \in Lock_Request, k \in Path :
           Waits(r, k, lock_requests') => Waits(r, k, lock_requests)
  PROVE  Grounded'
<1>1. \A n \in exists', k \in Path : AtOrAbove(k, n) => k \in exists'
  BY DEF Grounded
<1>2. \A m \in Mode, n \in Path :
        n \notin exists' => lockers'[m][n] = {} /\ intents'[m][n] = {}
  BY DEF Grounded
<1>3. \A r \in Lock_Request, k \in Path :
        Waits(r, k, lock_requests') => k \in exists' /\ (r.create_missing \/ r.path \in exists')
  BY DEF Grounded
<1>. QED BY <1>1, <1>2, <1>3 DEF Grounded, Waits

\* A request with intents that are accounted for, and that waits at k, has them
\* above k.
LEMMA WaiterAccounted ==
  ASSUME LockInv, NEW r \in Lock_Request, NEW k \in Path, Waits(r, k, lock_requests),
         NEW n \in Path, Accounted(r, n)
  PROVE  Above(n, k)
<1>1. OnePlace /\ Placed
  BY DEF LockInv
<1>2. PICK i \in DOMAIN lock_requests[k] : lock_requests[k][i] = r
  BY DEF Waits
<1>3. r \in Queued
  BY <1>2, QueuedMembers
<1>4. r \notin lockers[r.mode][r.path]
  <2>1. r.mode \in Mode /\ r.path \in Path
    BY DEF Lock_Request
  <2>. QED BY <1>1, <1>3, <2>1, HeldMembers DEF OnePlace
<1>5. call # NoCall => call.request # r
  BY <1>1, <1>3 DEF OnePlace
<1>6. PICK l \in Path : Waits(r, l, lock_requests) /\ Above(n, l)
  BY <1>4, <1>5 DEF Accounted
<1>7. PICK j \in DOMAIN lock_requests[l] : lock_requests[l][j] = r
  BY <1>6 DEF Waits
<1>8. l = k
  BY <1>1, <1>2, <1>7 DEF OnePlace
<1>. QED BY <1>6, <1>8

\* A successful Lock::acquire of a request x that waits nowhere afterwards.
LEMMA AcquiredTidy ==
  ASSUME TypeOK, IntentsExact, Grounded, NEW x \in Lock_Request, NEW n,
         AtOrAbove(n, x.path), Acquired(x, n), call' = call,
         \A k \in Path : AtOrAbove(k, x.path) /\ ~AtOrAbove(n, k) => k \in exists,
         \A r \in Lock_Request, l \in Path :
           /\ Waits(r, l, lock_requests') => Waits(r, l, lock_requests)
           /\ Waits(r, l, lock_requests) /\ r # x => Waits(r, l, lock_requests'),
         \A l \in Path : Accounted(x, l) => Above(l, x.path)
  PROVE  IntentsExact' /\ Grounded'
<1>1. x.mode \in Mode /\ x.path \in Path
  BY DEF Lock_Request
<1>2. /\ \A k \in Path : Grown(k)
      /\ exists' = exists \cup Walk(x, n)
      /\ x \in lockers'[x.mode][x.path]
      /\ \A m \in Mode, k \in Path : \A q \in intents'[m][k] :
           \/ q \in intents[m][k]
           \/ q = x /\ m = x.mode /\ Above(k, x.path) /\ k \in Walk(x, n)
      /\ \A m \in Mode, k \in Path :
           k \notin Walk(x, n) => lockers'[m][k] = lockers[m][k]
                                  /\ intents'[m][k] = intents[m][k]
  BY AcquiredRecords
<1>3. ASSUME NEW m \in Mode, NEW k \in Path, NEW q \in intents'[m][k]
      PROVE  q.mode = m /\ Accounted(q, k)'
  <2>1. CASE q = x /\ m = x.mode /\ Above(k, x.path)
    BY <1>2, <2>1 DEF Accounted
  <2>2. CASE q \in intents[m][k] /\ q = x
    <3>1. q.mode = m /\ Above(k, x.path)
      BY <2>2 DEF IntentsExact
    <3>. QED BY <1>2, <2>2, <3>1 DEF Accounted
  <2>3. CASE q \in intents[m][k] /\ q # x
    <3>1. q \in Lock_Request /\ q.mode = m /\ Accounted(q, k)
      BY <2>3 DEF IntentsExact, TypeOK
    <3>2. q.path \in Path /\ q.mode \in Mode
      BY <3>1 DEF Lock_Request
    <3>3. q \in lockers[q.mode][q.path] => q \in lockers'[q.mode][q.path]
      BY <1>2, <3>2 DEF Grown
    <3>4. Stays(q)
      BY <2>3, <3>1, <3>3 DEF Stays
    <3>. QED BY <3>1, <3>4, StaysAccounted
  <2>. QED BY <1>2, <2>1, <2>2, <2>3
<1>4. ASSUME NEW l \in exists', NEW k \in Path, AtOrAbove(k, l) PROVE k \in exists'
  <2>1. CASE l \in exists
    BY <1>2, <1>4, <2>1 DEF Grounded
  <2>2. CASE l \in Walk(x, n)
    <3>1. l \in Path /\ AtOrAbove(l, x.path)
      BY <2>2 DEF Walk, Between
    <3>2. AtOrAbove(k, x.path)
      BY <1>1, <1>4, <3>1, PrefixTrans
    <3>. QED BY <1>2, <3>2 DEF Walk, Between
  <2>. QED BY <1>2, <2>1, <2>2
<1>5. \A m \in Mode, k \in Path :
        k \notin exists' => lockers'[m][k] = {} /\ intents'[m][k] = {}
  BY <1>2 DEF Grounded
<1>6. \A r \in Lock_Request, k \in Path :
        Waits(r, k, lock_requests') => k \in exists' /\ (r.create_missing \/ r.path \in exists')
  BY <1>2 DEF Grounded
<1>7. IntentsExact'
  BY <1>3 DEF IntentsExact
<1>. QED BY <1>4, <1>5, <1>6, <1>7 DEF Grounded, Waits

\* A Lock::acquire that ends in the queue of node k.
LEMMA WaitsTidy ==
  ASSUME TypeOK, IntentsExact, Grounded, NEW x \in Lock_Request, NEW n, NEW k \in Path,
         WaitsAt(x, n, k), call' = call, x.create_missing \/ x.path \in exists,
         \A r \in Lock_Request, l \in Path :
           /\ Waits(r, l, lock_requests') => Waits(r, l, lock_requests) \/ (r = x /\ l = k)
           /\ Waits(r, l, lock_requests) /\ r # x => Waits(r, l, lock_requests'),
         Waits(x, k, lock_requests'),
         \A l \in Path : Accounted(x, l) => Above(l, k)
  PROVE  IntentsExact' /\ Grounded'
<1>1. x.mode \in Mode /\ x.path \in Path
  BY DEF Lock_Request
<1>2. /\ lockers' = lockers /\ exists' = exists /\ k \in exists
      /\ \A m \in Mode, l \in Path : \A q \in intents'[m][l] :
           \/ q \in intents[m][l]
           \/ q = x /\ m = x.mode /\ Above(l, k)
  BY WaitsRecords
<1>3. ASSUME NEW m \in Mode, NEW l \in Path, NEW q \in intents'[m][l]
      PROVE  q.mode = m /\ Accounted(q, l)'
  <2>1. ASSUME Above(l, k) PROVE Accounted(x, l)'
    BY <2>1 DEF Accounted, Waits
  <2>2. CASE q = x /\ m = x.mode /\ Above(l, k)
    BY <2>1, <2>2
  <2>3. CASE q \in intents[m][l] /\ q = x
    <3>1. q.mode = m /\ Above(l, k)
      BY <2>3 DEF IntentsExact
    <3>. QED BY <2>1, <2>3, <3>1
  <2>4. CASE q \in intents[m][l] /\ q # x
    <3>1. q \in Lock_Request /\ q.mode = m /\ Accounted(q, l)
      BY <2>4 DEF IntentsExact, TypeOK
    <3>2. Stays(q)
      BY <1>2, <2>4, <3>1 DEF Stays
    <3>. QED BY <3>1, <3>2, StaysAccounted
  <2>. QED BY <1>2, <2>2, <2>3, <2>4
<1>4. \A l \in exists', j \in Path : AtOrAbove(j, l) => j \in exists'
  BY <1>2 DEF Grounded
<1>5. ASSUME NEW m \in Mode, NEW l \in Path, l \notin exists'
      PROVE  lockers'[m][l] = {} /\ intents'[m][l] = {}
  <2>1. lockers[m][l] = {} /\ intents[m][l] = {} /\ ~Above(l, k)
    BY <1>2, <1>5 DEF Grounded, Above
  <2>. QED BY <1>2, <2>1
<1>6. \A r \in Lock_Request, l \in Path :
        Waits(r, l, lock_requests') => l \in exists' /\ (r.create_missing \/ r.path \in exists')
  BY <1>2 DEF Grounded
<1>7. IntentsExact'
  BY <1>3 DEF IntentsExact
<1>. QED BY <1>4, <1>5, <1>6, <1>7 DEF Grounded, Waits

\* A request that may create what is missing, or whose lock exists, never finds
\* a lock missing.
LEMMA NeverMissing ==
  ASSUME TypeOK, Grounded, NEW r \in Lock_Request, NEW n,
         r.create_missing \/ r.path \in exists
  PROVE  ~NonExistent(r, n)
<1>. SUFFICES ASSUME NEW k \in Path, FirstStop(r, n, k), k \notin exists
              PROVE  FALSE
  BY DEF NonExistent
<1>1. AtOrAbove(k, r.path) /\ (Blocked(r, k) \/ ~r.create_missing)
  BY DEF FirstStop, Stops, Walk, Between
<1>2. r.create_missing
  BY <1>1 DEF Grounded
<1>3. \A m \in Mode : lockers[m][k] = {} /\ intents[m][k] = {}
  BY DEF Grounded
<1>4. r.mode \in Mode
  BY DEF Lock_Request
<1>5. ~Blocked(r, k)
  BY <1>3, <1>4 DEF Blocked, CanLock, CanIntend, Only, Mode
<1>. QED BY <1>1, <1>2, <1>5

\* Lock_Forest::acquire and create.
LEMMA RequestTidy ==
  ASSUME LockInv, IntentsExact, Grounded, Idle, NEW x \in Lock_Request, NewRequest(x),
         Request(x, Root(x.path)), x.create_missing \/ x.path \in exists,
         UNCHANGED handler
  PROVE  IntentsExact' /\ Grounded'
<1>1. /\ TypeOK /\ call' = call /\ x.path \in Path /\ x.mode \in Mode /\ call = NoCall
      /\ lock_requests \in [Path -> Seq(Lock_Request)]
  BY Zenon DEF LockInv, TypeOK, handler, Lock_Request, Idle
<1>2. \A l \in Path : ~Accounted(x, l)
  <2>1. x \notin Held /\ x \notin Queued
    BY DEF NewRequest, Traces
  <2>. QED BY <1>1, <2>1, HeldMembers, QueuedMembers DEF Accounted, Waits
<1>3. CASE Acquired(x, Root(x.path)) /\ UNCHANGED lock_requests
  <2>1. AtOrAbove(Root(x.path), x.path)
    BY <1>1, PrefixRefl, RootPrefix
  <2>2. \A k \in Path : AtOrAbove(k, x.path) => AtOrAbove(Root(x.path), k)
    BY <1>1, RootPrefix
  <2>3. \A r \in Lock_Request, l \in Path :
          Waits(r, l, lock_requests') <=> Waits(r, l, lock_requests)
    BY <1>3
  <2>. QED BY <1>1, <1>2, <1>3, <2>1, <2>2, <2>3, AcquiredTidy
<1>4. ASSUME NEW k \in Path, WaitsAt(x, Root(x.path), k),
             lock_requests' = [lock_requests EXCEPT ![k] = Append(@, x)]
      PROVE  IntentsExact' /\ Grounded'
  <2>1. /\ lock_requests'[k] = Append(lock_requests[k], x)
        /\ \A l \in Path : l # k => lock_requests'[l] = lock_requests[l]
    BY <1>1, <1>4
  <2>2. /\ Waits(x, k, lock_requests')
        /\ \A r \in Lock_Request, l \in Path :
             /\ Waits(r, l, lock_requests') => Waits(r, l, lock_requests) \/ (r = x /\ l = k)
             /\ Waits(r, l, lock_requests) => Waits(r, l, lock_requests')
    <3>1. lock_requests \in [Path -> Seq(Lock_Request)]
      BY <1>1
    <3>. QED BY <2>1, <3>1, AppendWaits
  <2>. QED BY <1>1, <1>2, <1>4, <2>2, WaitsTidy, Zenon
<1>. QED BY <1>3, <1>4, Zenon DEF Request

\* One level of the way up in Lock::release: the intent at the node above goes,
\* and the others are above the node where the release goes on.
LEMMA AscendTidy ==
  ASSUME TypeOK, IntentsExact, Grounded, NEW c \in Call, c.mode = c.request.mode, Ascend(c),
         call = NoCall \/ call = c, lockers' = lockers, exists' = exists,
         \A r \in Lock_Request, l \in Path :
           /\ Waits(r, l, lock_requests') => Waits(r, l, lock_requests)
           /\ Waits(r, l, lock_requests) /\ r # c.request => Waits(r, l, lock_requests'),
         \A l \in Path : Accounted(c.request, l) => Above(l, c.at)
  PROVE  IntentsExact' /\ Grounded'
<1>1. /\ c.at \in Path /\ c.mode \in Mode /\ c.request \in Lock_Request
      /\ intents \in [Mode -> [Path -> SUBSET Lock_Request]]
  BY DEF Call, TypeOK
<1>2. \A m \in Mode, n \in Path : intents'[m][n] \subseteq intents[m][n]
  <2>1. CASE Len(c.at) > 1
    <3>1. Parent(c.at) \in Path
      BY <1>1, <2>1, ParentAbove
    <3>2. intents' = [intents EXCEPT ![c.mode][Parent(c.at)] = @ \ {c.request}]
      BY <1>1, <2>1, RootLength DEF Ascend
    <3>. QED BY <1>1, <3>1, <3>2, Zenon
  <2>2. CASE UNCHANGED intents
    BY <2>2
  <2>. QED BY <2>1, <2>2 DEF Ascend
<1>3. ASSUME NEW n \in Path, c.request \in intents'[c.mode][n]
      PROVE  Accounted(c.request, n)'
  <2>1. c.request \in intents[c.mode][n]
    BY <1>1, <1>2, <1>3
  <2>2. Above(n, c.at)
    BY <1>1, <2>1 DEF IntentsExact
  <2>3. Len(c.at) > 1 /\ (n = Parent(c.at) \/ Above(n, Parent(c.at)))
    BY <1>1, <2>2, AboveParent
  <2>4. /\ intents' = [intents EXCEPT ![c.mode][Parent(c.at)] = @ \ {c.request}]
        /\ call' = [c EXCEPT !.at = Parent(c.at)]
    BY <1>1, <2>3, RootLength DEF Ascend
  <2>5. Parent(c.at) \in Path
    BY <1>1, <2>3, ParentAbove
  <2>6. c.request \notin intents'[c.mode][Parent(c.at)]
    BY <1>1, <2>4, <2>5
  <2>7. Above(n, Parent(c.at))
    BY <1>3, <2>3, <2>6
  <2>8. call'.request = c.request /\ call'.at = Parent(c.at) /\ call' \in Call
    BY <2>4, <2>5 DEF Call
  <2>9. call' # NoCall
    BY <2>8, SentinelAssumption
  <2>. QED BY <2>7, <2>8, <2>9 DEF Accounted
<1>4. ASSUME NEW m \in Mode, NEW n \in Path, NEW q \in intents'[m][n]
      PROVE  q.mode = m /\ Accounted(q, n)'
  <2>1. q \in intents[m][n]
    BY <1>2
  <2>2. q \in Lock_Request /\ q.mode = m /\ Accounted(q, n)
    BY <1>1, <2>1 DEF IntentsExact
  <2>3. CASE q = c.request
    BY <1>3, <2>2, <2>3
  <2>4. CASE q # c.request
    <3>1. Stays(q)
      BY <2>2, <2>4, Zenon DEF Stays
    <3>. QED BY <2>2, <3>1, StaysAccounted
  <2>. QED BY <2>3, <2>4, Zenon
<1>5. IntentsExact'
  BY <1>4 DEF IntentsExact
<1>6. Grounded'
  BY <1>2, GroundedShrinks
<1>. QED BY <1>5, <1>6

\* Lock::release of a lock that is held, at its node.
LEMMA ReleaseHeldTidy ==
  ASSUME LockInv, IntentsExact, Grounded, call = NoCall,
         NEW p \in Process, NEW path \in Path, NEW mode \in Mode,
         ReleaseHeld(p, path, mode)
  PROVE  IntentsExact' /\ Grounded'
<1>1. PICK x \in lockers[mode][path] :
        /\ lockers' = [lockers EXCEPT ![mode][path] = @ \ {x}]
        /\ call' = [requester |-> p, path |-> path, mode |-> mode,
                    request |-> x, at |-> path]
  BY Zenon DEF ReleaseHeld
<1>2. UNCHANGED <<exists, intents, lock_requests>>
  BY DEF ReleaseHeld
<1>3. TypeOK /\ Placed /\ OnePlace /\ lockers \in [Mode -> [Path -> SUBSET Lock_Request]]
  BY DEF LockInv, TypeOK
<1>4. x.mode = mode /\ x.path = path /\ x \in Lock_Request
  BY <1>3 DEF Placed
<1>5. \A l \in Path : ~Waits(x, l, lock_requests)
  <2>1. x \in Held
    BY HeldMembers
  <2>2. x \notin Queued
    BY <1>3, <2>1 DEF OnePlace
  <2>. QED BY <2>2, QueuedMembers DEF Waits
<1>6. call' # NoCall /\ call'.request = x /\ call'.at = path
  <2>1. call' \in Call
    BY <1>1, <1>4 DEF Call
  <2>. QED BY <1>1, <2>1, SentinelAssumption
<1>7. ASSUME NEW m \in Mode, NEW n \in Path, NEW q \in intents[m][n]
      PROVE  q.mode = m /\ Accounted(q, n)'
  <2>1. q.mode = m /\ Accounted(q, n) /\ q \in Lock_Request
    BY <1>3 DEF IntentsExact, TypeOK
  <2>2. CASE q = x
    <3>1. Above(n, path)
      BY <1>4, <1>5, <2>1, <2>2 DEF Accounted
    <3>. QED BY <1>6, <2>1, <2>2, <3>1 DEF Accounted
  <2>3. CASE q # x
    <3>1. q.mode \in Mode /\ q.path \in Path
      BY <2>1 DEF Lock_Request
    <3>2. q \in lockers[q.mode][q.path] => q \in lockers'[q.mode][q.path]
      BY <1>1, <1>3, <2>3, <3>1, Zenon
    <3>3. Stays(q)
      BY <1>2, <3>2, Zenon DEF Stays
    <3>. QED BY <2>1, <3>3, StaysAccounted
  <2>. QED BY <2>2, <2>3
<1>8. IntentsExact'
  BY <1>2, <1>7 DEF IntentsExact
<1>9. \A m \in Mode, n \in Path : /\ lockers'[m][n] \subseteq lockers[m][n]
                                 /\ intents'[m][n] \subseteq intents[m][n]
  BY <1>1, <1>2, <1>3
<1>10. Grounded'
  BY <1>2, <1>9, GroundedShrinks
<1>. QED BY <1>8, <1>10

\* Lock::release of a request that waits.
LEMMA ReleaseQueuedTidy ==
  ASSUME LockInv, IntentsExact, Grounded, call = NoCall,
         NEW p \in Process, NEW path \in Path, NEW mode \in Mode,
         ReleaseQueued(p, path, mode)
  PROVE  IntentsExact' /\ Grounded'
<1>1. PICK n \in Path : \E i \in Matches(p, mode, n) :
        /\ lock_requests' = [lock_requests EXCEPT ![n] = Erased(@, i)]
        /\ Ascend([requester |-> p, path |-> path, mode |-> mode,
                   request |-> lock_requests[n][i], at |-> n])
  BY Zenon DEF ReleaseQueued
<1>2. PICK i \in Matches(p, mode, n) :
        /\ lock_requests' = [lock_requests EXCEPT ![n] = Erased(@, i)]
        /\ Ascend([requester |-> p, path |-> path, mode |-> mode,
                   request |-> lock_requests[n][i], at |-> n])
  BY <1>1, Zenon
<1>3. lockers' = lockers /\ exists' = exists
  BY Zenon DEF ReleaseQueued
<1>4. TypeOK /\ lock_requests \in [Path -> Seq(Lock_Request)]
  BY DEF LockInv, TypeOK
<1>5. PICK x \in Lock_Request : x = lock_requests[n][i]
  BY <1>4 DEF Matches
<1>6. i \in DOMAIN lock_requests[n] /\ x.mode = mode
  BY <1>5 DEF Matches
<1>7. PICK c \in Call : /\ c = [requester |-> p, path |-> path, mode |-> mode,
                                request |-> x, at |-> n]
                        /\ c.mode = mode /\ c.request = x /\ c.at = n
  <2>1. [requester |-> p, path |-> path, mode |-> mode, request |-> x, at |-> n] \in Call
    BY DEF Call
  <2>. QED BY <2>1
<1>8. Ascend(c)
  BY <1>2, <1>5, <1>7
<1>9. \A r \in Lock_Request, l \in Path :
        /\ Waits(r, l, lock_requests') => Waits(r, l, lock_requests)
        /\ Waits(r, l, lock_requests) /\ r # x => Waits(r, l, lock_requests')
  <2>1. /\ lock_requests'[n] = Erased(lock_requests[n], i)
        /\ \A l \in Path : l # n => lock_requests'[l] = lock_requests[l]
    BY <1>2, <1>4, Zenon
  <2>. QED BY <1>4, <1>5, <1>6, <2>1, ErasedWaits, Zenon
<1>10. Waits(x, n, lock_requests)
  BY <1>5, <1>6 DEF Waits
<1>11. \A l \in Path : Accounted(x, l) => Above(l, n)
  BY <1>10, WaiterAccounted
<1>. QED BY <1>3, <1>4, <1>6, <1>7, <1>8, <1>9, <1>11, AscendTidy

\* The loop of Lock::release.
LEMMA GrantHeadTidy ==
  ASSUME LockInv, IntentsExact, Grounded, GrantHead
  PROVE  IntentsExact' /\ Grounded'
<1>1. PICK n \in Path : n = call.at /\ lock_requests[n] # <<>>
  BY Zenon DEF GrantHead, LockInv, TypeOK, Call
<1>2. TypeOK /\ Placed /\ lock_requests \in [Path -> Seq(Lock_Request)]
  BY DEF LockInv, TypeOK
<1>3. PICK x \in Lock_Request : x = Head(lock_requests[n])
  BY <1>1, <1>2
<1>4. 1 \in DOMAIN lock_requests[n] /\ x = lock_requests[n][1]
  BY <1>1, <1>2, <1>3
<1>5. Waits(x, n, lock_requests) /\ AtOrAbove(n, x.path) /\ x.path \in Path
  BY <1>2, <1>4 DEF Waits, Placed, Lock_Request
<1>6. n \in exists /\ (x.create_missing \/ x.path \in exists)
  BY <1>5 DEF Grounded
<1>7. \A l \in Path : Accounted(x, l) => Above(l, n)
  BY <1>5, WaiterAccounted
<1>. DEFINE rest == [lock_requests EXCEPT ![n] = Tail(@)]
<1>8. /\ call' = call
      /\ \/ Acquired(x, n) /\ lock_requests' = rest
         \/ NonExistent(x, n) /\ lock_requests' = rest
         \/ \E k \in Path \ {n} :
              WaitsAt(x, n, k) /\ lock_requests' = [rest EXCEPT ![k] = Append(@, x)]
  BY <1>1, <1>3, Zenon DEF GrantHead
<1>9. rest \in [Path -> Seq(Lock_Request)]
  BY <1>1, <1>2
<1>10. \A r \in Lock_Request, l \in Path :
         /\ Waits(r, l, rest) => Waits(r, l, lock_requests)
         /\ Waits(r, l, lock_requests) /\ r # x => Waits(r, l, rest)
  <2>1. /\ rest[n] = Tail(lock_requests[n])
        /\ \A l \in Path : l # n => rest[l] = lock_requests[l]
    BY <1>2
  <2>. HIDE DEF rest
  <2>. QED BY <1>1, <1>2, <1>3, <2>1, TailWaits, Zenon
<1>. HIDE DEF rest
<1>11. CASE Acquired(x, n) /\ lock_requests' = rest
  <2>1. \A k \in Path : AtOrAbove(k, x.path) /\ ~AtOrAbove(n, k) => k \in exists
    BY <1>5, <1>6, PrefixChain, Zenon DEF Grounded
  <2>2. \A l \in Path : Accounted(x, l) => Above(l, x.path)
    BY <1>5, <1>7, PrefixTrans, PrefixAntisym DEF Above
  <2>. QED BY <1>2, <1>5, <1>8, <1>10, <1>11, <2>1, <2>2, AcquiredTidy, Zenon
<1>12. ASSUME NEW k \in Path, WaitsAt(x, n, k), lock_requests' = [rest EXCEPT ![k] = Append(@, x)]
       PROVE  IntentsExact' /\ Grounded'
  <2>1. /\ lock_requests'[k] = Append(rest[k], x)
        /\ \A l \in Path : l # k => lock_requests'[l] = rest[l]
    BY <1>9, <1>12
  <2>2. /\ Waits(x, k, lock_requests')
        /\ \A r \in Lock_Request, l \in Path :
             /\ Waits(r, l, lock_requests') => Waits(r, l, rest) \/ (r = x /\ l = k)
             /\ Waits(r, l, rest) => Waits(r, l, lock_requests')
    BY <1>9, <2>1, AppendWaits, SMTT(20)
  <2>3. \A r \in Lock_Request, l \in Path :
          /\ Waits(r, l, lock_requests') => Waits(r, l, lock_requests) \/ (r = x /\ l = k)
          /\ Waits(r, l, lock_requests) /\ r # x => Waits(r, l, lock_requests')
    BY <1>10, <2>2
  <2>4. AtOrAbove(n, k)
    BY <1>2, <1>12, WaitsRecords, Zenon
  <2>5. \A l \in Path : Accounted(x, l) => Above(l, k)
    BY <1>7, <2>4, PrefixTrans, PrefixAntisym DEF Above
  <2>. QED BY <1>2, <1>6, <1>8, <1>12, <2>2, <2>3, <2>5, WaitsTidy, Zenon
<1>13. ~NonExistent(x, n)
  BY <1>2, <1>6, NeverMissing
<1>. QED BY <1>8, <1>11, <1>12, <1>13

\* Its end.
LEMMA GrantDoneTidy ==
  ASSUME LockInv, IntentsExact, Grounded, GrantDone
  PROVE  IntentsExact' /\ Grounded'
<1>1. /\ call \in Call /\ call # NoCall /\ Ascend(call)
      /\ lockers' = lockers /\ exists' = exists /\ lock_requests' = lock_requests
  BY DEF GrantDone, LockInv, TypeOK
<1>2. TypeOK /\ Placed /\ OnePlace
  BY DEF LockInv
<1>3. PICK c \in Call : c = call
  BY <1>1
<1>4. c.mode = c.request.mode /\ c.request \in Lock_Request
  BY <1>1, <1>2, <1>3, Zenon DEF Placed, Call
<1>5. ASSUME NEW l \in Path, Accounted(c.request, l) PROVE Above(l, c.at)
  <2>1. c.request.mode \in Mode /\ c.request.path \in Path
    BY <1>4 DEF Lock_Request
  <2>2. c.request \notin Held /\ c.request \notin Queued
    BY <1>1, <1>2, <1>3 DEF OnePlace
  <2>3. c.request \notin lockers[c.request.mode][c.request.path]
    BY <2>1, <2>2, HeldMembers
  <2>4. \A k \in Path : ~Waits(c.request, k, lock_requests)
    BY <2>2, QueuedMembers DEF Waits
  <2>. QED BY <1>3, <1>5, <2>3, <2>4 DEF Accounted
<1>. QED BY <1>1, <1>2, <1>3, <1>4, <1>5, AscendTidy

\* Lock::create_not_held creates all nodes of its path.
LEMMA CreateNotHeldTidy ==
  ASSUME LockInv, IntentsExact, Grounded, NEW p \in Process, NEW path \in Path,
         CreateNotHeld(p, path)
  PROVE  IntentsExact' /\ Grounded'
<1>1. /\ lockers' = lockers /\ intents' = intents
      /\ lock_requests' = lock_requests /\ call' = call
      /\ exists' = exists \cup Between(Root(path), path)
  BY DEF CreateNotHeld, handler
<1>2. IntentsExact'
  <2>. SUFFICES ASSUME NEW m \in Mode, NEW n \in Path, NEW r \in intents'[m][n]
                PROVE  r.mode = m /\ Accounted(r, n)'
    BY Zenon DEF IntentsExact
  <2>1. r.mode = m /\ Accounted(r, n)
    BY <1>1, Zenon DEF IntentsExact
  <2>2. Stays(r)
    BY <1>1, Zenon DEF Stays
  <2>. QED BY <2>1, <2>2, StaysAccounted, Zenon
<1>3. ASSUME NEW n \in exists', NEW k \in Path, AtOrAbove(k, n) PROVE k \in exists'
  <2>1. CASE n \in exists
    BY <1>1, <1>3, <2>1, Zenon DEF Grounded
  <2>2. CASE n \in Between(Root(path), path)
    <3>1. n \in Path /\ AtOrAbove(n, path)
      BY <2>2 DEF Between
    <3>2. AtOrAbove(k, path)
      BY <1>3, <3>1, PrefixTrans
    <3>3. AtOrAbove(Root(path), k)
      BY <3>2, RootPrefix
    <3>. QED BY <1>1, <3>2, <3>3 DEF Between
  <2>. QED BY <1>1, <2>1, <2>2
<1>4. \A m \in Mode, n \in Path :
        n \notin exists' => lockers'[m][n] = {} /\ intents'[m][n] = {}
  BY <1>1 DEF Grounded
<1>5. \A r \in Lock_Request, k \in Path :
        Waits(r, k, lock_requests') => k \in exists' /\ (r.create_missing \/ r.path \in exists')
  BY <1>1 DEF Grounded
<1>. QED BY <1>2, <1>3, <1>4, <1>5 DEF Grounded, Waits

\* Every step of clients that do not ask for missing locks.
LEMMA TidyNext ==
  ASSUME LockInv, IntentsExact, Grounded, "missing" \notin Liberties, [Next]_vars
  PROVE  IntentsExact' /\ Grounded'
<1>0. LockInv /\ IntentsExact /\ Grounded /\ TypeOK
  BY DEF LockInv
<1>m. Modes \subseteq Mode
  BY BoundAssumption DEF Mode
<1>. DEFINE Goal == IntentsExact' /\ Grounded'
<1>. SUFFICES Goal
  OBVIOUS
<1>1. ASSUME UNCHANGED <<exists, lockers, intents, lock_requests, call>> PROVE Goal
  <2>1. IntentsExact'
    BY <1>0, <1>1 DEF IntentsExact, Accounted, Waits
  <2>2. Grounded'
    BY <1>0, <1>1 DEF Grounded, Waits
  <2>. QED BY <2>1, <2>2
<1>2. ASSUME NEW p \in Process, NEW path \in Path, CreateNotHeld(p, path) PROVE Goal
  BY <1>0, <1>2, CreateNotHeldTidy
<1>3. CASE GrantHead
  BY <1>0, <1>3, GrantHeadTidy
<1>4. CASE GrantDone
  BY <1>0, <1>4, GrantDoneTidy
<1>5. ASSUME NEW p \in Process, NEW path \in Path, NEW mode \in Mode,
             call = NoCall, Release(p, path, mode)
      PROVE  Goal
  <2>1. CASE ReleaseHeld(p, path, mode)
    BY <1>0, <1>5, <2>1, ReleaseHeldTidy
  <2>2. CASE ReleaseQueued(p, path, mode)
    BY <1>0, <1>5, <2>2, ReleaseQueuedTidy
  <2>3. CASE ReleaseNotHeld(p, path, mode)
    BY <1>1, <2>3 DEF ReleaseNotHeld, forest
  <2>. QED BY <1>5, <2>1, <2>2, <2>3 DEF Release
<1>6. ASSUME Idle, NEW r \in Lock_Request, NewRequest(r), Request(r, Root(r.path)),
             r.create_missing \/ r.path \in exists, UNCHANGED handler
      PROVE  Goal
  BY <1>0, <1>6, RequestTidy
<1>. HIDE DEF Goal
<1>7. ASSUME NEW p \in Process, RegisterProcess(p) \/ UnregisterProcess(p) PROVE Goal
  BY <1>1, <1>7 DEF RegisterProcess, UnregisterProcess, forest, handler
<1>8. ASSUME NEW p \in Process, NEW path \in Path, CreateLock(p, path) PROVE Goal
  <2>1. PICK s \in Serial :
          LET r == [mode |-> "X", requester |-> p, path |-> path,
                    create_missing |-> TRUE, serial |-> s]
          IN  NewRequest(r) /\ Request(r, Root(path))
    BY <1>8, Zenon DEF CreateLock
  <2>. DEFINE r == [mode |-> "X", requester |-> p, path |-> path,
                    create_missing |-> TRUE, serial |-> s]
  <2>2. r \in Lock_Request /\ r.path = path /\ r.create_missing
    BY DEF Lock_Request, Mode
  <2>3. NewRequest(r) /\ Request(r, Root(path))
    BY <2>1
  <2>. HIDE DEF r
  <2>. QED BY <1>6, <1>8, <2>2, <2>3 DEF CreateLock
<1>9. ASSUME NEW p \in Process, NEW path \in Path, NEW mode \in Mode,
             AcquireLock(p, path, mode)
      PROVE  Goal
  <2>1. PICK s \in Serial :
          LET r == [mode |-> mode, requester |-> p, path |-> path,
                    create_missing |-> FALSE, serial |-> s]
          IN  /\ NewRequest(r)
              /\ \/ Request(r, Root(path))
                 \/ NonExistent(r, Root(path)) /\ UNCHANGED <<lock_requests, held_locks>>
    BY <1>9, Zenon DEF AcquireLock
  <2>. DEFINE r == [mode |-> mode, requester |-> p, path |-> path,
                    create_missing |-> FALSE, serial |-> s]
  <2>2. r \in Lock_Request /\ r.path = path
    BY DEF Lock_Request
  <2>3. NewRequest(r)
    BY <2>1
  <2>4. \/ Request(r, Root(path))
        \/ NonExistent(r, Root(path)) /\ UNCHANGED <<lock_requests, held_locks>>
    BY <2>1
  <2>. HIDE DEF r
  <2>5. Idle /\ UNCHANGED handler /\ path \in exists
    BY <1>9 DEF AcquireLock
  <2>6. CASE Request(r, Root(path))
    BY <1>6, <2>2, <2>3, <2>5, <2>6
  <2>7. CASE NonExistent(r, Root(path)) /\ UNCHANGED <<lock_requests, held_locks>>
    BY <1>1, <2>5, <2>7 DEF NonExistent, handler
  <2>. QED BY <2>4, <2>6, <2>7
<1>10. ASSUME NEW p \in Process, NEW path \in Path, NEW mode \in Mode,
              ReleaseLock(p, path, mode)
       PROVE  Goal
  BY <1>5, <1>10 DEF ReleaseLock, Idle
<1>11. CASE DestroyReleases
  <2>1. PICK lock \in todo : Release(dying, lock[1], lock[2])
    BY <1>11 DEF DestroyReleases
  <2>2. call = NoCall /\ dying \in Process
    BY <1>0, <1>11 DEF DestroyReleases, TypeOK
  <2>3. lock[1] \in Path /\ lock[2] \in Mode
    BY <1>0, <2>1 DEF TypeOK
  <2>. QED BY <1>5, <2>1, <2>2, <2>3
<1>12. CASE DestroyRepeats \/ DestroyDone \/ Notify
  BY <1>1, <1>12 DEF DestroyRepeats, DestroyDone, Notify, forest
<1>13. CASE UNCHANGED vars
  BY <1>1, <1>13 DEF vars, forest, handler
<1>14. CASE Client
  BY <1>m, <1>2, <1>7, <1>8, <1>9, <1>10, <1>14 DEF Client
<1>15. CASE Server
  BY <1>3, <1>4, <1>11, <1>12, <1>15 DEF Server
<1>. QED BY <1>13, <1>14, <1>15 DEF Next

\* No intent is left of a request that has gone: between two handlers every
\* intent is explained by a lock that is held or a request that waits, as long
\* as clients ask only for locks that exist or that they create.  (The undoing
\* of intents in Lock::acquire reaches only those of the present call.)
THEOREM Tidy ==
  ASSUME "missing" \notin Liberties
  PROVE  Spec => []NoStaleIntents
<1>1. Init => IntentsExact /\ Grounded
  BY DEF Init, IntentsExact, Grounded, Waits
<1>2. LockInv /\ IntentsExact /\ Grounded /\ [Next]_vars => IntentsExact' /\ Grounded'
  BY TidyNext
<1>3. LockInv /\ IntentsExact => NoStaleIntents
  <2>. SUFFICES ASSUME LockInv, IntentsExact, call = NoCall, NEW m \in Mode, NEW n \in Path,
                       NEW r \in intents[m][n]
                PROVE  r \in Held \cup Queued
    BY DEF NoStaleIntents, Idle
  <2>1. r \in Lock_Request /\ Accounted(r, n)
    BY DEF LockInv, TypeOK, IntentsExact
  <2>2. r.mode \in Mode /\ r.path \in Path
    BY <2>1 DEF Lock_Request
  <2>. QED BY <2>1, <2>2, HeldMembers, QueuedMembers DEF Accounted, Waits
<1>. QED BY <1>1, <1>2, <1>3, LockInvariant, PTL DEF Spec

-----------------------------------------------------------------------------
(* held_locks.  Process::held_locks names what the process holds, waits    *)
(* for or is giving up.  It is a set of pairs of path and mode, so that it *)
(* can be exact only if no process has two requests for the same pair: the *)
(* second one would be forgotten with the first.  A process that is being  *)
(* unregistered waits for nothing.                                         *)

Active == Held \cup Queued

Same(q, r) == q.requester = r.requester /\ q.path = r.path /\ q.mode = r.mode

\* What explains an entry of held_locks.
Noted(p, path, mode) ==
  \/ \E r \in Active : r.requester = p /\ r.path = path /\ r.mode = mode
  \/ call # NoCall /\ call.requester = p /\ call.path = path /\ call.mode = mode

Booked ==
  /\ \A p \in Process, path \in Path, mode \in Mode :
       <<path, mode>> \in held_locks[p] <=> Noted(p, path, mode)
  /\ \A q, r \in Active : Same(q, r) => q = r
  /\ call # NoCall => \A r \in Active : ~Same(r, call)
  /\ \A r \in Active : r.requester \in Processes
  /\ dying # NoProcess => \A r \in Queued : r.requester # dying

\* A step that moves requests but adds and removes none.
LEMMA BookedKept ==
  ASSUME Booked, \A r : r \in Active' <=> r \in Active, \A r \in Queued' : r \in Queued,
         UNCHANGED <<call, held_locks, Processes>>, dying' \in {dying, NoProcess}
  PROVE  Booked'
<1>1. \A p \in Process, path \in Path, mode \in Mode :
        Noted(p, path, mode)' <=> Noted(p, path, mode)
  BY DEF Noted
<1>. QED BY <1>1 DEF Booked

\* Who waits, by the queues.
LEMMA QueuedWaits ==
  /\ \A r : r \in Queued <=> \E l \in Path : Waits(r, l, lock_requests)
  /\ \A r : r \in Queued' <=> \E l \in Path : Waits(r, l, lock_requests')
  BY QueuedMembers DEF Waits

\* Lock::acquire adds one holder.
LEMMA AcquiredHolds ==
  ASSUME TypeOK, NEW x \in Lock_Request, NEW n, AtOrAbove(n, x.path), Acquired(x, n)
  PROVE  \A r : r \in Held' <=> r \in Held \/ r = x
<1>1. x.mode \in Mode /\ x.path \in Path
  BY DEF Lock_Request
<1>2. (\A k \in Path : Grown(k)) /\ x \in lockers'[x.mode][x.path]
  BY AcquiredRecords
<1>3. \A m \in Mode, k \in Path : \A q \in lockers'[m][k] : q \in lockers[m][k] \/ q = x
  BY <1>1 DEF Acquired, TypeOK
<1>4. ASSUME NEW r PROVE r \in Held' <=> r \in Held \/ r = x
  <2>1. ASSUME r \in Held' PROVE r \in Held \/ r = x
    BY <1>3, <2>1, HeldMembers
  <2>2. ASSUME r \in Held PROVE r \in Held'
    BY <1>2, <2>2, HeldMembers DEF Grown
  <2>3. x \in Held'
    BY <1>1, <1>2, HeldMembers
  <2>. QED BY <2>1, <2>2, <2>3
<1>. QED BY <1>4

\* Lock_Forest::acquire and create: the request is noted whether it waits or not.
LEMMA RequestBooked ==
  ASSUME TypeOK, TypeOK', Booked, Idle, NEW x \in Lock_Request, Request(x, Root(x.path)),
         x.requester \in Processes, \A r \in Active : ~Same(r, x),
         UNCHANGED <<Processes, handler>>
  PROVE  Booked'
<1>1. /\ x.path \in Path /\ x.mode \in Mode /\ x.requester \in Process
      /\ lock_requests \in [Path -> Seq(Lock_Request)]
      /\ call = NoCall /\ call' = NoCall /\ dying' = NoProcess
  BY Zenon DEF TypeOK, handler, Lock_Request, Idle
<1>2. \A r \in Lock_Request : r \in Active' <=> r \in Active \/ r = x
  <2>1. CASE Acquired(x, Root(x.path)) /\ UNCHANGED lock_requests
    <3>1. AtOrAbove(Root(x.path), x.path)
      BY <1>1, PrefixRefl, RootPrefix
    <3>2. \A r : r \in Held' <=> r \in Held \/ r = x
      BY <1>1, <2>1, <3>1, AcquiredHolds
    <3>3. Queued' = Queued
      BY <2>1, SameStanding
    <3>. QED BY <3>2, <3>3, Zenon DEF Active
  <2>2. ASSUME NEW k \in Path, WaitsAt(x, Root(x.path), k),
               lock_requests' = [lock_requests EXCEPT ![k] = Append(@, x)]
        PROVE  \A r \in Lock_Request : r \in Active' <=> r \in Active \/ r = x
    <3>1. Held' = Held
      BY <2>2, SameStanding DEF WaitsAt
    <3>2. /\ lock_requests'[k] = Append(lock_requests[k], x)
          /\ \A l \in Path : l # k => lock_requests'[l] = lock_requests[l]
      BY <1>1, <2>2
    <3>3. /\ Waits(x, k, lock_requests')
          /\ \A r \in Lock_Request, l \in Path :
               /\ Waits(r, l, lock_requests') => Waits(r, l, lock_requests) \/ (r = x /\ l = k)
               /\ Waits(r, l, lock_requests) => Waits(r, l, lock_requests')
      <4>1. lock_requests \in [Path -> Seq(Lock_Request)]
        BY <1>1
      <4>. QED BY <3>2, <4>1, AppendWaits
    <3>4. \A r \in Lock_Request : r \in Queued' <=> r \in Queued \/ r = x
      BY <3>3, QueuedWaits, Zenon
    <3>. QED BY <3>1, <3>4, Zenon DEF Active
  <2>. QED BY <2>1, <2>2, Zenon DEF Request
<1>3. \A r \in Active \cup Active' : r \in Lock_Request
  <2>1. \A r \in Held \cup Queued : r \in Lock_Request
    BY RequestsTyped
  <2>2. \A r \in Held' \cup Queued' : r \in Lock_Request
    BY HeldMembers, QueuedMembers DEF TypeOK
  <2>. QED BY <2>1, <2>2, Zenon DEF Active
<1>4. ASSUME NEW p \in Process, NEW path \in Path, NEW mode \in Mode
      PROVE  <<path, mode>> \in held_locks'[p] <=> Noted(p, path, mode)'
  <2>1. <<path, mode>> \in held_locks'[p] <=>
          \/ <<path, mode>> \in held_locks[p]
          \/ p = x.requester /\ path = x.path /\ mode = x.mode
    BY <1>1, Zenon DEF Request, TypeOK
  <2>2. <<path, mode>> \in held_locks[p] <=> Noted(p, path, mode)
    BY Zenon DEF Booked
  <2>3. Noted(p, path, mode)' <=>
          \/ Noted(p, path, mode)
          \/ p = x.requester /\ path = x.path /\ mode = x.mode
    BY <1>1, <1>2, <1>3 DEF Noted
  <2>. QED BY <2>1, <2>2, <2>3, Zenon
<1>5. \A q, r \in Active' : Same(q, r) => q = r
  <2>. SUFFICES ASSUME NEW q \in Active', NEW r \in Active', Same(q, r) PROVE q = r
    OBVIOUS
  <2>1. q \in Active \/ q = x
    BY <1>2, <1>3
  <2>2. r \in Active \/ r = x
    BY <1>2, <1>3
  <2>. QED BY <2>1, <2>2 DEF Booked, Same
<1>6. \A r \in Active' : r.requester \in Processes'
  BY <1>2, <1>3 DEF Booked
<1>. QED BY <1>1, <1>4, <1>5, <1>6, Zenon DEF Booked

\* Lock::release of a lock that is held: the entry stays until the root returns.
LEMMA ReleaseHeldBooked ==
  ASSUME LockInv, Booked, call = NoCall,
         NEW p \in Process, NEW path \in Path, NEW mode \in Mode,
         ReleaseHeld(p, path, mode), UNCHANGED <<Processes, dying>>
  PROVE  Booked'
<1>1. PICK x \in lockers[mode][path] :
        /\ x.requester = p
        /\ lockers' = [lockers EXCEPT ![mode][path] = @ \ {x}]
        /\ call' = [requester |-> p, path |-> path, mode |-> mode,
                    request |-> x, at |-> path]
  BY Zenon DEF ReleaseHeld
<1>2. lock_requests' = lock_requests /\ held_locks' = held_locks
  BY DEF ReleaseHeld
<1>3. TypeOK /\ Placed /\ OnePlace /\ lockers \in [Mode -> [Path -> SUBSET Lock_Request]]
  BY DEF LockInv, TypeOK
<1>4. x.mode = mode /\ x.path = path /\ x \in Lock_Request /\ x \in Held
  BY <1>3, HeldMembers DEF Placed
<1>5. Queued' = Queued /\ x \notin Queued
  BY <1>2, <1>3, <1>4, SameStanding DEF OnePlace
<1>6. \A m \in Mode, k \in Path : \A r :
        r \in lockers'[m][k] <=> r \in lockers[m][k] /\ r # x
  <2>. SUFFICES ASSUME NEW m \in Mode, NEW k \in Path, NEW r
                PROVE  r \in lockers'[m][k] <=> r \in lockers[m][k] /\ r # x
    OBVIOUS
  <2>1. CASE m = mode /\ k = path
    BY <1>1, <1>3, <2>1
  <2>2. CASE ~(m = mode /\ k = path)
    <3>1. lockers'[m][k] = lockers[m][k]
      BY <1>1, <1>3, <2>2
    <3>2. x \notin lockers[m][k]
      BY <1>3, <1>4, <2>2 DEF Placed
    <3>. QED BY <3>1, <3>2
  <2>. QED BY <2>1, <2>2, Zenon
<1>7. \A r : r \in Active' <=> r \in Active /\ r # x
  BY <1>5, <1>6, HeldMembers, Zenon DEF Active
<1>8. call' # NoCall /\ Same(x, call')
  <2>1. call' \in Call
    BY <1>1, <1>4 DEF Call
  <2>. QED BY <1>1, <1>4, <2>1, SentinelAssumption DEF Same
<1>9. x \in Active
  BY <1>4 DEF Active
<1>10. \A r \in Active' : ~Same(r, call')
  BY <1>7, <1>8, <1>9 DEF Booked, Same
<1>11. ASSUME NEW u \in Process, NEW l \in Path, NEW m \in Mode
       PROVE  Noted(u, l, m)' <=> Noted(u, l, m)
  BY <1>7, <1>8, <1>9 DEF Noted, Same
<1>. QED BY <1>2, <1>5, <1>7, <1>10, <1>11, Zenon DEF Booked

\* The loop of Lock::release: its requests go from a queue to another one or to
\* their lock.
LEMMA GrantHeadKeeps ==
  ASSUME LockInv, TypeOK', Grounded, GrantHead
  PROVE  (\A r : r \in Active' <=> r \in Active) /\ (\A r \in Queued' : r \in Queued)
<1>1. PICK n \in Path : n = call.at /\ lock_requests[n] # <<>>
  BY Zenon DEF GrantHead, LockInv, TypeOK, Call
<1>2. TypeOK /\ Placed /\ lock_requests \in [Path -> Seq(Lock_Request)]
  BY DEF LockInv, TypeOK
<1>3. PICK x \in Lock_Request : x = Head(lock_requests[n])
  BY <1>1, <1>2
<1>4. 1 \in DOMAIN lock_requests[n] /\ x = lock_requests[n][1]
  BY <1>1, <1>2, <1>3
<1>5. Waits(x, n, lock_requests) /\ AtOrAbove(n, x.path)
  BY <1>2, <1>4 DEF Waits, Placed
<1>6. x.create_missing \/ x.path \in exists
  BY <1>5 DEF Grounded
<1>. DEFINE rest == [lock_requests EXCEPT ![n] = Tail(@)]
<1>7. \/ Acquired(x, n) /\ lock_requests' = rest
      \/ \E k \in Path \ {n} :
           WaitsAt(x, n, k) /\ lock_requests' = [rest EXCEPT ![k] = Append(@, x)]
  <2>1. ~NonExistent(x, n)
    BY <1>2, <1>6, NeverMissing
  <2>. QED BY <1>1, <1>3, <2>1, Zenon DEF GrantHead
<1>8. rest \in [Path -> Seq(Lock_Request)]
  BY <1>1, <1>2
<1>9. \A r \in Lock_Request, l \in Path :
        /\ Waits(r, l, rest) => Waits(r, l, lock_requests)
        /\ Waits(r, l, lock_requests) /\ r # x => Waits(r, l, rest)
  <2>1. /\ rest[n] = Tail(lock_requests[n])
        /\ \A l \in Path : l # n => rest[l] = lock_requests[l]
    BY <1>2
  <2>. HIDE DEF rest
  <2>. QED BY <1>1, <1>2, <1>3, <2>1, TailWaits, Zenon
<1>. HIDE DEF rest
<1>10. x \in Queued
  BY <1>5, QueuedWaits
<1>11. \A r : r \in Active \/ r \in Active' => r \in Lock_Request
  <2>1. \A r \in Held \cup Queued : r \in Lock_Request
    BY <1>2, RequestsTyped
  <2>2. \A r \in Held' \cup Queued' : r \in Lock_Request
    BY HeldMembers, QueuedMembers DEF TypeOK
  <2>. QED BY <2>1, <2>2, Zenon DEF Active
<1>12. CASE Acquired(x, n) /\ lock_requests' = rest
  <2>1. \A r : r \in Held' <=> r \in Held \/ r = x
    BY <1>2, <1>5, <1>12, AcquiredHolds
  <2>2. \A r \in Lock_Request : /\ r \in Queued' => r \in Queued
                                /\ r \in Queued /\ r # x => r \in Queued'
    BY <1>9, <1>12, QueuedWaits, Zenon
  <2>. QED BY <1>10, <1>11, <2>1, <2>2, Zenon DEF Active
<1>13. ASSUME NEW k \in Path, WaitsAt(x, n, k), lock_requests' = [rest EXCEPT ![k] = Append(@, x)]
       PROVE  (\A r : r \in Active' <=> r \in Active) /\ (\A r \in Queued' : r \in Queued)
  <2>1. /\ lock_requests'[k] = Append(rest[k], x)
        /\ \A l \in Path : l # k => lock_requests'[l] = rest[l]
    BY <1>8, <1>13
  <2>2. /\ Waits(x, k, lock_requests')
        /\ \A r \in Lock_Request, l \in Path :
             /\ Waits(r, l, lock_requests') => Waits(r, l, rest) \/ (r = x /\ l = k)
             /\ Waits(r, l, rest) => Waits(r, l, lock_requests')
    BY <1>8, <2>1, AppendWaits
  <2>3. \A r \in Lock_Request : r \in Queued' <=> r \in Queued
    <3>. SUFFICES ASSUME NEW r \in Lock_Request PROVE r \in Queued' <=> r \in Queued
      OBVIOUS
    <3>1. CASE r = x
      BY <1>10, <2>2, <3>1, QueuedWaits
    <3>2. CASE r # x
      BY <1>9, <2>2, <3>2, QueuedWaits, Zenon
    <3>. QED BY <3>1, <3>2
  <2>4. Held' = Held
    BY <1>13, SameStanding DEF WaitsAt
  <2>. QED BY <1>11, <2>3, <2>4, Zenon DEF Active
<1>. QED BY <1>7, <1>12, <1>13

\* Its end: the last node returns and the entry goes.
LEMMA GrantDoneBooked ==
  ASSUME LockInv, Booked, GrantDone
  PROVE  Booked'
<1>1. /\ call \in Call /\ call # NoCall /\ Ascend(call)
      /\ UNCHANGED <<lockers, lock_requests, Processes, dying>>
  BY DEF GrantDone, LockInv, TypeOK
<1>2. Held' = Held /\ Queued' = Queued
  BY <1>1, SameStanding
<1>3. Active' = Active
  BY <1>2 DEF Active
<1>4. held_locks \in [Process -> SUBSET (Path \X Mode)] /\ call.requester \in Process
  BY <1>1 DEF LockInv, TypeOK, Call
<1>5. CASE Len(call.at) = 1 /\ call' = NoCall
             /\ held_locks' = [held_locks EXCEPT ![call.requester] = @ \ {<<call.path, call.mode>>}]
  <2>1. ASSUME NEW p \in Process, NEW path \in Path, NEW mode \in Mode
        PROVE  <<path, mode>> \in held_locks'[p] <=> Noted(p, path, mode)'
    <3>1. <<path, mode>> \in held_locks'[p] <=>
            /\ <<path, mode>> \in held_locks[p]
            /\ ~(p = call.requester /\ path = call.path /\ mode = call.mode)
      BY <1>4, <1>5
    <3>2. <<path, mode>> \in held_locks[p] <=> Noted(p, path, mode)
      BY Zenon DEF Booked
    <3>3. Noted(p, path, mode)' <=>
            /\ Noted(p, path, mode)
            /\ ~(p = call.requester /\ path = call.path /\ mode = call.mode)
      BY <1>1, <1>3, <1>5 DEF Noted, Booked, Same
    <3>. QED BY <3>1, <3>2, <3>3, Zenon
  <2>. QED BY <1>1, <1>2, <1>3, <1>5, <2>1, Zenon DEF Booked
<1>6. CASE /\ Len(call.at) > 1
           /\ call' = [call EXCEPT !.at = Parent(call.at)] /\ held_locks' = held_locks
  <2>1. /\ call' # NoCall
        /\ call'.requester = call.requester /\ call'.path = call.path /\ call'.mode = call.mode
    <3>1. call.at \in Path
      BY <1>1 DEF Call
    <3>2. Parent(call.at) \in Path
      BY <1>6, <3>1, ParentAbove
    <3>3. call' \in Call
      BY <1>1, <1>6, <3>2 DEF Call
    <3>. QED BY <1>1, <1>6, <3>3, SentinelAssumption DEF Call
  <2>2. \A p \in Process, path \in Path, mode \in Mode :
          <<path, mode>> \in held_locks'[p] <=> Noted(p, path, mode)'
    <3>1. \A p, path, mode : Noted(p, path, mode)' <=> Noted(p, path, mode)
      BY <1>1, <1>3, <2>1, Zenon DEF Noted
    <3>. QED BY <1>6, <3>1, Zenon DEF Booked
  <2>. QED BY <1>1, <1>2, <1>3, <2>1, <2>2, Zenon DEF Booked, Same
<1>. QED BY <1>1, <1>5, <1>6, Zenon DEF Ascend

\* Every step of careful clients.
LEMMA BookedNext ==
  ASSUME LockInv, LockInv', Grounded, Booked, Liberties = {}, [Next]_vars
  PROVE  Booked'
<1>0. LockInv /\ TypeOK /\ TypeOK' /\ Grounded /\ Booked
  BY DEF LockInv
<1>m. Modes \subseteq Mode
  BY BoundAssumption DEF Mode
<1>1. ASSUME UNCHANGED <<lockers, lock_requests, call>>
      PROVE  /\ Queued' = Queued /\ Active' = Active
             /\ \A p, path, mode : Noted(p, path, mode)' <=> Noted(p, path, mode)
  <2>1. Held' = Held /\ Queued' = Queued
    BY <1>1, SameStanding
  <2>. QED BY <1>1, <2>1 DEF Active, Noted
<1>2. ASSUME UNCHANGED <<lockers, lock_requests, call, held_locks, Processes, dying>>
      PROVE  Booked'
  BY <1>0, <1>1, <1>2, Zenon DEF Booked
<1>3. ASSUME NEW p \in Process, RegisterProcess(p) PROVE Booked'
  <2>1. /\ Queued' = Queued /\ Active' = Active /\ call' = NoCall /\ dying' = NoProcess
        /\ \A u, path, mode : Noted(u, path, mode)' <=> Noted(u, path, mode)
    BY <1>1, <1>3 DEF RegisterProcess, forest, handler, Idle
  <2>2. \A path \in Path, mode \in Mode : ~Noted(p, path, mode)
    BY <1>0, <1>3 DEF RegisterProcess, Noted, Booked, Idle
  <2>3. \A u \in Process : held_locks'[u] = IF u = p THEN {} ELSE held_locks[u]
    BY <1>0, <1>3 DEF RegisterProcess, TypeOK
  <2>4. Processes \subseteq Processes'
    BY <1>3 DEF RegisterProcess
  <2>. QED BY <1>0, <2>1, <2>2, <2>3, <2>4 DEF Booked
<1>4. ASSUME NEW p \in Process, UnregisterProcess(p) PROVE Booked'
  <2>1. /\ Queued' = Queued /\ Active' = Active
        /\ \A u, path, mode : Noted(u, path, mode)' <=> Noted(u, path, mode)
    BY <1>1, <1>4, Zenon DEF UnregisterProcess, forest
  <2>2. UNCHANGED <<held_locks, Processes, call>> /\ dying' = p
    BY <1>4 DEF UnregisterProcess
  <2>3. \A r \in Queued : r.requester # p
    BY <1>4 DEF UnregisterProcess
  <2>. QED BY <1>0, <2>1, <2>2, <2>3 DEF Booked
<1>5. ASSUME NEW p \in Process, NEW path \in Path, CreateNotHeld(p, path) PROVE Booked'
  BY <1>2, <1>5 DEF CreateNotHeld, handler
<1>6. ASSUME Idle, NEW r \in Lock_Request, Request(r, Root(r.path)), r.requester \in Processes,
             MayRequest(r.requester, r.path, r.mode), UNCHANGED <<Processes, handler>>
      PROVE  Booked'
  <2>1. \A q \in Active : ~Same(q, r)
    BY <1>6 DEF MayRequest, Outstanding, Active, Same
  <2>. QED BY <1>0, <1>6, <2>1, RequestBooked
<1>7. ASSUME NEW p \in Process, NEW path \in Path, CreateLock(p, path) PROVE Booked'
  <2>1. PICK s \in Serial :
          Request([mode |-> "X", requester |-> p, path |-> path,
                   create_missing |-> TRUE, serial |-> s], Root(path))
    BY <1>7, Zenon DEF CreateLock
  <2>. DEFINE r == [mode |-> "X", requester |-> p, path |-> path,
                    create_missing |-> TRUE, serial |-> s]
  <2>2. r \in Lock_Request /\ r.path = path /\ r.requester = p /\ r.mode = "X"
    BY DEF Lock_Request, Mode
  <2>3. Request(r, Root(path))
    BY <2>1
  <2>. HIDE DEF r
  <2>. QED BY <1>6, <1>7, <2>2, <2>3 DEF CreateLock
<1>8. ASSUME NEW p \in Process, NEW path \in Path, NEW mode \in Mode,
             AcquireLock(p, path, mode)
      PROVE  Booked'
  <2>1. PICK s \in Serial :
          LET r == [mode |-> mode, requester |-> p, path |-> path,
                    create_missing |-> FALSE, serial |-> s]
          IN  \/ Request(r, Root(path))
              \/ NonExistent(r, Root(path)) /\ UNCHANGED <<lock_requests, held_locks>>
    BY <1>8, Zenon DEF AcquireLock
  <2>. DEFINE r == [mode |-> mode, requester |-> p, path |-> path,
                    create_missing |-> FALSE, serial |-> s]
  <2>2. r \in Lock_Request /\ r.path = path /\ r.requester = p /\ r.mode = mode
    BY DEF Lock_Request
  <2>3. \/ Request(r, Root(path))
        \/ NonExistent(r, Root(path)) /\ UNCHANGED <<lock_requests, held_locks>>
    BY <2>1
  <2>. HIDE DEF r
  <2>4. CASE Request(r, Root(path))
    BY <1>6, <1>8, <2>2, <2>4 DEF AcquireLock
  <2>5. CASE NonExistent(r, Root(path)) /\ UNCHANGED <<lock_requests, held_locks>>
    BY <1>2, <1>8, <2>5 DEF NonExistent, AcquireLock, handler
  <2>. QED BY <2>3, <2>4, <2>5
<1>9. ASSUME NEW p \in Process, NEW path \in Path, NEW mode \in Mode,
             call = NoCall, Release(p, path, mode), ~ReleaseQueued(p, path, mode),
             UNCHANGED <<Processes, dying>>
      PROVE  Booked'
  <2>1. CASE ReleaseHeld(p, path, mode)
    BY <1>0, <1>9, <2>1, ReleaseHeldBooked
  <2>2. CASE ReleaseNotHeld(p, path, mode)
    BY <1>2, <1>9, <2>2 DEF ReleaseNotHeld, forest
  <2>. QED BY <1>9, <2>1, <2>2 DEF Release
<1>10. ASSUME NEW p \in Process, NEW path \in Path, NEW mode \in Mode,
              ReleaseLock(p, path, mode)
       PROVE  Booked'
  <2>1. ~ReleaseQueued(p, path, mode)
    BY <1>10, Zenon DEF ReleaseLock, MayDrop, ReleaseQueued
  <2>. QED BY <1>9, <1>10, <2>1 DEF ReleaseLock, Idle
<1>11. CASE GrantHead
  <2>1. (\A r : r \in Active' <=> r \in Active) /\ (\A r \in Queued' : r \in Queued)
    BY <1>0, <1>11, GrantHeadKeeps
  <2>2. UNCHANGED <<call, held_locks, Processes, dying>>
    BY <1>11, Zenon DEF GrantHead
  <2>. QED BY <1>0, <2>1, <2>2, BookedKept
<1>12. CASE GrantDone
  BY <1>0, <1>12, GrantDoneBooked
<1>13. CASE DestroyReleases
  <2>1. PICK lock \in todo : Release(dying, lock[1], lock[2])
    BY <1>13 DEF DestroyReleases
  <2>2. /\ call = NoCall /\ dying \in Process /\ dying # NoProcess
        /\ UNCHANGED <<Processes, dying>>
    BY <1>0, <1>13 DEF DestroyReleases, TypeOK
  <2>3. lock[1] \in Path /\ lock[2] \in Mode
    BY <1>0, <2>1 DEF TypeOK
  <2>4. ~ReleaseQueued(dying, lock[1], lock[2])
    <3>1. \A n \in Path : \A i \in DOMAIN lock_requests[n] :
            lock_requests[n][i].requester # dying
      BY <1>0, <2>2, QueuedMembers DEF Booked
    <3>. QED BY <3>1, Zenon DEF ReleaseQueued, Matches
  <2>. QED BY <1>9, <2>1, <2>2, <2>3, <2>4
<1>14. CASE DestroyRepeats \/ Notify
  BY <1>2, <1>14 DEF DestroyRepeats, Notify, forest
<1>15. CASE DestroyDone
  <2>1. /\ Queued' = Queued /\ Active' = Active /\ call = NoCall
        /\ \A u, path, mode : Noted(u, path, mode)' <=> Noted(u, path, mode)
    BY <1>1, <1>15 DEF DestroyDone, forest
  <2>2. UNCHANGED <<held_locks, call>> /\ dying' = NoProcess /\ Processes' = Processes \ {dying}
    BY <1>15 DEF DestroyDone
  <2>3. \A path \in Path, mode \in Mode : ~Noted(dying, path, mode)
    BY <1>0, <1>15, Zenon DEF DestroyDone, Booked, TypeOK
  <2>4. \A r \in Active : r.path \in Path /\ r.mode \in Mode
    BY <1>0, RequestsTyped DEF Active
  <2>5. \A r \in Active : r.requester # dying
    BY <2>3, <2>4 DEF Noted
  <2>. QED BY <1>0, <2>1, <2>2, <2>5 DEF Booked
<1>16. CASE UNCHANGED vars
  BY <1>2, <1>16 DEF vars, forest, handler
<1>17. CASE Client
  BY <1>m, <1>3, <1>4, <1>5, <1>7, <1>8, <1>10, <1>17 DEF Client
<1>18. CASE Server
  BY <1>11, <1>12, <1>13, <1>14, <1>15, <1>18 DEF Server
<1>. QED BY <1>16, <1>17, <1>18 DEF Next

\* The invariant of held_locks, for careful clients.
LEMMA Bookkeeping ==
  ASSUME Liberties = {}
  PROVE  Spec => [](LockInv /\ Booked)
<1>1. Init => IntentsExact /\ Grounded /\ Booked
  <2>. SUFFICES ASSUME Init PROVE IntentsExact /\ Grounded /\ Booked
    OBVIOUS
  <2>1. Held = {} /\ Queued = {}
    BY HeldMembers, QueuedMembers DEF Init
  <2>2. Active = {}
    BY <2>1 DEF Active
  <2>3. Booked
    BY <2>1, <2>2 DEF Init, Booked, Noted
  <2>. QED BY <2>3 DEF Init, IntentsExact, Grounded, Waits
<1>2. "missing" \notin Liberties
  OBVIOUS
<1>3. LockInv /\ IntentsExact /\ Grounded /\ [Next]_vars => IntentsExact' /\ Grounded'
  BY <1>2, TidyNext
<1>4. LockInv /\ LockInv' /\ Grounded /\ Booked /\ [Next]_vars => Booked'
  BY BookedNext
<1>. QED BY <1>1, <1>3, <1>4, LockInvariant, PTL DEF Spec

\* Process::held_locks is exact between two handlers: unregister_process finds in
\* it every lock that the process holds or waits for, and nothing else, as long as
\* clients ask for each lock once, only for locks that exist or that they create,
\* and neither release nor unregister while they wait.
THEOREM HeldLocks ==
  ASSUME Liberties = {}
  PROVE  Spec => []HeldLocksExact
<1>1. LockInv /\ Booked => HeldLocksExact
  <2>. SUFFICES ASSUME LockInv, Booked, Idle, NEW p \in Process
                PROVE  held_locks[p] = {<<r.path, r.mode>> : r \in Outstanding(p)}
    BY DEF HeldLocksExact
  <2>1. call = NoCall /\ TypeOK
    BY DEF Idle, LockInv
  <2>2. held_locks[p] \subseteq Path \X Mode
    BY <2>1 DEF TypeOK
  <2>3. \A r \in Held \cup Queued : r.path \in Path /\ r.mode \in Mode
    BY <2>1, RequestsTyped
  <2>4. ASSUME NEW path \in Path, NEW mode \in Mode
        PROVE  <<path, mode>> \in held_locks[p] <=>
                 \E r \in Outstanding(p) : r.path = path /\ r.mode = mode
    <3>1. <<path, mode>> \in held_locks[p] <=> Noted(p, path, mode)
      BY Zenon DEF Booked
    <3>. QED BY <2>1, <3>1, Zenon DEF Noted, Outstanding, Active
  <2>5. ASSUME NEW l \in held_locks[p] PROVE \E r \in Outstanding(p) : l = <<r.path, r.mode>>
    <3>1. PICK path \in Path, mode \in Mode : l = <<path, mode>>
      BY <2>2
    <3>. QED BY <2>4, <3>1
  <2>6. ASSUME NEW r \in Outstanding(p) PROVE <<r.path, r.mode>> \in held_locks[p]
    <3>1. r.path \in Path /\ r.mode \in Mode
      BY <2>3 DEF Outstanding
    <3>. QED BY <2>4, <3>1
  <2>. QED BY <2>5, <2>6
<1>. QED BY <1>1, Bookkeeping, PTL

\* Process_map::try_destroy leaves nothing of the process behind: whoever holds a
\* lock or waits for one is registered, as long as clients are careful.
THEOREM NothingOfTheDead ==
  ASSUME Liberties = {}
  PROVE  Spec => []NoLocksOfTheDead
<1>1. Booked => NoLocksOfTheDead
  BY DEF Booked, NoLocksOfTheDead, Active
<1>. QED BY <1>1, Bookkeeping, PTL

=============================================================================
