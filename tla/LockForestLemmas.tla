-------------------------- MODULE LockForestLemmas --------------------------
(***************************************************************************)
(* Facts about the operators of LockForest, for every forest of paths: the *)
(* prefix order on paths, the effects of Lock::acquire on locks and intents,*)
(* the queues of all nodes when one of them changes, and what Lock::acquire,*)
(* one level of the way up in Lock::release, and a new request do to the   *)
(* inductive invariant LockInv.                                            *)
(***************************************************************************)
EXTENDS LockForest, TLAPS

-----------------------------------------------------------------------------
(* Paths and the prefix order on them.                                     *)

\* Paths are non-empty sequences.
LEMMA PathSeq == ASSUME NEW s \in Path PROVE s \in Seq(Name) /\ s # <<>> /\ Len(s) \in Nat /\ Len(s) > 0
  BY PathAssumption

\* Sequences of names are equal if their elements are.
LEMMA SameSeq ==
  ASSUME NEW s \in Seq(Name), NEW t \in Seq(Name), Len(s) = Len(t),
         \A i \in 1..Len(s) : s[i] = t[i]
  PROVE  s = t
  OBVIOUS

\* AtOrAbove, element by element.
LEMMA PrefixElems ==
  ASSUME NEW s \in Seq(Name), NEW t \in Seq(Name)
  PROVE AtOrAbove(s, t) <=> /\ Len(s) <= Len(t)
                            /\ \A i \in 1..Len(s) : s[i] = t[i]
<1>1. SubSeq(s, 1, Len(s)) = s
  OBVIOUS
<1>2. CASE Len(s) <= Len(t)
  <2>. DEFINE u == SubSeq(t, 1, Len(s))
  <2>1. u \in Seq(Name) /\ Len(u) = Len(s) /\ \A i \in 1..Len(s) : u[i] = t[i]
    BY <1>2
  <2>2. s = u <=> \A i \in 1..Len(s) : s[i] = u[i]
    BY <2>1, SameSeq
  <2>. QED BY <1>1, <1>2, <2>1, <2>2 DEF AtOrAbove
<1>. QED BY <1>2 DEF AtOrAbove

\* Every path is a prefix of itself ...
LEMMA PrefixRefl ==
  ASSUME NEW s \in Path
  PROVE AtOrAbove(s, s)
  BY PathSeq, PrefixElems

\* ... a prefix of a prefix is a prefix ...
LEMMA PrefixTrans ==
  ASSUME NEW s \in Path, NEW t \in Path, NEW u \in Path, AtOrAbove(s, t), AtOrAbove(t, u)
  PROVE AtOrAbove(s, u)
  BY PathSeq, PrefixElems

\* ... two paths that are prefixes of each other are equal ...
LEMMA PrefixAntisym ==
  ASSUME NEW s \in Path, NEW t \in Path, AtOrAbove(s, t), AtOrAbove(t, s)
  PROVE s = t
  BY PathSeq, PrefixElems, SameSeq

\* ... and the nodes above one node form a chain.
LEMMA PrefixChain ==
  ASSUME NEW s \in Path, NEW t \in Path, NEW u \in Path, AtOrAbove(s, u), AtOrAbove(t, u)
  PROVE AtOrAbove(s, t) \/ AtOrAbove(t, s)
  BY PathSeq, PrefixElems

\* Every walk starts at the root of its path.
LEMMA RootPrefix ==
  ASSUME NEW s \in Path, NEW u \in Path, AtOrAbove(s, u)
  PROVE AtOrAbove(Root(u), s)
<1>1. Root(u) \in Seq(Name) /\ Len(Root(u)) = 1 /\ Root(u)[1] = u[1]
  BY PathSeq DEF Root
<1>2. s \in Seq(Name) /\ u \in Seq(Name) /\ Len(s) \in Nat /\ Len(s) > 0
  BY PathSeq
<1>3. s[1] = u[1]
  BY <1>2, PrefixElems
<1>4. Len(Root(u)) <= Len(s) /\ \A i \in 1..Len(Root(u)) : Root(u)[i] = s[i]
  BY <1>1, <1>2, <1>3
<1>. QED BY <1>1, <1>2, <1>4, PrefixElems

\* A path is a root or has a parent.
LEMMA RootLength ==
  ASSUME NEW n \in Path
  PROVE  Len(n) > 1 <=> Len(n) # 1
<1>1. Len(n) \in Nat /\ Len(n) > 0
  BY PathSeq
<1>2. \A k \in Nat : k > 0 => (k > 1 <=> k # 1)
  OBVIOUS
<1>. QED BY <1>1, <1>2, Zenon

\* The parent of a node is a node, and above it.
LEMMA ParentAbove ==
  ASSUME NEW n \in Path, Len(n) > 1
  PROVE Parent(n) \in Path /\ Above(Parent(n), n)
<1>1. Parent(n) \in Path
  BY PathAssumption
<1>2. Len(Parent(n)) = Len(n) - 1 /\ \A i \in 1..Len(n)-1 : Parent(n)[i] = n[i]
  BY PathSeq DEF Parent
<1>. QED BY <1>1, <1>2, PathSeq, PrefixElems DEF Above

\* The nodes above a node are its parent and the nodes above that.
LEMMA AboveParent ==
  ASSUME NEW n \in Path, NEW k \in Path, Above(n, k)
  PROVE  Len(k) > 1 /\ (n = Parent(k) \/ Above(n, Parent(k)))
<1>1. n \in Seq(Name) /\ k \in Seq(Name) /\ Len(n) > 0 /\ Len(n) \in Nat /\ Len(k) \in Nat
  BY PathSeq
<1>2. Len(n) <= Len(k) /\ \A i \in 1..Len(n) : n[i] = k[i]
  BY <1>1, PrefixElems DEF Above
<1>3. Len(n) # Len(k)
  BY <1>1, <1>2, SameSeq DEF Above
<1>4. Len(n) <= Len(k) - 1 /\ Len(k) > 1
  BY <1>1, <1>2, <1>3
<1>5. /\ Parent(k) \in Seq(Name) /\ Len(Parent(k)) = Len(k) - 1
      /\ \A i \in 1..Len(k) - 1 : Parent(k)[i] = k[i]
  BY <1>1, <1>4 DEF Parent
<1>6. \A i \in 1..Len(n) : n[i] = Parent(k)[i]
  BY <1>1, <1>2, <1>4, <1>5
<1>7. AtOrAbove(n, Parent(k))
  BY <1>1, <1>4, <1>5, <1>6, PrefixElems
<1>. QED BY <1>4, <1>7 DEF Above

\* The elements of a concatenation.
LEMMA Concatenation ==
  ASSUME NEW S, NEW u \in Seq(S), NEW v \in Seq(S)
  PROVE  /\ u \o v \in Seq(S)
         /\ Len(u \o v) = Len(u) + Len(v)
         /\ \A j \in 1..Len(u) + Len(v) :
              (u \o v)[j] = IF j <= Len(u) THEN u[j] ELSE v[j - Len(u)]
OBVIOUS

\* What remains when Lock::release erases one request from a queue.
LEMMA ErasedProperties ==
  ASSUME NEW S, NEW q \in Seq(S), NEW i \in 1..Len(q)
  PROVE  /\ Erased(q, i) \in Seq(S)
         /\ Len(Erased(q, i)) = Len(q) - 1
         /\ \A j \in 1..Len(q) - 1 :
              Erased(q, i)[j] = IF j < i THEN q[j] ELSE q[j + 1]
<1>. DEFINE u == SubSeq(q, 1, i - 1)
            v == SubSeq(q, i + 1, Len(q))
<1>1. u \in Seq(S) /\ Len(u) = i - 1 /\ \A j \in 1..i - 1 : u[j] = q[j]
  OBVIOUS
<1>2. v \in Seq(S) /\ Len(v) = Len(q) - i /\ \A j \in 1..Len(q) - i : v[j] = q[i + j]
  OBVIOUS
<1>3. /\ u \o v \in Seq(S)
      /\ Len(u \o v) = Len(u) + Len(v)
      /\ \A j \in 1..Len(u) + Len(v) :
           (u \o v)[j] = IF j <= Len(u) THEN u[j] ELSE v[j - Len(u)]
  BY <1>1, <1>2, Concatenation, Zenon
<1>. HIDE DEF u, v
<1>4. ASSUME NEW j \in 1..Len(q) - 1
      PROVE  (u \o v)[j] = IF j < i THEN q[j] ELSE q[j + 1]
  <2>1. CASE j < i
    BY <2>1, <1>1, <1>2, <1>3, SMTT(20)
  <2>2. CASE ~(j < i)
    <3>1. (u \o v)[j] = v[j - (i - 1)]
      BY <2>2, <1>1, <1>2, <1>3, SMTT(20)
    <3>2. j - (i - 1) \in 1..Len(q) - i /\ i + (j - (i - 1)) = j + 1
      BY <2>2
    <3>. QED BY <2>2, <3>1, <3>2, <1>2
  <2>. QED BY <2>1, <2>2, Zenon
<1>5. Erased(q, i) = u \o v
  BY DEF Erased, u, v
<1>. QED BY <1>1, <1>2, <1>3, <1>4, <1>5

-----------------------------------------------------------------------------
(* Locks, requests and the effects of Lock::acquire.                       *)

\* What it means to be held, before and after a step.
LEMMA HeldMembers ==
  /\ \A r : r \in Held <=> \E m \in Mode, n \in Path : r \in lockers[m][n]
  /\ \A r : r \in Held' <=> \E m \in Mode, n \in Path : r \in lockers'[m][n]
  BY DEF Held

\* What it means to wait, before and after a step.
LEMMA QueuedMembers ==
  /\ \A r : r \in Queued <=> \E n \in Path : \E i \in DOMAIN lock_requests[n] :
                               r = lock_requests[n][i]
  /\ \A r : r \in Queued' <=> \E n \in Path : \E i \in DOMAIN lock_requests'[n] :
                                r = lock_requests'[n][i]
  BY DEF Queued, Range

\* A step that leaves the locks and the queues alone changes nobody's standing.
LEMMA SameStanding ==
  /\ lockers' = lockers => Held' = Held
  /\ lock_requests' = lock_requests => Queued' = Queued
<1>1. lockers' = lockers => Held' = Held
  BY DEF Held
<1>2. lock_requests' = lock_requests => Queued' = Queued
  BY DEF Queued
<1>. QED BY <1>1, <1>2, Zenon

\* Requests that hold or wait are well formed.
LEMMA RequestsTyped ==
  ASSUME TypeOK
  PROVE  \A r \in Held \cup Queued : r \in Lock_Request /\ r.mode \in Mode /\ r.path \in Path
<1>1. \A r \in Held : r \in Lock_Request
  BY HeldMembers DEF TypeOK
<1>2. ASSUME NEW n \in Path, NEW i \in DOMAIN lock_requests[n]
      PROVE  lock_requests[n][i] \in Lock_Request
  <2>1. lock_requests[n] \in Seq(Lock_Request)
    BY DEF TypeOK
  <2>. QED BY <2>1
<1>3. \A r \in Queued : r \in Lock_Request
  BY <1>2, QueuedMembers
<1>. QED BY <1>1, <1>3 DEF Lock_Request

\* An intent that Lock::acquire takes after its check leaves the node consistent.
LEMMA IntendConsistent ==
  ASSUME NEW k \in Path, NodeConsistent(k),
         NEW r \in Lock_Request, CanIntend(r.requester, r.mode, k),
         \A m \in Mode : lockers'[m][k] = lockers[m][k],
         \A m \in Mode : intents'[m][k] = IF m = r.mode
                           THEN intents[m][k] \cup {r} ELSE intents[m][k]
  PROVE  NodeConsistent(k)'
<1>1. r.mode \in Mode
  BY DEF Lock_Request
<1>2. /\ lockers'["S"][k] = lockers["S"][k]
      /\ lockers'["Splus"][k] = lockers["Splus"][k]
      /\ lockers'["X"][k] = lockers["X"][k]
  BY DEF Mode
<1>3. CASE r.mode = "S"
  <2>1. /\ intents'["S"][k] = intents["S"][k] \cup {r}
        /\ intents'["Splus"][k] = intents["Splus"][k]
        /\ intents'["X"][k] = intents["X"][k]
    BY <1>3 DEF Mode
  <2>. QED BY <1>2, <1>3, <2>1 DEF NodeConsistent, CanIntend, Only
<1>4. CASE r.mode = "Splus"
  <2>1. /\ intents'["S"][k] = intents["S"][k]
        /\ intents'["Splus"][k] = intents["Splus"][k] \cup {r}
        /\ intents'["X"][k] = intents["X"][k]
    BY <1>4 DEF Mode
  <2>. QED BY <1>2, <1>4, <2>1 DEF NodeConsistent, CanIntend, Only
<1>5. CASE r.mode = "X"
  <2>1. /\ intents'["S"][k] = intents["S"][k]
        /\ intents'["Splus"][k] = intents["Splus"][k]
        /\ intents'["X"][k] = intents["X"][k] \cup {r}
    BY <1>5 DEF Mode
  <2>. QED BY <1>2, <1>5, <2>1 DEF NodeConsistent, CanIntend, Only
<1>. QED BY <1>1, <1>3, <1>4, <1>5 DEF Mode

\* A successful Lock::acquire: the lock is added at its path only, the request
\* ends with an intent on every node above, and all nodes stay consistent.
LEMMA AcquiredEffect ==
  ASSUME TypeOK, \A k \in Path : NodeConsistent(k),
         NEW r \in Lock_Request, NEW n, AtOrAbove(n, r.path), Acquired(r, n),
         \A k \in Path : Above(k, r.path) /\ ~AtOrAbove(n, k)
                           => r \in intents[r.mode][k]
  PROVE  /\ exists' \subseteq Path
         /\ lockers' \in [Mode -> [Path -> SUBSET Lock_Request]]
         /\ intents' \in [Mode -> [Path -> SUBSET Lock_Request]]
         /\ \A m \in Mode, k \in Path : intents[m][k] \subseteq intents'[m][k]
         /\ \A k \in Path : Above(k, r.path) => r \in intents'[r.mode][k]
         /\ \A m \in Mode, k \in Path : \A q \in lockers'[m][k] :
              q \in lockers[m][k] \/ (q = r /\ m = r.mode /\ k = r.path)
         /\ \A k \in Path : NodeConsistent(k)'
<1>1. r.mode \in Mode /\ r.path \in Path
  BY DEF Lock_Request
<1>2. /\ exists' \subseteq Path
      /\ lockers' \in [Mode -> [Path -> SUBSET Lock_Request]]
      /\ intents' \in [Mode -> [Path -> SUBSET Lock_Request]]
  BY <1>1 DEF TypeOK, Acquired, Intend, Walk, Between
<1>3. \A m \in Mode, k \in Path :
        intents'[m][k] = IF m = r.mode /\ k \in Walk(r, n) \ {r.path}
                           THEN intents[m][k] \cup {r} ELSE intents[m][k]
  BY <1>1, Zenon DEF TypeOK, Acquired, Intend
<1>4. \A m \in Mode, k \in Path :
        lockers'[m][k] = IF m = r.mode /\ k = r.path
                           THEN IF m = "S" THEN lockers[m][k] \cup {r} ELSE {r}
                           ELSE lockers[m][k]
  BY <1>1, Zenon DEF TypeOK, Acquired
<1>5. ASSUME NEW k \in Path, Above(k, r.path)
      PROVE  r \in intents'[r.mode][k]
  BY <1>1, <1>3, <1>5, Zenon DEF Walk, Between, Above
<1>6. ASSUME NEW k \in Path PROVE NodeConsistent(k)'
  <2>1. CASE k = r.path
    <3>1. /\ intents'["S"][k] = intents["S"][k]
          /\ intents'["Splus"][k] = intents["Splus"][k]
          /\ intents'["X"][k] = intents["X"][k]
      BY <1>3, <2>1, Zenon DEF Mode
    <3>2. CanLock(r.requester, r.mode, k)
      BY <1>1, <2>1, PrefixRefl DEF Acquired, Stops, Walk, Between, Blocked
    <3>3. NodeConsistent(k)
      OBVIOUS
    <3>4. CASE r.mode = "S"
      <4>1. /\ lockers'["S"][k] = lockers["S"][k] \cup {r}
            /\ lockers'["Splus"][k] = lockers["Splus"][k]
            /\ lockers'["X"][k] = lockers["X"][k]
        BY <1>4, <2>1, <3>4, Zenon DEF Mode
      <4>. QED BY <3>1, <3>2, <3>3, <3>4, <4>1 DEF NodeConsistent, CanLock, Only
    <3>5. CASE r.mode = "Splus"
      <4>1. /\ lockers'["S"][k] = lockers["S"][k]
            /\ lockers'["Splus"][k] = {r}
            /\ lockers'["X"][k] = lockers["X"][k]
        BY <1>4, <2>1, <3>5 DEF Mode
      <4>. QED BY <3>1, <3>2, <3>3, <3>5, <4>1 DEF NodeConsistent, CanLock, Only
    <3>6. CASE r.mode = "X"
      <4>1. /\ lockers'["S"][k] = lockers["S"][k]
            /\ lockers'["Splus"][k] = lockers["Splus"][k]
            /\ lockers'["X"][k] = {r}
        BY <1>4, <2>1, <3>6 DEF Mode
      <4>. QED BY <3>1, <3>2, <3>3, <3>6, <4>1 DEF NodeConsistent, CanLock, Only
    <3>. QED BY <1>1, <3>4, <3>5, <3>6 DEF Mode
  <2>2. CASE k # r.path /\ k \in Walk(r, n)
    <3>1. \A m \in Mode : lockers'[m][k] = lockers[m][k]
      BY <1>4, <2>2, Zenon
    <3>2. CanIntend(r.requester, r.mode, k)
      BY <2>2 DEF Acquired, Stops, Blocked
    <3>3. \A m \in Mode : intents'[m][k] = IF m = r.mode
                            THEN intents[m][k] \cup {r} ELSE intents[m][k]
      BY <1>3, <2>2
    <3>. QED BY <3>1, <3>2, <3>3, IntendConsistent, Zenon
  <2>3. CASE k # r.path /\ k \notin Walk(r, n)
    <3>1. \A m \in Mode : lockers'[m][k] = lockers[m][k] /\ intents'[m][k] = intents[m][k]
      BY <1>3, <1>4, <2>3, ZenonT(30)
    <3>. QED BY <3>1 DEF NodeConsistent, Only, Mode
  <2>. QED BY <2>1, <2>2, <2>3
<1>7. \A m \in Mode, k \in Path : intents[m][k] \subseteq intents'[m][k]
  BY <1>3, Zenon
<1>8. \A m \in Mode, k \in Path : \A q \in lockers'[m][k] :
        q \in lockers[m][k] \/ (q = r /\ m = r.mode /\ k = r.path)
  <2>1. ASSUME NEW m \in Mode, NEW k \in Path
        PROVE  \/ lockers'[m][k] = lockers[m][k]
               \/ m = r.mode /\ k = r.path /\ lockers'[m][k] \subseteq lockers[m][k] \cup {r}
    BY <1>4, Zenon
  <2>. QED BY <2>1
<1>. QED BY <1>2, <1>5, <1>6, <1>7, <1>8

\* A Lock::acquire that ends in a queue: the request has an intent on every node
\* above that queue, and all nodes stay consistent.
LEMMA WaitsEffect ==
  ASSUME TypeOK, \A k \in Path : NodeConsistent(k),
         NEW r \in Lock_Request, NEW n, NEW k \in Path, WaitsAt(r, n, k),
         \A l \in Path : Above(l, r.path) /\ ~AtOrAbove(n, l)
                           => r \in intents[r.mode][l]
  PROVE  /\ exists' = exists /\ lockers' = lockers
         /\ intents' \in [Mode -> [Path -> SUBSET Lock_Request]]
         /\ \A m \in Mode, l \in Path : intents[m][l] \subseteq intents'[m][l]
         /\ \A l \in Path : Above(l, k) => r \in intents'[r.mode][l]
         /\ AtOrAbove(k, r.path)
         /\ \A l \in Path : NodeConsistent(l)'
<1>. DEFINE taken == {l \in Walk(r, n) : Above(l, k)}
<1>1. r.mode \in Mode /\ r.path \in Path
  BY DEF Lock_Request
<1>2. k \in Stops(r, n) /\ k \in Walk(r, n) /\ AtOrAbove(k, r.path)
  BY DEF WaitsAt, FirstStop, Stops, Walk, Between
<1>3. intents' \in [Mode -> [Path -> SUBSET Lock_Request]]
  BY <1>1 DEF TypeOK, WaitsAt, Intend
<1>4. \A m \in Mode, l \in Path :
        intents'[m][l] = IF m = r.mode /\ l \in taken
                           THEN intents[m][l] \cup {r} ELSE intents[m][l]
  BY <1>1, Zenon DEF TypeOK, WaitsAt, Intend
<1>5. ASSUME NEW l \in Path, Above(l, k)
      PROVE  r \in intents'[r.mode][l]
  <2>1. AtOrAbove(l, r.path) /\ l # r.path
    BY <1>1, <1>2, <1>5, PrefixTrans, PrefixAntisym DEF Above
  <2>2. CASE AtOrAbove(n, l)
    BY <1>1, <1>4, <1>5, <2>1, <2>2, Zenon DEF Walk, Between
  <2>3. CASE ~AtOrAbove(n, l)
    <3>1. r \in intents[r.mode][l]
      BY <2>1, <2>3 DEF Above
    <3>. QED BY <1>1, <1>4, <3>1, Zenon
  <2>. QED BY <2>2, <2>3
<1>6. ASSUME NEW l \in Path PROVE NodeConsistent(l)'
  <2>1. \A m \in Mode : lockers'[m][l] = lockers[m][l]
    BY DEF WaitsAt
  <2>2. CASE l \in taken
    <3>1. AtOrAbove(l, k) /\ l # k /\ l \in Walk(r, n)
      BY <2>2 DEF Above
    <3>2. l \notin Stops(r, n)
      BY <3>1, PrefixAntisym DEF WaitsAt, FirstStop
    <3>3. l # r.path
      BY <1>1, <1>2, <3>1, PrefixAntisym
    <3>4. CanIntend(r.requester, r.mode, l)
      BY <3>1, <3>2, <3>3 DEF Stops, Blocked
    <3>5. \A m \in Mode : intents'[m][l] = IF m = r.mode
                            THEN intents[m][l] \cup {r} ELSE intents[m][l]
      BY <1>4, <2>2
    <3>. QED BY <2>1, <3>4, <3>5, IntendConsistent, Zenon
  <2>3. CASE l \notin taken
    <3>1. \A m \in Mode : intents'[m][l] = intents[m][l]
      BY <1>4, <2>3, Zenon
    <3>. QED BY <2>1, <3>1 DEF NodeConsistent, Only, Mode
  <2>. QED BY <2>2, <2>3
<1>7. \A m \in Mode, l \in Path : intents[m][l] \subseteq intents'[m][l]
  BY <1>4, Zenon
<1>. QED BY <1>2, <1>3, <1>5, <1>6, <1>7 DEF WaitsAt

\* Node n has lost neither a lock nor an intent.
Grown(n) ==
  \A m \in Mode : /\ lockers[m][n] \subseteq lockers'[m][n]
                  /\ intents[m][n] \subseteq intents'[m][n]

\* Lock::acquire takes no lock and no intent away, also when it obtains an S+ or
\* X lock by assigning the pointer to its holder.
LEMMA AcquiredGrows ==
  ASSUME TypeOK, NEW r \in Lock_Request, NEW n, AtOrAbove(n, r.path), Acquired(r, n)
  PROVE  \A k \in Path : Grown(k)
<1>1. r.mode \in Mode /\ r.path \in Path
  BY DEF Lock_Request
<1>2. r.mode = "S" \/ lockers[r.mode][r.path] = {}
  <2>1. r.path \in Walk(r, n)
    BY <1>1, PrefixRefl DEF Walk, Between
  <2>2. CanLock(r.requester, r.mode, r.path)
    BY <2>1 DEF Acquired, Stops, Blocked
  <2>. QED BY <1>1, <2>2 DEF CanLock, Mode
<1>3. \A m \in Mode, k \in Path : lockers[m][k] \subseteq lockers'[m][k]
  BY <1>1, <1>2 DEF Acquired, TypeOK
<1>4. \A m \in Mode, k \in Path : intents[m][k] \subseteq intents'[m][k]
  BY <1>1 DEF Acquired, Intend, TypeOK
<1>. QED BY <1>3, <1>4 DEF Grown

\* A node that is in no walk of an acquire keeps what was recorded at it; the
\* nodes of the walk get the intents of one request.
LEMMA AcquiredRecords ==
  ASSUME TypeOK, NEW r \in Lock_Request, NEW n, AtOrAbove(n, r.path), Acquired(r, n)
  PROVE  /\ \A k \in Path : Grown(k)
         /\ exists' = exists \cup Walk(r, n)
         /\ r \in lockers'[r.mode][r.path]
         /\ \A m \in Mode, k \in Path : \A q \in intents'[m][k] :
              \/ q \in intents[m][k]
              \/ q = r /\ m = r.mode /\ Above(k, r.path) /\ k \in Walk(r, n)
         /\ \A m \in Mode, k \in Path :
              k \notin Walk(r, n) => lockers'[m][k] = lockers[m][k]
                                     /\ intents'[m][k] = intents[m][k]
<1>1. r.mode \in Mode /\ r.path \in Path
  BY DEF Lock_Request
<1>2. \A k \in Path : Grown(k)
  BY AcquiredGrows
<1>3. r.path \in Walk(r, n)
  BY <1>1, PrefixRefl DEF Walk, Between
<1>4. r \in lockers'[r.mode][r.path]
  BY <1>1 DEF Acquired, TypeOK
<1>5. \A m \in Mode, k \in Path :
        \/ intents'[m][k] = intents[m][k]
        \/ m = r.mode /\ k \in Walk(r, n) \ {r.path} /\ intents'[m][k] = intents[m][k] \cup {r}
  BY <1>1, Zenon DEF TypeOK, Acquired, Intend
<1>6. \A k \in Walk(r, n) \ {r.path} : Above(k, r.path)
  BY DEF Walk, Between, Above
<1>7. \A m \in Mode, k \in Path : k \notin Walk(r, n) => lockers'[m][k] = lockers[m][k]
  BY <1>1, <1>3 DEF TypeOK, Acquired
<1>8. exists' = exists \cup Walk(r, n)
  BY DEF Acquired
<1>9. \A m \in Mode, k \in Path : \A q \in intents'[m][k] :
        \/ q \in intents[m][k]
        \/ q = r /\ m = r.mode /\ Above(k, r.path) /\ k \in Walk(r, n)
  BY <1>5, <1>6
<1>10. \A m \in Mode, k \in Path : k \notin Walk(r, n) => intents'[m][k] = intents[m][k]
  BY <1>5
<1>. QED BY <1>2, <1>4, <1>7, <1>8, <1>9, <1>10

\* A request that is queued at k takes intents above k only.
LEMMA WaitsRecords ==
  ASSUME TypeOK, NEW r \in Lock_Request, NEW n, NEW k \in Path, WaitsAt(r, n, k)
  PROVE  /\ lockers' = lockers /\ exists' = exists /\ k \in exists
         /\ AtOrAbove(n, k)
         /\ \A m \in Mode, l \in Path : \A q \in intents'[m][l] :
              \/ q \in intents[m][l]
              \/ q = r /\ m = r.mode /\ Above(l, k)
<1>1. r.mode \in Mode /\ r.path \in Path
  BY DEF Lock_Request
<1>2. lockers' = lockers /\ exists' = exists /\ k \in exists
  BY DEF WaitsAt
<1>3. AtOrAbove(n, k)
  BY DEF WaitsAt, FirstStop, Stops, Walk, Between
<1>. DEFINE taken == {l \in Walk(r, n) : Above(l, k)}
<1>4. \A m \in Mode, l \in Path :
        \/ intents'[m][l] = intents[m][l]
        \/ m = r.mode /\ l \in taken /\ intents'[m][l] = intents[m][l] \cup {r}
  BY <1>1, Zenon DEF TypeOK, WaitsAt, Intend
<1>5. \A m \in Mode, l \in Path : \A q \in intents'[m][l] :
        \/ q \in intents[m][l]
        \/ q = r /\ m = r.mode /\ Above(l, k)
  BY <1>4
<1>. QED BY <1>2, <1>3, <1>5

-----------------------------------------------------------------------------
(* The queues of all nodes, changed at one of them.                        *)

\* r waits somewhere in Q.
InQueue(r, Q) == \E n \in Path : \E i \in DOMAIN Q[n] : r = Q[n][i]

\* No request is twice in Q.
Distinct(Q) ==
  \A m, n \in Path : \A i \in DOMAIN Q[m], j \in DOMAIN Q[n] :
    Q[m][i] = Q[n][j] => m = n /\ i = j

\* Every entry of R is one of Q, in the queue of the same node ...
Entries(R, Q) ==
  \A n \in Path : \A i \in DOMAIN R[n] : \E j \in DOMAIN Q[n] : R[n][i] = Q[n][j]

\* ... or is r at node k.
EntriesAnd(R, Q, k, r) ==
  \A n \in Path : \A i \in DOMAIN R[n] :
    \/ n = k /\ R[n][i] = r
    \/ \E j \in DOMAIN Q[n] : R[n][i] = Q[n][j]

\* push_back of a request that waits nowhere else.
LEMMA AppendQueue ==
  ASSUME NEW Q \in [Path -> Seq(Lock_Request)], Distinct(Q),
         NEW r \in Lock_Request, ~InQueue(r, Q), NEW k \in Path,
         NEW R, R = [Q EXCEPT ![k] = Append(@, r)]
  PROVE  /\ R \in [Path -> Seq(Lock_Request)]
         /\ Distinct(R)
         /\ EntriesAnd(R, Q, k, r)
<1>1. R \in [Path -> Seq(Lock_Request)]
  OBVIOUS
<1>2. ASSUME NEW n \in Path, NEW i \in DOMAIN R[n]
      PROVE  \/ n = k /\ i = Len(Q[k]) + 1 /\ R[n][i] = r
             \/ i \in DOMAIN Q[n] /\ R[n][i] = Q[n][i]
  OBVIOUS
<1>3. Distinct(R)
  BY <1>2 DEF Distinct, InQueue
<1>. QED BY <1>1, <1>2, <1>3 DEF EntriesAnd

\* pop_front: the head waits nowhere any more.
LEMMA TailQueue ==
  ASSUME NEW Q \in [Path -> Seq(Lock_Request)], Distinct(Q),
         NEW k \in Path, Q[k] # <<>>, NEW r \in Lock_Request, r = Head(Q[k]),
         NEW R \in [Path -> Seq(Lock_Request)], R = [Q EXCEPT ![k] = Tail(@)]
  PROVE  /\ Distinct(R)
         /\ ~InQueue(r, R)
         /\ Entries(R, Q)
<1>2. 1 \in DOMAIN Q[k] /\ r = Q[k][1]
  OBVIOUS
<1>3. ASSUME NEW n \in Path, NEW i \in DOMAIN R[n]
      PROVE  \/ n = k /\ i + 1 \in DOMAIN Q[n] /\ i + 1 # 1 /\ R[n][i] = Q[n][i + 1]
             \/ n # k /\ i \in DOMAIN Q[n] /\ R[n][i] = Q[n][i]
  <2>1. CASE n = k
    BY <2>1
  <2>2. CASE n # k
    BY <2>2
  <2>. QED BY <2>1, <2>2
<1>4. ASSUME NEW n \in Path, NEW i \in DOMAIN R[n] PROVE i \in Nat
  OBVIOUS
<1>5. Distinct(R)
  <2>. SUFFICES ASSUME NEW m \in Path, NEW n \in Path, NEW i \in DOMAIN R[m],
                       NEW j \in DOMAIN R[n], R[m][i] = R[n][j]
                PROVE  m = n /\ i = j
    BY DEF Distinct
  <2>. QED BY <1>3, <1>4 DEF Distinct
<1>6. ~InQueue(r, R)
  BY <1>2, <1>3 DEF Distinct, InQueue
<1>. QED BY <1>3, <1>5, <1>6 DEF Entries

\* pop_front followed by push_back.
LEMMA EntriesTrans ==
  ASSUME NEW P, NEW Q, NEW R, NEW k, NEW r, Entries(P, Q), EntriesAnd(R, P, k, r)
  PROVE  EntriesAnd(R, Q, k, r)
<1>. SUFFICES ASSUME NEW n \in Path, NEW i \in DOMAIN R[n], ~(n = k /\ R[n][i] = r)
              PROVE  \E j \in DOMAIN Q[n] : R[n][i] = Q[n][j]
  BY DEF EntriesAnd
<1>1. PICK j \in DOMAIN P[n] : R[n][i] = P[n][j]
  BY DEF EntriesAnd
<1>2. PICK l \in DOMAIN Q[n] : P[n][j] = Q[n][l]
  BY DEF Entries
<1>. QED BY <1>1, <1>2

\* Erasing from the middle: what was erased waits nowhere any more.
LEMMA RemoveQueue ==
  ASSUME NEW Q \in [Path -> Seq(Lock_Request)], Distinct(Q),
         NEW k \in Path, NEW p \in DOMAIN Q[k],
         NEW R, R = [Q EXCEPT ![k] = Erased(@, p)]
  PROVE  /\ R \in [Path -> Seq(Lock_Request)]
         /\ Distinct(R)
         /\ ~InQueue(Q[k][p], R)
         /\ Entries(R, Q)
<1>1. /\ R[k] \in Seq(Lock_Request)
      /\ Len(R[k]) = Len(Q[k]) - 1
      /\ \A j \in 1..Len(Q[k]) - 1 : R[k][j] = IF j < p THEN Q[k][j] ELSE Q[k][j + 1]
  BY ErasedProperties, SMTT(20)
<1>2. R \in [Path -> Seq(Lock_Request)]
  BY <1>1
<1>3. \A n \in Path : n # k => R[n] = Q[n]
  OBVIOUS
<1>. DEFINE Old(n, i) == IF n = k /\ i >= p THEN i + 1 ELSE i
<1>4. ASSUME NEW n \in Path, NEW i \in DOMAIN R[n]
      PROVE  /\ Old(n, i) \in DOMAIN Q[n]
             /\ R[n][i] = Q[n][Old(n, i)]
             /\ i \in Nat
             /\ n = k => Old(n, i) # p
  <2>1. CASE n = k
    BY <1>1, <2>1
  <2>2. CASE n # k
    BY <1>3, <2>2
  <2>. QED BY <2>1, <2>2
<1>5. p \in Nat
  OBVIOUS
<1>6. Distinct(R)
  <2>. SUFFICES ASSUME NEW m \in Path, NEW n \in Path, NEW i \in DOMAIN R[m],
                       NEW j \in DOMAIN R[n], R[m][i] = R[n][j]
                PROVE  m = n /\ i = j
    BY DEF Distinct
  <2>1. m = n /\ Old(m, i) = Old(n, j)
    BY <1>4, SMTT(20) DEF Distinct
  <2>. QED BY <1>4, <1>5, <2>1
<1>7. ~InQueue(Q[k][p], R)
  BY <1>4 DEF Distinct, InQueue
<1>. QED BY <1>2, <1>4, <1>6, <1>7 DEF Entries

\* r waits at node k of the queues Q.
Waits(r, k, Q) == \E i \in DOMAIN Q[k] : Q[k][i] = r

\* push_back adds one request at its node ...
LEMMA AppendWaits ==
  ASSUME NEW Q \in [Path -> Seq(Lock_Request)], NEW x \in Lock_Request, NEW k \in Path,
         NEW R, R[k] = Append(Q[k], x), \A l \in Path : l # k => R[l] = Q[l]
  PROVE  /\ Waits(x, k, R)
         /\ \A r \in Lock_Request, l \in Path :
              /\ Waits(r, l, R) => Waits(r, l, Q) \/ (r = x /\ l = k)
              /\ Waits(r, l, Q) => Waits(r, l, R)
<1>1. /\ Len(Q[k]) + 1 \in DOMAIN R[k] /\ R[k][Len(Q[k]) + 1] = x
      /\ \A i \in DOMAIN Q[k] : i \in DOMAIN R[k] /\ R[k][i] = Q[k][i]
      /\ \A i \in DOMAIN R[k] : R[k][i] = x \/ (i \in DOMAIN Q[k] /\ R[k][i] = Q[k][i])
  <2>1. R[k] = Append(Q[k], x) /\ Q[k] \in Seq(Lock_Request)
    OBVIOUS
  <2>. QED BY <2>1
<1>2. Waits(x, k, R)
  BY <1>1, Zenon DEF Waits
<1>3. ASSUME NEW r \in Lock_Request, NEW l \in Path
      PROVE  /\ Waits(r, l, R) => Waits(r, l, Q) \/ (r = x /\ l = k)
             /\ Waits(r, l, Q) => Waits(r, l, R)
  <2>1. CASE l = k
    BY <1>1, <2>1, Zenon DEF Waits
  <2>2. CASE l # k
    BY <2>2 DEF Waits
  <2>. QED BY <2>1, <2>2
<1>. QED BY <1>2, <1>3

\* ... erase leaves the other requests where they are ...
LEMMA ErasedWaits ==
  ASSUME NEW Q \in [Path -> Seq(Lock_Request)], NEW k \in Path, NEW p \in DOMAIN Q[k],
         NEW R, R[k] = Erased(Q[k], p), \A l \in Path : l # k => R[l] = Q[l]
  PROVE  \A r \in Lock_Request, l \in Path :
           /\ Waits(r, l, R) => Waits(r, l, Q)
           /\ Waits(r, l, Q) /\ r # Q[k][p] => Waits(r, l, R)
<1>1. R[k] = Erased(Q[k], p) /\ Q[k] \in Seq(Lock_Request) /\ p \in 1..Len(Q[k])
  OBVIOUS
<1>2. /\ R[k] \in Seq(Lock_Request) /\ Len(R[k]) = Len(Q[k]) - 1
      /\ \A j \in 1..Len(Q[k]) - 1 : R[k][j] = IF j < p THEN Q[k][j] ELSE Q[k][j + 1]
  <2>1. /\ Erased(Q[k], p) \in Seq(Lock_Request)
        /\ Len(Erased(Q[k], p)) = Len(Q[k]) - 1
        /\ \A j \in 1..Len(Q[k]) - 1 :
             Erased(Q[k], p)[j] = IF j < p THEN Q[k][j] ELSE Q[k][j + 1]
    BY <1>1, ErasedProperties, Zenon
  <2>. QED BY <1>1, <2>1, Zenon
<1>3. ASSUME NEW j \in DOMAIN R[k] PROVE \E i \in DOMAIN Q[k] : Q[k][i] = R[k][j]
  <2>1. j \in 1..Len(Q[k]) - 1 /\ j \in DOMAIN Q[k] /\ j + 1 \in DOMAIN Q[k]
    BY <1>1, <1>2
  <2>. QED BY <1>2, <2>1
<1>4. ASSUME NEW i \in DOMAIN Q[k], i # p PROVE \E j \in DOMAIN R[k] : R[k][j] = Q[k][i]
  <2>1. CASE i < p
    <3>1. i \in 1..Len(Q[k]) - 1 /\ i \in DOMAIN R[k]
      BY <1>1, <1>2, <2>1
    <3>. QED BY <1>2, <2>1, <3>1
  <2>2. CASE i > p
    <3>1. i - 1 \in 1..Len(Q[k]) - 1 /\ i - 1 \in DOMAIN R[k] /\ ~(i - 1 < p) /\ (i - 1) + 1 = i
      BY <1>1, <1>2, <2>2
    <3>. QED BY <1>2, <3>1
  <2>. QED BY <1>1, <1>4, <2>1, <2>2
<1>. TAKE r \in Lock_Request, l \in Path
<1>5. CASE l = k
  BY <1>3, <1>4, <1>5 DEF Waits
<1>6. CASE l # k
  BY <1>6 DEF Waits
<1>. QED BY <1>5, <1>6

\* ... and so does pop_front.
LEMMA TailWaits ==
  ASSUME NEW Q \in [Path -> Seq(Lock_Request)], NEW k \in Path, Q[k] # <<>>,
         NEW R, R[k] = Tail(Q[k]), \A l \in Path : l # k => R[l] = Q[l]
  PROVE  \A r \in Lock_Request, l \in Path :
           /\ Waits(r, l, R) => Waits(r, l, Q)
           /\ Waits(r, l, Q) /\ r # Head(Q[k]) => Waits(r, l, R)
<1>1. R[k] = Tail(Q[k]) /\ Q[k] \in Seq(Lock_Request)
  OBVIOUS
<1>2. /\ \A j \in DOMAIN R[k] : j + 1 \in DOMAIN Q[k] /\ Q[k][j + 1] = R[k][j]
      /\ \A i \in DOMAIN Q[k] : \/ Q[k][i] = Head(Q[k])
                                \/ i - 1 \in DOMAIN R[k] /\ R[k][i - 1] = Q[k][i]
  BY <1>1
<1>. TAKE r \in Lock_Request, l \in Path
<1>4. CASE l = k
  <2>1. ASSUME NEW j \in DOMAIN R[k], R[k][j] = r PROVE \E i \in DOMAIN Q[k] : Q[k][i] = r
    BY <1>2, <2>1
  <2>2. ASSUME NEW i \in DOMAIN Q[k], Q[k][i] = r, r # Head(Q[k])
        PROVE  \E j \in DOMAIN R[k] : R[k][j] = r
    BY <1>2, <2>2, Zenon
  <2>. QED BY <1>4, <2>1, <2>2, Zenon DEF Waits
<1>5. CASE l # k
  BY <1>5 DEF Waits
<1>. QED BY <1>4, <1>5

-----------------------------------------------------------------------------
(* The parts of LockInv after a request got its lock, was queued, or gave  *)
(* an intent back.                                                         *)

\* Placed, OnePlace and IntentsCover survive a successful Lock::acquire.
LEMMA AcquiredInv ==
  ASSUME LockInv, NEW r \in Lock_Request, NEW n, AtOrAbove(n, r.path), Acquired(r, n),
         \A k \in Path : Above(k, r.path) /\ ~AtOrAbove(n, k)
                           => r \in intents[r.mode][k],
         Distinct(lock_requests'), ~InQueue(r, lock_requests'),
         Entries(lock_requests', lock_requests),
         UNCHANGED call, call # NoCall => call.request # r,
         \A a \in answered_requests' : a.request \notin Queued'
  PROVE  Placed' /\ OnePlace' /\ IntentsCover'
<1>0. LockInv
  OBVIOUS
<1>1. r.mode \in Mode /\ r.path \in Path
  BY DEF Lock_Request
<1>2. TypeOK /\ Placed /\ OnePlace /\ IntentsCover /\ \A k \in Path : NodeConsistent(k)
  BY <1>0 DEF LockInv
<1>3. /\ \A m \in Mode, k \in Path : intents[m][k] \subseteq intents'[m][k]
      /\ \A k \in Path : Above(k, r.path) => r \in intents'[r.mode][k]
      /\ \A m \in Mode, k \in Path : \A q \in lockers'[m][k] :
           q \in lockers[m][k] \/ (q = r /\ m = r.mode /\ k = r.path)
  BY <1>2, AcquiredEffect, Zenon
<1>4. \A q \in Held' : q \in Held \/ q = r
  BY <1>3, HeldMembers
<1>5. \A q \in Queued' : q \in Queued /\ q # r
  BY QueuedMembers DEF InQueue, Entries
<1>6. \A q \in Held \cup Queued : q.mode \in Mode
  BY <1>2, RequestsTyped
<1>7. Placed'
  <2>1. \A m \in Mode, k \in Path : \A q \in lockers'[m][k] : q.mode = m /\ q.path = k
    BY <1>2, <1>3, SMTT(20) DEF Placed
  <2>2. \A k \in Path : \A i \in DOMAIN lock_requests'[k] :
          AtOrAbove(k, lock_requests'[k][i].path)
    BY <1>2, SMTT(20) DEF Placed, Entries
  <2>3. call' # NoCall => call'.mode = call'.request.mode
    BY <1>2 DEF Placed
  <2>. QED BY <2>1, <2>2, <2>3 DEF Placed
<1>8. OnePlace'
  <2>1. Held' \cap Queued' = {}
    BY <1>2, <1>4, <1>5, Zenon DEF OnePlace
  <2>2. call' # NoCall => call'.request \notin Held' \cup Queued'
    BY <1>2, <1>4, <1>5, Zenon DEF OnePlace
  <2>. QED BY <2>1, <2>2, Zenon DEF OnePlace, Distinct
<1>9. IntentsCover'
  <2>1. \A q \in Held', k \in Path :
          Above(k, q.path) => q \in intents'[q.mode][k]
    BY <1>2, <1>3, <1>4, <1>6, SMTT(20) DEF IntentsCover
  <2>2. ASSUME NEW k \in Path, NEW i \in DOMAIN lock_requests'[k], NEW l \in Path,
               Above(l, k)
        PROVE  lock_requests'[k][i] \in intents'[lock_requests'[k][i].mode][l]
    <3>1. PICK j \in DOMAIN lock_requests[k] : lock_requests'[k][i] = lock_requests[k][j]
      BY Zenon DEF Entries
    <3>2. lock_requests[k][j] \in intents[lock_requests[k][j].mode][l]
      BY <1>2, <2>2, Zenon DEF IntentsCover
    <3>3. lock_requests[k][j].mode \in Mode
      BY <1>6, QueuedMembers, Zenon
    <3>. QED BY <1>3, <3>1, <3>2, <3>3, Zenon
  <2>3. call' # NoCall => \A l \in Path : Above(l, call'.at) =>
                            call'.request \in intents'[call'.mode][l]
    <3>1. call # NoCall => call.mode \in Mode
      BY <1>2, Zenon DEF TypeOK, Call
    <3>. QED BY <1>2, <1>3, <3>1, Zenon DEF IntentsCover
  <2>. QED BY <2>1, <2>2, <2>3, Zenon DEF IntentsCover
<1>. QED BY <1>7, <1>8, <1>9

\* Placed, OnePlace and IntentsCover survive a Lock::acquire that is queued.
LEMMA WaitsInv ==
  ASSUME LockInv, NEW r \in Lock_Request, NEW n, NEW k \in Path, WaitsAt(r, n, k),
         \A l \in Path : Above(l, r.path) /\ ~AtOrAbove(n, l)
                           => r \in intents[r.mode][l],
         r \notin Held, Distinct(lock_requests'),
         EntriesAnd(lock_requests', lock_requests, k, r),
         UNCHANGED call, call # NoCall => call.request # r,
         \A a \in answered_requests' : a.request \notin Queued'
  PROVE  Placed' /\ OnePlace' /\ IntentsCover'
<1>0. LockInv
  OBVIOUS
<1>1. r.mode \in Mode /\ r.path \in Path
  BY Zenon DEF Lock_Request
<1>2. TypeOK /\ Placed /\ OnePlace /\ IntentsCover /\ \A l \in Path : NodeConsistent(l)
  BY <1>0, Zenon DEF LockInv
<1>3. /\ lockers' = lockers
      /\ \A m \in Mode, l \in Path : intents[m][l] \subseteq intents'[m][l]
      /\ \A l \in Path : Above(l, k) => r \in intents'[r.mode][l]
      /\ AtOrAbove(k, r.path)
  BY <1>2, WaitsEffect, Zenon
<1>4. Held' = Held
  BY <1>3, SMTT(20) DEF Held
<1>5. \A q \in Queued' : q \in Queued \/ q = r
  BY QueuedMembers, SMTT(20) DEF EntriesAnd
<1>6. \A q \in Held \cup Queued : q.mode \in Mode
  BY <1>2, RequestsTyped, Zenon
<1>7. Placed'
  <2>1. \A l \in Path : \A i \in DOMAIN lock_requests'[l] :
          AtOrAbove(l, lock_requests'[l][i].path)
    BY <1>2, <1>3, SMTT(20) DEF Placed, EntriesAnd
  <2>. QED BY <1>2, <1>3, <2>1, Zenon DEF Placed
<1>8. OnePlace'
  <2>1. Held' \cap Queued' = {}
    BY <1>2, <1>4, <1>5, SMTT(20) DEF OnePlace
  <2>2. call' # NoCall => call'.request \notin Held' \cup Queued'
    BY <1>2, <1>4, <1>5, Zenon DEF OnePlace
  <2>. QED BY <2>1, <2>2, Zenon DEF OnePlace, Distinct
<1>9. IntentsCover'
  <2>1. \A q \in Held', l \in Path :
          Above(l, q.path) => q \in intents'[q.mode][l]
    BY <1>2, <1>3, <1>4, <1>6, Zenon DEF IntentsCover
  <2>2. ASSUME NEW h \in Path, NEW i \in DOMAIN lock_requests'[h], NEW l \in Path,
               Above(l, h)
        PROVE  lock_requests'[h][i] \in intents'[lock_requests'[h][i].mode][l]
    <3>1. CASE h = k /\ lock_requests'[h][i] = r
      BY <1>3, <2>2, <3>1, Zenon
    <3>2. CASE \E j \in DOMAIN lock_requests[h] : lock_requests'[h][i] = lock_requests[h][j]
      <4>1. PICK j \in DOMAIN lock_requests[h] : lock_requests'[h][i] = lock_requests[h][j]
        BY <3>2, Zenon
      <4>2. lock_requests[h][j] \in intents[lock_requests[h][j].mode][l]
        BY <1>2, <2>2, Zenon DEF IntentsCover
      <4>3. lock_requests[h][j].mode \in Mode
        BY <1>6, QueuedMembers, Zenon
      <4>. QED BY <1>3, <4>1, <4>2, <4>3, Zenon
    <3>. QED BY <3>1, <3>2, Zenon DEF EntriesAnd
  <2>3. call' # NoCall => \A l \in Path : Above(l, call'.at) =>
                            call'.request \in intents'[call'.mode][l]
    <3>1. call # NoCall => call.mode \in Mode
      BY <1>2 DEF TypeOK, Call
    <3>. QED BY <1>2, <1>3, <3>1, Zenon DEF IntentsCover
  <2>. QED BY <2>1, <2>2, <2>3, Zenon DEF IntentsCover
<1>. QED BY <1>7, <1>8, <1>9

\* Giving up locks and intents leaves a node consistent.
LEMMA ShrinkConsistent ==
  ASSUME NEW k \in Path, NodeConsistent(k),
         \A m \in Mode : lockers'[m][k] \subseteq lockers[m][k],
         \A m \in Mode : intents'[m][k] \subseteq intents[m][k]
  PROVE  NodeConsistent(k)'
<1>1. /\ lockers'["S"][k] \subseteq lockers["S"][k]
      /\ lockers'["Splus"][k] \subseteq lockers["Splus"][k]
      /\ lockers'["X"][k] \subseteq lockers["X"][k]
      /\ intents'["S"][k] \subseteq intents["S"][k]
      /\ intents'["Splus"][k] \subseteq intents["Splus"][k]
      /\ intents'["X"][k] \subseteq intents["X"][k]
  BY DEF Mode
<1>. QED BY <1>1 DEF NodeConsistent, Only

\* One level of the way up in Lock::release erases an intent that is there and
\* that nobody else relies on.
LEMMA AscendInv ==
  ASSUME TypeOK, NEW c \in Call, c.mode = c.request.mode, Ascend(c),
         \A l \in Path : Above(l, c.at) => c.request \in intents[c.mode][l],
         c.request \notin Held' \cup Queued',
         \A q \in Held', l \in Path : Above(l, q.path) => q \in intents[q.mode][l],
         \A k \in Path : \A i \in DOMAIN lock_requests'[k] : \A l \in Path :
           Above(l, k) =>
             lock_requests'[k][i] \in intents[lock_requests'[k][i].mode][l]
  PROVE  /\ IntentsCover'
         /\ intents' \in [Mode -> [Path -> SUBSET Lock_Request]]
         /\ \A m \in Mode, l \in Path : intents'[m][l] \subseteq intents[m][l]
         /\ held_locks' \in [Process -> SUBSET (Path \X Mode)]
         /\ call' \in Call \cup {NoCall}
         /\ call' # NoCall => call'.mode = c.mode /\ call'.request = c.request
<1>1. /\ c.at \in Path /\ c.mode \in Mode /\ c.path \in Path
      /\ c.request \in Lock_Request /\ c.requester \in Process
  BY DEF Call
<1>2. CASE Len(c.at) > 1
  <2>. DEFINE up == Parent(c.at)
  <2>1. up \in Path /\ Above(up, c.at)
    BY <1>1, <1>2, ParentAbove
  <2>. HIDE DEF up
  <2>2. /\ intents' = [intents EXCEPT ![c.mode][up] = @ \ {c.request}]
        /\ call' = [c EXCEPT !.at = up]
        /\ held_locks' = held_locks
    <3>1. Len(c.at) # 1
      BY <1>1, <1>2, RootLength
    <3>. QED BY <3>1 DEF Ascend, up
  <2>3. call' \in Call /\ call'.at = up /\ call'.request = c.request /\ call'.mode = c.mode
    BY <2>1, <2>2 DEF Call
  <2>4. \A m \in Mode, l \in Path :
          intents'[m][l] = IF m = c.mode /\ l = up
                             THEN intents[m][l] \ {c.request} ELSE intents[m][l]
    BY <1>1, <2>1, <2>2, Zenon DEF TypeOK
  <2>5. intents' \in [Mode -> [Path -> SUBSET Lock_Request]]
    BY <1>1, <2>1, <2>2 DEF TypeOK
  <2>6. ASSUME NEW q, q # c.request, NEW m, NEW l \in Path, q \in intents[m][l]
        PROVE  q \in intents'[m][l]
    BY <1>1, <2>1, <2>2, <2>6 DEF TypeOK
  <2>7. \A q \in Held', l \in Path : Above(l, q.path) => q \in intents'[q.mode][l]
    BY <2>6
  <2>8. ASSUME NEW k \in Path, NEW i \in DOMAIN lock_requests'[k], NEW l \in Path,
               Above(l, k)
        PROVE  lock_requests'[k][i] \in intents'[lock_requests'[k][i].mode][l]
    <3>1. lock_requests'[k][i] # c.request
      BY QueuedMembers
    <3>2. lock_requests'[k][i] \in intents[lock_requests'[k][i].mode][l]
      BY <2>8
    <3>. QED BY <2>6, <3>1, <3>2
  <2>9. ASSUME NEW l \in Path, Above(l, up)
        PROVE  c.request \in intents'[c.mode][l]
    <3>1. Above(l, c.at) /\ l # up
      BY <1>1, <2>1, <2>9, PrefixTrans, PrefixAntisym DEF Above
    <3>. QED BY <1>1, <2>4, <3>1, Zenon
  <2>10. IntentsCover'
    BY <2>3, <2>7, <2>8, <2>9, Zenon DEF IntentsCover
  <2>11. \A m \in Mode, l \in Path : intents'[m][l] \subseteq intents[m][l]
    BY <2>4, Zenon
  <2>. QED BY <2>2, <2>3, <2>5, <2>10, <2>11, Zenon DEF TypeOK
<1>3. CASE ~(Len(c.at) > 1)
  <2>1. /\ call' = NoCall
        /\ held_locks' = [held_locks EXCEPT ![c.requester] = @ \ {<<c.path, c.mode>>}]
        /\ intents' = intents
    BY <1>3 DEF Ascend
  <2>2. IntentsCover'
    BY <2>1, Zenon DEF IntentsCover
  <2>. QED BY <1>1, <2>1, <2>2 DEF TypeOK
<1>. QED BY <1>2, <1>3, Zenon

-----------------------------------------------------------------------------
(* LockInv is preserved by every action.                                   *)

\* Steps that leave the locks, intents and queues alone.
LEMMA ForestUnchanged ==
  ASSUME LockInv, TypeOK', UNCHANGED <<lockers, intents, lock_requests, call>>,
         answered_requests' \subseteq answered_requests
  PROVE  LockInv'
<1>0. LockInv
  OBVIOUS
<1>1. Held' = Held /\ Queued' = Queued
  BY SameStanding, Zenon
<1>2. Placed'
  BY <1>0 DEF LockInv, Placed
<1>3. OnePlace'
  BY <1>0, <1>1 DEF LockInv, OnePlace
<1>4. IntentsCover'
  BY <1>0, <1>1, Zenon DEF LockInv, IntentsCover
<1>5. \A n \in Path : NodeConsistent(n)'
  BY <1>0, ShrinkConsistent, Zenon DEF LockInv
<1>. QED BY <1>2, <1>3, <1>4, <1>5 DEF LockInv

\* backend::acquire_lock and backend::create_lock, up to the queue or the lock.
LEMMA RequestInv ==
  ASSUME LockInv, Idle, NEW r \in Lock_Request, NewRequest(r),
         Request(r, Root(r.path)),
         UNCHANGED <<Processes, requester_destroyed, handler>>
  PROVE  LockInv'
<1>0. LockInv
  OBVIOUS
<1>1. TypeOK /\ Placed /\ OnePlace /\ IntentsCover /\ \A k \in Path : NodeConsistent(k)
  BY <1>0 DEF LockInv
<1>2. r.mode \in Mode /\ r.path \in Path /\ r.requester \in Process
  BY DEF Lock_Request
<1>3. r \notin Held /\ r \notin Queued
  BY DEF NewRequest, Traces
<1>4. AtOrAbove(Root(r.path), r.path)
  BY <1>2, PrefixRefl, RootPrefix
<1>5. \A k \in Path : Above(k, r.path) /\ ~AtOrAbove(Root(r.path), k)
                        => r \in intents[r.mode][k]
  BY <1>2, RootPrefix DEF Above
<1>6. call = NoCall /\ call' = call /\ answered_requests' = answered_requests
      /\ answered_requests = {} /\ dying' = dying /\ todo' = todo
  BY DEF Idle, handler
<1>7. held_locks' \in [Process -> SUBSET (Path \X Mode)]
  BY <1>1, <1>2 DEF Request, TypeOK
<1>8. Distinct(lock_requests) /\ ~InQueue(r, lock_requests)
  BY <1>1, <1>3, QueuedMembers, Zenon DEF OnePlace, Distinct, InQueue
<1>9. CASE Acquired(r, Root(r.path)) /\ UNCHANGED lock_requests
  <2>1. /\ exists' \subseteq Path
        /\ lockers' \in [Mode -> [Path -> SUBSET Lock_Request]]
        /\ intents' \in [Mode -> [Path -> SUBSET Lock_Request]]
        /\ \A k \in Path : NodeConsistent(k)'
    BY <1>1, <1>4, <1>5, <1>9, AcquiredEffect, Zenon
  <2>2. TypeOK'
    BY <1>1, <1>6, <1>7, <1>9, <2>1 DEF TypeOK
  <2>3. /\ Distinct(lock_requests') /\ ~InQueue(r, lock_requests')
        /\ Entries(lock_requests', lock_requests)
    BY <1>8, <1>9 DEF Entries, Distinct, InQueue
  <2>4. Placed' /\ OnePlace' /\ IntentsCover'
    BY <1>0, <1>4, <1>5, <1>6, <1>9, <2>3, AcquiredInv, Zenon
  <2>. QED BY <2>1, <2>2, <2>4 DEF LockInv
<1>10. ASSUME NEW k \in Path, WaitsAt(r, Root(r.path), k),
              lock_requests' = [lock_requests EXCEPT ![k] = Append(@, r)]
       PROVE  LockInv'
  <2>1. /\ exists' = exists /\ lockers' = lockers
        /\ intents' \in [Mode -> [Path -> SUBSET Lock_Request]]
        /\ \A l \in Path : NodeConsistent(l)'
    BY <1>1, <1>5, <1>10, WaitsEffect, Zenon
  <2>2. lock_requests \in [Path -> Seq(Lock_Request)]
    BY <1>1 DEF TypeOK
  <2>3. /\ lock_requests' \in [Path -> Seq(Lock_Request)]
        /\ Distinct(lock_requests')
        /\ EntriesAnd(lock_requests', lock_requests, k, r)
    BY <1>8, <1>10, <2>2, AppendQueue, Zenon
  <2>4. TypeOK'
    BY <1>1, <1>6, <1>7, <2>1, <2>3 DEF TypeOK
  <2>5. Placed' /\ OnePlace' /\ IntentsCover'
    BY <1>0, <1>3, <1>5, <1>6, <1>10, <2>3, WaitsInv, Zenon
  <2>. QED BY <2>1, <2>4, <2>5 DEF LockInv
<1>. QED BY <1>9, <1>10 DEF Request

=============================================================================
