---------------------------- MODULE LockService -----------------------------
(***************************************************************************)
(* What a lock manager promises, whatever its data structures: requests    *)
(* are granted at once or wait, and what is granted at the same time does  *)
(* not exclude each other.  One request is dealt with at a time.           *)
(*                                                                         *)
(* LockForest, with its tree, intents and queues, implements this          *)
(* (LockRefinement).                                                       *)
(***************************************************************************)
CONSTANTS
  Claim,            \* everything that may be asked for
  Excludes(_, _)    \* two claims that must not be granted at the same time

VARIABLES
  waiting,   \* the requests that have neither been granted nor withdrawn
  granted    \* those that have been granted and not been given back

Grantable(r) == \A q \in granted : ~Excludes(q, r)

\* A new request has to wait ...
Wait(r) ==
  /\ r \notin waiting \cup granted
  /\ waiting' = waiting \cup {r}
  /\ UNCHANGED granted

\* ... or is granted immediately.
Obtain(r) ==
  /\ r \notin waiting \cup granted
  /\ Grantable(r)
  /\ granted' = granted \cup {r}
  /\ UNCHANGED waiting

\* A request that has waited is granted ...
Grant(r) ==
  /\ r \in waiting
  /\ Grantable(r)
  /\ waiting' = waiting \ {r}
  /\ granted' = granted \cup {r}

\* ... or is not going to be.
Withdraw(r) ==
  /\ r \in waiting
  /\ waiting' = waiting \ {r}
  /\ UNCHANGED granted

GiveBack(r) ==
  /\ r \in granted
  /\ granted' = granted \ {r}
  /\ UNCHANGED waiting

Init == waiting = {} /\ granted = {}

Next ==
  \E r \in Claim :
    Wait(r) \/ Obtain(r) \/ Grant(r) \/ Withdraw(r) \/ GiveBack(r)

Spec == Init /\ [][Next]_<<waiting, granted>>

=============================================================================
