--------------------------- MODULE LockRefinement ---------------------------
(***************************************************************************)
(* LockForest as an implementation of LockService.                         *)
(***************************************************************************)
EXTENDS LockForest

\* Two locks on one node or on a node and one below it that are not compatible.
Excludes(q, r) ==
  /\ AtOrAbove(q.path, r.path) \/ AtOrAbove(r.path, q.path)
  /\ ~Compatible(q, r)

Service == INSTANCE LockService WITH
  Claim <- Lock_Request,
  waiting <- Queued,
  granted <- Held

\* The backend is a lock service: each of its steps (one call of Lock::acquire,
\* one iteration of the loop in Lock::release) grants, withdraws or gives back at
\* most one request, never loses one or makes one up, and grants only what
\* nothing granted excludes, at any depth of the forest.
ImplementsService == Service!Spec

=============================================================================
