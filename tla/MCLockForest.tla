---------------------------- MODULE MCLockForest ----------------------------
(***************************************************************************)
(* Instances of LockForest for TLC: small forests and sets of processes.   *)
(***************************************************************************)
EXTENDS LockRefinement, TLC

Names == {"a", "b", "c"}

\* A root with one child; a root with two children and a grandchild.
Chain == {<<"a">>, <<"a", "b">>}
Tree == {<<"a">>, <<"a", "b">>, <<"a", "c">>, <<"a", "b", "c">>}

Once == {1}
Twice == {1, 2}

\* Processes are interchangeable; nothing in LockForest chooses one of them.
Symmetry == Permutations(Process)

=============================================================================
