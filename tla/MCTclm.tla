------------------------------- MODULE MCTclm -------------------------------
(***************************************************************************)
(* Instances of Tclm for TLC.                                              *)
(***************************************************************************)
EXTENDS Tclm

CONSTANTS t1, t2, tm, c1, c2, cm

Names == {"a", "b"}

\* One lock, and a lock below another.
Single == {<<"a">>}
Chain == {<<"a">>, <<"a", "b">>}

Twice == {1, 2}

TwoIds == {0, 1}
FourIds == 0..3

\* Two programs with a thread each, and one program with two threads.
Apart == (t1 :> c1) @@ (t2 :> c2)
Together == (t1 :> c1) @@ (t2 :> c1)

Threads == {t1, t2}
TwoClients == {c1, c2}
OneClient == {c1}

\* Two programs, and tclm.
Killer == {tm}
WithKiller == Threads \cup Killer
ClientsAndKiller == TwoClients \cup {cm}
ApartFromKiller == Apart @@ (tm :> cm)

\* All that the backend takes from clients; Habits and MaxCalls bound them.
AnyLiberty == {"repeat", "missing", "cancel"}

=============================================================================
