----------------------------- MODULE MCTransfer -----------------------------
(* Model values for Transfer: one task of the page with two runs and a       *)
(* fault, two desktop calls with a fault, and two clients without; three     *)
(* versions of which two share their head and two their size.               *)
EXTENDS Transfer, TLC

CONSTANTS d1, d2, b1, b2

Calls == {d1, d2}
Tasks == {b1, b2}
Versions == {<<1, 2>>, <<1, 3>>, <<1>>}
Parts == {1, 2}

Scene(cast, path, n, k) ==
    [cast |-> cast, path |-> path, faults |-> n, starts |-> k]
(* Every choice of calls and tasks: the symmetry makes them one.             *)
MCScenes ==
    {Scene({b}, "redis", 1, 2) : b \in Tasks}
    \cup {Scene({d}, "sqlite", 2, 0) : d \in Calls}
    \cup {Scene(Calls, "redis", 1, 0), Scene(Tasks, "sqlite", 0, 1)}
    \cup {Scene({d, b}, "redis", 0, 1) : d \in Calls, b \in Tasks}
Symmetry == Permutations(Calls) \cup Permutations(Tasks)
=============================================================================
