--------------------------- MODULE MCSharedBlobs ---------------------------
(* Model values and bounds for SharedBlobs. *)
EXTENDS SharedBlobs, TLC

CONSTANTS r1, r2, r3, s1, c1, c2

Requests3 == {r1, r2, r3}
Seeds1 == {s1}
Contents == {c1, c2}
Symmetric == Permutations(Requests3) \cup Permutations(Contents)
=============================================================================
