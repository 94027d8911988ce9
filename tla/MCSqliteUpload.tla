--------------------------- MODULE MCSqliteUpload ---------------------------
(* Model values and bounds for SqliteUpload. *)
EXTENDS SqliteUpload, TLC

CONSTANTS u1, u2, u3, k1, k2

Uploaders3 == {u1, u2, u3}
Completers2 == {k1, k2}
Symmetry == Permutations(Uploaders3) \cup Permutations(Completers2)
=============================================================================
