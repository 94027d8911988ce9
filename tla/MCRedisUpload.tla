--------------------------- MODULE MCRedisUpload ---------------------------
(* Model values and bounds for RedisUpload. *)
EXTENDS RedisUpload, TLC

CONSTANTS i1, i2, u1, u2, u3, k1, k2

Initers1 == {i1}
Initers2 == {i1, i2}
Uploaders2 == {u1, u2}
Completers1 == {k1}
Completers2 == {k1, k2}
Uploaders3 == {u1, u2, u3}
SymUploads2 == Permutations(Uploaders2) \cup Permutations(Completers2)
               \cup Permutations(Initers2)
SymUploads3 == Permutations(Uploaders3)
=============================================================================
