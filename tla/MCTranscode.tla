---------------------------- MODULE MCTranscode -----------------------------
(* Model values for Transcode. *)
EXTENDS Transcode

CONSTANTS r1, r2, r3

Requests3 == {r1, r2, r3}
=============================================================================
