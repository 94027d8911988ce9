------------------------- MODULE MCAsyncWriteQueue -------------------------
(* Model values and bounds for AsyncWriteQueue. *)
EXTENDS AsyncWriteQueue

CONSTANTS j1, j2, j3

Jobs3 == {j1, j2, j3}
PairJobs == {j2}
=============================================================================
