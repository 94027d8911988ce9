----------------------------- MODULE UploadSpec -----------------------------
(***************************************************************************)
(* What a relay upload promises, whatever path the server takes: chunks of *)
(* one upload session arrive in any order and any number of times, and a   *)
(* file record is published only once every chunk of the session has been  *)
(* stored.  Nothing stored is forgotten and nothing published is withdrawn.*)
(* SqliteUpload and RedisUpload are both shown to implement it.            *)
(***************************************************************************)
CONSTANTS Chunks,      \* the chunk indexes of the session
          Completers   \* the completion requests, each naming one file id

VARIABLES stored,      \* the chunks whose data the server has stored
          published    \* the file ids that have a record in the files table

vars == <<stored, published>>

TypeOK == /\ stored \subseteq Chunks
          /\ published \subseteq Completers

Init == /\ stored = {}
        /\ published = {}

(* A chunk's data reaches the server's disk. *)
Store(i) == /\ stored' = stored \cup {i}
            /\ UNCHANGED published

(* The handler may find several new chunks at once: only growth matters. *)
Publish(k) == /\ stored = Chunks
              /\ published' = published \cup {k}
              /\ UNCHANGED stored

Next == \/ \E i \in Chunks : Store(i)
        \/ \E k \in Completers : Publish(k)

Spec == Init /\ [][Next]_vars
=============================================================================
