--------------------------- MODULE TransferServer ---------------------------
(***************************************************************************)
(* What the clients that upload a file see of the server: the sessions of   *)
(* one file name in one space, and the file rows of that name.  A handler   *)
(* is one step here; its own races are the business of SqliteUpload,        *)
(* RedisUpload and FileUploads.                                            *)
(*                                                                         *)
(* A version of the file is a sequence of blocks.  A session's key is the   *)
(* hash it was opened with: of the whole file, or of its head.              *)
(***************************************************************************)
EXTENDS Naturals, Sequences, FiniteSets, SequencesExt, FiniteSetsExt

CONSTANTS Version,    \* the versions of the file
          Scenes      \* who takes part, the path, the bounds

ASSUME TransferAssumption ==
    /\ Version \subseteq Seq(Nat) \ {<<>>}    \* an empty file is refused
    /\ \A sc \in Scenes :
          /\ sc.path \in {"redis", "sqlite"}    \* which way the handlers go
          /\ sc.faults \in Nat    \* requests or answers lost, unreadable chunks
          /\ sc.starts \in Nat    \* calls of run() of a task

VARIABLES
    scene,
    rows,    \* the rows of the name, the oldest first: content and by whom
    sess,    \* the sessions in the order of their creation
    faults

server == <<scene, rows, sess, faults>>

Fails == faults < scene.faults /\ faults' = faults + 1
Works == UNCHANGED faults

TotalChunks(size, part) == (size + part - 1) \div part
Piece(content, part, i) ==
    SubSeq(content, i * part + 1, Min({(i + 1) * part, Len(content)}))
All(s) == 0 .. sess[s].total - 1
Received(s) == DOMAIN sess[s].got
(* GetUploadStatus: with Redis a completion takes the bitmap away.          *)
ReportedChunks(s) ==
    IF scene.path = "redis" /\ sess[s].status = "completed" THEN {} ELSE Received(s)

(* CheckUpload: the newest row with this hash and size is shared, unless it  *)
(* is not the newest of its name.                                           *)
Holding(content, size) ==
    {i \in DOMAIN rows : rows[i].content = content /\ Len(content) = size}
CheckAnswer(content, size) ==
    IF Holding(content, size) = {} THEN "miss"
    ELSE IF Max(Holding(content, size)) = Len(rows) THEN "instant" ELSE "conflict"
Share(content, t) == rows' = Append(rows, [content |-> content, by |-> t])

(* InitUpload: a name that is taken is a conflict unless the client insists; *)
(* an active session of the same key is resumed with the chunk size and the *)
(* number of chunks it has; or a new one is made.  "who" is what the client *)
(* believes it is sending, a history variable.                              *)
Refused(force) == rows # <<>> /\ ~force
Resumable(key) ==
    {s \in DOMAIN sess : sess[s].key = key /\ sess[s].status = "active"}
Target(key) ==
    IF Resumable(key) = {} THEN Len(sess) + 1 ELSE Max(Resumable(key))

\* MUTANT of InitUpload: a session that is completed is resumed as well.
InitUploadAny(key, size, part, who) ==
    LET any == {s \in DOMAIN sess : sess[s].key = key}
    IN  sess' = IF any = {}
                THEN Append(sess, [key |-> key, part |-> part,
                                   total |-> TotalChunks(size, part),
                                   status |-> "active", got |-> <<>>, seen |-> {who}])
                ELSE [sess EXCEPT ![Max(any)].status = "active",
                                  ![Max(any)].seen = {who}]

InitUpload(key, size, part, who) ==
    sess' = IF Resumable(key) = {}
            THEN Append(sess, [key |-> key, part |-> part,
                               total |-> TotalChunks(size, part),
                               status |-> "active", got |-> <<>>, seen |-> {who}])
            ELSE [sess EXCEPT ![Target(key)].seen = @ \cup {who}]

(* UploadChunk: without Redis a chunk that comes again replaces the one on   *)
(* disk; with Redis it is answered and dropped.                             *)
Accepts(s) == sess[s].status = "active"

With(got, i, data) ==
    [j \in DOMAIN got \cup {i} |-> IF j = i THEN data ELSE got[j]]
UploadChunk(s, i, data, who) ==
    sess' = IF scene.path = "redis" /\ i \in Received(s) THEN sess
            ELSE [sess EXCEPT ![s].got = With(@, i, data),
                              ![s].seen = @ \cup {who}]

(* CompleteUpload: the status is not asked for, but a session that was       *)
(* completed has no chunks any more.  The row gets what the chunks hold.    *)
Complete(s) == sess[s].status = "active" /\ Received(s) = All(s)
Assembled(s) == FlattenSeq([i \in 1 .. sess[s].total |-> sess[s].got[i - 1]])

CompleteUpload(s, t) ==
    /\ rows' = Append(rows, [content |-> Assembled(s), by |-> t])
    /\ sess' = [sess EXCEPT ![s].status = "completed"]

(* Every client of the session sent the same version, in chunks of its size, *)
(* and the session has as many chunks as that version.                      *)
Pure(s) == \E v \in Version :
    /\ sess[s].seen = {<<v, sess[s].part>>}
    /\ sess[s].total = TotalChunks(Len(v), sess[s].part)
Stored(content) == \E i \in DOMAIN rows : rows[i].content = content
=============================================================================
