---------------------------- MODULE SqliteUpload ----------------------------
(***************************************************************************)
(* One relay upload session on a server without Redis: the SQLite path of  *)
(* UploadChunk and CompleteUpload (internal/handler) over LocalStorage     *)
(* (internal/storage/local.go).  Uploaders and completers are HTTP         *)
(* requests; net/http runs each in a goroutine of its own, so every store  *)
(* access below is a step that the others interleave with.                 *)
(***************************************************************************)
EXTENDS Naturals, Sequences, FiniteSets

CONSTANTS Uploader,     \* the chunk requests sent to the server
          Completer,    \* the completion requests; each also names its file id
          TotalChunks,  \* session.TotalChunks
          Index,        \* the chunk indexes clients send
          DbFaults      \* may a write to SQLite fail?

ASSUME ConstantsAssumption ==
    /\ TotalChunks \in Nat \ {0}
    /\ 0 .. TotalChunks - 1 \subseteq Index
    /\ Index \subseteq Nat
    /\ IsFiniteSet(Index)
    /\ DbFaults \in BOOLEAN
    /\ Uploader \cap {"absent", "full"} = {}

Chunks == 0 .. TotalChunks - 1

VARIABLES
    session,    \* status of the upload_sessions row, "none" before it exists
    chunks,     \* chunk_index of the rows of the chunks table
    chunkDir,   \* does the directory _chunks/<session> exist?
    chunkFile,  \* each chunk file: absent, full, or truncated by an uploader
                \* that has not yet written it (then: that uploader)
    unlinked,   \* uploaders whose open chunk file RemoveAll has unlinked
    up, idx,    \* control state and chunk index of each chunk request
    co,         \* control state of each completion request
    blob,       \* the destination file each completion writes: what it read of
                \* chunk 0, 1, ...: "full" or "torn"
    files,      \* file ids that have a row in the files table
    charged,    \* times the size was added to the token's quota_used
    dbFailed    \* has a write to SQLite failed?

vars == <<session, chunks, chunkDir, chunkFile, unlinked, up, idx, co, blob,
          files, charged, dbFailed>>
uploadVars == <<unlinked, up, idx>>
completeVars == <<co, blob, files, charged>>
tableVars == <<session, chunks, dbFailed>>

UpState == {"idle", "mkdir", "open", "write", "row", "received", "failed"}
CoState == {"idle", "assemble", "status", "quota", "temp", "ok", "failed"}

TypeOK ==
    /\ session \in {"none", "active", "completed"}
    /\ chunks \subseteq Index
    /\ chunkDir \in BOOLEAN
    /\ chunkFile \in [Index -> {"absent", "full"} \cup Uploader]
    /\ unlinked \subseteq Uploader
    /\ up \in [Uploader -> UpState]
    /\ idx \in [Uploader -> Index]
    /\ co \in [Completer -> CoState]
    /\ blob \in [Completer -> Seq({"full", "torn"})]
    /\ files \subseteq Completer
    /\ charged \in Nat
    /\ dbFailed \in BOOLEAN

Init ==
    /\ session = "none"
    /\ chunks = {}
    /\ chunkDir = FALSE
    /\ chunkFile = [i \in Index |-> "absent"]
    /\ unlinked = {}
    /\ up = [u \in Uploader |-> "idle"]
    /\ idx \in [Uploader -> Index]
    /\ co = [k \in Completer |-> "idle"]
    /\ blob = [k \in Completer |-> <<>>]
    /\ files = {}
    /\ charged = 0
    /\ dbFailed = FALSE

(* A write to SQLite either takes effect or, when faults are allowed, is    *)
(* lost: the handlers modelled here ignore the error.                       *)
Written(effect, nothing) ==
    \/ effect /\ UNCHANGED dbFailed
    \/ DbFaults /\ nothing /\ dbFailed' = TRUE
-----------------------------------------------------------------------------
(* Mutations: actions below with a plausible mistake in them, which the     *)
(* properties must notice.                                                  *)

(* CompleteUpload closes the session before it assembles *)
CompleteUploadClosing(k) ==
    /\ co[k] = "idle"
    /\ session # "none"
    /\ IF Cardinality(chunks) = TotalChunks
       THEN session' = "completed" /\ co' = [co EXCEPT ![k] = "assemble"]
       ELSE UNCHANGED session /\ co' = [co EXCEPT ![k] = "failed"]
    /\ UNCHANGED <<chunks, dbFailed, chunkDir, chunkFile, uploadVars, blob,
                   files, charged>>

(* CompleteUpload without the count of rows *)
CompleteUploadUncounted(k) ==
    /\ co[k] = "idle"
    /\ session # "none"
    /\ co' = [co EXCEPT ![k] = "assemble"]
    /\ UNCHANGED <<tableVars, chunkDir, chunkFile, uploadVars, blob, files,
                   charged>>

(* assembleFile removes the chunk directory when it fails *)
AssembleChunkCleaning(k) ==
    /\ co[k] = "assemble"
    /\ Len(blob[k]) < TotalChunks
    /\ LET f == chunkFile[Len(blob[k])] IN
       \/ /\ f = "absent"
          /\ co' = [co EXCEPT ![k] = "failed"]
          /\ chunkFile' = [i \in Index |-> "absent"]
          /\ UNCHANGED blob
       \/ /\ f # "absent"
          /\ blob' = [blob EXCEPT ![k] = Append(@, "full")]
          /\ UNCHANGED <<co, chunkFile>>
    /\ UNCHANGED <<tableVars, chunkDir, uploadVars, files, charged>>

(* CreateFile although assembleFile stopped at a missing chunk *)
CreateFileIgnoringError(k) ==
    /\ co[k] = "assemble"
    /\ Len(blob[k]) = TotalChunks \/ chunkFile[Len(blob[k])] = "absent"
    /\ co' = [co EXCEPT ![k] = "status"]
    /\ Written(files' = files \cup {k}, UNCHANGED files)
    /\ UNCHANGED <<session, chunks, chunkDir, chunkFile, uploadVars, blob,
                   charged>>

(* the chunk directory is removed before the session is closed *)
CreateFileThenRemove(k) ==
    /\ co[k] = "assemble"
    /\ Len(blob[k]) = TotalChunks
    /\ co' = [co EXCEPT ![k] = "temp"]
    /\ Written(files' = files \cup {k}, UNCHANGED files)
    /\ UNCHANGED <<session, chunks, chunkDir, chunkFile, uploadVars, blob,
                   charged>>
-----------------------------------------------------------------------------
(* InitUpload creates the session row synchronously; a later init with the  *)
(* same hash finds the active row and changes nothing.                      *)
InitUpload ==
    /\ session = "none"
    /\ session' = "active"
    /\ UNCHANGED <<chunks, chunkDir, chunkFile, uploadVars, completeVars,
                   dbFailed>>

(* UploadChunk: GetUploadSession, 404 without a row, 409 unless active. *)
UploadChunk(u) ==
    /\ up[u] = "idle"
    /\ session # "none"
    /\ up' = [up EXCEPT ![u] = IF session = "active" THEN "mkdir" ELSE "failed"]
    /\ UNCHANGED <<tableVars, chunkDir, chunkFile, unlinked, idx, completeVars>>

(* SaveChunk: os.MkdirAll of the session's chunk directory. *)
MkdirAll(u) ==
    /\ up[u] = "mkdir"
    /\ chunkDir' = TRUE
    /\ up' = [up EXCEPT ![u] = "open"]
    /\ UNCHANGED <<tableVars, chunkFile, unlinked, idx, completeVars>>

(* SaveChunk: os.Create truncates the chunk file, or fails with ENOENT when *)
(* DeleteTemp has removed the directory since MkdirAll (500).               *)
CreateChunk(u) ==
    /\ up[u] = "open"
    /\ IF chunkDir
       THEN /\ chunkFile' = [chunkFile EXCEPT ![idx[u]] = u]
            /\ up' = [up EXCEPT ![u] = "write"]
       ELSE /\ up' = [up EXCEPT ![u] = "failed"]
            /\ UNCHANGED chunkFile
    /\ UNCHANGED <<tableVars, chunkDir, unlinked, idx, completeVars>>

(* SaveChunk: io.Copy.  The file is whole once the last request to truncate *)
(* it has written; an earlier one may finish before that or after it, and   *)
(* an unlinked file changes nothing in the directory.                       *)
CopyChunk(u) ==
    /\ up[u] = "write"
    /\ up' = [up EXCEPT ![u] = "row"]
    /\ unlinked' = unlinked \ {u}
    /\ \/ /\ u \notin unlinked
          /\ chunkFile[idx[u]] # "absent"
          /\ chunkFile' = [chunkFile EXCEPT ![idx[u]] = "full"]
       \/ /\ u \in unlinked \/ chunkFile[idx[u]] # u
          /\ UNCHANGED chunkFile
    /\ UNCHANGED <<tableVars, chunkDir, idx, completeVars>>

(* db.SaveChunk: INSERT OR REPLACE of the chunk's row, its error ignored. *)
SaveChunk(u) ==
    /\ up[u] = "row"
    /\ up' = [up EXCEPT ![u] = "received"]
    /\ Written(chunks' = chunks \cup {idx[u]}, UNCHANGED chunks)
    /\ UNCHANGED <<session, chunkDir, chunkFile, unlinked, idx, completeVars>>
-----------------------------------------------------------------------------
(* CompleteUpload: GetUploadSession takes the rows as they are now; 404     *)
(* without a session, 400 unless there are as many rows as chunks.  The     *)
(* session's status is not looked at.                                       *)
CompleteUpload(k) ==
    /\ co[k] = "idle"
    /\ session # "none"
    /\ co' = [co EXCEPT ![k] = IF Cardinality(chunks) = TotalChunks
                               THEN "assemble" ELSE "failed"]
    /\ UNCHANGED <<tableVars, chunkDir, chunkFile, uploadVars, blob, files,
                   charged>>

(* assembleFile: open and copy the next chunk file; a missing one is an     *)
(* error (500) that leaves the destination file as far as it got.           *)
AssembleChunk(k) ==
    /\ co[k] = "assemble"
    /\ Len(blob[k]) < TotalChunks
    /\ LET f == chunkFile[Len(blob[k])] IN
       \/ /\ f = "absent"
          /\ co' = [co EXCEPT ![k] = "failed"]
          /\ UNCHANGED blob
       \/ /\ f # "absent"
          /\ blob' = [blob EXCEPT ![k] =
                        Append(@, IF f = "full" THEN "full" ELSE "torn")]
          /\ UNCHANGED co
    /\ UNCHANGED <<tableVars, chunkDir, chunkFile, uploadVars, files, charged>>

(* db.CreateFile with the hash of what was assembled; its error is ignored. *)
CreateFile(k) ==
    /\ co[k] = "assemble"
    /\ Len(blob[k]) = TotalChunks
    /\ co' = [co EXCEPT ![k] = "status"]
    /\ Written(files' = files \cup {k}, UNCHANGED files)
    /\ UNCHANGED <<session, chunks, chunkDir, chunkFile, uploadVars, blob,
                   charged>>

(* db.UpdateUploadSessionStatus(completed), its error ignored. *)
UpdateUploadSessionStatus(k) ==
    /\ co[k] = "status"
    /\ co' = [co EXCEPT ![k] = "quota"]
    /\ Written(session' = "completed", UNCHANGED session)
    /\ UNCHANGED <<chunks, chunkDir, chunkFile, uploadVars, blob, files,
                   charged>>

(* AccountPATQuota adds the size to quota_used of the request's token. *)
AccountPATQuota(k) ==
    /\ co[k] = "quota"
    /\ co' = [co EXCEPT ![k] = "temp"]
    /\ Written(charged' = charged + 1, UNCHANGED charged)
    /\ UNCHANGED <<session, chunks, chunkDir, chunkFile, uploadVars, blob,
                   files>>

(* DeleteTemp removes the chunk directory; requests that still hold a chunk *)
(* file open go on writing to an unlinked file.                             *)
DeleteTemp(k) ==
    /\ co[k] = "temp"
    /\ co' = [co EXCEPT ![k] = "ok"]
    /\ chunkDir' = FALSE
    /\ chunkFile' = [i \in Index |-> "absent"]
    /\ unlinked' = {u \in Uploader : up[u] = "write"}
    /\ UNCHANGED <<tableVars, up, idx, blob, files, charged>>
-----------------------------------------------------------------------------
UpRunning(u) == up[u] \in {"mkdir", "open", "write", "row"}
CoRunning(k) == co[k] \in {"assemble", "status", "quota", "temp"}

(* The process dies and restarts: requests in progress are gone, the tables *)
(* and the files stay as they are.                                          *)
Crash ==
    /\ (\E u \in Uploader : UpRunning(u)) \/ (\E k \in Completer : CoRunning(k))
    /\ up' = [u \in Uploader |-> IF UpRunning(u) THEN "failed" ELSE up[u]]
    /\ co' = [k \in Completer |-> IF CoRunning(k) THEN "failed" ELSE co[k]]
    /\ unlinked' = {}
    /\ UNCHANGED <<tableVars, chunkDir, chunkFile, idx, blob, files, charged>>

UploadStep(u) ==
    UploadChunk(u) \/ MkdirAll(u) \/ CreateChunk(u) \/ CopyChunk(u) \/ SaveChunk(u)

CompleteStep(k) ==
    \/ CompleteUpload(k) \/ AssembleChunk(k) \/ CreateFile(k)
    \/ UpdateUploadSessionStatus(k) \/ AccountPATQuota(k) \/ DeleteTemp(k)

Next ==
    \/ InitUpload
    \/ \E u \in Uploader : UploadStep(u)
    \/ \E k \in Completer : CompleteStep(k)
    \/ Crash

Spec == Init /\ [][Next]_vars
-----------------------------------------------------------------------------
Present == {i \in Chunks : chunkFile[i] # "absent"}
Whole(k) == Len(blob[k]) = TotalChunks

(* While the session can still be resumed, every chunk the chunks table     *)
(* reports as received has its file on disk: a client told to skip it can   *)
(* complete.  SaveChunk runs before the row, DeleteTemp after the status.   *)
RowsBacked ==
    session = "active" /\ ~dbFailed => \A i \in chunks : chunkFile[i] # "absent"

(* A file record is never published for a destination file that lacks a    *)
(* chunk, whatever the count of rows said (indexes out of range count too). *)
RecordsWhole == \A k \in files : Whole(k)

(* A recorded file holds half-written data only if the same chunk was sent  *)
(* twice, or an index beyond the session's range stood in for a missing row.*)
TornExplained ==
    \A k \in files : \A i \in Chunks :
        blob[k][i + 1] = "torn" =>
            \/ \E u, v \in Uploader : /\ u # v
                                      /\ idx[u] = i /\ up[u] # "idle"
                                      /\ idx[v] = i /\ up[v] # "idle"
            \/ \E u \in Uploader : idx[u] \notin Chunks /\ up[u] = "received"

(* A session is closed only after its file has a record, also across a      *)
(* restart: otherwise the upload is lost and cannot be resumed.             *)
CompletedHasRecord == session = "completed" /\ ~dbFailed => files # {}

(* The abstract upload: a chunk is stored once its file exists or a whole   *)
(* destination file has been assembled from it.                             *)
Stored == IF \E k \in Completer : Whole(k) THEN Chunks ELSE Present
Abstract == INSTANCE UploadSpec WITH Chunks <- Chunks, Completers <- Completer,
                                     stored <- Stored, published <- files

(* A file is published only when all its chunks have been stored, and what  *)
(* was stored or published stays so: the SQLite path implements UploadSpec. *)
ImplementsUpload == Abstract!Spec
=============================================================================
