----------------------------- MODULE SharedBlobs -----------------------------
(***************************************************************************)
(* Rows of the files table and the files on disk they point to.  Instant   *)
(* upload and saving a share make rows that share a storage path; deleting *)
(* goes through the trash, and a permanent delete removes the file on disk *)
(* when no row refers to it any more.  No transaction spans a row and its  *)
(* file, and requests interleave between their statements.                 *)
(***************************************************************************)
EXTENDS Naturals, FiniteSets

CONSTANTS Request,  \* HTTP requests; each also names the file id it creates
          Seed,     \* file ids that exist at the start
          Startup,  \* the process that cleans the trash before serving
          Content,  \* contents of files, standing for their hash and size
          Kinds,    \* the handlers that requests call
          Faults    \* what may go wrong: "insert", "count", "disk", "crash"

Handlers == {"create", "check", "save", "edit", "purge", "empty"}

ASSUME ConstantsAssumption ==
    /\ Request \cap Seed = {}
    /\ Startup \notin Request
    /\ Content # {}
    /\ (Request \cup Content) \cap {"none", "torn"} = {}
    /\ Request \cap Content = {}
    /\ Kinds \subseteq Handlers
    /\ Faults \subseteq {"insert", "count", "disk", "crash"}

File == Seed \cup Request
Process == Request \cup {Startup}

VARIABLES
    live, trashed,  \* ids of the rows with deleted_at NULL, and set
    path,           \* storage_path of a row, named by the id it was made for
    hash,           \* hash and size of a row
    blob,           \* a file on disk: none, its content, torn, or truncated by
                    \* a request that has not yet written it (then: it)
    unlinked,       \* requests whose open file was removed from the directory
    kind,           \* the handler each request calls
    pc,             \* its control state
    tgt,            \* the file id it has read from the table, itself at first
    data,           \* the content it sends, or the hash it is going to store
    todo,           \* file ids of the trash it still has to go through
    late,           \* rows made when their file was gone or about to go
    kept            \* paths that lost their last row, or got none, and whose
                    \* removal failed, was not tried or died with the process

blobVars == <<live, trashed, path, hash, blob, unlinked, kind, pc, tgt, data, todo,
          late, kept>>
rowVars == <<live, trashed, path, hash, late>>
diskVars == <<blob, unlinked>>

Row == live \cup trashed

BlobInit ==
    /\ live \in SUBSET Seed /\ trashed = Seed \ live
    /\ path \in {p \in [File -> File] :
                   /\ \A r \in Request : p[r] = r
                   /\ \A s \in Seed : p[s] \in Seed /\ p[p[s]] = p[s]}
    /\ \E c \in Content :
         /\ hash = [f \in File |-> c]
         /\ blob = [f \in File |-> IF f \in Seed /\ path[f] = f THEN c ELSE "none"]
    /\ unlinked = {}
    /\ kind \in [Request -> Kinds]
    /\ pc = [p \in Process |-> IF p = Startup THEN "sweep" ELSE "idle"]
    /\ tgt = [p \in Process |-> p]
    /\ data \in [Request -> Content]
    /\ todo = [p \in Process |-> {}]
    /\ late = {} /\ kept = {}

To(p, state) == pc' = [pc EXCEPT ![p] = state]
PathOf(p) == path[tgt[p]]
References(q) == {f \in Row : path[f] = q}
Starts(r, k) == pc[Startup] = "done" /\ pc[r] = "idle" /\ kind[r] = k
Keep(q) == kept' = IF References(q) = {} THEN kept \cup {q} ELSE kept

(* Somebody has yet to remove the file, or to look whether he must.         *)
Due(q) ==
    \/ \E p \in Process : pc[p] \in {"count", "remove"} /\ PathOf(p) = q
    \/ \E f \in todo[Startup] : path[f] = q
    \/ q \in Request /\ kind[q] = "create" /\ pc[q] \in {"insert", "undo"}

(* HashFile of a storage path; its error leaves the hash empty. *)
HashFile(q) == IF blob[q] \in Request THEN "torn" ELSE blob[q]
-----------------------------------------------------------------------------
(* Mutations: plausible mistakes that the properties must notice.           *)

(* CountByStoragePath does not count the rows in the trash *)
CountLive(p) ==
    /\ pc[p] = "count"
    /\ To(p, IF \E f \in live : path[f] = PathOf(p) THEN "next" ELSE "remove")
    /\ UNCHANGED <<rowVars, diskVars, kind, tgt, data, todo, kept>>

(* a row is made although its file must be removed again *)
UndoForgotten(r) ==
    /\ pc[r] = "undo"
    /\ To(r, "done")
    /\ UNCHANGED <<rowVars, diskVars, kind, tgt, data, todo, kept>>

-----------------------------------------------------------------------------
(* CreateTextFile: the content goes to a path of its own, then the row is   *)
(* inserted; if that fails the file is removed again, and an error of the   *)
(* removal is ignored.  Nobody removes what a failed WriteFile has left.    *)
CreateTextFile(r) ==
    /\ Starts(r, "create")
    /\ \/ /\ blob' = [blob EXCEPT ![r] = data[r]]
          /\ To(r, "insert")
          /\ UNCHANGED kept
       \/ /\ "disk" \in Faults
          /\ blob' \in {blob, [blob EXCEPT ![r] = "torn"]}
          /\ Keep(r)
          /\ To(r, "done")
    /\ UNCHANGED <<rowVars, unlinked, kind, tgt, data, todo>>

UndoCreate(r) ==
    /\ pc[r] = "undo"
    /\ \/ /\ blob' = [blob EXCEPT ![r] = "none"]
          /\ UNCHANGED kept
       \/ /\ "disk" \in Faults
          /\ Keep(r)
          /\ UNCHANGED blob
    /\ To(r, "done")
    /\ UNCHANGED <<rowVars, unlinked, kind, tgt, data, todo>>

(* CheckUpload: GetFileByHash finds a row of any owner, or none.            *)
CheckUpload(r) ==
    /\ Starts(r, "check")
    /\ \/ \E f \in live : /\ hash[f] = data[r]
                          /\ tgt' = [tgt EXCEPT ![r] = f]
                          /\ To(r, "insert")
       \/ /\ \A f \in live : hash[f] # data[r]
          /\ To(r, "done")
          /\ UNCHANGED tgt
    /\ UNCHANGED <<rowVars, diskVars, kind, data, todo, kept>>

(* saveShareToMyFiles: GetFile of a shared file, whose hash it copies. *)
SaveShare(r) ==
    /\ Starts(r, "save")
    /\ \E f \in live : /\ tgt' = [tgt EXCEPT ![r] = f]
                       /\ data' = [data EXCEPT ![r] = hash[f]]
    /\ To(r, "insert")
    /\ UNCHANGED <<rowVars, diskVars, kind, todo, kept>>

(* CreateFile of the request's new row, which may fail.  A shared path is   *)
(* the one read before, whatever happened to its row and file since.        *)
CreateFile(r) ==
    /\ pc[r] = "insert"
    /\ LET q == IF kind[r] = "create" THEN r ELSE PathOf(r) IN
       \/ /\ live' = live \cup {r}
          /\ path' = [path EXCEPT ![r] = q]
          /\ hash' = [hash EXCEPT ![r] = data[r]]
          /\ late' = IF \/ blob[q] = "none"
                        \/ \E p \in Process : pc[p] = "remove" /\ PathOf(p) = q
                     THEN late \cup {r} ELSE late
          /\ kept' = kept \ {q}
          /\ To(r, "done")
       \/ /\ "insert" \in Faults
          /\ To(r, IF kind[r] = "create" THEN "undo" ELSE "done")
          /\ UNCHANGED <<live, path, hash, late, kept>>
    /\ UNCHANGED <<trashed, diskVars, kind, tgt, data, todo>>
-----------------------------------------------------------------------------
(* UpdateFileContent: GetFile. *)
UpdateFileContent(r) ==
    /\ Starts(r, "edit")
    /\ \E f \in live : tgt' = [tgt EXCEPT ![r] = f]
    /\ To(r, "truncate")
    /\ UNCHANGED <<rowVars, diskVars, kind, data, todo, kept>>

(* WriteFile: os.Create truncates the file, or makes it anew. *)
Truncate(r) ==
    /\ pc[r] = "truncate"
    /\ \/ /\ blob' = [blob EXCEPT ![PathOf(r)] = r]
          /\ Keep(PathOf(r))
          /\ To(r, "copy")
       \/ /\ "disk" \in Faults
          /\ To(r, "done")
          /\ UNCHANGED <<blob, kept>>
    /\ UNCHANGED <<rowVars, unlinked, kind, tgt, data, todo>>

Writers(q) == {r \in Request : kind[r] = "edit" /\ PathOf(r) = q
                               /\ pc[r] \in {"copy", "hash", "meta", "done"}}

(* WriteFile: io.Copy, whose error ends the request.  Writers that overlap  *)
(* may leave a mixture, settled when the last to truncate has written.      *)
Copy(r) ==
    /\ pc[r] = "copy"
    /\ \E ok \in {TRUE} \cup IF "disk" \in Faults THEN {FALSE} ELSE {} :
         LET q == PathOf(r) IN
         /\ To(r, IF ok THEN "hash" ELSE "done")
         /\ blob' \in IF r \in unlinked \/ blob[q] \in Request \ {r}
                      THEN {blob}
                      ELSE {[blob EXCEPT ![q] = c] :
                              c \in (IF ok THEN {data[r]} ELSE {"torn"}) \cup
                                    IF Writers(q) = {r} THEN {} ELSE {"torn"}}
    /\ unlinked' = unlinked \ {r}
    /\ UNCHANGED <<rowVars, kind, tgt, data, todo, kept>>

(* HashFile reads the path as it is now. *)
Rehash(r) ==
    /\ pc[r] = "hash"
    /\ data' = [data EXCEPT ![r] = HashFile(PathOf(r))]
    /\ To(r, "meta")
    /\ UNCHANGED <<rowVars, diskVars, kind, tgt, todo, kept>>

(* UpdateFileMeta: UPDATE ... WHERE id, in the trash or not; no other row   *)
(* of the path.                                                             *)
UpdateFileMeta(r) ==
    /\ pc[r] = "meta"
    /\ hash' = IF tgt[r] \in Row THEN [hash EXCEPT ![tgt[r]] = data[r]] ELSE hash
    /\ To(r, "done")
    /\ UNCHANGED <<live, trashed, path, late, diskVars, kind, tgt, data, todo, kept>>
-----------------------------------------------------------------------------
(* DeleteFile, of DeleteFileByID, DeleteDir and BatchDelete. *)
DeleteFile(f) ==
    /\ pc[Startup] = "done"
    /\ f \in live
    /\ live' = live \ {f} /\ trashed' = trashed \cup {f}
    /\ UNCHANGED <<path, hash, late, diskVars, kind, pc, tgt, data, todo, kept>>

(* RestoreFile; its UPDATE finds only a row that is still in the trash. *)
RestoreFile(f) ==
    /\ pc[Startup] = "done"
    /\ f \in trashed
    /\ live' = live \cup {f} /\ trashed' = trashed \ {f}
    /\ UNCHANGED <<path, hash, late, diskVars, kind, pc, tgt, data, todo, kept>>

(* PermanentDelete has one id to go through, EmptyTrash the rows in the     *)
(* trash of one owner or of all.                                            *)
PermanentDelete(r) ==
    /\ Starts(r, "purge")
    /\ \E f \in Row : todo' = [todo EXCEPT ![r] = {f}]
    /\ To(r, "next")
    /\ UNCHANGED <<rowVars, diskVars, kind, tgt, data, kept>>

EmptyTrash(r) ==
    /\ Starts(r, "empty")
    /\ \E E \in SUBSET trashed : todo' = [todo EXCEPT ![r] = E]
    /\ To(r, "next")
    /\ UNCHANGED <<rowVars, diskVars, kind, tgt, data, kept>>

(* CleanupExpiredTrash at startup: one transaction deletes all rows whose   *)
(* time in the trash is over.                                               *)
CleanupExpiredTrash ==
    /\ pc[Startup] = "sweep"
    /\ \E E \in SUBSET trashed :
         /\ trashed' = trashed \ E
         /\ todo' = [todo EXCEPT ![Startup] = E]
    /\ To(Startup, "next")
    /\ UNCHANGED <<live, path, hash, late, diskVars, kind, tgt, data, kept>>

(* The next id; PermanentlyDeleteFile first selects it from the trash. *)
NextTrashed(p) ==
    /\ pc[p] = "next"
    /\ \/ /\ todo[p] = {}
          /\ To(p, "done")
          /\ UNCHANGED <<tgt, todo>>
       \/ \E f \in todo[p] :
            /\ todo' = [todo EXCEPT ![p] = @ \ {f}]
            /\ tgt' = [tgt EXCEPT ![p] = f]
            /\ To(p, IF p = Startup THEN "count"
                     ELSE IF f \in trashed THEN "delete" ELSE "next")
    /\ UNCHANGED <<rowVars, diskVars, kind, data, kept>>

(* PermanentlyDeleteFile: DELETE ... AND deleted_at IS NOT NULL; without an *)
(* affected row the file stays.                                             *)
DeleteRow(p) ==
    /\ pc[p] = "delete"
    /\ trashed' = trashed \ {tgt[p]}
    /\ To(p, IF tgt[p] \in trashed THEN "count" ELSE "next")
    /\ UNCHANGED <<live, path, hash, late, diskVars, kind, tgt, data, todo, kept>>

(* CountByStoragePath counts the rows, in the trash or not; an error keeps  *)
(* the file.                                                                *)
CountByStoragePath(p) ==
    /\ pc[p] = "count"
    /\ \/ /\ To(p, IF References(PathOf(p)) # {} THEN "next" ELSE "remove")
          /\ UNCHANGED kept
       \/ /\ "count" \in Faults
          /\ To(p, "next")
          /\ Keep(PathOf(p))
    /\ UNCHANGED <<rowVars, diskVars, kind, tgt, data, todo>>

(* storage.DeleteFile, whose error is only logged; requests that write the  *)
(* file go on with no name.                                                 *)
RemoveBlob(p) ==
    /\ pc[p] = "remove"
    /\ \/ /\ blob' = [blob EXCEPT ![PathOf(p)] = "none"]
          /\ unlinked' = unlinked \cup
                   {r \in Request : pc[r] = "copy" /\ PathOf(r) = PathOf(p)}
          /\ kept' = kept \ {PathOf(p)}
       \/ /\ "disk" \in Faults
          /\ Keep(PathOf(p))
          /\ UNCHANGED diskVars
    /\ To(p, "next")
    /\ UNCHANGED <<rowVars, kind, tgt, data, todo>>
-----------------------------------------------------------------------------
(* The process dies and starts again: what is in the table and on disk      *)
(* stays, everything in progress is gone.                                   *)
Crash ==
    /\ "crash" \in Faults
    /\ \E p \in Process : pc[p] \notin {"idle", "done"}
    /\ pc' = [p \in Process |-> IF p = Startup THEN "sweep"
                                ELSE IF pc[p] = "idle" THEN "idle" ELSE "done"]
    /\ blob' = [f \in File |-> HashFile(f)]
    /\ unlinked' = {}
    /\ todo' = [p \in Process |-> {}]
    /\ kept' = kept \cup {q \in File : Due(q) /\ References(q) = {}}
    /\ UNCHANGED <<rowVars, kind, tgt, data>>

RequestStep(r) ==
    \/ CreateTextFile(r) \/ UndoCreate(r) \/ CheckUpload(r) \/ SaveShare(r)
    \/ CreateFile(r) \/ UpdateFileContent(r) \/ Truncate(r) \/ Copy(r)
    \/ Rehash(r) \/ UpdateFileMeta(r) \/ PermanentDelete(r) \/ EmptyTrash(r)
    \/ DeleteRow(r)

TrashStep(p) == NextTrashed(p) \/ CountByStoragePath(p) \/ RemoveBlob(p)

BlobNext ==
    \/ \E r \in Request : RequestStep(r)
    \/ \E p \in Process : TrashStep(p)
    \/ CleanupExpiredTrash
    \/ \E f \in File : DeleteFile(f) \/ RestoreFile(f)
    \/ Crash

BlobSpec == BlobInit /\ [][BlobNext]_blobVars
-----------------------------------------------------------------------------
Quiet == \A p \in Process : pc[p] \in {"idle", "done"}

(* A row, in the trash or not, has its file on disk, unless it was made     *)
(* from a row whose permanent delete had already decided to remove the file *)
(* - the one window the reference count leaves open.                        *)
DanglingExplained == \A f \in Row : blob[path[f]] = "none" => f \in late

(* The last row to go takes its file along, however permanent deletes,      *)
(* restores and copies interleave: a file that no row points to was left by *)
(* a failed count or removal, a failed WriteFile of CreateTextFile, an edit *)
(* that truncated it after its last row had gone, or a crash that took away *)
(* the process about to count, to remove it, or to insert its row.          *)
OrphanExplained ==
    Quiet => \A q \in File : blob[q] # "none" => References(q) # {} \/ q \in kept

=============================================================================
