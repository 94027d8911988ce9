----------------------------- MODULE RedisUpload -----------------------------
(***************************************************************************)
(* One relay upload session on a server with Redis: chunks are marked in a *)
(* bitmap before their data is written, the data goes through the queue of *)
(* the disk worker pool (internal/storage/local.go), and completion holds  *)
(* the lock session:<id>:lock.  Redis keys may expire, be lost in a        *)
(* failover or be unreachable, and the process may crash; Faults says      *)
(* which of these an instance allows.                                      *)
(***************************************************************************)
EXTENDS Naturals, Sequences, FiniteSets

CONSTANTS Initer,       \* the init requests for this file
          Uploader,     \* the chunk requests; each enqueues at most one write
          Completer,    \* the completion requests; each also names its file id
          TotalChunks,  \* session.TotalChunks
          Index,        \* the chunk indexes clients send
          Workers,      \* asyncWorkerCount
          QueueSize,    \* asyncJobQueueSize
          Free,         \* the value of a lock key that is not set
          Faults        \* what may go wrong

FaultKinds == {"expire",      \* the session's keys reach their TTL
               "lockExpire",  \* the lock reaches its 30 seconds while held
               "failover",    \* a failover loses every key not replicated
               "down",        \* the watchdog marks Redis unhealthy
               "db",          \* a write to SQLite fails
               "crash",       \* the process restarts
               "body"}        \* a chunk request lacks its chunk_data field

ASSUME ConstantsAssumption ==
    /\ TotalChunks \in Nat \ {0}
    /\ 0 .. TotalChunks - 1 \subseteq Index
    /\ Index \subseteq Nat
    /\ IsFiniteSet(Index)
    /\ IsFiniteSet(Uploader)
    /\ Workers \in Nat \ {0}
    /\ QueueSize \in Nat
    /\ Free \notin Completer
    /\ Faults \subseteq FaultKinds
    /\ Uploader \cap {"absent", "full"} = {}

Chunks == 0 .. TotalChunks - 1

VARIABLES
    session,    \* status of the upload_sessions row, "none" before it exists
    ini,        \* control state of each init request
    healthy,    \* RedisCache.healthy
    cached,     \* is the key session:<id> set?
    bits,       \* the bits set in session:<id>:chunks
    lock,       \* session:<id>:lock; the key's value is "1", the request that
                \* set it is kept to state properties
    dirCached,  \* has sessionDirCache an entry for the chunk directory?
    chunkDir,   \* does the chunk directory exist?
    chunkFile,  \* absent, full, or truncated by an uploader's write (then: it)
    unlinked,   \* uploaders whose open chunk file RemoveAll has unlinked
    queue,      \* asyncChunkQueue: the uploaders whose write waits in it
    job,        \* where the write of each uploader is
    wg,         \* the counter of LocalStorage.asyncTasks
    up, idx,    \* control state and chunk index of each chunk request
    co, reply,  \* control state and answer of each completion request
    quiet,      \* was every chunk answered when the completion was sent?
    blob,       \* what each completion read of chunk 0, 1, ...
    files,      \* file ids that have a row in the files table
    charged,    \* times the size was added to the token's quota_used
    named,      \* is the filename in the Redis set files:names?
    calm,       \* history: nothing of Environment has happened
    slipped     \* history: has Slip happened?

sys == <<session, ini, healthy, cached, bits, lock, dirCached, chunkDir, chunkFile,
         unlinked, queue, job, wg, up, idx, co, reply, quiet, blob, files,
         charged, named>>
vars == <<sys, calm, slipped>>
sessionVars == <<session, ini>>
redisVars == <<healthy, cached, bits, lock, named>>
diskVars == <<dirCached, chunkDir, chunkFile, unlinked, queue, job, wg>>
uploadVars == <<up, idx>>
completeVars == <<co, reply, quiet, blob, files, charged>>

Init ==
    /\ session = "none"
    /\ ini = [r \in Initer |-> "idle"]
    /\ healthy = TRUE /\ cached = FALSE /\ named = FALSE
    /\ bits = {}
    /\ lock = Free
    /\ dirCached = FALSE /\ chunkDir = FALSE
    /\ chunkFile = [i \in Index |-> "absent"]
    /\ unlinked = {}
    /\ queue = <<>>
    /\ job = [u \in Uploader |-> "none"]
    /\ wg = 0
    /\ up = [u \in Uploader |-> "idle"]
    /\ idx \in [Uploader -> Index]
    /\ co = [k \in Completer |-> "idle"]
    /\ reply = [k \in Completer |-> "none"]
    /\ quiet = {}
    /\ blob = [k \in Completer |-> <<>>]
    /\ files = {}
    /\ charged = 0 /\ calm = TRUE /\ slipped = FALSE

UpRunning(u) == up[u] \in {"fallback", "recache", "mark", "body", "sync"}
CoRunning(k) == co[k] \notin {"idle", "done"}

(* A client has been told the session's id. *)
Known == \E r \in Initer : ini[r] = "done"
-----------------------------------------------------------------------------
To(u, state) == up' = [up EXCEPT ![u] = state]
CoTo(k, state) == co' = [co EXCEPT ![k] = state]

Writing == {u \in Uploader : job[u] \in {"taken", "mkdir", "open", "write"}}

(* Does a pool worker write for u, or u's own request? *)
Pooled(u) == up[u] # "sync"

Unanswered(i) == \A u \in Uploader : idx[u] = i => up[u] # "received"

(* An error answer: the deferred Unlock still runs. *)
Fail(k) == /\ CoTo(k, "unlock")
           /\ reply' = [reply EXCEPT ![k] = "failed"]
-----------------------------------------------------------------------------
(* Mutations: actions below with a plausible mistake in them, which the     *)
(* properties must notice.                                                  *)

(* no wg.Done after a failed write *)
FinishLeaking(u, result) ==
    /\ job' = [job EXCEPT ![u] = result]
    /\ IF Pooled(u) THEN /\ wg' = IF result = "lost" THEN wg ELSE wg - 1
                         /\ UNCHANGED up
                    ELSE /\ To(u, "received")
                         /\ UNCHANGED wg

(* CompleteUpload without WaitAsync *)
WaitAsyncSkipped(k) ==
    /\ co[k] = "wait"
    /\ CoTo(k, "count")
    /\ UNCHANGED <<sessionVars, redisVars, diskVars, uploadVars, reply, quiet, blob,
                   files, charged>>

(* assembleFile skips a chunk file that it cannot open *)
AssembleChunkSkipping(k) ==
    /\ co[k] = "assemble"
    /\ Len(blob[k]) < TotalChunks
    /\ blob' = [blob EXCEPT ![k] = Append(@, "full")]
    /\ UNCHANGED <<sessionVars, redisVars, diskVars, uploadVars, co, reply, quiet, files,
                   charged>>

(* the fallback does not look at the status of the session *)
FallBackUnchecked(u) ==
    /\ up[u] = "fallback"
    /\ To(u, "recache")
    /\ UNCHANGED <<sessionVars, redisVars, diskVars, idx, completeVars>>
-----------------------------------------------------------------------------
(* InitUpload: CreateUploadSession, the session's row. *)
CreateUploadSession(r) ==
    /\ ini[r] = "idle"
    /\ session = "none"
    /\ session' = "active"
    /\ ini' = [ini EXCEPT ![r] = "cache"]
    /\ UNCHANGED <<redisVars, diskVars, uploadVars, completeVars>>

(* InitUpload of the same file again: FindActiveSessionByHash returns the   *)
(* session, active as it is now.                                            *)
FindActiveSessionByHash(r) ==
    /\ ini[r] = "idle"
    /\ session = "active"
    /\ ini' = [ini EXCEPT ![r] = "cache"]
    /\ UNCHANGED <<session, redisVars, diskVars, uploadVars, completeVars>>

(* InitUpload: CacheSessionPipeline of the new session, or CacheSession of  *)
(* the one found, whose error is ignored; then the answer with the id.      *)
CacheFound(r) ==
    /\ ini[r] = "cache"
    /\ ini' = [ini EXCEPT ![r] = "done"]
    /\ cached' = (cached \/ healthy)
    /\ UNCHANGED <<session, healthy, bits, lock, named, diskVars, uploadVars,
                   completeVars>>
-----------------------------------------------------------------------------
(* UploadChunk, the Lua script VerifyAndMarkChunk: an error or a missing    *)
(* session key (-1) falls back to SQLite, a set bit (-2) answers received   *)
(* at once, otherwise the bit is set before any data is written.            *)
VerifyAndMarkChunk(u) ==
    /\ up[u] = "idle"
    /\ Known
    /\ \/ /\ ~healthy \/ ~cached
          /\ To(u, "fallback")
          /\ UNCHANGED bits
       \/ /\ healthy /\ cached /\ idx[u] \in bits
          /\ To(u, "received")
          /\ UNCHANGED bits
       \/ /\ healthy /\ cached /\ idx[u] \notin bits
          /\ To(u, "body")
          /\ bits' = bits \cup {idx[u]}
    /\ UNCHANGED <<sessionVars, healthy, cached, lock, named, diskVars, idx,
                   completeVars>>

(* UploadChunk, the fallback: GetUploadSession, 409 unless active. *)
FallBack(u) ==
    /\ up[u] = "fallback"
    /\ To(u, IF session = "active" THEN "recache" ELSE "failed")
    /\ UNCHANGED <<sessionVars, redisVars, diskVars, idx, completeVars>>

(* UploadChunk, the fallback: CacheSession writes the session read above,   *)
(* active as it was then; its error is ignored.                             *)
CacheSession(u) ==
    /\ up[u] = "recache"
    /\ To(u, "mark")
    /\ cached' = (cached \/ healthy)
    /\ UNCHANGED <<sessionVars, healthy, bits, lock, named, diskVars, idx,
                   completeVars>>

(* UploadChunk, the fallback: MarkChunkReceived, its error ignored.  Unlike *)
(* the script it does not look whether the bit was set.                     *)
MarkChunkReceived(u) ==
    /\ up[u] = "mark"
    /\ To(u, "body")
    /\ bits' = IF healthy THEN bits \cup {idx[u]} ELSE bits
    /\ UNCHANGED <<sessionVars, healthy, cached, lock, named, diskVars, idx,
                   completeVars>>

(* UploadChunk: FormFile fails on a request without chunk_data (400); the   *)
(* bit stays set.                                                           *)
RejectBody(u) ==
    /\ "body" \in Faults
    /\ up[u] = "body"
    /\ To(u, "failed")
    /\ UNCHANGED <<sessionVars, redisVars, diskVars, idx, completeVars>>

(* SaveChunkAsync: the write joins the queue and the request is answered,   *)
(* or, with the queue full, asyncTasks is released again and the request    *)
(* writes the file itself.  AsyncSaveChunk then hands the row to the SQLite *)
(* write queue (module AsyncWriteQueue); no step below reads the row.       *)
SaveChunkAsync(u) ==
    /\ up[u] = "body"
    /\ \/ /\ Len(queue) < QueueSize
          /\ queue' = Append(queue, u)
          /\ job' = [job EXCEPT ![u] = "queued"]
          /\ wg' = wg + 1
          /\ To(u, "received")
       \/ /\ Len(queue) >= QueueSize
          /\ job' = [job EXCEPT ![u] = "taken"]
          /\ To(u, "sync")
          /\ UNCHANGED <<queue, wg>>
    /\ UNCHANGED <<sessionVars, redisVars, dirCached, chunkDir, chunkFile, unlinked,
                   idx, completeVars>>
-----------------------------------------------------------------------------
(* One of the worker goroutines receives the next job. *)
TakeJob ==
    /\ queue # <<>>
    /\ Cardinality({u \in Writing : Pooled(u)}) < Workers
    /\ job' = [job EXCEPT ![Head(queue)] = "taken"]
    /\ queue' = Tail(queue)
    /\ UNCHANGED <<sessionVars, redisVars, dirCached, chunkDir, chunkFile, unlinked,
                   wg, uploadVars, completeVars>>

(* ensureChunkDir: LoadOrStore of the directory's cache entry.  Whoever     *)
(* stores it goes on to make the directory; everyone else relies on it.     *)
EnsureChunkDir(u) ==
    /\ job[u] = "taken"
    /\ job' = [job EXCEPT ![u] = IF dirCached THEN "open" ELSE "mkdir"]
    /\ dirCached' = TRUE
    /\ UNCHANGED <<sessionVars, redisVars, chunkDir, chunkFile, unlinked, queue, wg,
                   uploadVars, completeVars>>

(* ensureChunkDir: os.MkdirAll. *)
MkdirAll(u) ==
    /\ job[u] = "mkdir"
    /\ job' = [job EXCEPT ![u] = "open"]
    /\ chunkDir' = TRUE
    /\ UNCHANGED <<sessionVars, redisVars, dirCached, chunkFile, unlinked, queue, wg,
                   uploadVars, completeVars>>

(* The write of u ends: a worker calls wg.Done, a request that wrote the    *)
(* file itself is answered.  Errors are only logged.                        *)
Finish(u, result) ==
    /\ job' = [job EXCEPT ![u] = result]
    /\ IF Pooled(u) THEN /\ wg' = wg - 1
                         /\ UNCHANGED up
                    ELSE /\ To(u, "received")
                         /\ UNCHANGED wg

(* os.WriteFile opens with O_TRUNC, or fails without a directory. *)
OpenChunk(u) ==
    /\ job[u] = "open"
    /\ IF chunkDir
       THEN /\ chunkFile' = [chunkFile EXCEPT ![idx[u]] = u]
            /\ job' = [job EXCEPT ![u] = "write"]
            /\ UNCHANGED <<wg, up>>
       ELSE /\ Finish(u, "lost")
            /\ UNCHANGED chunkFile
    /\ UNCHANGED <<sessionVars, redisVars, dirCached, chunkDir, unlinked, queue, idx,
                   completeVars>>

(* os.WriteFile writes the data.  The file is whole once the last writer to *)
(* truncate it has written; an earlier one may finish before that or after. *)
WriteChunk(u) ==
    /\ job[u] = "write"
    /\ Finish(u, "done")
    /\ unlinked' = unlinked \ {u}
    /\ \/ /\ u \notin unlinked
          /\ chunkFile[idx[u]] # "absent"
          /\ chunkFile' = [chunkFile EXCEPT ![idx[u]] = "full"]
       \/ /\ u \in unlinked \/ chunkFile[idx[u]] # u
          /\ UNCHANGED chunkFile
    /\ UNCHANGED <<sessionVars, redisVars, dirCached, chunkDir, queue, idx,
                   completeVars>>
-----------------------------------------------------------------------------
(* CompleteUpload: TryLock.  500 while Redis is unhealthy, 409 while the    *)
(* key is set; SETNX otherwise.                                             *)
TryLock(k) ==
    /\ co[k] = "idle"
    /\ Known
    /\ IF healthy /\ lock = Free
       THEN /\ lock' = k
            /\ CoTo(k, "session")
            /\ UNCHANGED reply
       ELSE /\ CoTo(k, "done")
            /\ reply' = [reply EXCEPT ![k] = "failed"]
            /\ UNCHANGED lock
    /\ quiet' = IF /\ \A u \in Uploader : ~UpRunning(u)
                   /\ \A i \in Chunks : ~Unanswered(i)
                THEN quiet \cup {k} ELSE quiet
    /\ UNCHANGED <<sessionVars, healthy, cached, bits, named, diskVars, uploadVars,
                   blob, files, charged>>

(* GetSession from Redis, else GetUploadSession; the row exists, and its    *)
(* status is not looked at.                                                 *)
GetSession(k) ==
    /\ co[k] = "session"
    /\ CoTo(k, "wait")
    /\ UNCHANGED <<sessionVars, redisVars, diskVars, uploadVars, reply, quiet, blob,
                   files, charged>>

(* WaitAsync returns when no queued write is pending. *)
WaitAsync(k) ==
    /\ co[k] = "wait"
    /\ wg = 0
    /\ CoTo(k, "count")
    /\ UNCHANGED <<sessionVars, redisVars, diskVars, uploadVars, reply, quiet, blob,
                   files, charged>>

(* CountReceivedChunks: BITCOUNT over the whole bitmap, 400 unless it is    *)
(* the number of chunks.                                                    *)
CountReceivedChunks(k) ==
    /\ co[k] = "count"
    /\ IF healthy /\ Cardinality(bits) = TotalChunks
       THEN CoTo(k, "assemble") /\ UNCHANGED reply
       ELSE Fail(k)
    /\ UNCHANGED <<sessionVars, redisVars, diskVars, uploadVars, quiet, blob, files,
                   charged>>

(* AssembleFileWithHash: open and copy the next chunk file; a missing one   *)
(* is an error (500).                                                       *)
AssembleChunk(k) ==
    /\ co[k] = "assemble"
    /\ Len(blob[k]) < TotalChunks
    /\ LET f == chunkFile[Len(blob[k])] IN
       \/ /\ f = "absent"
          /\ Fail(k)
          /\ UNCHANGED blob
       \/ /\ f # "absent"
          /\ blob' = [blob EXCEPT ![k] =
                        Append(@, IF f = "full" THEN "full" ELSE "torn")]
          /\ UNCHANGED <<co, reply>>
    /\ UNCHANGED <<sessionVars, redisVars, diskVars, uploadVars, quiet, files, charged>>

(* db.CreateFile with the hash of what was assembled, its error ignored. *)
CreateFile(k) ==
    /\ co[k] = "assemble"
    /\ Len(blob[k]) = TotalChunks
    /\ CoTo(k, "status")
    /\ \/ files' = files \cup {k}
       \/ "db" \in Faults /\ UNCHANGED files
    /\ UNCHANGED <<sessionVars, redisVars, diskVars, uploadVars, reply, quiet, blob,
                   charged>>

(* db.UpdateUploadSessionStatus(completed), its error ignored. *)
UpdateUploadSessionStatus(k) ==
    /\ co[k] = "status"
    /\ CoTo(k, "quota")
    /\ \/ session' = "completed"
       \/ "db" \in Faults /\ UNCHANGED session
    /\ UNCHANGED <<ini, redisVars, diskVars, uploadVars, reply, quiet, blob, files,
                   charged>>

(* AccountPATQuota, its error ignored. *)
AccountPATQuota(k) ==
    /\ co[k] = "quota"
    /\ CoTo(k, "name")
    /\ charged' = charged + 1
    /\ UNCHANGED <<sessionVars, redisVars, diskVars, uploadVars, reply, quiet, blob,
                   files>>

(* MarkFileExists: the filename joins files:names. *)
MarkFileExists(k) ==
    /\ co[k] = "name"
    /\ CoTo(k, "forget")
    /\ named' = (named \/ healthy)
    /\ UNCHANGED <<sessionVars, healthy, cached, bits, lock, diskVars, uploadVars,
                   reply, quiet, blob, files, charged>>

(* DeleteSession deletes the session, chunks and lock keys. *)
DeleteSession(k) ==
    /\ co[k] = "forget"
    /\ CoTo(k, "temp")
    /\ IF healthy THEN cached' = FALSE /\ bits' = {} /\ lock' = Free
                  ELSE UNCHANGED <<cached, bits, lock>>
    /\ UNCHANGED <<sessionVars, healthy, named, diskVars, uploadVars, reply, quiet,
                   blob, files, charged>>

(* DeleteTemp: first the directory's cache entry ... *)
DropDirCache(k) ==
    /\ co[k] = "temp"
    /\ CoTo(k, "remove")
    /\ dirCached' = FALSE
    /\ UNCHANGED <<sessionVars, redisVars, chunkDir, chunkFile, unlinked, queue, job,
                   wg, uploadVars, reply, quiet, blob, files, charged>>

(* ... then the directory; writes in progress go to unlinked files. *)
RemoveAll(k) ==
    /\ co[k] = "remove"
    /\ CoTo(k, "unlock")
    /\ reply' = [reply EXCEPT ![k] = "ok"]
    /\ chunkDir' = FALSE
    /\ chunkFile' = [i \in Index |-> "absent"]
    /\ unlinked' = {u \in Uploader : job[u] = "write"}
    /\ UNCHANGED <<sessionVars, redisVars, dirCached, queue, job, wg, uploadVars,
                   quiet, blob, files, charged>>

(* The deferred Unlock deletes the lock key, whoever set it. *)
Unlock(k) ==
    /\ co[k] = "unlock"
    /\ CoTo(k, "done")
    /\ lock' = IF healthy THEN Free ELSE lock
    /\ UNCHANGED <<sessionVars, healthy, cached, bits, named, diskVars, uploadVars,
                   reply, quiet, blob, files, charged>>
-----------------------------------------------------------------------------
(* The session key reaches its TTL ... *)
ExpireSession ==
    /\ "expire" \in Faults
    /\ cached
    /\ cached' = FALSE
    /\ UNCHANGED <<sessionVars, healthy, bits, lock, named, diskVars, uploadVars,
                   completeVars>>

(* ... and the bitmap: every renewal of the session key renews it, so it    *)
(* never goes first.                                                        *)
ExpireBits ==
    /\ "expire" \in Faults
    /\ ~cached /\ bits # {}
    /\ bits' = {}
    /\ UNCHANGED <<sessionVars, healthy, cached, lock, named, diskVars, uploadVars,
                   completeVars>>

(* The lock's 30 seconds are over.  A lock left by a crash always expires;  *)
(* one held by a running request only if the request takes that long.       *)
ExpireLock ==
    /\ lock # Free
    /\ "lockExpire" \in Faults \/ ~CoRunning(lock)
    /\ lock' = Free
    /\ UNCHANGED <<sessionVars, healthy, cached, bits, named, diskVars, uploadVars,
                   completeVars>>

(* Sentinel promotes a replica that has received none of the recent writes. *)
Failover ==
    /\ "failover" \in Faults
    /\ cached' = FALSE /\ bits' = {} /\ lock' = Free
    /\ UNCHANGED <<sessionVars, healthy, named, diskVars, uploadVars, completeVars>>

(* The watchdog changes its mind about Redis. *)
HealthCheck ==
    /\ "down" \in Faults
    /\ healthy' = ~healthy
    /\ UNCHANGED <<sessionVars, cached, bits, lock, named, diskVars, uploadVars,
                   completeVars>>

(* The process dies and restarts: requests, queued writes and the directory *)
(* cache are gone; SQLite, Redis and the disk are not.                      *)
Crash ==
    /\ "crash" \in Faults
    /\ \/ \E u \in Uploader : UpRunning(u) \/ u \in Writing \/ job[u] = "queued"
       \/ \E k \in Completer : CoRunning(k)
       \/ \E r \in Initer : ini[r] = "cache"
    /\ ini' = [r \in Initer |-> IF ini[r] = "cache" THEN "failed" ELSE ini[r]]
    /\ up' = [u \in Uploader |-> IF UpRunning(u) THEN "failed" ELSE up[u]]
    /\ job' = [u \in Uploader |->
                 IF u \in Writing \/ job[u] = "queued" THEN "lost" ELSE job[u]]
    /\ co' = [k \in Completer |-> IF CoRunning(k) THEN "done" ELSE co[k]]
    /\ reply' = [k \in Completer |-> IF CoRunning(k) THEN "failed" ELSE reply[k]]
    /\ queue' = <<>>
    /\ wg' = 0
    /\ dirCached' = FALSE
    /\ unlinked' = {}
    /\ UNCHANGED <<session, redisVars, chunkDir, chunkFile, idx, quiet, blob,
                   files, charged>>
-----------------------------------------------------------------------------
InitStep(r) ==
    CreateUploadSession(r) \/ FindActiveSessionByHash(r) \/ CacheFound(r)

UploadStep(u) ==
    \/ VerifyAndMarkChunk(u) \/ FallBack(u) \/ CacheSession(u)
    \/ MarkChunkReceived(u) \/ RejectBody(u) \/ SaveChunkAsync(u)

WriterStep(u) == EnsureChunkDir(u) \/ MkdirAll(u) \/ OpenChunk(u) \/ WriteChunk(u)

CompleteStep(k) ==
    \/ TryLock(k) \/ GetSession(k) \/ WaitAsync(k) \/ CountReceivedChunks(k)
    \/ AssembleChunk(k) \/ CreateFile(k) \/ UpdateUploadSessionStatus(k)
    \/ AccountPATQuota(k) \/ MarkFileExists(k) \/ DeleteSession(k)
    \/ DropDirCache(k) \/ RemoveAll(k) \/ Unlock(k)

Environment ==
    \/ ExpireSession \/ ExpireBits \/ ExpireLock \/ Failover \/ HealthCheck
    \/ Crash

Server ==
    \/ \E r \in Initer : InitStep(r)
    \/ \E u \in Uploader : UploadStep(u) \/ WriterStep(u)
    \/ TakeJob
    \/ \E k \in Completer : CompleteStep(k)

(* Steps after which the lock and the bitmap no longer keep a second        *)
(* completion out: the lock goes while its owner runs ...                   *)
LockLost == lock # Free /\ CoRunning(lock) /\ lock' = Free /\ co' = co

(* ... a completion that has recorded its file dies, or finds Redis         *)
(* unhealthy, before it has deleted the keys ...                            *)
Forgets(k) == co[k] = "forget" /\ co'[k] = "temp"
KeysKept == \E k \in Completer :
    \/ co[k] \in {"status", "quota", "name", "forget"} /\ co'[k] = "done"
    \/ Forgets(k) /\ ~healthy

(* ... its UPDATE of the session's status fails ...                         *)
StaysActive == \E k \in Completer :
    co[k] = "status" /\ co'[k] = "quota" /\ session' # "completed"

(* ... or it deletes the keys while a request that has read the session as  *)
(* active has yet to write the session's key or its chunk's bit.            *)
ReadBefore ==
    /\ \E k \in Completer : Forgets(k)
    /\ \/ \E r \in Initer : ini[r] = "cache"
       \/ \E u \in Uploader : up[u] \in {"recache", "mark"}

Slip == LockLost \/ KeysKept \/ StaysActive \/ ReadBefore

Next ==
    /\ \/ Server /\ UNCHANGED calm
       \/ Environment /\ calm' = FALSE
    /\ slipped' = (slipped \/ Slip)

Spec == Init /\ [][Next]_vars

(* Goroutines that can run do run: the workers, and requests that have      *)
(* started.  Nothing makes a client send a request.                         *)
Fairness ==
    /\ WF_sys(TakeJob)
    /\ \A u \in Uploader :
         /\ WF_sys(WriterStep(u))
         /\ WF_sys(up[u] # "idle" /\ UploadStep(u))
    /\ \A k \in Completer : WF_sys(co[k] # "idle" /\ CompleteStep(k))

FairSpec == Spec /\ Fairness
-----------------------------------------------------------------------------
Present == {i \in Chunks : chunkFile[i] # "absent"}
Whole(k) == Len(blob[k]) = TotalChunks

(* If every chunk request had been answered when the completion was sent,   *)
(* Redis and the server kept going and nothing of Slip happened, the         *)
(* recorded file holds no half-written chunk: WaitAsync covers every write   *)
(* that was still queued, and set bits keep further writes away.             *)
AnsweredThenIntact ==
    calm /\ ~slipped => \A k \in files \cap quiet : \A i \in Chunks : blob[k][i + 1] = "full"

(* A session is recorded at most once, whatever keys expire or are lost,     *)
(* whenever Redis is unhealthy or the server restarts, unless one of the     *)
(* four things of Slip has happened: the lock keeps a second completion out  *)
(* until the bitmap is gone, although the lock key goes with it and          *)
(* CompleteUpload never looks at the status of the session.                  *)
OneRecordPerSession == ~slipped => Cardinality(files) <= 1

(* upload_chunk.go: "Chunk already received - return 200 immediately".  A    *)
(* request answered so because of the set bit has its chunk on disk, when    *)
(* no request and no write is in progress and the session is not complete.   *)
RepeatIsStored ==
    /\ \A u \in Uploader : ~UpRunning(u) /\ job[u] # "queued" /\ u \notin Writing
    /\ session = "active"
    => \A u \in Uploader :
          up[u] = "received" /\ job[u] = "none" => chunkFile[idx[u]] # "absent"

(* Every completion that has started is answered: WaitAsync cannot block    *)
(* for ever, and no path leaves the handler hanging.                        *)
CompletionAnswered ==
    \A k \in Completer : (co[k] # "idle") ~> (co[k] = "done")

Stored == IF \E k \in Completer : Whole(k) THEN Chunks ELSE Present
Abstract == INSTANCE UploadSpec WITH Chunks <- Chunks, Completers <- Completer,
                                     stored <- Stored, published <- files

(* The Redis path, too, publishes a file only when all its chunks have been *)
(* stored, under every fault: it implements UploadSpec.                     *)
ImplementsUpload == Abstract!Spec
=============================================================================
