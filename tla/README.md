# Verification of the FileSync server

TLA+ models of this repository: uploading a file in chunks, recording it, sharing its
content between rows of the files table, moving and deleting it; the clients that do so;
tokens and accounts; transcoding; the database migrations; the business and workbench
services. TLC checks the models on small instances; TLAPS proves, for every value of the
constants, every invariant and action property of the runs; liveness is TLC's alone.
`PROJECT.json` ties every definition to the lines it models.

## 1. The system

A Go server (`cmd/server`, or split into `cmd/*-svc`) stores files for users. A client
announces a file (`InitUpload`), sends its chunks in parallel and in any order
(`UploadChunk`), and asks for the file to be assembled (`CompleteUpload`). With Redis
configured, the chunk requests touch only Redis and memory; without it they use the
database. `net/http` runs each request in a goroutine, there is no lock around a
handler, and hardly a transaction spans two statements; none spans the database, Redis
and the disk. Most of the models therefore have the same shape: requests that interleave
between their statements.

| Component | State | Operations | What makes it hard | What makes it correct | Model |
|---|---|---|---|---|---|
| Upload handlers (`internal/handler/upload_*.go`) | `upload_sessions`, `chunks`, `files` rows; Redis keys of the session | init, chunk, complete, status, check | requests of one session overlap; errors of writes are ignored; crash between two stores | only whole files are recorded; what is reported received is on disk | `SqliteUpload`, `RedisUpload` |
| Local storage (`storage/local.go`) | chunk files, assembled files, directory cache, write queue, wait group | SaveChunk, SaveChunkAsync, WaitAsync, assemble, DeleteTemp, WriteFile, DeleteFile | two workers share the directory cache; truncation and writing are two steps; the queue may be full | nobody waits for a write that never comes; no half-written data is recorded | with the upload and `SharedBlobs` |
| Redis cache (`store/rediscache.go`) | session key, bitmap, lock, set of names, health flag | mark, count, lock, cache, delete, watchdog | expiry, failover that loses keys, unreachable | loss of keys never gets an incomplete file recorded | `RedisUpload`, `FileRows` |
| Batch writer (`store/db.go`) | channel, batch, transaction | Async*, flush, Close | rollback of a batch, full channel, close | a job is lost only for a named reason | `AsyncWriteQueue` |
| Trash and shared files (`handler/trash.go`, `upload_check.go`, `share_save.go`, `file_text.go`) | rows with `storage_path`, `deleted_at`; files | instant upload, save share, edit, delete, restore, purge, cleanup | count, then remove, without a transaction | a row has its file; the last row takes the file along | `SharedBlobs` |
| Names and directories (`upload_init.go`, `file_dir.go`, `file_delete.go`, `agentsvc/files.go`) | rows, Redis `files:names` | conflict check, insert, rename, move, delete, restore | look, then write; a set that knows no spaces; the agent's tools look and mark differently | one live row per name and space; a free name is accepted | `FileRows`, `FileUploads`, `FileMoves` |
| Spaces (`handler/spaces.go`) | `spaces` rows | create, list with default, delete | counted, then deleted | no files in a deleted space | `FileMoves` |
| Shares (`handler/share_*.go`, `store/share_repo.go`) | links, visits, counters | create, delete, download, save | visit and counter are two statements | the counter is the number of visitors | `FileShares` |
| Refresh tokens, SSO, codes (`auth/token_rotate.go`, `sso.go`, `store/oauth_repo.go`, `service/oauth_service.go`) | refresh sessions, blacklist, SSO sessions, codes | issue, rotate, revoke, authorize, exchange | rotation reads, then writes | a code and a session are used once | `AuthTokens` |
| Accounts (`service/auth_service.go`, `handler/admin.go`) | users, activation tokens, reset codes | register, resend, activate, forgot, reset, administer | several statements whose errors are ignored | a reset ends older sessions; one activation token | `AuthAccounts` |
| Personal access tokens (`handler/pat_*.go`, `middleware/jwt_gateway.go`) | `api_tokens` rows | create, revoke, authenticate, check, charge | the check uses a copy of the row | bounded overdraft | `AccessTokens` |
| Transcoding (`storage/thumbnail.go`, `transcode_queue.go`, `handler/preview_*.go`) | job table, queue, timers, output and temporary files | start, retry, enqueue, run, clean up, poll | requests, worker and timers share job objects and the table without a common lock | nobody polls for ever; no partial output; sources live as long as needed | `Transcode` |
| Migrations (`store/migrate.go`, `admin_init.go`) | tables, columns, indexes, default spaces | create, add column, create index, assign spaces, first administrator | two services start at once; a start dies half-way; old databases | in the end every service runs on the whole schema | `Migrate` |
| Desktop client (`filesync-client`) | local file, chunks to send, errors | scan, diff, hash, instant upload, resume, send, complete | the file is edited meanwhile; calls overlap; answers get lost | a sync that succeeds has uploaded | `DesktopSync` |
| Web page (`web/app.js`) | tasks and their runs | run, pause, resume, abort, retry | runs share a task's fields | done means stored, and stays done | `BrowserUpload` |
| Business service (`internal/biz`) | orders, refunds, tickets, service orders, resources, roles, status log | transitions, refund, audit, access, whitelist, assign | read, decide, write, log as four statements | the log is the history; one refund; access was allowed | `Biz*` |
| Workbench (`internal/workbench`) | projects, to-dos, notifications, places | create, toggle, seed | read, then write; failed seeding | toggles count; places differ | `Workbench` |
| HLS cache, preemptive jobs (`storage/transcode_hls.go`, `_preempt.go`, `_cleaner.go`) | segments, playlists | unreachable | | | none |
| Presigned uploads, WebSocket hub, key set cache, WebDAV, mail, settings, command line tools | | | | | none, see section 5 |

Interactions: handlers call storage and the tables directly and Redis through
`RedisCache`; the batch writer and the disk workers are goroutines fed by channels; the
only callbacks are deferred calls (`Unlock`); the timers are Redis TTLs, the watchdog, the
ticker of the batch writer, the cleanup of transcoding jobs and of the trash. The services
share one database; the workbench has its own. The clients see the server through HTTP.

## 2. The modules

| Module | Models |
|---|---|
| `UploadSpec` | abstract: chunks are stored, a file is published only when all are, nothing is undone |
| `SqliteUpload` | init, chunk and completion requests of one session without Redis; implements `UploadSpec` |
| `RedisUpload` | the same with Redis, the write pool, expiry, failover, health, crash; implements `UploadSpec` |
| `AsyncWriteQueue` | the batch writer of `db.go` |
| `SharedBlobs` | rows that share a file: create, instant upload, save share, edit, trash, purge, cleanup |
| `Transcode` | requests, job table, queue, worker, encoder and timers of one video in one quality |
| `FileRows` | the files table, the set of names, and the statements on them |
| `FileUploads`, `FileMoves`, `FileShares` | the requests that insert rows; that rename, move, delete, restore, with spaces; links |
| `Files` | composes the three over `FileRows`, with crash and restart |
| `AuthTokens` ← `AuthAccounts` ← `AccessTokens` | refresh tokens, SSO and codes; the account; personal access tokens, quota, administrator |
| `Auth` | composes them, with a crash |
| `Migrate` | the start of services on a new or old database |
| `TransferServer` | what clients see of sessions and rows: one handler, one step |
| `DesktopSync`, `BrowserUpload` | the two clients |
| `Transfer` | composes clients and server: edits, lost answers, pauses, retries |
| `BizRequests` ← `BizOrders`, `BizServices`, `BizResources`; `Workbench` | the requests of the business service by area; the workbench |
| `Biz` | composes them |
| `SqliteUploadProofs`, `RedisUploadProofs`, `TranscodeProofs`, `FilesProofs`, `AuthProofs`, `BizProofs` | theorems about the module of that name |
| `StoreProofs` | theorems about `AsyncWriteQueue` and `Migrate`, the two of package `internal/store` |
| `ContentProofs` | theorems about `SharedBlobs` and `Transfer`: where the content of a file ends up |
| `MC*` | model values, plans of requests, symmetry (none where liveness is checked) |

State and code:

* `session`, `chunks`, `files`, `row`, `status`, `code`, `pat`... are columns of the
  tables, named in a comment beside each variable. `pc`, `up`, `co`, `dpc`, `bpc` are the
  points of a handler or client between two accesses to a store; a step is one statement,
  one Redis command or one system call. `idx`, `tgt`, `todo`, `cur`, `seen`, `context` are
  local variables of a request, so what it has read may be stale when it is used.
* Where a statement may fail, `Fails` counts it against a bound and `Works` is the other
  case; whether the handler looks at the error is in the action.
* A row, session, token or code is named by the request that made it, so nothing is
  generated at random; `Past` names what was there before.
* `chunkFile[i]` is `"absent"`, `"full"`, or the request that has truncated the file and
  not written it. `blob[k]` is what completion k has copied so far: a chunk is `"torn"`
  when its file was truncated at that moment.
* In `Transcode` a job object is named by the request that stored it; the table, a
  handler and the worker refer to it separately, as the pointers of the code do.
* In `TransferServer` a version of the file is a sequence of blocks, and a session's key
  is the hash it was opened with: of the whole file (desktop) or of its head (page).
* Variables after the comment "history" are read by properties only. Most properties are
  of the form "this happens only if one of the named things happened", since the code
  promises nothing absolute: the history says whether one of them did.
* A crash ends every request and goroutine, and keeps the tables, Redis and the disk.

Abstractions, named:

* One session per instance of the upload modules; sessions interact in `Files`. The wait
  group of the write pool (`local.go:23`) is shared by all sessions, so a completion also
  waits for the writes of others: `CompletionAnswered` has those of its own only. All
  requests for a chunk carry the same data there; different versions are in `Transfer`.
* `os.RemoveAll` of the chunk directory is one step, as is the write of one chunk.
* No step of an upload on the Redis path reads the rows that `AsyncSaveChunk` queues, so
  `RedisUpload` leaves them to `AsyncWriteQueue`.
* `SharedBlobs` leaves out names, spaces and quotas; `Files` leaves out contents, but for
  "the same content as row x". `Files` has one user, whose rows are all there are. Saving
  a share takes one file per request.
* `Files` completes one session at a time (the lock of `RedisUpload`); `AccessTokens` has
  the server without Redis, where two completions of one session may overlap and charge.
* `Auth` has one user and one address. Credentials that expired or belong to another
  client are refused like missing ones, so a request may be refused whenever it shows
  something.
* `Migrate` tells apart the columns that migrations add and the tables they are in. A
  SQLite file is opened by one service.
* In `Transfer` a request is one step on the server, whose own races are the business of
  the other modules; two rows of one second are ordered by insertion. The answer "rename"
  of the conflict dialog is left out: it is an upload of another name. `u.cfg` is read
  without a lock in the client; a read returns the old or the new strategy.
* `Transcode` has one video, in object storage, and one quality. The delays of the cleanup
  timers (5 and 30 minutes) are arbitrary. A crash takes ffmpeg along.
* In `Biz` the status log, refunds and the whitelist matter; the counters of a resource's
  downloads and its log are modelled and no property is about them.

## 3. The runs

| Run | Question | Properties |
|---|---|---|
| `sqlite_upload` | are rows, chunk files, records and session consistent with crashes, failing writes and an index out of range? | `RowsBacked`, `RecordsWhole`, `TornExplained`, `CompletedHasRecord`, `ImplementsUpload` |
| `redis_upload` | with every fault: only whole files published, every started completion answered; while Redis and the server keep going: answered chunks intact | `AnsweredThenIntact`, `ImplementsUpload`, `CompletionAnswered` |
| `redis_once` | two requests that open the session, two completions, keys and a lock that expire, a status that is not written: is there one record but for the named slips? | `OneRecordPerSession` |
| `redis_repeat` | is a chunk that is answered "already received" on disk? (upload_chunk.go:44): violated | `RepeatIsStored` |
| `async_queue` | which jobs can be lost, when are a record and its status written apart, is every job settled? | `LossExplained`, `SplitExplained`, `EveryJobSettled` |
| `shared_blobs` | when does a row have no file, and a file no row? | `DanglingExplained`, `OrphanExplained` |
| `transcode` | are waiting clients answered, sources kept, partial outputs hidden, which jobs are lost? | `DoneIsWhole`, `SourceKept`, `PendingHonoured`, `PollingEnds` |
| `files` | when do two live rows share a name, a name stay marked without a row, rows remain in a deleted space, a counter differ from the visits? | `DuplicatesExplained`, `GhostExplained`, `StrandedExplained`, `CountExplained` |
| `auth` | is a code redeemed once, a session ended once, an older session gone after a reset, an activation token single, a quota kept? | `CodeOnce`, `EndedOnceExplained`, `ResetRevokes`, `ActivationExplained`, `QuotaExplained` |
| `migrate` | is a running service's schema whole, are indexes there, rows homed, do services come up? | `SchemaExplained`, `IndexExplained`, `OwnersHomed`, `Starts` |
| `transfer` | is a file reported done stored, what does a sync leave out, does a task that is shown running run, does done stay done? | `DoneExplained`, `SyncedExplained`, `ShownRuns`, `DoneStays` |
| `biz` | does the log tell the row's history, do two refunds of an order wait for an audit, was access allowed, do toggles count, do places differ? | `TrailFaithful`, `RefundsExplained`, `AccessExplained`, `TogglesExplained`, `PlacesExplained` |

All hold but `redis_repeat`, which checks a comment of the code, quoted in `PROJECT.json`
under "findings"; TLC's counterexample is an execution of the code.

Every property of a passing run has a mutant in `PROJECT.json`: a variant of a mapped
definition, kept before it in its module, with which TLC finds the property violated.

### Bounds and why they are enough

* Two chunks are the least for which a count can reach the total with a chunk missing;
  one index beyond the range (`Index = {0,1,2}`) gives the wrong count. Three chunk
  requests are two for one chunk and one for the other, the least for a repetition beside
  a completion; two completions are the least for an overlap.
* A queue of one and two workers make the queue full, put two workers in the directory
  cache, and let a request write for itself. `redis_upload` has every fault with one
  completion. `redis_once` has two, with one chunk and one worker, so that two requests
  are enough to send every chunk again after the first completion, and a second
  `InitUpload`, whose reading and caching may surround a completion. Two completions with
  crashes and an unhealthy Redis are left to the theorems, which have every fault at once.
* Three jobs, a channel of one and batches of two let a batch of two fail while the
  channel is full and a third job is refused.
* Three requests on one seed file let a copy, an edit and a purge meet, with the cleanup
  at startup after a crash; inserts, counts, writes and removals may fail each time.
* Three requests and one retry let one request create a transcoding job and two retry it
  after a failure, or two find its output missing.
* `files`: every pair of seventeen kinds of requests, and the triples that need each other
  (a session, its completion and a third; a link, its use and a third; a space), on a live
  file beside a directory or on a file in the trash, with one failing statement and one
  crash. A look that fails and a write that races are each one event, so one fault
  suffices for each reason named in a property.
* `auth`: every three requests out of the session endpoints, out of the account endpoints,
  and out of the token endpoints, with one session, code, token and upload of the past.
  Two exchanges and the authorization that made the code, or a reset and two logins, are
  three. The account is new, pending, active or disabled.
* `migrate`: two services on MySQL, either of two on SQLite, five releases of the schema
  with or without the tables a later release made, two faults: one to stop a service
  between two statements and one to stop its next start.
* `transfer`: three versions, of which two have one head and two one size; one task with
  two runs and a fault; one call with two faults, two calls with one, or two clients
  without. One edit or change of the strategy.
* `biz`: one request makes the row, three act on it: two that overlap and one that reads
  or audits. One statement fails, or one crash comes: each breaks one log, or lets one
  order be refunded again.
* `CHECK_DEADLOCK FALSE`: the instances have finitely many requests and stop when all are
  answered. That completions, jobs, polls and starts come to an end is checked as liveness.

### Fairness

* `redis_upload`: weak fairness for every goroutine that has started (a request past its
  first step, a disk write in progress, a pool worker taking a job): the Go scheduler runs
  runnable goroutines. Nothing makes a client send a request, so first steps are not fair,
  and no fault is fair.
* `async_queue`: weak fairness for the goroutine of the queue, strong fairness for a caller
  that writes for itself, since `database/sql` with one connection serves waiting callers
  in the order of their requests; weak fairness is too little when the transaction takes
  the connection again and again.
* `transcode`: weak fairness for requests that have started, for the worker (so ffmpeg
  ends) and for the timers.
* `migrate`: weak fairness for the steps of a service, its start among them: a service
  manager starts a service again that has exited (README.md:948 `Restart=on-failure`,
  docker-compose.yml:30 `restart: unless-stopped`). Faults are bounded and not fair.

### What the models contain and a reader may not expect

Uploads and blobs:

* On the SQLite path two overlapping completions both find the session open and both
  insert a row (`upload_complete.go:191`); a repeated chunk truncates a chunk file that is
  being copied, so half a chunk ends in the record, although README.md:1375 calls repeated
  chunks safe: `TornExplained` names that overlap and an index out of range.
* With Redis the lock of a completion expires after 30 s and is not renewed
  (`rediscache.go:636`), so two completions make two records, although
  doc/filesync-api-documentation.md:594 promises that the lock refuses one. That is the
  first of four slips which `OneRecordPerSession` names (`Slip`). The others: a completion
  that has made its record dies, or finds Redis unhealthy, before it has deleted the keys;
  its update of the status fails, so a chunk request brings the session back; or it deletes
  the keys while an `InitUpload` (`upload_init.go:161`) or a chunk request
  (`upload_chunk.go:55`), which has read the session as active, has yet to cache it or to
  mark its chunk: what is sent again then fills a new bitmap, and `CompleteUpload` never
  looks at the status.
* The bit of a chunk is set before the chunk is queued (`upload_chunk.go:42`), so after a
  crash a session reports chunks that were never written. While Redis is unhealthy a
  completion is answered with an error, not on the SQLite path that the comment at
  `rediscache.go:262` names.
* Between the reference count of zero and the removal of the file an instant upload
  inserts a row for it (`trash.go:220` calls the removal safe). An edit of a file that
  several rows share changes all of them (`upload_check.go:20` calls them independent),
  and an edit whose row was purged meanwhile creates the file again. A file whose removal
  fails, and a text file that could not be written, stay without a row: `OrphanExplained`
  collects these reasons in `kept`.
* `Close` leaves the jobs that are still in the channel unwritten (`db.go:104`; the comment
  at `:106` says they are flushed): `LossExplained` names them
  (`Abandoned`), and they are pending no longer once the goroutine has ended. And
  `AsyncCreateFileAndStatus` falls back to two separate writes when the channel is full.
  Of the producers, handlers call `AsyncSaveChunk` alone today, so
  `SplitExplained` is about an interface nobody uses yet.

Names, spaces, shares:

* The agent's tools neither check nor charge a token's quota, nor touch the set of names.
  A hit in the set without a row in the space is a conflict all the same
  (`upload_init.go:103` says otherwise).
* Saving a share takes an empty space as it comes; the row is homed by the migration at
  the next start, perhaps beside a row of its name.
* A download is counted before the file is looked for, `max_downloads` is enforced
  nowhere, and an upload does not check that its space exists.

Tokens and accounts:

* Access tokens are never blacklisted, and they and codes outlive a password reset;
  `ResetRevokes` excludes what was made from them. A reset by an administrator
  (`admin.go`) ends no session at all. The status of a user is consulted by login, by
  forgotten passwords and for a personal access token, not by refresh or authorize; a
  disabled account is activated again by an old activation mail, or by a new one, which
  `Register` and `ResendActivation` send to whoever is not active
  (`auth_service.go:267`, `:347`). At startup `cmd/server` deletes expired activation tokens
  (`main.go:252`, in the crash of `Auth`) and expired reset codes, which are refused like
  missing ones anyway. A reset code shown by two requests at once changes the password twice.
* A comment at `oauth_service.go:240` says client credentials get no refresh token;
  `IssueTokenPair` stores a refresh session for them.
* A personal access token whose user cannot be read is let in (`jwt_gateway.go:126`).
* `pat_quota.go:47` speaks of at most one extra write. Uploads are checked when they begin
  and charged when they are completed, by then perhaps to another token, or twice, or for
  a row that was not inserted, so any number may overdraw. A resumed session keeps its
  first admission, and editing a text neither checks nor charges.

Transcoding:

* A cleanup timer deletes the entry of its key whatever job is there by then
  (`thumbnail.go:479`); so does a request that finds an output missing (`:404`), and a
  request may retry a job that has just left the table (`:412`). The queued request then
  finds no job and is skipped, although its client was told "pending": the client polls
  "not_started" and has to start again. `PendingHonoured` names these cases.
* A handler whose job was already pending leaves its copy of the video behind
  (`preview_transcode.go:98`).
* `main.go:322` says that `S3Storage` implements `TranscodeCacheStore`; it does not, so
  the HLS cache, the preemptive worker and the cleaner are never active.

Migrations:

* A SQLite file of a release without owners, spaces or the trash never opens: the indexes
  on the new columns (`migrate.go:216`) come before the migrations that add the columns,
  against the comments at `migrate.go:418` and `:506`. The second half of `Starts` states it.
* An index that is made with its column is lost for ever if the service exits between the
  two statements, the unique one on `users.email` among them; on SQLite that one is never
  made, though `migrate.go:494` says it is declared with the table.
* An error of the query for the table of clients counts as its absence
  (`oauth_repo.go:156`), and `rows.Err()` is not asked after the columns are listed, so a
  lost connection looks like a table with fewer columns.
* `server` makes the administrator and then the tables of the clients, `auth-svc` the other
  way round; two first starts may race on the administrator and one of them exits.

Clients:

* The page hashes the first 8 MB of a file and does not read a session's chunk size;
  the desktop client hashes all of it and computes offsets with its own chunk size. So
  sessions are fed with other versions or other chunk sizes, and `DoneExplained` and
  `SyncedExplained` name these sessions.
* With Redis a completed session reports no chunks, and a late chunk of a completed
  session is refused.
* `DiffFiles` compares sizes only, with the oldest row of a name: edits that keep the size
  are never uploaded, and under "always_upload" a file that differs is uploaded by every
  sync. Two different kinds of error in one upload are a panic (`uploader.go:342`,
  `atomic.Value`) that ends the client.
* `_running` of an upload task (`app.js:615`, `:1030`, `:1067`) is never true, so pause and
  resume give a task two runs, against the comment at `:1066`. `resume()` asks for the flag `paused`
  and not for the status (`:1061`): a run that completes while the task is paused leaves it
  "done" with the flag set, and a resume takes it back to "uploading". A task cancelled
  while it is queued, or resumed after it was cancelled while paused, is shown "uploading"
  for ever; one that was paused, failed and is retried stays paused; a cancel after the
  last chunk still completes.
* Workers that wake from a pause each take a chunk, those that find none left too; they
  send the chunk "undefined" (`:778`), and the run fails after its retries. When the head of
  a file cannot be hashed, the page sends name and size for a hash (`:172`).
* Under "ask" a conflict ends `UploadFile` of the desktop client without an error
  (`uploader.go:366`); such calls answer "conflict" in the model, and `SyncedExplained` is
  not about them.

Business and workbench:

* Transitions of one row overlap, and the log then tells both as if from the old status.
  The log is a statement after the status, and
  when it fails the row has moved without it; `CreateRefund` drops the error of the order's
  move to refunding (`order.go:182`), after which the order can be refunded again. An audit
  pays a refund whatever its status, so `RefundsExplained` compares only refunds that wait
  for one. Two overlapping toggles count as one, and
  when seeding failed, places of rows collide later.

## 4. The proofs

`SqliteUploadProofs` proves about `SqliteUpload`, for any number of chunks, requests,
indexes and with or without failing writes, from `ConstantsAssumption` alone:

* `TypeCorrect`: `TypeOK`.
* `OnlyWholeFilesRecorded`: `RecordsWhole`. Not inductive by itself: `CreateFile` needs
  that a destination file never outgrows the chunks (`BlobsBounded`) and every later
  control point that it is whole (`PastAssembly`). Together they are `BlobInv`.
* `RowsAlwaysBacked`: `RowsBacked`. The row follows the chunk file: `WrittenBeforeRow`
  says that a request about to insert its row, or still writing, has its file in the
  directory; `ClosedBeforeRemoval` that a session is closed before its files go;
  `UnlinkedOnlyOpen` and `NothingBeforeSession` complete `RowInv`.
* `ClosedSessionsHaveRecords`: `CompletedHasRecord`, by `RecordedBeforeStatus`.
* `SqliteImplementsUpload`: the refinement of `UploadSpec`, whose `stored` is the set of
  chunk files present, or all chunks once a destination is whole. `StoreStep` covers the
  steps that leave destinations alone, `CopiedPresent` shows that when a destination
  becomes whole nothing it was made from has been missing, so `stored` never shrinks.
* `TornRecordsExplained`: `TornExplained`. A truncated file belongs to the one request
  about to write it (`TruncatedByWriter`). When a completion reads it torn, the count has
  let the completion pass, so either an index beyond the range was counted
  (`AllOrBeyond`), or the chunk already has a row, and with it a second request
  (`RowsReceived`). `TornExcused` keeps this for what was copied.

`RedisUploadProofs` proves about `RedisUpload`, for any number of requests, chunks,
workers and places in the queue, from `ConstantsAssumption` alone:

* `RedisTypeCorrect`: the types of the variables the other theorems are about.
* `RedisImplementsUpload`: the refinement of `UploadSpec`, whatever `Faults` holds, again
  by `BlobInv` and `StoreStep`. A lost key, a crash or a second completion may tear a
  chunk or record a file twice, but never publishes a file that lacks one.
* `RecordedOnce`: `OneRecordPerSession`, with every fault. The lock alone is not the
  reason, since its key is deleted with the session's. Until `slipped`: while the session
  is open or a completion has yet to delete the keys, the lock belongs to the one under way
  (`Guarded`); afterwards (`Forgotten`) no key is set, nobody is about to set one, and the
  fallback of a chunk request finds the session completed (`Emptied`), so no other
  completion gets past the count. Each disjunct of `Slip` ends one of these facts.
* `AnsweredIsIntact`: `AnsweredThenIntact`, as long as `Environment` does nothing and
  nothing slips. The session's key is set until a completion deletes it, so no chunk
  request caches it again (`CalmInv`). A chunk is answered before it is written, so the
  argument goes through the wait group: its counter is the number of writes the pool owes
  (`WaitInv`, with `Cardinality` and the facts about finite sets); a bit has one writer (`Owned`); a completion sent after every answer finds every
  bit set (`AllMarked`) and, once the counter was zero, no writer left (`Settled`).

`AuthProofs` proves about `Auth`, for any requests, plans, quotas and faults, from
`AuthAssumption` and `QuotasAssumption`:

* `AuthTypeCorrect`: the types of the variables the other theorems are about.
* `CodeRedeemedOnce`: `CodeOnce`. An exchange that has marked the code holds it alone
  (`HeldOnce`) because a held code is used (`HeldUsed`), and a used code is never marked.
* `SessionEndedOnce`: `EndedOnceExplained`. What was ended stays revoked, and whoever is
  past the check of a session that was ended counts as racing (`NoneRotating`).
* `QuotaOverdrawnByOutdated`: `QuotaExplained`. A copy of a token's row has the row's quota
  (`CopiesTrue`), and every open session and every file about to be charged was admitted
  on such a copy (`OpenAdmitted`, `ChargeAdmitted`); what was charged since the copy is in
  `outdated`.
* `ResetEndsOldSessions`: `ResetRevokes`. The invariant `ResetInv` says it of each stage of
  the reset: after `revokeAll` of every live session of an older password (`SessionsEnd`),
  after `unssoAll` of every SSO session (`SignOnEnds`), and from the new password on of
  every request about to issue something on an older one (`MakersLate`). Those left go
  back, by any number of exchanges and rotations, to a request that ran during the reset
  or was shown an access token or a code. "Go back" is a closure, so the proof is over
  closed sets of artefacts (`Tainted`) and needs no induction over the chain.
* `ActivationTokensMatch`: `ActivationExplained`. As long as nothing failed and no two
  requests overlapped on the account, at most one works on it (`Single`), the account and
  its tokens are as far as that request has brought them (`Progress`), and in between
  they match (`Settled`).

`Auth` has 48 actions, most of which touch none of this: `StepsAside` and
`StepsAsideTokens` say once which steps may change sessions, codes and tokens, and the
invariants are then shown over those steps only.

`StoreProofs` proves about `AsyncWriteQueue`, for any jobs, sizes of the channel and of the
batch, and with or without failing statements, from `ConstantsAssumption`:

* `QueueTypeCorrect`: `QueueTypeOK`, and where the writer stands in its batch (`BatchInv`).
* `LossesExplained`: `LossExplained`. A job leaves the channel for the batch only, and is
  abandoned there if the goroutine ends. The transaction holds what was executed of the batch
  (`TxInv`), so a commit leaves out nothing; after a rollback every job of the batch is
  written again one by one, or named as dropped (`RedoInv`).
* `SplitsExplained`: `SplitExplained`. A transaction holds both statements of a pair or is
  between the two, so only the writes outside a transaction can separate them.

It proves about `Migrate`, for any services, duties, databases found, users, files and
faults, from `MigrateAssumption` (the dialects are two, `Admin` is a new user, `MaxFaults`
is a number):

* `MigrateTypeCorrect`: `TypeOK`, and `ListInv`: a service is at a table or a migration of
  its lists, with columns still to add of that migration only.
* `SchemaIsExplained`: `SchemaExplained`. Every table a service is past, and every column
  of every migration it is past, is there (`SchemaInv`), and stays there because no
  statement of any service takes anything away (`SchemaGrows`); the columns of the clients
  wait for their table, which comes with them, or were passed over after a failed look-up.
* `IndexIsExplained`: `IndexExplained`, with `OwedInv`: who has the column of an index of
  its own still to add has noted the index. It then owes the index from the moment the
  column exists until it has made it, given up or ended.
* `OwnersAreHomed`: `OwnersHomed`. A file keeps its owner and gets the default space only
  if it had none (`FilesInv`), and a service past the assignment has left no file without
  a space and has gone through every user it listed (`HomesInv`), although other services
  still run the same statements.
* `NeverOpens`: on a SQLite database with a table of files but not its indexed columns, no
  service is ever up, whoever starts and fails how often (`StuckInv`: no one gets past
  the second table). This is the second half of `Starts`.

`ContentProofs` proves about `SharedBlobs`, for any requests, files of the past,
contents and faults, from `ConstantsAssumption`:

* `BlobTypeCorrect`: `TypeOK`, and that a handler is only at points of its own code.
* `DanglingRowsAreLate`: `DanglingExplained`. Nobody knows a file before its row exists
  (`FreshInv`); whoever is about to remove a file has counted no row, so every row that
  refers to it by then was made after the count (`LateInv`).
* `OrphansAreExplained`: `OrphanExplained`. Whatever fails, every file has a row, or a
  process that has yet to count, to remove it or to insert its row (`Due`), or is in `kept`
  (`CareInv`).

It proves about `Transfer`, for any calls and tasks, scenes, chunk sizes, faults and
versions of the file, from `TransferAssumption` (a version is a non-empty sequence of blocks, the
bounds are numbers), `DesktopAssumption` and `BrowserAssumption` (chunk sizes are not 0):

* `TransferTypeCorrect`: the types, and `ServerInv`: every chunk of a session is a piece of
  a version that some client known to the session sent, cut with its own chunk size.
* `DoneIsExplained`: `DoneExplained`. A task that has a session is among the clients the
  session knows (`TaskOK`); if all of them sent one version with the session's chunk size,
  a completed session's pieces make that version (`PiecesMakeWhole`, about the operators
  for all sizes: the chunk count covers the file, and the pieces laid end to end are the
  file), and its row is kept. Otherwise the session is mixed, and stays as it is.
* `SyncedIsExplained`: `SyncedExplained`. As long as nobody edits the file, what a call has
  looked at, what it has hashed and what is on the disk are the same (`CallOK`), whatever
  goroutine of whichever call fails.
* `RunsAreShown`: `ShownRuns`, and `DoneStaysDone`: the action property `DoneStays`. A task
  that has not started has no run, is not paused and not done; unless two runs of it were
  noted it has one at most, and none once it is done (`TaskOK`), and then only the pause
  flag that was still set lets a resume start another. `RunEffect` and
  `UserEffect` say once what a step may do to a task.

`TranscodeProofs` proves about `Transcode`, for any requests, limit of retries and faults,
from `ConstantsAssumption`:

* `TranscodeTypeCorrect`: `TypeOK`, and that whoever uses a job has one (`JobInv`).
* `OutputIsWhole`: `DoneIsWhole`. A whole output and the status "done" come only from an
  encoding that ended (`WholeInv`).
* `SourcesKept`: `SourceKept`. A request is queued at most once, and only when its answer
  has left the source to the worker (`SourceInv`).
* `WaitingHonoured`: `PendingHonoured`. Until a live job leaves the table or the server
  crashes, who waits does so for a live job (`WaitsForLive`), which is in the table or
  with the worker (`LiveInTable`), and for which some handler, queue entry or the worker
  still has a step to take (`LiveCarried`). When the server is quiet there is none.

`FilesProofs` proves about `Files`, for any requests, names, spaces, initial tables, quota
and faults, from `RowsAssumption` (finitely many requests and rows of the past):

* `FilesTypeCorrect`: `BaseInv`, the types and `FreshInv`: a request makes one row, which
  exists only once the request is past its insert.
* `GhostsAreExplained`: `GhostExplained`. Each step accounts for the names it leaves in the
  set: it marks a name that has a row, or is noted in `excused` (`Accounts`); a step that
  takes the last row of a name is on its way to remove the name (`DropNames`), and one
  that takes none leaves it explained (`NamesStay`).
* `SpacesAreEmptied`: the action property `StrandedExplained`. A request about to drop a
  space was told that it holds no row, or its count failed (`StrandInv`). That a count of
  zero means no row needs that the rows are finite.
* `CountsMatchVisits`: `CountExplained`. For every link, deleted ones too, the counter, the
  increments that failed and the downloads between visit and counter add up to the
  visitors entered (`CountInv`).
* `DuplicatesAreExplained`: the action property `DuplicatesExplained`. From its look to its
  write, a request that neither failed to look nor writes regardless has seen no live row
  at the place it writes to (`Clear`), or only the one it copies or replaces (`Over`):
  `CheckedInv`. An open session keeps the name and space its `InitUpload` looked for, and
  the rows a rename or a restore works on stay in their space (`PlacedInv`). `RowSteps`
  says once what a step can do to the table (insert, rename, drop, restore or purge), and
  each case then yields the excuse the property names.

`BizProofs` proves about `Biz`, for any users, roles, plans, requests and faults, from
`RequestsAssumption` and `PlansAssumption`:

* `BizTypeCorrect`: `TypeOK`.
* `TrailIsHistory`: `TrailFaithful`. Unless transitions of a row overlapped or a record was
  not inserted, at most one request is in flight on it; before its write it holds the status
  the log ends with, between write and log it holds the step the log lacks (`TrailInv`).
* `OneRefundWaits`: `RefundsExplained`. Of two requests past the check for one order, one
  rushed in before the order was moved, or the order has left "refunding" since, or never
  came to it (`RefundInv`).
* `AccessWasAllowed`: `AccessExplained`. A download that was never entitled has passed each
  of its two checks at a moment when it held, so row and list both changed (`AccessInv`).
* `TogglesCount`: `TogglesExplained`. What a toggle has read is the flag, unless another
  overlaps it (`ToggleInv`).
* `PlacesDiffer`: `PlacesExplained`. No place exceeds the row's rank, so the maximum that
  `NextPos` takes exists and is free (`PlaceInv`).

Each lemma shows one invariant preserved, action by action; the theorems combine it with
the initial condition by `PTL`. Every named invariant above that TLC can evaluate at the
bounds of section 3 was checked there before it was proved.

What the proofs corrected in the models: `Transcode` counted a request as settled when
any job ended, now only when its own does (`Settle`); `Auth` followed what a session was
made from for three generations, now for any number (`Lineage`); the initial tables of
`FileRows` had no type (`TableRow`); `BizResources.CheckRow` and
`TransferServer.CheckAnswer` had a CASE whose guards overlap; `Migrate.Upgradable` asked
whether the database was empty, where the code stumbles over the table of files; chunk
sizes of the clients had no assumption. The columns a service of `Migrate` still has to
add are a set, taken in the order of the list (`Foremost`), no longer a sequence.

Only model-checked: liveness (`CompletionAnswered`, `EveryJobSettled`, `PollingEnds`, and
the first half of `Starts`), which this prover cannot treat (no ENABLED, no fairness).
What a recursive definition computes is out of its reach too; the one recursion proved
about, `FlattenSeq` in `PiecesMakeWhole`, is a recursive function of the library, and a
least counterexample stands there in the place of induction.

## 5. Not modelled

* Presigned uploads and the object store. The page turns the storage s3 into local before
  it uploads and the desktop client never asks for it; what remains rests on the object
  store's own multipart protocol. Editing the text of a file in the object store, which
  writes to a local path (`file_text.go:196`), goes with it.
* HLS cache, preemptive transcoding and cleaner: unreachable, see above.
* Rate limits, password hashing, mail, profiles, `last_used_at`, a token's path and space
  limits, passwords and expiry of links: compared in one place and changed in none, or
  external.
* The WebSocket hub (a mutex around a set), the cached key set (replaced as a whole under
  a mutex, and refetched when an hour old), WebDAV (a library over a directory of its own),
  settings, statistics, listing, searching, previews, thumbnails, archives: single
  statements or reads, or caches of what can be made again.
* Command line client, benchmark and `migrate-s3`: one-shot programs.

What would come next: presigned completion with the object store as an external module,
and the liveness properties with a prover that treats fairness.
