----------------------------- MODULE Transcode ------------------------------
(***************************************************************************)
(* Transcoding one video to one quality: requests that find, start or      *)
(* retry the job (internal/handler/preview_transcode.go, preview_hls.go,   *)
(* StartTranscodeJob), the queue with its single worker                    *)
(* (transcode_queue.go), the encoder (GenerateTranscode) and the timers    *)
(* that clean the job table.                                               *)
(*                                                                         *)
(* The video is in object storage, so that every request downloads it to a *)
(* temporary file of its own; a local video differs in having none.  No    *)
(* type of the repository implements TranscodeCacheStore, so cacheStore is *)
(* nil: the output is one local MP4 file, nothing is queued with low       *)
(* priority, and the queue is first in, first out.  GenerateTranscode has  *)
(* one caller, the worker, so its locks are never contended.               *)
(***************************************************************************)
EXTENDS Naturals, Sequences, FiniteSets, SequencesExt

CONSTANTS Request,    \* the HTTP requests for this video and quality
          MaxRetry,   \* transcodeJobMaxRetry
          None,       \* no job in the table, no request with the worker
          Faults      \* a subset of FaultKinds

FaultKinds == {"download",  \* the source cannot be fetched
               "ffmpeg",    \* ffmpeg is missing or fails
               "rename",    \* the output cannot be renamed
               "purge",     \* somebody removes the output
               "crash"}     \* the process dies and restarts

ASSUME ConstantsAssumption ==
    /\ MaxRetry \in Nat
    /\ None \notin Request
    /\ Faults \subseteq FaultKinds

VARIABLES
    pc,       \* where each request is
    reply,    \* what it answers
    jb,       \* its local variable job
    seen,     \* the RetryCount it has read
    tmp,      \* the requests whose temporary source file exists
    \* Job objects are named by the request that stored them.
    table,    \* transcodeJobs: the job under the key, or None
    status,   \* Status of each job
    retries,  \* RetryCount of each job
    timers,   \* cleanups scheduled and not yet fired, by who scheduled them
    queue,    \* transcodeQueue: requests whose transcodeRequest is queued
    wpc,      \* where the worker is
    cur,      \* the transcodeRequest it executes
    wjob,     \* the job it has loaded
    part,     \* the .part.mp4 file
    dst,      \* the transcoded file
    \* history
    queued,   \* requests that have been queued
    settled,  \* requests whose job has ended since they joined it
    made,     \* has the transcoded file ever been completed?
    cut,      \* was a job ever live and not in the table?
    crashed

requestVars == <<pc, reply, jb, seen>>
workerVars == <<wpc, cur, wjob>>
fileVars == <<part, dst>>
vars == <<requestVars, tmp, table, status, retries, timers, queue, workerVars,
          fileVars, queued, settled, made, cut, crashed>>

Init ==
    /\ pc = [r \in Request |-> "idle"]
    /\ reply = [r \in Request |-> "none"]
    /\ jb = [r \in Request |-> None]
    /\ seen = [r \in Request |-> 0]
    /\ tmp = {}
    /\ table = None
    /\ status = [r \in Request |-> "pending"]
    /\ retries = [r \in Request |-> 0]
    /\ timers = {}
    /\ queue = <<>>
    /\ wpc = "wait" /\ cur = None /\ wjob = None
    /\ part = "absent" /\ dst = "absent"
    /\ queued = {} /\ settled = {}
    /\ made = FALSE /\ cut = FALSE /\ crashed = FALSE

Running(r) == pc[r] \notin {"idle", "done"}
Live(j) == j # None /\ status[j] \in {"pending", "running"}
TranscodeExists == dst # "absent"

Goto(r, s) == pc' = [pc EXCEPT ![r] = s]
Return(r, s) ==  \* StartTranscodeJob returns s to the handler
    reply' = [reply EXCEPT ![r] = s] /\ Goto(r, "answer")

(* The requests that have joined a job, and will not look for one again. *)
Joined == {r \in Request :
             \/ pc[r] \in {"cache", "cached", "enqueue"}
             \/ pc[r] \in {"answer", "done"} /\ reply[r] \in {"pending", "running"}}
Settle(j) == settled' = settled \cup {r \in Joined : jb[r] = j}
-----------------------------------------------------------------------------
(* Mutations: plausible mistakes that the properties must notice.           *)

(* a retried job is answered before it is queued again *)
ResetReturning(r) ==
    /\ pc[r] = "reset"
    /\ status' = [status EXCEPT ![jb[r]] = "pending"]
    /\ cut' = (cut \/ jb[r] # table)
    /\ Return(r, "pending")
    /\ UNCHANGED <<jb, seen, tmp, table, retries, timers, queue, workerVars, fileVars,
                   queued, settled, made, crashed>>

(* the handler always removes its temporary file *)
AnswerRemoving(r) ==
    /\ pc[r] = "answer"
    /\ tmp' = tmp \ {r}
    /\ Goto(r, "done")
    /\ UNCHANGED <<reply, jb, seen, table, status, retries, timers, queue, workerVars,
                   fileVars, queued, settled, made, cut, crashed>>

(* ffmpeg writes its output in place *)
StartFfmpegInPlace ==
    /\ wpc = "ffmpeg"
    /\ dst' = "torn"
    /\ wpc' = "encode"
    /\ UNCHANGED <<requestVars, tmp, table, status, retries, timers, queue, cur, wjob,
                   part, queued, settled, made, cut, crashed>>

(* a .part file is taken for a transcoding in progress *)
CheckCacheAndPart(r) ==
    /\ pc[r] = "cache"
    /\ IF part # "absent"
       THEN Return(r, "pending")
       ELSE /\ Goto(r, IF TranscodeExists THEN "cached" ELSE "enqueue")
            /\ UNCHANGED reply
    /\ UNCHANGED <<jb, seen, tmp, table, status, retries, timers, queue, workerVars,
                   fileVars, queued, settled, made, cut, crashed>>

-----------------------------------------------------------------------------
(* serveTranscode: an output that exists is streamed, or the source is      *)
(* needed.                                                                  *)
ServeTranscode(r) ==
    /\ pc[r] = "idle"
    /\ IF TranscodeExists
       THEN reply' = [reply EXCEPT ![r] = "file"] /\ Goto(r, "done")
       ELSE Goto(r, "source") /\ UNCHANGED reply
    /\ UNCHANGED <<jb, seen, tmp, table, status, retries, timers, queue, workerVars,
                   fileVars, queued, settled, made, cut, crashed>>

(* serveHLSPlaylist: no playlist is ever made, so the MP4 output is not     *)
(* looked for and the job is started.                                       *)
ServeHLSPlaylist(r) ==
    /\ pc[r] = "idle"
    /\ Goto(r, "source")
    /\ UNCHANGED <<reply, jb, seen, tmp, table, status, retries, timers, queue,
                   workerVars, fileVars, queued, settled, made, cut, crashed>>

(* resolveLocalSource: the download to a temporary file. *)
ResolveLocalSource(r) ==
    /\ pc[r] = "source"
    /\ \/ /\ tmp' = tmp \cup {r}
          /\ Goto(r, "load")
          /\ UNCHANGED reply
       \/ /\ "download" \in Faults
          /\ reply' = [reply EXCEPT ![r] = "error"]
          /\ Goto(r, "done")
          /\ UNCHANGED tmp
    /\ UNCHANGED <<jb, seen, table, status, retries, timers, queue, workerVars,
                   fileVars, queued, settled, made, cut, crashed>>
-----------------------------------------------------------------------------
(* StartTranscodeJob: the placeholder is stored unless there is a job. *)
LoadOrStore(r) ==
    /\ pc[r] = "load"
    /\ IF table = None
       THEN /\ table' = r
            /\ status' = [status EXCEPT ![r] = "pending"]
            /\ retries' = [retries EXCEPT ![r] = 0]
            /\ jb' = [jb EXCEPT ![r] = r]
            /\ Goto(r, "cache")
       ELSE /\ jb' = [jb EXCEPT ![r] = table]
            /\ Goto(r, "loaded")
            /\ UNCHANGED <<table, status, retries>>
    /\ UNCHANGED <<reply, seen, tmp, timers, queue, workerVars, fileVars, queued,
                   settled, made, cut, crashed>>

(* The switch on the job's status. *)
GetStatus(r) ==
    /\ pc[r] = "loaded"
    /\ LET s == status[jb[r]] IN
       \/ s \in {"pending", "running"} /\ Return(r, s)
       \/ s = "done" /\ Goto(r, "recheck") /\ UNCHANGED reply
       \/ s = "failed" /\ Goto(r, "limit") /\ UNCHANGED reply
    /\ UNCHANGED <<jb, seen, tmp, table, status, retries, timers, queue, workerVars,
                   fileVars, queued, settled, made, cut, crashed>>

(* A job that is done: its output may have been removed since. *)
RecheckCache(r) ==
    /\ pc[r] = "recheck"
    /\ IF TranscodeExists
       THEN Return(r, "done")
       ELSE Goto(r, "delete") /\ UNCHANGED reply
    /\ UNCHANGED <<jb, seen, tmp, table, status, retries, timers, queue, workerVars,
                   fileVars, queued, settled, made, cut, crashed>>

(* Then whatever is in the table is deleted, and the call starts again. *)
DeleteJob(r) ==
    /\ pc[r] = "delete"
    /\ table' = None
    /\ cut' = (cut \/ Live(table))
    /\ Goto(r, "load")
    /\ UNCHANGED <<reply, jb, seen, tmp, status, retries, timers, queue, workerVars,
                   fileVars, queued, settled, made, crashed>>

(* A job that has failed: RetryCount is read without a lock, *)
CheckRetries(r) ==
    /\ pc[r] = "limit"
    /\ IF retries[jb[r]] >= MaxRetry
       THEN Return(r, "failed") /\ UNCHANGED seen
       ELSE /\ seen' = [seen EXCEPT ![r] = retries[jb[r]]]
            /\ Goto(r, "count")
            /\ UNCHANGED reply
    /\ UNCHANGED <<jb, tmp, table, status, retries, timers, queue, workerVars, fileVars,
                   queued, settled, made, cut, crashed>>

(* and incremented: a data race, so the value read before may be reused. *)
CountRetry(r) ==
    /\ pc[r] = "count"
    /\ \E n \in {seen[r], retries[jb[r]]} :
         retries' = [retries EXCEPT ![jb[r]] = n + 1]
    /\ seen' = [seen EXCEPT ![r] = 0]
    /\ Goto(r, "reset")
    /\ UNCHANGED <<reply, jb, tmp, table, status, timers, queue, workerVars, fileVars,
                   queued, settled, made, cut, crashed>>

(* setStatusAndError(pending), of a job that need not be in the table or    *)
(* failed any more.                                                         *)
ResetJob(r) ==
    /\ pc[r] = "reset"
    /\ status' = [status EXCEPT ![jb[r]] = "pending"]
    /\ cut' = (cut \/ jb[r] # table)
    /\ Goto(r, "cache")
    /\ UNCHANGED <<reply, jb, seen, tmp, table, retries, timers, queue, workerVars,
                   fileVars, queued, settled, made, crashed>>

(* The request owns a pending job.  Is the output there by now? *)
CheckCache(r) ==
    /\ pc[r] = "cache"
    /\ Goto(r, IF TranscodeExists THEN "cached" ELSE "enqueue")
    /\ UNCHANGED <<reply, jb, seen, tmp, table, status, retries, timers, queue,
                   workerVars, fileVars, queued, settled, made, cut, crashed>>

FinishCached(r) ==
    /\ pc[r] = "cached"
    /\ status' = [status EXCEPT ![jb[r]] = "done"]
    /\ timers' = timers \cup {r}
    /\ Settle(jb[r])
    /\ Return(r, "done")
    /\ UNCHANGED <<jb, seen, tmp, table, retries, queue, workerVars, fileVars, queued,
                   made, cut, crashed>>

EnqueueTranscode(r) ==
    /\ pc[r] = "enqueue"
    /\ queue' = Append(queue, r)
    /\ queued' = queued \cup {r}
    /\ Return(r, "pending")
    /\ UNCHANGED <<jb, seen, tmp, table, status, retries, timers, workerVars, fileVars,
                   settled, made, cut, crashed>>

(* The handler: on "pending" the worker is trusted to remove the file. *)
Answer(r) ==
    /\ pc[r] = "answer"
    /\ tmp' = IF reply[r] = "pending" THEN tmp ELSE tmp \ {r}
    /\ Goto(r, "done")
    /\ UNCHANGED <<reply, jb, seen, table, status, retries, timers, queue, workerVars,
                   fileVars, queued, settled, made, cut, crashed>>
-----------------------------------------------------------------------------
(* transcodeWorkerLoop *)
Pop ==
    /\ wpc = "wait"
    /\ queue # <<>>
    /\ cur' = Head(queue)
    /\ queue' = Tail(queue)
    /\ wpc' = "load"
    /\ UNCHANGED <<requestVars, tmp, table, status, retries, timers, wjob, fileVars,
                   queued, settled, made, cut, crashed>>

(* executeTranscodeRequest: without a job the request is skipped. *)
LoadJob ==
    /\ wpc = "load"
    /\ IF table = None
       THEN wpc' = "wait" /\ cur' = None /\ tmp' = tmp \ {cur} /\ UNCHANGED wjob
       ELSE wjob' = table /\ wpc' = "start" /\ UNCHANGED <<cur, tmp>>
    /\ UNCHANGED <<requestVars, table, status, retries, timers, queue, fileVars, queued,
                   settled, made, cut, crashed>>

StartJob ==
    /\ wpc = "start"
    /\ status' = [status EXCEPT ![wjob] = "running"]
    /\ wpc' = "stat"
    /\ UNCHANGED <<requestVars, tmp, table, retries, timers, queue, cur, wjob, fileVars,
                   queued, settled, made, cut, crashed>>

(* GenerateTranscode: ffmpeg is looked for, then an output of an earlier    *)
(* run.                                                                     *)
StatOutput ==
    /\ wpc = "stat"
    /\ \/ wpc' = IF TranscodeExists THEN "succeed" ELSE "ffmpeg"
       \/ "ffmpeg" \in Faults /\ wpc' = "fail"
    /\ UNCHANGED <<requestVars, tmp, table, status, retries, timers, queue, cur, wjob,
                   fileVars, queued, settled, made, cut, crashed>>

StartFfmpeg ==
    /\ wpc = "ffmpeg"
    /\ part' = "torn"
    /\ wpc' = "encode"
    /\ UNCHANGED <<requestVars, tmp, table, status, retries, timers, queue, cur, wjob,
                   dst, queued, settled, made, cut, crashed>>

(* ffmpeg ends; it cannot succeed without its source. *)
EndFfmpeg ==
    /\ wpc = "encode"
    /\ \/ cur \in tmp /\ part' = "whole" /\ wpc' = "rename"
       \/ /\ "ffmpeg" \in Faults \/ cur \notin tmp
          /\ part' = "absent" /\ wpc' = "fail"
    /\ UNCHANGED <<requestVars, tmp, table, status, retries, timers, queue, cur, wjob,
                   dst, queued, settled, made, cut, crashed>>

Rename ==
    /\ wpc = "rename"
    /\ \/ dst' = part /\ made' = TRUE /\ wpc' = "succeed"
       \/ "rename" \in Faults /\ wpc' = "fail" /\ UNCHANGED <<dst, made>>
    /\ part' = "absent"
    /\ UNCHANGED <<requestVars, tmp, table, status, retries, timers, queue, cur, wjob,
                   queued, settled, cut, crashed>>

Succeed ==
    /\ wpc = "succeed"
    /\ status' = [status EXCEPT ![wjob] = "done"]
    /\ Settle(wjob)
    /\ wpc' = "cleanup"
    /\ UNCHANGED <<requestVars, tmp, table, retries, timers, queue, cur, wjob, fileVars,
                   queued, made, cut, crashed>>

Fail ==
    /\ wpc = "fail"
    /\ status' = [status EXCEPT ![wjob] = "failed"]
    /\ Settle(wjob)
    /\ wpc' = "cleanup"
    /\ UNCHANGED <<requestVars, tmp, table, retries, timers, queue, cur, wjob, fileVars,
                   queued, made, cut, crashed>>

(* scheduleJobCleanup, then the deferred removal of the source. *)
ScheduleCleanup ==
    /\ wpc = "cleanup"
    /\ timers' = timers \cup {cur}
    /\ tmp' = tmp \ {cur}
    /\ wpc' = "wait" /\ cur' = None /\ wjob' = None
    /\ UNCHANGED <<requestVars, table, status, retries, queue, fileVars, queued, settled,
                   made, cut, crashed>>
-----------------------------------------------------------------------------
(* The timer of scheduleJobCleanup deletes what is under the key by then.   *)
(* Its delay, 5 or 30 minutes, is any delay here.                           *)
CleanupTimer(r) ==
    /\ r \in timers
    /\ timers' = timers \ {r}
    /\ table' = None
    /\ cut' = (cut \/ Live(table))
    /\ UNCHANGED <<requestVars, tmp, status, retries, queue, workerVars, fileVars, queued,
                   settled, made, crashed>>

(* The output is removed from outside, as StartTranscodeJob expects. *)
Purge ==
    /\ "purge" \in Faults
    /\ TranscodeExists
    /\ dst' = "absent"
    /\ UNCHANGED <<requestVars, tmp, table, status, retries, timers, queue, workerVars,
                   part, queued, settled, made, cut, crashed>>

(* A restart loses everything but the files; ffmpeg goes with the server. *)
Crash ==
    /\ "crash" \in Faults
    /\ queue # <<>> \/ wpc # "wait" \/ table # None \/ \E r \in Request : Running(r)
    /\ pc' = [r \in Request |-> IF Running(r) THEN "done" ELSE pc[r]]
    /\ reply' = [r \in Request |-> IF Running(r) THEN "error" ELSE reply[r]]
    /\ jb' = [r \in Request |-> None]
    /\ seen' = [r \in Request |-> 0]
    /\ table' = None
    /\ status' = [r \in Request |-> "pending"]
    /\ retries' = [r \in Request |-> 0]
    /\ timers' = {} /\ queue' = <<>>
    /\ wpc' = "wait" /\ cur' = None /\ wjob' = None
    /\ crashed' = TRUE
    /\ UNCHANGED <<tmp, fileVars, queued, settled, made, cut>>
-----------------------------------------------------------------------------
Arrive(r) == ServeTranscode(r) \/ ServeHLSPlaylist(r)

RequestStep(r) ==
    \/ ResolveLocalSource(r) \/ LoadOrStore(r) \/ GetStatus(r) \/ RecheckCache(r)
    \/ DeleteJob(r) \/ CheckRetries(r) \/ CountRetry(r) \/ ResetJob(r)
    \/ CheckCache(r) \/ FinishCached(r) \/ EnqueueTranscode(r) \/ Answer(r)

WorkerStep ==
    \/ Pop \/ LoadJob \/ StartJob \/ StatOutput \/ StartFfmpeg \/ EndFfmpeg
    \/ Rename \/ Succeed \/ Fail \/ ScheduleCleanup

Next ==
    \/ \E r \in Request : Arrive(r) \/ RequestStep(r) \/ CleanupTimer(r)
    \/ WorkerStep
    \/ Purge \/ Crash

Spec == Init /\ [][Next]_vars

(* Goroutines that have started run on, ffmpeg ends, and timers fire.       *)
(* Nothing makes a client send a request, and no fault has to happen.       *)
FairSpec ==
    /\ Spec
    /\ WF_vars(WorkerStep)
    /\ \A r \in Request : WF_vars(RequestStep(r)) /\ WF_vars(CleanupTimer(r))
-----------------------------------------------------------------------------
Quiet ==
    /\ queue = <<>> /\ wpc = "wait"
    /\ \A r \in Request : ~Running(r)

(* serveTranscodeStatus: what a client that polls is told. *)
PolledStatus ==
    IF TranscodeExists THEN "done"
    ELSE IF table = None THEN "not_started" ELSE status[table]

(* No half-encoded file is ever under the name that is served, and no job   *)
(* is called done unless the output has been there.                         *)
DoneIsWhole ==
    /\ dst # "torn"
    /\ \A j \in Request : status[j] = "done" => made

(* The source of a queued or executing transcodeRequest exists until the    *)
(* worker is through with it, whatever the handlers of other requests, and  *)
(* the one that queued it, remove.                                          *)
SourceKept ==
    \A r \in Request : r \in ToSet(queue) \cup {cur} => r \in tmp

(* A client that was told "pending" or "running" sees its job come to an    *)
(* end, unless a job that was live left the table: then a cleanup timer, a  *)
(* delete, or a retry has met another request's job.                        *)
PendingHonoured ==
    Quiet /\ ~crashed /\ ~cut =>
        \A r \in Request : reply[r] \in {"pending", "running"} => r \in settled

(* No client polls for ever: "pending" and "running" do not last.           *)
PollingEnds ==
    \A r \in Request :
        (pc[r] = "done" /\ reply[r] \in {"pending", "running"})
            ~> PolledStatus \notin {"pending", "running"}
=============================================================================
