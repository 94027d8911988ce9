-------------------------- MODULE TranscodeProofs ---------------------------
(***************************************************************************)
(* Proofs about Transcode for any number of requests, any limit of retries *)
(* and any faults: what is served is whole, a queued request keeps its     *)
(* source, and a client that was told to wait does not wait in vain.       *)
(***************************************************************************)
EXTENDS Transcode, TLAPS

PcState == {"idle", "source", "load", "loaded", "recheck", "delete", "limit", "count",
            "reset", "cache", "cached", "enqueue", "answer", "done"}
Status == {"pending", "running", "done", "failed"}
Reply == {"none", "pending", "running", "done", "failed", "error", "file"}
WorkerState == {"wait", "load", "start", "stat", "ffmpeg", "encode", "rename", "succeed",
                "fail", "cleanup"}
Owning == {"cache", "cached", "enqueue"}
HasJob == {"cache", "cached", "enqueue", "loaded", "recheck", "limit", "count", "reset"}
Executing == {"stat", "ffmpeg", "encode", "rename", "succeed", "fail"}

TypeOK ==
    /\ pc \in [Request -> PcState]
    /\ reply \in [Request -> Reply]
    /\ jb \in [Request -> Request \cup {None}]
    /\ seen \in [Request -> Nat]
    /\ tmp \subseteq Request
    /\ table \in Request \cup {None}
    /\ status \in [Request -> Status]
    /\ retries \in [Request -> Nat]
    /\ timers \subseteq Request
    /\ queue \in Seq(Request)
    /\ wpc \in WorkerState
    /\ cur \in Request \cup {None}
    /\ wjob \in Request \cup {None}
    /\ part \in {"absent", "torn", "whole"}
    /\ dst \in {"absent", "torn", "whole"}
    /\ queued \subseteq Request /\ settled \subseteq Request
    /\ made \in BOOLEAN /\ cut \in BOOLEAN /\ crashed \in BOOLEAN

(* Who uses a job has one, and so has the worker.                            *)
JobInv ==
    /\ \A r \in Request : pc[r] \in HasJob => jb[r] \in Request
    /\ wpc \in Executing \cup {"start", "cleanup"} => wjob \in Request
    /\ wpc # "wait" <=> cur # None

(* The output and the word "done" come from a finished encoding.             *)
WholeInv ==
    /\ wpc = "rename" => part = "whole"
    /\ dst = "whole" \/ wpc = "succeed" => made
    /\ \A r \in Request : pc[r] = "cached" => made
    /\ DoneIsWhole

(* A request has its source until it is answered, and is queued at most once *)
(* and with the answer that leaves the source to the worker.                 *)
Fetched == {"load", "loaded", "recheck", "delete", "limit", "count", "reset", "cache",
            "cached", "enqueue"}
Given(r) == r \in tmp /\ pc[r] \in {"answer", "done"} /\ reply[r] = "pending"
SourceInv ==
    /\ \A r \in Request : pc[r] \in Fetched => r \in tmp
    /\ \A i \in 1 .. Len(queue) : Given(queue[i]) /\ queue[i] # cur
    /\ \A i, j \in 1 .. Len(queue) : queue[i] = queue[j] => i = j
    /\ cur # None => Given(cur)

(* Until a live job has left the table or the server has crashed: who waits  *)
(* for a job waits for a live one; a live job is the one in the table or the *)
(* one that is executed; and somebody brings it on.                          *)
Waiting == {"pending", "running"}
Known(j) == j = table \/ \E r \in Request : jb[r] = j
Carried(j) ==
    \/ \E r \in Request : pc[r] \in Owning /\ jb[r] = j
    \/ queue # <<>> \/ wpc = "load"
    \/ wjob = j /\ wpc \in Executing \cup {"start"}
Answered == \A r \in Request : reply[r] \in Waiting => pc[r] \in {"answer", "done"}
WaitsForLive == \A r \in Joined \ settled : Live(jb[r])
LiveInTable ==
    \A r \in Request :
        Live(jb[r]) => jb[r] = table \/ (wjob = jb[r] /\ wpc \in Executing)
LiveCarried == \A j \in Request : Known(j) /\ Live(j) => Carried(j)
CarryInv == WaitsForLive /\ LiveInTable /\ LiveCarried
-----------------------------------------------------------------------------
(* Every step keeps the types.                                               *)
LEMMA TypeStays == TypeOK /\ JobInv /\ [Next]_vars => TypeOK'
<1> SUFFICES ASSUME TypeOK, JobInv, [Next]_vars PROVE TypeOK'
  OBVIOUS
<1> USE ConstantsAssumption DEF TypeOK, requestVars, workerVars, fileVars
<1>1. ASSUME NEW r \in Request, ServeTranscode(r) PROVE TypeOK'
  <2>1. pc' \in [Request -> PcState] /\ reply' \in [Request -> Reply]
    BY <1>1 DEF PcState, Reply, ServeTranscode, Goto
  <2> QED BY <1>1, <2>1 DEF ServeTranscode
<1>2. ASSUME NEW r \in Request, ServeHLSPlaylist(r) PROVE TypeOK'
  <2>1. pc' \in [Request -> PcState] /\ reply' \in [Request -> Reply]
    BY <1>2 DEF PcState, ServeHLSPlaylist, Goto
  <2> QED BY <1>2, <2>1 DEF ServeHLSPlaylist
<1>3. ASSUME NEW r \in Request, ResolveLocalSource(r) PROVE TypeOK'
  <2>1. pc' \in [Request -> PcState] /\ reply' \in [Request -> Reply]
    BY <1>3 DEF PcState, Reply, ResolveLocalSource, Goto
  <2> QED BY <1>3, <2>1 DEF ResolveLocalSource
<1>4. ASSUME NEW r \in Request, LoadOrStore(r) PROVE TypeOK'
  <2>1. pc' \in [Request -> PcState]
    <3>1. \E s \in PcState : pc' = [pc EXCEPT ![r] = s]
      BY <1>4 DEF PcState, LoadOrStore, Goto
    <3> QED BY <3>1
  <2>2. CASE table = None
    <3>1. /\ table' = r /\ status' = [status EXCEPT ![r] = "pending"]
          /\ retries' = [retries EXCEPT ![r] = 0] /\ jb' = [jb EXCEPT ![r] = r]
      BY <1>4, <2>2 DEF LoadOrStore
    <3>2. status' \in [Request -> Status]
      BY <3>1 DEF Status
    <3> QED BY <1>4, <2>1, <3>1, <3>2 DEF LoadOrStore
  <2>3. CASE table # None
    <3>1. jb' = [jb EXCEPT ![r] = table] /\ UNCHANGED <<table, status, retries>>
      BY <1>4, <2>3 DEF LoadOrStore
    <3> QED BY <1>4, <2>1, <3>1 DEF LoadOrStore
  <2> QED BY <2>2, <2>3
<1>5. ASSUME NEW r \in Request, GetStatus(r) PROVE TypeOK'
  <2>1. status[jb[r]] \in Status
    BY <1>5 DEF GetStatus, JobInv, HasJob
  <2>2. \/ reply' = [reply EXCEPT ![r] = status[jb[r]]]
        \/ UNCHANGED reply
    BY <1>5, <2>1 DEF GetStatus, Return
  <2>3. status[jb[r]] \in Reply
    BY <2>1 DEF Status, Reply
  <2>4. reply' \in [Request -> Reply]
    BY <2>2, <2>3
  <2>5. \E s \in PcState : pc' = [pc EXCEPT ![r] = s]
    BY <1>5, <2>1 DEF GetStatus, Goto, Return, PcState
  <2> QED BY <1>5, <2>4, <2>5 DEF GetStatus
<1>6. ASSUME NEW r \in Request, RecheckCache(r) PROVE TypeOK'
  <2>1. pc' \in [Request -> PcState] /\ reply' \in [Request -> Reply]
    BY <1>6 DEF PcState, Reply, RecheckCache, Goto, Return
  <2> QED BY <1>6, <2>1 DEF RecheckCache
<1>7. ASSUME NEW r \in Request, DeleteJob(r) PROVE TypeOK'
  <2>1. pc' \in [Request -> PcState] /\ reply' \in [Request -> Reply]
    BY <1>7 DEF PcState, DeleteJob, Goto
  <2> QED BY <1>7, <2>1 DEF DeleteJob, Live
<1>8. ASSUME NEW r \in Request, CheckRetries(r) PROVE TypeOK'
  <2>1. retries[jb[r]] \in Nat
    BY <1>8 DEF CheckRetries, JobInv, HasJob
  <2>2. pc' \in [Request -> PcState] /\ reply' \in [Request -> Reply]
    BY <1>8 DEF PcState, Reply, CheckRetries, Goto, Return
  <2>3. seen' \in [Request -> Nat]
    BY <1>8, <2>1 DEF CheckRetries
  <2> QED BY <1>8, <2>2, <2>3 DEF CheckRetries
<1>9. ASSUME NEW r \in Request, CountRetry(r) PROVE TypeOK'
  <2>1. pc' \in [Request -> PcState] /\ reply' \in [Request -> Reply]
    BY <1>9 DEF PcState, CountRetry, Goto, JobInv, HasJob
  <2>2. seen' \in [Request -> Nat] /\ retries' \in [Request -> Nat]
    BY <1>9 DEF PcState, CountRetry, Goto, JobInv, HasJob
  <2> QED BY <1>9, <2>1, <2>2 DEF CountRetry
<1>10. ASSUME NEW r \in Request, ResetJob(r) PROVE TypeOK'
  <2>1. pc' \in [Request -> PcState] /\ reply' \in [Request -> Reply]
    BY <1>10 DEF PcState, Status, ResetJob, Goto
  <2>2. status' \in [Request -> Status]
    BY <1>10 DEF PcState, Status, ResetJob, Goto
  <2> QED BY <1>10, <2>1, <2>2 DEF ResetJob
<1>11. ASSUME NEW r \in Request, CheckCache(r) PROVE TypeOK'
  <2>1. pc' \in [Request -> PcState] /\ reply' \in [Request -> Reply]
    BY <1>11 DEF PcState, CheckCache, Goto
  <2> QED BY <1>11, <2>1 DEF CheckCache
<1>12. ASSUME NEW r \in Request, FinishCached(r) PROVE TypeOK'
  <2>1. pc' \in [Request -> PcState] /\ reply' \in [Request -> Reply]
    BY <1>12 DEF PcState, Status, Reply, FinishCached, Goto, Return, Settle, Joined
  <2>2. status' \in [Request -> Status]
    BY <1>12 DEF PcState, Status, Reply, FinishCached, Goto, Return, Settle, Joined
  <2>3. settled' \subseteq Request
    BY <1>12 DEF PcState, Status, Reply, FinishCached, Goto, Return, Settle, Joined
  <2> QED BY <1>12, <2>1, <2>2, <2>3 DEF FinishCached
<1>13. ASSUME NEW r \in Request, EnqueueTranscode(r) PROVE TypeOK'
  <2>1. pc' \in [Request -> PcState] /\ reply' \in [Request -> Reply]
    BY <1>13 DEF PcState, Reply, EnqueueTranscode, Goto, Return
  <2> QED BY <1>13, <2>1 DEF EnqueueTranscode
<1>14. ASSUME NEW r \in Request, Answer(r) PROVE TypeOK'
  <2>1. pc' \in [Request -> PcState] /\ reply' \in [Request -> Reply]
    BY <1>14 DEF PcState, Answer, Goto
  <2> QED BY <1>14, <2>1 DEF Answer
<1>15. ASSUME NEW r \in Request, CleanupTimer(r) PROVE TypeOK'
  BY <1>15 DEF CleanupTimer
<1>16. CASE Pop
  BY SMTT(30), <1>16 DEF Pop, WorkerState
<1>17. CASE LoadJob
  BY <1>17 DEF LoadJob, WorkerState
<1>18. CASE StartJob
  <2>1. status' \in [Request -> Status]
    BY <1>18 DEF Status, WorkerState, StartJob
  <2>2. wpc' \in WorkerState
    BY <1>18 DEF Status, WorkerState, StartJob
  <2> QED BY <1>18, <2>1, <2>2 DEF StartJob
<1>19. CASE StatOutput
  BY <1>19 DEF StatOutput, WorkerState
<1>20. CASE StartFfmpeg
  BY <1>20 DEF StartFfmpeg, WorkerState
<1>21. CASE EndFfmpeg
  BY <1>21 DEF EndFfmpeg, WorkerState
<1>22. CASE Rename
  BY <1>22 DEF Rename, WorkerState
<1>23. CASE Succeed
  <2>1. status' \in [Request -> Status]
    BY <1>23 DEF Status, WorkerState, Succeed, Settle, Joined
  <2>2. settled' \subseteq Request
    BY <1>23 DEF Status, WorkerState, Succeed, Settle, Joined
  <2>3. wpc' \in WorkerState
    BY <1>23 DEF Status, WorkerState, Succeed, Settle, Joined
  <2> QED BY <1>23, <2>1, <2>2, <2>3 DEF Succeed
<1>24. CASE Fail
  <2>1. status' \in [Request -> Status]
    BY <1>24 DEF Status, WorkerState, Fail, Settle, Joined
  <2>2. settled' \subseteq Request
    BY <1>24 DEF Status, WorkerState, Fail, Settle, Joined
  <2>3. wpc' \in WorkerState
    BY <1>24 DEF Status, WorkerState, Fail, Settle, Joined
  <2> QED BY <1>24, <2>1, <2>2, <2>3 DEF Fail
<1>25. CASE ScheduleCleanup
  <2>1. wpc' \in WorkerState /\ cur' = None /\ wjob' = None
    BY <1>25 DEF ScheduleCleanup, WorkerState
  <2>2. timers' \subseteq Request /\ tmp' \subseteq Request
    BY <1>25 DEF ScheduleCleanup, JobInv
  <2> QED BY <1>25, <2>1, <2>2 DEF ScheduleCleanup
<1>26. CASE Purge
  BY <1>26 DEF Purge, WorkerState
<1>27. CASE Crash
  <2>1. pc' \in [Request -> PcState] /\ reply' \in [Request -> Reply]
    BY <1>27 DEF PcState, Reply, Status, WorkerState, Crash
  <2>2. status' \in [Request -> Status]
    BY <1>27 DEF PcState, Reply, Status, WorkerState, Crash
  <2>3. retries' \in [Request -> Nat] /\ seen' \in [Request -> Nat]
    BY <1>27 DEF PcState, Reply, Status, WorkerState, Crash
  <2>4. jb' \in [Request -> Request \cup {None}] /\ wpc' \in WorkerState
    BY <1>27 DEF PcState, Reply, Status, WorkerState, Crash
  <2> QED BY <1>27, <2>1, <2>2, <2>3, <2>4 DEF Crash
<1>28. CASE UNCHANGED vars
  BY <1>28 DEF vars
<1> QED BY <1>1, <1>2, <1>3, <1>4, <1>5, <1>6, <1>7, <1>8, <1>9, <1>10, <1>11,
       <1>12, <1>13, <1>14, <1>15, <1>16, <1>17, <1>18, <1>19, <1>20, <1>21, <1>22,
       <1>23, <1>24, <1>25, <1>26, <1>27, <1>28
       DEF Next, Arrive, RequestStep, WorkerStep

(* Every step keeps the jobs of requests and worker.                         *)
LEMMA JobStays == TypeOK /\ JobInv /\ [Next]_vars => JobInv'
<1> SUFFICES ASSUME TypeOK, JobInv, [Next]_vars PROVE JobInv'
  OBVIOUS
<1> USE ConstantsAssumption DEF TypeOK, JobInv, HasJob, Executing, requestVars, workerVars,
        fileVars
<1>1. ASSUME NEW r \in Request, ServeTranscode(r) PROVE JobInv'
  BY <1>1 DEF ServeTranscode, Goto
<1>2. ASSUME NEW r \in Request, ServeHLSPlaylist(r) PROVE JobInv'
  BY <1>2 DEF ServeHLSPlaylist, Goto
<1>3. ASSUME NEW r \in Request, ResolveLocalSource(r) PROVE JobInv'
  BY <1>3 DEF ResolveLocalSource, Goto
<1>4. ASSUME NEW r \in Request, LoadOrStore(r) PROVE JobInv'
  <2>1. jb'[r] \in Request /\ \A q \in Request \ {r} : jb'[q] = jb[q] /\ pc'[q] = pc[q]
    BY <1>4 DEF LoadOrStore, Goto
  <2> QED BY <1>4, <2>1 DEF LoadOrStore
<1>5. ASSUME NEW r \in Request, GetStatus(r) PROVE JobInv'
  BY <1>5 DEF GetStatus, Goto, Return
<1>6. ASSUME NEW r \in Request, RecheckCache(r) PROVE JobInv'
  BY <1>6 DEF RecheckCache, Goto, Return
<1>7. ASSUME NEW r \in Request, DeleteJob(r) PROVE JobInv'
  BY <1>7 DEF DeleteJob, Goto
<1>8. ASSUME NEW r \in Request, CheckRetries(r) PROVE JobInv'
  BY <1>8 DEF CheckRetries, Goto, Return
<1>9. ASSUME NEW r \in Request, CountRetry(r) PROVE JobInv'
  BY <1>9 DEF CountRetry, Goto
<1>10. ASSUME NEW r \in Request, ResetJob(r) PROVE JobInv'
  BY <1>10 DEF ResetJob, Goto
<1>11. ASSUME NEW r \in Request, CheckCache(r) PROVE JobInv'
  BY <1>11 DEF CheckCache, Goto
<1>12. ASSUME NEW r \in Request, FinishCached(r) PROVE JobInv'
  BY <1>12 DEF FinishCached, Goto, Return
<1>13. ASSUME NEW r \in Request, EnqueueTranscode(r) PROVE JobInv'
  BY <1>13 DEF EnqueueTranscode, Goto, Return
<1>14. ASSUME NEW r \in Request, Answer(r) PROVE JobInv'
  BY <1>14 DEF Answer, Goto
<1>15. ASSUME NEW r \in Request, CleanupTimer(r) PROVE JobInv'
  BY <1>15 DEF CleanupTimer
<1>16. CASE Pop
  BY <1>16 DEF Pop
<1>17. CASE LoadJob
  BY <1>17 DEF LoadJob
<1>18. CASE StartJob
  BY <1>18 DEF StartJob
<1>19. CASE StatOutput
  BY <1>19 DEF StatOutput
<1>20. CASE StartFfmpeg
  BY <1>20 DEF StartFfmpeg
<1>21. CASE EndFfmpeg
  BY <1>21 DEF EndFfmpeg
<1>22. CASE Rename
  BY <1>22 DEF Rename
<1>23. CASE Succeed
  BY <1>23 DEF Succeed
<1>24. CASE Fail
  BY <1>24 DEF Fail
<1>25. CASE ScheduleCleanup
  BY <1>25 DEF ScheduleCleanup
<1>26. CASE Purge
  BY <1>26 DEF Purge
<1>27. CASE Crash
  <2>1. \A r \in Request : pc'[r] \notin HasJob
    BY <1>27 DEF Crash, Running
  <2>2. wpc' = "wait" /\ cur' = None
    BY <1>27 DEF Crash
  <2> QED BY <2>1, <2>2
<1>28. CASE UNCHANGED vars
  BY <1>28 DEF vars
<1> QED BY <1>1, <1>2, <1>3, <1>4, <1>5, <1>6, <1>7, <1>8, <1>9, <1>10, <1>11,
       <1>12, <1>13, <1>14, <1>15, <1>16, <1>17, <1>18, <1>19, <1>20, <1>21, <1>22,
       <1>23, <1>24, <1>25, <1>26, <1>27, <1>28
       DEF Next, Arrive, RequestStep, WorkerStep

(* Every step keeps the output whole.                                        *)
LEMMA WholeStays == TypeOK /\ JobInv /\ WholeInv /\ [Next]_vars => WholeInv'
<1> SUFFICES ASSUME TypeOK, JobInv, WholeInv, [Next]_vars PROVE WholeInv'
  OBVIOUS
<1> USE ConstantsAssumption DEF TypeOK, WholeInv, DoneIsWhole, TranscodeExists, requestVars,
        workerVars, fileVars
<1>1. ASSUME NEW r \in Request, ServeTranscode(r) PROVE WholeInv'
  BY <1>1 DEF ServeTranscode, Goto
<1>2. ASSUME NEW r \in Request, ServeHLSPlaylist(r) PROVE WholeInv'
  BY <1>2 DEF ServeHLSPlaylist, Goto
<1>3. ASSUME NEW r \in Request, ResolveLocalSource(r) PROVE WholeInv'
  BY <1>3 DEF ResolveLocalSource, Goto
<1>4. ASSUME NEW r \in Request, LoadOrStore(r) PROVE WholeInv'
  BY <1>4 DEF LoadOrStore, Goto
<1>5. ASSUME NEW r \in Request, GetStatus(r) PROVE WholeInv'
  BY <1>5 DEF GetStatus, Goto, Return
<1>6. ASSUME NEW r \in Request, RecheckCache(r) PROVE WholeInv'
  BY <1>6 DEF RecheckCache, Goto, Return
<1>7. ASSUME NEW r \in Request, DeleteJob(r) PROVE WholeInv'
  BY <1>7 DEF DeleteJob, Goto
<1>8. ASSUME NEW r \in Request, CheckRetries(r) PROVE WholeInv'
  BY <1>8 DEF CheckRetries, Goto, Return
<1>9. ASSUME NEW r \in Request, CountRetry(r) PROVE WholeInv'
  BY <1>9 DEF CountRetry, Goto
<1>10. ASSUME NEW r \in Request, ResetJob(r) PROVE WholeInv'
  BY <1>10 DEF ResetJob, Goto
<1>11. ASSUME NEW r \in Request, CheckCache(r) PROVE WholeInv'
  BY <1>11 DEF CheckCache, Goto
<1>12. ASSUME NEW r \in Request, FinishCached(r) PROVE WholeInv'
  BY <1>12 DEF FinishCached, Goto, Return, JobInv, HasJob, Status
<1>13. ASSUME NEW r \in Request, EnqueueTranscode(r) PROVE WholeInv'
  BY <1>13 DEF EnqueueTranscode, Goto, Return
<1>14. ASSUME NEW r \in Request, Answer(r) PROVE WholeInv'
  BY <1>14 DEF Answer, Goto
<1>15. ASSUME NEW r \in Request, CleanupTimer(r) PROVE WholeInv'
  BY <1>15 DEF CleanupTimer
<1>16. CASE Pop
  BY <1>16 DEF Pop
<1>17. CASE LoadJob
  BY <1>17 DEF LoadJob
<1>18. CASE StartJob
  BY <1>18 DEF StartJob
<1>19. CASE StatOutput
  BY <1>19 DEF StatOutput
<1>20. CASE StartFfmpeg
  BY <1>20 DEF StartFfmpeg
<1>21. CASE EndFfmpeg
  BY <1>21 DEF EndFfmpeg
<1>22. CASE Rename
  BY <1>22 DEF Rename
<1>23. CASE Succeed
  BY <1>23 DEF Succeed
<1>24. CASE Fail
  BY <1>24 DEF Fail
<1>25. CASE ScheduleCleanup
  BY <1>25 DEF ScheduleCleanup
<1>26. CASE Purge
  BY <1>26 DEF Purge
<1>27. CASE Crash
  BY <1>27 DEF Crash
<1>28. CASE UNCHANGED vars
  BY <1>28 DEF vars
<1> QED BY <1>1, <1>2, <1>3, <1>4, <1>5, <1>6, <1>7, <1>8, <1>9, <1>10, <1>11,
       <1>12, <1>13, <1>14, <1>15, <1>16, <1>17, <1>18, <1>19, <1>20, <1>21, <1>22,
       <1>23, <1>24, <1>25, <1>26, <1>27, <1>28
       DEF Next, Arrive, RequestStep, WorkerStep

(* A request that has not been answered is not queued, and may move on.      *)
LEMMA MovesOn ==
  ASSUME TypeOK, Answered, SourceInv, NEW r \in Request, pc[r] \notin {"answer", "done"},
         UNCHANGED <<queue, cur>>, tmp \subseteq tmp',
         \A q \in Request \ {r} : pc'[q] = pc[q] /\ reply'[q] = reply[q],
         pc'[r] \in Fetched => r \in tmp',
         reply'[r] \in Waiting => pc'[r] \in {"answer", "done"}
  PROVE  Answered' /\ SourceInv'
<1> USE DEF TypeOK, Answered, SourceInv, Given
<1>1. \A q \in Request : Given(q) => Given(q)'
  OBVIOUS
<1>2. \A i \in 1 .. Len(queue) : queue[i] \in Request
  OBVIOUS
<1> QED BY ZenonT(40), <1>1, <1>2

(* Every step keeps the sources of what is queued.                           *)
LEMMA SourceStays ==
  TypeOK /\ JobInv /\ Answered /\ SourceInv /\ [Next]_vars => Answered' /\ SourceInv'
<1> SUFFICES ASSUME TypeOK, JobInv, Answered, SourceInv, [Next]_vars
             PROVE  Answered' /\ SourceInv'
  OBVIOUS
<1> USE ConstantsAssumption DEF TypeOK, JobInv, Answered, SourceInv, Fetched, Given,
        Waiting, requestVars, workerVars, fileVars
<1>1. ASSUME NEW r \in Request, ServeTranscode(r) PROVE Answered' /\ SourceInv'
  <2>1. /\ pc[r] \notin {"answer", "done"} /\ UNCHANGED <<queue, cur>> /\ tmp \subseteq tmp'
        /\ pc[r] = "source" \/ pc[r] = "idle" \/ r \in tmp
    BY <1>1 DEF ServeTranscode
  <2>2. \A q \in Request \ {r} : pc'[q] = pc[q] /\ reply'[q] = reply[q]
    BY <1>1 DEF ServeTranscode, Goto, Return
  <2>3. /\ pc'[r] \in Fetched => r \in tmp'
        /\ reply'[r] \in Waiting => pc'[r] \in {"answer", "done"}
    BY <1>1 DEF ServeTranscode, Goto, Return
  <2> QED BY <2>1, <2>2, <2>3, MovesOn
<1>2. ASSUME NEW r \in Request, ServeHLSPlaylist(r) PROVE Answered' /\ SourceInv'
  BY <1>2 DEF ServeHLSPlaylist, Goto
<1>3. ASSUME NEW r \in Request, ResolveLocalSource(r) PROVE Answered' /\ SourceInv'
  <2>1. /\ pc[r] \notin {"answer", "done"} /\ UNCHANGED <<queue, cur>> /\ tmp \subseteq tmp'
        /\ pc[r] = "source" \/ pc[r] = "idle" \/ r \in tmp
    BY <1>3 DEF ResolveLocalSource
  <2>2. \A q \in Request \ {r} : pc'[q] = pc[q] /\ reply'[q] = reply[q]
    BY <1>3 DEF ResolveLocalSource, Goto, Return
  <2>3. /\ pc'[r] \in Fetched => r \in tmp'
        /\ reply'[r] \in Waiting => pc'[r] \in {"answer", "done"}
    BY <1>3 DEF ResolveLocalSource, Goto, Return
  <2> QED BY <2>1, <2>2, <2>3, MovesOn
<1>4. ASSUME NEW r \in Request, LoadOrStore(r) PROVE Answered' /\ SourceInv'
  <2>1. /\ pc[r] \notin {"answer", "done"} /\ UNCHANGED <<queue, cur>> /\ tmp \subseteq tmp'
        /\ pc[r] = "source" \/ pc[r] = "idle" \/ r \in tmp
    BY <1>4 DEF LoadOrStore
  <2>2. \A q \in Request \ {r} : pc'[q] = pc[q] /\ reply'[q] = reply[q]
    BY <1>4 DEF LoadOrStore, Goto, Return
  <2>3. /\ pc'[r] \in Fetched => r \in tmp'
        /\ reply'[r] \in Waiting => pc'[r] \in {"answer", "done"}
    BY <1>4 DEF LoadOrStore, Goto, Return
  <2> QED BY <2>1, <2>2, <2>3, MovesOn
<1>5. ASSUME NEW r \in Request, GetStatus(r) PROVE Answered' /\ SourceInv'
  <2>1. /\ pc[r] \notin {"answer", "done"} /\ UNCHANGED <<queue, cur>> /\ tmp \subseteq tmp'
        /\ pc[r] = "source" \/ pc[r] = "idle" \/ r \in tmp
    BY <1>5 DEF GetStatus
  <2>2. \A q \in Request \ {r} : pc'[q] = pc[q] /\ reply'[q] = reply[q]
    BY <1>5 DEF GetStatus, Goto, Return
  <2>3. /\ pc'[r] \in Fetched => r \in tmp'
        /\ reply'[r] \in Waiting => pc'[r] \in {"answer", "done"}
    BY <1>5 DEF GetStatus, Goto, Return
  <2> QED BY <2>1, <2>2, <2>3, MovesOn
<1>6. ASSUME NEW r \in Request, RecheckCache(r) PROVE Answered' /\ SourceInv'
  <2>1. /\ pc[r] \notin {"answer", "done"} /\ UNCHANGED <<queue, cur>> /\ tmp \subseteq tmp'
        /\ pc[r] = "source" \/ pc[r] = "idle" \/ r \in tmp
    BY <1>6 DEF RecheckCache
  <2>2. \A q \in Request \ {r} : pc'[q] = pc[q] /\ reply'[q] = reply[q]
    BY <1>6 DEF RecheckCache, Goto, Return
  <2>3. /\ pc'[r] \in Fetched => r \in tmp'
        /\ reply'[r] \in Waiting => pc'[r] \in {"answer", "done"}
    BY <1>6 DEF RecheckCache, Goto, Return
  <2> QED BY <2>1, <2>2, <2>3, MovesOn
<1>7. ASSUME NEW r \in Request, DeleteJob(r) PROVE Answered' /\ SourceInv'
  BY <1>7 DEF DeleteJob, Goto
<1>8. ASSUME NEW r \in Request, CheckRetries(r) PROVE Answered' /\ SourceInv'
  <2>1. /\ pc[r] \notin {"answer", "done"} /\ UNCHANGED <<queue, cur>> /\ tmp \subseteq tmp'
        /\ pc[r] = "source" \/ pc[r] = "idle" \/ r \in tmp
    BY <1>8 DEF CheckRetries
  <2>2. \A q \in Request \ {r} : pc'[q] = pc[q] /\ reply'[q] = reply[q]
    BY <1>8 DEF CheckRetries, Goto, Return
  <2>3. /\ pc'[r] \in Fetched => r \in tmp'
        /\ reply'[r] \in Waiting => pc'[r] \in {"answer", "done"}
    BY <1>8 DEF CheckRetries, Goto, Return
  <2> QED BY <2>1, <2>2, <2>3, MovesOn
<1>9. ASSUME NEW r \in Request, CountRetry(r) PROVE Answered' /\ SourceInv'
  BY SMTT(30), <1>9 DEF CountRetry, Goto
<1>10. ASSUME NEW r \in Request, ResetJob(r) PROVE Answered' /\ SourceInv'
  BY <1>10 DEF ResetJob, Goto
<1>11. ASSUME NEW r \in Request, CheckCache(r) PROVE Answered' /\ SourceInv'
  BY <1>11 DEF CheckCache, Goto
<1>12. ASSUME NEW r \in Request, FinishCached(r) PROVE Answered' /\ SourceInv'
  BY <1>12 DEF FinishCached, Goto, Return
<1>13. ASSUME NEW r \in Request, EnqueueTranscode(r) PROVE Answered' /\ SourceInv'
  <2>1. /\ pc[r] = "enqueue" /\ r \in tmp /\ UNCHANGED <<tmp, cur, wpc>>
        /\ queue' = Append(queue, r)
    BY <1>13 DEF EnqueueTranscode
  <2>2. /\ pc' = [pc EXCEPT ![r] = "answer"] /\ reply' = [reply EXCEPT ![r] = "pending"]
    BY <1>13 DEF EnqueueTranscode, Goto, Return
  <2>3. \A q \in Request : Given(q) => Given(q)' /\ q # r
    BY <2>1, <2>2
  <2>4. Given(r)'
    BY <2>1, <2>2
  <2>5. /\ Len(queue) \in Nat
        /\ Len(queue') = Len(queue) + 1 /\ queue'[Len(queue) + 1] = r
        /\ \A i \in 1 .. Len(queue) : queue'[i] = queue[i] /\ queue[i] \in Request
    BY <2>1
  <2>6. \A i \in 1 .. Len(queue') : i \in 1 .. Len(queue) \/ i = Len(queue) + 1
    BY <2>5
  <2>7. ASSUME NEW i \in 1 .. Len(queue')
        PROVE  Given(queue[i])' /\ queue'[i] # cur'
    <3>1. CASE i = Len(queue) + 1
      BY <2>1, <2>3, <2>4, <2>5, <3>1
    <3>2. CASE i \in 1 .. Len(queue)
      <4>1. queue'[i] = queue[i] /\ Given(queue[i]) /\ queue[i] # cur
              /\ queue[i] \in Request
        BY <2>5, <3>2
      <4> QED BY <2>1, <2>3, <4>1
    <3> QED BY <2>6, <3>1, <3>2
  <2>8. ASSUME NEW i \in 1 .. Len(queue'), NEW j \in 1 .. Len(queue'), queue'[i] = queue'[j]
        PROVE  i = j
    <3>1. \A n \in 1 .. Len(queue) : queue'[n] = queue[n] /\ queue[n] # r
      BY <2>3, <2>5
    <3>2. CASE i = Len(queue) + 1 \/ j = Len(queue) + 1
      BY <2>5, <2>6, <2>8, <3>1, <3>2
    <3>3. CASE i \in 1 .. Len(queue) /\ j \in 1 .. Len(queue)
      BY <2>8, <3>1, <3>3
    <3> QED BY <2>6, <3>2, <3>3
  <2>9. Answered' /\ \A q \in Request : pc'[q] \in Fetched => q \in tmp'
    BY <2>1, <2>2
  <2>10. cur' # None => Given(cur)'
    BY <2>1, <2>3
  <2> QED BY <2>7, <2>8, <2>9, <2>10
<1>14. ASSUME NEW r \in Request, Answer(r) PROVE Answered' /\ SourceInv'
  BY <1>14 DEF Answer, Goto
<1>15. ASSUME NEW r \in Request, CleanupTimer(r) PROVE Answered' /\ SourceInv'
  BY <1>15 DEF CleanupTimer
<1>16. CASE Pop
  BY <1>16 DEF Pop
<1>17. CASE LoadJob
  BY <1>17 DEF LoadJob
<1>18. CASE StartJob
  BY <1>18 DEF StartJob
<1>19. CASE StatOutput
  BY <1>19 DEF StatOutput
<1>20. CASE StartFfmpeg
  BY <1>20 DEF StartFfmpeg
<1>21. CASE EndFfmpeg
  BY <1>21 DEF EndFfmpeg
<1>22. CASE Rename
  BY <1>22 DEF Rename
<1>23. CASE Succeed
  BY <1>23 DEF Succeed
<1>24. CASE Fail
  BY <1>24 DEF Fail
<1>25. CASE ScheduleCleanup
  BY <1>25 DEF ScheduleCleanup
<1>26. CASE Purge
  BY <1>26 DEF Purge
<1>27. CASE Crash
  BY <1>27 DEF Crash
<1>28. CASE UNCHANGED vars
  BY <1>28 DEF vars
<1> QED BY <1>1, <1>2, <1>3, <1>4, <1>5, <1>6, <1>7, <1>8, <1>9, <1>10, <1>11,
       <1>12, <1>13, <1>14, <1>15, <1>16, <1>17, <1>18, <1>19, <1>20, <1>21, <1>22,
       <1>23, <1>24, <1>25, <1>26, <1>27, <1>28
       DEF Next, Arrive, RequestStep, WorkerStep

(* A step that changes no job and keeps what brings the live ones on keeps   *)
(* the promise.                                                              *)
LEMMA CarryKept ==
  ASSUME CarryInv, UNCHANGED <<table, status, jb, wjob>>, settled \subseteq settled',
         \A r \in Joined' : r \in Joined \/ Live(jb[r]),
         wpc \in Executing => wpc' \in Executing,
         \A j \in Request : Carried(j) => Carried(j)'
  PROVE  CarryInv'
<1> USE DEF CarryInv
<1>1. \A j : Live(j)' <=> Live(j)
  BY DEF Live
<1>2. \A j : Known(j)' <=> Known(j)
  BY DEF Known
<1>3. WaitsForLive'
  BY <1>1 DEF WaitsForLive
<1>4. LiveInTable'
  BY <1>1 DEF LiveInTable
<1>5. LiveCarried'
  BY <1>1, <1>2 DEF LiveCarried
<1> QED BY <1>3, <1>4, <1>5

(* Every step keeps the promise, or crashes, or takes a live job away.       *)
LEMMA CarryStays ==
  TypeOK /\ JobInv /\ Answered /\ (~crashed /\ ~cut => CarryInv) /\ [Next]_vars
  => (~crashed /\ ~cut => CarryInv)'
<1> SUFFICES ASSUME TypeOK, JobInv, Answered, ~crashed /\ ~cut => CarryInv, [Next]_vars,
                    ~crashed', ~cut'
             PROVE  CarryInv'
  OBVIOUS
<1> USE ConstantsAssumption DEF TypeOK, JobInv, requestVars, workerVars, fileVars
<1>1. ASSUME NEW r \in Request, ServeTranscode(r) PROVE CarryInv'
  <2>1. CarryInv /\ UNCHANGED <<table, status, jb, wjob, wpc, settled>>
    BY <1>1 DEF ServeTranscode
  <2>2. \A q \in Joined' : q \in Joined
    BY <1>1 DEF ServeTranscode, Goto, Return, Joined
  <2>3. \A j \in Request : Carried(j) => Carried(j)'
    BY <1>1 DEF ServeTranscode, Goto, Return, Carried, Owning
  <2> QED BY <2>1, <2>2, <2>3, CarryKept
<1>2. ASSUME NEW r \in Request, ServeHLSPlaylist(r) PROVE CarryInv'
  <2>1. CarryInv /\ UNCHANGED <<table, status, jb, wjob, wpc, settled>>
    BY <1>2 DEF ServeHLSPlaylist
  <2>2. \A q \in Joined' : q \in Joined
    BY <1>2 DEF ServeHLSPlaylist, Goto, Return, Joined
  <2>3. \A j \in Request : Carried(j) => Carried(j)'
    BY <1>2 DEF ServeHLSPlaylist, Goto, Return, Carried, Owning
  <2> QED BY <2>1, <2>2, <2>3, CarryKept
<1>3. ASSUME NEW r \in Request, ResolveLocalSource(r) PROVE CarryInv'
  <2>1. CarryInv /\ UNCHANGED <<table, status, jb, wjob, wpc, settled>>
    BY <1>3 DEF ResolveLocalSource
  <2>2. \A q \in Joined' : q \in Joined
    BY <1>3 DEF ResolveLocalSource, Goto, Return, Joined
  <2>3. \A j \in Request : Carried(j) => Carried(j)'
    BY <1>3 DEF ResolveLocalSource, Goto, Return, Carried, Owning
  <2> QED BY <2>1, <2>2, <2>3, CarryKept
<1>4. ASSUME NEW r \in Request, LoadOrStore(r) PROVE CarryInv'
  <2>1. CarryInv /\ pc[r] = "load" /\ UNCHANGED <<reply, queue, wjob, wpc, settled>>
    BY <1>4 DEF LoadOrStore
  <2>2. \A q \in Request \ {r} : jb'[q] = jb[q] /\ pc'[q] = pc[q]
    BY <1>4 DEF LoadOrStore, Goto
  <2>3. CASE table = None
    <3>1. /\ table' = r /\ jb'[r] = r /\ pc'[r] = "cache" /\ status'[r] = "pending"
          /\ \A q \in Request \ {r} : status'[q] = status[q]
      BY <1>4, <2>3 DEF LoadOrStore, Goto
    <3>2. Joined' = Joined \cup {r}
      BY <2>1, <2>2, <3>1 DEF Joined
    <3>3. \A q \in Request : Live(q)' <=> q = r \/ Live(q)
      BY <3>1 DEF Live
    <3>4. ~ Live(None) /\ ~ Live(None)'
      BY DEF Live
    <3>5. ASSUME NEW q \in Joined', q \notin settled' PROVE Live(jb[q])'
      <4>1. CASE q = r
        BY <3>1, <3>3, <4>1
      <4>2. CASE q # r
        <5>1. q \in Request /\ Live(jb[q])
          BY <2>1, <3>2, <3>5, <4>2 DEF CarryInv, WaitsForLive, Joined
        <5>2. jb[q] \in Request \cup {None} /\ jb'[q] = jb[q]
          BY <2>2, <4>2, <5>1
        <5> QED BY <3>3, <3>4, <5>1, <5>2
      <4> QED BY <4>1, <4>2
    <3>6. LiveInTable'
      BY <2>1, <2>2, <2>3, <3>1, <3>3, <3>4 DEF CarryInv, LiveInTable
    <3>7. ASSUME NEW j \in Request, Known(j)', Live(j)' PROVE Carried(j)'
      <4>1. CASE j = r
        BY <3>1, <4>1 DEF Carried, Owning
      <4>2. CASE j # r
        <5>1. Known(j) /\ Live(j)
          BY <2>2, <3>1, <3>3, <3>7, <4>2 DEF Known
        <5>2. Carried(j)
          BY <2>1, <5>1 DEF CarryInv, LiveCarried
        <5> QED BY <2>1, <2>2, <5>2 DEF Carried, Owning
      <4> QED BY <4>1, <4>2
    <3> QED BY <3>5, <3>6, <3>7 DEF CarryInv, WaitsForLive, LiveCarried
  <2>4. CASE table # None
    <3>1. /\ UNCHANGED <<table, status>> /\ jb'[r] = table /\ pc'[r] = "loaded"
      BY <1>4, <2>4 DEF LoadOrStore, Goto
    <3>2. r \notin Joined' /\ \A q \in Joined' : q \in Joined
      BY <2>1, <2>2, <3>1 DEF Joined
    <3>3. \A j : Live(j)' <=> Live(j)
      BY <3>1 DEF Live
    <3>4. WaitsForLive'
      BY <2>1, <2>2, <3>2, <3>3 DEF CarryInv, WaitsForLive, Joined
    <3>5. LiveInTable'
      BY <2>1, <2>2, <3>1, <3>3 DEF CarryInv, LiveInTable
    <3>6. ASSUME NEW j \in Request, Known(j)', Live(j)' PROVE Carried(j)'
      <4>1. Carried(j)
        BY <2>1, <2>2, <3>1, <3>3, <3>6 DEF CarryInv, LiveCarried, Known
      <4> QED BY <2>1, <2>2, <4>1 DEF Carried, Owning
    <3> QED BY <3>4, <3>5, <3>6 DEF CarryInv, LiveCarried
  <2> QED BY <2>3, <2>4
<1>5. ASSUME NEW r \in Request, GetStatus(r) PROVE CarryInv'
  <2>1. CarryInv /\ UNCHANGED <<table, status, jb, wjob, wpc, settled>>
    BY <1>5 DEF GetStatus
  <2>2. ASSUME NEW q \in Joined' PROVE q \in Joined \/ Live(jb[q])
    <3>1. CASE q = r
      <4>1. pc[r] = "loaded" /\ jb[r] \in Request
        BY <1>5 DEF GetStatus, HasJob
      <4>2. CASE status[jb[r]] \in {"pending", "running"}
        BY <3>1, <4>1, <4>2 DEF Live
      <4>3. CASE status[jb[r]] \notin {"pending", "running"}
        <5>1. pc'[r] \in {"recheck", "limit"}
          BY <1>5, <4>3 DEF GetStatus, Goto
        <5> QED BY <3>1, <5>1 DEF Joined
      <4> QED BY <4>2, <4>3
    <3>2. CASE q # r
      <4>1. pc'[q] = pc[q] /\ reply'[q] = reply[q]
        BY <1>5, <3>2 DEF GetStatus, Goto, Return, Joined
      <4> QED BY <4>1 DEF Joined
    <3> QED BY <3>1, <3>2
  <2>3. \A j \in Request : Carried(j) => Carried(j)'
    BY <1>5 DEF GetStatus, Goto, Return, Carried, Owning
  <2> QED BY <2>1, <2>2, <2>3, CarryKept
<1>6. ASSUME NEW r \in Request, RecheckCache(r) PROVE CarryInv'
  <2>1. CarryInv /\ UNCHANGED <<table, status, jb, wjob, wpc, settled>>
    BY <1>6 DEF RecheckCache
  <2>2. \A q \in Joined' : q \in Joined
    BY <1>6 DEF RecheckCache, Goto, Return, Joined
  <2>3. \A j \in Request : Carried(j) => Carried(j)'
    BY <1>6 DEF RecheckCache, Goto, Return, Carried, Owning
  <2> QED BY <2>1, <2>2, <2>3, CarryKept
<1>7. ASSUME NEW r \in Request, DeleteJob(r) PROVE CarryInv'
  <2>1. CarryInv /\ UNCHANGED <<status, jb, wjob, wpc, settled, queue, reply>>
    BY <1>7 DEF DeleteJob
  <2>2. table' = None /\ ~ Live(table)
    BY <1>7 DEF DeleteJob
  <2>3. \A j : Live(j)' <=> Live(j)
    BY <2>1 DEF Live
  <2>4. Joined' \subseteq Joined /\ \A q \in Request : pc[q] \in Owning => pc'[q] = pc[q]
    BY <1>7, <2>1 DEF DeleteJob, Goto, Joined, Owning
  <2>5. WaitsForLive'
    BY <2>1, <2>3, <2>4 DEF CarryInv, WaitsForLive
  <2>6. LiveInTable'
    BY <2>1, <2>2, <2>3 DEF CarryInv, LiveInTable
  <2>7. ASSUME NEW j \in Request, Known(j)', Live(j)' PROVE Carried(j)'
    <3>1. Carried(j)
      BY <2>1, <2>2, <2>3, <2>7 DEF CarryInv, LiveCarried, Known
    <3> QED BY <2>1, <2>4, <3>1 DEF Carried
  <2> QED BY <2>5, <2>6, <2>7 DEF CarryInv, LiveCarried
<1>8. ASSUME NEW r \in Request, CheckRetries(r) PROVE CarryInv'
  <2>1. CarryInv /\ UNCHANGED <<table, status, jb, wjob, wpc, settled>>
    BY <1>8 DEF CheckRetries
  <2>2. \A q \in Joined' : q \in Joined
    BY <1>8 DEF CheckRetries, Goto, Return, Joined
  <2>3. \A j \in Request : Carried(j) => Carried(j)'
    BY <1>8 DEF CheckRetries, Goto, Return, Carried, Owning
  <2> QED BY <2>1, <2>2, <2>3, CarryKept
<1>9. ASSUME NEW r \in Request, CountRetry(r) PROVE CarryInv'
  <2>1. CarryInv /\ UNCHANGED <<table, status, jb, wjob, wpc, settled>>
    BY <1>9 DEF CountRetry
  <2>2. \A q \in Joined' : q \in Joined
    BY <1>9 DEF CountRetry, Goto, Return, Joined
  <2>3. \A j \in Request : Carried(j) => Carried(j)'
    BY <1>9 DEF CountRetry, Goto, Return, Carried, Owning
  <2> QED BY <2>1, <2>2, <2>3, CarryKept
<1>10. ASSUME NEW r \in Request, ResetJob(r) PROVE CarryInv'
  <2>1. CarryInv /\ UNCHANGED <<jb, table, wjob, wpc, settled, queue, reply>>
    BY <1>10 DEF ResetJob
  <2>2. pc[r] = "reset" /\ pc'[r] = "cache" /\ jb[r] = table /\ jb[r] \in Request
    BY <1>10 DEF ResetJob, Goto, HasJob
  <2>3. status'[jb[r]] = "pending" /\ \A q \in Request \ {jb[r]} : status'[q] = status[q]
    BY <1>10, <2>2 DEF ResetJob
  <2>4. \A j \in Request : Live(j)' <=> j = jb[r] \/ Live(j)
    BY <2>2, <2>3 DEF Live
  <2>5. ~ Live(None) /\ ~ Live(None)'
    BY DEF Live
  <2>6. \A q \in Request \ {r} : pc'[q] = pc[q]
    BY <1>10 DEF ResetJob, Goto
  <2>7. Joined' = Joined \cup {r}
    BY <2>1, <2>2, <2>6 DEF Joined
  <2>8. ASSUME NEW q \in Joined', q \notin settled' PROVE Live(jb[q])'
    <3>1. q \in Request /\ jb'[q] = jb[q] /\ (q = r \/ q \in Joined)
      BY <2>1, <2>7 DEF Joined
    <3>2. q # r => Live(jb[q])
      BY <2>1, <2>8, <3>1 DEF CarryInv, WaitsForLive
    <3>3. jb[q] \in Request \cup {None}
      BY <3>1
    <3> QED BY <2>1, <2>2, <2>4, <2>5, <3>1, <3>2, <3>3
  <2>9. LiveInTable'
    BY <2>1, <2>2, <2>4, <2>5 DEF CarryInv, LiveInTable
  <2>10. ASSUME NEW j \in Request, Known(j)', Live(j)' PROVE Carried(j)'
    <3>1. CASE j = jb[r]
      BY <2>1, <2>2, <3>1 DEF Carried, Owning
    <3>2. CASE j # jb[r]
      <4>1. Carried(j)
        BY <2>1, <2>4, <2>10, <3>2 DEF CarryInv, LiveCarried, Known
      <4> QED BY <2>1, <2>2, <2>6, <4>1 DEF Carried, Owning
    <3> QED BY <3>1, <3>2
  <2> QED BY <2>8, <2>9, <2>10 DEF CarryInv, WaitsForLive, LiveCarried
<1>11. ASSUME NEW r \in Request, CheckCache(r) PROVE CarryInv'
  <2>1. CarryInv /\ UNCHANGED <<table, status, jb, wjob, wpc, settled>>
    BY <1>11 DEF CheckCache
  <2>2. \A q \in Joined' : q \in Joined
    BY <1>11 DEF CheckCache, Goto, Return, Joined
  <2>3. \A j \in Request : Carried(j) => Carried(j)'
    BY <1>11 DEF CheckCache, Goto, Return, Carried, Owning
  <2> QED BY <2>1, <2>2, <2>3, CarryKept
<1>12. ASSUME NEW r \in Request, FinishCached(r) PROVE CarryInv'
  <2>1. CarryInv /\ UNCHANGED <<jb, table, wjob, wpc, queue>>
    BY <1>12 DEF FinishCached
  <2>2. jb[r] \in Request /\ pc[r] = "cached"
    BY <1>12 DEF FinishCached, HasJob
  <2>3. pc'[r] = "answer" /\ reply'[r] = "done"
    BY <1>12 DEF FinishCached, Return, Goto
  <2>4. \A q \in Request \ {r} : pc'[q] = pc[q] /\ reply'[q] = reply[q]
    BY <1>12 DEF FinishCached, Return, Goto
  <2>5. settled' = settled \cup {q \in Joined : jb[q] = jb[r]}
    BY <1>12 DEF FinishCached, Settle
  <2>6. \A j : Live(j)' => Live(j) /\ j # jb[r]
    BY <1>12, <2>2 DEF FinishCached, Live
  <2>7. \A j \in Request \cup {None} : Live(j) /\ j # jb[r] => Live(j)'
    BY <1>12, <2>2 DEF FinishCached, Live
  <2>8. Joined' \subseteq Joined
    BY <2>3, <2>4 DEF Joined
  <2>9. WaitsForLive'
    BY <2>1, <2>5, <2>7, <2>8 DEF CarryInv, WaitsForLive, Joined
  <2>10. LiveInTable'
    BY <2>1, <2>6 DEF CarryInv, LiveInTable
  <2>11. ASSUME NEW j \in Request, Known(j)', Live(j)' PROVE Carried(j)'
    <3>1. Carried(j) /\ j # jb[r]
      BY <2>1, <2>6, <2>11 DEF CarryInv, LiveCarried, Known
    <3> QED BY <2>1, <2>4, <3>1 DEF Carried
  <2> QED BY <2>9, <2>10, <2>11 DEF CarryInv, LiveCarried
<1>13. ASSUME NEW r \in Request, EnqueueTranscode(r) PROVE CarryInv'
  <2>1. CarryInv /\ UNCHANGED <<table, status, jb, wjob, wpc, settled>>
    BY <1>13 DEF EnqueueTranscode
  <2>2. \A q \in Joined' : q \in Joined
    BY <1>13 DEF EnqueueTranscode, Goto, Return, Joined
  <2>3. \A j \in Request : Carried(j) => Carried(j)'
    BY SMTT(30), <1>13 DEF EnqueueTranscode, Goto, Return, Carried, Owning
  <2> QED BY <2>1, <2>2, <2>3, CarryKept
<1>14. ASSUME NEW r \in Request, Answer(r) PROVE CarryInv'
  <2>1. CarryInv /\ UNCHANGED <<table, status, jb, wjob, wpc, settled>>
    BY <1>14 DEF Answer
  <2>2. \A q \in Joined' : q \in Joined
    BY <1>14 DEF Answer, Goto, Return, Joined
  <2>3. \A j \in Request : Carried(j) => Carried(j)'
    BY <1>14 DEF Answer, Goto, Return, Carried, Owning
  <2> QED BY <2>1, <2>2, <2>3, CarryKept
<1>15. ASSUME NEW r \in Request, CleanupTimer(r) PROVE CarryInv'
  <2>1. CarryInv /\ UNCHANGED <<status, jb, wjob, wpc, settled, queue, reply>>
    BY <1>15 DEF CleanupTimer
  <2>2. table' = None /\ ~ Live(table)
    BY <1>15 DEF CleanupTimer
  <2>3. \A j : Live(j)' <=> Live(j)
    BY <2>1 DEF Live
  <2>4. Joined' \subseteq Joined /\ \A q \in Request : pc[q] \in Owning => pc'[q] = pc[q]
    BY <1>15, <2>1 DEF CleanupTimer, Joined
  <2>5. WaitsForLive'
    BY <2>1, <2>3, <2>4 DEF CarryInv, WaitsForLive
  <2>6. LiveInTable'
    BY <2>1, <2>2, <2>3 DEF CarryInv, LiveInTable
  <2>7. ASSUME NEW j \in Request, Known(j)', Live(j)' PROVE Carried(j)'
    <3>1. Carried(j)
      BY <2>1, <2>2, <2>3, <2>7 DEF CarryInv, LiveCarried, Known
    <3> QED BY <2>1, <2>4, <3>1 DEF Carried
  <2> QED BY <2>5, <2>6, <2>7 DEF CarryInv, LiveCarried
<1>16. CASE Pop
  <2>1. CarryInv /\ UNCHANGED <<table, status, jb, wjob, requestVars, settled>>
    BY <1>16 DEF Pop
  <2>2. Joined' = Joined
    BY <2>1 DEF Joined
  <2>3. wpc \in Executing => wpc' \in Executing
    BY <1>16 DEF Pop, Executing
  <2>4. \A j \in Request : Carried(j) => Carried(j)'
    BY <1>16 DEF Pop, Carried, Executing
  <2> QED BY <2>1, <2>2, <2>3, <2>4, CarryKept
<1>17. CASE LoadJob
  <2>1. CarryInv /\ wpc = "load" /\ UNCHANGED <<table, status, requestVars, queue, settled>>
    BY <1>17 DEF LoadJob
  <2>2. Joined' = Joined
    BY <2>1 DEF Joined
  <2>3. \A j : (Live(j)' <=> Live(j)) /\ (Known(j)' <=> Known(j))
    BY <2>1 DEF Live, Known
  <2>4. \A q \in Request : Live(jb[q]) => jb[q] = table
    BY <2>1 DEF CarryInv, LiveInTable, Executing
  <2>5. table # None => wjob' = table /\ wpc' = "start"
    BY <1>17 DEF LoadJob
  <2>6. WaitsForLive'
    BY <2>1, <2>2, <2>3 DEF CarryInv, WaitsForLive
  <2>7. LiveInTable'
    BY <2>1, <2>3, <2>4 DEF LiveInTable
  <2>8. ASSUME NEW j \in Request, Known(j)', Live(j)' PROVE Carried(j)'
    <3>1. j = table
      BY <2>3, <2>4, <2>8 DEF Known
    <3> QED BY <2>5, <3>1 DEF Carried
  <2> QED BY <2>6, <2>7, <2>8 DEF CarryInv, LiveCarried
<1>18. CASE StartJob
  <2>1. CarryInv /\ UNCHANGED <<table, requestVars, queue, settled, wjob>>
    BY <1>18 DEF StartJob
  <2>2. wpc = "start" /\ wpc' = "stat" /\ wjob \in Request
    BY <1>18 DEF StartJob
  <2>3. status'[wjob] = "running" /\ \A q \in Request \ {wjob} : status'[q] = status[q]
    BY <1>18, <2>2 DEF StartJob
  <2>4. \A j \in Request : Live(j)' <=> j = wjob \/ Live(j)
    BY <2>2, <2>3 DEF Live
  <2>5. ~ Live(None) /\ ~ Live(None)'
    BY DEF Live
  <2>6. Joined' = Joined
    BY <2>1 DEF Joined
  <2>7. WaitsForLive'
    BY <2>1, <2>4, <2>5, <2>6 DEF CarryInv, WaitsForLive, Joined
  <2>8. LiveInTable'
    BY <2>1, <2>2, <2>4, <2>5 DEF CarryInv, LiveInTable, Executing
  <2>9. ASSUME NEW j \in Request, Known(j)', Live(j)' PROVE Carried(j)'
    <3>1. CASE j = wjob
      BY <2>1, <2>2, <3>1 DEF Carried, Executing
    <3>2. CASE j # wjob
      <4>1. Carried(j)
        BY <2>1, <2>4, <2>9, <3>2 DEF CarryInv, LiveCarried, Known
      <4> QED BY <2>1, <2>2, <3>2, <4>1 DEF Carried
    <3> QED BY <3>1, <3>2
  <2> QED BY <2>7, <2>8, <2>9 DEF CarryInv, LiveCarried
<1>19. CASE StatOutput
  <2>1. CarryInv /\ UNCHANGED <<table, status, jb, wjob, requestVars, settled>>
    BY <1>19 DEF StatOutput
  <2>2. Joined' = Joined
    BY <2>1 DEF Joined
  <2>3. wpc \in Executing => wpc' \in Executing
    BY <1>19 DEF StatOutput, Executing
  <2>4. \A j \in Request : Carried(j) => Carried(j)'
    BY <1>19 DEF StatOutput, Carried, Executing
  <2> QED BY <2>1, <2>2, <2>3, <2>4, CarryKept
<1>20. CASE StartFfmpeg
  <2>1. CarryInv /\ UNCHANGED <<table, status, jb, wjob, requestVars, settled>>
    BY <1>20 DEF StartFfmpeg
  <2>2. Joined' = Joined
    BY <2>1 DEF Joined
  <2>3. wpc \in Executing => wpc' \in Executing
    BY <1>20 DEF StartFfmpeg, Executing
  <2>4. \A j \in Request : Carried(j) => Carried(j)'
    BY <1>20 DEF StartFfmpeg, Carried, Executing
  <2> QED BY <2>1, <2>2, <2>3, <2>4, CarryKept
<1>21. CASE EndFfmpeg
  <2>1. CarryInv /\ UNCHANGED <<table, status, jb, wjob, requestVars, settled>>
    BY <1>21 DEF EndFfmpeg
  <2>2. Joined' = Joined
    BY <2>1 DEF Joined
  <2>3. wpc \in Executing => wpc' \in Executing
    BY <1>21 DEF EndFfmpeg, Executing
  <2>4. \A j \in Request : Carried(j) => Carried(j)'
    BY <1>21 DEF EndFfmpeg, Carried, Executing
  <2> QED BY <2>1, <2>2, <2>3, <2>4, CarryKept
<1>22. CASE Rename
  <2>1. CarryInv /\ UNCHANGED <<table, status, jb, wjob, requestVars, settled>>
    BY <1>22 DEF Rename
  <2>2. Joined' = Joined
    BY <2>1 DEF Joined
  <2>3. wpc \in Executing => wpc' \in Executing
    BY <1>22 DEF Rename, Executing
  <2>4. \A j \in Request : Carried(j) => Carried(j)'
    BY <1>22 DEF Rename, Carried, Executing
  <2> QED BY <2>1, <2>2, <2>3, <2>4, CarryKept
<1>23. CASE Succeed
  <2>1. CarryInv /\ UNCHANGED <<table, requestVars, queue, wjob>>
    BY <1>23 DEF Succeed
  <2>2. wjob \in Request /\ wpc \in {"succeed", "fail"} /\ wpc' = "cleanup"
    BY <1>23 DEF Succeed, Executing
  <2>3. settled' = settled \cup {q \in Joined : jb[q] = wjob}
    BY <1>23 DEF Succeed, Settle
  <2>4. \A j : Live(j)' => Live(j) /\ j # wjob
    BY <1>23, <2>2 DEF Succeed, Live
  <2>5. \A j \in Request \cup {None} : Live(j) /\ j # wjob => Live(j)'
    BY <1>23, <2>2 DEF Succeed, Live
  <2>6. Joined' = Joined
    BY <2>1 DEF Joined
  <2>7. WaitsForLive'
    BY <2>1, <2>3, <2>5, <2>6 DEF CarryInv, WaitsForLive, Joined
  <2>8. LiveInTable'
    BY <2>1, <2>4 DEF CarryInv, LiveInTable
  <2>9. ASSUME NEW j \in Request, Known(j)', Live(j)' PROVE Carried(j)'
    <3>1. Carried(j) /\ j # wjob
      BY <2>1, <2>4, <2>9 DEF CarryInv, LiveCarried, Known
    <3> QED BY <2>1, <2>2, <3>1 DEF Carried
  <2> QED BY <2>7, <2>8, <2>9 DEF CarryInv, LiveCarried
<1>24. CASE Fail
  <2>1. CarryInv /\ UNCHANGED <<table, requestVars, queue, wjob>>
    BY <1>24 DEF Fail
  <2>2. wjob \in Request /\ wpc \in {"succeed", "fail"} /\ wpc' = "cleanup"
    BY <1>24 DEF Fail, Executing
  <2>3. settled' = settled \cup {q \in Joined : jb[q] = wjob}
    BY <1>24 DEF Fail, Settle
  <2>4. \A j : Live(j)' => Live(j) /\ j # wjob
    BY <1>24, <2>2 DEF Fail, Live
  <2>5. \A j \in Request \cup {None} : Live(j) /\ j # wjob => Live(j)'
    BY <1>24, <2>2 DEF Fail, Live
  <2>6. Joined' = Joined
    BY <2>1 DEF Joined
  <2>7. WaitsForLive'
    BY <2>1, <2>3, <2>5, <2>6 DEF CarryInv, WaitsForLive, Joined
  <2>8. LiveInTable'
    BY <2>1, <2>4 DEF CarryInv, LiveInTable
  <2>9. ASSUME NEW j \in Request, Known(j)', Live(j)' PROVE Carried(j)'
    <3>1. Carried(j) /\ j # wjob
      BY <2>1, <2>4, <2>9 DEF CarryInv, LiveCarried, Known
    <3> QED BY <2>1, <2>2, <3>1 DEF Carried
  <2> QED BY <2>7, <2>8, <2>9 DEF CarryInv, LiveCarried
<1>25. CASE ScheduleCleanup
  <2>1. CarryInv /\ wpc = "cleanup"
      /\ UNCHANGED <<table, status, requestVars, queue, settled>>
    BY <1>25 DEF ScheduleCleanup
  <2>2. Joined' = Joined
    BY <2>1 DEF Joined
  <2>3. \A j : (Live(j)' <=> Live(j)) /\ (Known(j)' <=> Known(j))
    BY <2>1 DEF Live, Known
  <2>4. WaitsForLive'
    BY <2>1, <2>2, <2>3 DEF CarryInv, WaitsForLive
  <2>5. LiveInTable'
    BY <2>1, <2>3 DEF CarryInv, LiveInTable, Executing
  <2>6. ASSUME NEW j \in Request, Known(j)', Live(j)' PROVE Carried(j)'
    BY <2>1, <2>3, <2>6 DEF CarryInv, LiveCarried, Carried, Executing
  <2> QED BY <2>4, <2>5, <2>6 DEF CarryInv, LiveCarried
<1>26. CASE Purge
  <2>1. CarryInv /\ UNCHANGED <<table, status, jb, wjob, requestVars, settled>>
    BY <1>26 DEF Purge
  <2>2. Joined' = Joined
    BY <2>1 DEF Joined
  <2>3. wpc \in Executing => wpc' \in Executing
    BY <1>26 DEF Purge, Executing
  <2>4. \A j \in Request : Carried(j) => Carried(j)'
    BY <1>26 DEF Purge, Carried, Executing
  <2> QED BY <2>1, <2>2, <2>3, <2>4, CarryKept
<1>27. CASE Crash
  BY <1>27 DEF Crash
<1>28. CASE UNCHANGED vars
  <2>1. CarryInv /\ UNCHANGED vars
    BY <1>28 DEF vars
  <2> QED BY <2>1 DEF vars, CarryInv, WaitsForLive, LiveInTable, LiveCarried, Joined, Live,
             Known, Carried
<1> QED BY <1>1, <1>2, <1>3, <1>4, <1>5, <1>6, <1>7, <1>8, <1>9, <1>10, <1>11,
       <1>12, <1>13, <1>14, <1>15, <1>16, <1>17, <1>18, <1>19, <1>20, <1>21, <1>22,
       <1>23, <1>24, <1>25, <1>26, <1>27, <1>28
       DEF Next, Arrive, RequestStep, WorkerStep
-----------------------------------------------------------------------------
(* Everything that is needed at once: the types, the jobs of requests and    *)
(* worker, the whole output, the kept sources, and the promise.              *)
Promise == ~crashed /\ ~cut => CarryInv
TranscodeInv == TypeOK /\ JobInv /\ WholeInv /\ Answered /\ SourceInv /\ Promise

LEMMA TranscodeInvariant == Spec => []TranscodeInv
<1>1. Init => TranscodeInv
  <2> SUFFICES ASSUME Init PROVE TranscodeInv
    OBVIOUS
  <2> USE ConstantsAssumption DEF Init
  <2>1. TypeOK
    <3>1. pc \in [Request -> PcState] /\ wpc \in WorkerState
      BY DEF PcState, WorkerState
    <3>2. reply \in [Request -> Reply] /\ status \in [Request -> Status]
      BY DEF Reply, Status
    <3>3. queue \in Seq(Request)
      OBVIOUS
    <3> QED BY <3>1, <3>2, <3>3 DEF TypeOK
  <2>2. JobInv
    BY DEF JobInv, HasJob, Executing
  <2>3. WholeInv
    BY DEF WholeInv, DoneIsWhole
  <2>4. Answered /\ SourceInv
    BY DEF Answered, SourceInv, Fetched, Waiting
  <2>5. Joined = {} /\ \A r \in Request : ~ Live(jb[r])
    BY DEF Joined, Live
  <2>6. \A j \in Request : ~ Known(j)
    BY DEF Known
  <2>7. CarryInv
    BY <2>5, <2>6 DEF CarryInv, WaitsForLive, LiveInTable, LiveCarried
  <2> QED BY <2>1, <2>2, <2>3, <2>4, <2>7 DEF TranscodeInv, Promise
<1>2. TranscodeInv /\ [Next]_vars => TranscodeInv'
  BY TypeStays, JobStays, WholeStays, SourceStays, CarryStays DEF TranscodeInv, Promise
<1> QED BY <1>1, <1>2, PTL DEF Spec

(* Every request, job and worker step keeps the variables in their ranges,   *)
(* and no step of StartTranscodeJob or executeTranscodeRequest uses a job it *)
(* does not have.                                                            *)
THEOREM TranscodeTypeCorrect == Spec => [](TypeOK /\ JobInv)
<1>1. TranscodeInv => TypeOK /\ JobInv
  BY DEF TranscodeInv
<1> QED BY <1>1, TranscodeInvariant, PTL

(* GenerateTranscode encodes to a .part file and renames it: however many    *)
(* requests race, whatever fails, and wherever the server crashes, no half   *)
(* encoded file is under the name that is served, and no job is called done  *)
(* before an encoding has ended.                                             *)
THEOREM OutputIsWhole == Spec => []DoneIsWhole
<1>1. TranscodeInv => DoneIsWhole
  BY DEF TranscodeInv, WholeInv
<1> QED BY <1>1, TranscodeInvariant, PTL

(* The handler that queued a request leaves the temporary source file to the *)
(* worker, and no other handler touches it: it exists until the worker is    *)
(* through with it.                                                          *)
THEOREM SourcesKept == Spec => []SourceKept
<1>1. ASSUME TranscodeInv PROVE SourceKept
  <2> USE <1>1 DEF TranscodeInv, TypeOK
  <2>1. ASSUME NEW r \in Request, r \in ToSet(queue) PROVE r \in tmp
    <3>1. PICK i \in 1 .. Len(queue) : r = queue[i]
      BY <2>1 DEF ToSet
    <3> QED BY <3>1 DEF SourceInv, Given
  <2>2. ASSUME NEW r \in Request, r = cur PROVE r \in tmp
    BY <2>2, ConstantsAssumption DEF SourceInv, Given
  <2> QED BY <2>1, <2>2 DEF SourceKept
<1> QED BY <1>1, TranscodeInvariant, PTL

(* A client that was told "pending" or "running" saw its job end once the    *)
(* server is quiet, unless it crashed or a cleanup timer, a delete or a      *)
(* retry took a live job out of the table: no job is left behind by the      *)
(* races between StartTranscodeJob and the worker alone.                     *)
THEOREM WaitingHonoured == Spec => []PendingHonoured
<1>1. ASSUME TranscodeInv, Quiet, ~crashed, ~cut,
             NEW r \in Request, reply[r] \in {"pending", "running"}, r \notin settled
      PROVE  FALSE
  <2>1. TypeOK /\ JobInv /\ Answered /\ CarryInv
    BY <1>1 DEF TranscodeInv, Promise
  <2>2. r \in Joined
    BY <1>1, <2>1 DEF Answered, Waiting, Joined
  <2>3. Live(jb[r])
    BY <1>1, <2>1, <2>2 DEF CarryInv, WaitsForLive
  <2>4. jb[r] \in Request /\ Known(jb[r])
    BY <2>1, <2>3 DEF TypeOK, Live, Known
  <2>5. Carried(jb[r])
    BY <2>1, <2>3, <2>4 DEF CarryInv, LiveCarried
  <2>6. queue = <<>> /\ wpc = "wait" /\ \A q \in Request : pc[q] \notin Owning
    BY <1>1 DEF Quiet, Running, Owning
  <2> QED BY <2>5, <2>6 DEF Carried, Executing
<1>2. TranscodeInv => PendingHonoured
  BY <1>1 DEF PendingHonoured
<1> QED BY <1>2, TranscodeInvariant, PTL
=============================================================================
