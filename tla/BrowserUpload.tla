--------------------------- MODULE BrowserUpload ----------------------------
(***************************************************************************)
(* The upload tasks of the web page (web/app.js, UploadTask): run() checks   *)
(* for an instant upload, opens or resumes a session, sends the missing     *)
(* chunks and completes; the user pauses, resumes, cancels and retries.     *)
(* resume() starts run() again unless _running is set, which nothing sets,  *)
(* so that a task may have two runs; they share the fields of the task.     *)
(***************************************************************************)
EXTENDS TransferServer, Integers

CONSTANTS Browser,    \* the tasks
          BrowserParts,  \* the chunk sizes of the settings
          HeadLen     \* how much of the file calcFileHash reads

ASSUME BrowserAssumption == BrowserParts \subseteq Nat \ {0}

VARIABLES
    file, part,       \* the file of each task and its chunk size
    status,        \* "none": the task does not take part
    paused, cancelled,
    insists,          \* strategy is "overwrite" or "rename"
    bsess, total, received,
    starts,
    via,              \* history: the session the task was completed with
    bpc, missing, failed, tries,   \* of each run
    doubled,          \* history: tasks that had two runs at once
    skipped           \* history: tasks the user chose to skip

task == <<file, part, status, paused, cancelled, insists, bsess, total, received, starts, via>>
run == <<bpc, missing, failed, tries>>
browser == <<task, run, doubled, skipped>>

Runs == Browser \X {1, 2}
Of(b) == {b} \X {1, 2}
Alive(r) == bpc[r] # "off"
RunsOf(b) == {r \in Of(b) : Alive(r)}
BAt(r, where) == bpc[r] = where
BGoto(r, where) == bpc' = [bpc EXCEPT ![r] = where]
Becomes(b, what) == status' = [status EXCEPT ![b] = what]
HeadOf(content) == SubSeq(content, 1, Min({HeadLen, Len(content)}))
(* calcFileHash: the hash of the head, or name and size if that fails.       *)
FileHash(content, k) == IF k = "head" THEN <<k, HeadOf(content)>> ELSE <<k, <<Len(content)>> >>
NoIndex == 0 - 1      \* the index of a chunk that is not there: undefined

(* run(): a free slot stands for the new call.  "lapsed" are other runs that  *)
(* learn by the way of a chunk to send that is not there.                   *)
StartRun(b, lapsed) ==
    /\ starts[b] < scene.starts
    /\ starts' = [starts EXCEPT ![b] = @ + 1]
    /\ \E r \in Of(b) :
          /\ ~Alive(r) /\ (RunsOf(b) = {} => r[2] = 1)
          /\ BGoto(r, "check")
          /\ failed' = [q \in Runs |->
                           IF q = r THEN {}
                           ELSE failed[q] \cup IF q \in lapsed THEN {NoIndex} ELSE {}]
          /\ missing' = [missing EXCEPT ![r] = {}]
          /\ tries' = [tries EXCEPT ![r] = 0]
    /\ doubled' = IF RunsOf(b) = {} THEN doubled ELSE doubled \cup {b}

(* The queue of handleFiles() comes to the task, cancelled or not.           *)
RunOne(b) ==
    /\ starts[b] = 0 /\ status[b] # "none"
    /\ Becomes(b, "uploading")
    /\ StartRun(b, {})
    /\ UNCHANGED <<server, file, part, paused, cancelled, insists, bsess, total,
                   received, via, skipped>>

Pause(b) ==
    /\ status[b] = "uploading" /\ ~paused[b]
    /\ paused' = [paused EXCEPT ![b] = TRUE] /\ Becomes(b, "paused")
    /\ UNCHANGED <<server, file, part, cancelled, insists, bsess, total, received,
                   starts, via, run, doubled, skipped>>

(* resume() asks for the flag alone: the panel, redrawn now and then, may    *)
(* still have the button of a task that ended while it was paused.  Workers *)
(* that waited all take a chunk when they wake, those that find none left   *)
(* too: they send the chunk "undefined".                                    *)
Waiting(b) ==
    {r \in RunsOf(b) : BAt(r, "chunks") /\ missing[r] # {} /\ tries[r] = 0 /\ ~cancelled[b]}
Resume(b) ==
    /\ paused[b]
    /\ paused' = [paused EXCEPT ![b] = FALSE]
    /\ Becomes(b, "uploading")
    /\ \E lapsed \in SUBSET Waiting(b) : StartRun(b, lapsed)
    /\ UNCHANGED <<server, file, part, cancelled, insists, bsess, total, received, via,
                   skipped>>

\* MUTANT of Abort: what has ended is cancelled as well.
AbortEnded(b) ==
    /\ status[b] \notin {"none", "cancelled"}
    /\ cancelled' = [cancelled EXCEPT ![b] = TRUE]
    /\ Becomes(b, "cancelled")
    /\ UNCHANGED <<server, file, part, paused, insists, bsess, total, received,
                   starts, via, run, doubled, skipped>>

(* Also of a task still in the queue.  Requests for chunks that are under    *)
(* way are aborted, and may arrive.                                         *)
Abort(b) ==
    /\ status[b] \in {"pending", "uploading", "paused"}
    /\ cancelled' = [cancelled EXCEPT ![b] = TRUE]
    /\ Becomes(b, "cancelled")
    /\ UNCHANGED <<server, file, part, paused, insists, bsess, total, received,
                   starts, via, run, doubled, skipped>>

(* A pause of the run that failed is not lifted.                             *)
Retry(b) ==
    /\ status[b] = "error"
    /\ cancelled' = [cancelled EXCEPT ![b] = FALSE]
    /\ Becomes(b, "uploading")
    /\ bsess' = [bsess EXCEPT ![b] = 0] /\ received' = [received EXCEPT ![b] = {}]
    /\ StartRun(b, {})
    /\ UNCHANGED <<server, file, part, paused, insists, total, via, skipped>>

\* MUTANT of Throw: the error is not shown.
ThrowSilently(r) ==
    /\ BGoto(r, "off")
    /\ UNCHANGED status

(* The catch of run().                                                       *)
Throw(r) ==
    /\ BGoto(r, "off")
    /\ Becomes(r[1], IF cancelled[r[1]] THEN "cancelled" ELSE "error")

(* tryInstantUpload: a conflict and every error mean no.                     *)
TryInstantUpload(r) ==
    LET b == r[1]
        hit == CheckAnswer(file[b], Len(file[b])) = "instant"
        next == IF cancelled[b] THEN "off" ELSE "init"
    IN  /\ BAt(r, "check")
        /\ \/ /\ Works /\ hit /\ Share(file[b], b)
              /\ BGoto(r, "off") /\ Becomes(b, "done")
           \/ Works /\ ~hit /\ BGoto(r, next) /\ UNCHANGED <<rows, status>>
           \/ /\ Fails
              /\ \/ UNCHANGED rows
                 \/ hit /\ Share(file[b], b)
              /\ BGoto(r, next) /\ UNCHANGED status
        /\ UNCHANGED <<scene, sess, file, part, paused, cancelled, insists, bsess, total,
                       received, starts, via, missing, failed, tries, doubled, skipped>>

(* init(): the answer's chunk size is not read.                              *)
InitSession(r) ==
    LET b == r[1]
        Opens(key) == InitUpload(key, Len(file[b]), part[b], <<file[b], part[b]>>)
        Key(k) == FileHash(file[b], k)
        Takes(key) ==
            /\ ~Refused(insists[b]) /\ Opens(key)
            /\ bsess' = [bsess EXCEPT ![b] = Target(key)]
            /\ total' = [total EXCEPT ![b] = sess'[Target(key)].total]
            /\ BGoto(r, "resume") /\ UNCHANGED status
    IN  /\ BAt(r, "init")
        /\ \/ /\ Works /\ Refused(insists[b]) /\ BGoto(r, "ask")
              /\ UNCHANGED <<sess, status, bsess, total>>
           \/ Works /\ Takes(Key("head"))
           \/ Fails /\ Takes(Key("size"))
           \/ /\ Fails /\ Throw(r)
              /\ \/ UNCHANGED sess
                 \/ ~Refused(insists[b]) /\ \E k \in {"head", "size"} : Opens(Key(k))
              /\ UNCHANGED <<bsess, total>>
        /\ UNCHANGED <<scene, rows, file, part, paused, cancelled, insists, received,
                       starts, via, missing, failed, tries, doubled, skipped>>

AskConflict(r) ==
    LET b == r[1]
    IN  /\ BAt(r, "ask")
        /\ \/ /\ BGoto(r, "off") /\ Becomes(b, "done")
              /\ skipped' = skipped \cup {b} /\ UNCHANGED insists
           \/ /\ BGoto(r, "init") /\ insists' = [insists EXCEPT ![b] = TRUE]
              /\ UNCHANGED <<status, skipped>>
        /\ UNCHANGED <<server, file, part, paused, cancelled, bsess, total, received,
                       starts, via, missing, failed, tries, doubled>>

(* checkResumable(), then the list uploadAll() makes of what is missing.     *)
(* Without Redis an empty list comes as null, and is not taken over.        *)
CheckResumable(r) ==
    LET b == r[1]
    IN  /\ BAt(r, "resume") /\ BGoto(r, "chunks")
        /\ \/ /\ bsess[b] # 0 /\ Works
              /\ LET known == ReportedChunks(bsess[b])
                     null == scene.path = "sqlite" /\ known = {}
                 IN  received' = [received EXCEPT ![b] = IF null THEN @ ELSE known]
           \/ bsess[b] # 0 /\ Fails /\ UNCHANGED received
           \/ bsess[b] = 0 /\ Works /\ UNCHANGED received
        /\ missing' = [missing EXCEPT ![r] = (0 .. total[b] - 1) \ received'[b]]
        /\ UNCHANGED <<scene, rows, sess, file, part, status, paused, cancelled, insists,
                       bsess, total, starts, via, failed, tries, doubled, skipped>>

Open(b) == bsess[b] # 0 /\ Accepts(bsess[b])
Deliver(b, i) ==
    IF Open(b)
    THEN UploadChunk(bsess[b], i, Piece(file[b], part[b], i), <<file[b], part[b]>>)
    ELSE UNCHANGED sess

(* uploadChunk(): the slice is cut with the chunk size of the task.  A round  *)
(* of retries, once it has begun, asks for pause no more, and leaves out    *)
(* what another run has sent meanwhile.                                     *)
PostChunk(r) ==
    LET b == r[1]
    IN  /\ BAt(r, "chunks") /\ ~cancelled[b]
        /\ ~paused[b] \/ tries[r] > 0
        /\ \E i \in missing[r] :
              LET good == Open(b) /\ i # NoIndex
                  skip == tries[r] > 0 /\ i \in received[b]
              IN  /\ missing' = [missing EXCEPT ![r] = @ \ {i}]
                  /\ \/ skip /\ Works /\ UNCHANGED <<sess, received, failed>>
                     \/ /\ ~skip /\ Works /\ good /\ Deliver(b, i)
                        /\ received' = [received EXCEPT ![b] = @ \cup {i}]
                        /\ UNCHANGED failed
                     \/ /\ ~skip
                        /\ \/ Fails /\ (UNCHANGED sess \/ (i # NoIndex /\ Deliver(b, i)))
                           \/ Works /\ ~good /\ UNCHANGED sess
                        /\ failed' = [failed EXCEPT ![r] = @ \cup {i}]
                        /\ UNCHANGED received
        /\ UNCHANGED <<scene, rows, file, part, status, paused, cancelled, insists, bsess,
                       total, starts, via, bpc, tries, doubled, skipped>>

(* The workers are through: what failed is tried twice more.  A cancelled    *)
(* upload returns from uploadAll() like a complete one.                     *)
EndChunks(r) ==
    LET b == r[1]
    IN  /\ BAt(r, "chunks") /\ (missing[r] = {} \/ cancelled[b])
        /\ IF cancelled[b] \/ failed[r] = {}
           THEN BGoto(r, "complete") /\ UNCHANGED <<status, missing, failed, tries>>
           ELSE IF tries[r] < 2
           THEN /\ ~paused[b]
                /\ missing' = [missing EXCEPT ![r] = failed[r]]
                /\ failed' = [failed EXCEPT ![r] = {}]
                /\ tries' = [tries EXCEPT ![r] = @ + 1]
                /\ UNCHANGED <<bpc, status>>
           ELSE Throw(r) /\ UNCHANGED <<missing, failed, tries>>
        /\ UNCHANGED <<server, file, part, paused, cancelled, insists, bsess, total,
                       received, starts, via, doubled, skipped>>

CompleteTask(r) ==
    LET b == r[1]
        good == bsess[b] # 0 /\ Complete(bsess[b])
        effect == CompleteUpload(bsess[b], b)
    IN  /\ BAt(r, "complete")
        /\ \/ /\ Works /\ good /\ effect /\ BGoto(r, "off") /\ Becomes(b, "done")
              /\ via' = [via EXCEPT ![b] = bsess[b]]
           \/ Works /\ ~good /\ Throw(r) /\ UNCHANGED <<rows, sess, via>>
           \/ /\ Fails /\ Throw(r) /\ UNCHANGED via
              /\ \/ UNCHANGED <<rows, sess>>
                 \/ good /\ effect
        /\ UNCHANGED <<scene, file, part, paused, cancelled, insists, bsess, total, received,
                       starts, missing, failed, tries, doubled, skipped>>

(* A chunk whose request was aborted reaches the server all the same.        *)
LateChunk(r) ==
    LET b == r[1]
    IN  /\ cancelled[b] /\ bsess[b] # 0
        /\ \E i \in missing[r] \ {NoIndex} :
              /\ missing' = [missing EXCEPT ![r] = @ \ {i}]
              /\ Deliver(b, i)
        /\ UNCHANGED <<scene, rows, faults, task, bpc, failed, tries, doubled, skipped>>

User(b) == RunOne(b) \/ Pause(b) \/ Resume(b) \/ Abort(b) \/ Retry(b)
RunStep(r) ==
    \/ TryInstantUpload(r) \/ InitSession(r) \/ AskConflict(r) \/ CheckResumable(r)
    \/ PostChunk(r) \/ EndChunks(r) \/ CompleteTask(r)
=============================================================================
