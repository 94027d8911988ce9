--------------------------- MODULE AsyncWriteQueue ---------------------------
(***************************************************************************)
(* The batch writer of internal/store/db.go: callers put jobs in a         *)
(* buffered channel, one goroutine collects them in a batch and writes the *)
(* batch in a transaction.  A full channel makes the caller write the job  *)
(* itself; a failed transaction is retried statement by statement.         *)
(***************************************************************************)
EXTENDS Naturals, Sequences, SequencesExt

CONSTANTS Job,           \* the Async* calls; each makes one job
          Pairs,         \* the jobs of kind "file_and_status": two statements
          QueueSize,     \* asyncQSize
          BatchSize,     \* the 500 of run
          MaxOpenConns,  \* of the connection pool: 1 with SQLite, 20 with MySQL
          DbFaults,      \* may a statement, a BEGIN or a COMMIT fail?
          MayClose       \* may the database be closed?

ASSUME ConstantsAssumption ==
    /\ Pairs \subseteq Job
    /\ QueueSize \in Nat \ {0}
    /\ BatchSize \in Nat \ {0}
    /\ MaxOpenConns \in Nat \ {0}
    /\ DbFaults \in BOOLEAN
    /\ MayClose \in BOOLEAN

Statements(j) == IF j \in Pairs THEN 1 .. 2 ELSE {1}
Effects(j) == {j} \X Statements(j)

VARIABLES
    ch,          \* the channel of jobs
    closed,      \* is the channel "closed" closed?
    connClosed,  \* is the connection pool closed?
    call,        \* state of each Async* call
    own,         \* the statement a caller that writes for itself is at
    run,         \* where the goroutine run (or the flush it calls) is
    batch,       \* its batch
    pos, stmt,   \* the job of the batch, and its statement, that is next
    tx,          \* effects of the open transaction
    rows,        \* committed effects: <<job, statement>>
    dropped,     \* jobs rolled back with a batch in which another one failed
    failedSync   \* jobs of which a statement outside a transaction failed

queueVars == <<ch, closed, connClosed, call, own, run, batch, pos, stmt, tx, rows,
          dropped, failedSync>>
callVars == <<call, own>>
closeVars == <<closed, connClosed>>

QueueInit ==
    /\ ch = <<>>
    /\ closed = FALSE /\ connClosed = FALSE
    /\ call = [j \in Job |-> "idle"]
    /\ own = [j \in Job |-> 1]
    /\ run = "select"
    /\ batch = <<>> /\ pos = 0 /\ stmt = 1
    /\ tx = {} /\ rows = {}
    /\ dropped = {} /\ failedSync = {}

MayFail == DbFaults \/ connClosed
TxOpen == run \in {"exec", "commit"}
Current == batch[pos]
LastStatement == stmt + 1 \notin Statements(Current)

(* flush returns and run empties the batch. *)
Flushed == run' = "select" /\ batch' = <<>> /\ pos' = 0 /\ stmt' = 1
-----------------------------------------------------------------------------
(* Mutations: plausible mistakes that the properties must notice.           *)

(* the caller waits for space instead of writing itself, and forgets to *)
FallBackDropping(j) ==
    /\ call[j] = "idle"
    /\ Len(ch) >= QueueSize
    /\ call' = [call EXCEPT ![j] = "returned"]
    /\ UNCHANGED <<ch, closeVars, own, run, batch, pos, stmt, tx, rows, dropped,
                   failedSync>>

(* a failed COMMIT is logged and the batch forgotten *)
CommitForgetting ==
    /\ run = "commit"
    /\ \/ rows' = rows \cup tx
       \/ MayFail /\ UNCHANGED rows
    /\ tx' = {}
    /\ Flushed
    /\ UNCHANGED <<ch, closeVars, callVars, dropped, failedSync>>

(* executeJob forgets the second statement of a pair *)
ExecFirstOnly ==
    /\ run = "exec"
    /\ tx' = tx \cup {<<Current, stmt>>}
    /\ IF pos < Len(batch)
       THEN pos' = pos + 1 /\ UNCHANGED run
       ELSE run' = "commit" /\ UNCHANGED pos
    /\ UNCHANGED <<ch, closeVars, callVars, batch, stmt, rows, dropped, failedSync>>
-----------------------------------------------------------------------------
(* Async*: the select sends the job if the channel has room. *)
Enqueue(j) ==
    /\ call[j] = "idle"
    /\ Len(ch) < QueueSize
    /\ ch' = Append(ch, j)
    /\ call' = [call EXCEPT ![j] = "queued"]
    /\ UNCHANGED <<closeVars, own, run, batch, pos, stmt, tx, rows, dropped,
                   failedSync>>

(* Async*, the default case: the caller will write synchronously. *)
FallBack(j) ==
    /\ call[j] = "idle"
    /\ Len(ch) >= QueueSize
    /\ call' = [call EXCEPT ![j] = "sync"]
    /\ UNCHANGED <<ch, closeVars, own, run, batch, pos, stmt, tx, rows, dropped,
                   failedSync>>

(* Async*: the caller's own statements (SaveChunk; CreateFile, then         *)
(* UpdateUploadSessionStatus), their errors ignored.  With one connection   *)
(* they wait for the transaction to end.                                    *)
SyncWrite(j) ==
    /\ call[j] = "sync"
    /\ MaxOpenConns > 1 \/ ~TxOpen
    /\ \/ /\ ~connClosed
          /\ rows' = rows \cup {<<j, own[j]>>}
          /\ UNCHANGED failedSync
       \/ /\ MayFail
          /\ failedSync' = failedSync \cup {j}
          /\ UNCHANGED rows
    /\ IF own[j] + 1 \in Statements(j)
       THEN own' = [own EXCEPT ![j] = @ + 1] /\ UNCHANGED call
       ELSE call' = [call EXCEPT ![j] = "returned"] /\ UNCHANGED own
    /\ UNCHANGED <<ch, closeVars, run, batch, pos, stmt, tx, dropped>>
-----------------------------------------------------------------------------
(* run: the select receives a job.  The batch is always empty here, so the  *)
(* ticker's case has nothing to flush.                                      *)
Receive ==
    /\ run = "select"
    /\ ch # <<>>
    /\ batch' = Append(batch, Head(ch))
    /\ ch' = Tail(ch)
    /\ run' = "drain"
    /\ UNCHANGED <<closeVars, callVars, pos, stmt, tx, rows, dropped, failedSync>>

(* run: more jobs join until the batch is full or the channel empty. *)
Drain ==
    /\ run = "drain"
    /\ IF Len(batch) < BatchSize /\ ch # <<>>
       THEN /\ batch' = Append(batch, Head(ch))
            /\ ch' = Tail(ch)
            /\ UNCHANGED run
       ELSE /\ run' = "begin"
            /\ UNCHANGED <<ch, batch>>
    /\ UNCHANGED <<closeVars, callVars, pos, stmt, tx, rows, dropped, failedSync>>

(* flush: BEGIN, or every job on its own if that fails. *)
Begin ==
    /\ run = "begin"
    /\ \/ ~connClosed /\ run' = "exec"
       \/ MayFail /\ run' = "redo"
    /\ pos' = 1
    /\ UNCHANGED <<ch, closeVars, callVars, batch, stmt, tx, rows, dropped,
                   failedSync>>

(* flush: the next statement in the transaction.  When it fails the whole   *)
(* transaction is rolled back and only its own job is tried again.          *)
Exec ==
    /\ run = "exec"
    /\ \/ /\ tx' = tx \cup {<<Current, stmt>>}
          /\ IF ~LastStatement
             THEN stmt' = stmt + 1 /\ UNCHANGED <<run, pos>>
             ELSE /\ stmt' = 1
                  /\ IF pos < Len(batch)
                     THEN pos' = pos + 1 /\ UNCHANGED run
                     ELSE run' = "commit" /\ UNCHANGED pos
          /\ UNCHANGED dropped
       \/ /\ DbFaults
          /\ tx' = {}
          /\ run' = "retry"
          /\ stmt' = 1
          /\ dropped' = dropped \cup (ToSet(batch) \ {Current})
          /\ UNCHANGED pos
    /\ UNCHANGED <<ch, closeVars, callVars, batch, rows, failedSync>>

(* flush: COMMIT.  One that reports an error may have taken effect or not;  *)
(* every job is then tried on its own.                                      *)
Commit ==
    /\ run = "commit"
    /\ \/ /\ rows' = rows \cup tx
          /\ Flushed
       \/ /\ DbFaults
          /\ rows' \in {rows, rows \cup tx}
          /\ run' = "redo" /\ pos' = 1 /\ stmt' = 1
          /\ UNCHANGED batch
    /\ tx' = {}
    /\ UNCHANGED <<ch, closeVars, callVars, dropped, failedSync>>

(* execSync of the failed job ("retry") or of all jobs ("redo"), one        *)
(* statement at a time; an error ends the job.                              *)
ExecSync ==
    /\ run \in {"retry", "redo"}
    /\ \E done \in BOOLEAN :
         /\ IF done THEN ~connClosed ELSE MayFail
         /\ rows' = IF done THEN rows \cup {<<Current, stmt>>} ELSE rows
         /\ failedSync' = IF done THEN failedSync ELSE failedSync \cup {Current}
         /\ IF done /\ ~LastStatement
            THEN stmt' = stmt + 1 /\ UNCHANGED <<run, batch, pos>>
            ELSE IF run = "redo" /\ pos < Len(batch)
                 THEN pos' = pos + 1 /\ stmt' = 1 /\ UNCHANGED <<run, batch>>
                 ELSE Flushed
    /\ UNCHANGED <<ch, closeVars, callVars, tx, dropped>>
-----------------------------------------------------------------------------
(* Close: the signal to run, then the pool.  A transaction that is open     *)
(* keeps its connection until it ends.                                      *)
Close ==
    /\ MayClose
    /\ ~closed
    /\ closed' = TRUE
    /\ UNCHANGED <<ch, connClosed, callVars, run, batch, pos, stmt, tx, rows,
                   dropped, failedSync>>

CloseConn ==
    /\ closed /\ ~connClosed
    /\ connClosed' = TRUE
    /\ UNCHANGED <<ch, closed, callVars, run, batch, pos, stmt, tx, rows, dropped,
                   failedSync>>

(* run: the select sees the signal; it flushes its (empty) batch and ends,  *)
(* whatever the channel still holds.                                        *)
Stop ==
    /\ run = "select"
    /\ closed
    /\ run' = "stopped"
    /\ UNCHANGED <<ch, closeVars, callVars, batch, pos, stmt, tx, rows, dropped,
                   failedSync>>

RunStep == Receive \/ Drain \/ Begin \/ Exec \/ Commit \/ ExecSync \/ Stop

QueueNext ==
    \/ \E j \in Job : Enqueue(j) \/ FallBack(j) \/ SyncWrite(j)
    \/ RunStep
    \/ Close \/ CloseConn

QueueSpec == QueueInit /\ [][QueueNext]_queueVars

(* run's goroutine is scheduled, and database/sql serves the callers that   *)
(* wait for a connection in their order.                                    *)
FairSpec ==
    /\ QueueSpec
    /\ WF_queueVars(RunStep)
    /\ \A j \in Job : SF_queueVars(SyncWrite(j))
-----------------------------------------------------------------------------
Written(j) == Effects(j) \subseteq rows
Accounted(j) == Written(j) \/ j \in dropped \cup failedSync

(* run will come to the job; or it has ended, and nobody receives what the  *)
(* channel holds.                                                           *)
Pending(j) == j \in ToSet(batch) \/ (run # "stopped" /\ j \in ToSet(ch))
Abandoned(j) == closed /\ run = "stopped" /\ j \in ToSet(ch)

(* A job is lost in three ways only: with a batch in which another job      *)
(* failed, because its own synchronous statement failed, or in the channel  *)
(* when run has seen the signal of Close (db.go:106 says that it flushes    *)
(* the remaining jobs).  A BEGIN or COMMIT that fails loses nothing, and     *)
(* neither does a full channel.                                             *)
LossExplained ==
    \A j \in Job : call[j] \in {"queued", "returned"} /\ ~Pending(j)
                   => Accounted(j) \/ Abandoned(j)

(* db.go promises that a file record and its session's status are written   *)
(* together.  They are found apart only when the caller wrote them itself,  *)
(* while execSync is between them, or after one of them failed on its own.  *)
SplitExplained ==
    \A j \in Pairs :
        \/ <<j, 1>> \in rows <=> <<j, 2>> \in rows
        \/ call[j] \in {"sync", "returned"}
        \/ j \in failedSync
        \/ run \in {"retry", "redo"} /\ Current = j /\ stmt = 2

(* Unless the database is closed, every queued job is written or given up;  *)
(* and every caller that writes for itself returns.                         *)
EveryJobSettled ==
    \A j \in Job : /\ call[j] = "queued" ~> Accounted(j) \/ closed
                   /\ call[j] = "sync" ~> call[j] = "returned"
=============================================================================
