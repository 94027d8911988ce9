---------------------------- MODULE StoreProofs -----------------------------
(***************************************************************************)
(* Proofs about the package internal/store: the batch writer of its        *)
(* database (AsyncWriteQueue) and the migrations when it is opened         *)
(* (Migrate).                                                              *)
(*                                                                         *)
(* Of the writer, for any number of jobs, any sizes of the channel and the *)
(* batch, and with or without failing statements: which jobs can be lost,  *)
(* and when a pair of statements is found half done. Of the migrations,    *)
(* for any services that start, fail and start again at the same time, and *)
(* any databases they may find: what a service that has opened the         *)
(* database can rely on.                                                   *)
(***************************************************************************)
EXTENDS AsyncWriteQueue, Migrate, TLAPS

-----------------------------------------------------------------------------
(* The batch writer.                                                        *)

CallState == {"idle", "queued", "sync", "returned"}
RunState == {"select", "drain", "begin", "exec", "commit", "retry", "redo", "stopped"}
Effect == Job \X (1 .. 2)

QueueTypeOK ==
    /\ ch \in Seq(Job)
    /\ call \in [Job -> CallState]
    /\ own \in [Job -> 1 .. 2]
    /\ run \in RunState
    /\ batch \in Seq(Job)
    /\ pos \in Nat
    /\ stmt \in 1 .. 2
    /\ tx \subseteq Effect
    /\ rows \subseteq Effect
    /\ dropped \subseteq Job
    /\ failedSync \subseteq Job

(* The batch is empty between two flushes, and within one pos and stmt are   *)
(* at a statement of one of its jobs.                                        *)
BatchInv ==
    /\ run \in {"select", "stopped"} => batch = <<>>
    /\ run \in {"select", "stopped", "drain", "begin", "commit"} => stmt = 1
    /\ run \in {"drain", "begin", "commit"} => Len(batch) \in Nat \ {0}
    /\ run \in {"exec", "retry", "redo"} =>
         pos \in 1 .. Len(batch) /\ stmt \in Statements(Current)
    /\ run = "stopped" => closed

(* The transaction holds what was executed of the batch, and both statements *)
(* of a pair but for the one that is under way.                              *)
TxInv ==
    /\ run \notin {"exec", "commit"} => tx = {}
    /\ run = "exec" =>
         /\ \A i \in 1 .. pos - 1 : Effects(batch[i]) \subseteq tx
         /\ stmt = 2 => <<Current, 1>> \in tx
    /\ run = "commit" => \A i \in 1 .. Len(batch) : Effects(batch[i]) \subseteq tx
    /\ \A j \in Pairs : \/ <<j, 1>> \in tx <=> <<j, 2>> \in tx
                        \/ run = "exec" /\ Current = j /\ stmt = 2

(* After a failure the jobs that are not tried again are dropped, and those  *)
(* that were tried already are accounted for; a second statement follows the *)
(* first.                                                                    *)
RedoInv ==
    /\ run = "retry" => \A i \in 1 .. Len(batch) : batch[i] \in dropped \cup {Current}
    /\ run = "redo" => \A i \in 1 .. pos - 1 : Accounted(batch[i])
    /\ run \in {"retry", "redo"} /\ stmt = 2 => <<Current, 1>> \in rows
    /\ \A j \in Job : own[j] = 2 => <<j, 1>> \in rows \/ j \in failedSync
-----------------------------------------------------------------------------
(* Every step keeps the types.                                               *)
LEMMA TypeStays == QueueTypeOK /\ BatchInv /\ [QueueNext]_queueVars => QueueTypeOK'
<1> SUFFICES ASSUME QueueTypeOK, BatchInv, [QueueNext]_queueVars PROVE QueueTypeOK'
  OBVIOUS
<1> USE ConstantsAssumption DEF QueueTypeOK, CallState, RunState, Effect, callVars, closeVars,
        Current, Statements, Flushed
<1>1. ASSUME NEW j \in Job, Enqueue(j) PROVE QueueTypeOK'
  BY <1>1 DEF Enqueue
<1>2. ASSUME NEW j \in Job, FallBack(j) PROVE QueueTypeOK'
  BY <1>2 DEF FallBack
<1>3. ASSUME NEW j \in Job, SyncWrite(j) PROVE QueueTypeOK'
  BY SMTT(30), <1>3 DEF SyncWrite
<1>4. CASE Receive
  BY <1>4 DEF Receive
<1>5. CASE Drain
  <2>1. CASE Len(batch) < BatchSize /\ ch # <<>>
    <3>1. Head(ch) \in Job /\ Tail(ch) \in Seq(Job)
      BY <2>1
    <3>2. batch' = Append(batch, Head(ch)) /\ ch' = Tail(ch)
      BY <1>5, <2>1 DEF Drain
    <3> QED BY <1>5, <2>1, <3>1, <3>2 DEF Drain
  <2>2. CASE ~(Len(batch) < BatchSize /\ ch # <<>>)
    BY <1>5, <2>2 DEF Drain
  <2> QED BY <2>1, <2>2
<1>6. CASE Begin
  BY <1>6 DEF Begin
<1>7. CASE Exec
  <2>1. Current \in Job /\ stmt \in Statements(Current)
    BY <1>7 DEF Exec, BatchInv
  <2>2. ToSet(batch) \subseteq Job
    BY DEF ToSet
  <2>3. tx' \subseteq Effect /\ dropped' \subseteq Job
    BY <1>7, <2>1, <2>2 DEF Exec
  <2>4. run' \in RunState /\ pos' \in Nat /\ stmt' \in 1 .. 2
    BY <1>7, <2>1 DEF Exec, LastStatement
  <2> QED BY <1>7, <2>3, <2>4 DEF Exec
<1>8. CASE Commit
  <2>1. rows' \subseteq Effect
    BY <1>8 DEF Commit
  <2>2. pos' \in Nat /\ stmt' \in 1 .. 2 /\ run' \in RunState
    BY <1>8 DEF Commit
  <2>3. batch' \in Seq(Job)
    <3>1. batch' = batch \/ batch' = <<>>
      BY <1>8 DEF Commit
    <3>2. <<>> \in Seq(Job)
      OBVIOUS
    <3> QED BY <3>1, <3>2, Zenon
  <2> QED BY <1>8, <2>1, <2>2, <2>3 DEF Commit
<1>9. CASE ExecSync
  <2>1. Current \in Job /\ stmt \in Statements(Current)
    BY <1>9 DEF ExecSync, BatchInv
  <2>2. rows' \subseteq Effect /\ failedSync' \subseteq Job
    BY <1>9, <2>1 DEF ExecSync
  <2>3. \/ /\ stmt' = stmt + 1 /\ ~LastStatement
           /\ UNCHANGED <<run, batch, pos>>
        \/ /\ pos' = pos + 1 /\ stmt' = 1
           /\ UNCHANGED <<run, batch>>
        \/ Flushed
    BY <1>9 DEF ExecSync
  <2>4. pos' \in Nat /\ stmt' \in 1 .. 2 /\ run' \in RunState
    BY <2>3, <2>1 DEF LastStatement
  <2>5. batch' \in Seq(Job)
    <3>1. batch' = batch \/ batch' = <<>>
      BY <2>3
    <3>2. <<>> \in Seq(Job)
      OBVIOUS
    <3> QED BY <3>1, <3>2, Zenon
  <2> QED BY <1>9, <2>2, <2>4, <2>5 DEF ExecSync
<1>10. CASE Stop
  BY <1>10 DEF Stop
<1>11. CASE Close \/ CloseConn
  BY <1>11 DEF Close, CloseConn
<1>12. CASE UNCHANGED queueVars
  BY <1>12 DEF queueVars
<1> QED BY <1>1, <1>2, <1>3, <1>4, <1>5, <1>6, <1>7, <1>8, <1>9, <1>10, <1>11, <1>12
        DEF QueueNext, RunStep

(* Every step keeps the position in the batch.                               *)
LEMMA BatchStays == QueueTypeOK /\ BatchInv /\ [QueueNext]_queueVars => BatchInv'
<1> SUFFICES ASSUME QueueTypeOK, BatchInv, [QueueNext]_queueVars PROVE BatchInv'
  OBVIOUS
<1> USE ConstantsAssumption DEF QueueTypeOK, CallState, RunState, BatchInv, callVars, closeVars,
        Current, Statements, Flushed
<1>1. ASSUME NEW j \in Job, Enqueue(j) PROVE BatchInv'
  BY <1>1 DEF Enqueue
<1>2. ASSUME NEW j \in Job, FallBack(j) PROVE BatchInv'
  BY <1>2 DEF FallBack
<1>3. ASSUME NEW j \in Job, SyncWrite(j) PROVE BatchInv'
  BY <1>3 DEF SyncWrite
<1>4. CASE Receive
  BY <1>4 DEF Receive
<1>5. CASE Drain
  BY <1>5 DEF Drain
<1>6. CASE Begin
  BY <1>6 DEF Begin
<1>7. CASE Exec
  BY <1>7 DEF Exec, LastStatement
<1>8. CASE Commit
  <2>1. CASE Flushed
    BY <1>8, <2>1 DEF Commit
  <2>2. CASE run' = "redo" /\ pos' = 1 /\ stmt' = 1 /\ UNCHANGED batch
    BY <1>8, <2>2 DEF Commit
  <2> QED BY <1>8, <2>1, <2>2 DEF Commit
<1>9. CASE ExecSync
  BY <1>9 DEF ExecSync, LastStatement
<1>10. CASE Stop
  BY <1>10 DEF Stop
<1>11. CASE Close \/ CloseConn
  BY <1>11 DEF Close, CloseConn
<1>12. CASE UNCHANGED queueVars
  BY <1>12 DEF queueVars
<1> QED BY <1>1, <1>2, <1>3, <1>4, <1>5, <1>6, <1>7, <1>8, <1>9, <1>10, <1>11, <1>12
        DEF QueueNext, RunStep

(* Every step keeps what the transaction holds.                              *)
LEMMA TxStays == QueueTypeOK /\ BatchInv /\ TxInv /\ [QueueNext]_queueVars => TxInv'
<1> SUFFICES ASSUME QueueTypeOK, BatchInv, TxInv, [QueueNext]_queueVars PROVE TxInv'
  OBVIOUS
<1> USE ConstantsAssumption DEF QueueTypeOK, BatchInv, TxInv, callVars, closeVars, Current
<1>1. ASSUME NEW j \in Job, Enqueue(j) PROVE TxInv'
  BY <1>1 DEF Enqueue
<1>2. ASSUME NEW j \in Job, FallBack(j) PROVE TxInv'
  BY <1>2 DEF FallBack
<1>3. ASSUME NEW j \in Job, SyncWrite(j) PROVE TxInv'
  BY <1>3 DEF SyncWrite
<1>4. CASE Receive
  BY <1>4 DEF Receive
<1>5. CASE Drain
  BY <1>5 DEF Drain
<1>6. CASE Begin
  <2>1. tx = {} /\ tx' = {} /\ pos' = 1 /\ stmt' = 1 /\ run' \in {"exec", "redo"}
    BY <1>6 DEF Begin
  <2> QED BY <2>1
<1>7. CASE Exec
  <2> DEFINE c == batch[pos]
  <2>1. pos \in 1 .. Len(batch) /\ stmt \in Statements(c) /\ c \in Job
    BY <1>7 DEF Exec
  <2>2. CASE run' = "exec"
    <3>1. tx' = tx \cup {<<c, stmt>>} /\ UNCHANGED batch
      BY <1>7, <2>2 DEF Exec
    <3>2. CASE ~LastStatement
      <4>1. stmt = 1 /\ stmt' = 2 /\ pos' = pos /\ c \in Pairs
        BY <1>7, <2>1, <2>2, <3>2 DEF Exec, LastStatement, Statements
      <4> QED BY <1>7, <2>2, <3>1, <4>1 DEF Exec
    <3>3. CASE LastStatement
      <4>1. stmt' = 1 /\ pos' = pos + 1
        BY <1>7, <2>2, <3>3 DEF Exec
      <4>2. Effects(c) \subseteq tx'
        BY <1>7, <2>1, <3>1, <3>3 DEF Exec, LastStatement, Effects, Statements
      <4>3. \A i \in 1 .. pos' - 1 : Effects(batch[i]) \subseteq tx'
        BY <1>7, <2>1, <3>1, <4>1, <4>2 DEF Exec
      <4>4. ASSUME NEW j \in Pairs PROVE <<j, 1>> \in tx' <=> <<j, 2>> \in tx'
        <5>1. CASE j = c
          <6>1. <<j, 1>> \in Effects(c) /\ <<j, 2>> \in Effects(c)
            BY <5>1 DEF Effects, Statements
          <6> QED BY <6>1, <4>2
        <5>2. CASE j # c
          <6>1. <<j, 1>> \in tx <=> <<j, 2>> \in tx
            BY <5>2
          <6> QED BY <5>2, <6>1, <3>1
        <5> QED BY <5>1, <5>2
      <4> QED BY <2>2, <3>1, <4>1, <4>3, <4>4
    <3> QED BY <3>2, <3>3
  <2>3. CASE run' = "commit"
    <3>1. /\ tx' = tx \cup {<<c, stmt>>} /\ UNCHANGED batch
          /\ pos = Len(batch) /\ LastStatement
      BY <1>7, <2>1, <2>3 DEF Exec
    <3>2. Effects(c) \subseteq tx'
      BY <1>7, <2>1, <3>1 DEF Exec, LastStatement, Effects, Statements
    <3>3. \A i \in 1 .. Len(batch) : Effects(batch[i]) \subseteq tx'
      BY <1>7, <2>1, <3>1, <3>2 DEF Exec
    <3>4. ASSUME NEW j \in Pairs PROVE <<j, 1>> \in tx' <=> <<j, 2>> \in tx'
      <4>1. CASE j = c
        <5>1. <<j, 1>> \in Effects(c) /\ <<j, 2>> \in Effects(c)
          BY <4>1 DEF Effects, Statements
        <5> QED BY <5>1, <3>2
      <4>2. CASE j # c
        <5>1. <<j, 1>> \in tx <=> <<j, 2>> \in tx
          BY <4>2
        <5> QED BY <4>2, <5>1, <3>1
      <4> QED BY <4>1, <4>2
    <3> QED BY <2>3, <3>1, <3>3, <3>4
  <2>4. CASE run' = "retry"
    BY <1>7, <2>4 DEF Exec
  <2> QED BY <1>7, <2>2, <2>3, <2>4 DEF Exec
<1>8. CASE Commit
  <2>1. tx' = {} /\ run' \in {"select", "redo"}
    BY <1>8 DEF Commit, Flushed
  <2> QED BY <2>1
<1>9. CASE ExecSync
  <2>1. tx = {} /\ tx' = {} /\ run' \in {"retry", "redo", "select"}
    BY <1>9 DEF ExecSync, Flushed
  <2> QED BY <2>1
<1>10. CASE Stop
  BY <1>10 DEF Stop
<1>11. CASE Close \/ CloseConn
  BY <1>11 DEF Close, CloseConn
<1>12. CASE UNCHANGED queueVars
  BY <1>12 DEF queueVars
<1> QED BY <1>1, <1>2, <1>3, <1>4, <1>5, <1>6, <1>7, <1>8, <1>9, <1>10, <1>11, <1>12
        DEF QueueNext, RunStep

(* A job that is no pair has one statement,                                  *)
LEMMA Statement ==
  ASSUME NEW j \in Job, NEW n \in Statements(j)
  PROVE  /\ n \in 1 .. 2
         /\ n + 1 \in Statements(j) <=> j \in Pairs /\ n = 1
         /\ n = 2 => j \in Pairs
  BY DEF Statements

(* and is written with its last.                                             *)
LEMMA WrittenWhen ==
  ASSUME NEW j \in Job, NEW R, <<j, 1>> \in R, j \in Pairs => <<j, 2>> \in R
  PROVE  Effects(j) \subseteq R
  BY DEF Effects, Statements

(* execSync of one statement: the first of a pair, and the second is next;   *)
(* or one that settles its job, and the next job or the end follows.         *)
LEMMA ExecSyncStep ==
  ASSUME QueueTypeOK, BatchInv, RedoInv, ExecSync
  PROVE  /\ Current \in Job /\ pos \in 1 .. Len(batch)
         /\ UNCHANGED <<ch, callVars, tx, dropped>>
         /\ rows' \in {rows, rows \cup {<<Current, stmt>>}}
         /\ failedSync' \in {failedSync, failedSync \cup {Current}}
         /\ \/ /\ stmt = 1 /\ stmt' = 2 /\ <<Current, 1>> \in rows'
               /\ UNCHANGED <<run, batch, pos>>
            \/ /\ Effects(Current) \subseteq rows' \/ Current \in failedSync'
               /\ \/ /\ run = "redo" /\ pos' = pos + 1 /\ stmt' = 1
                     /\ UNCHANGED <<run, batch>>
                  \/ Flushed /\ (run = "retry" \/ pos = Len(batch))
<1> DEFINE c == batch[pos]
<1>1. pos \in 1 .. Len(batch) /\ stmt \in Statements(c) /\ c \in Job
  BY DEF ExecSync, QueueTypeOK, BatchInv, Current
<1>2. PICK done \in BOOLEAN :
        /\ IF done THEN ~connClosed ELSE MayFail
        /\ rows' = IF done THEN rows \cup {<<c, stmt>>} ELSE rows
        /\ failedSync' = IF done THEN failedSync ELSE failedSync \cup {c}
        /\ IF done /\ ~LastStatement
           THEN stmt' = stmt + 1 /\ UNCHANGED <<run, batch, pos>>
           ELSE IF run = "redo" /\ pos < Len(batch)
                THEN pos' = pos + 1 /\ stmt' = 1 /\ UNCHANGED <<run, batch>>
                ELSE Flushed
  BY DEF ExecSync, Current
<1>3. LastStatement <=> ~(c \in Pairs /\ stmt = 1)
  BY <1>1, Statement DEF LastStatement, Current
<1>4. CASE done /\ ~LastStatement
  BY <1>1, <1>2, <1>3, <1>4 DEF ExecSync, Current
<1>5. CASE ~(done /\ ~LastStatement)
  <2>1. Effects(c) \subseteq rows' \/ c \in failedSync'
    <3>1. CASE done
      <4>1. rows' = rows \cup {<<c, stmt>>} /\ ~(c \in Pairs /\ stmt = 1)
        BY <1>2, <1>3, <1>5, <3>1
      <4>2. stmt = 2 => <<c, 1>> \in rows /\ c \in Pairs
        BY <1>1, Statement DEF ExecSync, RedoInv, Current
      <4>3. stmt \in 1 .. 2
        BY <1>1, Statement
      <4>4. <<c, 1>> \in rows' /\ (c \in Pairs => <<c, 2>> \in rows')
        BY <4>1, <4>2, <4>3
      <4> QED BY <1>1, <4>4, WrittenWhen
    <3>2. CASE ~done
      BY <1>2, <3>2
    <3> QED BY <3>1, <3>2
  <2>2. CASE run = "redo" /\ pos < Len(batch)
    BY <1>1, <1>2, <1>5, <2>1, <2>2 DEF ExecSync, Current
  <2>3. CASE ~(run = "redo" /\ pos < Len(batch))
    BY <1>1, <1>2, <1>5, <2>1, <2>3 DEF ExecSync, Current
  <2> QED BY <2>2, <2>3
<1> QED BY <1>4, <1>5

(* What is tried again after a failure stays in order.                       *)
LEMMA RedoStays == QueueTypeOK /\ BatchInv /\ RedoInv /\ [QueueNext]_queueVars => RedoInv'
<1> SUFFICES ASSUME QueueTypeOK, BatchInv, RedoInv, [QueueNext]_queueVars PROVE RedoInv'
  OBVIOUS
<1> USE ConstantsAssumption DEF QueueTypeOK, BatchInv, RedoInv, callVars, closeVars, Current,
        Accounted, Written, Effect
<1>1. ASSUME NEW j \in Job, Enqueue(j) PROVE RedoInv'
  BY <1>1 DEF Enqueue
<1>2. ASSUME NEW j \in Job, FallBack(j) PROVE RedoInv'
  BY <1>2 DEF FallBack
<1>3. ASSUME NEW j \in Job, SyncWrite(j) PROVE RedoInv'
  <2>1. rows \subseteq rows' /\ failedSync \subseteq failedSync'
    BY <1>3 DEF SyncWrite
  <2>2. own'[j] = 2 => <<j, 1>> \in rows' \/ j \in failedSync'
    BY <1>3 DEF SyncWrite
  <2>3. UNCHANGED <<run, batch, pos, stmt, dropped>>
    BY <1>3 DEF SyncWrite
  <2>4. \A i \in Job \ {j} : own'[i] = own[i]
    BY <1>3 DEF SyncWrite
  <2> QED BY <2>1, <2>2, <2>3, <2>4
<1>4. CASE Receive
  BY <1>4 DEF Receive
<1>5. CASE Drain
  BY <1>5 DEF Drain
<1>6. CASE Begin
  <2>1. /\ pos' = 1 /\ stmt' = 1 /\ run' \in {"exec", "redo"}
        /\ UNCHANGED <<rows, own, failedSync>>
    BY <1>6 DEF Begin
  <2> QED BY <2>1
<1>7. CASE Exec
  <2>1. UNCHANGED <<batch, rows, own, failedSync>>
    BY <1>7 DEF Exec, callVars
  <2>2. CASE run' \in {"exec", "commit"}
    BY <2>1, <2>2
  <2>3. CASE run' = "retry"
    <3>1. pos' = pos /\ stmt' = 1 /\ dropped' = dropped \cup (ToSet(batch) \ {Current})
      BY <1>7, <2>3 DEF Exec
    <3>2. \A i \in 1 .. Len(batch) : batch[i] \in ToSet(batch)
      BY DEF ToSet
    <3> QED BY <2>1, <2>3, <3>1, <3>2
  <2> QED BY <1>7, <2>2, <2>3 DEF Exec
<1>8. CASE Commit
  <2>1. rows \subseteq rows' /\ UNCHANGED <<own, failedSync>>
    BY <1>8 DEF Commit, callVars
  <2>2. CASE Flushed
    BY <2>1, <2>2 DEF Flushed
  <2>3. CASE run' = "redo" /\ pos' = 1 /\ stmt' = 1
    BY <2>1, <2>3
  <2> QED BY <1>8, <2>2, <2>3 DEF Commit
<1>9. CASE ExecSync
  <2>1. /\ rows \subseteq rows' /\ failedSync \subseteq failedSync'
        /\ UNCHANGED <<own, dropped>> /\ pos \in 1 .. Len(batch)
    BY <1>9, ExecSyncStep DEF callVars
  <2>2. CASE /\ stmt' = 2 /\ <<batch[pos], 1>> \in rows'
             /\ UNCHANGED <<run, batch, pos>>
    BY <2>1, <2>2
  <2>3. CASE /\ run = "redo" /\ pos' = pos + 1 /\ stmt' = 1
             /\ Effects(batch[pos]) \subseteq rows' \/ batch[pos] \in failedSync'
             /\ UNCHANGED <<run, batch>>
    BY <2>1, <2>3
  <2>4. CASE Flushed
    BY <2>1, <2>4 DEF Flushed
  <2> QED BY <1>9, <2>2, <2>3, <2>4, ExecSyncStep
<1>10. CASE Stop
  BY <1>10 DEF Stop
<1>11. CASE Close \/ CloseConn
  BY <1>11 DEF Close, CloseConn
<1>12. CASE UNCHANGED queueVars
  BY <1>12 DEF queueVars
<1> QED BY <1>1, <1>2, <1>3, <1>4, <1>5, <1>6, <1>7, <1>8, <1>9, <1>10, <1>11, <1>12
        DEF QueueNext, RunStep

(* The jobs of a queue after one is put in or taken out.                     *)
LEMMA ToSetAppend ==
  ASSUME NEW s \in Seq(Job), NEW j \in Job
  PROVE  ToSet(Append(s, j)) = ToSet(s) \cup {j}
<1>1. /\ DOMAIN s = 1 .. Len(s) /\ DOMAIN Append(s, j) = 1 .. Len(s) + 1
      /\ \A i \in 1 .. Len(s) : Append(s, j)[i] = s[i]
      /\ Append(s, j)[Len(s) + 1] = j /\ Len(s) \in Nat
  OBVIOUS
<1>2. ASSUME NEW x \in ToSet(Append(s, j)) PROVE x \in ToSet(s) \cup {j}
  <2>1. PICK i \in 1 .. Len(s) + 1 : x = Append(s, j)[i]
    BY <1>1 DEF ToSet
  <2> QED BY <1>1, <2>1 DEF ToSet
<1>3. ASSUME NEW x \in ToSet(s) \cup {j} PROVE x \in ToSet(Append(s, j))
  <2>1. CASE x = j
    <3>1. Len(s) + 1 \in 1 .. Len(s) + 1
      BY <1>1
    <3> QED BY <1>1, <2>1, <3>1 DEF ToSet
  <2>2. CASE x \in ToSet(s)
    <3>1. PICK i \in 1 .. Len(s) : x = s[i]
      BY <1>1, <2>2 DEF ToSet
    <3>2. i \in 1 .. Len(s) + 1
      BY <1>1
    <3> QED BY <1>1, <3>1, <3>2 DEF ToSet
  <2> QED BY <1>3, <2>1, <2>2
<1> QED BY <1>2, <1>3

(* What is taken out of a queue was in it, and the rest stays.               *)
LEMMA ToSetTail ==
  ASSUME NEW s \in Seq(Job), s # <<>>
  PROVE  /\ Head(s) \in Job /\ Tail(s) \in Seq(Job)
         /\ ToSet(s) = {Head(s)} \cup ToSet(Tail(s))
<1>1. Head(s) = s[1] /\ Len(s) \in Nat \ {0}
  OBVIOUS
<1>2. \A i \in 1 .. Len(s) - 1 : Tail(s)[i] = s[i + 1]
  OBVIOUS
<1>3. DOMAIN Tail(s) = 1 .. Len(s) - 1 /\ DOMAIN s = 1 .. Len(s)
  OBVIOUS
<1>4. ASSUME NEW x \in ToSet(s), x # Head(s) PROVE x \in ToSet(Tail(s))
  <2>1. PICK i \in 1 .. Len(s) : x = s[i]
    BY <1>3, <1>4 DEF ToSet
  <2>2. i - 1 \in 1 .. Len(s) - 1 /\ (i - 1) + 1 = i
    BY <1>1, <1>4, <2>1
  <2>3. x = Tail(s)[i - 1]
    BY <1>2, <2>1, <2>2
  <2> QED BY <1>3, <2>2, <2>3 DEF ToSet
<1>5. ASSUME NEW x \in ToSet(Tail(s)) PROVE x \in ToSet(s)
  <2>1. PICK i \in 1 .. Len(s) - 1 : x = Tail(s)[i]
    BY <1>3, <1>5 DEF ToSet
  <2>2. i + 1 \in 1 .. Len(s) /\ x = s[i + 1]
    BY <1>1, <1>2, <2>1
  <2> QED BY <1>3, <2>2 DEF ToSet
<1>6. Head(s) \in ToSet(s)
  BY <1>1, <1>3 DEF ToSet
<1> QED BY <1>1, <1>4, <1>5, <1>6

(* A step that takes no job out of the queue and returns none keeps every    *)
(* loss explained.                                                           *)
LEMMA NoLoss ==
  ASSUME LossExplained, rows \subseteq rows', dropped \subseteq dropped',
         failedSync \subseteq failedSync',
         \A j \in Job : Pending(j) => Pending(j)' \/ Accounted(j)' \/ Abandoned(j)',
         \A j \in Job : Abandoned(j) => Abandoned(j)',
         \A j \in Job : call'[j] \in {"queued", "returned"} =>
             \/ call[j] \in {"queued", "returned"}
             \/ Pending(j)' \/ Abandoned(j)'
             \/ Accounted(j)'
  PROVE  LossExplained'
BY DEF LossExplained, Accounted, Written

(* Every step keeps every loss explained.                                    *)
LEMMA LossStays ==
  QueueTypeOK /\ BatchInv /\ TxInv /\ RedoInv /\ LossExplained /\ [QueueNext]_queueVars
  => LossExplained'
<1> SUFFICES ASSUME QueueTypeOK, BatchInv, TxInv, RedoInv, LossExplained, [QueueNext]_queueVars
             PROVE  LossExplained'
  OBVIOUS
<1> USE ConstantsAssumption DEF QueueTypeOK, callVars, closeVars
<1>0. run = "stopped" => closed
  BY DEF BatchInv
<1>1. ASSUME NEW j \in Job, Enqueue(j) PROVE LossExplained'
  <2>1. ToSet(ch') = ToSet(ch) \cup {j}
    BY <1>1, ToSetAppend DEF Enqueue
  <2>2. UNCHANGED <<closed, run, batch, rows, dropped, failedSync>>
    BY <1>1 DEF Enqueue
  <2>3. \A i \in Job : i # j => call'[i] = call[i]
    BY <1>1 DEF Enqueue
  <2>4. \A i \in Job : (Pending(i) => Pending(i)') /\ (Abandoned(i) => Abandoned(i)')
    BY <2>1, <2>2 DEF Pending, Abandoned
  <2>5. Pending(j)' \/ Abandoned(j)'
    BY <1>0, <2>1, <2>2 DEF Pending, Abandoned
  <2> QED BY <2>2, <2>3, <2>4, <2>5, NoLoss
<1>2. ASSUME NEW j \in Job, FallBack(j) PROVE LossExplained'
  BY <1>2, NoLoss DEF FallBack, Pending, Abandoned
<1>3. ASSUME NEW j \in Job, SyncWrite(j) PROVE LossExplained'
  <2>1. /\ rows \subseteq rows' /\ failedSync \subseteq failedSync'
        /\ UNCHANGED <<ch, closed, run, batch, dropped>>
    BY <1>3 DEF SyncWrite
  <2>2. ASSUME call'[j] = "returned" PROVE Effects(j) \subseteq rows' \/ j \in failedSync'
    <3>1. own[j] \in 1 .. 2 /\ own[j] + 1 \notin Statements(j)
      BY <1>3, <2>2 DEF SyncWrite
    <3>2. <<j, own[j]>> \in rows' \/ j \in failedSync'
      BY <1>3 DEF SyncWrite
    <3>3. own[j] = 2 \/ j \notin Pairs
      BY <3>1 DEF Statements
    <3>4. own[j] = 2 => <<j, 1>> \in rows \/ j \in failedSync
      BY DEF RedoInv
    <3>5. CASE own[j] = 1
      BY <3>2, <3>3, <3>5, WrittenWhen
    <3>6. CASE own[j] = 2
      <4>1. <<j, 2>> \in rows' \/ j \in failedSync'
        BY <3>2, <3>6
      <4>2. <<j, 1>> \in rows' \/ j \in failedSync'
        BY <2>1, <3>4, <3>6
      <4> QED BY <4>1, <4>2, WrittenWhen
    <3> QED BY <3>1, <3>5, <3>6
  <2>3. \A i \in Job : call'[i] = call[i] \/ i = j
    BY <1>3 DEF SyncWrite
  <2>4. call'[j] \in {"sync", "returned"}
    BY <1>3 DEF SyncWrite
  <2>5. \A i \in Job : (Pending(i) => Pending(i)') /\ (Abandoned(i) => Abandoned(i)')
    BY <2>1 DEF Pending, Abandoned
  <2> QED BY <2>1, <2>2, <2>3, <2>4, <2>5, NoLoss DEF Accounted, Written
<1>4. CASE Receive
  <2>1. ToSet(ch) = {Head(ch)} \cup ToSet(ch') /\ Head(ch) \in Job
    BY <1>4, ToSetTail DEF Receive
  <2>2. ToSet(batch') = ToSet(batch) \cup {Head(ch)}
    BY <1>4, <2>1, ToSetAppend DEF Receive
  <2> QED BY <1>4, <2>1, <2>2, NoLoss DEF Receive, Pending, Abandoned
<1>5. CASE Drain
  <2>1. CASE Len(batch) < BatchSize /\ ch # <<>>
    <3>1. ToSet(ch) = {Head(ch)} \cup ToSet(ch') /\ Head(ch) \in Job
      BY <1>5, <2>1, ToSetTail DEF Drain
    <3>2. ToSet(batch') = ToSet(batch) \cup {Head(ch)}
      BY <1>5, <2>1, <3>1, ToSetAppend DEF Drain
    <3> QED BY <1>5, <3>1, <3>2, NoLoss DEF Drain, Pending, Abandoned
  <2>2. CASE ~(Len(batch) < BatchSize /\ ch # <<>>)
    BY <1>5, <2>2, NoLoss DEF Drain, Pending, Abandoned
  <2> QED BY <2>1, <2>2
<1>6. CASE Begin
  BY <1>6, NoLoss DEF Begin, Pending, Abandoned
<1>7. CASE Exec
  <2>1. dropped \subseteq dropped' /\ UNCHANGED <<ch, closed, batch, call, rows, failedSync>>
        /\ run # "stopped" /\ run' # "stopped"
    BY <1>7 DEF Exec
  <2> QED BY <2>1, NoLoss DEF Pending, Abandoned
<1>8. CASE Commit
  <2>1. /\ rows \subseteq rows' /\ UNCHANGED <<ch, closed, call, dropped, failedSync>>
        /\ run # "stopped" /\ run' # "stopped"
    BY <1>8 DEF Commit, Flushed
  <2>2. CASE UNCHANGED batch
    BY <2>1, <2>2, NoLoss DEF Pending, Abandoned
  <2>3. CASE rows' = rows \cup tx
    <3>1. \A i \in 1 .. Len(batch) : Effects(batch[i]) \subseteq rows'
      BY <1>8, <2>3 DEF Commit, TxInv
    <3>2. \A j \in ToSet(batch) : Effects(j) \subseteq rows'
      BY <3>1 DEF ToSet
    <3> QED BY <2>1, <3>2, NoLoss DEF Pending, Abandoned, Accounted, Written
  <2> QED BY <1>8, <2>2, <2>3 DEF Commit
<1>9. CASE ExecSync
  <2>1. /\ rows \subseteq rows' /\ failedSync \subseteq failedSync'
        /\ UNCHANGED <<ch, closed, call, dropped>> /\ pos \in 1 .. Len(batch)
        /\ run # "stopped" /\ run' # "stopped"
    BY <1>9, ExecSyncStep DEF ExecSync, Flushed
  <2>2. CASE UNCHANGED batch
    BY <2>1, <2>2, NoLoss DEF Pending, Abandoned
  <2>3. CASE /\ Effects(Current) \subseteq rows' \/ Current \in failedSync'
             /\ run = "retry" \/ pos = Len(batch)
    <3>1. \A i \in 1 .. Len(batch) : \/ Effects(batch[i]) \subseteq rows'
                                       \/ batch[i] \in dropped' \cup failedSync'
      <4>1. CASE run = "retry"
        BY <2>1, <2>3, <4>1 DEF RedoInv
      <4>2. CASE run = "redo" /\ pos = Len(batch)
        BY <2>1, <2>3, <4>2 DEF RedoInv, Accounted, Written, Current
      <4> QED BY <1>9, <2>3, <4>1, <4>2 DEF ExecSync
    <3>2. \A j \in ToSet(batch) : Accounted(j)'
      BY <3>1 DEF ToSet, Accounted, Written
    <3> QED BY <2>1, <3>2, NoLoss DEF Pending, Abandoned
  <2> QED BY <1>9, <2>2, <2>3, ExecSyncStep
<1>10. CASE Stop
  BY <1>10, NoLoss DEF Stop, Pending, Abandoned
<1>11. CASE Close \/ CloseConn
  BY <1>11, NoLoss DEF Close, CloseConn, Pending, Abandoned
<1>12. CASE UNCHANGED queueVars
  BY <1>12, NoLoss DEF queueVars, Pending, Abandoned
<1> QED BY <1>1, <1>2, <1>3, <1>4, <1>5, <1>6, <1>7, <1>8, <1>9, <1>10, <1>11, <1>12
        DEF QueueNext, RunStep

(* Every step keeps every split explained.                                   *)
LEMMA SplitStays ==
  QueueTypeOK /\ BatchInv /\ TxInv /\ RedoInv /\ SplitExplained /\ [QueueNext]_queueVars
  => SplitExplained'
<1> SUFFICES ASSUME QueueTypeOK, BatchInv, TxInv, RedoInv, SplitExplained, [QueueNext]_queueVars
             PROVE  SplitExplained'
  OBVIOUS
<1> USE ConstantsAssumption DEF QueueTypeOK, SplitExplained, callVars, closeVars, Current
<1>1. ASSUME NEW j \in Job, Enqueue(j) PROVE SplitExplained'
  BY <1>1 DEF Enqueue
<1>2. ASSUME NEW j \in Job, FallBack(j) PROVE SplitExplained'
  BY <1>2 DEF FallBack
<1>3. ASSUME NEW j \in Job, SyncWrite(j) PROVE SplitExplained'
  <2>1. UNCHANGED <<run, batch, pos, stmt>> /\ failedSync \subseteq failedSync'
    BY <1>3 DEF SyncWrite
  <2>2. call'[j] \in {"sync", "returned"}
    BY <1>3 DEF SyncWrite
  <2>3. rows' = rows \/ rows' = rows \cup {<<j, own[j]>>}
    BY <1>3 DEF SyncWrite
  <2>4. ASSUME NEW i \in Pairs
        PROVE  \/ <<i, 1>> \in rows' <=> <<i, 2>> \in rows'
               \/ call'[i] \in {"sync", "returned"}
               \/ i \in failedSync'
               \/ run' \in {"retry", "redo"} /\ batch'[pos'] = i /\ stmt' = 2
    <3>1. CASE i = j
      BY <2>2, <3>1
    <3>2. CASE i # j
      <4>1. \A n \in 1 .. 2 : <<i, n>> \in rows' <=> <<i, n>> \in rows
        BY <2>3, <3>2
      <4>2. call'[i] = call[i]
        BY <1>3, <3>2 DEF SyncWrite
      <4> QED BY <2>1, <4>1, <4>2
    <3> QED BY <3>1, <3>2
  <2> QED BY <2>4
<1>4. CASE Receive
  BY <1>4 DEF Receive
<1>5. CASE Drain
  BY <1>5 DEF Drain
<1>6. CASE Begin
  BY <1>6 DEF Begin
<1>7. CASE Exec
  <2>1. UNCHANGED <<rows, call, failedSync>> /\ run = "exec"
    BY <1>7 DEF Exec
  <2> QED BY <2>1
<1>8. CASE Commit
  <2>1. UNCHANGED <<call, failedSync>> /\ run = "commit"
    BY <1>8 DEF Commit
  <2>2. rows' = rows \/ rows' = rows \cup tx
    BY <1>8 DEF Commit
  <2>3. \A j \in Pairs : <<j, 1>> \in tx <=> <<j, 2>> \in tx
    BY <2>1 DEF TxInv
  <2>4. ASSUME NEW j \in Pairs, j \notin failedSync, call[j] \notin {"sync", "returned"}
        PROVE  <<j, 1>> \in rows' <=> <<j, 2>> \in rows'
    <3>1. <<j, 1>> \in rows <=> <<j, 2>> \in rows
      BY <2>1, <2>4
    <3> QED BY <2>2, <2>3, <3>1
  <2> QED BY <2>1, <2>4
<1>9. CASE ExecSync
  <2> DEFINE c == batch[pos]
  <2>1. /\ UNCHANGED call /\ failedSync \subseteq failedSync' /\ c \in Job
        /\ rows' \in {rows, rows \cup {<<c, stmt>>}}
    BY <1>9, ExecSyncStep
  <2>2. ASSUME NEW j \in Pairs, j # c, j \notin failedSync,
               call[j] \notin {"sync", "returned"}
        PROVE  <<j, 1>> \in rows' <=> <<j, 2>> \in rows'
    <3>1. \A n \in 1 .. 2 : <<j, n>> \in rows' <=> <<j, n>> \in rows
      BY <2>1, <2>2
    <3> QED BY <2>2, <3>1
  <2>3. CASE stmt' = 2 /\ UNCHANGED <<run, batch, pos>>
    BY <1>9, <2>1, <2>2, <2>3 DEF ExecSync
  <2>4. CASE Effects(c) \subseteq rows' \/ c \in failedSync'
    <3>1. ASSUME c \in Pairs, c \notin failedSync'
          PROVE  <<c, 1>> \in rows' /\ <<c, 2>> \in rows'
      BY <2>4, <3>1 DEF Effects, Statements
    <3> QED BY <2>1, <2>2, <3>1
  <2> QED BY <1>9, <2>3, <2>4, ExecSyncStep
<1>10. CASE Stop
  BY <1>10 DEF Stop
<1>11. CASE Close \/ CloseConn
  BY <1>11 DEF Close, CloseConn
<1>12. CASE UNCHANGED queueVars
  BY <1>12 DEF queueVars
<1> QED BY <1>1, <1>2, <1>3, <1>4, <1>5, <1>6, <1>7, <1>8, <1>9, <1>10, <1>11, <1>12
        DEF QueueNext, RunStep

(* Type correctness, and with it that the flush never reads past its batch.  *)
THEOREM QueueTypeCorrect == QueueSpec => [](QueueTypeOK /\ BatchInv)
<1>1. QueueInit => QueueTypeOK
  BY DEF QueueInit, QueueTypeOK, CallState, RunState, Effect
<1>2. QueueInit => BatchInv
  BY DEF QueueInit, BatchInv
<1> QED BY <1>1, <1>2, TypeStays, BatchStays, PTL DEF QueueSpec

(* What the two theorems below share.                                        *)
LEMMA FlushInvariant == QueueSpec => [](TxInv /\ RedoInv)
<1>1. QueueInit => TxInv /\ RedoInv
  BY ConstantsAssumption DEF QueueInit, TxInv, RedoInv
<1> QED BY <1>1, QueueTypeCorrect, TxStays, RedoStays, PTL DEF QueueSpec

(* A job that was queued or whose caller has returned, and that run will not *)
(* come to any more, is written, unless it was rolled back with another      *)
(* job's failure, a statement of its own failed, or the channel held it when *)
(* the writer was closed: no BEGIN or COMMIT that fails, and no full         *)
(* channel, loses a job.                                                     *)
THEOREM LossesExplained == QueueSpec => []LossExplained
<1>1. QueueInit => LossExplained
  BY DEF QueueInit, LossExplained
<1> QED BY <1>1, QueueTypeCorrect, FlushInvariant, LossStays, PTL DEF QueueSpec

(* A record and its session's status are found apart only while the writer   *)
(* or the caller is between them on its own, or after one of them failed.    *)
THEOREM SplitsExplained == QueueSpec => []SplitExplained
<1>1. QueueInit => SplitExplained
  BY DEF QueueInit, SplitExplained
<1> QED BY <1>1, QueueTypeCorrect, FlushInvariant, SplitStays, PTL DEF QueueSpec

-----------------------------------------------------------------------------
(* The migrations.                                                          *)

Stage == {"off", "down", "create", "read", "add", "users", "spaces", "clients", "duties",
          "admin", "up"}
TypeOK ==
    /\ dialect \in Dialects
    /\ pc \in [Service -> Stage]
    /\ at \in [Service -> Nat]
    /\ todo \in [Service -> SUBSET Column]
    /\ fresh \in [Service -> SUBSET Column]
    /\ left \in [Service -> SUBSET users]
    /\ users \subseteq User \cup {Admin}
    /\ faults \in Nat

(* Where each service is in its lists: at a table it creates, or at a        *)
(* migration, with columns to add and an index to make of that migration.   *)
ListInv ==
    \A s \in Service :
        /\ pc[s] = "create" => at[s] \in 1 .. 5
        /\ pc[s] \in {"read", "add"} => at[s] \in 1 .. 10
        /\ pc[s] # "add" => todo[s] = {} /\ fresh[s] = {}
        /\ pc[s] = "add" =>
              /\ todo[s] \subseteq Names(at[s])
              /\ fresh[s] \subseteq {Migrations[at[s]].index}

(* The migrations a service has behind it.                                   *)
Passed(s) ==
    CASE pc[s] \in {"read", "add"} -> 1 .. at[s] - 1
      [] pc[s] \in {"users", "spaces", "clients"} -> 1 .. LastOfFiles
      [] pc[s] \in {"duties", "admin", "up"} -> 1 .. Clients
      [] OTHER -> {}

(* Tables and columns that a service is past are there, but for the column   *)
(* of the clients as long as their table is not, or could not be looked up. *)
Present(c) == c \in cols \cup unchecked
Awaited(c) == c[1] = "oauth_clients" /\ c[1] \notin tables
SchemaAt(s) ==
    /\ pc[s] = "create" => \A i \in 1 .. at[s] - 1 : Creates[i] \in tables
    /\ pc[s] \notin {"off", "down", "create"} => \A i \in 1 .. 5 : Creates[i] \in tables
    /\ pc[s] = "add" => \A c \in Names(at[s]) \ todo[s] : c \in cols
    /\ \A k \in Passed(s) : \A c \in Names(k) : Present(c) \/ Awaited(c)
SchemaInv == \A s \in Service : SchemaAt(s)

(* A service that has to add the column of an index, and then the index,     *)
(* has noted the index.                                                     *)
OwedInv ==
    dialect = "mysql" =>
        \A s \in Service : pc[s] = "add" /\ Migrations[at[s]].when = "fresh" =>
            {Migrations[at[s]].index} \cap todo[s] \subseteq fresh[s]

(* A file keeps its owner, and its space or the default one if it had none;  *)
(* a service that has assigned the spaces has left no file without, and has *)
(* given each user it has listed a space or an excuse.                      *)
Assigned(s) ==
    \/ pc[s] \in {"clients", "duties", "admin", "up"}
    \/ pc[s] \in {"read", "add"} /\ at[s] = Clients
HomesAt(s) ==
    /\ Assigned(s) => /\ \A r \in DOMAIN file : ~Homeless(file[r])
                      /\ users \subseteq homes \cup excused
    /\ pc[s] = "spaces" => users \subseteq homes \cup excused \cup left[s]
FilesInv ==
    /\ file \in [DOMAIN origin ->
                    [owner : {""} \cup User, space : {"", "own", "default"}]]
    /\ \A r \in DOMAIN origin :
          /\ file[r].owner = origin[r].owner
          /\ \/ file[r].space = origin[r].space
             \/ Homeless(origin[r]) /\ file[r].space = "default"
HomesInv == FilesInv /\ \A s \in Service : HomesAt(s)

(* A database that cannot be upgraded keeps every start at the first tables. *)
Stuck == dialect = "sqlite" /\ "files" \in tables
         /\ ~(\A i \in 1 .. 3 : FileIndexes[i] \in cols)
StuckInv ==
    Stuck => \A s \in Service : /\ pc[s] \in {"off", "down", "create"}
                                /\ pc[s] = "create" => at[s] \in 1 .. 2
-----------------------------------------------------------------------------
(* The list of migrations, as the provers need it.                           *)
LEMMA Listing ==
    /\ DOMAIN Migrations = 1 .. 10 /\ DOMAIN Creates = 1 .. 5 /\ Len(Creates) = 5
    /\ Creates[1] = "upload_sessions" /\ Creates[2] = "files" /\ Creates[3] = "users"
    /\ Creates[4] = "shares" /\ Creates[5] = "spaces"
    /\ Migrations[1] = M("users", <<"email", "status">>, "fresh")
    /\ Migrations[2] = M("files", <<"owner">>, "fresh")
    /\ Migrations[3] = M("files", <<>>, "checked")
    /\ Migrations[4] = M("files", <<"deleted_at">>, "checked")
    /\ Migrations[5] = M("shares", <<"password_hash">>, "never")
    /\ Migrations[6] = M("upload_sessions", <<"upload_mode", "object_key">>, "never")
    /\ Migrations[7] = M("files", <<"space_id">>, "fresh")
    /\ Migrations[8] = M("upload_sessions", <<"space_id">>, "never")
    /\ Migrations[9] = M("shares", <<"space_id">>, "never")
    /\ Migrations[10] = M("oauth_clients", <<"owner_username">>, "never")
<1> QED
  BY DEF Creates, Migrations, UsersAddColumns, FilesAddOwner, FilesAddHashIndex,
     FilesAddDeletedAt,
     SharesAddPassword, UploadSessionsAddPresignedCols, FilesAddSpaceID,
     UploadSessionsAddSpaceID, SharesAddSpaceID, OAuthClientsAddOwner

(* The columns of the migrations, one by one.                                *)
LEMMA Lists ==
    /\ Names(1) = {<<"users", "email">>, <<"users", "status">>}
    /\ Names(2) = {<<"files", "owner">>}
    /\ Names(3) = {}
    /\ Names(4) = {<<"files", "deleted_at">>}
    /\ Names(5) = {<<"shares", "password_hash">>}
    /\ Names(6) = {<<"upload_sessions", "upload_mode">>, <<"upload_sessions", "object_key">>}
    /\ Names(7) = {<<"files", "space_id">>}
    /\ Names(8) = {<<"upload_sessions", "space_id">>}
    /\ Names(9) = {<<"shares", "space_id">>}
    /\ Names(10) = {<<"oauth_clients", "owner_username">>}
<1>1. Names(1) = {<<"users", "email">>, <<"users", "status">>}
  BY Listing DEF Names, M
<1>2. Names(2) = {<<"files", "owner">>}
  BY Listing DEF Names, M
<1>3. Names(3) = {}
  BY Listing DEF Names, M
<1>4. Names(4) = {<<"files", "deleted_at">>}
  BY Listing DEF Names, M
<1>5. Names(5) = {<<"shares", "password_hash">>}
  BY Listing DEF Names, M
<1>6. Names(6) = {<<"upload_sessions", "upload_mode">>, <<"upload_sessions", "object_key">>}
  BY Listing DEF Names, M
<1>7. Names(7) = {<<"files", "space_id">>}
  BY Listing DEF Names, M
<1>8. Names(8) = {<<"upload_sessions", "space_id">>}
  BY Listing DEF Names, M
<1>9. Names(9) = {<<"shares", "space_id">>}
  BY Listing DEF Names, M
<1>10. Names(10) = {<<"oauth_clients", "owner_username">>}
  BY Listing DEF Names, M
<1> QED
  BY <1>1, <1>2, <1>3, <1>4, <1>5, <1>6, <1>7, <1>8, <1>9, <1>10

(* Every migration adds no column, one or two.                              *)
LEMMA AddsShort ==
    \A k \in 1 .. 10 : DOMAIN Migrations[k].adds \in {{}, {1}, {1, 2}}
<1>1. /\ \A k \in {1, 6} : DOMAIN Migrations[k].adds = {1, 2}
      /\ DOMAIN Migrations[3].adds = {}
      /\ \A k \in {2, 4, 5, 7, 8, 9, 10} : DOMAIN Migrations[k].adds = {1}
  BY Listing DEF M
<1>2. \A k \in 1 .. 10 : k \in {1, 6} \/ k = 3 \/ k \in {2, 4, 5, 7, 8, 9, 10}
  OBVIOUS
<1> QED
  BY <1>1, <1>2, Zenon

(* Which migrations make an index with their column, and which index.        *)
LEMMA Indexes ==
    \A k \in 1 .. 10 :
        Migrations[k].when = "fresh" =>
            /\ k \in {1, 2, 7} /\ Migrations[k].index \in Names(k)
            /\ k = 1 => Migrations[k].index = <<"users", "email">>
            /\ k = 2 => Migrations[k].index = <<"files", "owner">>
            /\ k = 7 => Migrations[k].index = <<"files", "space_id">>
<1> SUFFICES ASSUME NEW k \in 1 .. 10, Migrations[k].when = "fresh"
             PROVE  /\ k \in {1, 2, 7} /\ Migrations[k].index \in Names(k)
                    /\ k = 1 => Migrations[k].index = <<"users", "email">>
                    /\ k = 2 => Migrations[k].index = <<"files", "owner">>
                    /\ k = 7 => Migrations[k].index = <<"files", "space_id">>
  OBVIOUS
<1>1. /\ Migrations[1].index = <<"users", "email">>
      /\ Migrations[2].index = <<"files", "owner">>
      /\ Migrations[7].index = <<"files", "space_id">>
  BY Listing DEF M
<1>2. /\ Migrations[3].when = "checked" /\ Migrations[4].when = "checked"
      /\ Migrations[5].when = "never" /\ Migrations[6].when = "never"
      /\ Migrations[8].when = "never" /\ Migrations[9].when = "never"
      /\ Migrations[10].when = "never"
  BY Listing DEF M
<1>3. k \in {1, 2, 7}
  BY <1>2
<1> QED
  BY <1>1, <1>3, Lists

(* The names of a migration are columns.                                     *)
LEMMA NamesColumns ==
    /\ \A k \in 1 .. 10 : Names(k) \subseteq Column
    /\ \A c \in Column : \E k \in 1 .. 10 : c \in Names(k)
<1> QED
  BY Lists, Listing DEF Column

(* The column that is added next is one of those that are missing.           *)
LEMMA ForemostMissing ==
    ASSUME NEW s \in Service, at[s] \in 1 .. 10,
           todo[s] # {}, todo[s] \subseteq Names(at[s])
    PROVE  Foremost(s) \in todo[s]
<1> DEFINE adds == Migrations[at[s]].adds
           Is(i) == adds[i] \in todo[s] /\ \A j \in 1 .. i - 1 : adds[j] \notin todo[s]
<1>1. PICK i \in DOMAIN adds : adds[i] \in todo[s]
  BY DEF Names
<1>2. \E j \in DOMAIN adds : Is(j)
  <2>1. CASE i = 1
    BY <1>1, <2>1
  <2>2. CASE i = 2 /\ adds[1] \in todo[s]
    BY <1>1, <2>2, AddsShort
  <2>3. CASE i = 2 /\ adds[1] \notin todo[s]
    BY <1>1, <2>3
  <2> QED
    BY <1>1, <2>1, <2>2, <2>3, AddsShort
<1> QED
  BY <1>2 DEF Foremost

-----------------------------------------------------------------------------
(* How a service ends, and how a step leaves the others alone.               *)
LEMMA ExitTypes ==
    ASSUME TypeOK, ListInv, NEW s \in Service, Exit(s),
           UNCHANGED <<dialect, users>>, faults' \in Nat
    PROVE  TypeOK' /\ ListInv'
<1> QED
  BY DEF TypeOK, ListInv, Exit, Goto, Stage

(* Every step keeps the types and the places in the lists.                  *)
LEMMA TypeListStep ==
    ASSUME TypeOK, ListInv, [Next]_vars
    PROVE  TypeOK' /\ ListInv'
<1>1. CASE UNCHANGED vars
  BY <1>1 DEF TypeOK, ListInv, vars, contents, local, history, schema
<1>2. ASSUME NEW s \in Service, Step(s) \/ Crash(s)
      PROVE  TypeOK' /\ ListInv'
  <2>1. CASE Start(s)
    BY <2>1, ExitTypes DEF Start, TypeOK, ListInv, Stage, Goto, First, Fails, Works,
       contents, local, history, schema
  <2>2. CASE CreateTable(s)
    <3>1. CASE Exit(s) /\ UNCHANGED <<dialect, users>> /\ faults' \in Nat
      BY <3>1, ExitTypes
    <3>2. CASE /\ at[s] < 5 /\ at' = [at EXCEPT ![s] = @ + 1]
               /\ UNCHANGED <<dialect, contents, pc, todo, fresh, left>> /\ faults' \in Nat
      BY <3>2, <2>2, Listing, NamesColumns, Indexes
         DEF CreateTable, TypeOK, ListInv, Stage, Goto, First, Done, IndexFiles, NewTable,
             contents
    <3>3. CASE First(s, "read") /\ UNCHANGED <<dialect, contents, todo, fresh, left>> /\ faults' \in Nat
      BY <3>3, <2>2, Listing, NamesColumns, Indexes
         DEF CreateTable, TypeOK, ListInv, Stage, Goto, First, Done, IndexFiles, NewTable,
             contents
    <3>0. faults' \in Nat
      BY <2>2 DEF CreateTable, Fails, Works, TypeOK
    <3> QED
      BY <2>2, <3>0, <3>1, <3>2, <3>3, Listing, SMTT(30)
         DEF CreateTable, ListInv, Fails, Works, IndexFiles, NewTable, contents, local,
             history, schema
  <2>3. CASE ReadColumns(s)
    <3>1. CASE Exit(s) /\ UNCHANGED <<dialect, users>> /\ faults' \in Nat
      BY <3>1, ExitTypes
    <3>2. CASE \E seen : Found(s, seen) /\ Goto(s, "add") /\ faults' \in Nat
                        /\ UNCHANGED <<dialect, contents, at, left>>
      BY <3>2, <2>3, Listing, NamesColumns, Indexes
         DEF ReadColumns, TypeOK, ListInv, Stage, Goto, First, Done, Found, Missing, Owed,
             contents
    <3>0. faults' \in Nat
      BY <2>3 DEF ReadColumns, Fails, Works, TypeOK
    <3> QED
      BY <2>3, <3>0, <3>1, <3>2, Listing, SMTT(30)
         DEF ReadColumns, ListInv, Fails, Works, contents, local, history, schema
  <2>4. CASE AddColumn(s)
    <3>1. CASE Exit(s) /\ UNCHANGED <<dialect, users>> /\ faults' \in Nat
      BY <3>1, ExitTypes
    <3>2. CASE \E c : /\ todo' = [todo EXCEPT ![s] = @ \ {c}]
                     /\ UNCHANGED <<dialect, contents, pc, at, fresh, left>> /\ faults' \in Nat
      BY <3>2, <2>4, Listing, NamesColumns, Indexes
         DEF AddColumn, TypeOK, ListInv, Stage, Goto, First, Done, contents
    <3>0. faults' \in Nat
      BY <2>4 DEF AddColumn, Fails, Works, TypeOK
    <3>3. CASE Exit(s)
      BY <3>0, <3>1, <3>3, <2>4 DEF AddColumn, contents
    <3>4. CASE ~Exit(s)
      BY <3>0, <3>2, <3>4, <2>4 DEF AddColumn
    <3> QED
      BY <3>3, <3>4
  <2>5. CASE CreateIndex(s)
    <3>1. CASE Exit(s) /\ UNCHANGED <<dialect, users>> /\ faults' \in Nat
      BY <3>1, ExitTypes
    <3>2. CASE /\ Proceed(s) /\ fresh' = [fresh EXCEPT ![s] = {}] /\ todo[s] = {}
               /\ UNCHANGED <<dialect, contents, todo, left>> /\ faults' \in Nat
      <4>1. at[s] \in 1 .. 10 /\ pc[s] = "add"
        BY <2>5 DEF CreateIndex, ListInv
      <4>2. CASE at[s] = 9
        BY <3>2, <4>1, <4>2
           DEF TypeOK, ListInv, Stage, Proceed, LastOfFiles, Clients, Goto, contents
      <4>3. CASE at[s] = 10
        BY <3>2, <4>1, <4>3
           DEF TypeOK, ListInv, Stage, Proceed, LastOfFiles, Clients, Goto, First, contents
      <4>4. CASE at[s] # 9 /\ at[s] # 10
        BY <3>2, <4>1, <4>4
           DEF TypeOK, ListInv, Stage, Proceed, LastOfFiles, Clients, Goto, contents
      <4> QED
        BY <4>2, <4>3, <4>4
    <3>0. faults' \in Nat
      BY <2>5 DEF CreateIndex, Fails, Works, TypeOK
    <3> QED
      BY <2>5, <3>0, <3>1, <3>2, Listing, SMTT(30)
         DEF CreateIndex, ListInv, Fails, Works, contents, local, history, schema
  <2>6. CASE ListUsers(s)
    <3>1. CASE Exit(s) /\ UNCHANGED <<dialect, users>> /\ faults' \in Nat
      BY <3>1, ExitTypes
    <3>2. CASE /\ Goto(s, "spaces") /\ left' = [left EXCEPT ![s] = users]
               /\ UNCHANGED <<dialect, contents, at, todo, fresh>> /\ faults' \in Nat
      BY <3>2, <2>6, Listing, NamesColumns, Indexes
         DEF ListUsers, TypeOK, ListInv, Stage, Goto, First, Done, contents
    <3>0. faults' \in Nat
      BY <2>6 DEF ListUsers, Fails, Works, TypeOK
    <3> QED
      BY <2>6, <3>0, <3>1, <3>2, Listing, SMTT(30)
         DEF ListUsers, ListInv, Fails, Works, contents, local, history, schema
  <2>7. CASE EnsureDefaultSpace(s)
    BY <2>7, ExitTypes DEF EnsureDefaultSpace, TypeOK, ListInv, Stage, Goto, First, Fails,
       Works,
       contents, local, history, schema
  <2>8. CASE AssignDefaultSpace(s)
    <3>1. CASE Exit(s) /\ UNCHANGED <<dialect, users>> /\ faults' \in Nat
      BY <3>1, ExitTypes
    <3>2. CASE /\ Goto(s, "clients") /\ UNCHANGED <<dialect, users, at, todo, fresh, left>>
               /\ faults' \in Nat
      BY <3>2, <2>8, Listing, NamesColumns, Indexes
         DEF AssignDefaultSpace, TypeOK, ListInv, Stage, Goto, First, Done, contents
    <3>0. faults' \in Nat
      BY <2>8 DEF AssignDefaultSpace, Fails, Works, TypeOK
    <3> QED
      BY <2>8, <3>0, <3>1, <3>2, Listing, SMTT(30)
         DEF AssignDefaultSpace, ListInv, Fails, Works, contents, local, history, schema
  <2>9. CASE HasClients(s)
    <3>1. CASE Exit(s) /\ UNCHANGED <<dialect, users>> /\ faults' \in Nat
      BY <3>1, ExitTypes
    <3>2. CASE /\ First(s, "duties") /\ UNCHANGED <<dialect, contents, todo, fresh, left>>
               /\ faults' \in Nat
      BY <3>2, <2>9, Listing, NamesColumns, Indexes
         DEF HasClients, TypeOK, ListInv, Stage, Goto, First, Done, Clients, contents
    <3>3. CASE /\ Goto(s, "read") /\ at' = [at EXCEPT ![s] = 10]
               /\ UNCHANGED <<dialect, contents, todo, fresh, left>> /\ faults' \in Nat
      BY <3>3, <2>9, Listing, NamesColumns, Indexes
         DEF HasClients, TypeOK, ListInv, Stage, Goto, First, Done, Clients, contents
    <3>0. faults' \in Nat
      BY <2>9 DEF HasClients, Fails, Works, TypeOK
    <3> QED
      BY <2>9, <3>0, <3>1, <3>2, <3>3, Listing, SMTT(30)
         DEF HasClients, ListInv, Fails, Works, Clients, contents, local, history, schema
  <2>10. CASE EnsureOAuthClientsTables(s)
    <3>1. CASE Exit(s) /\ UNCHANGED <<dialect, users>> /\ faults' \in Nat
      BY <3>1, ExitTypes
    <3>2. CASE Done(s) /\ UNCHANGED <<dialect, contents, todo, fresh, left>> /\ faults' \in Nat
      BY <3>2, <2>10, Listing, NamesColumns, Indexes
         DEF EnsureOAuthClientsTables, TypeOK, ListInv, Stage, Goto, First, Done, NewTable,
             Due, contents
    <3>0. faults' \in Nat
      BY <2>10 DEF EnsureOAuthClientsTables, Fails, Works, TypeOK
    <3> QED
      BY <2>10, <3>0, <3>1, <3>2, Listing, SMTT(30)
         DEF EnsureOAuthClientsTables, ListInv, Fails, Works, NewTable, Due, contents,
             local, history, schema
  <2>11. CASE CountUsers(s)
    <3>1. CASE Exit(s) /\ UNCHANGED <<dialect, users>> /\ faults' \in Nat
      BY <3>1, ExitTypes
    <3>2. CASE Done(s) /\ UNCHANGED <<dialect, contents, todo, fresh, left>> /\ faults' \in Nat
      BY <3>2, <2>11, Listing, NamesColumns, Indexes
         DEF CountUsers, TypeOK, ListInv, Stage, Goto, First, Done, Due, contents
    <3>3. CASE /\ Goto(s, "admin") /\ UNCHANGED <<dialect, contents, at, todo, fresh, left>>
               /\ faults' \in Nat
      BY <3>3, <2>11, Listing, NamesColumns, Indexes
         DEF CountUsers, TypeOK, ListInv, Stage, Goto, First, Done, Due, contents
    <3>0. faults' \in Nat
      BY <2>11 DEF CountUsers, Fails, Works, TypeOK
    <3> QED
      BY <2>11, <3>0, <3>1, <3>2, <3>3, Listing, SMTT(30)
         DEF CountUsers, ListInv, Fails, Works, Due, contents, local, history, schema
  <2>12. CASE CreateAdmin(s)
    <3>1. CASE Exit(s) /\ UNCHANGED <<dialect, users>> /\ faults' \in Nat
      BY <3>1, ExitTypes
    <3>2. CASE /\ Done(s) /\ users' = users \cup {Admin} /\ faults' \in Nat
               /\ UNCHANGED <<dialect, todo, fresh, left>>
      BY <3>2, <2>12, Listing, NamesColumns, Indexes
         DEF CreateAdmin, TypeOK, ListInv, Stage, Goto, First, Done, contents
    <3>0. faults' \in Nat
      BY <2>12 DEF CreateAdmin, Fails, Works, TypeOK
    <3> QED
      BY <2>12, <3>0, <3>1, <3>2, Listing, SMTT(30)
         DEF CreateAdmin, ListInv, Fails, Works, contents, local, history, schema
  <2>13. CASE Serve(s)
    BY <2>13, ExitTypes DEF Serve, TypeOK, ListInv, Stage, Goto, First, Fails, Works,
       contents, local, history, schema
  <2>14. CASE Crash(s)
    BY <2>14, ExitTypes DEF Crash, TypeOK, ListInv, Stage, Goto, First, Fails, Works,
       contents, local, history, schema
  <2> QED
    BY <1>2, <2>1, <2>2, <2>3, <2>4, <2>5, <2>6, <2>7, <2>8, <2>9, <2>10, <2>11, <2>12,
       <2>13, <2>14 DEF Step
<1> QED
  BY <1>1, <1>2 DEF Next

-----------------------------------------------------------------------------
(* The schema only grows, and the table of the clients comes with its        *)
(* columns.                                                                 *)
Grown ==
    /\ tables \subseteq tables' /\ cols \subseteq cols' /\ idx \subseteq idx'
    /\ skipped \subseteq skipped' /\ unchecked \subseteq unchecked'
    /\ dialect' = dialect
    /\ \A c \in Column : Awaited(c) => Awaited(c)' \/ c \in cols'

(* No statement takes a table, a column or an index away.                   *)
LEMMA SchemaGrows ==
    ASSUME ListInv, NEW s \in Service, Step(s) \/ Crash(s)
    PROVE  Grown
<1>1. ASSUME NEW t, NewTable(t)
      PROVE  /\ tables \subseteq tables' /\ cols \subseteq cols' /\ idx \subseteq idx'
             /\ t # "oauth_clients" =>
                   \A c \in Column : Awaited(c) => Awaited(c)'
             /\ t = "oauth_clients" =>
                   \A c \in Column : Awaited(c) => c \in cols'
  BY <1>1 DEF NewTable, Awaited, Added, ColumnsOf
<1>2. ASSUME IndexFiles(s)
      PROVE  /\ tables \subseteq tables' /\ cols \subseteq cols' /\ idx \subseteq idx'
             /\ \A c \in Column : Awaited(c) => Awaited(c)'
             /\ skipped \subseteq skipped' /\ unchecked' = unchecked
  BY <1>2 DEF IndexFiles, Awaited, Exit, history
<1>3. CASE Start(s)
  BY <1>3 DEF Start, Grown, Exit, Awaited, schema, history
<1>4. CASE CreateTable(s)
  <2>1. Creates[at[s]] # "oauth_clients"
    BY <1>4, Listing DEF CreateTable, ListInv
  <2> QED
    BY <1>4, <1>1, <1>2, <2>1 DEF CreateTable, Grown, Exit, Awaited, schema, history
<1>5. CASE ReadColumns(s)
  BY <1>5 DEF ReadColumns, Grown, Exit, Awaited, schema, history
<1>6. CASE AddColumn(s)
  BY <1>6 DEF AddColumn, Grown, Exit, Awaited, schema, history
<1>7. CASE CreateIndex(s)
  BY <1>7 DEF CreateIndex, Grown, Exit, Awaited, schema, history
<1>8. CASE ListUsers(s)
  BY <1>8 DEF ListUsers, Grown, Exit, Awaited, schema, history
<1>9. CASE EnsureDefaultSpace(s)
  BY <1>9 DEF EnsureDefaultSpace, Grown, Exit, Awaited, schema, history
<1>10. CASE AssignDefaultSpace(s)
  BY <1>10 DEF AssignDefaultSpace, Grown, Exit, Awaited, schema, history
<1>11. CASE HasClients(s)
  BY <1>11 DEF HasClients, Grown, Exit, Awaited, schema, history
<1>12. CASE EnsureOAuthClientsTables(s)
  BY <1>12, <1>1 DEF EnsureOAuthClientsTables, Grown, Exit, Awaited, schema, history
<1>13. CASE CountUsers(s)
  BY <1>13 DEF CountUsers, Grown, Exit, Awaited, schema, history
<1>14. CASE CreateAdmin(s)
  BY <1>14 DEF CreateAdmin, Grown, Exit, Awaited, schema, history
<1>15. CASE Serve(s)
  BY <1>15 DEF Serve, Grown, Exit, Awaited, schema, history
<1>16. CASE Crash(s)
  BY <1>16 DEF Crash, Grown, Exit, Awaited, schema, history
<1> QED
  BY <1>3, <1>4, <1>5, <1>6, <1>7, <1>8, <1>9, <1>10, <1>11, <1>12, <1>13, <1>14, <1>15,
     <1>16 DEF Step

(* The other services stay where they are.                                   *)
LEMMA OthersStay ==
    ASSUME TypeOK, NEW s \in Service, Step(s) \/ Crash(s)
    PROVE  \A r \in Service \ {s} :
               /\ pc'[r] = pc[r] /\ at'[r] = at[r]
               /\ todo'[r] = todo[r] /\ fresh'[r] = fresh[r] /\ left'[r] = left[r]
<1> USE DEF TypeOK
<1>1. ASSUME Exit(s)
      PROVE  \A r \in Service \ {s} :
                 /\ pc'[r] = pc[r] /\ at'[r] = at[r]
                 /\ todo'[r] = todo[r] /\ fresh'[r] = fresh[r] /\ left'[r] = left[r]
  BY <1>1 DEF Exit, Goto
<1>2. CASE Start(s)
  BY <1>2, <1>1 DEF Start, First, Goto, local
<1>3. CASE CreateTable(s)
  BY <1>3, <1>1 DEF CreateTable, IndexFiles, First, Goto, local
<1>4. CASE ReadColumns(s)
  BY <1>4, <1>1 DEF ReadColumns, Found, Goto, local
<1>5. CASE AddColumn(s)
  BY <1>5, <1>1 DEF AddColumn, Goto, local
<1>6. CASE CreateIndex(s)
  BY <1>6, <1>1 DEF CreateIndex, Proceed, First, Goto, local
<1>7. CASE ListUsers(s)
  BY <1>7, <1>1 DEF ListUsers, Goto, local
<1>8. CASE EnsureDefaultSpace(s)
  BY <1>8, <1>1 DEF EnsureDefaultSpace, Goto, local
<1>9. CASE AssignDefaultSpace(s)
  BY <1>9, <1>1 DEF AssignDefaultSpace, Goto, local
<1>10. CASE HasClients(s)
  BY <1>10, <1>1 DEF HasClients, First, Goto, local
<1>11. CASE EnsureOAuthClientsTables(s)
  BY <1>11, <1>1 DEF EnsureOAuthClientsTables, Done, Goto, local
<1>12. CASE CountUsers(s)
  BY <1>12, <1>1 DEF CountUsers, Done, Goto, local
<1>13. CASE CreateAdmin(s)
  BY <1>13, <1>1 DEF CreateAdmin, Done, Goto, local
<1>14. CASE Serve(s)
  BY <1>14, <1>1 DEF Serve, Goto, local
<1>15. CASE Crash(s)
  BY <1>15, <1>1 DEF Crash, Goto, local
<1> QED
  BY <1>2, <1>3, <1>4, <1>5, <1>6, <1>7, <1>8, <1>9, <1>10, <1>11, <1>12, <1>13, <1>14,
     <1>15 DEF Step

-----------------------------------------------------------------------------
(* Columns and tables that are there stay; a service moves past a migration  *)
(* when it has found or added all its columns.                              *)
LEMMA KeptAway ==
    ASSUME Grown, NEW s \in Service, SchemaAt(s), at[s] \in Nat,
           Passed(s) \subseteq 1 .. 10, pc[s] = "add" => at[s] \in 1 .. 10,
           pc'[s] = pc[s], at'[s] = at[s], todo'[s] = todo[s]
    PROVE  SchemaAt(s)'
<1>1. Passed(s)' = Passed(s)
  BY DEF Passed
<1>2. \A k \in Passed(s) : \A c \in Names(k) :
          Present(c) \/ Awaited(c) => (Present(c) \/ Awaited(c))'
  BY NamesColumns DEF Grown, Present
<1> QED
  BY <1>1, <1>2 DEF SchemaAt, Grown, Names

(* What is behind a service are migrations of the list.                     *)
LEMMA PassedRange ==
    ASSUME ListInv, NEW s \in Service
    PROVE  /\ Passed(s) \subseteq 1 .. 10
           /\ pc[s] \in {"read", "add"} => at[s] \in 1 .. 10
<1> QED
  BY DEF ListInv, Passed, LastOfFiles, Clients

(* A service that ends has nothing behind it.                                *)
LEMMA ExitSchema ==
    ASSUME TypeOK, NEW s \in Service, Exit(s)
    PROVE  SchemaAt(s)'
<1> QED
  BY DEF TypeOK, Exit, Goto, SchemaAt, Passed

(* What a service has behind it stays behind it; it may have a migration     *)
(* more behind it, if all of its columns are there.                         *)
LEMMA Onward ==
    ASSUME Grown, NEW s \in Service, SchemaAt(s), Passed(s) \subseteq 1 .. 10,
           pc[s] \notin {"off", "down", "create"},
           pc'[s] \notin {"off", "down", "create", "add"},
           \A k \in Passed(s)' \ Passed(s) :
               k \in 1 .. 10 /\ \A c \in Names(k) : (Present(c) \/ Awaited(c))'
    PROVE  SchemaAt(s)'
<1>1. \A k \in Passed(s) : \A c \in Names(k) : (Present(c) \/ Awaited(c))'
  BY NamesColumns DEF SchemaAt, Grown, Present
<1> QED
  BY <1>1 DEF SchemaAt, Grown

(* A step of a service keeps what every service has behind it: its own      *)
(* progress by the kind of step, that of the others because the schema      *)
(* grows.                                                                   *)
LEMMA SchemaStep ==
    ASSUME TypeOK, ListInv, SchemaInv, NEW s \in Service, Step(s) \/ Crash(s)
    PROVE  SchemaInv'
<1> USE DEF Goto
<1>1. Grown
  BY SchemaGrows
<1>2. \A r \in Service \ {s} : SchemaAt(r)'
  BY <1>1, OthersStay, KeptAway, PassedRange DEF TypeOK, SchemaInv
<1>3. SchemaAt(s) /\ Passed(s) \subseteq 1 .. 10
  BY PassedRange DEF SchemaInv
<1> SUFFICES SchemaAt(s)'
  BY <1>2 DEF SchemaInv
<1>4. CASE Start(s)
  BY <1>4 DEF Start, First, SchemaAt, Passed, TypeOK
<1>5. CASE CreateTable(s)
  <2>1. CASE Exit(s)
    BY <2>1, ExitSchema
  <2>2. at[s] \in 1 .. 5 /\ pc[s] = "create"
    BY <1>5 DEF CreateTable, ListInv
  <2>3. CASE /\ at' = [at EXCEPT ![s] = @ + 1] /\ UNCHANGED pc
             /\ tables' = tables \cup {Creates[at[s]]}
    BY <2>2, <2>3, <1>3 DEF SchemaAt, Passed, TypeOK
  <2>4. CASE at[s] = 5 /\ First(s, "read") /\ tables' = tables \cup {Creates[at[s]]}
    <3>1. Passed(s)' = {}
      BY <2>4 DEF First, Passed, TypeOK
    <3> QED
      BY <3>1, <2>2, <2>4, <1>3 DEF SchemaAt, TypeOK, First
  <2> QED
    BY <1>5, <2>1, <2>2, <2>3, <2>4, Listing DEF CreateTable, IndexFiles, NewTable
<1>6. CASE ReadColumns(s)
  <2>1. CASE Exit(s)
    BY <2>1, ExitSchema
  <2>2. CASE /\ pc[s] = "read" /\ pc'[s] = "add" /\ at'[s] = at[s] /\ UNCHANGED schema
             /\ todo'[s] = Names(at[s]) \ cols \/ todo'[s] = Names(at[s])
    <3>1. Passed(s)' = Passed(s)
      BY <2>2 DEF Passed
    <3> QED
      BY <3>1, <2>2, <1>3, <1>1, NamesColumns DEF SchemaAt, Grown, Present, schema, Names
  <2> QED
    BY <1>6, <2>1, <2>2 DEF ReadColumns, Found, Missing, TypeOK
<1>7. CASE AddColumn(s)
  <2>1. CASE Exit(s)
    BY <2>1, ExitSchema
  <2>2. CASE /\ pc[s] = "add" /\ UNCHANGED <<pc, at>>
             /\ todo' = [todo EXCEPT ![s] = @ \ {Foremost(s)}]
             /\ cols' = cols \cup {Foremost(s)}
    <3>1. Passed(s)' = Passed(s)
      BY <2>2 DEF Passed
    <3>2. todo'[s] = todo[s] \ {Foremost(s)}
      BY <2>2 DEF TypeOK
    <3> QED
      BY <3>1, <3>2, <2>2, <1>3, <1>1, NamesColumns DEF SchemaAt, Grown, Present, Names
  <2> QED
    BY <1>7, <2>1, <2>2 DEF AddColumn
<1>8. CASE CreateIndex(s)
  <2>1. CASE Exit(s)
    BY <2>1, ExitSchema
  <2>2. CASE Proceed(s) /\ pc[s] = "add" /\ todo[s] = {} /\ UNCHANGED <<cols, tables>>
    <3>1. at[s] \in 1 .. 10 /\ Passed(s) = 1 .. at[s] - 1
      BY <2>2 DEF ListInv, Passed
    <3>2. pc'[s] \notin {"off", "down", "create", "add"} /\ Passed(s)' = 1 .. at[s]
      <4>1. CASE at[s] = 9
        BY <2>2, <3>1, <4>1 DEF Proceed, LastOfFiles, Clients, Passed, TypeOK
      <4>2. CASE at[s] = 10
        BY <2>2, <3>1, <4>2 DEF Proceed, First, LastOfFiles, Clients, Passed, TypeOK
      <4>3. CASE at[s] \in 1 .. 8
        <5>1. pc'[s] = "read" /\ at'[s] = at[s] + 1
          BY <2>2, <4>3 DEF Proceed, LastOfFiles, Clients, TypeOK
        <5> QED
          BY <5>1, <3>1, <4>3 DEF Passed
      <4> QED
        BY <3>1, <4>1, <4>2, <4>3
    <3>3. \A c \in Names(at[s]) : c \in cols
      BY <2>2, <1>3 DEF SchemaAt
    <3>4. \A k \in Passed(s)' \ Passed(s) : k = at[s]
      BY <3>1, <3>2
    <3> QED
      BY <3>1, <3>2, <3>3, <3>4, <2>2, <1>1, <1>3, Onward DEF Present
  <2> QED
    BY <1>8, <2>1, <2>2 DEF CreateIndex
<1>9. CASE ListUsers(s) \/ AssignDefaultSpace(s)
  <2>1. CASE Exit(s)
    BY <2>1, ExitSchema
  <2>2. CASE pc[s] \in {"users", "spaces"} /\ pc'[s] \in {"spaces", "clients"}
    <3>1. Passed(s)' = Passed(s)
      BY <2>2 DEF Passed
    <3> QED
      BY <3>1, <2>2, <1>1, <1>3, Onward
  <2> QED
    BY <1>9, <2>1, <2>2 DEF ListUsers, AssignDefaultSpace, TypeOK
<1>10. CASE EnsureDefaultSpace(s) \/ CountUsers(s) \/ CreateAdmin(s)
  <2>1. CASE Exit(s)
    BY <2>1, ExitSchema
  <2>2. CASE \/ pc[s] = "spaces" /\ pc'[s] = "spaces"
             \/ pc[s] \in {"duties", "admin"} /\ pc'[s] \in {"duties", "admin"}
    <3>1. Passed(s)' = Passed(s)
      BY <2>2 DEF Passed
    <3> QED
      BY <3>1, <2>2, <1>1, <1>3, Onward
  <2> QED
    BY <1>10, <2>1, <2>2 DEF EnsureDefaultSpace, CountUsers, CreateAdmin, Due, Done, TypeOK
<1>11. CASE HasClients(s)
  <2>1. Passed(s) = 1 .. 9 /\ pc[s] = "clients"
    BY <1>11 DEF HasClients, Passed, LastOfFiles
  <2>2. CASE /\ pc'[s] = "duties"
             /\ \/ unchecked' = unchecked \cup ColumnsOf("oauth_clients")
                \/ UNCHANGED tables /\ "oauth_clients" \notin tables
    <3>1. \A k \in Passed(s)' \ Passed(s) : k = 10
      BY <2>1, <2>2 DEF Passed, Clients
    <3>2. \A c \in Names(10) : c \in Column /\ c[1] = "oauth_clients"
      BY Lists, NamesColumns
    <3>3. \A c \in Names(10) : (Present(c) \/ Awaited(c))'
      BY <3>2, <2>2 DEF Present, Awaited, ColumnsOf
    <3> QED
      BY <3>1, <3>3, <2>1, <2>2, <1>1, <1>3, Onward
  <2>3. CASE pc'[s] = "read" /\ at'[s] = 10
    <3>1. Passed(s)' = Passed(s)
      BY <2>1, <2>3 DEF Passed
    <3> QED
      BY <3>1, <2>1, <2>3, <1>1, <1>3, Onward
  <2> QED
    BY <1>11, <2>2, <2>3 DEF HasClients, First, Clients, schema, TypeOK
<1>12. CASE EnsureOAuthClientsTables(s)
  <2>1. CASE Exit(s)
    BY <2>1, ExitSchema
  <2>2. CASE pc[s] = "duties" /\ pc'[s] = "duties"
    <3>1. Passed(s)' = Passed(s)
      BY <2>2 DEF Passed
    <3> QED
      BY <3>1, <2>2, <1>1, <1>3, Onward
  <2> QED
    BY <1>12, <2>1, <2>2 DEF EnsureOAuthClientsTables, Due, Done, TypeOK
<1>13. CASE Serve(s)
  <2>1. pc[s] = "duties" /\ pc'[s] = "up"
    BY <1>13 DEF Serve, TypeOK
  <2>2. Passed(s)' = Passed(s)
    BY <2>1 DEF Passed
  <2> QED
    BY <2>1, <2>2, <1>1, <1>3, Onward
<1>14. CASE Crash(s)
  BY <1>14, ExitSchema DEF Crash
<1> QED
  BY <1>4, <1>5, <1>6, <1>7, <1>8, <1>9, <1>10, <1>11, <1>12, <1>13, <1>14 DEF Step

-----------------------------------------------------------------------------
(* Indexes.                                                                  *)
LEMMA OwedStep ==
    ASSUME TypeOK, ListInv, OwedInv, NEW s \in Service, Step(s) \/ Crash(s)
    PROVE  OwedInv'
<1> USE DEF Goto
<1> DEFINE Noted(r) == pc[r] = "add" /\ Migrations[at[r]].when = "fresh" =>
                           {Migrations[at[r]].index} \cap todo[r] \subseteq fresh[r]
<1> SUFFICES ASSUME dialect = "mysql"
             PROVE  \A r \in Service : Noted(r)'
  BY SchemaGrows DEF OwedInv, Grown
<1>1. \A r \in Service \ {s} : Noted(r)'
  BY OthersStay DEF OwedInv
<1>2. CASE ReadColumns(s)
  <2>1. CASE Exit(s)
    BY <2>1, <1>1 DEF Exit, TypeOK
  <2>2. CASE at' = at /\ \E seen : Found(s, seen)
    BY <2>2, <1>1 DEF Found, Owed, TypeOK
  <2> QED
    BY <1>2, <2>1, <2>2 DEF ReadColumns
<1>3. CASE AddColumn(s)
  <2>1. CASE Exit(s)
    BY <2>1, <1>1 DEF Exit, TypeOK
  <2>2. CASE /\ todo' = [todo EXCEPT ![s] = @ \ {Foremost(s)}]
             /\ UNCHANGED <<pc, at, fresh>>
    BY <2>2, <1>1 DEF OwedInv, TypeOK
  <2> QED
    BY <1>3, <2>1, <2>2 DEF AddColumn
<1>4. CASE pc'[s] # "add"
  BY <1>4, <1>1
<1>5. CASE pc'[s] = "add" /\ ~ReadColumns(s) /\ ~AddColumn(s)
  <2> USE DEF TypeOK
  <2>1. ASSUME Exit(s)
        PROVE  FALSE
    BY <1>5, <2>1 DEF Exit
  <2>2. ~Start(s) /\ ~ListUsers(s) /\ ~AssignDefaultSpace(s) /\ ~Serve(s)
    BY <1>5, <2>1 DEF Start, First, ListUsers, AssignDefaultSpace, Serve
  <2>3. ~CreateTable(s)
    BY <1>5, <2>1 DEF CreateTable, IndexFiles, First, history
  <2>4. ~CreateIndex(s)
    BY <1>5, <2>1 DEF CreateIndex, Proceed, First
  <2>5. ~HasClients(s) /\ ~EnsureDefaultSpace(s) /\ ~Crash(s)
    BY <1>5, <2>1 DEF HasClients, First, EnsureDefaultSpace, Crash
  <2>6. ~EnsureOAuthClientsTables(s) /\ ~CountUsers(s) /\ ~CreateAdmin(s)
    BY <1>5, <2>1 DEF EnsureOAuthClientsTables, CountUsers, CreateAdmin, Done
  <2> QED
    BY <1>5, <2>2, <2>3, <2>4, <2>5, <2>6 DEF Step
<1> QED
  BY <1>2, <1>3, <1>4, <1>5

(* An index that a service owes is made, or left to nobody, when the service *)
(* stops owing it.                                                          *)
LEMMA OwingStep ==
    ASSUME TypeOK, ListInv, NEW s \in Service, Step(s) \/ Crash(s), NEW i \in Owing(s)
    PROVE  i \in Owing(s)' \/ i \in idx' \cup skipped'
<1>1. pc[s] = "add" /\ at[s] \in 1 .. 10 /\ i = Migrations[at[s]].index /\ i \in fresh[s]
  BY DEF ListInv, Owing
<1>2. CASE Exit(s)
  BY <1>2 DEF Exit
<1>3. CASE AddColumn(s) /\ ~Exit(s)
  BY <1>3 DEF AddColumn, Owing, TypeOK
<1>4. CASE CreateIndex(s) /\ ~Exit(s)
  BY <1>4, <1>1 DEF CreateIndex
<1>5. CASE ~Exit(s) /\ ~AddColumn(s) /\ ~CreateIndex(s)
  BY <1>1, <1>5 DEF Step, Crash, Start, CreateTable, ReadColumns, ListUsers,
     EnsureDefaultSpace, AssignDefaultSpace, HasClients, EnsureOAuthClientsTables, Due,
     CountUsers, CreateAdmin, Serve
<1> QED
  BY <1>2, <1>3, <1>4, <1>5

(* A column that carries an index arrives with the index, or with a service  *)
(* that owes it.                                                            *)
LEMMA IndexedColumn ==
    ASSUME TypeOK, ListInv, OwedInv, dialect = "mysql",
           NEW s \in Service, Step(s) \/ Crash(s),
           NEW k \in 1 .. 10, Migrations[k].when = "fresh",
           Migrations[k].index \notin cols, Migrations[k].index \in cols'
    PROVE  Migrations[k].index \in idx' \cup Owing(s)'
<1> DEFINE i == Migrations[k].index
<1>1. i \in {<<"users", "email">>, <<"files", "owner">>, <<"files", "space_id">>}
  BY Indexes
<1>2. ASSUME NEW t, NewTable(t)
      PROVE  i \in idx'
  <2>1. t \notin tables /\ i \in Added(t)
    BY <1>2 DEF NewTable
  <2>2. i[1] = t
    BY <2>1 DEF Added, ColumnsOf
  <2>3. i \in IndexesOf(t)
    BY <1>1, <2>1, <2>2 DEF Added, IndexesOf
  <2> QED
    BY <1>2, <2>1, <2>3 DEF NewTable
<1>3. CASE CreateTable(s)
  BY <1>2, <1>3 DEF CreateTable, schema
<1>4. CASE EnsureOAuthClientsTables(s)
  BY <1>2, <1>4 DEF EnsureOAuthClientsTables, schema
<1>5. CASE AddColumn(s)
  <2>1. /\ pc[s] = "add" /\ at[s] \in 1 .. 10 /\ todo[s] # {}
        /\ todo[s] \subseteq Names(at[s]) /\ i = Foremost(s)
        /\ todo' = [todo EXCEPT ![s] = @ \ {i}] /\ fresh' = fresh
    BY <1>5 DEF AddColumn, ListInv
  <2>2. i \in Names(at[s]) /\ i \in todo[s]
    BY <2>1, ForemostMissing
  <2>3. at[s] = k
    BY <2>1, <2>2, Lists, Indexes
  <2>4. i \in fresh[s]
    BY <2>1, <2>2, <2>3 DEF OwedInv
  <2> QED
    BY <2>1, <2>4 DEF Owing, TypeOK
<1>6. CASE ~CreateTable(s) /\ ~EnsureOAuthClientsTables(s) /\ ~AddColumn(s)
  BY <1>6 DEF Step, Crash, Start, ReadColumns, CreateIndex, ListUsers,
     EnsureDefaultSpace, AssignDefaultSpace, HasClients, CountUsers, CreateAdmin, Serve, schema
<1> QED
  BY <1>3, <1>4, <1>5, <1>6

(* A column with an index of its own is made by the service that also makes *)
(* the index, or by one that leaves the index to it.                        *)
LEMMA IndexStep ==
    ASSUME TypeOK, ListInv, OwedInv, IndexExplained, NEW s \in Service, Step(s) \/ Crash(s)
    PROVE  IndexExplained'
<1>1. Grown
  BY SchemaGrows
<1> SUFFICES ASSUME dialect = "mysql", NEW k \in 1 .. 10, Migrations[k].when = "fresh",
                    Migrations[k].index \in cols'
             PROVE  \/ Migrations[k].index \in idx' \cup skipped'
                    \/ \E r \in Service : Migrations[k].index \in Owing(r)'
  BY <1>1, Listing DEF IndexExplained, Grown
<1>2. CASE Migrations[k].index \notin cols
  BY <1>2, IndexedColumn
<1>3. CASE Migrations[k].index \in idx \cup skipped
  BY <1>1, <1>3 DEF Grown
<1>4. ASSUME NEW r \in Service, Migrations[k].index \in Owing(r)
      PROVE  \/ Migrations[k].index \in idx' \cup skipped'
             \/ Migrations[k].index \in Owing(r)'
  <2>1. CASE r = s
    BY <1>4, <2>1, OwingStep
  <2>2. CASE r # s
    BY <1>4, <2>2, OthersStay DEF Owing
  <2> QED
    BY <2>1, <2>2
<1> QED
  BY <1>2, <1>3, <1>4, Listing DEF IndexExplained

-----------------------------------------------------------------------------
(* Files and their spaces.                                                   *)
LEMMA FilesStep ==
    ASSUME TypeOK, FilesInv, NEW s \in Service, Step(s) \/ Crash(s)
    PROVE  /\ FilesInv' /\ DOMAIN file' = DOMAIN file
           /\ \A r \in DOMAIN file : Homeless(file'[r]) => Homeless(file[r])
<1>1. CASE AssignDefaultSpace(s) /\ ~Exit(s)
  <2>1. /\ origin' = origin
        /\ file' = [r \in DOMAIN file |->
                       IF Homeless(file[r]) THEN [file[r] EXCEPT !.space = "default"]
                       ELSE file[r]]
    BY <1>1 DEF AssignDefaultSpace, history
  <2>2. DOMAIN file = DOMAIN origin /\ DOMAIN file' = DOMAIN file
    BY <2>1 DEF FilesInv
  <2>3. \A r \in DOMAIN file :
            /\ file'[r] \in [owner : {""} \cup User, space : {"", "own", "default"}]
            /\ file'[r].owner = file[r].owner
            /\ \/ file'[r].space = file[r].space
               \/ Homeless(file[r]) /\ file'[r].space = "default"
    BY <2>1 DEF FilesInv
  <2>4. FilesInv'
    <3>1. file' \in [DOMAIN origin' ->
                       [owner : {""} \cup User, space : {"", "own", "default"}]]
      BY <2>1, <2>2, <2>3
    <3>2. ASSUME NEW r \in DOMAIN origin
          PROVE  /\ file'[r].owner = origin[r].owner
                 /\ \/ file'[r].space = origin[r].space
                    \/ Homeless(origin[r]) /\ file'[r].space = "default"
      <4>1. /\ file[r].owner = origin[r].owner
            /\ \/ file[r].space = origin[r].space
               \/ Homeless(origin[r]) /\ file[r].space = "default"
        BY DEF FilesInv
      <4>2. CASE Homeless(file[r]) /\ file'[r].space = "default"
        <5>1. file[r].space # "default"
          BY <4>2 DEF Homeless
        <5> QED
          BY <5>1, <4>1, <4>2, <2>2, <2>3 DEF Homeless
      <4>3. CASE file'[r].space = file[r].space
        BY <4>1, <4>3, <2>2, <2>3
      <4> QED
        BY <4>2, <4>3, <2>2, <2>3
    <3> QED
      BY <3>1, <3>2, <2>1 DEF FilesInv
  <2> QED
    BY <2>2, <2>3, <2>4 DEF Homeless
<1>2. CASE UNCHANGED <<file, origin>>
  BY <1>2 DEF FilesInv
<1>3. UNCHANGED <<file, origin>> \/ (AssignDefaultSpace(s) /\ ~Exit(s))
  <2>1. ASSUME Exit(s)
        PROVE  origin' = origin
    BY <2>1 DEF Exit
  <2>2. CASE AssignDefaultSpace(s)
    BY <2>2 DEF AssignDefaultSpace, Exit, Goto, TypeOK, history
  <2>3. CASE CreateTable(s)
    BY <2>1, <2>3 DEF CreateTable, IndexFiles, contents, history
  <2>4. CASE EnsureDefaultSpace(s) \/ CreateAdmin(s) \/ HasClients(s) \/ CreateIndex(s)
    BY <2>1, <2>4 DEF EnsureDefaultSpace, CreateAdmin, HasClients, CreateIndex, contents
  <2>5. CASE \/ Crash(s) \/ Start(s) \/ ReadColumns(s) \/ AddColumn(s) \/ ListUsers(s)
             \/ EnsureOAuthClientsTables(s) \/ CountUsers(s) \/ Serve(s)
    BY <2>1, <2>5 DEF Crash, Start, ReadColumns, AddColumn, ListUsers,
       EnsureOAuthClientsTables, CountUsers, Serve, contents, history
  <2> QED
    BY <2>2, <2>3, <2>4, <2>5 DEF Step
<1> QED
  BY <1>1, <1>2, <1>3

(* Who has a space, or an excuse, keeps one of the two; who comes later has  *)
(* an excuse.                                                               *)
LEMMA Covered ==
    ASSUME NEW s \in Service, Step(s) \/ Crash(s)
    PROVE  /\ homes \cup excused \subseteq homes' \cup excused'
           /\ users' \subseteq users \cup excused'
<1>1. ASSUME Exit(s)
      PROVE  excused' = excused
  BY <1>1 DEF Exit
<1>2. CASE EnsureDefaultSpace(s)
  BY <1>2 DEF EnsureDefaultSpace
<1>3. CASE CreateAdmin(s)
  BY <1>1, <1>3 DEF CreateAdmin
<1>4. CASE CreateTable(s)
  BY <1>1, <1>4 DEF CreateTable, IndexFiles, contents, history
<1>5. CASE ~EnsureDefaultSpace(s) /\ ~CreateAdmin(s) /\ ~CreateTable(s)
  BY <1>1, <1>5 DEF Step, Crash, Start, ReadColumns, AddColumn, CreateIndex, ListUsers,
     AssignDefaultSpace, HasClients, EnsureOAuthClientsTables, CountUsers, Serve,
     contents, history
<1> QED
  BY <1>2, <1>3, <1>4, <1>5

(* A step keeps what is said of files and users: the services that have     *)
(* assigned the spaces are disturbed by nobody.                             *)
LEMMA HomesStep ==
    ASSUME TypeOK, ListInv, HomesInv, NEW s \in Service, Step(s) \/ Crash(s)
    PROVE  HomesInv'
<1> USE DEF TypeOK, Goto
<1>1. /\ FilesInv' /\ DOMAIN file' = DOMAIN file
      /\ \A r \in DOMAIN file : Homeless(file'[r]) => Homeless(file[r])
  BY FilesStep DEF HomesInv
<1>2. /\ homes \cup excused \subseteq homes' \cup excused'
      /\ users' \subseteq users \cup excused'
  BY Covered
<1>3. ASSUME NEW r \in Service, Assigned(r)' => Assigned(r),
             pc'[r] = "spaces" => pc[r] = "spaces" /\ left'[r] = left[r]
      PROVE  HomesAt(r)'
  BY <1>1, <1>2, <1>3 DEF HomesInv, HomesAt
<1>4. \A r \in Service \ {s} : HomesAt(r)'
  <2>1. \A r \in Service \ {s} : Assigned(r)' => Assigned(r)
    BY OthersStay DEF Assigned
  <2> QED
    BY <1>3, <2>1, OthersStay
<1>5. HomesAt(s)'
  <2>1. CASE Exit(s)
    BY <2>1, <1>3 DEF Exit, Assigned
  <2>2. CASE ListUsers(s) /\ ~Exit(s)
    <3>1. pc'[s] = "spaces" /\ left'[s] = users /\ users' = users
      BY <2>2 DEF ListUsers, contents
    <3>2. ~Assigned(s)'
      BY <3>1 DEF Assigned
    <3> QED
      BY <3>1, <3>2 DEF HomesAt
  <2>3. CASE EnsureDefaultSpace(s)
    <3>1. PICK u \in left[s] :
              /\ left' = [left EXCEPT ![s] = @ \ {u}]
              /\ \/ homes' = homes \cup {u}
                 \/ homes' = homes /\ excused' = IF u \in homes THEN excused
                                                ELSE excused \cup {u}
      BY <2>3 DEF EnsureDefaultSpace
    <3>2. pc[s] = "spaces" /\ pc'[s] = "spaces" /\ users' = users
      BY <2>3 DEF EnsureDefaultSpace
    <3>3. users \subseteq homes \cup excused \cup left[s]
      BY <3>2 DEF HomesInv, HomesAt
    <3>4. left'[s] = left[s] \ {u} /\ u \in homes' \cup excused'
      BY <3>1
    <3>5. ~Assigned(s)'
      BY <3>2 DEF Assigned
    <3> QED
      BY <3>2, <3>3, <3>4, <3>5, <1>2 DEF HomesAt
  <2>4. CASE AssignDefaultSpace(s) /\ ~Exit(s)
    <3>1. /\ pc[s] = "spaces" /\ left[s] = {} /\ pc'[s] = "clients"
          /\ file' = [r \in DOMAIN file |->
                         IF Homeless(file[r]) THEN [file[r] EXCEPT !.space = "default"]
                         ELSE file[r]]
      BY <2>4 DEF AssignDefaultSpace
    <3>2. users \subseteq homes \cup excused
      BY <3>1 DEF HomesInv, HomesAt
    <3>3. \A r \in DOMAIN file :
              file[r] \in [owner : {""} \cup User, space : {"", "own", "default"}]
      BY DEF HomesInv, FilesInv
    <3>4. \A r \in DOMAIN file' : ~Homeless(file'[r])
      BY <3>1, <3>3 DEF Homeless
    <3> QED
      BY <3>1, <3>2, <3>4, <1>2 DEF HomesAt
  <2>5. CASE CreateIndex(s) /\ ~Exit(s)
    <3>1. Proceed(s) /\ pc[s] = "add" /\ at[s] \in 1 .. 10
      BY <2>5 DEF CreateIndex, ListInv
    <3>2. pc'[s] # "spaces"
      BY <3>1 DEF Proceed, First
    <3>3. CASE at[s] = 10
      BY <3>1, <3>2, <3>3, <1>3 DEF Assigned, Clients
    <3>4. CASE at[s] = 9
      BY <3>1, <3>2, <3>4, <1>3 DEF Assigned, Proceed, LastOfFiles, Clients
    <3>5. CASE at[s] \in 1 .. 8
      <4>1. pc'[s] = "read" /\ at'[s] = at[s] + 1
        BY <3>1, <3>5 DEF Proceed, LastOfFiles, Clients
      <4> QED
        BY <4>1, <3>2, <3>5, <1>3 DEF Assigned, Clients
    <3> QED
      BY <3>1, <3>3, <3>4, <3>5
  <2>6. CASE CreateTable(s) /\ ~Exit(s)
    <3>1. pc'[s] \in {"create", "read"} /\ (pc'[s] = "read" => at'[s] = 1)
      BY <2>6 DEF CreateTable, IndexFiles, First, history
    <3> QED
      BY <3>1, <1>3 DEF Assigned, Clients
  <2>7. CASE (ReadColumns(s) \/ AddColumn(s)) /\ ~Exit(s)
    <3>1. at'[s] = at[s] /\ pc[s] \in {"read", "add"} /\ pc'[s] = "add"
      BY <2>7 DEF ReadColumns, AddColumn
    <3> QED
      BY <3>1, <1>3 DEF Assigned
  <2>8. CASE Start(s)
    BY <2>8, <1>3 DEF Start, First, Assigned
  <2>9. CASE HasClients(s)
    <3>1. Assigned(s) /\ pc'[s] # "spaces"
      BY <2>9 DEF HasClients, First, Assigned
    <3> QED
      BY <3>1, <1>3
  <2>10. CASE \/ EnsureOAuthClientsTables(s) \/ CountUsers(s) \/ CreateAdmin(s)
              \/ Serve(s)
    <3>1. pc[s] \in {"duties", "admin"}
      BY <2>10 DEF EnsureOAuthClientsTables, CountUsers, CreateAdmin, Serve, Due
    <3>2. CASE ~Exit(s)
      <4>1. pc'[s] # "spaces"
        BY <2>10, <3>2 DEF EnsureOAuthClientsTables, CountUsers, CreateAdmin, Serve, Done
      <4> QED
        BY <4>1, <3>1, <1>3 DEF Assigned
    <3> QED
      BY <3>2, <2>1
  <2>11. CASE Crash(s)
    BY <2>1, <2>11 DEF Crash
  <2> QED
    BY <2>1, <2>2, <2>3, <2>4, <2>5, <2>6, <2>7, <2>8, <2>9, <2>10, <2>11 DEF Step
<1> QED
  BY <1>1, <1>4, <1>5 DEF HomesInv

-----------------------------------------------------------------------------
(* A file that cannot be upgraded.                                           *)
LEMMA StuckStep ==
    ASSUME TypeOK, Stuck, StuckInv, NEW s \in Service, Step(s) \/ Crash(s)
    PROVE  Stuck' /\ StuckInv'
<1> USE DEF TypeOK, Goto
<1>1. /\ dialect = "sqlite" /\ "files" \in tables
      /\ ~(\A i \in 1 .. 3 : FileIndexes[i] \in cols)
      /\ pc[s] \in {"off", "down", "create"} /\ (pc[s] = "create" => at[s] \in 1 .. 2)
  BY DEF Stuck, StuckInv
<1>2. CASE Exit(s) /\ UNCHANGED <<dialect, cols, tables>>
  BY <1>2, OthersStay DEF Exit, Stuck, StuckInv
<1>3. CASE Crash(s)
  BY <1>2, <1>3 DEF Crash, schema
<1>4. CASE Start(s)
  BY <1>4, OthersStay DEF Start, First, schema, Stuck, StuckInv
<1>5. CASE CreateTable(s)
  <2>1. at[s] \in 1 .. 2 /\ pc[s] = "create" /\ dialect' = dialect
    BY <1>1, <1>5 DEF CreateTable
  <2>2. CASE Exit(s) /\ UNCHANGED schema
    BY <2>1, <2>2, <1>2 DEF schema
  <2>3. CASE IndexFiles(s)
    <3> DEFINE good == {i \in 1 .. 3 : \A j \in 1 .. i : FileIndexes[j] \in cols}
    <3>1. PICK i \in 1 .. 3 : FileIndexes[i] \notin cols
      BY <1>1
    <3>2. i \notin good
      BY <3>1
    <3>3. good # 1 .. 3
      BY <3>1, <3>2
    <3> QED
      BY <3>3, <2>1, <2>3, <1>1, <1>2 DEF IndexFiles
  <2>4. CASE /\ Creates[at[s]] # "files" /\ NewTable(Creates[at[s]])
             /\ at' = [at EXCEPT ![s] = @ + 1] /\ pc' = pc
    <3>1. at[s] = 1 /\ Creates[at[s]] = "upload_sessions"
      BY <2>1, <2>4, Listing
    <3>2. \A i \in 1 .. 3 : FileIndexes[i] \in cols' => FileIndexes[i] \in cols
      BY <2>4, <3>1 DEF NewTable, Added, ColumnsOf, FileIndexes
    <3>3. "files" \in tables'
      BY <2>4, <1>1 DEF NewTable
    <3> QED
      BY <3>1, <3>2, <3>3, <2>1, <2>4, <1>1, OthersStay DEF Stuck, StuckInv
  <2> QED
    BY <1>1, <1>5, <2>1, <2>2, <2>3, <2>4, Listing DEF CreateTable
<1>6. ~(ReadColumns(s) \/ AddColumn(s) \/ CreateIndex(s) \/ ListUsers(s)
        \/ EnsureDefaultSpace(s) \/ AssignDefaultSpace(s) \/ HasClients(s)
        \/ EnsureOAuthClientsTables(s) \/ CountUsers(s) \/ CreateAdmin(s) \/ Serve(s))
  BY <1>1 DEF ReadColumns, AddColumn, CreateIndex, ListUsers, EnsureDefaultSpace,
     AssignDefaultSpace, HasClients, EnsureOAuthClientsTables, Due, CountUsers,
     CreateAdmin, Serve
<1> QED
  BY <1>3, <1>4, <1>5, <1>6 DEF Step

-----------------------------------------------------------------------------
IInv == TypeOK /\ ListInv /\ SchemaInv /\ OwedInv /\ IndexExplained /\ HomesInv

(* The databases that may be found, with no service running.                *)
LEMMA InitInv == Init => IInv
<1> SUFFICES ASSUME Init
             PROVE  IInv
  OBVIOUS
<1>1. \A s \in Service : pc[s] \in {"off", "down"} /\ todo[s] = {} /\ fresh[s] = {}
  BY DEF Init
<1>2. TypeOK
  BY MigrateAssumption DEF Init, TypeOK, Stage
<1>3. ListInv /\ SchemaInv /\ OwedInv
  BY <1>1 DEF ListInv, SchemaInv, SchemaAt, Passed, OwedInv
<1>4. IndexExplained
  <2> SUFFICES ASSUME dialect = "mysql", NEW k \in 1 .. 10,
                      Migrations[k].when = "fresh", Migrations[k].index \in cols
               PROVE  Migrations[k].index \in idx
    BY Listing DEF IndexExplained
  <2>1. Migrations[k].index \in {<<"users", "email">>, <<"files", "owner">>,
                                 <<"files", "space_id">>}
    BY Indexes
  <2> QED
    BY <2>1 DEF Init, FileIndexes
<1>5. HomesInv
  <2>1. file = origin /\ file \in [DOMAIN file -> OldFiles(cols)]
    BY DEF Init
  <2>2. FilesInv
    BY <2>1 DEF FilesInv, OldFiles
  <2> QED
    BY <1>1, <2>2 DEF HomesInv, HomesAt, Assigned
<1> QED
  BY <1>2, <1>3, <1>4, <1>5 DEF IInv

(* Every step keeps the invariant.                                          *)
LEMMA StepInv == IInv /\ [Next]_vars => IInv'
<1> SUFFICES ASSUME IInv, [Next]_vars
             PROVE  IInv'
  OBVIOUS
<1>1. CASE UNCHANGED vars
  <2> USE <1>1 DEF vars, schema, contents, local, history
  <2>1. TypeOK' /\ ListInv'
    BY TypeListStep DEF IInv
  <2>2. SchemaInv'
    BY DEF IInv, SchemaInv, SchemaAt, Passed, Present, Awaited
  <2>3. OwedInv' /\ IndexExplained'
    BY DEF IInv, OwedInv, IndexExplained, Owing
  <2>4. HomesInv'
    BY DEF IInv, HomesInv, FilesInv, HomesAt, Assigned
  <2> QED
    BY <2>1, <2>2, <2>3, <2>4 DEF IInv
<1>2. CASE Next
  BY <1>2, TypeListStep, SchemaStep, OwedStep, IndexStep, HomesStep DEF IInv, Next
<1> QED
  BY <1>1, <1>2

(* Every variable has its type, and a service is at a table or a migration  *)
(* of its lists (migrate.go), with columns still to add of that migration.  *)
THEOREM MigrateTypeCorrect == Spec => [](TypeOK /\ ListInv)
<1> QED
  BY InitInv, StepInv, PTL DEF Spec, IInv

(* A service that has opened the database (db.go) finds every table and, of *)
(* the tables that are there, every column that a migration adds, unless    *)
(* its own look-up of the column failed and was passed over: whatever the   *)
(* others do, however often services fail and start again.                  *)
THEOREM SchemaIsExplained == Spec => []SchemaExplained
<1>1. IInv => SchemaExplained
  <2> SUFFICES ASSUME IInv, NEW s \in Service, pc[s] = "up"
               PROVE  /\ \A i \in DOMAIN Creates : Creates[i] \in tables
                      /\ \A c \in Column : c[1] \in tables => c \in cols \cup unchecked
    BY DEF SchemaExplained
  <2>1. SchemaAt(s) /\ Passed(s) = 1 .. 10
    BY DEF IInv, SchemaInv, Passed, Clients
  <2>2. \A c \in Column : Present(c) \/ Awaited(c)
    BY <2>1, NamesColumns DEF SchemaAt
  <2> QED
    BY <2>1, <2>2, Listing DEF SchemaAt, Present, Awaited
<1> QED
  BY <1>1, InitInv, StepInv, PTL DEF Spec

(* With MySQL an index of its own, made only by the service that sees the   *)
(* column missing (migrate.go), is there when the column is, or is owed by  *)
(* a service, or a failure or crash of one has lost it.                     *)
THEOREM IndexIsExplained == Spec => []IndexExplained
<1> QED
  BY InitInv, StepInv, PTL DEF Spec, IInv

(* A service that has opened the database has left every file with its      *)
(* owner and a space, the default one only if it had none, and every user   *)
(* that was listed with a default space, or a failure noted                 *)
(* (ensureDefaultSpace, migrate.go).                                        *)
THEOREM OwnersAreHomed == Spec => []OwnersHomed
<1>1. IInv => OwnersHomed
  <2> SUFFICES ASSUME IInv, NEW s \in Service, pc[s] = "up"
               PROVE  OwnersHomed
    BY DEF OwnersHomed
  <2>1. FilesInv /\ HomesAt(s) /\ Assigned(s)
    BY DEF IInv, HomesInv, Assigned
  <2>2. \A r \in DOMAIN file :
            file[r].space = IF Homeless(origin[r]) THEN "default" ELSE origin[r].space
    BY <2>1 DEF FilesInv, HomesAt, Homeless
  <2> QED
    BY <2>1, <2>2 DEF HomesAt, OwnersHomed
<1> QED
  BY <1>1, InitInv, StepInv, PTL DEF Spec

(* A SQLite database of a release older than the file indexes can be opened *)
(* by no service: the second statement of the first table fails each time   *)
(* (migrate.go). This is the safety half of what the run asks of a start.   *)
THEOREM NeverOpens ==
    Spec => (~Upgradable => [](\A s \in Service : pc[s] # "up"))
<1> DEFINE Keeps == TypeOK /\ Stuck /\ StuckInv
           NotUp == \A s \in Service : pc[s] # "up"
<1>1. Init /\ ~Upgradable => Keeps
  <2> SUFFICES ASSUME Init, ~Upgradable
               PROVE  Keeps
    OBVIOUS
  <2>1. "files" \in tables /\ dialect = "sqlite"
    BY MigrateAssumption DEF Upgradable, Init
  <2>2. Stuck
    BY <2>1 DEF Upgradable, Stuck
  <2>3. \A s \in Service : pc[s] \in {"off", "down"}
    BY DEF Init
  <2> QED
    BY <2>2, <2>3, InitInv DEF StuckInv, IInv
<1>2. Keeps /\ IInv /\ [Next]_vars => Keeps'
  <2> SUFFICES ASSUME Keeps, IInv, [Next]_vars
               PROVE  Keeps'
    OBVIOUS
  <2>1. TypeOK'
    BY TypeListStep DEF IInv
  <2>2. CASE UNCHANGED vars
    BY <2>1, <2>2 DEF Stuck, StuckInv, vars, schema, local
  <2> QED
    BY <2>1, <2>2, StuckStep DEF Next
<1>3. Keeps => NotUp
  BY DEF StuckInv
<1> HIDE DEF Keeps, NotUp
<1> QED
  BY <1>1, <1>2, <1>3, InitInv, StepInv, PTL DEF Spec, NotUp
=============================================================================
