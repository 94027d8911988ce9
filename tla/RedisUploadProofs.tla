-------------------------- MODULE RedisUploadProofs --------------------------
(*****************************************************************************)
(* Proofs about RedisUpload for any number of requests, chunks, workers and  *)
(* places in the queue, and any faults: the refinement of UploadSpec; one    *)
(* record for a session, unless one of the four things of Slip has happened; *)
(* and, if moreover nothing of Environment has, no half-written chunk in a   *)
(* file whose chunks had all been answered.                                  *)
(*****************************************************************************)
EXTENDS RedisUpload, Integers, FiniteSetTheorems, TLAPS

UpState == {"idle", "fallback", "recache", "mark", "body", "sync", "received", "failed"}
JobState == {"none", "queued", "taken", "mkdir", "open", "write", "done", "lost"}
CoState == {"idle", "session", "wait", "count", "assemble", "status", "quota", "name",
            "forget", "temp", "remove", "unlock", "done"}

TypeOK ==
    /\ session \in {"none", "active", "completed"}
    /\ ini \in [Initer -> {"idle", "cache", "done", "failed"}]
    /\ bits \subseteq Index
    /\ lock \in Completer \cup {Free}
    /\ chunkFile \in [Index -> {"absent", "full"} \cup Uploader]
    /\ unlinked \subseteq Uploader
    /\ queue \in Seq(Uploader)
    /\ job \in [Uploader -> JobState]
    /\ wg \in Int
    /\ up \in [Uploader -> UpState]
    /\ idx \in [Uploader -> Index]
    /\ co \in [Completer -> CoState]
    /\ quiet \subseteq Completer
    /\ blob \in [Completer -> Seq({"full", "torn"})]
    /\ files \subseteq Completer

(* What a completion has copied: never more chunks than there are, all of    *)
(* them when it is past the assembly, and nothing is removed before one      *)
(* destination is whole.                                                     *)
BlobsBounded == \A k \in Completer : Len(blob[k]) <= TotalChunks
Assembled == {"status", "quota", "name", "forget", "temp", "remove"}
PastAssembly == \A k \in Completer : co[k] \in Assembled \/ k \in files => Whole(k)
CopiedPresent ==
    (\A k \in Completer : ~Whole(k)) =>
        \A k \in Completer : \A i \in Chunks :
            i < Len(blob[k]) => chunkFile[i] # "absent"
BlobInv == BlobsBounded /\ PastAssembly /\ CopiedPresent

(* While nothing of Slip happens: until a completion has deleted the keys    *)
(* the lock belongs to the one completion under way, and only it may have    *)
(* recorded a file; afterwards the bitmap stays empty, because nobody still  *)
(* takes the session for active, and no completion gets past the count.      *)
Recorded == {"status", "quota", "name", "forget"}
Locked == {"session", "wait", "count", "assemble", "unlock"} \cup Recorded
Forgotten ==
    session = "completed" /\ \A k \in Completer : co[k] \notin {"quota", "name", "forget"}
Guarded ==
    ~Forgotten => /\ \A k \in Completer : /\ co[k] \in Locked => lock = k
                                          /\ co[k] \notin {"temp", "remove"}
                  /\ \A k \in files : co[k] \in Recorded
Emptied ==
    Forgotten => /\ bits = {} /\ ~cached
                 /\ \A k \in Completer : co[k] \notin {"assemble"} \cup Recorded
                 /\ \A u \in Uploader : up[u] \notin {"recache", "mark"}
                 /\ \A r \in Initer : ini[r] # "cache"
LockInv ==
    /\ Guarded /\ Emptied
    /\ \A k \in Completer : co[k] \in {"quota", "name", "forget"} => session = "completed"
    /\ \A j, k \in files : j = k

(* While, moreover, nothing of Environment happens, the session's key is set *)
(* until a completion deletes it, so that no chunk request re-caches it.     *)
CalmInv ==
    /\ healthy
    /\ ~Known => /\ \A u \in Uploader : up[u] = "idle"
                 /\ \A k \in Completer : co[k] = "idle"
    /\ Known /\ ~Forgotten => cached
    /\ \A u \in Uploader : /\ up[u] \notin {"recache", "mark"}
                           /\ up[u] = "fallback" => session = "completed"

(* What WaitAsync waits for: the counter is the number of writes the pool    *)
(* owes, and a write is in the queue once.                                   *)
Active == {"queued", "taken", "mkdir", "open", "write"}
PoolJobs == {u \in Uploader : Pooled(u) /\ job[u] \in Active}
NoJobYet ==
    \A u \in Uploader :
        up[u] \in {"idle", "fallback", "recache", "mark", "body"} => job[u] = "none"
QueueExact ==
    /\ \A i \in 1 .. Len(queue) : job[queue[i]] = "queued"
    /\ \A i, j \in 1 .. Len(queue) : queue[i] = queue[j] => i = j
WaitInv == NoJobYet /\ QueueExact /\ wg = Cardinality(PoolJobs)

(* While neither happens and the keys are not deleted, each chunk has one    *)
(* writer, whose bit is set; so when every chunk had been answered and the   *)
(* counter was zero, nobody writes the chunks any more.                      *)
Writes(u) == up[u] \in {"body", "sync"} \/ job[u] \in Active
Owned ==
    ~Forgotten =>
        /\ unlinked = {}
        /\ \A u \in Uploader : Writes(u) \/ up[u] = "received" => idx[u] \in bits
        /\ \A u, v \in Uploader : Writes(u) /\ Writes(v) /\ idx[u] = idx[v] => u = v
        /\ \A i \in Index, u \in Uploader :
              chunkFile[i] = u => job[u] = "write" /\ idx[u] = i
Settled ==
    ~Forgotten =>
        \A k \in quiet, u \in Uploader : idx[u] \in Chunks =>
            /\ co[k] \in {"session", "wait", "count", "assemble"}
               => up[u] \notin {"body", "sync"}
            /\ co[k] \in {"count", "assemble"} => job[u] \notin Active
AllMarked ==
    ~Forgotten =>
        \A k \in quiet :
            co[k] \in {"session", "wait", "count", "assemble"} => Chunks \subseteq bits
NotBegun ==
    \A k \in Completer :
        /\ co[k] \in {"idle", "session", "wait", "count"}
           => k \notin files /\ blob[k] = <<>>
        /\ co[k] = "idle" => k \notin quiet
FullBlobs ==
    \A k \in quiet :
        co[k] = "assemble" \/ k \in files =>
            \A i \in 1 .. Len(blob[k]) : blob[k][i] = "full"
IntactInv == Owned /\ Settled /\ AllMarked /\ NotBegun /\ FullBlobs
-----------------------------------------------------------------------------
(* Every step keeps the types.                                               *)
LEMMA TypeStays == TypeOK /\ [Next]_vars => TypeOK'
<1> SUFFICES ASSUME TypeOK, [Next]_vars PROVE TypeOK'
  OBVIOUS
<1> USE DEF TypeOK, UpState, JobState, CoState, To, CoTo, Fail, Finish, redisVars,
        sessionVars, diskVars, uploadVars, completeVars
<1>f. ASSUME NEW u \in Uploader, NEW s \in {"done", "lost"}, Finish(u, s),
             UNCHANGED <<sessionVars, redisVars, queue, idx, completeVars>>,
             unlinked' \subseteq unlinked,
             chunkFile' \in {chunkFile, [chunkFile EXCEPT ![idx[u]] = "full"]}
      PROVE  TypeOK'
  <2>1. /\ job' = [job EXCEPT ![u] = s]
        /\ \/ wg' = wg - 1 /\ up' = up
           \/ wg' = wg /\ up' = [up EXCEPT ![u] = "received"]
    BY <1>f
  <2>2. job' \in [Uploader -> JobState] /\ up' \in [Uploader -> UpState] /\ wg' \in Int
    BY <1>f, <2>1
  <2>3. chunkFile' \in [Index -> {"absent", "full"} \cup Uploader] /\ unlinked' \subseteq Uploader
    BY <1>f
  <2> QED BY <1>f, <2>2, <2>3
<1>1. ASSUME NEW r \in Initer, InitStep(r) PROVE TypeOK'
  BY <1>1 DEF InitStep, CreateUploadSession, FindActiveSessionByHash, CacheFound
<1>3. ASSUME NEW u \in Uploader, UploadStep(u) PROVE TypeOK'
  <2>1. CASE VerifyAndMarkChunk(u)
    BY SMTT(30), <2>1 DEF VerifyAndMarkChunk
  <2>2. CASE FallBack(u)
    BY <2>2 DEF FallBack
  <2>3. CASE CacheSession(u)
    BY <2>3 DEF CacheSession
  <2>4. CASE MarkChunkReceived(u)
    BY <2>4 DEF MarkChunkReceived
  <2>5. CASE RejectBody(u)
    BY <2>5 DEF RejectBody
  <2>6. CASE SaveChunkAsync(u)
    <3>1. CASE Len(queue) < QueueSize
      <4>1. /\ queue' = Append(queue, u) /\ wg' = wg + 1
            /\ job' = [job EXCEPT ![u] = "queued"] /\ up' = [up EXCEPT ![u] = "received"]
            /\ UNCHANGED <<session, bits, lock, chunkFile, unlinked, idx, completeVars>>
        <5>1. ~(Len(queue) >= QueueSize)
          BY <3>1, ConstantsAssumption
        <5> QED BY <2>6, <5>1 DEF SaveChunkAsync
      <4>2. /\ queue' \in Seq(Uploader) /\ wg' \in Int
            /\ job' \in [Uploader -> JobState] /\ up' \in [Uploader -> UpState]
        BY <4>1
      <4>3. UNCHANGED <<session, ini, bits, lock, chunkFile, unlinked, idx, co, quiet, blob,
                        files>>
        BY <2>6 DEF SaveChunkAsync
      <4> QED BY <4>2, <4>3
    <3>2. CASE ~(Len(queue) < QueueSize)
      <4>1. /\ UNCHANGED <<sessionVars, redisVars, chunkFile, unlinked, queue, wg, idx,
                          completeVars>>
            /\ job' = [job EXCEPT ![u] = "taken"] /\ up' = [up EXCEPT ![u] = "sync"]
        BY <2>6, <3>2 DEF SaveChunkAsync
      <4> QED BY <4>1
    <3> QED BY <3>1, <3>2
  <2> QED BY <1>3, <2>1, <2>2, <2>3, <2>4, <2>5, <2>6 DEF UploadStep
<1>4. ASSUME NEW u \in Uploader, WriterStep(u) PROVE TypeOK'
  <2>1. CASE EnsureChunkDir(u)
    BY <2>1 DEF EnsureChunkDir
  <2>2. CASE MkdirAll(u)
    BY <2>2 DEF MkdirAll
  <2>3. CASE OpenChunk(u)
    <3>1. CASE chunkDir
      BY ZenonT(40), <2>3, <3>1 DEF OpenChunk
    <3>2. CASE ~chunkDir
      <4> HIDE DEF Finish
      <4>1. Finish(u, "lost") /\ chunkFile' = chunkFile
        BY <2>3, <3>2 DEF OpenChunk
      <4>2. UNCHANGED <<sessionVars, redisVars, unlinked, queue, idx, completeVars>>
        BY <2>3 DEF OpenChunk
      <4> QED BY <4>1, <4>2, <1>f
    <3> QED BY <3>1, <3>2
  <2>4. CASE WriteChunk(u)
    <3> HIDE DEF Finish
    <3>1. /\ Finish(u, "done") /\ unlinked' = unlinked \ {u}
          /\ chunkFile' \in {chunkFile, [chunkFile EXCEPT ![idx[u]] = "full"]}
          /\ UNCHANGED <<sessionVars, redisVars, queue, idx, completeVars>>
      BY <2>4 DEF WriteChunk
    <3> QED BY <3>1, <1>f
  <2> QED BY <1>4, <2>1, <2>2, <2>3, <2>4 DEF WriterStep
<1>5. ASSUME NEW k \in Completer, CompleteStep(k) PROVE TypeOK'
  <2>1. CASE TryLock(k)
    BY <2>1 DEF TryLock
  <2>2. CASE GetSession(k)
    BY <2>2 DEF GetSession
  <2>3. CASE WaitAsync(k)
    BY <2>3 DEF WaitAsync
  <2>4. CASE CountReceivedChunks(k)
    BY <2>4 DEF CountReceivedChunks
  <2>5. CASE AssembleChunk(k)
    <3>1. blob' \in [Completer -> Seq({"full", "torn"})]
      <4>1. CASE UNCHANGED blob
        BY <4>1
      <4>2. CASE ~UNCHANGED blob
        <5>1. PICK d \in {"full", "torn"} : blob' = [blob EXCEPT ![k] = Append(@, d)]
          BY <2>5, <4>2 DEF AssembleChunk
        <5>2. Append(blob[k], d) \in Seq({"full", "torn"})
          BY blob[k] \in Seq({"full", "torn"})
        <5> QED BY <5>1, <5>2
      <4> QED BY <4>1, <4>2
    <3> QED BY <2>5, <3>1 DEF AssembleChunk
  <2>6. CASE CreateFile(k)
    BY <2>6 DEF CreateFile
  <2>7. CASE UpdateUploadSessionStatus(k)
    BY <2>7 DEF UpdateUploadSessionStatus
  <2>8. CASE AccountPATQuota(k)
    BY <2>8 DEF AccountPATQuota
  <2>9. CASE MarkFileExists(k)
    BY <2>9 DEF MarkFileExists
  <2>10. CASE DeleteSession(k)
    BY <2>10 DEF DeleteSession
  <2>11. CASE DropDirCache(k)
    BY <2>11 DEF DropDirCache
  <2>12. CASE RemoveAll(k)
    BY <2>12 DEF RemoveAll
  <2>13. CASE Unlock(k)
    BY <2>13 DEF Unlock
  <2> QED BY <1>5, <2>1, <2>2, <2>3, <2>4, <2>5, <2>6, <2>7, <2>8, <2>9, <2>10,
         <2>11, <2>12, <2>13 DEF CompleteStep
<1>6. CASE TakeJob
  BY <1>6 DEF TakeJob
<1>7. CASE ExpireSession
  BY <1>7 DEF ExpireSession
<1>8. CASE ExpireBits
  BY <1>8 DEF ExpireBits
<1>9. CASE ExpireLock
  BY <1>9 DEF ExpireLock
<1>10. CASE Failover
  BY <1>10 DEF Failover
<1>11. CASE HealthCheck
  BY <1>11 DEF HealthCheck
<1>12. CASE Crash
  BY <1>12 DEF Crash
<1>13. CASE UNCHANGED vars
  BY <1>13 DEF vars, sys
<1> QED BY <1>1, <1>3, <1>4, <1>5, <1>6, <1>7, <1>8, <1>9, <1>10, <1>11,
       <1>12, <1>13 DEF Next, Server, Environment

(* Type correctness of what the invariants below are about.                  *)
THEOREM RedisTypeCorrect == Spec => []TypeOK
<1>1. Init => TypeOK
  BY DEF Init, TypeOK, UpState, JobState, CoState
<1> QED BY <1>1, TypeStays, PTL DEF Spec
-----------------------------------------------------------------------------
(* A destination grows by one chunk at a time, and CreateFile waits for the  *)
(* last, so what is recorded is whole.                                       *)
LEMMA BlobStays == TypeOK /\ BlobInv /\ [Next]_vars => BlobInv'
<1> SUFFICES ASSUME TypeOK, BlobInv, [Next]_vars PROVE BlobInv'
  OBVIOUS
<1> USE ConstantsAssumption DEF BlobInv, TypeOK, CoState, BlobsBounded, PastAssembly,
        Assembled, CopiedPresent, Whole, Chunks, CoTo, Fail, redisVars, diskVars,
        sessionVars, uploadVars, completeVars
<1>1. ASSUME NEW r \in Initer, InitStep(r) PROVE BlobInv'
  BY <1>1 DEF InitStep, CreateUploadSession, FindActiveSessionByHash, CacheFound
<1>3. ASSUME NEW u \in Uploader, UploadStep(u) PROVE BlobInv'
  <2>1. CASE VerifyAndMarkChunk(u)
    BY <2>1 DEF VerifyAndMarkChunk
  <2>2. CASE FallBack(u)
    BY <2>2 DEF FallBack
  <2>3. CASE CacheSession(u)
    BY <2>3 DEF CacheSession
  <2>4. CASE MarkChunkReceived(u)
    BY <2>4 DEF MarkChunkReceived
  <2>5. CASE RejectBody(u)
    BY <2>5 DEF RejectBody
  <2>6. CASE SaveChunkAsync(u)
    BY <2>6 DEF SaveChunkAsync
  <2> QED BY <1>3, <2>1, <2>2, <2>3, <2>4, <2>5, <2>6 DEF UploadStep
<1>4. ASSUME NEW u \in Uploader, WriterStep(u) PROVE BlobInv'
  <2>1. CASE EnsureChunkDir(u)
    BY <2>1 DEF EnsureChunkDir
  <2>2. CASE MkdirAll(u)
    BY <2>2 DEF MkdirAll
  <2>3. CASE OpenChunk(u)
    <3>1. \A i \in Index : chunkFile[i] # "absent" => chunkFile'[i] # "absent"
      BY <2>3 DEF OpenChunk
    <3>2. UNCHANGED completeVars
      BY <2>3 DEF OpenChunk
    <3> QED BY <3>1, <3>2
  <2>4. CASE WriteChunk(u)
    <3>1. \A i \in Index : chunkFile[i] # "absent" => chunkFile'[i] # "absent"
      BY <2>4 DEF WriteChunk
    <3>2. UNCHANGED completeVars
      BY <2>4 DEF WriteChunk
    <3> QED BY <3>1, <3>2
  <2> QED BY <1>4, <2>1, <2>2, <2>3, <2>4 DEF WriterStep
<1>5. ASSUME NEW k \in Completer, CompleteStep(k) PROVE BlobInv'
  <2>1. CASE TryLock(k)
    BY <2>1 DEF TryLock
  <2>2. CASE GetSession(k)
    BY <2>2 DEF GetSession
  <2>3. CASE WaitAsync(k)
    BY <2>3 DEF WaitAsync
  <2>4. CASE CountReceivedChunks(k)
    BY <2>4 DEF CountReceivedChunks
  <2>5. CASE AssembleChunk(k)
    <3>1. CASE UNCHANGED blob
      BY <2>5, <3>1 DEF AssembleChunk
    <3>2. CASE ~UNCHANGED blob
      <4>1. PICK d \in {"full", "torn"} :
              /\ chunkFile[Len(blob[k])] # "absent"
              /\ blob' = [blob EXCEPT ![k] = Append(blob[k], d)]
              /\ Len(blob[k]) < TotalChunks
              /\ UNCHANGED <<co, chunkFile, files>>
              /\ co[k] = "assemble"
        BY <2>5, <3>2 DEF AssembleChunk
      <4>2. /\ Len(blob'[k]) = Len(blob[k]) + 1
            /\ \A j \in Completer \ {k} : blob'[j] = blob[j]
            /\ \A j \in Completer : Len(blob[j]) \in Nat
        BY <4>1
      <4>3. BlobsBounded'
        BY <4>1, <4>2
      <4>4. ~Whole(k) /\ \A j \in Completer \ {k} : Whole(j)' <=> Whole(j)
        BY <4>1, <4>2
      <4>5. PastAssembly'
        BY <4>1, <4>4
      <4>6. CopiedPresent'
        <5> SUFFICES ASSUME \A j \in Completer : ~Whole(j)',
                            NEW j \in Completer, NEW i \in Chunks, i < Len(blob'[j])
                     PROVE  chunkFile[i] # "absent"
          BY <4>1
        <5>1. \A l \in Completer : ~Whole(l)
          BY <4>4
        <5>2. i < Len(blob[j]) \/ (j = k /\ i = Len(blob[k]))
          BY <4>2
        <5> QED BY <4>1, <5>1, <5>2
      <4> QED BY <4>3, <4>5, <4>6
    <3> QED BY <3>1, <3>2
  <2>6. CASE CreateFile(k)
    BY <2>6 DEF CreateFile
  <2>7. CASE UpdateUploadSessionStatus(k)
    BY <2>7 DEF UpdateUploadSessionStatus
  <2>8. CASE AccountPATQuota(k)
    BY <2>8 DEF AccountPATQuota
  <2>9. CASE MarkFileExists(k)
    BY <2>9 DEF MarkFileExists
  <2>10. CASE DeleteSession(k)
    BY <2>10 DEF DeleteSession
  <2>11. CASE DropDirCache(k)
    BY <2>11 DEF DropDirCache
  <2>12. CASE RemoveAll(k)
    BY <2>12 DEF RemoveAll
  <2>13. CASE Unlock(k)
    BY <2>13 DEF Unlock
  <2> QED BY <1>5, <2>1, <2>2, <2>3, <2>4, <2>5, <2>6, <2>7, <2>8, <2>9, <2>10,
         <2>11, <2>12, <2>13 DEF CompleteStep
<1>6. CASE TakeJob
  BY <1>6 DEF TakeJob
<1>7. CASE ExpireSession
  BY <1>7 DEF ExpireSession
<1>8. CASE ExpireBits
  BY <1>8 DEF ExpireBits
<1>9. CASE ExpireLock
  BY <1>9 DEF ExpireLock
<1>10. CASE Failover
  BY <1>10 DEF Failover
<1>11. CASE HealthCheck
  BY <1>11 DEF HealthCheck
<1>12. CASE Crash
  BY <1>12 DEF Crash, CoRunning
<1>13. CASE UNCHANGED vars
  BY <1>13 DEF vars, sys
<1> QED BY <1>1, <1>3, <1>4, <1>5, <1>6, <1>7, <1>8, <1>9, <1>10, <1>11,
       <1>12, <1>13 DEF Next, Server, Environment

(* A recorded file has been assembled from every chunk.                      *)
LEMMA BlobInvariant == Spec => []BlobInv
<1>1. Init => BlobInv
  <2> SUFFICES ASSUME Init PROVE BlobInv
    OBVIOUS
  <2>1. \A k \in Completer : Len(blob[k]) = 0 /\ co[k] = "idle" /\ files = {}
    BY DEF Init
  <2> QED BY <2>1, ConstantsAssumption DEF BlobInv, BlobsBounded, PastAssembly,
             Assembled, CopiedPresent, Chunks
<1> QED BY <1>1, BlobStays, RedisTypeCorrect, PTL DEF Spec
-----------------------------------------------------------------------------
(* A step that keeps the destinations and removes no chunk file stores the   *)
(* chunk whose file it makes, or nothing.                                    *)
LEMMA StoreStep ==
  ASSUME TypeOK, UNCHANGED <<blob, files>>, NEW i \in Index,
         \A j \in Index \ {i} : chunkFile'[j] = chunkFile[j],
         chunkFile[i] # "absent" => chunkFile'[i] # "absent"
  PROVE  [Abstract!Next]_Abstract!vars
<1> USE ConstantsAssumption DEF TypeOK, Chunks
<1> DEFINE Complete == \E k \in Completer : Whole(k)
<1>1. Complete' <=> Complete
  BY DEF Whole
<1>2. CASE Complete
  BY <1>1, <1>2 DEF Stored, Abstract!vars
<1>3. CASE ~Complete
  <2>1. Stored = Present /\ Stored' = Present'
    BY <1>1, <1>3 DEF Stored
  <2>2. CASE i \in Chunks /\ chunkFile'[i] # "absent"
    <3>1. Present' = Present \cup {i}
      BY <2>2 DEF Present
    <3> QED BY <2>1, <2>2, <3>1 DEF Abstract!Next, Abstract!Store
  <2>3. CASE i \notin Chunks \/ chunkFile'[i] = "absent"
    <3>1. Present' = Present
      BY <2>3 DEF Present
    <3> QED BY <2>1, <3>1 DEF Abstract!vars
  <2> QED BY <2>2, <2>3
<1> QED BY <1>2, <1>3

(* Every step stores a chunk, publishes a file, or is invisible.             *)
LEMMA RefinementStep ==
  TypeOK /\ BlobInv /\ [Next]_vars => [Abstract!Next]_Abstract!vars
<1> SUFFICES ASSUME TypeOK, BlobInv, [Next]_vars PROVE [Abstract!Next]_Abstract!vars
  OBVIOUS
<1> USE ConstantsAssumption DEF TypeOK, CoState, redisVars, diskVars, uploadVars,
        completeVars, sessionVars
<1>0. ASSUME UNCHANGED <<chunkFile, blob, files>>
      PROVE  [Abstract!Next]_Abstract!vars
  BY <1>0 DEF Abstract!vars, Stored, Present, Whole
<1>1. ASSUME NEW r \in Initer, InitStep(r) PROVE [Abstract!Next]_Abstract!vars
  BY <1>1, <1>0 DEF InitStep, CreateUploadSession, FindActiveSessionByHash, CacheFound
<1>3. ASSUME NEW u \in Uploader, UploadStep(u) PROVE [Abstract!Next]_Abstract!vars
  <2>1. CASE VerifyAndMarkChunk(u)
    BY <2>1, <1>0 DEF VerifyAndMarkChunk
  <2>2. CASE FallBack(u)
    BY <2>2, <1>0 DEF FallBack
  <2>3. CASE CacheSession(u)
    BY <2>3, <1>0 DEF CacheSession
  <2>4. CASE MarkChunkReceived(u)
    BY <2>4, <1>0 DEF MarkChunkReceived
  <2>5. CASE RejectBody(u)
    BY <2>5, <1>0 DEF RejectBody
  <2>6. CASE SaveChunkAsync(u)
    BY <2>6, <1>0 DEF SaveChunkAsync
  <2> QED BY <1>3, <2>1, <2>2, <2>3, <2>4, <2>5, <2>6 DEF UploadStep
<1>4. ASSUME NEW u \in Uploader, WriterStep(u) PROVE [Abstract!Next]_Abstract!vars
  <2>1. CASE EnsureChunkDir(u)
    BY <2>1, <1>0 DEF EnsureChunkDir
  <2>2. CASE MkdirAll(u)
    BY <2>2, <1>0 DEF MkdirAll
  <2>3. CASE OpenChunk(u)
    <3>1. /\ UNCHANGED <<blob, files>>
          /\ \A j \in Index \ {idx[u]} : chunkFile'[j] = chunkFile[j]
          /\ chunkFile[idx[u]] # "absent" => chunkFile'[idx[u]] # "absent"
      BY <2>3 DEF OpenChunk
    <3> QED BY <3>1, idx[u] \in Index, StoreStep
  <2>4. CASE WriteChunk(u)
    <3>1. /\ UNCHANGED <<blob, files>>
          /\ \A j \in Index \ {idx[u]} : chunkFile'[j] = chunkFile[j]
          /\ chunkFile[idx[u]] # "absent" => chunkFile'[idx[u]] # "absent"
      BY <2>4 DEF WriteChunk
    <3> QED BY <3>1, idx[u] \in Index, StoreStep
  <2> QED BY <1>4, <2>1, <2>2, <2>3, <2>4 DEF WriterStep
<1>5. ASSUME NEW k \in Completer, CompleteStep(k) PROVE [Abstract!Next]_Abstract!vars
  <2>1. CASE TryLock(k)
    BY <2>1, <1>0 DEF TryLock
  <2>2. CASE GetSession(k)
    BY <2>2, <1>0 DEF GetSession
  <2>3. CASE WaitAsync(k)
    BY <2>3, <1>0 DEF WaitAsync
  <2>4. CASE CountReceivedChunks(k)
    BY <2>4, <1>0 DEF CountReceivedChunks
  <2>5. CASE AssembleChunk(k)
    <3>1. CASE UNCHANGED blob
      BY <1>0, <2>5, <3>1 DEF AssembleChunk
    <3>2. CASE ~UNCHANGED blob
      <4>1. PICK d \in {"full", "torn"} :
              /\ chunkFile[Len(blob[k])] # "absent"
              /\ blob' = [blob EXCEPT ![k] = Append(blob[k], d)]
              /\ Len(blob[k]) < TotalChunks
              /\ UNCHANGED <<chunkFile, files>>
        BY <2>5, <3>2 DEF AssembleChunk
      <4>2. /\ Len(blob'[k]) = Len(blob[k]) + 1
            /\ \A j \in Completer \ {k} : blob'[j] = blob[j]
            /\ Len(blob[k]) \in Nat
        BY <4>1
      <4>3. ~Whole(k)
        BY <4>1, <4>2 DEF Whole
      <4>4. CASE \E j \in Completer : Whole(j)
        <5>1. \E j \in Completer : Whole(j)'
          BY <4>2, <4>3, <4>4 DEF Whole
        <5> QED BY <4>1, <4>4, <5>1 DEF Stored, Abstract!vars
      <4>5. CASE Len(blob'[k]) # TotalChunks /\ ~\E j \in Completer : Whole(j)
        <5>1. ~\E j \in Completer : Whole(j)'
          BY <4>2, <4>5 DEF Whole
        <5> QED BY <4>1, <4>5, <5>1 DEF Stored, Present, Abstract!vars
      <4>6. CASE Len(blob'[k]) = TotalChunks /\ ~\E j \in Completer : Whole(j)
        <5>1. ASSUME NEW i \in Chunks PROVE chunkFile[i] # "absent"
          <6>1. i < Len(blob[k]) \/ i = Len(blob[k])
            BY <4>2, <4>6 DEF Chunks
          <6> QED BY <4>1, <4>6, <6>1 DEF BlobInv, CopiedPresent
        <5>2. Stored = Chunks
          BY <4>6, <5>1 DEF Stored, Present
        <5>3. Stored' = Chunks
          BY <4>6 DEF Stored, Whole
        <5> QED BY <4>1, <5>2, <5>3 DEF Abstract!vars
      <4> QED BY <4>4, <4>5, <4>6
    <3> QED BY <3>1, <3>2
  <2>6. CASE CreateFile(k)
    <3>1. Stored = Chunks /\ Stored' = Stored
      BY <2>6 DEF CreateFile, Stored, Whole
    <3>2. files' = files \cup {k} \/ files' = files
      BY <2>6 DEF CreateFile
    <3> QED BY <3>1, <3>2 DEF Abstract!Next, Abstract!Publish, Abstract!vars
  <2>7. CASE UpdateUploadSessionStatus(k)
    BY <2>7, <1>0 DEF UpdateUploadSessionStatus
  <2>8. CASE AccountPATQuota(k)
    BY <2>8, <1>0 DEF AccountPATQuota
  <2>9. CASE MarkFileExists(k)
    BY <2>9, <1>0 DEF MarkFileExists
  <2>10. CASE DeleteSession(k)
    BY <2>10, <1>0 DEF DeleteSession
  <2>11. CASE DropDirCache(k)
    BY <2>11, <1>0 DEF DropDirCache
  <2>12. CASE RemoveAll(k)
    <3>1. Whole(k) /\ Whole(k)' /\ UNCHANGED files
      BY <2>12 DEF RemoveAll, BlobInv, PastAssembly, Assembled, Whole
    <3> QED BY <3>1 DEF Stored, Abstract!vars
  <2>13. CASE Unlock(k)
    BY <2>13, <1>0 DEF Unlock
  <2> QED BY <1>5, <2>1, <2>2, <2>3, <2>4, <2>5, <2>6, <2>7, <2>8, <2>9, <2>10,
         <2>11, <2>12, <2>13 DEF CompleteStep
<1>6. CASE TakeJob
  BY <1>6, <1>0 DEF TakeJob
<1>7. CASE ExpireSession
  BY <1>7, <1>0 DEF ExpireSession
<1>8. CASE ExpireBits
  BY <1>8, <1>0 DEF ExpireBits
<1>9. CASE ExpireLock
  BY <1>9, <1>0 DEF ExpireLock
<1>10. CASE Failover
  BY <1>10, <1>0 DEF Failover
<1>11. CASE HealthCheck
  BY <1>11, <1>0 DEF HealthCheck
<1>12. CASE Crash
  BY <1>12, <1>0 DEF Crash
<1>13. CASE UNCHANGED vars
  BY <1>13, <1>0 DEF vars, sys
<1> QED BY <1>1, <1>3, <1>4, <1>5, <1>6, <1>7, <1>8, <1>9, <1>10, <1>11,
       <1>12, <1>13 DEF Next, Server, Environment

(* The Redis path implements UploadSpec: it publishes a file only when every *)
(* chunk of the session has been stored, whatever Redis and the server do.   *)
THEOREM RedisImplementsUpload == Spec => ImplementsUpload
<1>1. Init => Abstract!Init
  <2> SUFFICES ASSUME Init PROVE Stored = {} /\ files = {}
    BY DEF Abstract!Init
  <2>1. \A k \in Completer : ~Whole(k)
    BY ConstantsAssumption DEF Init, Whole
  <2>2. Present = {}
    BY ConstantsAssumption DEF Init, Present, Chunks
  <2> QED BY <2>1, <2>2 DEF Stored, Init
<1> QED BY <1>1, RefinementStep, BlobInvariant, RedisTypeCorrect, PTL
        DEF Spec, ImplementsUpload, Abstract!Spec
-----------------------------------------------------------------------------
(* A step that is no slip keeps the lock's promise.                          *)
LEMMA LockStays == TypeOK /\ (~slipped => LockInv) /\ [Next]_vars => (~slipped => LockInv)'
<1> SUFFICES ASSUME TypeOK, ~slipped => LockInv, [Next]_vars, ~slipped' PROVE LockInv'
  OBVIOUS
<1>s. /\ LockInv
      /\ Server \/ Environment \/ UNCHANGED vars
      /\ UNCHANGED vars \/ (~LockLost /\ ~KeysKept /\ ~StaysActive /\ ~ReadBefore)
  BY DEF Next, vars, Slip
<1> USE <1>s, ConstantsAssumption DEF TypeOK, UpState, CoState, LockInv, Forgotten,
        Guarded, Emptied, Recorded, Locked, To, CoTo, Fail, redisVars, diskVars,
        uploadVars, completeVars, sessionVars
<1>1. ASSUME NEW r \in Initer, InitStep(r) PROVE LockInv'
  <2>1. CASE CreateUploadSession(r)
    BY <2>1 DEF CreateUploadSession
  <2>2. CASE FindActiveSessionByHash(r)
    BY <2>2 DEF FindActiveSessionByHash
  <2>3. CASE CacheFound(r)
    BY <2>3 DEF CacheFound
  <2> QED BY <1>1, <2>1, <2>2, <2>3 DEF InitStep
<1>2. ASSUME NEW u \in Uploader, UploadStep(u) PROVE LockInv'
  <2>1. CASE VerifyAndMarkChunk(u)
    BY <2>1 DEF VerifyAndMarkChunk
  <2>2. CASE FallBack(u)
    BY <2>2 DEF FallBack
  <2>3. CASE CacheSession(u)
    BY <2>3 DEF CacheSession
  <2>4. CASE MarkChunkReceived(u)
    BY <2>4 DEF MarkChunkReceived
  <2>5. CASE RejectBody(u)
    BY <2>5 DEF RejectBody
  <2>6. CASE SaveChunkAsync(u)
    BY <2>6 DEF SaveChunkAsync
  <2> QED BY <1>2, <2>1, <2>2, <2>3, <2>4, <2>5, <2>6 DEF UploadStep
<1>3. ASSUME NEW u \in Uploader, WriterStep(u) PROVE LockInv'
  <2>1. CASE EnsureChunkDir(u)
    BY <2>1 DEF EnsureChunkDir
  <2>2. CASE MkdirAll(u)
    BY <2>2 DEF MkdirAll
  <2>3. ASSUME UNCHANGED <<sessionVars, redisVars, completeVars>>,
               up' = up \/ up' = [up EXCEPT ![u] = "received"]
        PROVE  LockInv'
    BY <2>3
  <2>4. CASE OpenChunk(u)
    BY <2>3, <2>4 DEF OpenChunk, Finish
  <2>5. CASE WriteChunk(u)
    BY <2>3, <2>5 DEF WriteChunk, Finish
  <2> QED BY <1>3, <2>1, <2>2, <2>4, <2>5 DEF WriterStep
<1>4. ASSUME NEW k \in Completer, CompleteStep(k) PROVE LockInv'
  <2>1. CASE TryLock(k)
    <3>1. /\ UNCHANGED <<sessionVars, healthy, cached, bits, uploadVars, files>>
          /\ co[k] = "idle"
          /\ \/ lock = Free /\ lock' = k /\ co' = [co EXCEPT ![k] = "session"]
             \/ lock' = lock /\ co' = [co EXCEPT ![k] = "done"]
      BY <2>1 DEF TryLock
    <3>2. CASE lock' = lock /\ co' = [co EXCEPT ![k] = "done"]
      BY <3>1, <3>2
    <3>3. CASE lock = Free /\ lock' = k /\ co' = [co EXCEPT ![k] = "session"]
      <4>1. ~Forgotten => \A j \in Completer : co[j] \notin Locked
        BY <3>3
      <4> QED BY <3>1, <3>3, <4>1
    <3> QED BY <3>1, <3>2, <3>3
  <2>2. CASE GetSession(k)
    BY <2>2 DEF GetSession
  <2>3. CASE WaitAsync(k)
    BY <2>3 DEF WaitAsync
  <2>4. CASE CountReceivedChunks(k)
    <3>1. /\ UNCHANGED <<sessionVars, redisVars, uploadVars, files>>
          /\ \E s \in {"assemble", "unlock"} : co' = [co EXCEPT ![k] = s]
          /\ co[k] = "count"
      BY <2>4 DEF CountReceivedChunks
    <3>2. co'[k] = "assemble" => Cardinality(bits) = TotalChunks
      BY <2>4, <3>1 DEF CountReceivedChunks
    <3>3. co'[k] = "assemble" => ~Forgotten
      BY <3>2, FS_EmptySet
    <3> QED BY <3>1, <3>3
  <2>5. CASE AssembleChunk(k)
    BY SMTT(30), <2>5 DEF AssembleChunk
  <2>6. CASE CreateFile(k)
    <3>1. /\ UNCHANGED <<sessionVars, redisVars, uploadVars>>
          /\ co[k] = "assemble" /\ co' = [co EXCEPT ![k] = "status"]
          /\ files' \in {files, files \cup {k}}
      BY <2>6 DEF CreateFile
    <3>2. ~Forgotten /\ lock = k
      BY <3>1
    <3>3. files = {}
      BY <3>1, <3>2
    <3> QED BY <3>1, <3>2, <3>3
  <2>7. CASE UpdateUploadSessionStatus(k)
    BY <2>7 DEF UpdateUploadSessionStatus, StaysActive, vars, sys
  <2>8. CASE AccountPATQuota(k)
    BY <2>8 DEF AccountPATQuota
  <2>9. CASE MarkFileExists(k)
    BY <2>9 DEF MarkFileExists
  <2>10. CASE DeleteSession(k)
    <3>1. /\ UNCHANGED <<sessionVars, healthy, uploadVars, files>>
          /\ co[k] = "forget" /\ co' = [co EXCEPT ![k] = "temp"]
          /\ healthy => ~cached' /\ bits' = {} /\ lock' = Free
      BY <2>10 DEF DeleteSession
    <3>2. Forgets(k) /\ ~UNCHANGED vars
      BY <3>1 DEF Forgets, vars, sys
    <3>3. healthy
      BY <3>2 DEF KeysKept
    <3>4. /\ \A u \in Uploader : up[u] \notin {"recache", "mark"}
          /\ \A r \in Initer : ini[r] # "cache"
      BY <3>2 DEF ReadBefore
    <3>5. ~Forgotten /\ lock = k /\ session = "completed"
      BY <3>1
    <3>6. \A j \in Completer \ {k} : co[j] \notin Locked \cup {"temp", "remove"}
      BY <3>5
    <3>7. Forgotten' /\ Guarded' /\ Emptied'
      BY <3>1, <3>3, <3>4, <3>5, <3>6
    <3> QED BY <3>1, <3>7
  <2>11. CASE DropDirCache(k)
    BY <2>11 DEF DropDirCache
  <2>12. CASE RemoveAll(k)
    BY <2>12 DEF RemoveAll
  <2>13. CASE Unlock(k)
    BY <2>13 DEF Unlock
  <2> QED BY <1>4, <2>1, <2>2, <2>3, <2>4, <2>5, <2>6, <2>7, <2>8, <2>9, <2>10,
         <2>11, <2>12, <2>13 DEF CompleteStep
<1>5. CASE TakeJob
  BY <1>5 DEF TakeJob
<1>6. CASE ExpireSession
  BY <1>6 DEF ExpireSession
<1>7. CASE ExpireBits
  BY <1>7 DEF ExpireBits
<1>8. ASSUME UNCHANGED <<sessionVars, uploadVars, completeVars>>, lock # Free, lock' = Free,
             cached' => cached, bits' \subseteq bits
      PROVE  LockInv'
  <2>1. ~CoRunning(lock)
    BY <1>8 DEF LockLost, vars, sys
  <2>2. \A k \in Completer : co[k] \in Locked => lock # k
    BY <2>1 DEF CoRunning
  <2> QED BY <1>8, <2>2
<1>9. CASE ExpireLock
  BY <1>8, <1>9 DEF ExpireLock
<1>10. CASE Failover
  <2>1. CASE lock = Free
    BY <1>10, <2>1 DEF Failover
  <2>2. CASE lock # Free
    BY <1>8, <1>10, <2>2 DEF Failover
  <2> QED BY <2>1, <2>2
<1>11. CASE HealthCheck
  BY <1>11 DEF HealthCheck
<1>12. CASE Crash
  <2>1. /\ UNCHANGED <<session, redisVars, files>>
        /\ \A k \in Completer : co'[k] = IF CoRunning(k) THEN "done" ELSE co[k]
        /\ \A u \in Uploader : up'[u] \in {up[u], "failed"}
        /\ \A r \in Initer : ini'[r] \in {ini[r], "failed"}
    BY <1>12 DEF Crash
  <2>2. \A k \in Completer : co[k] \notin Recorded
    BY <2>1 DEF KeysKept, CoRunning, vars, sys
  <2>3. Forgotten' <=> Forgotten
    BY <2>1, <2>2
  <2>4. \A k \in Completer : co'[k] \in {"idle", "done"}
    BY <2>1 DEF CoRunning
  <2> QED BY <2>1, <2>2, <2>3, <2>4
<1>13. CASE UNCHANGED vars
  BY <1>13 DEF vars, sys
<1> QED BY <1>s, <1>1, <1>2, <1>3, <1>4, <1>5, <1>6, <1>7, <1>9, <1>10, <1>11, <1>12,
       <1>13 DEF Server, Environment

(* A session has one record, whatever keys are lost and whenever Redis is    *)
(* unhealthy or the server restarts, unless the lock was lost while its      *)
(* owner ran, a completion that had recorded the file left the keys behind,  *)
(* the UPDATE of the status failed, or a request that had read the session   *)
(* as active wrote its key or bit after they were deleted.                   *)
THEOREM RecordedOnce == Spec => []OneRecordPerSession
<1>1. Init => (~slipped => LockInv)
  BY DEF Init, LockInv, Forgotten, Guarded, Emptied, Recorded, Locked
<1>2. TypeOK /\ (~slipped => LockInv) => OneRecordPerSession
  <2> SUFFICES ASSUME TypeOK, LockInv PROVE Cardinality(files) <= 1
    BY DEF OneRecordPerSession
  <2>1. CASE files = {}
    BY <2>1, FS_EmptySet
  <2>2. CASE files # {}
    <3>1. PICK k : k \in files
      BY <2>2
    <3>2. files = {k}
      BY <3>1 DEF LockInv
    <3> QED BY <3>2, FS_Singleton
  <2> QED BY <2>1, <2>2
<1> QED BY <1>1, <1>2, LockStays, RedisTypeCorrect, PTL DEF Spec
-----------------------------------------------------------------------------
(* The writes of the pool can be counted.                                    *)
LEMMA PoolJobsFinite == IsFiniteSet(PoolJobs) /\ Cardinality(PoolJobs) \in Nat
  BY ConstantsAssumption, FS_Subset, FS_CardinalityType DEF PoolJobs

(* Every write that is queued is counted until it is done or lost.           *)
LEMMA WaitStays == TypeOK /\ WaitInv /\ [Next]_vars => WaitInv'
<1> SUFFICES ASSUME TypeOK, WaitInv, [Next]_vars PROVE WaitInv'
  OBVIOUS
<1>0. ASSUME UNCHANGED queue,
             \A u \in Uploader : job'[u] = job[u] \/ job[u] # "queued",
             \A u \in Uploader :
                 up'[u] \in {"idle", "fallback", "recache", "mark", "body"}
                 => /\ job'[u] = job[u]
                    /\ up[u] \in {"idle", "fallback", "recache", "mark", "body"}
      PROVE  NoJobYet' /\ QueueExact'
  <2>1. NoJobYet'
    BY <1>0 DEF WaitInv, NoJobYet
  <2>2. \A i \in 1 .. Len(queue) : queue[i] \in Uploader
    BY DEF TypeOK
  <2>3. QueueExact'
    BY <1>0, <2>2 DEF WaitInv, QueueExact
  <2> QED BY <2>1, <2>3
<1>f. ASSUME NEW u \in Uploader, NEW s \in {"done", "lost"}, Finish(u, s),
             job[u] \in {"open", "write"}, UNCHANGED queue
      PROVE  WaitInv'
  <2>1. NoJobYet' /\ QueueExact'
    BY <1>0, <1>f DEF TypeOK, Finish, To, WaitInv, NoJobYet
  <2>2. CASE Pooled(u)
    <3>1. PoolJobs' = PoolJobs \ {u} /\ u \in PoolJobs /\ wg' = wg - 1
      BY <1>f, <2>2 DEF TypeOK, PoolJobs, Pooled, Active, Finish
    <3> QED BY <2>1, <3>1, PoolJobsFinite, FS_RemoveElement DEF WaitInv
  <2>3. CASE ~Pooled(u)
    <3>1. PoolJobs' = PoolJobs /\ wg' = wg
      BY <1>f, <2>3 DEF TypeOK, PoolJobs, Pooled, Active, Finish, To
    <3> QED BY <2>1, <3>1 DEF WaitInv
  <2> QED BY <2>2, <2>3
<1>g. ASSUME UNCHANGED <<queue, job, wg>>,
             \A u \in Uploader : \/ up'[u] = up[u]
                                \/ /\ up[u] \in {"idle", "fallback", "recache", "mark", "body"}
                                   /\ up'[u] # "sync"
      PROVE  WaitInv'
  <2>1. PoolJobs' = PoolJobs
    BY <1>g DEF PoolJobs, Pooled
  <2> QED BY <1>g, <2>1 DEF WaitInv, NoJobYet, QueueExact
<1>h. ASSUME UNCHANGED <<queue, wg, up>>,
             NEW u \in Uploader, NEW s \in Active, job[u] \in Active \ {"queued"},
             job' = [job EXCEPT ![u] = s]
      PROVE  WaitInv'
  <2>1. PoolJobs' = PoolJobs
    BY <1>h DEF TypeOK, PoolJobs, Pooled
  <2>2. NoJobYet' /\ QueueExact'
    BY <1>0, <1>h DEF TypeOK, Active, WaitInv, NoJobYet
  <2> QED BY <1>h, <2>1, <2>2 DEF WaitInv
<1> USE DEF TypeOK, To, redisVars, diskVars, uploadVars, completeVars, sessionVars
<1>1. ASSUME NEW r \in Initer, InitStep(r) PROVE WaitInv'
  BY <1>1, <1>g DEF InitStep, CreateUploadSession, FindActiveSessionByHash, CacheFound
<1>3. ASSUME NEW u \in Uploader, UploadStep(u) PROVE WaitInv'
  <2>1. CASE VerifyAndMarkChunk(u)
    BY <2>1, <1>g DEF VerifyAndMarkChunk
  <2>2. CASE FallBack(u)
    BY <2>2, <1>g DEF FallBack
  <2>3. CASE CacheSession(u)
    BY <2>3, <1>g DEF CacheSession
  <2>4. CASE MarkChunkReceived(u)
    BY <2>4, <1>g DEF MarkChunkReceived
  <2>5. CASE RejectBody(u)
    BY <2>5, <1>g DEF RejectBody
  <2>6. CASE SaveChunkAsync(u)
    <3>0. job[u] = "none" /\ up[u] = "body"
      BY <2>6 DEF SaveChunkAsync, WaitInv, NoJobYet
    <3>1. CASE Len(queue) < QueueSize
      <4>1. /\ queue' = Append(queue, u) /\ wg' = wg + 1
            /\ job' = [job EXCEPT ![u] = "queued"] /\ up' = [up EXCEPT ![u] = "received"]
        <5>1. ~(Len(queue) >= QueueSize)
          BY <3>1, ConstantsAssumption
        <5> QED BY <2>6, <5>1 DEF SaveChunkAsync
      <4>2. PoolJobs' = PoolJobs \cup {u} /\ u \notin PoolJobs
        BY <3>0, <4>1 DEF PoolJobs, Pooled, Active
      <4>3. wg' = Cardinality(PoolJobs')
        BY <4>1, <4>2, PoolJobsFinite, FS_AddElement DEF WaitInv
      <4>4. NoJobYet'
        BY <4>1 DEF WaitInv, NoJobYet
      <4>5. QueueExact'
        <5>1. \A i \in 1 .. Len(queue) : queue[i] \in Uploader /\ queue[i] # u
          BY <3>0 DEF WaitInv, QueueExact
        <5>2. /\ Len(queue') = Len(queue) + 1 /\ queue'[Len(queue) + 1] = u
              /\ \A i \in 1 .. Len(queue) : queue'[i] = queue[i]
              /\ Len(queue) \in Nat
          BY <4>1
        <5>3. \A i \in 1 .. Len(queue') : i \in 1 .. Len(queue) \/ i = Len(queue) + 1
          BY <5>2
        <5> QED BY <4>1, <5>1, <5>2, <5>3 DEF WaitInv, QueueExact
      <4> QED BY <4>3, <4>4, <4>5 DEF WaitInv
    <3>2. CASE ~(Len(queue) < QueueSize)
      <4>1. /\ UNCHANGED <<queue, wg>>
            /\ job' = [job EXCEPT ![u] = "taken"] /\ up' = [up EXCEPT ![u] = "sync"]
        BY <2>6, <3>2 DEF SaveChunkAsync
      <4>2. PoolJobs' = PoolJobs
        BY <3>0, <4>1 DEF PoolJobs, Pooled, Active
      <4>3. NoJobYet' /\ QueueExact'
        BY <1>0, <3>0, <4>1
      <4> QED BY <4>1, <4>2, <4>3 DEF WaitInv
    <3> QED BY <3>1, <3>2
  <2> QED BY <1>3, <2>1, <2>2, <2>3, <2>4, <2>5, <2>6 DEF UploadStep
<1>4. ASSUME NEW u \in Uploader, WriterStep(u) PROVE WaitInv'
  <2>1. CASE EnsureChunkDir(u)
    BY <2>1, <1>h DEF EnsureChunkDir, Active
  <2>2. CASE MkdirAll(u)
    BY <2>2, <1>h DEF MkdirAll, Active
  <2>3. CASE OpenChunk(u)
    <3>1. CASE chunkDir
      BY <2>3, <3>1, <1>h DEF OpenChunk, Active
    <3>2. CASE ~chunkDir
      BY <2>3, <3>2, <1>f DEF OpenChunk
    <3> QED BY <3>1, <3>2
  <2>4. CASE WriteChunk(u)
    BY <2>4, <1>f DEF WriteChunk
  <2> QED BY <1>4, <2>1, <2>2, <2>3, <2>4 DEF WriterStep
<1>5. ASSUME NEW k \in Completer, CompleteStep(k) PROVE WaitInv'
  <2>1. CASE TryLock(k)
    BY <2>1, <1>g DEF TryLock
  <2>2. CASE GetSession(k)
    BY <2>2, <1>g DEF GetSession
  <2>3. CASE WaitAsync(k)
    BY <2>3, <1>g DEF WaitAsync
  <2>4. CASE CountReceivedChunks(k)
    BY <2>4, <1>g DEF CountReceivedChunks
  <2>5. CASE AssembleChunk(k)
    BY <2>5, <1>g DEF AssembleChunk
  <2>6. CASE CreateFile(k)
    BY <2>6, <1>g DEF CreateFile
  <2>7. CASE UpdateUploadSessionStatus(k)
    BY <2>7, <1>g DEF UpdateUploadSessionStatus
  <2>8. CASE AccountPATQuota(k)
    BY <2>8, <1>g DEF AccountPATQuota
  <2>9. CASE MarkFileExists(k)
    BY <2>9, <1>g DEF MarkFileExists
  <2>10. CASE DeleteSession(k)
    BY <2>10, <1>g DEF DeleteSession
  <2>11. CASE DropDirCache(k)
    BY <2>11, <1>g DEF DropDirCache
  <2>12. CASE RemoveAll(k)
    BY <2>12, <1>g DEF RemoveAll
  <2>13. CASE Unlock(k)
    BY <2>13, <1>g DEF Unlock
  <2> QED BY <1>5, <2>1, <2>2, <2>3, <2>4, <2>5, <2>6, <2>7, <2>8, <2>9, <2>10,
         <2>11, <2>12, <2>13 DEF CompleteStep
<1>6. CASE TakeJob
  <2> DEFINE h == Head(queue)
  <2>1. /\ queue # <<>> /\ queue' = Tail(queue) /\ UNCHANGED <<wg, up>>
        /\ job' = [job EXCEPT ![h] = "taken"]
    BY <1>6 DEF TakeJob
  <2>2. /\ h = queue[1] /\ h \in Uploader
        /\ Len(queue) \in Nat \ {0} /\ Len(queue') = Len(queue) - 1
        /\ \A i \in 1 .. Len(queue') : i + 1 \in 1 .. Len(queue) /\ queue'[i] = queue[i + 1]
    BY <2>1
  <2>3. job[h] = "queued" /\ \A i \in 1 .. Len(queue) : queue[i] = h => i = 1
    BY <2>2 DEF WaitInv, QueueExact
  <2> HIDE DEF h
  <2>4. PoolJobs' = PoolJobs
    BY <2>1, <2>2, <2>3 DEF PoolJobs, Pooled, Active
  <2>5. NoJobYet'
    BY <2>1, <2>2, <2>3 DEF WaitInv, NoJobYet
  <2>6. QueueExact'
    <3>1. ASSUME NEW i \in 1 .. Len(queue') PROVE job'[queue'[i]] = "queued"
      <4>1. i + 1 \in 1 .. Len(queue) /\ queue'[i] = queue[i + 1] /\ i + 1 # 1
        BY <2>2
      <4>2. queue[i + 1] # h /\ queue[i + 1] \in Uploader /\ job[queue[i + 1]] = "queued"
        BY <2>3, <4>1 DEF WaitInv, QueueExact
      <4> QED BY <2>1, <4>1, <4>2
    <3>2. ASSUME NEW i \in 1 .. Len(queue'), NEW j \in 1 .. Len(queue'),
                 queue'[i] = queue'[j]
          PROVE  i = j
      <4>1. /\ i + 1 \in 1 .. Len(queue) /\ j + 1 \in 1 .. Len(queue)
            /\ queue[i + 1] = queue[j + 1]
        BY <2>2, <3>2
      <4>2. i + 1 = j + 1
        BY <4>1 DEF WaitInv, QueueExact
      <4> QED BY <4>2
    <3> QED BY <3>1, <3>2 DEF QueueExact
  <2> QED BY <2>1, <2>4, <2>5, <2>6 DEF WaitInv
<1>7. CASE ExpireSession
  BY <1>7, <1>g DEF ExpireSession
<1>8. CASE ExpireBits
  BY <1>8, <1>g DEF ExpireBits
<1>9. CASE ExpireLock
  BY <1>9, <1>g DEF ExpireLock
<1>10. CASE Failover
  BY <1>10, <1>g DEF Failover
<1>11. CASE HealthCheck
  BY <1>11, <1>g DEF HealthCheck
<1>12. CASE Crash
  <2>1. /\ queue' = <<>> /\ wg' = 0
        /\ \A u \in Uploader : /\ up'[u] = up[u] \/ up'[u] = "failed"
                              /\ job'[u] \notin Active /\ (job[u] = "none" => job'[u] = "none")
    BY <1>12 DEF Crash, Writing, Active, JobState
  <2>2. PoolJobs' = {}
    BY <2>1 DEF PoolJobs
  <2>3. NoJobYet' /\ QueueExact'
    BY <2>1 DEF WaitInv, NoJobYet, QueueExact
  <2> QED BY <2>1, <2>2, <2>3, FS_EmptySet DEF WaitInv
<1>13. CASE UNCHANGED vars
  BY <1>13, <1>g DEF vars, sys
<1> QED BY <1>1, <1>3, <1>4, <1>5, <1>6, <1>7, <1>8, <1>9, <1>10, <1>11,
       <1>12, <1>13 DEF Next, Server, Environment

(* WaitAsync returns when the pool owes no write.                            *)
LEMMA WaitInvariant == Spec => []WaitInv
<1>1. Init => WaitInv
  <2> SUFFICES ASSUME Init PROVE WaitInv
    OBVIOUS
  <2>1. PoolJobs = {}
    BY DEF Init, PoolJobs, Active
  <2> QED BY <2>1, FS_EmptySet DEF Init, WaitInv, NoJobYet, QueueExact
<1> QED BY <1>1, WaitStays, RedisTypeCorrect, PTL DEF Spec
-----------------------------------------------------------------------------
(* A step of the server that is no slip keeps the session's key until the    *)
(* completion deletes it.                                                    *)
LEMMA CalmStays ==
  TypeOK /\ (calm /\ ~slipped => LockInv /\ CalmInv) /\ [Next]_vars
  => (calm /\ ~slipped => CalmInv)'
<1> SUFFICES ASSUME TypeOK, calm /\ ~slipped => LockInv /\ CalmInv, [Next]_vars,
                    calm', ~slipped'
             PROVE  CalmInv'
  OBVIOUS
<1>s. LockInv /\ CalmInv /\ (Server \/ UNCHANGED vars)
  BY DEF Next, vars
<1> USE <1>s DEF TypeOK, UpState, CoState, CalmInv, Known, Forgotten, To, CoTo, Fail,
        redisVars, diskVars, uploadVars, completeVars, sessionVars
<1>1. ASSUME NEW r \in Initer, InitStep(r) PROVE CalmInv'
  <2>1. CASE CreateUploadSession(r)
    BY <2>1 DEF CreateUploadSession
  <2>2. CASE FindActiveSessionByHash(r)
    BY <2>2 DEF FindActiveSessionByHash
  <2>3. CASE CacheFound(r)
    BY <2>3 DEF CacheFound
  <2> QED BY <1>1, <2>1, <2>2, <2>3 DEF InitStep
<1>2. ASSUME NEW u \in Uploader, UploadStep(u) PROVE CalmInv'
  <2>1. CASE VerifyAndMarkChunk(u)
    BY <2>1 DEF VerifyAndMarkChunk
  <2>2. CASE FallBack(u)
    BY <2>2 DEF FallBack
  <2>3. CASE CacheSession(u)
    BY <2>3 DEF CacheSession
  <2>4. CASE MarkChunkReceived(u)
    BY <2>4 DEF MarkChunkReceived
  <2>5. CASE RejectBody(u)
    BY <2>5 DEF RejectBody
  <2>6. CASE SaveChunkAsync(u)
    BY <2>6 DEF SaveChunkAsync
  <2> QED BY <1>2, <2>1, <2>2, <2>3, <2>4, <2>5, <2>6 DEF UploadStep
<1>3. ASSUME NEW u \in Uploader, WriterStep(u) PROVE CalmInv'
  <2>1. CASE EnsureChunkDir(u)
    BY <2>1 DEF EnsureChunkDir
  <2>2. CASE MkdirAll(u)
    BY <2>2 DEF MkdirAll
  <2>3. ASSUME UNCHANGED <<sessionVars, redisVars, completeVars>>,
               up' = up \/ (up[u] = "sync" /\ up' = [up EXCEPT ![u] = "received"])
        PROVE  CalmInv'
    BY <2>3
  <2>4. CASE OpenChunk(u)
    BY <2>3, <2>4 DEF OpenChunk, Finish, Pooled
  <2>5. CASE WriteChunk(u)
    BY <2>3, <2>5 DEF WriteChunk, Finish, Pooled
  <2> QED BY <1>3, <2>1, <2>2, <2>4, <2>5 DEF WriterStep
<1>4. ASSUME NEW k \in Completer, CompleteStep(k) PROVE CalmInv'
  <2>1. CASE TryLock(k)
    BY <2>1 DEF TryLock
  <2>2. CASE GetSession(k)
    BY <2>2 DEF GetSession
  <2>3. CASE WaitAsync(k)
    BY <2>3 DEF WaitAsync
  <2>4. CASE CountReceivedChunks(k)
    BY <2>4 DEF CountReceivedChunks
  <2>5. CASE AssembleChunk(k)
    BY <2>5 DEF AssembleChunk
  <2>6. CASE CreateFile(k)
    BY <2>6 DEF CreateFile
  <2>7. CASE UpdateUploadSessionStatus(k)
    <3>1. /\ UNCHANGED <<ini, redisVars, uploadVars>> /\ session' \in {session, "completed"}
          /\ co[k] = "status" /\ co' = [co EXCEPT ![k] = "quota"]
      BY <2>7 DEF UpdateUploadSessionStatus
    <3>2. ~Forgotten
      BY <3>1 DEF LockInv, Emptied, Recorded
    <3> QED BY <3>1, <3>2
  <2>8. CASE AccountPATQuota(k)
    BY <2>8 DEF AccountPATQuota
  <2>9. CASE MarkFileExists(k)
    BY <2>9 DEF MarkFileExists
  <2>10. CASE DeleteSession(k)
    <3>1. /\ UNCHANGED <<sessionVars, healthy, uploadVars>>
          /\ co[k] = "forget" /\ co' = [co EXCEPT ![k] = "temp"]
      BY <2>10 DEF DeleteSession
    <3>2. \A j \in Completer \ {k} : co[j] \notin Locked
      BY <3>1 DEF LockInv, Guarded, Locked, Recorded
    <3>3. Forgotten'
      BY <3>1, <3>2 DEF LockInv, Locked, Recorded
    <3> QED BY <3>1, <3>3
  <2>11. CASE DropDirCache(k)
    BY <2>11 DEF DropDirCache
  <2>12. CASE RemoveAll(k)
    BY <2>12 DEF RemoveAll
  <2>13. CASE Unlock(k)
    BY <2>13 DEF Unlock
  <2> QED BY <1>4, <2>1, <2>2, <2>3, <2>4, <2>5, <2>6, <2>7, <2>8, <2>9, <2>10,
         <2>11, <2>12, <2>13 DEF CompleteStep
<1>5. CASE TakeJob
  BY <1>5 DEF TakeJob
<1>6. CASE UNCHANGED vars
  BY <1>6 DEF vars, sys
<1> QED BY <1>s, <1>1, <1>2, <1>3, <1>4, <1>5, <1>6 DEF Server

(* So does it keep the chunks of a settled session whole.                    *)
LEMMA IntactStays ==
  TypeOK /\ WaitInv /\ (calm /\ ~slipped => LockInv /\ CalmInv /\ IntactInv) /\ [Next]_vars
  => (calm /\ ~slipped => IntactInv)'
<1> SUFFICES ASSUME TypeOK, WaitInv, calm /\ ~slipped => LockInv /\ CalmInv /\ IntactInv,
                    [Next]_vars, calm', ~slipped'
             PROVE  IntactInv'
  OBVIOUS
<1>s. LockInv /\ CalmInv /\ IntactInv /\ (Server \/ UNCHANGED vars)
  BY DEF Next, vars
<1> USE <1>s, ConstantsAssumption DEF TypeOK, UpState, CoState, IntactInv, Owned, Settled,
        Forgotten, AllMarked, NotBegun, FullBlobs, Writes, Chunks, To, CoTo, Fail, redisVars, diskVars,
        uploadVars, completeVars, sessionVars
<1>j. ASSUME UNCHANGED <<session, cached, bits, chunkFile, unlinked, uploadVars,
                       completeVars>>,
             NEW u \in Uploader, job[u] \in Active \ {"write"},
             NEW s \in Active, job' = [job EXCEPT ![u] = s]
      PROVE  IntactInv'
  <2>1. \A v \in Uploader : Writes(v)' <=> Writes(v)
    BY <1>j
  <2>2. \A v \in Uploader : job[v] = "write" => job'[v] = "write"
    BY <1>j
  <2>3. Owned'
    BY <1>j, <2>1, <2>2
  <2>4. Settled' /\ AllMarked' /\ NotBegun' /\ FullBlobs'
    BY <1>j
  <2> QED BY <2>3, <2>4
<1>e. ASSUME NEW u \in Uploader, NEW s \in {"done", "lost"}, Finish(u, s),
             UNCHANGED <<session, cached, bits, idx, completeVars>>,
             job[u] \in {"open", "write"}, unlinked' \subseteq unlinked,
             \/ chunkFile' = [chunkFile EXCEPT ![idx[u]] = "full"]
             \/ /\ job[u] = "open" \/ u \in unlinked \/ chunkFile[idx[u]] # u
                /\ UNCHANGED chunkFile
      PROVE  IntactInv'
  <2>1. /\ job' = [job EXCEPT ![u] = s]
        /\ up' \in {up, [up EXCEPT ![u] = "received"]}
        /\ Writes(u)
    BY <1>e DEF Finish, Active
  <2>2. \A v \in Uploader : Writes(v)' => Writes(v)
    BY <2>1 DEF Active
  <2>3. \A v \in Uploader : up'[v] = "received" => Writes(v) \/ up[v] = "received"
    BY <2>1
  <2>4. \A i \in Index, v \in Uploader :
          ~Forgotten /\ chunkFile'[i] = v => v # u /\ chunkFile[i] = v
    BY <1>e
  <2>5. Owned'
    BY <1>e, <2>1, <2>2, <2>3, <2>4
  <2>6. Settled'
    BY <1>e, <2>1 DEF Active
  <2>7. AllMarked' /\ NotBegun' /\ FullBlobs'
    BY <1>e
  <2> QED BY <2>5, <2>6, <2>7
<1>1. ASSUME NEW r \in Initer, InitStep(r) PROVE IntactInv'
  <2>1. /\ UNCHANGED <<bits, chunkFile, unlinked, job, uploadVars, completeVars>>
        /\ session' = session \/ session = "none"
    BY <1>1 DEF InitStep, CreateUploadSession, FindActiveSessionByHash, CacheFound
  <2>2. ~Forgotten' => ~Forgotten
    BY <2>1
  <2> HIDE DEF Forgotten
  <2>3. Owned'
    BY <2>1, <2>2
  <2>4. Settled' /\ AllMarked' /\ NotBegun' /\ FullBlobs'
    BY <2>1, <2>2
  <2> QED BY <2>3, <2>4
<1>3. ASSUME NEW u \in Uploader, UploadStep(u) PROVE IntactInv'
  <2>1. CASE VerifyAndMarkChunk(u)
    BY <2>1 DEF VerifyAndMarkChunk
  <2>2. CASE FallBack(u)
    BY <2>2 DEF FallBack
  <2>3. CASE CacheSession(u)
    <3>1. FALSE
      BY <2>3 DEF CacheSession, CalmInv
    <3> QED BY <3>1
  <2>4. CASE MarkChunkReceived(u)
    <3>1. FALSE
      BY <2>4 DEF MarkChunkReceived, CalmInv
    <3> QED BY <3>1
  <2>5. CASE RejectBody(u)
    BY <2>5 DEF RejectBody
  <2>6. CASE SaveChunkAsync(u)
    <3>1. /\ up[u] = "body" /\ job[u] = "none"
          /\ UNCHANGED <<session, cached, bits, chunkFile, unlinked, idx, completeVars>>
      BY <2>6 DEF SaveChunkAsync, WaitInv, NoJobYet
    <3>2. \/ up' = [up EXCEPT ![u] = "received"] /\ job' = [job EXCEPT ![u] = "queued"]
          \/ up' = [up EXCEPT ![u] = "sync"] /\ job' = [job EXCEPT ![u] = "taken"]
      BY <2>6 DEF SaveChunkAsync
    <3>3. /\ \A v \in Uploader : Writes(v)' => Writes(v)
          /\ Writes(u)'
          /\ \A v \in Uploader \ {u} : up'[v] = up[v] /\ job'[v] = job[v]
      BY <3>1, <3>2 DEF Active
    <3>4. Owned'
      <4>1. Forgotten' <=> Forgotten
        BY <3>1
      <4> HIDE DEF Forgotten
      <4>2. \A v \in Uploader :
              up'[v] = "received" => Writes(v) \/ up[v] = "received"
        BY <3>1, <3>2
      <4>3. \A v \in Uploader : job[v] = "write" => job'[v] = "write"
        BY <3>1, <3>2
      <4>4. ASSUME ~Forgotten, NEW v \in Uploader, Writes(v)' \/ up'[v] = "received"
            PROVE  idx[v] \in bits
        <5>1. Writes(v) \/ up[v] = "received"
          BY <3>3, <4>2, <4>4 DEF Active
        <5> QED BY <4>4, <5>1
      <4>5. ASSUME ~Forgotten, NEW i \in Index, NEW v \in Uploader, chunkFile[i] = v
            PROVE  job'[v] = "write" /\ idx[v] = i
        BY <4>3, <4>5
      <4>6. ASSUME ~Forgotten, NEW v \in Uploader, NEW w \in Uploader,
                   Writes(v)', Writes(w)', idx[v] = idx[w]
            PROVE  v = w
        <5>1. Writes(v) /\ Writes(w)
          BY <3>3, <4>6 DEF Active
        <5> QED BY <4>6, <5>1
      <4>7. ~Forgotten => unlinked = {}
        OBVIOUS
      <4> QED BY <3>1, <4>1, <4>4, <4>5, <4>6, <4>7
    <3>5. Settled'
      <4>1. Forgotten' <=> Forgotten
        BY <3>1
      <4> HIDE DEF Forgotten
      <4>2. \A v \in Uploader :
              /\ up'[v] \in {"body", "sync"} => up[v] \in {"body", "sync"}
              /\ job'[v] \in Active => job[v] \in Active \/ up[v] = "body"
        BY <3>1, <3>2
      <4> QED BY <3>1, <4>1, <4>2
    <3>6. AllMarked' /\ NotBegun' /\ FullBlobs'
      BY <3>1
    <3> QED BY <3>4, <3>5, <3>6
  <2> QED BY <1>3, <2>1, <2>2, <2>3, <2>4, <2>5, <2>6 DEF UploadStep
<1>4. ASSUME NEW u \in Uploader, WriterStep(u) PROVE IntactInv'
  <2>1. CASE EnsureChunkDir(u)
    <3>1. /\ UNCHANGED <<session, cached, bits, chunkFile, unlinked, uploadVars,
                        completeVars>>
          /\ job[u] = "taken" /\ \E s \in {"open", "mkdir"} : job' = [job EXCEPT ![u] = s]
      BY <2>1 DEF EnsureChunkDir
    <3> QED BY <3>1, <1>j DEF Active
  <2>2. CASE MkdirAll(u)
    <3>1. /\ UNCHANGED <<session, cached, bits, chunkFile, unlinked, uploadVars,
                        completeVars>>
          /\ job[u] = "mkdir" /\ \E s \in {"open", "mkdir"} : job' = [job EXCEPT ![u] = s]
      BY <2>2 DEF MkdirAll
    <3> QED BY <3>1, <1>j DEF Active
  <2>3. CASE OpenChunk(u)
    <3>1. CASE chunkDir
      <4>1. /\ UNCHANGED <<session, cached, bits, unlinked, uploadVars, completeVars>>
            /\ job[u] = "open" /\ job' = [job EXCEPT ![u] = "write"]
            /\ chunkFile' = [chunkFile EXCEPT ![idx[u]] = u]
        BY <2>3, <3>1 DEF OpenChunk
      <4>2. \A v \in Uploader : Writes(v)' <=> Writes(v)
        BY <4>1 DEF Active
      <4>3. Owned'
        BY <4>1, <4>2
      <4>4. Settled' /\ AllMarked' /\ NotBegun' /\ FullBlobs'
        BY <4>1 DEF Active
      <4> QED BY <4>3, <4>4
    <3>2. CASE ~chunkDir
      <4>1. /\ UNCHANGED <<session, cached, bits, chunkFile, unlinked, idx, completeVars>>
            /\ job[u] = "open" /\ Finish(u, "lost")
        BY <2>3, <3>2 DEF OpenChunk
      <4> QED BY <4>1, <1>e
    <3> QED BY <3>1, <3>2
  <2>4. CASE WriteChunk(u)
    <3>1. /\ UNCHANGED <<session, cached, bits, idx, completeVars>>
          /\ job[u] = "write" /\ Finish(u, "done") /\ unlinked' = unlinked \ {u}
          /\ \/ chunkFile' = [chunkFile EXCEPT ![idx[u]] = "full"]
             \/ (u \in unlinked \/ chunkFile[idx[u]] # u) /\ UNCHANGED chunkFile
      BY <2>4 DEF WriteChunk
    <3> QED BY <3>1, <1>e
  <2> QED BY <1>4, <2>1, <2>2, <2>3, <2>4 DEF WriterStep
<1>5. ASSUME NEW k \in Completer, CompleteStep(k) PROVE IntactInv'
  <2>1. CASE TryLock(k)
    <3>1. /\ UNCHANGED <<session, cached, bits, diskVars, uploadVars, blob, files>>
          /\ co[k] = "idle"
          /\ \E s \in {"session", "done"} : co' = [co EXCEPT ![k] = s]
      BY <2>1 DEF TryLock
    <3>2. \/ quiet' = quiet
          \/ /\ quiet' = quiet \cup {k}
             /\ \A u \in Uploader : up[u] \notin {"body", "sync"}
             /\ \A i \in Chunks : \E u \in Uploader : idx[u] = i /\ up[u] = "received"
      BY <2>1 DEF TryLock, UpRunning, Unanswered
    <3>3. k \notin quiet /\ k \notin files /\ blob[k] = <<>>
      BY <3>1
    <3>4. Owned'
      BY <3>1
    <3>5. Settled'
      BY <3>1, <3>2, <3>3
    <3>6. AllMarked'
      BY <3>1, <3>2, <3>3
    <3>7. NotBegun' /\ FullBlobs'
      BY <3>1, <3>2, <3>3
    <3> QED BY <3>4, <3>5, <3>6, <3>7
  <2>2. CASE GetSession(k)
    BY <2>2 DEF GetSession
  <2>3. CASE WaitAsync(k)
    <3>1. /\ UNCHANGED <<session, cached, bits, diskVars, uploadVars, quiet, blob, files>>
          /\ co[k] = "wait" /\ co' = [co EXCEPT ![k] = "count"] /\ wg = 0
      BY <2>3 DEF WaitAsync
    <3>2. PoolJobs = {}
      BY <3>1, PoolJobsFinite, FS_EmptySet DEF WaitInv
    <3>3. \A u \in Uploader : job[u] \in Active => up[u] = "sync"
      BY <3>2 DEF PoolJobs, Pooled
    <3>4. Settled'
      BY <3>1, <3>3
    <3>5. Owned' /\ AllMarked' /\ NotBegun' /\ FullBlobs'
      BY <3>1
    <3> QED BY <3>4, <3>5
  <2>4. CASE CountReceivedChunks(k)
    <3>1. /\ UNCHANGED <<session, cached, bits, diskVars, uploadVars, quiet, blob, files>>
          /\ co[k] = "count"
          /\ \E s \in {"assemble", "unlock"} : co' = [co EXCEPT ![k] = s]
      BY <2>4 DEF CountReceivedChunks
    <3>2. Len(blob[k]) = 0 /\ k \notin files
      BY <3>1
    <3>3. Owned' /\ Settled' /\ AllMarked' /\ NotBegun'
      BY <3>1
    <3>4. FullBlobs'
      BY <3>1, <3>2
    <3> QED BY <3>3, <3>4
  <2>5. CASE AssembleChunk(k)
    <3>0. /\ UNCHANGED <<session, cached, bits, diskVars, uploadVars, quiet, files>>
          /\ co[k] = "assemble" /\ co' \in {co, [co EXCEPT ![k] = "unlock"]}
          /\ Len(blob[k]) < TotalChunks
      BY <2>5 DEF AssembleChunk
    <3>1. ~Forgotten
      BY <3>0 DEF LockInv, Emptied
    <3>2. Owned' /\ Settled' /\ AllMarked'
      <4>1. \A j \in Completer : co'[j] = co[j] \/ co'[j] = "unlock"
        BY <3>0
      <4>2. Owned' /\ AllMarked'
        BY <3>0, <4>1
      <4>3. Settled'
        BY <3>0, <4>1
      <4> QED BY <4>2, <4>3
    <3> HIDE DEF Forgotten
    <3>3. CASE UNCHANGED blob
      BY <3>0, <3>2, <3>3
    <3>4. CASE ~UNCHANGED blob
      <4> DEFINE d == IF chunkFile[Len(blob[k])] = "full" THEN "full" ELSE "torn"
      <4>1. /\ blob' = [blob EXCEPT ![k] = Append(blob[k], d)] /\ co' = co
            /\ chunkFile[Len(blob[k])] # "absent"
        BY <2>5, <3>4 DEF AssembleChunk
      <4>2. Len(blob[k]) \in Chunks /\ Len(blob[k]) \in Index
        BY <3>0
      <4>3. k \in quiet => d = "full"
        <5> SUFFICES ASSUME k \in quiet, chunkFile[Len(blob[k])] \in Uploader PROVE FALSE
          BY <4>1, <4>2
        <5> DEFINE v == chunkFile[Len(blob[k])]
        <5>1. v \in Uploader /\ job[v] = "write" /\ idx[v] = Len(blob[k])
          BY <3>1, <4>2
        <5>2. job[v] \notin Active
          BY <3>0, <3>1, <4>2, <5>1
        <5> QED BY <5>1, <5>2 DEF Active
      <4>4. /\ Len(blob'[k]) = Len(blob[k]) + 1 /\ blob'[k][Len(blob[k]) + 1] = d
            /\ \A i \in 1 .. Len(blob[k]) : blob'[k][i] = blob[k][i]
            /\ \A j \in Completer \ {k} : blob'[j] = blob[j]
        <5>1. d \in {"full", "torn"}
          OBVIOUS
        <5> HIDE DEF d
        <5> QED BY <4>1, <5>1
      <4> HIDE DEF d
      <4>5. ASSUME NEW j \in quiet, j = k, NEW i \in 1 .. Len(blob'[k])
            PROVE  blob'[k][i] = "full"
        <5>1. i \in 1 .. Len(blob[k]) \/ i = Len(blob[k]) + 1
          BY <4>4, <4>5
        <5>2. k \in quiet /\ d = "full"
          BY <4>3, <4>5
        <5>3. \A l \in 1 .. Len(blob[k]) : blob[k][l] = "full"
          BY <3>0, <5>2
        <5> QED BY <4>4, <5>1, <5>2, <5>3
      <4>6. FullBlobs'
        <5>1. \A j \in quiet \ {k} : blob'[j] = blob[j] /\ co'[j] = co[j]
          BY <4>1, <4>4
        <5>2. ASSUME NEW j \in quiet \ {k}, co[j] = "assemble" \/ j \in files,
                     NEW i \in 1 .. Len(blob[j])
              PROVE  blob[j][i] = "full"
          BY <5>2
        <5> QED BY <3>0, <4>5, <5>1, <5>2
      <4>7. NotBegun'
        BY <3>0, <4>1, <4>4
      <4> QED BY <3>2, <4>6, <4>7
    <3> QED BY <3>3, <3>4
  <2>6. CASE CreateFile(k)
    <3>1. /\ UNCHANGED <<session, bits, diskVars, uploadVars, quiet, blob>>
          /\ co[k] = "assemble" /\ co' = [co EXCEPT ![k] = "status"]
          /\ files' \in {files, files \cup {k}}
      BY <2>6 DEF CreateFile
    <3>2. Forgotten' <=> Forgotten
      BY <3>1
    <3> HIDE DEF Forgotten
    <3>3. Owned' /\ Settled' /\ AllMarked'
      BY <3>1, <3>2
    <3>4. NotBegun' /\ FullBlobs'
      BY <3>1 DEF BlobInv
    <3> QED BY <3>3, <3>4
  <2>7. CASE UpdateUploadSessionStatus(k)
    <3>1. /\ UNCHANGED <<bits, diskVars, uploadVars, quiet, blob, files>>
          /\ co[k] = "status" /\ co' = [co EXCEPT ![k] = "quota"]
      BY <2>7 DEF UpdateUploadSessionStatus
    <3>2. ~Forgotten
      BY <3>1 DEF LockInv, Emptied, Recorded
    <3> HIDE DEF Forgotten
    <3>3. Owned' /\ Settled' /\ AllMarked'
      BY <3>1, <3>2
    <3>4. NotBegun' /\ FullBlobs'
      BY <3>1
    <3> QED BY <3>3, <3>4
  <2>8. CASE AccountPATQuota(k)
    BY <2>8 DEF AccountPATQuota
  <2>9. CASE MarkFileExists(k)
    BY <2>9 DEF MarkFileExists
  <2>10. CASE DeleteSession(k)
    <3>1. /\ UNCHANGED <<session, diskVars, uploadVars, quiet, blob, files>>
          /\ co[k] = "forget" /\ co' = [co EXCEPT ![k] = "temp"]
      BY <2>10 DEF DeleteSession
    <3>2. \A j \in Completer \ {k} : co[j] \notin Locked
      BY <3>1 DEF LockInv, Guarded, Locked, Recorded
    <3>3. Forgotten'
      BY <3>1, <3>2 DEF LockInv, Locked, Recorded
    <3> HIDE DEF Forgotten
    <3>4. Owned' /\ Settled' /\ AllMarked'
      BY <3>3
    <3>5. NotBegun' /\ FullBlobs'
      BY <3>1
    <3> QED BY <3>4, <3>5
  <2>11. CASE DropDirCache(k)
    <3>1. /\ UNCHANGED <<session, bits, chunkFile, unlinked, job, uploadVars, quiet, blob,
                        files>>
          /\ co[k] = "temp" /\ co' = [co EXCEPT ![k] = "remove"]
      BY <2>11 DEF DropDirCache
    <3>2. Forgotten' <=> Forgotten
      BY <3>1
    <3> HIDE DEF Forgotten
    <3>3. Owned' /\ Settled' /\ AllMarked'
      BY <3>1, <3>2
    <3>4. NotBegun' /\ FullBlobs'
      BY <3>1
    <3> QED BY <3>3, <3>4
  <2>12. CASE RemoveAll(k)
    <3>1. /\ UNCHANGED <<session, cached, quiet, blob, files>>
          /\ co[k] = "remove" /\ co' = [co EXCEPT ![k] = "unlock"]
      BY <2>12 DEF RemoveAll
    <3>2. Forgotten'
      BY <3>1 DEF LockInv, Guarded
    <3> HIDE DEF Forgotten
    <3>3. Owned' /\ Settled' /\ AllMarked'
      BY <3>2
    <3>4. NotBegun' /\ FullBlobs'
      BY <3>1
    <3> QED BY <3>3, <3>4
  <2>13. CASE Unlock(k)
    BY <2>13 DEF Unlock
  <2> QED BY <1>5, <2>1, <2>2, <2>3, <2>4, <2>5, <2>6, <2>7, <2>8, <2>9, <2>10,
         <2>11, <2>12, <2>13 DEF CompleteStep
<1>6. CASE TakeJob
  <2>1. /\ Head(queue) \in Uploader /\ job[Head(queue)] = "queued"
        /\ UNCHANGED <<session, cached, bits, chunkFile, unlinked, uploadVars,
                      completeVars>>
        /\ job' = [job EXCEPT ![Head(queue)] = "taken"]
    <3>1. queue # <<>>
      BY <1>6 DEF TakeJob
    <3>2. Head(queue) = queue[1] /\ 1 \in 1 .. Len(queue) /\ queue[1] \in Uploader
      BY <3>1
    <3> QED BY <1>6, <3>2 DEF TakeJob, WaitInv, QueueExact
  <2> QED BY <2>1, <1>j DEF Active
<1>7. CASE UNCHANGED vars
  BY <1>7 DEF vars, sys
<1> QED BY <1>s, <1>1, <1>3, <1>4, <1>5, <1>6, <1>7 DEF Server

(* While nothing of Environment and nothing of Slip happens, a file whose     *)
(* chunks had all been answered when its completion was sent holds no        *)
(* half-written chunk.                                                       *)
THEOREM AnsweredIsIntact == Spec => []AnsweredThenIntact
<1>1. Init => (~slipped => LockInv) /\ (calm /\ ~slipped => CalmInv /\ IntactInv)
  <2> SUFFICES ASSUME Init PROVE LockInv /\ CalmInv /\ IntactInv
    OBVIOUS
  <2>1. LockInv /\ CalmInv
    BY DEF Init, LockInv, Guarded, Emptied, CalmInv, Known, Forgotten, Recorded, Locked
  <2>2. Owned
    BY ConstantsAssumption DEF Init, Owned, Writes, Active
  <2>3. Settled /\ AllMarked /\ NotBegun /\ FullBlobs
    BY DEF Init, Settled, AllMarked, NotBegun, FullBlobs
  <2> QED BY <2>1, <2>2, <2>3 DEF IntactInv
<1>2. TypeOK /\ BlobInv /\ (calm /\ ~slipped => IntactInv) => AnsweredThenIntact
  <2> SUFFICES ASSUME TypeOK, BlobInv, IntactInv,
                      NEW k \in files \cap quiet, NEW i \in Chunks
               PROVE  blob[k][i + 1] = "full"
    BY DEF AnsweredThenIntact
  <2>1. Len(blob[k]) = TotalChunks
    BY DEF TypeOK, BlobInv, PastAssembly, Whole
  <2>2. i + 1 \in 1 .. Len(blob[k])
    BY <2>1, ConstantsAssumption DEF Chunks
  <2> QED BY <2>2 DEF IntactInv, FullBlobs
<1> QED BY <1>1, <1>2, LockStays, CalmStays, IntactStays, WaitInvariant, BlobInvariant,
           RedisTypeCorrect, PTL DEF Spec
=============================================================================
