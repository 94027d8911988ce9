------------------------- MODULE SqliteUploadProofs -------------------------
(***************************************************************************)
(* Proofs about SqliteUpload for any number of requests and chunks: type   *)
(* correctness, the invariants about rows, records and torn data, and the  *)
(* refinement of UploadSpec.                                               *)
(***************************************************************************)
EXTENDS SqliteUpload, FiniteSetTheorems, TLAPS

(* The strengthening.  BlobsBounded and PastAssembly say what a destination *)
(* file holds at each control point; CopiedPresent that nothing copied is   *)
(* removed before some destination is whole; the other parts follow one     *)
(* chunk, and one completion, from the write to the table that reports it.  *)
BlobsBounded == \A k \in Completer : Len(blob[k]) <= TotalChunks
PastAssembly ==
    \A k \in Completer : co[k] \in {"status", "quota", "temp", "ok"} => Whole(k)
CopiedPresent ==
    (\A k \in Completer : ~Whole(k)) =>
        \A k \in Completer : \A i \in Chunks :
            i < Len(blob[k]) => chunkFile[i] # "absent"

ClosedBeforeRemoval ==
    \A k \in Completer :
        co[k] \in {"quota", "temp", "ok"} /\ ~dbFailed => session = "completed"
WrittenBeforeRow ==
    session = "active" /\ ~dbFailed =>
        \A u \in Uploader :
            /\ up[u] = "row" => chunkFile[idx[u]] # "absent"
            /\ up[u] = "write" => u \notin unlinked /\ chunkFile[idx[u]] # "absent"
NothingBeforeSession ==
    session = "none" => /\ chunks = {}
                        /\ \A u \in Uploader : up[u] = "idle"
                        /\ \A k \in Completer : co[k] = "idle"
UnlinkedOnlyOpen == \A u \in unlinked : up[u] = "write"
RecordedBeforeStatus ==
    \A k \in Completer : co[k] = "status" /\ ~dbFailed => k \in files

BlobInv == BlobsBounded /\ PastAssembly /\ RecordsWhole /\ CopiedPresent
RowInv == /\ NothingBeforeSession /\ ClosedBeforeRemoval
          /\ WrittenBeforeRow /\ UnlinkedOnlyOpen /\ RowsBacked
RecordInv == RecordedBeforeStatus /\ CompletedHasRecord

(* Where half-written data comes from: the file of a chunk is truncated only *)
(* for the request that is about to write it, a row has a request that was   *)
(* answered, and a count of rows that is right leaves no chunk without a row *)
(* unless an index beyond the range has one.                                 *)
Excused(i) ==
    \/ \E u, v \in Uploader : /\ u # v
                              /\ idx[u] = i /\ up[u] # "idle"
                              /\ idx[v] = i /\ up[v] # "idle"
    \/ \E u \in Uploader : idx[u] \notin Chunks /\ up[u] = "received"
TruncatedByWriter ==
    \A i \in Index, u \in Uploader :
        chunkFile[i] = u => /\ idx[u] = i
                            /\ up[u] \in {"write", "failed"}
                            /\ u \notin unlinked
RowsReceived ==
    \A i \in chunks : \E u \in Uploader : idx[u] = i /\ up[u] = "received"
AllOrBeyond ==
    \A k \in Completer :
        co[k] = "assemble" => Chunks \subseteq chunks \/ ~(chunks \subseteq Chunks)
TornExcused ==
    \A k \in Completer : \A i \in Chunks :
        i < Len(blob[k]) /\ blob[k][i + 1] = "torn" => Excused(i)
TornInv == TruncatedByWriter /\ RowsReceived /\ AllOrBeyond /\ TornExcused
-----------------------------------------------------------------------------
(* Type correctness: every variable keeps its type, for any constants.      *)
THEOREM TypeCorrect == Spec => []TypeOK
<1>1. Init => TypeOK
  <2> SUFFICES ASSUME Init PROVE TypeOK
    OBVIOUS
  <2>1. blob \in [Completer -> Seq({"full", "torn"})]
    BY DEF Init
  <2> QED BY <2>1 DEF Init, TypeOK, UpState, CoState
<1>2. TypeOK /\ [Next]_vars => TypeOK'
  <2> SUFFICES ASSUME TypeOK, [Next]_vars PROVE TypeOK'
    OBVIOUS
  <2> USE DEF TypeOK, UpState, CoState, tableVars, uploadVars, completeVars,
              Written
  <2>1. CASE InitUpload
    BY <2>1 DEF InitUpload
  <2>2. ASSUME NEW u \in Uploader, UploadStep(u) PROVE TypeOK'
    <3>1. CASE UploadChunk(u)
      BY <3>1 DEF UploadChunk
    <3>2. CASE MkdirAll(u)
      BY <3>2 DEF MkdirAll
    <3>3. CASE CreateChunk(u)
      BY ZenonT(40), <3>3 DEF CreateChunk
    <3>4. CASE CopyChunk(u)
      BY <3>4 DEF CopyChunk
    <3>5. CASE SaveChunk(u)
      BY <3>5 DEF SaveChunk
    <3> QED BY <2>2, <3>1, <3>2, <3>3, <3>4, <3>5 DEF UploadStep
  <2>3. ASSUME NEW k \in Completer, CompleteStep(k) PROVE TypeOK'
    <3>1. CASE CompleteUpload(k)
      BY <3>1 DEF CompleteUpload
    <3>2. CASE AssembleChunk(k)
      <4>1. blob' \in [Completer -> Seq({"full", "torn"})]
        <5> DEFINE d == IF chunkFile[Len(blob[k])] = "full" THEN "full" ELSE "torn"
        <5>1. CASE UNCHANGED blob
          BY <5>1
        <5>2. CASE blob' = [blob EXCEPT ![k] = Append(blob[k], d)]
          <6>1. Append(blob[k], d) \in Seq({"full", "torn"})
            BY d \in {"full", "torn"}, blob[k] \in Seq({"full", "torn"})
          <6> HIDE DEF d
          <6> QED BY <5>2, <6>1
        <5> QED BY <3>2, <5>1, <5>2 DEF AssembleChunk
      <4> QED BY <3>2, <4>1 DEF AssembleChunk
    <3>3. CASE CreateFile(k)
      BY <3>3 DEF CreateFile
    <3>4. CASE UpdateUploadSessionStatus(k)
      BY <3>4 DEF UpdateUploadSessionStatus
    <3>5. CASE AccountPATQuota(k)
      <4>1. charged' \in Nat
        BY <3>5 DEF AccountPATQuota
      <4>2. dbFailed' \in BOOLEAN
        BY <3>5 DEF AccountPATQuota
      <4> QED BY <3>5, <4>1, <4>2 DEF AccountPATQuota
    <3>6. CASE DeleteTemp(k)
      BY <3>6 DEF DeleteTemp
    <3> QED BY <2>3, <3>1, <3>2, <3>3, <3>4, <3>5, <3>6 DEF CompleteStep
  <2>4. CASE Crash
    BY <2>4 DEF Crash
  <2>5. CASE UNCHANGED vars
    BY <2>5 DEF vars
  <2> QED BY <2>1, <2>2, <2>3, <2>4, <2>5 DEF Next
<1> QED BY <1>1, <1>2, PTL DEF Spec
-----------------------------------------------------------------------------
(* A file record is published only for a destination file that holds every *)
(* chunk.  The destination grows by one chunk at a time and CreateFile      *)
(* waits for the last, so PastAssembly is what makes RecordsWhole last.     *)
LEMMA BlobStep == TypeOK /\ BlobInv /\ [Next]_vars => BlobInv'
<1> SUFFICES ASSUME TypeOK, BlobInv, [Next]_vars PROVE BlobInv'
  OBVIOUS
<1> USE ConstantsAssumption DEF BlobInv, TypeOK, CoState, BlobsBounded,
        PastAssembly, RecordsWhole, CopiedPresent, Whole, Chunks, tableVars,
        uploadVars, completeVars
<1>1. CASE InitUpload
  BY <1>1 DEF InitUpload
<1>2. ASSUME NEW u \in Uploader, UploadStep(u) PROVE BlobInv'
  <2>1. UNCHANGED completeVars
    BY <1>2 DEF UploadStep, UploadChunk, MkdirAll, CreateChunk, CopyChunk,
                SaveChunk
  <2>2. \A i \in Index : chunkFile[i] # "absent" => chunkFile'[i] # "absent"
    <3>1. CASE CreateChunk(u)
      BY <3>1 DEF CreateChunk
    <3>2. CASE CopyChunk(u)
      BY <3>2 DEF CopyChunk
    <3> QED BY <1>2, <3>1, <3>2 DEF UploadStep, UploadChunk, MkdirAll, SaveChunk
  <2> QED BY <2>1, <2>2
<1>3. ASSUME NEW k \in Completer, CompleteStep(k) PROVE BlobInv'
  <2>1. CASE CompleteUpload(k)
    BY <2>1 DEF CompleteUpload
  <2>2. CASE AssembleChunk(k)
    <3>1. CASE UNCHANGED blob
      BY <2>2, <3>1 DEF AssembleChunk
    <3>2. CASE ~UNCHANGED blob
      <4>1. PICK d \in {"full", "torn"} :
              /\ chunkFile[Len(blob[k])] # "absent"
              /\ blob' = [blob EXCEPT ![k] = Append(@, d)]
              /\ Len(blob[k]) < TotalChunks
              /\ UNCHANGED <<co, chunkFile, files>>
        BY <2>2, <3>2 DEF AssembleChunk
      <4>2. /\ Len(blob'[k]) = Len(blob[k]) + 1
            /\ \A j \in Completer \ {k} : blob'[j] = blob[j]
            /\ \A j \in Completer : Len(blob[j]) \in Nat
        BY <4>1
      <4>3. BlobsBounded' /\ PastAssembly' /\ RecordsWhole'
        <5>1. co[k] = "assemble" /\ k \notin files
          BY <2>2, <4>1, ~Whole(k) DEF AssembleChunk
        <5> QED BY <4>1, <4>2, <5>1
      <4>4. CopiedPresent'
        <5> SUFFICES ASSUME \A j \in Completer : ~Whole(j)',
                            NEW j \in Completer, NEW i \in Chunks,
                            i < Len(blob'[j])
                     PROVE  chunkFile[i] # "absent"
          BY <4>1
        <5>1. \A l \in Completer : ~Whole(l)
          BY <4>1, <4>2
        <5>2. i < Len(blob[j]) \/ (j = k /\ i = Len(blob[k]))
          BY <4>2
        <5> QED BY <4>1, <5>1, <5>2
      <4> QED BY <4>3, <4>4
    <3> QED BY <3>1, <3>2
  <2>3. CASE CreateFile(k)
    BY <2>3 DEF CreateFile, Written
  <2>4. CASE UpdateUploadSessionStatus(k)
    BY <2>4 DEF UpdateUploadSessionStatus
  <2>5. CASE AccountPATQuota(k)
    BY <2>5 DEF AccountPATQuota
  <2>6. CASE DeleteTemp(k)
    BY <2>6 DEF DeleteTemp
  <2> QED BY <1>3, <2>1, <2>2, <2>3, <2>4, <2>5, <2>6 DEF CompleteStep
<1>4. CASE Crash
  BY <1>4 DEF Crash, CoRunning
<1>5. CASE UNCHANGED vars
  BY <1>5 DEF vars
<1> QED BY <1>1, <1>2, <1>3, <1>4, <1>5 DEF Next

LEMMA BlobInvariant == Spec => []BlobInv
<1>1. Init => BlobInv
  <2> SUFFICES ASSUME Init PROVE BlobInv
    OBVIOUS
  <2>1. \A k \in Completer : blob[k] = <<>> /\ co[k] = "idle"
    BY DEF Init
  <2> QED BY <2>1, ConstantsAssumption DEF Init, BlobInv, BlobsBounded,
             PastAssembly, RecordsWhole, CopiedPresent, Chunks
<1> QED BY <1>1, BlobStep, TypeCorrect, PTL DEF Spec

(* Every record of the files table belongs to a whole destination file.     *)
THEOREM OnlyWholeFilesRecorded == Spec => []RecordsWhole
<1>1. BlobInv => RecordsWhole
  BY DEF BlobInv
<1> QED BY <1>1, BlobInvariant, PTL
-----------------------------------------------------------------------------
(* A chunk's row follows its file and precedes the removal: SaveChunk runs  *)
(* after CopyChunk, DeleteTemp after the session has been closed.           *)
LEMMA RowStep == TypeOK /\ RowInv /\ [Next]_vars => RowInv'
<1> SUFFICES ASSUME TypeOK, RowInv, [Next]_vars PROVE RowInv'
  OBVIOUS
<1> USE ConstantsAssumption DEF RowInv, TypeOK, UpState, CoState, RowsBacked,
        NothingBeforeSession, ClosedBeforeRemoval, WrittenBeforeRow,
        UnlinkedOnlyOpen, tableVars, uploadVars, completeVars
<1>1. CASE InitUpload
  BY <1>1 DEF InitUpload
<1>2. ASSUME NEW u \in Uploader, UploadStep(u) PROVE RowInv'
  <2>1. CASE UploadChunk(u)
    BY <2>1 DEF UploadChunk
  <2>2. CASE MkdirAll(u)
    BY <2>2 DEF MkdirAll
  <2>3. CASE CreateChunk(u)
    <3>1. \A i \in Index : chunkFile[i] # "absent" => chunkFile'[i] # "absent"
      BY <2>3 DEF CreateChunk
    <3>2. up'[u] = "write" => chunkFile'[idx[u]] # "absent"
      BY <2>3 DEF CreateChunk
    <3>3. u \notin unlinked
      BY <2>3 DEF CreateChunk
    <3>4. UNCHANGED <<tableVars, unlinked, idx, completeVars>>
      BY <2>3 DEF CreateChunk
    <3>5. \A v \in Uploader : up'[v] = up[v] \/ (v = u /\ up'[v] \in {"write", "failed"})
      BY <2>3 DEF CreateChunk
    <3>6. NothingBeforeSession' /\ ClosedBeforeRemoval' /\ RowsBacked'
      BY <2>3, <3>1, <3>4 DEF CreateChunk
    <3>7. WrittenBeforeRow'
      BY <3>1, <3>2, <3>3, <3>4, <3>5
    <3>8. UnlinkedOnlyOpen'
      BY <3>3, <3>4, <3>5
    <3> QED BY <3>6, <3>7, <3>8
  <2>4. CASE CopyChunk(u)
    <3>1. \A i \in Index : chunkFile[i] # "absent" => chunkFile'[i] # "absent"
      BY <2>4 DEF CopyChunk
    <3>2. /\ UNCHANGED <<tableVars, idx, completeVars>>
          /\ unlinked' = unlinked \ {u}
          /\ up' = [up EXCEPT ![u] = "row"]
          /\ up[u] = "write"
      BY <2>4 DEF CopyChunk
    <3>3. NothingBeforeSession' /\ ClosedBeforeRemoval' /\ RowsBacked'
      BY <3>1, <3>2
    <3>4. WrittenBeforeRow'
      BY <3>1, <3>2
    <3>5. UnlinkedOnlyOpen'
      BY <3>2
    <3> QED BY <3>3, <3>4, <3>5
  <2>5. CASE SaveChunk(u)
    <3>1. /\ UNCHANGED <<session, chunkFile, unlinked, idx, completeVars>>
          /\ up[u] = "row" /\ up' = [up EXCEPT ![u] = "received"]
          /\ chunks' \subseteq chunks \cup {idx[u]}
          /\ dbFailed => dbFailed'
      BY <2>5 DEF SaveChunk, Written
    <3> QED BY <3>1
  <2> QED BY <1>2, <2>1, <2>2, <2>3, <2>4, <2>5 DEF UploadStep
<1>3. ASSUME NEW k \in Completer, CompleteStep(k) PROVE RowInv'
  <2>1. CASE CompleteUpload(k)
    BY <2>1 DEF CompleteUpload
  <2>2. CASE AssembleChunk(k)
    BY <2>2 DEF AssembleChunk
  <2>3. CASE CreateFile(k)
    BY <2>3 DEF CreateFile, Written
  <2>4. CASE UpdateUploadSessionStatus(k)
    BY <2>4 DEF UpdateUploadSessionStatus, Written
  <2>5. CASE AccountPATQuota(k)
    <3>1. /\ UNCHANGED <<session, chunks, chunkFile, uploadVars>>
          /\ co[k] = "quota" /\ co' = [co EXCEPT ![k] = "temp"]
          /\ dbFailed => dbFailed'
      BY <2>5 DEF AccountPATQuota, Written
    <3> QED BY <3>1
  <2>6. CASE DeleteTemp(k)
    BY <2>6 DEF DeleteTemp
  <2> QED BY <1>3, <2>1, <2>2, <2>3, <2>4, <2>5, <2>6 DEF CompleteStep
<1>4. CASE Crash
  BY <1>4 DEF Crash, UpRunning, CoRunning
<1>5. CASE UNCHANGED vars
  BY <1>5 DEF vars
<1> QED BY <1>1, <1>2, <1>3, <1>4, <1>5 DEF Next

LEMMA RowInvariant == Spec => []RowInv
<1>1. Init => RowInv
  BY DEF Init, RowInv, RowsBacked, NothingBeforeSession, ClosedBeforeRemoval,
         WrittenBeforeRow, UnlinkedOnlyOpen
<1> QED BY <1>1, RowStep, TypeCorrect, PTL DEF Spec

(* While a session can be resumed and no SQLite write failed, the rows of   *)
(* the chunks table name chunks that are on disk.                           *)
THEOREM RowsAlwaysBacked == Spec => []RowsBacked
<1>1. RowInv => RowsBacked
  BY DEF RowInv
<1> QED BY <1>1, RowInvariant, PTL

LEMMA RecordStep == TypeOK /\ RecordInv /\ [Next]_vars => RecordInv'
<1> SUFFICES ASSUME TypeOK, RecordInv, [Next]_vars PROVE RecordInv'
  OBVIOUS
<1> USE DEF RecordInv, TypeOK, CoState, RecordedBeforeStatus, CompletedHasRecord,
            tableVars, uploadVars, completeVars
<1>1. CASE InitUpload
  BY <1>1 DEF InitUpload
<1>2. ASSUME NEW u \in Uploader, UploadStep(u) PROVE RecordInv'
  <2>1. UNCHANGED <<session, completeVars>> /\ (dbFailed => dbFailed')
    BY <1>2 DEF UploadStep, UploadChunk, MkdirAll, CreateChunk, CopyChunk,
                SaveChunk, Written
  <2> QED BY <2>1
<1>3. ASSUME NEW k \in Completer, CompleteStep(k) PROVE RecordInv'
  <2>1. CASE CompleteUpload(k)
    BY <2>1 DEF CompleteUpload
  <2>2. CASE AssembleChunk(k)
    BY <2>2 DEF AssembleChunk
  <2>3. CASE CreateFile(k)
    BY <2>3 DEF CreateFile, Written
  <2>4. CASE UpdateUploadSessionStatus(k)
    BY <2>4 DEF UpdateUploadSessionStatus, Written
  <2>5. CASE AccountPATQuota(k)
    <3>1. /\ UNCHANGED <<session, files>> /\ (dbFailed => dbFailed')
          /\ co' = [co EXCEPT ![k] = "temp"]
      BY <2>5 DEF AccountPATQuota, Written
    <3> QED BY <3>1
  <2>6. CASE DeleteTemp(k)
    BY <2>6 DEF DeleteTemp
  <2> QED BY <1>3, <2>1, <2>2, <2>3, <2>4, <2>5, <2>6 DEF CompleteStep
<1>4. CASE Crash
  BY <1>4 DEF Crash, CoRunning
<1>5. CASE UNCHANGED vars
  BY <1>5 DEF vars
<1> QED BY <1>1, <1>2, <1>3, <1>4, <1>5 DEF Next

(* A closed session has a record in the files table, crashes included.      *)
THEOREM ClosedSessionsHaveRecords == Spec => []CompletedHasRecord
<1>1. Init => RecordInv
  BY DEF Init, RecordInv, RecordedBeforeStatus, CompletedHasRecord
<1>2. RecordInv => CompletedHasRecord
  BY DEF RecordInv
<1> QED BY <1>1, <1>2, RecordStep, TypeCorrect, PTL DEF Spec-----------------------------------------------------------------------------
(* A step that keeps the destination files and removes no chunk file either *)
(* leaves Stored alone or, with one new chunk file, stores that chunk.      *)
LEMMA StoreStep ==
  ASSUME TypeOK, UNCHANGED <<blob, files>>, NEW i \in Index,
         \A j \in Index \ {i} : (chunkFile'[j] = "absent") <=> (chunkFile[j] = "absent"),
         chunkFile[i] # "absent" => chunkFile'[i] # "absent"
  PROVE  [Abstract!Next]_Abstract!vars
<1> USE ConstantsAssumption DEF TypeOK, Chunks
<1> DEFINE Done == \E k \in Completer : Whole(k)
<1>1. Done' <=> Done
  BY DEF Whole
<1>2. CASE Done
  BY <1>1, <1>2 DEF Stored, Abstract!vars
<1>3. CASE ~Done
  <2>1. Stored = Present /\ Stored' = Present'
    BY <1>1, <1>3 DEF Stored
  <2>2. CASE i \in Chunks /\ chunkFile'[i] # "absent"
    <3>1. Present' = Present \cup {i}
      BY <2>2 DEF Present
    <3> QED BY <2>1, <2>2, <3>1 DEF Abstract!Next, Abstract!Store
  <2>3. CASE i \notin Chunks \/ chunkFile'[i] = "absent"
    <3>1. Present' = Present
      BY <2>3 DEF Present
    <3> QED BY <2>1, <3>1 DEF Abstract!vars
  <2> QED BY <2>2, <2>3
<1> QED BY <1>2, <1>3

LEMMA RefinementStep ==
  TypeOK /\ BlobInv /\ [Next]_vars => [Abstract!Next]_Abstract!vars
<1> SUFFICES ASSUME TypeOK, BlobInv, [Next]_vars PROVE [Abstract!Next]_Abstract!vars
  OBVIOUS
<1> USE ConstantsAssumption DEF TypeOK, CoState, tableVars, uploadVars, completeVars
<1>0. ASSUME UNCHANGED <<chunkFile, blob, files>>
      PROVE  [Abstract!Next]_Abstract!vars
  BY <1>0 DEF Abstract!vars, Stored, Present, Whole
<1>1. CASE InitUpload
  BY <1>0, <1>1 DEF InitUpload
<1>2. ASSUME NEW u \in Uploader, UploadStep(u) PROVE [Abstract!Next]_Abstract!vars
  <2>1. CASE UploadChunk(u)
    BY <1>0, <2>1 DEF UploadChunk
  <2>2. CASE MkdirAll(u)
    BY <1>0, <2>2 DEF MkdirAll
  <2>3. CASE CreateChunk(u)
    <3>1. /\ UNCHANGED <<blob, files>>
          /\ \A j \in Index \ {idx[u]} : chunkFile'[j] = chunkFile[j]
          /\ chunkFile[idx[u]] # "absent" => chunkFile'[idx[u]] # "absent"
      BY <2>3 DEF CreateChunk
    <3>2. idx[u] \in Index
      OBVIOUS
    <3> QED BY <3>1, <3>2, StoreStep
  <2>4. CASE CopyChunk(u)
    <3>1. /\ UNCHANGED <<blob, files>>
          /\ \A j \in Index \ {idx[u]} : chunkFile'[j] = chunkFile[j]
          /\ chunkFile[idx[u]] # "absent" => chunkFile'[idx[u]] # "absent"
      BY <2>4 DEF CopyChunk
    <3>2. idx[u] \in Index
      OBVIOUS
    <3> QED BY <3>1, <3>2, StoreStep
  <2>5. CASE SaveChunk(u)
    BY <1>0, <2>5 DEF SaveChunk
  <2> QED BY <1>2, <2>1, <2>2, <2>3, <2>4, <2>5 DEF UploadStep
<1>3. ASSUME NEW k \in Completer, CompleteStep(k)
      PROVE  [Abstract!Next]_Abstract!vars
  <2>1. CASE CompleteUpload(k)
    BY <1>0, <2>1 DEF CompleteUpload
  <2>2. CASE AssembleChunk(k)
    <3>1. CASE UNCHANGED blob
      BY <1>0, <2>2, <3>1 DEF AssembleChunk
    <3>2. CASE ~UNCHANGED blob
      <4>1. PICK d \in {"full", "torn"} :
              /\ chunkFile[Len(blob[k])] # "absent"
              /\ blob' = [blob EXCEPT ![k] = Append(@, d)]
              /\ Len(blob[k]) < TotalChunks
              /\ UNCHANGED <<chunkFile, files>>
        BY <2>2, <3>2 DEF AssembleChunk
      <4>2. /\ Len(blob'[k]) = Len(blob[k]) + 1
            /\ \A j \in Completer \ {k} : blob'[j] = blob[j]
            /\ Len(blob[k]) \in Nat
        BY <4>1
      <4>3. ~Whole(k)
        BY <4>1, <4>2 DEF Whole
      <4>4. CASE \E j \in Completer : Whole(j)
        <5>1. \E j \in Completer : Whole(j)'
          BY <4>2, <4>3, <4>4 DEF Whole
        <5> QED BY <4>1, <4>4, <5>1 DEF Stored, Abstract!vars
      <4>5. CASE Len(blob'[k]) # TotalChunks /\ ~\E j \in Completer : Whole(j)
        <5>1. ~\E j \in Completer : Whole(j)'
          BY <4>2, <4>5 DEF Whole
        <5> QED BY <4>1, <4>5, <5>1 DEF Stored, Present, Abstract!vars
      <4>6. CASE Len(blob'[k]) = TotalChunks /\ ~\E j \in Completer : Whole(j)
        <5>1. \A i \in Chunks : chunkFile[i] # "absent"
          <6> SUFFICES ASSUME NEW i \in Chunks PROVE chunkFile[i] # "absent"
            OBVIOUS
          <6>1. i < Len(blob[k]) \/ i = Len(blob[k])
            BY <4>2, <4>6 DEF Chunks
          <6> QED BY <4>1, <4>6, <6>1 DEF BlobInv, CopiedPresent
        <5>2. Stored = Chunks
          BY <4>6, <5>1 DEF Stored, Present
        <5>3. Stored' = Chunks
          BY <4>6 DEF Stored, Whole
        <5> QED BY <4>1, <5>2, <5>3 DEF Abstract!vars
      <4> QED BY <4>4, <4>5, <4>6
    <3> QED BY <3>1, <3>2
  <2>3. CASE CreateFile(k)
    <3>1. Stored = Chunks /\ Stored' = Stored
      BY <2>3 DEF CreateFile, Stored, Whole
    <3>2. files' = files \cup {k} \/ files' = files
      BY <2>3 DEF CreateFile, Written
    <3> QED BY <3>1, <3>2 DEF Abstract!Next, Abstract!Publish, Abstract!vars
  <2>4. CASE UpdateUploadSessionStatus(k)
    BY <1>0, <2>4 DEF UpdateUploadSessionStatus
  <2>5. CASE AccountPATQuota(k)
    BY <1>0, <2>5 DEF AccountPATQuota
  <2>6. CASE DeleteTemp(k)
    <3>1. Whole(k) /\ Whole(k)' /\ UNCHANGED files
      BY <2>6 DEF DeleteTemp, BlobInv, PastAssembly, Whole
    <3> QED BY <3>1 DEF Stored, Abstract!vars
  <2> QED BY <1>3, <2>1, <2>2, <2>3, <2>4, <2>5, <2>6 DEF CompleteStep
<1>4. CASE Crash
  BY <1>0, <1>4 DEF Crash
<1>5. CASE UNCHANGED vars
  BY <1>0, <1>5 DEF vars
<1> QED BY <1>1, <1>2, <1>3, <1>4, <1>5 DEF Next

(* The SQLite path of the server implements UploadSpec: it publishes a file *)
(* only when every chunk of the session has been stored, for any number of  *)
(* requests and chunks, with crashes and lost SQLite writes.                *)
THEOREM SqliteImplementsUpload == Spec => ImplementsUpload
<1>1. Init => Abstract!Init
  <2> SUFFICES ASSUME Init PROVE Stored = {} /\ files = {}
    BY DEF Abstract!Init
  <2>1. \A k \in Completer : ~Whole(k)
    BY ConstantsAssumption DEF Init, Whole
  <2>2. Present = {}
    BY ConstantsAssumption DEF Init, Present, Chunks
  <2> QED BY <2>1, <2>2 DEF Stored, Init
<1> QED BY <1>1, RefinementStep, BlobInvariant, TypeCorrect, PTL
        DEF Spec, ImplementsUpload, Abstract!Spec
-----------------------------------------------------------------------------
(* What excuses a torn chunk stays true: a request keeps its index, is never *)
(* idle again, and remains answered.                                         *)
LEMMA RequestsAdvance ==
    TypeOK /\ [Next]_vars =>
        /\ idx' = idx
        /\ \A u \in Uploader : /\ up[u] # "idle" => up'[u] # "idle"
                               /\ up[u] = "received" => up'[u] = "received"
<1> SUFFICES ASSUME TypeOK, [Next]_vars
             PROVE  /\ idx' = idx
                    /\ \A u \in Uploader : /\ up[u] # "idle" => up'[u] # "idle"
                                           /\ up[u] = "received" => up'[u] = "received"
  OBVIOUS
<1>0. up \in [Uploader -> UpState]
  BY DEF TypeOK
<1>1. CASE InitUpload
  BY <1>1 DEF InitUpload, uploadVars
<1>2. ASSUME NEW u \in Uploader, UploadStep(u)
      PROVE  idx' = idx /\ \E s \in UpState \ {"idle"} :
                              up[u] # "received" /\ up' = [up EXCEPT ![u] = s]
  BY <1>2 DEF UploadStep, UploadChunk, MkdirAll, CreateChunk, CopyChunk,
              SaveChunk, UpState
<1>3. ASSUME NEW k \in Completer, CompleteStep(k) PROVE UNCHANGED <<up, idx>>
  BY <1>3 DEF CompleteStep, CompleteUpload, AssembleChunk, CreateFile,
              UpdateUploadSessionStatus, AccountPATQuota, DeleteTemp, uploadVars
<1>4. CASE Crash
  BY <1>4 DEF Crash, UpRunning
<1>5. CASE UNCHANGED vars
  BY <1>5 DEF vars, uploadVars
<1> QED BY <1>0, <1>1, <1>2, <1>3, <1>4, <1>5 DEF Next

LEMMA ExcuseStays ==
    ASSUME TypeOK, [Next]_vars, NEW i \in Chunks, Excused(i)
    PROVE  Excused(i)'
BY RequestsAdvance DEF Excused, Chunks

(* As many rows as chunks: all of them, or one is beyond the range.          *)
LEMMA CountedRows ==
    ASSUME TypeOK, Cardinality(chunks) = TotalChunks
    PROVE  Chunks \subseteq chunks \/ ~(chunks \subseteq Chunks)
<1>1. IsFiniteSet(Chunks) /\ Cardinality(Chunks) = TotalChunks
  BY FS_Interval, ConstantsAssumption DEF Chunks
<1> SUFFICES ASSUME chunks \subseteq Chunks PROVE Chunks \subseteq chunks
  OBVIOUS
<1>2. chunks \in SUBSET Chunks
  OBVIOUS
<1> QED BY <1>1, <1>2, FS_Subset

LEMMA TruncatedStep ==
    TypeOK /\ UnlinkedOnlyOpen /\ TruncatedByWriter /\ [Next]_vars
        => TruncatedByWriter'
<1> SUFFICES ASSUME TypeOK, UnlinkedOnlyOpen, TruncatedByWriter, [Next]_vars
             PROVE  TruncatedByWriter'
  OBVIOUS
<1>0. /\ chunkFile \in [Index -> {"absent", "full"} \cup Uploader]
      /\ up \in [Uploader -> UpState] /\ idx \in [Uploader -> Index]
      /\ \A v \in Uploader : v # "absent" /\ v # "full"
  BY ConstantsAssumption DEF TypeOK
<1> USE DEF TruncatedByWriter
<1>1. CASE InitUpload
  BY <1>1 DEF InitUpload, uploadVars
<1>2. ASSUME NEW u \in Uploader, UploadStep(u) PROVE TruncatedByWriter'
  <2>1. CASE UploadChunk(u)
    BY <1>0, <2>1 DEF UploadChunk
  <2>2. CASE MkdirAll(u)
    BY <1>0, <2>2 DEF MkdirAll
  <2>3. CASE CreateChunk(u)
    <3>1. UNCHANGED <<unlinked, idx>> /\ u \notin unlinked
      BY <2>3 DEF CreateChunk, UnlinkedOnlyOpen
    <3>2. CASE chunkDir
      BY <1>0, <2>3, <3>1, <3>2 DEF CreateChunk
    <3>3. CASE ~chunkDir
      BY <1>0, <2>3, <3>1, <3>3 DEF CreateChunk
    <3> QED BY <3>2, <3>3
  <2>4. CASE CopyChunk(u)
    <3>1. /\ UNCHANGED idx /\ unlinked' = unlinked \ {u}
          /\ up' = [up EXCEPT ![u] = "row"]
      BY <2>4 DEF CopyChunk
    <3>2. CASE chunkFile' = [chunkFile EXCEPT ![idx[u]] = "full"]
      BY <1>0, <3>1, <3>2
    <3>3. CASE (u \in unlinked \/ chunkFile[idx[u]] # u) /\ UNCHANGED chunkFile
      <4>1. \A i \in Index : chunkFile[i] # u
        BY <1>0, <3>3
      <4> QED BY <1>0, <3>1, <3>3, <4>1
    <3> QED BY <2>4, <3>2, <3>3 DEF CopyChunk
  <2>5. CASE SaveChunk(u)
    BY <1>0, <2>5 DEF SaveChunk
  <2> QED BY <1>2, <2>1, <2>2, <2>3, <2>4, <2>5 DEF UploadStep
<1>3. ASSUME NEW k \in Completer, CompleteStep(k) PROVE TruncatedByWriter'
  <2>1. CASE DeleteTemp(k)
    BY <1>0, <2>1 DEF DeleteTemp
  <2> QED BY <1>3, <2>1
          DEF CompleteStep, CompleteUpload, AssembleChunk, CreateFile,
              UpdateUploadSessionStatus, AccountPATQuota, uploadVars
<1>4. CASE Crash
  BY <1>0, <1>4 DEF Crash, UpRunning
<1>5. CASE UNCHANGED vars
  BY <1>5 DEF vars, uploadVars
<1> QED BY <1>1, <1>2, <1>3, <1>4, <1>5 DEF Next

LEMMA ReceivedStep == TypeOK /\ RowsReceived /\ [Next]_vars => RowsReceived'
<1> SUFFICES ASSUME TypeOK, RowsReceived, [Next]_vars PROVE RowsReceived'
  OBVIOUS
<1>1. CASE UNCHANGED chunks
  BY <1>1, RequestsAdvance DEF RowsReceived
<1>2. ASSUME NEW u \in Uploader, SaveChunk(u) PROVE RowsReceived'
  <2>1. chunks' \subseteq chunks \cup {idx[u]} /\ up'[u] = "received" /\ idx' = idx
    BY <1>2 DEF SaveChunk, Written, TypeOK
  <2> QED BY <2>1, RequestsAdvance DEF RowsReceived
<1> QED BY <1>1, <1>2
        DEF Next, InitUpload, UploadStep, UploadChunk, MkdirAll, CreateChunk,
            CopyChunk, CompleteStep, CompleteUpload, AssembleChunk, CreateFile,
            UpdateUploadSessionStatus, AccountPATQuota, DeleteTemp, Crash, vars,
            tableVars

LEMMA CountStep == TypeOK /\ AllOrBeyond /\ [Next]_vars => AllOrBeyond'
<1> SUFFICES ASSUME TypeOK, AllOrBeyond, [Next]_vars PROVE AllOrBeyond'
  OBVIOUS
<1>0. co \in [Completer -> CoState]
  BY DEF TypeOK
<1>1. chunks \subseteq chunks'
  BY DEF Next, InitUpload, UploadStep, UploadChunk, MkdirAll, CreateChunk,
         CopyChunk, SaveChunk, Written, CompleteStep, CompleteUpload,
         AssembleChunk, CreateFile, UpdateUploadSessionStatus, AccountPATQuota,
         DeleteTemp, Crash, vars, tableVars
<1>2. ASSUME NEW k \in Completer, CompleteUpload(k) PROVE AllOrBeyond'
  BY <1>0, <1>1, <1>2, CountedRows DEF CompleteUpload, AllOrBeyond
<1>3. \/ \E k \in Completer : CompleteUpload(k)
      \/ \A k \in Completer : co'[k] = "assemble" => co[k] = "assemble"
  BY <1>0
     DEF Next, InitUpload, UploadStep, UploadChunk, MkdirAll, CreateChunk,
         CopyChunk, SaveChunk, CompleteStep, AssembleChunk, CreateFile,
         UpdateUploadSessionStatus, AccountPATQuota, DeleteTemp, Crash, vars,
         completeVars, CoRunning
<1> QED BY <1>1, <1>2, <1>3 DEF AllOrBeyond

(* A chunk is copied torn while its one writer is not answered.  The row     *)
(* that let the completion pass the count then has another writer.           *)
LEMMA TornStep == TypeOK /\ TornInv /\ [Next]_vars => TornExcused'
<1> SUFFICES ASSUME TypeOK, TornInv, [Next]_vars PROVE TornExcused'
  OBVIOUS
<1>0. blob \in [Completer -> Seq({"full", "torn"})]
  BY DEF TypeOK
<1>1. CASE UNCHANGED blob
  BY <1>1, ExcuseStays DEF TornInv, TornExcused, Chunks
<1>2. ASSUME NEW k \in Completer, AssembleChunk(k), ~UNCHANGED blob
      PROVE  TornExcused'
  <2> DEFINE n == Len(blob[k])
             d == IF chunkFile[n] = "full" THEN "full" ELSE "torn"
  <2>1. /\ n < TotalChunks /\ chunkFile[n] # "absent" /\ co[k] = "assemble"
        /\ blob' = [blob EXCEPT ![k] = Append(blob[k], d)]
    BY <1>2 DEF AssembleChunk
  <2>2. n \in Chunks
    BY <1>0, <2>1, ConstantsAssumption DEF Chunks
  <2>3. ASSUME d = "torn" PROVE Excused(n)
    <3>1. PICK u \in Uploader : chunkFile[n] = u
      BY <2>1, <2>2, <2>3, ConstantsAssumption DEF TypeOK, Chunks
    <3>2. idx[u] = n /\ up[u] \in {"write", "failed"}
      BY <2>2, <3>1, ConstantsAssumption DEF TornInv, TruncatedByWriter, Chunks
    <3>3. CASE Chunks \subseteq chunks
      <4>1. PICK v \in Uploader : idx[v] = n /\ up[v] = "received"
        BY <2>2, <3>3 DEF TornInv, RowsReceived
      <4> QED BY <3>2, <4>1 DEF Excused
    <3>4. CASE ~(chunks \subseteq Chunks)
      <4>1. PICK v \in Uploader : idx[v] \notin Chunks /\ up[v] = "received"
        BY <3>4 DEF TornInv, RowsReceived
      <4> QED BY <4>1 DEF Excused
    <3> QED BY <2>1, <3>3, <3>4 DEF TornInv, AllOrBeyond
  <2> HIDE DEF d
  <2>4. /\ blob'[k] = Append(blob[k], d)
        /\ \A j \in Completer \ {k} : blob'[j] = blob[j]
    BY <1>0, <2>1
  <2> SUFFICES ASSUME NEW j \in Completer, NEW i \in Chunks,
                      i < Len(blob'[j]), blob'[j][i + 1] = "torn"
               PROVE  Excused(i)'
    BY DEF TornExcused, Chunks
  <2>5. CASE j # k
    BY <2>4, <2>5, ExcuseStays DEF TornInv, TornExcused
  <2>6. CASE j = k /\ i < n
    <3>1. blob[k][i + 1] = "torn"
      BY <1>0, <2>4, <2>6 DEF Chunks
    <3> QED BY <2>6, <3>1, ExcuseStays DEF TornInv, TornExcused
  <2>7. CASE j = k /\ ~(i < n)
    <3>1. i = n /\ blob'[k][n + 1] = d
      <4> n \in Nat
        BY <1>0
      <4>1. Len(blob'[k]) = n + 1 /\ blob'[k][n + 1] = d
        BY <1>0, <2>4
      <4>2. i \in Nat /\ i < n + 1 /\ ~(i < n)
        BY <2>7, <4>1 DEF Chunks
      <4> QED BY <4>1, <4>2
    <3>2. Excused(i)
      BY <2>3, <2>7, <3>1
    <3> QED BY <3>2, ExcuseStays
  <2> QED BY <2>5, <2>6, <2>7
<1> QED BY <1>1, <1>2
        DEF Next, InitUpload, UploadStep, UploadChunk, MkdirAll, CreateChunk,
            CopyChunk, SaveChunk, CompleteStep, CompleteUpload, CreateFile,
            UpdateUploadSessionStatus, AccountPATQuota, DeleteTemp, Crash, vars,
            completeVars

(* A record holds half-written data only after two requests for one chunk,   *)
(* or when an index beyond the range stood in for a missing row: a single    *)
(* upload of every chunk is recorded intact, whatever else overlaps.         *)
THEOREM TornRecordsExplained == Spec => []TornExplained
<1>1. Init => TornInv
  <2> SUFFICES ASSUME Init PROVE TornInv
    OBVIOUS
  <2>1. \A k \in Completer : blob[k] = <<>> /\ co[k] = "idle"
    BY DEF Init
  <2>2. TornExcused
    BY <2>1 DEF TornExcused, Chunks
  <2> QED BY <2>1, <2>2, ConstantsAssumption
          DEF Init, TornInv, TruncatedByWriter, RowsReceived, AllOrBeyond
<1>2. TypeOK /\ RowInv /\ TornInv /\ [Next]_vars => TornInv'
  BY TruncatedStep, ReceivedStep, CountStep, TornStep DEF TornInv, RowInv
<1>3. TypeOK /\ BlobInv /\ TornInv => TornExplained
  <2> SUFFICES ASSUME TypeOK, BlobInv, TornInv, NEW k \in files, NEW i \in Chunks,
                      blob[k][i + 1] = "torn"
               PROVE  Excused(i)
    BY DEF TornExplained, Excused
  <2>1. k \in Completer /\ Len(blob[k]) = TotalChunks
    BY DEF TypeOK, BlobInv, RecordsWhole, Whole
  <2>2. i < Len(blob[k])
    BY <2>1, ConstantsAssumption DEF Chunks
  <2> QED BY <2>1, <2>2 DEF TornInv, TornExcused
<1> QED BY <1>1, <1>2, <1>3, TypeCorrect, RowInvariant, BlobInvariant, PTL DEF Spec
=============================================================================
