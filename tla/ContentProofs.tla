--------------------------- MODULE ContentProofs ----------------------------
(***************************************************************************)
(* Proofs about where the content of a file ends up: in the blobs that     *)
(* rows share (SharedBlobs), and on the server when clients upload one     *)
(* name at the same time (Transfer).                                       *)
(*                                                                         *)
(* Of the blobs, for any requests, rows and faults: when a row has no file *)
(* and when a file has no row. Of the clients, for any number of calls of  *)
(* the desktop client and of tasks of the page, any versions of the file,  *)
(* any chunk sizes and any faults: what a client that is told its upload   *)
(* is done has on the server.                                              *)
(***************************************************************************)
EXTENDS SharedBlobs, Transfer, SequenceTheorems, WellFoundedInduction, TLAPS

-----------------------------------------------------------------------------
(* The blobs.                                                               *)

PcState == {"sweep", "idle", "insert", "undo", "truncate", "copy", "hash", "meta", "next",
            "delete", "count", "remove", "done"}
Removing == {"count", "remove"}

TypeOK ==
    /\ live \subseteq File /\ trashed \subseteq File
    /\ path \in [File -> File]
    /\ hash \in [File -> Content \cup {"none", "torn"}]
    /\ blob \in [File -> Content \cup Request \cup {"none", "torn"}]
    /\ kind \in [Request -> Handlers]
    /\ pc \in [Process -> PcState]
    /\ tgt \in [Process -> File \cup {Startup}]
    /\ data \in [Request -> Content \cup {"none", "torn"}]
    /\ todo \in [Process -> SUBSET File]
    /\ kept \subseteq File

(* A handler is only in the states of its own code, and what it is about to  *)
(* write, insert or remove has been chosen.                                  *)
KindInv ==
    /\ pc[Startup] \in {"sweep", "next", "count", "remove", "done"}
    /\ \A r \in Request :
         /\ kind[r] = "create" => pc[r] \in {"idle", "insert", "undo", "done"}
         /\ kind[r] \in {"check", "save"} => pc[r] \in {"idle", "insert", "done"}
         /\ kind[r] = "edit" =>
              pc[r] \in {"idle", "truncate", "copy", "hash", "meta", "done"}
         /\ kind[r] \in {"purge", "empty"} =>
              pc[r] \in {"idle", "next", "delete", "count", "remove", "done"}
         /\ tgt[r] \in File
         /\ pc[r] \in {"idle", "truncate", "copy"} => data[r] \in Content
    /\ pc[Startup] \in Removing => tgt[Startup] \in File

(* Nobody has seen a file id before its row is inserted.                     *)
Unborn(r) == pc[r] \in {"idle", "insert", "undo"}
FreshInv ==
    \A r \in Request : Unborn(r) =>
        /\ r \notin Row
        /\ path[r] = r
        /\ \A f \in File \ {r} : path[f] # r
        /\ \A p \in Process : r \notin todo[p] /\ (p # r => tgt[p] # r)

(* A row whose file is gone, or is about to be removed, was made too late.   *)
LateInv ==
    /\ DanglingExplained
    /\ \A p \in Process : pc[p] = "remove" => References(PathOf(p)) \subseteq late

(* Every file has a row, somebody who removes it, or has been left; an edit  *)
(* that copies has a file in the directory unless that has been removed.     *)
Cared(q) == References(q) # {} \/ q \in kept \/ Due(q)
CareInv ==
    /\ pc[Startup] \in {"sweep", "done"} => todo[Startup] = {}
    /\ \A q \in File : blob[q] # "none" => Cared(q)
    /\ \A r \in Request : pc[r] = "copy" /\ r \notin unlinked => blob[PathOf(r)] # "none"
-----------------------------------------------------------------------------
(* Every step keeps the types.                                               *)
LEMMA TypeStays == TypeOK /\ KindInv /\ [BlobNext]_blobVars => TypeOK'
<1> SUFFICES ASSUME TypeOK, KindInv, [BlobNext]_blobVars PROVE TypeOK'
  OBVIOUS
<1> USE ConstantsAssumption DEF TypeOK, KindInv, File, Process, rowVars, diskVars
<1>1. ASSUME NEW r \in Request, CreateTextFile(r) PROVE TypeOK'
  <2>1. pc' \in [Process -> PcState]
    BY <1>1 DEF PcState, To, CreateTextFile, Starts
  <2>2. blob' \in [File -> Content \cup Request \cup {"none", "torn"}]
    BY <1>1 DEF PcState, To, CreateTextFile, Starts
  <2>3. kept' \subseteq File
    BY <1>1 DEF CreateTextFile, Keep, PathOf, Due, References, Removing, Row
  <2> QED BY <1>1, <2>1, <2>2, <2>3 DEF CreateTextFile
<1>2. ASSUME NEW r \in Request, UndoCreate(r) PROVE TypeOK'
  <2>1. pc' \in [Process -> PcState]
    BY <1>2 DEF PcState, To, UndoCreate
  <2>2. blob' \in [File -> Content \cup Request \cup {"none", "torn"}]
    BY <1>2 DEF PcState, To, UndoCreate
  <2>3. kept' \subseteq File
    BY <1>2 DEF UndoCreate, Keep, PathOf, Due, References, Removing, Row
  <2> QED BY <1>2, <2>1, <2>2, <2>3 DEF UndoCreate
<1>3. ASSUME NEW r \in Request, CheckUpload(r) PROVE TypeOK'
  <2>1. pc' \in [Process -> PcState]
    BY <1>3 DEF PcState, To, CheckUpload
  <2>2. tgt' \in [Process -> File \cup {Startup}]
    BY <1>3 DEF PcState, To, CheckUpload
  <2> QED BY <1>3, <2>1, <2>2 DEF CheckUpload
<1>4. ASSUME NEW r \in Request, SaveShare(r) PROVE TypeOK'
  <2>1. pc' \in [Process -> PcState]
    BY <1>4 DEF PcState, To, SaveShare
  <2>2. tgt' \in [Process -> File \cup {Startup}]
    BY <1>4 DEF PcState, To, SaveShare
  <2>3. data' \in [Request -> Content \cup {"none", "torn"}]
    BY <1>4 DEF PcState, To, SaveShare
  <2> QED BY <1>4, <2>1, <2>2, <2>3 DEF SaveShare
<1>5. ASSUME NEW r \in Request, CreateFile(r) PROVE TypeOK'
  <2>1. pc' \in [Process -> PcState]
    BY <1>5 DEF PcState, To, CreateFile, PathOf
  <2>2. live' \subseteq File
    BY <1>5 DEF PcState, To, CreateFile, PathOf
  <2>3. path' \in [File -> File]
    BY <1>5 DEF PcState, To, CreateFile, PathOf
  <2>4. hash' \in [File -> Content \cup {"none", "torn"}]
    BY <1>5 DEF PcState, To, CreateFile, PathOf
  <2>5. kept' \subseteq File
    BY <1>5 DEF CreateFile, Keep, PathOf, Due, References, Removing, Row
  <2> QED BY <1>5, <2>1, <2>2, <2>3, <2>4, <2>5 DEF CreateFile
<1>6. ASSUME NEW r \in Request, UpdateFileContent(r) PROVE TypeOK'
  <2>1. pc' \in [Process -> PcState]
    BY <1>6 DEF PcState, To, UpdateFileContent
  <2>2. tgt' \in [Process -> File \cup {Startup}]
    BY <1>6 DEF PcState, To, UpdateFileContent
  <2> QED BY <1>6, <2>1, <2>2 DEF UpdateFileContent
<1>7. ASSUME NEW r \in Request, Truncate(r) PROVE TypeOK'
  <2>1. pc' \in [Process -> PcState]
    BY <1>7 DEF PcState, To, Truncate, PathOf
  <2>2. blob' \in [File -> Content \cup Request \cup {"none", "torn"}]
    BY <1>7 DEF PcState, To, Truncate, PathOf
  <2>3. kept' \subseteq File
    BY <1>7 DEF Truncate, Keep, PathOf, Due, References, Removing, Row
  <2> QED BY <1>7, <2>1, <2>2, <2>3 DEF Truncate
<1>8. ASSUME NEW r \in Request, Copy(r) PROVE TypeOK'
  <2>1. pc' \in [Process -> PcState]
    BY <1>8 DEF PcState, To, Copy, PathOf
  <2>2. blob' \in [File -> Content \cup Request \cup {"none", "torn"}]
    BY <1>8 DEF PcState, To, Copy, PathOf
  <2> QED BY <1>8, <2>1, <2>2 DEF Copy
<1>9. ASSUME NEW r \in Request, Rehash(r) PROVE TypeOK'
  <2>1. pc' \in [Process -> PcState]
    BY <1>9 DEF PcState, To, Rehash, PathOf, HashFile
  <2>2. data' \in [Request -> Content \cup {"none", "torn"}]
    BY <1>9 DEF PcState, To, Rehash, PathOf, HashFile
  <2> QED BY <1>9, <2>1, <2>2 DEF Rehash
<1>10. ASSUME NEW r \in Request, UpdateFileMeta(r) PROVE TypeOK'
  <2>1. pc' \in [Process -> PcState]
    BY <1>10 DEF PcState, To, UpdateFileMeta
  <2>2. hash' \in [File -> Content \cup {"none", "torn"}]
    BY <1>10 DEF PcState, To, UpdateFileMeta
  <2> QED BY <1>10, <2>1, <2>2 DEF UpdateFileMeta
<1>11. ASSUME NEW r \in Request, PermanentDelete(r) PROVE TypeOK'
  <2>1. pc' \in [Process -> PcState]
    BY <1>11 DEF PcState, To, PermanentDelete, Row
  <2>2. todo' \in [Process -> SUBSET File]
    BY <1>11 DEF PcState, To, PermanentDelete, Row
  <2> QED BY <1>11, <2>1, <2>2 DEF PermanentDelete
<1>12. ASSUME NEW r \in Request, EmptyTrash(r) PROVE TypeOK'
  <2>1. pc' \in [Process -> PcState]
    BY <1>12 DEF PcState, To, EmptyTrash
  <2>2. todo' \in [Process -> SUBSET File]
    BY <1>12 DEF PcState, To, EmptyTrash
  <2> QED BY <1>12, <2>1, <2>2 DEF EmptyTrash
<1>13. ASSUME NEW r \in Request, DeleteRow(r) PROVE TypeOK'
  <2>1. pc' \in [Process -> PcState]
    BY <1>13 DEF PcState, To, DeleteRow
  <2> QED BY <1>13, <2>1 DEF DeleteRow
<1>14. ASSUME NEW p \in Process, NextTrashed(p) PROVE TypeOK'
  <2>1. pc' \in [Process -> PcState]
    BY <1>14 DEF PcState, To, NextTrashed
  <2>2. tgt' \in [Process -> File \cup {Startup}]
    BY <1>14 DEF PcState, To, NextTrashed
  <2>3. todo' \in [Process -> SUBSET File]
    BY <1>14 DEF PcState, To, NextTrashed
  <2> QED BY <1>14, <2>1, <2>2, <2>3 DEF NextTrashed
<1>15. ASSUME NEW p \in Process, CountByStoragePath(p) PROVE TypeOK'
  <2>1. pc' \in [Process -> PcState]
    BY <1>15 DEF PcState, To, CountByStoragePath
  <2>2. kept' \subseteq File
    BY <1>15 DEF CountByStoragePath, Keep, PathOf, Due, References, Removing, Row
  <2> QED BY <1>15, <2>1, <2>2 DEF CountByStoragePath
<1>16. ASSUME NEW p \in Process, RemoveBlob(p) PROVE TypeOK'
  <2>1. pc' \in [Process -> PcState]
    BY <1>16 DEF PcState, To, RemoveBlob, PathOf
  <2>2. blob' \in [File -> Content \cup Request \cup {"none", "torn"}]
    BY <1>16 DEF PcState, To, RemoveBlob, PathOf
  <2>3. kept' \subseteq File
    BY <1>16 DEF RemoveBlob, Keep, PathOf, Due, References, Removing, Row
  <2> QED BY <1>16, <2>1, <2>2, <2>3 DEF RemoveBlob
<1>17. CASE CleanupExpiredTrash
  <2>1. pc' \in [Process -> PcState]
    BY <1>17 DEF PcState, To, CleanupExpiredTrash
  <2>2. todo' \in [Process -> SUBSET File]
    BY <1>17 DEF PcState, To, CleanupExpiredTrash
  <2> QED BY <1>17, <2>1, <2>2 DEF CleanupExpiredTrash
<1>18. CASE Crash
  <2>1. pc' \in [Process -> PcState]
    BY <1>18 DEF PcState, To, Crash, HashFile
  <2>2. blob' \in [File -> Content \cup Request \cup {"none", "torn"}]
    BY <1>18 DEF PcState, To, Crash, HashFile
  <2>3. kept' \subseteq File
    BY <1>18 DEF Crash, Keep, PathOf, Due, References, Removing, Row
  <2> QED BY <1>18, <2>1, <2>2, <2>3 DEF Crash
<1>19. ASSUME NEW f \in File, DeleteFile(f) PROVE TypeOK'
  BY <1>19 DEF DeleteFile
<1>20. ASSUME NEW f \in File, RestoreFile(f) PROVE TypeOK'
  BY <1>20 DEF RestoreFile
<1>21. CASE UNCHANGED blobVars
  BY <1>21 DEF blobVars
<1> QED BY <1>1, <1>2, <1>3, <1>4, <1>5, <1>6, <1>7, <1>8, <1>9, <1>10, <1>11,
       <1>12, <1>13, <1>14, <1>15, <1>16, <1>17, <1>18, <1>19, <1>20, <1>21
       DEF BlobNext, RequestStep, TrashStep

(* Every step keeps a handler in its code.                                   *)
LEMMA KindStays == TypeOK /\ KindInv /\ [BlobNext]_blobVars => KindInv'
<1> SUFFICES ASSUME TypeOK, KindInv, [BlobNext]_blobVars PROVE KindInv'
  OBVIOUS
<1> USE ConstantsAssumption DEF TypeOK, KindInv, File, Process, Removing, rowVars, diskVars
<1>1. ASSUME NEW r \in Request, CreateTextFile(r) PROVE KindInv'
  BY <1>1 DEF CreateTextFile, To, Starts
<1>2. ASSUME NEW r \in Request, UndoCreate(r) PROVE KindInv'
  BY <1>2 DEF UndoCreate, To, Starts
<1>3. ASSUME NEW r \in Request, CheckUpload(r) PROVE KindInv'
  BY <1>3 DEF CheckUpload, To, Starts
<1>4. ASSUME NEW r \in Request, SaveShare(r) PROVE KindInv'
  BY <1>4 DEF SaveShare, To, Starts
<1>5. ASSUME NEW r \in Request, CreateFile(r) PROVE KindInv'
  BY <1>5 DEF CreateFile, To, Starts
<1>6. ASSUME NEW r \in Request, UpdateFileContent(r) PROVE KindInv'
  BY <1>6 DEF UpdateFileContent, To, Starts
<1>7. ASSUME NEW r \in Request, Truncate(r) PROVE KindInv'
  BY <1>7 DEF Truncate, To, Starts
<1>8. ASSUME NEW r \in Request, Copy(r) PROVE KindInv'
  BY <1>8 DEF Copy, To, Starts
<1>9. ASSUME NEW r \in Request, Rehash(r) PROVE KindInv'
  BY <1>9 DEF Rehash, To, Starts
<1>10. ASSUME NEW r \in Request, UpdateFileMeta(r) PROVE KindInv'
  BY <1>10 DEF UpdateFileMeta, To, Starts
<1>11. ASSUME NEW r \in Request, PermanentDelete(r) PROVE KindInv'
  BY <1>11 DEF PermanentDelete, To, Starts
<1>12. ASSUME NEW r \in Request, EmptyTrash(r) PROVE KindInv'
  BY <1>12 DEF EmptyTrash, To, Starts
<1>13. ASSUME NEW r \in Request, DeleteRow(r) PROVE KindInv'
  BY <1>13 DEF DeleteRow, To, Starts
<1>14. ASSUME NEW p \in Process, NextTrashed(p) PROVE KindInv'
  BY <1>14 DEF NextTrashed, To, Starts
<1>15. ASSUME NEW p \in Process, CountByStoragePath(p) PROVE KindInv'
  BY <1>15 DEF CountByStoragePath, To, Starts
<1>16. ASSUME NEW p \in Process, RemoveBlob(p) PROVE KindInv'
  BY <1>16 DEF RemoveBlob, To, Starts
<1>17. CASE CleanupExpiredTrash
  BY <1>17 DEF CleanupExpiredTrash, To, Starts
<1>18. CASE Crash
  BY <1>18 DEF Crash, To, Starts
<1>19. ASSUME NEW f \in File, DeleteFile(f) PROVE KindInv'
  BY <1>19 DEF DeleteFile
<1>20. ASSUME NEW f \in File, RestoreFile(f) PROVE KindInv'
  BY <1>20 DEF RestoreFile
<1>21. CASE UNCHANGED blobVars
  BY <1>21 DEF blobVars
<1> QED BY <1>1, <1>2, <1>3, <1>4, <1>5, <1>6, <1>7, <1>8, <1>9, <1>10, <1>11,
       <1>12, <1>13, <1>14, <1>15, <1>16, <1>17, <1>18, <1>19, <1>20, <1>21
       DEF BlobNext, RequestStep, TrashStep

(* Every step keeps the ids of uninserted rows to the request.               *)
LEMMA FreshStays == TypeOK /\ KindInv /\ FreshInv /\ [BlobNext]_blobVars => FreshInv'
<1> SUFFICES ASSUME TypeOK, KindInv, FreshInv, [BlobNext]_blobVars PROVE FreshInv'
  OBVIOUS
<1> USE ConstantsAssumption DEF TypeOK, FreshInv, Unborn, Row, File, Process, Removing,
        rowVars, diskVars
<1>1. ASSUME NEW r \in Request, CreateTextFile(r) PROVE FreshInv'
  BY <1>1 DEF CreateTextFile, To, Starts
<1>2. ASSUME NEW r \in Request, UndoCreate(r) PROVE FreshInv'
  BY <1>2 DEF UndoCreate, To, KindInv
<1>3. ASSUME NEW r \in Request, CheckUpload(r) PROVE FreshInv'
  BY <1>3 DEF CheckUpload, To, Starts
<1>4. ASSUME NEW r \in Request, SaveShare(r) PROVE FreshInv'
  BY <1>4 DEF SaveShare, To, Starts
<1>5. ASSUME NEW r \in Request, CreateFile(r) PROVE FreshInv'
  BY <1>5 DEF CreateFile, To, KindInv, PathOf
<1>6. ASSUME NEW r \in Request, UpdateFileContent(r) PROVE FreshInv'
  BY <1>6 DEF UpdateFileContent, To, Starts
<1>7. ASSUME NEW r \in Request, Truncate(r) PROVE FreshInv'
  BY <1>7 DEF Truncate, To, Starts
<1>8. ASSUME NEW r \in Request, Copy(r) PROVE FreshInv'
  BY <1>8 DEF Copy, To, Starts
<1>9. ASSUME NEW r \in Request, Rehash(r) PROVE FreshInv'
  BY <1>9 DEF Rehash, To, Starts
<1>10. ASSUME NEW r \in Request, UpdateFileMeta(r) PROVE FreshInv'
  BY <1>10 DEF UpdateFileMeta, To, Starts
<1>11. ASSUME NEW r \in Request, PermanentDelete(r) PROVE FreshInv'
  BY <1>11 DEF PermanentDelete, To, Starts
<1>12. ASSUME NEW r \in Request, EmptyTrash(r) PROVE FreshInv'
  BY <1>12 DEF EmptyTrash, To, Starts
<1>13. ASSUME NEW r \in Request, DeleteRow(r) PROVE FreshInv'
  BY <1>13 DEF DeleteRow, To, Starts
<1>14. ASSUME NEW p \in Process, NextTrashed(p) PROVE FreshInv'
  BY <1>14 DEF NextTrashed, To, Starts
<1>15. ASSUME NEW p \in Process, CountByStoragePath(p) PROVE FreshInv'
  BY <1>15 DEF CountByStoragePath, To, Starts
<1>16. ASSUME NEW p \in Process, RemoveBlob(p) PROVE FreshInv'
  BY <1>16 DEF RemoveBlob, To, Starts
<1>17. CASE CleanupExpiredTrash
  BY <1>17 DEF CleanupExpiredTrash, To, Starts
<1>18. CASE Crash
  BY <1>18 DEF Crash, To, Starts
<1>19. ASSUME NEW f \in File, DeleteFile(f) PROVE FreshInv'
  BY <1>19 DEF DeleteFile
<1>20. ASSUME NEW f \in File, RestoreFile(f) PROVE FreshInv'
  BY <1>20 DEF RestoreFile
<1>21. CASE UNCHANGED blobVars
  BY <1>21 DEF blobVars
<1> QED BY <1>1, <1>2, <1>3, <1>4, <1>5, <1>6, <1>7, <1>8, <1>9, <1>10, <1>11,
       <1>12, <1>13, <1>14, <1>15, <1>16, <1>17, <1>18, <1>19, <1>20, <1>21
       DEF BlobNext, RequestStep, TrashStep

(* Every step keeps what is said of rows whose file is gone.                 *)
LEMMA LateStays ==
  TypeOK /\ KindInv /\ FreshInv /\ LateInv /\ [BlobNext]_blobVars => LateInv'
<1> SUFFICES ASSUME TypeOK, KindInv, FreshInv, LateInv, [BlobNext]_blobVars PROVE LateInv'
  OBVIOUS
<1> USE ConstantsAssumption DEF TypeOK, LateInv, DanglingExplained, References, PathOf, Row,
        File, Process, rowVars, diskVars
<1>1. ASSUME NEW r \in Request, CreateTextFile(r) PROVE LateInv'
  BY <1>1 DEF CreateTextFile, To, Starts, KindInv
<1>2. ASSUME NEW r \in Request, UndoCreate(r) PROVE LateInv'
  BY <1>2 DEF UndoCreate, To, KindInv, FreshInv, Unborn
<1>3. ASSUME NEW r \in Request, CheckUpload(r) PROVE LateInv'
  BY <1>3 DEF CheckUpload, To, Starts, KindInv
<1>4. ASSUME NEW r \in Request, SaveShare(r) PROVE LateInv'
  BY <1>4 DEF SaveShare, To, Starts
<1>5. ASSUME NEW r \in Request, CreateFile(r) PROVE LateInv'
  <2>1. r \in Process /\ pc[r] = "insert" /\ r \notin Row /\ kind' = kind /\ tgt' = tgt
    BY <1>5 DEF CreateFile, FreshInv, Unborn
  <2>2. UNCHANGED <<trashed, blob>> /\ pc'[r] # "remove"
        /\ \A p \in Process \ {r} : pc'[p] = pc[p]
    BY <1>5 DEF CreateFile, To
  <2>3. CASE UNCHANGED <<live, path, hash, late>>
    BY <2>1, <2>2, <2>3
  <2>4. ASSUME NEW q \in File,
               live' = live \cup {r}, path' = [path EXCEPT ![r] = q],
               late' = IF blob[q] = "none"
                          \/ \E p \in Process : pc[p] = "remove" /\ PathOf(p) = q
                       THEN late \cup {r} ELSE late
        PROVE  LateInv'
    <3>1. \A f \in Row' : f = r \/ (f \in Row /\ path'[f] = path[f])
      <4>1. Row' = Row \cup {r} /\ Row \subseteq File
        BY <2>2, <2>4
      <4>2. \A f \in File \ {r} : path'[f] = path[f]
        BY <2>4
      <4> QED BY <4>1, <4>2
    <3>2. late \subseteq late' /\ path'[r] = q
      BY <2>4
    <3>3. DanglingExplained'
      BY <2>2, <2>4, <3>1, <3>2
    <3>4. ASSUME NEW p \in Process, pc'[p] = "remove", NEW f \in References(PathOf(p))'
          PROVE  f \in late'
      <4>1. pc[p] = "remove" /\ p # r
        BY <2>2, <3>4
      <4>2. tgt[p] # r /\ tgt[p] \in File
        BY <2>1, <4>1 DEF FreshInv, Unborn, KindInv, Removing
      <4>3. PathOf(p)' = PathOf(p)
        BY <2>1, <2>4, <4>2
      <4>4. CASE f = r
        BY <2>4, <3>2, <3>4, <4>1, <4>3, <4>4
      <4>5. CASE f # r
        BY <3>1, <3>2, <3>4, <4>1, <4>3, <4>5
      <4> QED BY <4>4, <4>5
    <3> QED BY <3>3, <3>4
  <2>5. (IF kind[r] = "create" THEN r ELSE PathOf(r)) \in File
    BY DEF KindInv
  <2> QED BY <1>5, <2>3, <2>4, <2>5 DEF CreateFile
<1>6. ASSUME NEW r \in Request, UpdateFileContent(r) PROVE LateInv'
  BY <1>6 DEF UpdateFileContent, To, Starts
<1>7. ASSUME NEW r \in Request, Truncate(r) PROVE LateInv'
  BY <1>7 DEF Truncate, To, Starts
<1>8. ASSUME NEW r \in Request, Copy(r) PROVE LateInv'
  BY <1>8 DEF Copy, To, KindInv
<1>9. ASSUME NEW r \in Request, Rehash(r) PROVE LateInv'
  BY <1>9 DEF Rehash, To, Starts
<1>10. ASSUME NEW r \in Request, UpdateFileMeta(r) PROVE LateInv'
  BY <1>10 DEF UpdateFileMeta, To, Starts
<1>11. ASSUME NEW r \in Request, PermanentDelete(r) PROVE LateInv'
  BY <1>11 DEF PermanentDelete, To, Starts
<1>12. ASSUME NEW r \in Request, EmptyTrash(r) PROVE LateInv'
  BY <1>12 DEF EmptyTrash, To, Starts
<1>13. ASSUME NEW r \in Request, DeleteRow(r) PROVE LateInv'
  BY <1>13 DEF DeleteRow, To, Starts
<1>14. ASSUME NEW p \in Process, NextTrashed(p) PROVE LateInv'
  BY <1>14 DEF NextTrashed, To, Starts
<1>15. ASSUME NEW p \in Process, CountByStoragePath(p) PROVE LateInv'
  BY <1>15 DEF CountByStoragePath, To, Starts
<1>16. ASSUME NEW p \in Process, RemoveBlob(p) PROVE LateInv'
  BY <1>16 DEF RemoveBlob, To, KindInv, Removing
<1>17. CASE CleanupExpiredTrash
  BY <1>17 DEF CleanupExpiredTrash, To, Starts
<1>18. CASE Crash
  BY <1>18 DEF Crash, HashFile
<1>19. ASSUME NEW f \in File, DeleteFile(f) PROVE LateInv'
  BY <1>19 DEF DeleteFile
<1>20. ASSUME NEW f \in File, RestoreFile(f) PROVE LateInv'
  BY <1>20 DEF RestoreFile
<1>21. CASE UNCHANGED blobVars
  BY <1>21 DEF blobVars
<1> QED BY <1>1, <1>2, <1>3, <1>4, <1>5, <1>6, <1>7, <1>8, <1>9, <1>10, <1>11,
       <1>12, <1>13, <1>14, <1>15, <1>16, <1>17, <1>18, <1>19, <1>20, <1>21
       DEF BlobNext, RequestStep, TrashStep

(* Every step keeps every file cared for, or leaves it.                      *)
LEMMA CareStays ==
  TypeOK /\ KindInv /\ FreshInv /\ CareInv /\ [BlobNext]_blobVars => CareInv'
<1> SUFFICES ASSUME TypeOK, KindInv, FreshInv, CareInv, [BlobNext]_blobVars
             PROVE  CareInv'
  OBVIOUS
<1> USE ConstantsAssumption DEF TypeOK, CareInv, Cared, Due, Keep, Removing, References,
        PathOf, Row, File, Process, rowVars, diskVars
<1>1. ASSUME NEW r \in Request, CreateTextFile(r) PROVE CareInv'
  BY <1>1 DEF CreateTextFile, To, Starts, KindInv
<1>2. ASSUME NEW r \in Request, UndoCreate(r) PROVE CareInv'
  <2>1. /\ UNCHANGED <<rowVars, unlinked, kind, tgt, todo>> /\ pc[r] = "undo"
        /\ pc' = [pc EXCEPT ![r] = "done"] /\ kind[r] = "create"
    BY <1>2 DEF UndoCreate, To, KindInv, Handlers
  <2>2. /\ References(r) = {}
        /\ \A x \in Request \ {r} : pc[x] \notin {"idle", "insert", "undo"} => PathOf(x) # r
    BY <2>1 DEF FreshInv, Unborn, KindInv
  <2>3. \/ blob' = [blob EXCEPT ![r] = "none"] /\ kept' = kept
        \/ blob' = blob /\ kept' = kept \cup {r}
    BY <1>2, <2>2 DEF UndoCreate
  <2>4. \A q \in File \ {r} : Due(q) => Due(q)'
    BY <2>1
  <2>5. \A q \in File : blob'[q] # "none" => Cared(q)'
    BY <2>1, <2>3, <2>4
  <2>6. \A x \in Request : pc'[x] = "copy" /\ x \notin unlinked' => blob'[PathOf(x)'] # "none"
    BY <2>1, <2>2, <2>3 DEF KindInv
  <2> QED BY <2>1, <2>5, <2>6
<1>3. ASSUME NEW r \in Request, CheckUpload(r) PROVE CareInv'
  BY <1>3 DEF CheckUpload, To, Starts
<1>4. ASSUME NEW r \in Request, SaveShare(r) PROVE CareInv'
  BY <1>4 DEF SaveShare, To, Starts
<1>5. ASSUME NEW r \in Request, CreateFile(r) PROVE CareInv'
  BY SMTT(30), <1>5 DEF CreateFile, To, KindInv, FreshInv, Unborn
<1>6. ASSUME NEW r \in Request, UpdateFileContent(r) PROVE CareInv'
  BY <1>6 DEF UpdateFileContent, To, Starts
<1>7. ASSUME NEW r \in Request, Truncate(r) PROVE CareInv'
  <2>1. pc[r] = "truncate" /\ kind[r] = "edit" /\ tgt[r] \in File
    BY <1>7 DEF Truncate, KindInv, Handlers
  <2>2. /\ UNCHANGED <<rowVars, unlinked, kind, tgt, todo>> /\ pc'[r] \in {"copy", "done"}
        /\ \A p \in Process \ {r} : pc'[p] = pc[p]
    BY <1>7 DEF Truncate, To
  <2>3. \A q \in File : Due(q) => Due(q)'
    BY <2>1, <2>2
  <2>4. \A q \in File : q \in kept => q \in kept'
    BY <1>7 DEF Truncate
  <2>5. \/ UNCHANGED <<blob, kept>> /\ pc'[r] = "done"
        \/ blob' = [blob EXCEPT ![PathOf(r)] = r] /\ Keep(PathOf(r))
    BY <1>7 DEF Truncate, To
  <2>6. \A q \in File : blob'[q] # "none" => Cared(q)'
    BY <2>1, <2>2, <2>3, <2>4, <2>5
  <2>7. \A x \in Request : pc'[x] = "copy" /\ x \notin unlinked' => blob'[PathOf(x)'] # "none"
    BY <2>1, <2>2, <2>5 DEF KindInv
  <2> QED BY <2>1, <2>2, <2>6, <2>7
<1>8. ASSUME NEW r \in Request, Copy(r) PROVE CareInv'
  <2>1. pc[r] = "copy" /\ kind[r] = "edit" /\ tgt[r] \in File /\ data[r] \in Content
    BY <1>8 DEF Copy, KindInv, Handlers
  <2>2. /\ UNCHANGED <<rowVars, kind, tgt, todo, kept>> /\ pc'[r] \in {"hash", "done"}
        /\ \A p \in Process \ {r} : pc'[p] = pc[p]
        /\ unlinked' = unlinked \ {r}
    BY <1>8 DEF Copy, To
  <2>3. \A q \in File : Due(q) => Due(q)'
    BY <2>1, <2>2
  <2>4. \/ blob' = blob
        \/ /\ r \notin unlinked
           /\ \E c \in {data[r], "torn"} : blob' = [blob EXCEPT ![PathOf(r)] = c]
    BY <1>8 DEF Copy
  <2>5. \A q \in File : blob'[q] # "none" <=> blob[q] # "none"
    BY <2>1, <2>4
  <2>6. \A q \in File : blob'[q] # "none" => Cared(q)'
    BY <2>2, <2>3, <2>5
  <2>7. \A x \in Request : pc'[x] = "copy" /\ x \notin unlinked' => blob'[PathOf(x)'] # "none"
    BY <2>1, <2>2, <2>5 DEF KindInv
  <2> QED BY <2>1, <2>2, <2>6, <2>7
<1>9. ASSUME NEW r \in Request, Rehash(r) PROVE CareInv'
  BY <1>9 DEF Rehash, To, Starts
<1>10. ASSUME NEW r \in Request, UpdateFileMeta(r) PROVE CareInv'
  BY <1>10 DEF UpdateFileMeta, To, Starts
<1>11. ASSUME NEW r \in Request, PermanentDelete(r) PROVE CareInv'
  BY <1>11 DEF PermanentDelete, To, Starts
<1>12. ASSUME NEW r \in Request, EmptyTrash(r) PROVE CareInv'
  BY <1>12 DEF EmptyTrash, To, Starts
<1>13. ASSUME NEW r \in Request, DeleteRow(r) PROVE CareInv'
  BY <1>13 DEF DeleteRow, To, Starts
<1>14. ASSUME NEW p \in Process, NextTrashed(p) PROVE CareInv'
  BY <1>14 DEF NextTrashed, To, KindInv
<1>15. ASSUME NEW p \in Process, CountByStoragePath(p) PROVE CareInv'
  BY <1>15 DEF CountByStoragePath, To, Starts
<1>16. ASSUME NEW p \in Process, RemoveBlob(p) PROVE CareInv'
  BY <1>16 DEF RemoveBlob, To, KindInv
<1>17. CASE CleanupExpiredTrash
  BY <1>17 DEF CleanupExpiredTrash, To, Starts
<1>18. CASE Crash
  <2>1. /\ UNCHANGED <<rowVars, kind, tgt>> /\ todo' = [p \in Process |-> {}]
        /\ \A p \in Process : pc'[p] \in {"sweep", "idle", "done"}
        /\ kept' = kept \cup {q \in File : Due(q) /\ References(q) = {}}
    BY <1>18 DEF Crash
  <2>2. \A q \in File : blob'[q] # "none" => blob[q] # "none"
    BY <1>18 DEF Crash, HashFile
  <2>3. \A q \in File : Cared(q) => References(q)' # {} \/ q \in kept'
    BY <2>1
  <2>4. \A q \in File : blob'[q] # "none" => Cared(q)'
    BY <2>2, <2>3
  <2> QED BY <2>1, <2>4
<1>19. ASSUME NEW f \in File, DeleteFile(f) PROVE CareInv'
  BY <1>19 DEF DeleteFile
<1>20. ASSUME NEW f \in File, RestoreFile(f) PROVE CareInv'
  BY <1>20 DEF RestoreFile
<1>21. CASE UNCHANGED blobVars
  BY <1>21 DEF blobVars
<1> QED BY <1>1, <1>2, <1>3, <1>4, <1>5, <1>6, <1>7, <1>8, <1>9, <1>10, <1>11,
       <1>12, <1>13, <1>14, <1>15, <1>16, <1>17, <1>18, <1>19, <1>20, <1>21
       DEF BlobNext, RequestStep, TrashStep
-----------------------------------------------------------------------------
(* Everything that is needed at once.                                        *)
BlobInv == TypeOK /\ KindInv /\ FreshInv /\ LateInv /\ CareInv

LEMMA BlobInvariant == BlobSpec => []BlobInv
<1>1. BlobInit => BlobInv
  <2> SUFFICES ASSUME BlobInit PROVE BlobInv
    OBVIOUS
  <2> USE ConstantsAssumption DEF BlobInit, File, Process, Row
  <2>1. pc \in [Process -> PcState] /\ \A r \in Request : pc[r] = "idle"
    BY DEF PcState
  <2>2. pc[Startup] = "sweep"
    OBVIOUS
  <2>3. PICK c \in Content :
          /\ hash = [f \in File |-> c]
          /\ blob = [f \in File |-> IF f \in Seed /\ path[f] = f THEN c ELSE "none"]
    OBVIOUS
  <2>4. TypeOK
    <3>1. live \subseteq File /\ trashed \subseteq File /\ path \in [File -> File]
      OBVIOUS
    <3>2. /\ hash \in [File -> Content \cup {"none", "torn"}]
          /\ blob \in [File -> Content \cup Request \cup {"none", "torn"}]
      BY <2>3
    <3>3. kind \in [Request -> Handlers]
      BY DEF Handlers
    <3>4. /\ tgt \in [Process -> File \cup {Startup}]
          /\ data \in [Request -> Content \cup {"none", "torn"}]
          /\ todo \in [Process -> SUBSET File]
      OBVIOUS
    <3> QED BY <2>1, <3>1, <3>2, <3>3, <3>4 DEF TypeOK
  <2>5. KindInv
    BY <2>1, <2>2 DEF KindInv, Removing
  <2>6. FreshInv
    BY DEF FreshInv
  <2>7. \A f \in Row : blob[path[f]] # "none"
    BY <2>3
  <2>8. LateInv
    BY <2>1, <2>2, <2>7 DEF LateInv, DanglingExplained
  <2>9. \A q \in File : blob[q] # "none" => References(q) # {}
    BY <2>3 DEF References
  <2>10. CareInv
    BY <2>2, <2>9 DEF CareInv, Cared
  <2> QED BY <2>4, <2>5, <2>6, <2>8, <2>10 DEF BlobInv
<1>2. BlobInv /\ [BlobNext]_blobVars => BlobInv'
  BY TypeStays, KindStays, FreshStays, LateStays, CareStays DEF BlobInv
<1> QED BY <1>1, <1>2, PTL DEF BlobSpec

(* Every handler keeps the variables in their ranges and stays in its own    *)
(* code: no delete looks for the file of an id it has not read.              *)
THEOREM BlobTypeCorrect == BlobSpec => [](TypeOK /\ KindInv)
<1>1. BlobInv => TypeOK /\ KindInv
  BY DEF BlobInv
<1> QED BY <1>1, BlobInvariant, PTL

(* PermanentDelete, EmptyTrash and the cleaner remove a file after           *)
(* CountByStoragePath has found no row of it: a row whose file is gone was   *)
(* inserted by an instant upload or a saved share after that count, however  *)
(* many rows share the file and whatever crashes.                            *)
THEOREM DanglingRowsAreLate == BlobSpec => []DanglingExplained
<1>1. BlobInv => DanglingExplained
  BY DEF BlobInv, LateInv
<1> QED BY <1>1, BlobInvariant, PTL

(* When all handlers are through, a file on disk has a row that points to    *)
(* it, or a failed statement, a late edit or a crash has left it: otherwise  *)
(* the last permanent delete takes the file along.                           *)
THEOREM OrphansAreExplained == BlobSpec => []OrphanExplained
<1>1. ASSUME BlobInv, Quiet, NEW q \in File, blob[q] # "none"
      PROVE  References(q) # {} \/ q \in kept
  <2>1. CareInv /\ KindInv
    BY <1>1 DEF BlobInv
  <2>2. pc[Startup] = "done" /\ todo[Startup] = {}
    BY <1>1, <2>1 DEF Quiet, Process, KindInv, CareInv
  <2>3. \A p \in Process : pc[p] \in {"idle", "done"}
    BY <1>1 DEF Quiet
  <2>4. ~ Due(q)
    BY <2>2, <2>3 DEF Due, Process
  <2> QED BY <1>1, <2>1, <2>4 DEF CareInv, Cared
<1>2. BlobInv => OrphanExplained
  BY <1>1 DEF OrphanExplained
<1> QED BY <1>2, BlobInvariant, PTL

-----------------------------------------------------------------------------
(* The clients.                                                             *)

(* Sequences of rows and sessions, and what each session holds: pieces of    *)
(* versions that were sent to it, cut the way their sender cuts.            *)
Listed(x) == x \in Seq(Range(x))
SessionOK(x) ==
    /\ DOMAIN x = {"key", "part", "total", "status", "got", "seen"}
    /\ x.part \in Nat \ {0} /\ x.total \in Nat /\ x.status \in {"active", "completed"}
    /\ x.seen \subseteq Version \X (Nat \ {0})
    /\ DOMAIN x.got \subseteq Nat
    /\ \A i \in DOMAIN x.got : \E y \in x.seen : x.got[i] = Piece(y[1], y[2], i)
ServerInv == Listed(rows) /\ Listed(sess) /\ \A s \in DOMAIN sess : SessionOK(sess[s])

Reply == {"none", "ok", "error", "conflict", "crash"}
Place == {"off", "idle", "list", "stat", "hash", "check", "clash", "init", "refused",
          "status", "chunks", "complete", "done"}
Hashed == {"check", "clash", "init", "refused", "status", "chunks", "complete"}
DesktopTypes ==
    /\ disk \in Version
    /\ dpc \in [Desktop -> Place] /\ reply \in [Desktop -> Reply]
    /\ scan \in [Desktop -> BOOLEAN]
    /\ was \in [Desktop -> Version \cup {<<>>}]
    /\ full \in [Desktop -> Version \cup {<<>>}]
    /\ dsess \in [Desktop -> Nat] /\ left \in [Desktop -> SUBSET Nat]
    /\ errs \in [Desktop -> SUBSET {"read", "send"}] /\ stale \subseteq Desktop

(* A call sends to a session it has fed, or opened, with what it hashed; and *)
(* while nobody edits the file, that is what it looked at, and what is on   *)
(* the disk.                                                                *)
Feeds(s, who) == s \in DOMAIN sess /\ who \in sess[s].seen
Mixed(s) == s \in DOMAIN sess /\ sess[s].status = "completed" /\ ~Pure(s)
CallOK(d) ==
    /\ dpc[d] = "list" => scan[d]
    /\ dpc[d] \in {"list", "hash"} => d \in stale \/ was[d] = disk
    /\ dpc[d] \in Hashed => full[d] \in Version /\ (d \in stale \/ full[d] = was[d])
    /\ dpc[d] \in {"status", "chunks", "complete"} =>
          Feeds(dsess[d], <<full[d], DesktopPart>>)
    /\ reply[d] = "ok" =>
          /\ dpc[d] = "done"
          /\ \/ d \in stale \/ Stored(was[d]) \/ Mixed(dsess[d])
             \/ scan[d] /\ rows # <<>> /\ Len(rows[1].content) = Len(was[d])
DesktopInv == DesktopTypes /\ \A d \in Desktop : CallOK(d)

Shown == {"none", "pending", "uploading", "paused", "cancelled", "error", "done"}
Index == Nat \cup {NoIndex}
RunPlace == {"off", "check", "init", "ask", "resume", "chunks", "complete"}
BrowserTypes ==
    /\ file \in [Browser -> Version] /\ part \in [Browser -> BrowserParts]
    /\ status \in [Browser -> Shown]
    /\ paused \in [Browser -> BOOLEAN] /\ cancelled \in [Browser -> BOOLEAN]
    /\ insists \in [Browser -> BOOLEAN]
    /\ bsess \in [Browser -> Nat] /\ total \in [Browser -> Nat]
    /\ received \in [Browser -> SUBSET Nat] /\ starts \in [Browser -> Nat]
    /\ bpc \in [Runs -> RunPlace]
    /\ missing \in [Runs -> SUBSET Index] /\ failed \in [Runs -> SUBSET Index]
    /\ via \in [Browser -> Nat] /\ tries \in [Runs -> Nat]
    /\ doubled \subseteq Browser /\ skipped \subseteq Browser

(* A task that has not started has no run and shows nothing of one; two runs *)
(* of a task, or a run of a task that is done, were noted.                  *)
TaskOK(b) ==
    /\ bsess[b] # 0 => Feeds(bsess[b], <<file[b], part[b]>>)
    /\ starts[b] = 0 =>
          /\ ~paused[b] /\ RunsOf(b) = {}
          /\ status[b] \in {"none", "pending", "cancelled"}
    /\ b \notin doubled =>
          /\ \A r, q \in RunsOf(b) : r = q
          /\ status[b] = "done" => RunsOf(b) = {}
BrowserInv == BrowserTypes /\ \A b \in Browser : TaskOK(b)

(* A set of natural numbers has a least element, and a greatest if it is     *)
(* bounded: < is well founded on Nat.                                       *)
LEMMA NatOrdered ==
    \E R : /\ IsWellFoundedOn(R, Nat)
           /\ \A a, b \in Nat : <<a, b>> \in R <=> a < b
<1> DEFINE R == OpToRel(<, Nat)
<1>1. IsWellFoundedOn(R, Nat)
  BY NatLessThanWellFounded
<1>2. \A a, b \in Nat : <<a, b>> \in R <=> a < b
  BY DEF OpToRel
<1> QED
  BY <1>1, <1>2, Zenon

(* Hence the least element,                                                 *)
LEMMA LeastNatural ==
    ASSUME NEW S \in SUBSET Nat, S # {}
    PROVE  \E m \in S : \A n \in S : m <= n
<1>1. PICK R : /\ IsWellFoundedOn(R, Nat)
               /\ \A a, b \in Nat : <<a, b>> \in R <=> a < b
  BY NatOrdered
<1>2. S \subseteq Nat /\ IsWellFoundedOn(R, Nat)
  BY <1>1
<1>3. \E m \in S : \A n \in S : ~(<<n, m>> \in R)
  BY <1>2, WFMin
<1>4. PICK m \in S : \A n \in S : ~(<<n, m>> \in R)
  BY <1>3
<1>5. \A n \in S : ~(n < m)
  BY <1>1, <1>4
<1> QED
  BY <1>5

(* and the greatest, which is what Max chooses.                             *)
LEMMA GreatestNatural ==
    ASSUME NEW S \in SUBSET Nat, S # {}, NEW b \in Nat, \A n \in S : n <= b
    PROVE  Max(S) \in S /\ \A n \in S : n <= Max(S)
<1> DEFINE T == {b - n : n \in S}
<1>1. T \in SUBSET Nat /\ T # {}
  <2>1. \A n \in S : b - n \in Nat
    OBVIOUS
  <2> QED
    BY <2>1
<1>2. PICK t \in T : \A u \in T : t <= u
  BY <1>1, LeastNatural
<1>3. PICK m \in S : t = b - m
  BY <1>2
<1>4. \A n \in S : m >= n
  <2> TAKE n \in S
  <2>1. b - n \in T
    OBVIOUS
  <2>2. b - m <= b - n
    BY <1>2, <1>3, <2>1
  <2> QED
    BY <2>2
<1> QED
  BY <1>4 DEF Max

(* The number of chunks of a file.                                           *)
LEMMA ChunkCount ==
    ASSUME NEW size \in Nat, NEW n \in Nat \ {0}
    PROVE  /\ TotalChunks(size, n) \in Nat
           /\ size <= TotalChunks(size, n) * n
           /\ \A k \in Nat : k < TotalChunks(size, n) => k * n < size
<1> DEFINE N == (size + n - 1) \div n
<1>1. N \in Int /\ N * n <= size + n - 1 /\ size + n - 1 < (N + 1) * n
  OBVIOUS
<1> HIDE DEF N
<1>2. size <= N * n
  BY <1>1
<1>3. N \in Nat
  BY <1>1, <1>2
<1>4. ASSUME NEW k \in Nat, k < N
      PROVE  k * n < size
  <2>1. (k + 1) * n <= N * n
    BY <1>3, <1>4
  <2> QED
    BY <2>1, <1>1
<1> QED
  BY <1>2, <1>3, <1>4 DEF TotalChunks, N

(* Min of the end of a piece and the end of the file.                       *)
LEMMA MinOfTwo ==
    ASSUME NEW a \in Nat, NEW b \in Nat
    PROVE  Min({a, b}) = IF a <= b THEN a ELSE b
<1> QED
  BY DEF Min

(* A piece of a version is a sequence of its blocks.                        *)
LEMMA PieceType ==
    ASSUME NEW v \in Seq(Nat), NEW n \in Nat \ {0}, NEW i \in Nat
    PROVE  Piece(v, n, i) \in Seq(Nat)
<1> DEFINE lo == i * n + 1
           up == (i + 1) * n
           hi == Min({up, Len(v)})
<1>1. Len(v) \in Nat /\ lo \in Nat \ {0} /\ up \in Nat
  BY LenProperties
<1> HIDE DEF lo, up
<1>2. hi \in Nat /\ hi <= Len(v)
  BY <1>1, MinOfTwo
<1> HIDE DEF hi
<1>3. \A j \in lo .. hi : j \in 1 .. Len(v)
  BY <1>1, <1>2
<1>4. \A j \in lo .. hi : v[j] \in Nat
  BY <1>3, ElementOfSeq
<1>5. SubSeq(v, lo, hi) \in Seq(Nat)
  BY <1>1, <1>2, <1>4, SubSeqProperties
<1> QED
  BY <1>5 DEF Piece, lo, up, hi

(* The pieces of a file, put together in their order, are the file.  What    *)
(* FlattenSeq computes is a function defined by recursion on the index: the *)
(* beginnings of the file satisfy its equation, and only they.              *)
LEMMA PiecesMakeWhole ==
    ASSUME NEW v \in Seq(Nat), NEW n \in Nat \ {0}, NEW got,
           \A i \in 0 .. TotalChunks(Len(v), n) - 1 : got[i] = Piece(v, n, i)
    PROVE  FlattenSeq([i \in 1 .. TotalChunks(Len(v), n) |-> got[i - 1]]) = v
<1> DEFINE N == TotalChunks(Len(v), n)
           seqs == [i \in 1 .. N |-> got[i - 1]]
           E(i) == IF i * n <= Len(v) THEN i * n ELSE Len(v)
           g == [i \in 1 .. N |-> SubSeq(v, 1, E(i))]
           Is(f) == f = [i \in 1 .. N |->
                            IF i = 1 THEN seqs[i] ELSE f[i - 1] \o seqs[i]]
<1>1. Len(v) \in Nat /\ N \in Nat /\ Len(v) <= N * n
      /\ \A k \in Nat : k < N => k * n < Len(v)
  BY LenProperties, ChunkCount
<1>2. \A i \in 1 .. N : seqs[i] = SubSeq(v, (i - 1) * n + 1, E(i))
  <2> TAKE i \in 1 .. N
  <2>1. N \in Nat
    BY <1>1
  <2>2. i - 1 \in 0 .. N - 1 /\ i - 1 \in Nat /\ (i - 1) + 1 = i
    BY <2>1
  <2>3. seqs[i] = Piece(v, n, i - 1)
    BY <2>2
  <2>4. i * n \in Nat
    BY <2>1
  <2>5. Min({i * n, Len(v)}) = E(i)
    BY <2>4, <1>1, MinOfTwo
  <2> QED
    BY <2>2, <2>3, <2>5 DEF Piece
<1> HIDE DEF N, seqs
<1>3. CASE N = 0
  <2>1. Len(v) = 0
    BY <1>1, <1>3
  <2>2. v = <<>>
    BY <2>1, EmptySeq
  <2>3. seqs = <<>>
    BY <1>3 DEF seqs, N
  <2>4. FlattenSeq(seqs) = seqs
    BY <2>3 DEF FlattenSeq
  <2> QED
    BY <2>2, <2>3, <2>4 DEF seqs, N
<1>4. CASE N > 0
  <2>1. \A i \in 2 .. N :
            g[i - 1] \o seqs[i] = g[i]
    <3> TAKE i \in 2 .. N
    <3> DEFINE k == (i - 1) * n
    <3>1. i - 1 \in Nat /\ i - 1 < N /\ i - 1 \in 1 .. N /\ i \in 1 .. N
      BY <1>1
    <3>2. k \in Nat /\ k < Len(v)
      <4>1. (i - 1) * n < Len(v)
        BY <3>1, <1>1, Zenon
      <4>2. (i - 1) * n \in Nat
        BY <3>1
      <4> QED
        BY <4>1, <4>2
    <3>3. k <= i * n /\ i * n \in Nat
      BY <3>1
    <3>4. E(i - 1) = k /\ E(i) \in k .. Len(v) /\ k \in 1 - 1 .. Len(v)
          /\ 1 \in 1 .. Len(v) + 1
      BY <3>2, <3>3, <1>1
    <3>5. SubSeq(v, 1, k) \o SubSeq(v, k + 1, E(i)) = SubSeq(v, 1, E(i))
      <4> HIDE DEF k, E
      <4> QED
        BY <3>4, ConcatAdjacentSubSeq
    <3>6. g[i - 1] = SubSeq(v, 1, k) /\ g[i] = SubSeq(v, 1, E(i))
      BY <3>1, <3>4
    <3> QED
      BY <3>1, <3>5, <3>6, <1>2
  <2>2. g[1] = seqs[1]
    <3>1. 1 \in 1 .. N /\ (1 - 1) * n + 1 = 1
      BY <1>1, <1>4
    <3>2. seqs[1] = SubSeq(v, (1 - 1) * n + 1, E(1))
      BY <3>1, <1>2
    <3> HIDE DEF E
    <3> QED
      BY <3>1, <3>2
  <2>3. Is(g)
    <3>1. \A i \in 1 .. N : g[i] = IF i = 1 THEN seqs[i] ELSE g[i - 1] \o seqs[i]
      <4> HIDE DEF g, E
      <4>1. \A i \in 1 .. N : i = 1 \/ i \in 2 .. N
        BY <1>1
      <4> QED
        BY <2>1, <2>2, <4>1
    <3> HIDE DEF E
    <3> QED
      BY <3>1
  <2> HIDE DEF g, E
  <2>4. ASSUME NEW f, Is(f)
        PROVE  f[N] = g[N]
    <3> DEFINE Bad == {i \in 1 .. N : f[i] # g[i]}
    <3>1. CASE Bad = {}
      BY <3>1, <1>1, <1>4
    <3>2. CASE Bad # {}
      <4>1. Bad \in SUBSET Nat
        BY <1>1
      <4>2. PICK i \in Bad : \A j \in Bad : i <= j
        <5> HIDE DEF Bad
        <5> QED
          BY <4>1, <3>2, LeastNatural
      <4>3. i \in 1 .. N /\ f[i] # g[i]
        BY <4>2
      <4>4. CASE i = 1
        BY <4>3, <4>4, <2>3, <2>4, <1>1
      <4>5. CASE i # 1
        <5>1. i - 1 \in 1 .. N /\ i - 1 < i
          BY <4>3, <4>5, <1>1
        <5>2. f[i - 1] = g[i - 1]
          BY <5>1, <4>2, <1>1
        <5>3. f[i] = f[i - 1] \o seqs[i]
          BY <4>3, <4>5, <2>4
        <5>4. g[i] = g[i - 1] \o seqs[i]
          BY <4>3, <4>5, <2>3
        <5> QED
          BY <5>2, <5>3, <5>4, <4>3
      <4> QED
        BY <4>4, <4>5
    <3> QED
      BY <3>1, <3>2
  <2>5. Is(CHOOSE f : Is(f))
    <3> HIDE DEF Is
    <3> QED
      BY <2>3
  <2>6. Len(seqs) = N
    BY <1>1 DEF seqs, N
  <2>7. FlattenSeq(seqs) = (CHOOSE f : Is(f))[N]
    BY <2>6, <1>4, <1>1 DEF FlattenSeq
  <2>8. FlattenSeq(seqs) = g[N]
    BY <2>4, <2>5, <2>7
  <2>9. E(N) = Len(v)
    BY <1>1 DEF E
  <2>10. g[N] = SubSeq(v, 1, Len(v))
    BY <2>9, <1>1, <1>4 DEF g
  <2> QED
    BY <2>8, <2>10, SubSeqFull DEF seqs, N
<1> QED
  BY <1>1, <1>3, <1>4
-----------------------------------------------------------------------------
(* Lists of rows and of sessions that grow or change in one place.           *)
LEMMA ListedAppend ==
    ASSUME NEW x, Listed(x), NEW e
    PROVE  /\ Listed(Append(x, e)) /\ DOMAIN x = 1 .. Len(x) /\ Len(x) \in Nat
           /\ DOMAIN Append(x, e) = 1 .. Len(x) + 1
           /\ \A i \in DOMAIN x : Append(x, e)[i] = x[i]
           /\ Append(x, e)[Len(x) + 1] = e
<1> DEFINE S == Range(x) \cup {e}
<1>1. x \in Seq(S)
  BY SeqMonotonic DEF Listed
<1>2. DOMAIN x = 1 .. Len(x) /\ Len(x) \in Nat
  BY <1>1, LenProperties
<1>3. e \in S
  OBVIOUS
<1> HIDE DEF S
<1>4. /\ Append(x, e) \in Seq(S) /\ Len(Append(x, e)) = Len(x) + 1
      /\ \A i \in 1 .. Len(x) : Append(x, e)[i] = x[i]
      /\ Append(x, e)[Len(x) + 1] = e
  BY <1>1, <1>3, AppendProperties
<1>5. Append(x, e) \in Seq(Range(Append(x, e)))
  BY <1>4, SeqOfRange
<1>6. DOMAIN Append(x, e) = 1 .. Len(x) + 1
  BY <1>4, LenProperties
<1> QED
  BY <1>2, <1>4, <1>5, <1>6 DEF Listed

(* Sequences with an entry replaced.                                        *)
LEMMA ListedExcept ==
    ASSUME NEW x, Listed(x), NEW s \in DOMAIN x, NEW e
    PROVE  /\ Listed([x EXCEPT ![s] = e])
           /\ DOMAIN [x EXCEPT ![s] = e] = DOMAIN x
           /\ \A i \in DOMAIN x : [x EXCEPT ![s] = e][i] = IF i = s THEN e ELSE x[i]
<1> DEFINE S == Range(x) \cup {e}
<1>1. x \in Seq(S)
  BY SeqMonotonic DEF Listed
<1>2. DOMAIN x = 1 .. Len(x) /\ s \in 1 .. Len(x)
  BY <1>1, LenProperties
<1>3. e \in S
  OBVIOUS
<1> HIDE DEF S
<1>4. [x EXCEPT ![s] = e] \in Seq(S)
  BY <1>1, <1>2, <1>3, ExceptSeq
<1>5. [x EXCEPT ![s] = e] \in Seq(Range([x EXCEPT ![s] = e]))
  BY <1>4, SeqOfRange
<1> QED
  BY <1>5 DEF Listed

-----------------------------------------------------------------------------
(* The server: its rows stay, its sessions remember who fed them, and a      *)
(* completed session is left alone.                                         *)
Has(c) == \E i \in DOMAIN rows' : rows'[i].content = c
Grows ==
    /\ \A i \in DOMAIN rows : i \in DOMAIN rows' /\ rows'[i] = rows[i]
    /\ \A s \in DOMAIN sess :
          /\ s \in DOMAIN sess' /\ sess[s].seen \subseteq sess'[s].seen
          /\ sess[s].status = "completed" => sess'[s] = sess[s]

(* What the server has it keeps.                                            *)
LEMMA GrowsKeeps ==
    ASSUME Grows
    PROVE  /\ \A c : Stored(c) => Has(c)
           /\ \A s, who : Feeds(s, who) => Feeds(s, who)'
           /\ \A s : Mixed(s) => Mixed(s)'
<1>1. \A c : Stored(c) => Has(c)
  BY DEF Grows, Stored, Has
<1>2. \A s, who : Feeds(s, who) => Feeds(s, who)'
  BY DEF Grows, Feeds
<1>3. ASSUME NEW s, Mixed(s)
      PROVE  Mixed(s)'
  <2>1. s \in DOMAIN sess' /\ sess'[s] = sess[s]
    BY <1>3 DEF Mixed, Grows
  <2> QED
    BY <1>3, <2>1 DEF Mixed, Pure
<1> QED
  BY <1>1, <1>2, <1>3

(* A row appended is found, and the others with it.                         *)
LEMMA RowAdded ==
    ASSUME ServerInv, NEW c, NEW t, rows' = Append(rows, [content |-> c, by |-> t])
    PROVE  /\ Listed(rows)' /\ Has(c)
           /\ \A i \in DOMAIN rows : i \in DOMAIN rows' /\ rows'[i] = rows[i]
<1> DEFINE e == [content |-> c, by |-> t]
<1>1. /\ Listed(rows') /\ DOMAIN rows = 1 .. Len(rows) /\ Len(rows) \in Nat
      /\ DOMAIN rows' = 1 .. Len(rows) + 1
      /\ \A i \in DOMAIN rows : rows'[i] = rows[i]
      /\ rows'[Len(rows) + 1] = e
  <2> HIDE DEF e
  <2>1. Listed(rows) /\ rows' = Append(rows, e)
    BY DEF ServerInv, e
  <2> QED
    BY <2>1, ListedAppend
<1>2. Has(c)
  BY <1>1 DEF Has
<1> QED
  BY <1>1, <1>2 DEF Listed

(* An instant upload adds a row with the content asked for.                 *)
LEMMA SharedRow ==
    ASSUME ServerInv, NEW c, NEW t, Share(c, t), UNCHANGED sess
    PROVE  ServerInv' /\ Grows /\ Has(c)
<1>1. rows' = Append(rows, [content |-> c, by |-> t])
  BY DEF Share
<1>2. /\ Listed(rows)' /\ Has(c)
      /\ \A i \in DOMAIN rows : i \in DOMAIN rows' /\ rows'[i] = rows[i]
  BY <1>1, RowAdded
<1> QED
  BY <1>2 DEF ServerInv, Grows, Listed

(* A session that is opened or resumed has the client among those it knows.  *)
LEMMA SessionOpened ==
    ASSUME ServerInv, NEW key, NEW size \in Nat, NEW n \in Nat \ {0},
           NEW who \in Version \X (Nat \ {0}),
           InitUpload(key, size, n, who), UNCHANGED rows
    PROVE  /\ ServerInv' /\ Grows /\ Target(key) \in Nat \ {0}
           /\ Target(key) \in DOMAIN sess' /\ who \in sess'[Target(key)].seen
<1> DEFINE fresh == [key |-> key, part |-> n, total |-> TotalChunks(size, n),
                     status |-> "active", got |-> <<>>, seen |-> {who}]
<1>1. Listed(sess) /\ DOMAIN sess = 1 .. Len(sess) /\ Len(sess) \in Nat
  BY ListedAppend DEF ServerInv
<1>2. CASE Resumable(key) = {}
  <2>1. sess' = Append(sess, fresh) /\ Target(key) = Len(sess) + 1
    BY <1>2 DEF InitUpload, Target
  <2>2. TotalChunks(size, n) \in Nat
    BY ChunkCount
  <2>3. SessionOK(fresh) /\ fresh.seen = {who}
    BY <2>2 DEF SessionOK
  <2> HIDE DEF fresh
  <2>4. /\ Listed(sess') /\ DOMAIN sess' = 1 .. Len(sess) + 1
        /\ \A i \in DOMAIN sess : sess'[i] = sess[i]
        /\ sess'[Len(sess) + 1] = fresh
    BY <1>1, <2>1, ListedAppend
  <2>5. \A s \in DOMAIN sess' : SessionOK(sess'[s])
    BY <1>1, <2>3, <2>4 DEF ServerInv
  <2> QED
    BY <1>1, <2>1, <2>3, <2>4, <2>5 DEF ServerInv, Grows, Listed
<1>3. CASE Resumable(key) # {}
  <2> DEFINE s == Target(key)
             e == [sess[s] EXCEPT !.seen = @ \cup {who}]
  <2>1. s \in Resumable(key)
    <3>1. Resumable(key) \in SUBSET Nat /\ \A m \in Resumable(key) : m <= Len(sess)
      BY <1>1 DEF Resumable
    <3> QED
      BY <3>1, <1>1, <1>3, GreatestNatural DEF Target
  <2>2. s \in DOMAIN sess /\ sess[s].status = "active"
    BY <2>1 DEF Resumable
  <2>3. SessionOK(sess[s])
    BY <2>2 DEF ServerInv
  <2>4. /\ DOMAIN e = DOMAIN sess[s] /\ e.seen = sess[s].seen \cup {who}
        /\ e.part = sess[s].part /\ e.total = sess[s].total /\ e.status = sess[s].status
        /\ e.got = sess[s].got
    BY <2>3 DEF SessionOK
  <2>5. SessionOK(e)
    BY <2>3, <2>4 DEF SessionOK
  <2>6. sess' = [sess EXCEPT ![s] = e]
    BY <1>3 DEF InitUpload
  <2> HIDE DEF s, e
  <2>7. /\ Listed(sess') /\ DOMAIN sess' = DOMAIN sess
        /\ \A i \in DOMAIN sess : sess'[i] = IF i = s THEN e ELSE sess[i]
    BY <1>1, <2>2, <2>6, ListedExcept
  <2>8. Grows
    BY <2>2, <2>4, <2>7 DEF Grows
  <2>9. ServerInv'
    BY <2>5, <2>7 DEF ServerInv, Listed
  <2>10. s \in Nat \ {0} /\ s \in DOMAIN sess' /\ who \in sess'[s].seen
    BY <1>1, <2>2, <2>4, <2>7
  <2> QED
    BY <2>8, <2>9, <2>10 DEF s
<1> QED
  BY <1>2, <1>3

(* A chunk that is taken is a piece of its sender's version.                 *)
LEMMA ChunkTaken ==
    ASSUME ServerInv, NEW s \in DOMAIN sess, Accepts(s), NEW i \in Nat,
           NEW v \in Version, NEW n \in Nat \ {0},
           UploadChunk(s, i, Piece(v, n, i), <<v, n>>), UNCHANGED rows
    PROVE  ServerInv' /\ Grows
<1> DEFINE e == [sess[s] EXCEPT !.got = With(@, i, Piece(v, n, i)),
                                !.seen = @ \cup {<<v, n>>}]
<1>1. SessionOK(sess[s]) /\ Listed(sess) /\ sess[s].status = "active"
  BY DEF ServerInv, Accepts
<1>2. CASE UNCHANGED sess
  BY <1>2 DEF ServerInv, Listed, Grows
<1>3. CASE sess' = [sess EXCEPT ![s] = e]
  <2>1. /\ DOMAIN e = DOMAIN sess[s] /\ e.seen = sess[s].seen \cup {<<v, n>>}
        /\ e.part = sess[s].part /\ e.total = sess[s].total /\ e.status = sess[s].status
        /\ e.got = With(sess[s].got, i, Piece(v, n, i))
    BY <1>1 DEF SessionOK
  <2>2. /\ DOMAIN e.got = DOMAIN sess[s].got \cup {i}
        /\ \A j \in DOMAIN e.got : e.got[j] = IF j = i THEN Piece(v, n, i) ELSE sess[s].got[j]
    BY <2>1 DEF With
  <2> HIDE DEF e
  <2>3. \A j \in DOMAIN e.got : \E y \in e.seen : e.got[j] = Piece(y[1], y[2], j)
    <3> TAKE j \in DOMAIN e.got
    <3>1. CASE j = i
      <4>1. e.got[j] = Piece(<<v, n>>[1], <<v, n>>[2], j)
        BY <2>2, <3>1
      <4> QED
        BY <2>1, <4>1
    <3>2. CASE j # i
      BY <1>1, <2>1, <2>2, <3>2 DEF SessionOK
    <3> QED
      BY <3>1, <3>2
  <2>4. SessionOK(e)
    BY <1>1, <2>1, <2>2, <2>3 DEF SessionOK
  <2>5. /\ Listed(sess') /\ DOMAIN sess' = DOMAIN sess
        /\ \A j \in DOMAIN sess : sess'[j] = IF j = s THEN e ELSE sess[j]
    BY <1>1, <1>3, ListedExcept
  <2>6. Grows
    BY <1>1, <2>1, <2>5 DEF Grows
  <2>7. ServerInv'
    BY <2>4, <2>5 DEF ServerInv, Listed
  <2> QED
    BY <2>6, <2>7
<1> QED
  BY <1>2, <1>3 DEF UploadChunk

(* A completed session that only one version has fed holds that version.     *)
LEMMA SessionCompleted ==
    ASSUME ServerInv, NEW s \in DOMAIN sess, Complete(s), NEW t, CompleteUpload(s, t)
    PROVE  /\ ServerInv' /\ Grows
           /\ \A v, n : Feeds(s, <<v, n>>) =>
                  Has(v) \/ (Mixed(s)' /\ <<v, n>> \in sess'[s].seen)
<1> DEFINE e == [sess[s] EXCEPT !.status = "completed"]
<1>1. SessionOK(sess[s]) /\ Listed(sess) /\ sess[s].status = "active"
  BY DEF ServerInv, Complete
<1>2. /\ DOMAIN e = DOMAIN sess[s] /\ e.seen = sess[s].seen /\ e.part = sess[s].part
      /\ e.total = sess[s].total /\ e.status = "completed" /\ e.got = sess[s].got
  BY <1>1 DEF SessionOK
<1>3. sess' = [sess EXCEPT ![s] = e]
  BY DEF CompleteUpload
<1> HIDE DEF e
<1>4. /\ Listed(sess') /\ DOMAIN sess' = DOMAIN sess
      /\ \A j \in DOMAIN sess : sess'[j] = IF j = s THEN e ELSE sess[j]
  BY <1>1, <1>3, ListedExcept
<1>5. SessionOK(e)
  BY <1>1, <1>2 DEF SessionOK
<1>6. /\ Listed(rows)' /\ Has(Assembled(s))
      /\ \A i \in DOMAIN rows : i \in DOMAIN rows' /\ rows'[i] = rows[i]
  BY RowAdded DEF CompleteUpload
<1>7. ASSUME NEW v, NEW n, Feeds(s, <<v, n>>), ~Mixed(s)'
      PROVE  Has(v)
  <2>1. PICK w \in Version :
            /\ e.seen = {<<w, e.part>>} /\ e.total = TotalChunks(Len(w), e.part)
    BY <1>2, <1>4, <1>7 DEF Mixed, Pure
  <2>2. v = w /\ n = e.part
    BY <1>2, <1>7, <2>1 DEF Feeds
  <2>3. v \in Seq(Nat) /\ n \in Nat \ {0} /\ sess[s].total = TotalChunks(Len(v), n)
        /\ sess[s].seen = {<<v, n>>}
    BY <1>1, <1>2, <2>1, <2>2, TransferAssumption DEF SessionOK
  <2>4. DOMAIN sess[s].got = 0 .. TotalChunks(Len(v), n) - 1
    BY <2>3 DEF Complete, Received, All
  <2>5. \A i \in 0 .. TotalChunks(Len(v), n) - 1 : sess[s].got[i] = Piece(v, n, i)
    BY <1>1, <2>3, <2>4 DEF SessionOK
  <2>6. FlattenSeq([i \in 1 .. TotalChunks(Len(v), n) |-> sess[s].got[i - 1]]) = v
    BY <2>3, <2>5, PiecesMakeWhole
  <2>7. Assembled(s) = v
    BY <2>3, <2>6 DEF Assembled
  <2> QED
    BY <1>6, <2>7
<1>8. Grows
  BY <1>1, <1>2, <1>4, <1>6 DEF Grows
<1>9. ServerInv'
  BY <1>4, <1>5, <1>6 DEF ServerInv, Listed
<1> QED
  BY <1>2, <1>4, <1>7, <1>8, <1>9 DEF Feeds

-----------------------------------------------------------------------------
(* The desktop client.                                                       *)
LEMMA ServerStays ==
    ASSUME ServerInv, UNCHANGED <<rows, sess>>
    PROVE  ServerInv' /\ Grows
<1> QED
  BY DEF ServerInv, Listed, Grows

(* Every step of a call keeps the server's invariant.                       *)
LEMMA DesktopServer ==
    ASSUME ServerInv, DesktopInv, NEW d \in Desktop, ScanDir(d) \/ DesktopStep(d)
    PROVE  ServerInv' /\ Grows
<1> USE DesktopAssumption DEF DAt
<1>1. CallOK(d) /\ DesktopTypes
  BY DEF DesktopInv
<1>2. CASE UNCHANGED <<rows, sess>>
  BY <1>2, ServerStays
<1>3. CASE TryInstant(d)
  <2>1. (\E c : Share(c, d)) \/ UNCHANGED rows
    BY <1>3 DEF TryInstant
  <2>2. UNCHANGED sess
    BY <1>3 DEF TryInstant
  <2> QED
    BY <2>1, <2>2, SharedRow, ServerStays
<1>4. CASE OpenSession(d)
  <2>1. full[d] \in Version /\ Len(was[d]) \in Nat
    <3>1. was[d] \in Seq(Nat)
      <4>1. was[d] \in Version \/ was[d] = <<>>
        BY <1>1 DEF DesktopTypes
      <4> QED
        BY <4>1, TransferAssumption, EmptySeq
    <3> QED
      BY <3>1, <1>1, <1>4, LenProperties DEF CallOK, Hashed, OpenSession
  <2>2. rows' = rows /\ (sess' = sess \/ InitUpload(<<"full", full[d]>>, Len(was[d]),
                                                  DesktopPart, <<full[d], DesktopPart>>))
    BY <1>4 DEF OpenSession
  <2>3. <<full[d], DesktopPart>> \in Version \X (Nat \ {0})
    BY <2>1
  <2>4. CASE sess' = sess
    BY <2>2, <2>4, <1>2
  <2>5. CASE InitUpload(<<"full", full[d]>>, Len(was[d]), DesktopPart, <<full[d], DesktopPart>>)
    BY <2>1, <2>2, <2>3, <2>5, SessionOpened
  <2> QED
    BY <2>2, <2>4, <2>5
<1>5. CASE SendChunk(d)
  <2>1. PICK i \in left[d] :
            \/ UNCHANGED sess
            \/ Accepts(dsess[d]) /\ UploadChunk(dsess[d], i, Piece(disk, DesktopPart, i),
                                                <<disk, DesktopPart>>)
    BY <1>5 DEF SendChunk
  <2>2. i \in Nat /\ disk \in Version /\ dsess[d] \in DOMAIN sess /\ UNCHANGED rows
    BY <1>1, <1>5 DEF DesktopTypes, CallOK, SendChunk, Feeds
  <2> QED
    BY <2>1, <2>2, ChunkTaken, ServerStays
<1>6. CASE Finish(d)
  <2>1. dsess[d] \in DOMAIN sess
    BY <1>1, <1>6 DEF CallOK, Finish, Feeds
  <2>2. \/ UNCHANGED <<rows, sess>>
        \/ Complete(dsess[d]) /\ CompleteUpload(dsess[d], d)
    BY <1>6 DEF Finish
  <2> QED
    BY <2>1, <2>2, SessionCompleted, ServerStays
<1>7. CASE ~TryInstant(d) /\ ~OpenSession(d) /\ ~SendChunk(d) /\ ~Finish(d)
  <2>1. UNCHANGED <<rows, sess>>
    BY <1>7 DEF DesktopStep, ScanDir, DiffFiles, UploadFile, ComputeSHA256,
       ResolveConflict, GetUploadStatus, WaitChunks, server
  <2> QED
    BY <2>1, <1>2
<1> QED
  BY <1>3, <1>4, <1>5, <1>6, <1>7

(* A call that is not taken further keeps what it has found out.             *)
LEMMA FirstRow ==
    ASSUME ServerInv, Grows, rows # <<>>
    PROVE  rows' # <<>> /\ rows'[1] = rows[1]
<1>1. rows \in Seq(Range(rows))
  BY DEF ServerInv, Listed
<1>2. Len(rows) \in Nat \ {0} /\ DOMAIN rows = 1 .. Len(rows)
  BY <1>1, EmptySeq, LenProperties
<1>3. 1 \in DOMAIN rows
  BY <1>2
<1>4. 1 \in DOMAIN rows' /\ rows'[1] = rows[1]
  BY <1>3 DEF Grows
<1> QED
  BY <1>4

(* Another client's step, or a crash of the program, leaves what is known   *)
(* of a call.                                                               *)
LEMMA CallKept ==
    ASSUME ServerInv, Grows, NEW d \in Desktop, CallOK(d),
           scan'[d] = scan[d], was'[d] = was[d], full'[d] = full[d], dsess'[d] = dsess[d],
           \/ dpc'[d] = dpc[d] /\ reply'[d] = reply[d]
           \/ dpc'[d] = "done" /\ reply'[d] # "ok",
           disk' = disk \/ dpc[d] \notin {"list", "hash"} \/ d \in stale',
           d \in stale => d \in stale'
    PROVE  CallOK(d)'
<1>1. Feeds(dsess[d], <<full[d], DesktopPart>>) => Feeds(dsess[d], <<full[d], DesktopPart>>)'
  BY DEF Feeds, Grows
<1>2. Stored(was[d]) => Stored(was[d])'
  BY DEF Stored, Grows
<1>3. Mixed(dsess[d]) => Mixed(dsess[d])'
  BY DEF Mixed, Grows, Pure
<1>4. rows # <<>> => rows' # <<>> /\ rows'[1] = rows[1]
  BY FirstRow
<1>5. CASE dpc'[d] = dpc[d] /\ reply'[d] = reply[d]
  BY <1>1, <1>2, <1>3, <1>4, <1>5 DEF CallOK
<1>6. CASE dpc'[d] = "done" /\ reply'[d] # "ok"
  BY <1>6 DEF CallOK, Hashed
<1> QED
  BY <1>5, <1>6

(* So does an edit of the file: the calls under way are noted.              *)
LEMMA EditStep ==
    ASSUME ServerInv, DesktopInv, Edit \/ SaveConfig
    PROVE  ServerInv' /\ Grows /\ DesktopInv'
<1>1. UNCHANGED <<rows, sess, dpc, reply, scan, was, full, dsess, left, errs>>
  BY DEF Edit, SaveConfig, server, call
<1>2. ServerInv' /\ Grows
  BY <1>1, ServerStays
<1>3. /\ disk' \in Version /\ stale \subseteq stale' /\ stale' \subseteq Desktop
      /\ disk' = disk \/ \A d \in Desktop : dpc[d] \in {"list", "hash"} => d \in stale'
  BY DEF Edit, SaveConfig, DRunning, DesktopInv, DesktopTypes
<1>4. DesktopTypes'
  BY <1>1, <1>3 DEF DesktopInv, DesktopTypes
<1>5. ASSUME NEW d \in Desktop
      PROVE  CallOK(d)'
  <2>1. CallOK(d) /\ dpc'[d] = dpc[d] /\ reply'[d] = reply[d] /\ scan'[d] = scan[d]
        /\ was'[d] = was[d] /\ full'[d] = full[d] /\ dsess'[d] = dsess[d]
    BY <1>1 DEF DesktopInv
  <2>2. disk' = disk \/ dpc[d] \notin {"list", "hash"} \/ d \in stale'
    BY <1>3
  <2>3. d \in stale => d \in stale'
    BY <1>3
  <2> QED
    BY <1>2, <2>1, <2>2, <2>3, CallKept
<1> QED
  BY <1>2, <1>4, <1>5 DEF DesktopInv

(* An error of a goroutine is stored, or ends every call without success.   *)
LEMMA StoreTypes ==
    ASSUME DesktopTypes, NEW d \in Desktop, NEW err \in {"read", "send"},
           Store(d, err) \/ NoError
    PROVE  /\ dpc' \in [Desktop -> Place] /\ reply' \in [Desktop -> Reply]
           /\ errs' \in [Desktop -> SUBSET {"read", "send"}]
           /\ \A e \in Desktop : \/ dpc'[e] = dpc[e] /\ reply'[e] = reply[e]
                                 \/ dpc'[e] = "done" /\ reply'[e] # "ok"
<1>1. CASE NoError \/ errs[d] \subseteq {err}
  BY <1>1 DEF Store, NoError, DesktopTypes
<1>2. CASE ~NoError /\ ~(errs[d] \subseteq {err})
  <2>1. /\ errs' = [errs EXCEPT ![d] = @ \cup {err}]
        /\ dpc' = [e \in Desktop |-> IF DRunning(e) THEN "done" ELSE dpc[e]]
        /\ reply' = [e \in Desktop |-> IF DRunning(e) THEN "crash" ELSE reply[e]]
    BY <1>2 DEF Store
  <2>2. /\ \A e \in Desktop : dpc[e] \in Place /\ reply[e] \in Reply
        /\ "done" \in Place /\ "crash" \in Reply /\ errs \in [Desktop -> SUBSET {"read", "send"}]
    BY DEF DesktopTypes, Place, Reply
  <2>3. dpc' \in [Desktop -> Place] /\ reply' \in [Desktop -> Reply]
    BY <2>1, <2>2
  <2>4. errs' \in [Desktop -> SUBSET {"read", "send"}]
    BY <2>1, <2>2
  <2>5. \A e \in Desktop : \/ dpc'[e] = dpc[e] /\ reply'[e] = reply[e]
                           \/ dpc'[e] = "done" /\ reply'[e] # "ok"
    BY <2>1
  <2> QED
    BY <2>3, <2>4, <2>5
<1> QED
  BY <1>1, <1>2

(* Types; and a step of one call leaves the others alone, or ends them.     *)
LEMMA DesktopTypesStep ==
    ASSUME ServerInv, DesktopInv, NEW d \in Desktop, ScanDir(d) \/ DesktopStep(d)
    PROVE  /\ DesktopTypes' /\ disk' = disk /\ stale' = stale
           /\ \A e \in Desktop \ {d} :
                 /\ scan'[e] = scan[e] /\ was'[e] = was[e] /\ full'[e] = full[e]
                 /\ dsess'[e] = dsess[e]
                 /\ \/ dpc'[e] = dpc[e] /\ reply'[e] = reply[e]
                    \/ dpc'[e] = "done" /\ reply'[e] # "ok"
<1> USE DEF DAt, DGoto, Return, local
<1>1. CallOK(d) /\ DesktopTypes
  BY DEF DesktopInv
<1>2. CASE ScanDir(d)
  BY <1>1, <1>2 DEF ScanDir, DesktopTypes, Place
<1>3. CASE DiffFiles(d)
  BY <1>1, <1>3 DEF DiffFiles, DesktopTypes, Place, Reply
<1>4. CASE UploadFile(d)
  <2>1. /\ UNCHANGED <<disk, scan, full, dsess, left, errs, stale>>
        /\ \/ /\ dpc' = [dpc EXCEPT ![d] = "hash"] /\ UNCHANGED reply
              /\ was' = [was EXCEPT ![d] = disk]
           \/ /\ dpc' = [dpc EXCEPT ![d] = "done"] /\ reply' = [reply EXCEPT ![d] = "error"]
              /\ UNCHANGED was
    BY <1>4 DEF UploadFile
  <2>2. /\ was' \in [Desktop -> Version \cup {<<>>}]
        /\ \A e \in Desktop \ {d} : was'[e] = was[e]
    BY <1>1, <2>1 DEF DesktopTypes
  <2>3. /\ dpc' \in [Desktop -> Place] /\ reply' \in [Desktop -> Reply]
        /\ \A e \in Desktop \ {d} : dpc'[e] = dpc[e] /\ reply'[e] = reply[e]
    BY <1>1, <2>1 DEF DesktopTypes, Place, Reply
  <2> QED
    BY <1>1, <2>1, <2>2, <2>3 DEF DesktopTypes
<1>5. CASE ComputeSHA256(d)
  <2>1. /\ UNCHANGED <<disk, scan, was, dsess, left, errs, stale>>
        /\ \/ /\ dpc' = [dpc EXCEPT ![d] = "check"] /\ UNCHANGED reply
              /\ full' = [full EXCEPT ![d] = disk]
           \/ /\ dpc' = [dpc EXCEPT ![d] = "done"] /\ reply' = [reply EXCEPT ![d] = "error"]
              /\ UNCHANGED full
    BY <1>5 DEF ComputeSHA256
  <2>2. /\ full' \in [Desktop -> Version \cup {<<>>}]
        /\ \A e \in Desktop \ {d} : full'[e] = full[e]
    BY <1>1, <2>1 DEF DesktopTypes
  <2>3. /\ dpc' \in [Desktop -> Place] /\ reply' \in [Desktop -> Reply]
        /\ \A e \in Desktop \ {d} : dpc'[e] = dpc[e] /\ reply'[e] = reply[e]
    BY <1>1, <2>1 DEF DesktopTypes, Place, Reply
  <2> QED
    BY <1>1, <2>1, <2>2, <2>3 DEF DesktopTypes
<1>6. CASE TryInstant(d)
  <2>1. /\ UNCHANGED <<disk, scan, was, full, dsess, left, errs, stale>>
        /\ \/ dpc' = [dpc EXCEPT ![d] = "done"] /\ reply' = [reply EXCEPT ![d] = "ok"]
           \/ /\ UNCHANGED reply
              /\ dpc' = [dpc EXCEPT ![d] = "clash"] \/ dpc' = [dpc EXCEPT ![d] = "init"]
    BY <1>6 DEF TryInstant
  <2> QED
    BY <1>1, <2>1 DEF DesktopTypes, Place, Reply
<1>7. CASE ResolveConflict(d)
  BY <1>1, <1>7 DEF ResolveConflict, HandleConflict, DesktopTypes, Place, Reply
<1>8. CASE OpenSession(d)
  <2> DEFINE key == <<"full", full[d]>>
  <2>1. /\ UNCHANGED <<disk, scan, was, full, left, errs, stale>>
        /\ \/ UNCHANGED dsess
           \/ /\ dsess' = [dsess EXCEPT ![d] = Target(key)]
              /\ InitUpload(key, Len(was[d]), DesktopPart, <<full[d], DesktopPart>>)
        /\ \/ /\ UNCHANGED reply
              /\ dpc' = [dpc EXCEPT ![d] = "refused"] \/ dpc' = [dpc EXCEPT ![d] = "status"]
           \/ dpc' = [dpc EXCEPT ![d] = "done"] /\ reply' = [reply EXCEPT ![d] = "error"]
    BY <1>8 DEF OpenSession
  <2>2. Target(key) \in Nat
    <3>1. /\ Resumable(key) \in SUBSET Nat /\ Len(sess) \in Nat
          /\ \A m \in Resumable(key) : m <= Len(sess)
      BY ListedAppend DEF ServerInv, Resumable
    <3>2. CASE Resumable(key) = {}
      BY <3>1, <3>2 DEF Target
    <3>3. CASE Resumable(key) # {}
      <4> HIDE DEF key
      <4>1. Max(Resumable(key)) \in Resumable(key)
        BY <3>1, <3>3, GreatestNatural
      <4> QED
        BY <3>1, <3>3, <4>1 DEF Target
    <3> QED
      BY <3>2, <3>3
  <2> HIDE DEF key
  <2>3. dsess' \in [Desktop -> Nat] /\ \A e \in Desktop \ {d} : dsess'[e] = dsess[e]
    BY <1>1, <2>1, <2>2 DEF DesktopTypes
  <2> QED
    BY <1>1, <2>1, <2>3 DEF DesktopTypes, Place, Reply
<1>9. CASE GetUploadStatus(d)
  <2>1. SessionOK(sess[dsess[d]])
    BY <1>1, <1>9 DEF GetUploadStatus, CallOK, Feeds, ServerInv
  <2>2. All(dsess[d]) \subseteq Nat
    BY <2>1 DEF All, SessionOK
  <2>3. UNCHANGED left \/ \E c \in SUBSET Nat : left' = [left EXCEPT ![d] = c]
    <3>1. All(dsess[d]) \ ReportedChunks(dsess[d]) \in SUBSET Nat
      BY <2>2
    <3> QED
      BY <1>9, <2>2, <3>1 DEF GetUploadStatus
  <2>4. left' \in [Desktop -> SUBSET Nat]
    BY <1>1, <2>3 DEF DesktopTypes
  <2>5. /\ UNCHANGED <<disk, scan, was, full, dsess, errs, stale>>
        /\ \/ dpc' = [dpc EXCEPT ![d] = "chunks"] /\ UNCHANGED reply
           \/ dpc' = [dpc EXCEPT ![d] = "done"] /\ reply' = [reply EXCEPT ![d] = "error"]
    BY <1>9 DEF GetUploadStatus
  <2> QED
    BY <1>1, <2>4, <2>5 DEF DesktopTypes, Place, Reply
<1>10. CASE SendChunk(d)
  <2>1. /\ UNCHANGED <<disk, scan, was, full, dsess, stale>>
        /\ \E i : left' = [left EXCEPT ![d] = @ \ {i}]
        /\ \E err \in {"read", "send"} : Store(d, err) \/ NoError
    BY <1>10 DEF SendChunk, AwaitReceived
  <2>2. left' \in [Desktop -> SUBSET Nat]
    BY <1>1, <2>1 DEF DesktopTypes
  <2>3. /\ dpc' \in [Desktop -> Place] /\ reply' \in [Desktop -> Reply]
        /\ errs' \in [Desktop -> SUBSET {"read", "send"}]
        /\ \A e \in Desktop : \/ dpc'[e] = dpc[e] /\ reply'[e] = reply[e]
                              \/ dpc'[e] = "done" /\ reply'[e] # "ok"
    BY <1>1, <2>1, StoreTypes
  <2> QED
    BY <1>1, <2>1, <2>2, <2>3 DEF DesktopTypes
<1>11. CASE WaitChunks(d)
  BY <1>1, <1>11 DEF WaitChunks, DesktopTypes, Place, Reply
<1>12. CASE Finish(d)
  <2>1. /\ UNCHANGED <<disk, scan, was, full, dsess, left, errs, stale>>
        /\ dpc' = [dpc EXCEPT ![d] = "done"]
        /\ \E x \in {"ok", "error"} : reply' = [reply EXCEPT ![d] = x]
    BY <1>12 DEF Finish
  <2> QED
    BY <1>1, <2>1 DEF DesktopTypes, Place, Reply
<1> QED
  BY <1>2, <1>3, <1>4, <1>5, <1>6, <1>7, <1>8, <1>9, <1>10, <1>11, <1>12 DEF DesktopStep

(* The call that takes the step.                                             *)
LEMMA CallStep ==
    ASSUME ServerInv, DesktopInv, NEW d \in Desktop, ScanDir(d) \/ DesktopStep(d)
    PROVE  CallOK(d)'
<1> USE DEF DAt, DGoto, Return, DesktopTypes
<1>1. CallOK(d) /\ DesktopTypes
  BY DEF DesktopInv
<1>2. ServerInv' /\ Grows
  BY DesktopServer
<1>3. DesktopTypes' /\ disk' = disk /\ stale' = stale
  BY DesktopTypesStep
<1>4. CASE dpc'[d] = "done" /\ reply'[d] # "ok"
  BY <1>4 DEF CallOK, Hashed
<1>5. Feeds(dsess[d], <<full[d], DesktopPart>>) =>
          dsess[d] \in DOMAIN sess' /\ <<full[d], DesktopPart>> \in sess'[dsess[d]].seen
  BY <1>2 DEF Feeds, Grows
<1>6. dpc[d] # "done" => reply[d] # "ok"
  BY <1>1 DEF CallOK
<1>7. CASE ScanDir(d)
  BY <1>1, <1>3, <1>6, <1>7 DEF ScanDir, CallOK, Hashed
<1>8. CASE DiffFiles(d)
  <2>1. /\ dpc[d] = "list" /\ scan[d] /\ reply[d] # "ok"
        /\ UNCHANGED <<rows, scan, was, full, dsess>>
    BY <1>1, <1>6, <1>8 DEF DiffFiles, CallOK
  <2>2. CASE dpc'[d] = "stat" /\ reply'[d] = reply[d]
    BY <2>1, <2>2 DEF CallOK, Hashed
  <2>3. CASE dpc'[d] = "done" /\ reply'[d] = "ok" /\ ~Differs(d)
    BY <2>1, <2>3 DEF CallOK, Hashed, Differs
  <2> QED
    BY <1>1, <1>4, <1>8, <2>2, <2>3 DEF DiffFiles
<1>9. CASE UploadFile(d)
  <2>1. \/ /\ dpc'[d] = "hash" /\ reply'[d] = reply[d] /\ was'[d] = disk
        \/ dpc'[d] = "done" /\ reply'[d] # "ok"
    BY <1>1, <1>9 DEF UploadFile
  <2>2. dpc[d] # "done" /\ disk' = disk
    BY <1>3, <1>9 DEF UploadFile
  <2> QED
    BY <1>4, <1>6, <2>1, <2>2 DEF CallOK, Hashed
<1>10. CASE ComputeSHA256(d)
  <2>1. \/ /\ dpc[d] = "hash" /\ dpc'[d] = "check" /\ reply'[d] # "ok" /\ full'[d] = disk
           /\ was'[d] = was[d]
        \/ dpc'[d] = "done" /\ reply'[d] # "ok"
    BY <1>1, <1>6, <1>10 DEF ComputeSHA256
  <2> QED
    BY <2>1, <1>1, <1>3, <1>4 DEF CallOK, Hashed
<1>11. CASE TryInstant(d)
  <2>1. /\ dpc[d] = "check" /\ reply[d] # "ok" /\ UNCHANGED <<scan, was, full, dsess>>
        /\ full[d] \in Version /\ (d \in stale \/ full[d] = was[d])
    BY <1>1, <1>6, <1>11 DEF TryInstant, CallOK, Hashed
  <2>2. CASE dpc'[d] \in {"clash", "init"} /\ reply'[d] = reply[d]
    BY <2>1, <2>2, <1>3 DEF CallOK, Hashed
  <2>3. CASE dpc'[d] = "done" /\ reply'[d] = "ok" /\ Share(full[d], d) /\ UNCHANGED sess
    <3>1. \E i \in DOMAIN rows' : rows'[i].content = full[d]
      BY <2>3, SharedRow DEF Has
    <3> QED
      BY <3>1, <2>1, <2>3, <1>3 DEF CallOK, Hashed, Stored
  <2> QED
    BY <1>1, <1>11, <2>2, <2>3 DEF TryInstant
<1>12. CASE ResolveConflict(d)
  <2>1. /\ dpc[d] \in {"clash", "refused"} /\ reply[d] # "ok"
        /\ UNCHANGED <<scan, was, full, dsess>>
        /\ full[d] \in Version /\ (d \in stale \/ full[d] = was[d])
    BY <1>1, <1>6, <1>12 DEF ResolveConflict, CallOK, Hashed
  <2>2. CASE dpc'[d] = "init" /\ reply'[d] = reply[d]
    BY <2>1, <2>2, <1>3 DEF CallOK, Hashed
  <2> QED
    BY <1>1, <1>4, <1>12, <2>2 DEF ResolveConflict, HandleConflict
<1>13. CASE OpenSession(d)
  <2> DEFINE key == <<"full", full[d]>>
  <2>1. /\ dpc[d] = "init" /\ reply[d] # "ok" /\ UNCHANGED <<rows, scan, was, full>>
        /\ full[d] \in Version /\ (d \in stale \/ full[d] = was[d])
    BY <1>1, <1>6, <1>13 DEF OpenSession, CallOK, Hashed
  <2>2. CASE dpc'[d] = "refused" /\ reply'[d] = reply[d]
    BY <2>1, <2>2, <1>3 DEF CallOK, Hashed
  <2>3. CASE /\ dpc'[d] = "status" /\ reply'[d] = reply[d]
             /\ InitUpload(key, Len(was[d]), DesktopPart, <<full[d], DesktopPart>>)
             /\ dsess'[d] = Target(key)
    <3>1. Len(was[d]) \in Nat
      <4>1. was[d] \in Version \/ was[d] = <<>>
        BY <1>1
      <4>2. was[d] \in Seq(Nat)
        BY <4>1, TransferAssumption, EmptySeq
      <4> QED
        BY <4>2, LenProperties
    <3>2. <<full[d], DesktopPart>> \in Version \X (Nat \ {0}) /\ DesktopPart \in Nat \ {0}
      BY <2>1, DesktopAssumption
    <3> HIDE DEF key
    <3>3. /\ Target(key) \in DOMAIN sess'
          /\ <<full[d], DesktopPart>> \in sess'[Target(key)].seen
      BY <2>1, <2>3, <3>1, <3>2, SessionOpened
    <3>4. Feeds(dsess[d], <<full[d], DesktopPart>>)'
      BY <2>1, <2>3, <3>3 DEF Feeds
    <3> QED
      BY <3>4, <2>1, <2>3, <1>3 DEF CallOK, Hashed
  <2> QED
    BY <1>1, <1>4, <1>13, <2>2, <2>3 DEF OpenSession
<1>14. CASE GetUploadStatus(d) \/ SendChunk(d) \/ WaitChunks(d)
  <2>1. /\ dpc[d] \in {"status", "chunks"} /\ reply[d] # "ok"
        /\ UNCHANGED <<scan, was, full, dsess>>
        /\ full[d] \in Version /\ (d \in stale \/ full[d] = was[d])
        /\ Feeds(dsess[d], <<full[d], DesktopPart>>)
    BY <1>1, <1>6, <1>14 DEF GetUploadStatus, SendChunk, WaitChunks, CallOK, Hashed
  <2>2. CASE dpc'[d] \in {"chunks", "complete"} /\ reply'[d] = reply[d]
    <3>1. Feeds(dsess[d], <<full[d], DesktopPart>>)'
      BY <2>1, <1>5 DEF Feeds
    <3> QED
      BY <3>1, <2>1, <2>2, <1>3 DEF CallOK, Hashed
  <2>3. CASE SendChunk(d)
    <3>1. \E err \in {"read", "send"} : Store(d, err) \/ NoError
      BY <2>3 DEF SendChunk, AwaitReceived
    <3>2. \/ dpc'[d] = dpc[d] /\ reply'[d] = reply[d]
          \/ dpc'[d] = "done" /\ reply'[d] # "ok"
      BY <3>1, <1>1, StoreTypes
    <3>3. dpc[d] = "chunks"
      BY <2>3 DEF SendChunk
    <3> QED
      BY <3>2, <3>3, <2>2, <1>4
  <2> QED
    BY <1>1, <1>4, <1>14, <2>2, <2>3 DEF GetUploadStatus, WaitChunks
<1>15. CASE Finish(d)
  <2>1. /\ dpc[d] = "complete" /\ UNCHANGED <<scan, was, full, dsess>>
        /\ (d \in stale \/ full[d] = was[d]) /\ dsess[d] \in DOMAIN sess
        /\ Feeds(dsess[d], <<full[d], DesktopPart>>)
    BY <1>1, <1>15 DEF Finish, CallOK, Hashed, Feeds
  <2>2. CASE /\ dpc'[d] = "done" /\ reply'[d] = "ok"
             /\ Complete(dsess[d]) /\ CompleteUpload(dsess[d], d)
    <3>1. Has(full[d]) \/ Mixed(dsess[d])'
      <4> DEFINE s == dsess[d]
                 w == full[d]
      <4>1. s \in DOMAIN sess /\ Complete(s) /\ CompleteUpload(s, d)
            /\ Feeds(s, <<w, DesktopPart>>)
        BY <2>1, <2>2
      <4>2. s' = s
        BY <2>1
      <4>3. Has(w) \/ (/\ s \in DOMAIN sess' /\ sess'[s].status = "completed"
                       /\ ~(\E v \in Version :
                                /\ sess'[s].seen = {<<v, sess'[s].part>>}
                                /\ sess'[s].total = TotalChunks(Len(v), sess'[s].part)))
        <5> HIDE DEF s, w
        <5> QED
          BY <4>1, SessionCompleted DEF Mixed, Pure
      <4> QED
        BY <4>2, <4>3 DEF Mixed, Pure
    <3>2. Stored(was[d])' \/ Mixed(dsess[d])' \/ d \in stale'
      BY <3>1, <2>1, <1>3 DEF Stored, Has
    <3> QED
      BY <3>2, <2>2, <1>3 DEF CallOK, Hashed
  <2> QED
    BY <1>1, <1>4, <1>15, <2>2 DEF Finish
<1> QED
  BY <1>7, <1>8, <1>9, <1>10, <1>11, <1>12, <1>13, <1>14, <1>15 DEF DesktopStep

(* A step of a call keeps what is said of every call.                       *)
LEMMA DesktopInvStep ==
    ASSUME ServerInv, DesktopInv, NEW d \in Desktop, ScanDir(d) \/ DesktopStep(d)
    PROVE  ServerInv' /\ Grows /\ DesktopInv'
<1>1. ServerInv' /\ Grows
  BY DesktopServer
<1>2. \A e \in Desktop \ {d} : CallOK(e)'
  <2> TAKE e \in Desktop \ {d}
  <2>1. /\ scan'[e] = scan[e] /\ was'[e] = was[e] /\ full'[e] = full[e]
        /\ dsess'[e] = dsess[e] /\ disk' = disk /\ stale' = stale
        /\ \/ dpc'[e] = dpc[e] /\ reply'[e] = reply[e]
           \/ dpc'[e] = "done" /\ reply'[e] # "ok"
    BY DesktopTypesStep
  <2>2. CallOK(e) /\ e \in Desktop
    BY DEF DesktopInv
  <2> QED
    BY <1>1, <2>1, <2>2, CallKept
<1> QED
  BY <1>1, <1>2, CallStep, DesktopTypesStep DEF DesktopInv

-----------------------------------------------------------------------------
(* The page.                                                                 *)
LEMMA RunOfTask ==
    ASSUME NEW b \in Browser, NEW r \in Of(b)
    PROVE  r \in Runs /\ r[1] = b
<1> QED
  BY DEF Of, Runs

(* The file of a task and its chunk size.                                   *)
LEMMA TaskFile ==
    ASSUME BrowserInv, NEW b \in Browser
    PROVE  /\ file[b] \in Version /\ part[b] \in Nat \ {0} /\ Len(file[b]) \in Nat
           /\ <<file[b], part[b]>> \in Version \X (Nat \ {0})
<1>1. file[b] \in Version /\ part[b] \in Nat \ {0}
  BY BrowserAssumption DEF BrowserInv, BrowserTypes
<1>2. file[b] \in Seq(Nat)
  BY <1>1, TransferAssumption
<1> QED
  BY <1>1, <1>2, LenProperties

(* A chunk of a task is a piece of the task's file.                         *)
LEMMA Delivered ==
    ASSUME ServerInv, BrowserInv, NEW b \in Browser, NEW i \in Nat, Deliver(b, i),
           UNCHANGED rows
    PROVE  ServerInv' /\ Grows
<1>1. CASE Open(b)
  <2>1. bsess[b] \in DOMAIN sess /\ Accepts(bsess[b])
    BY <1>1 DEF Open, BrowserInv, TaskOK, Feeds
  <2>2. UploadChunk(bsess[b], i, Piece(file[b], part[b], i), <<file[b], part[b]>>)
    BY <1>1 DEF Deliver
  <2> QED
    BY <2>1, <2>2, TaskFile, ChunkTaken
<1>2. CASE ~Open(b)
  BY <1>2, ServerStays DEF Deliver
<1> QED
  BY <1>1, <1>2

(* Every step of a task keeps the server's invariant.                       *)
LEMMA BrowserServer ==
    ASSUME ServerInv, BrowserInv, NEW b \in Browser,
           User(b) \/ \E r \in Of(b) : RunStep(r) \/ LateChunk(r)
    PROVE  ServerInv' /\ Grows
<1>1. CASE UNCHANGED <<rows, sess>>
  BY <1>1, ServerStays
<1>2. CASE User(b)
  BY <1>1, <1>2 DEF User, RunOne, Pause, Resume, Abort, Retry, server
<1>3. ASSUME NEW r \in Of(b), RunStep(r) \/ LateChunk(r)
      PROVE  ServerInv' /\ Grows
  <2>0. r[1] = b /\ r \in Runs
    BY RunOfTask
  <2>1. CASE TryInstantUpload(r)
    <3>1. UNCHANGED rows \/ Share(file[b], b)
      BY <2>0, <2>1 DEF TryInstantUpload
    <3>2. UNCHANGED sess
      BY <2>1 DEF TryInstantUpload
    <3> QED
      BY <3>1, <3>2, <1>1, SharedRow
  <2>2. CASE InitSession(r)
    <3>1. PICK key : /\ UNCHANGED rows
                     /\ UNCHANGED sess
                        \/ InitUpload(key, Len(file[b]), part[b], <<file[b], part[b]>>)
      BY <2>0, <2>2 DEF InitSession
    <3> QED
      BY <3>1, <1>1, TaskFile, SessionOpened
  <2>3. CASE PostChunk(r) \/ LateChunk(r)
    <3>1. PICK i \in missing[r] : UNCHANGED sess \/ (i # NoIndex /\ Deliver(b, i))
      BY <2>0, <2>3 DEF PostChunk, LateChunk
    <3>2. i # NoIndex => i \in Nat
      BY <2>0, <3>1 DEF BrowserInv, BrowserTypes, Index
    <3>3. UNCHANGED rows
      BY <2>0, <2>3 DEF PostChunk, LateChunk
    <3> QED
      BY <3>1, <3>2, <3>3, <1>1, Delivered
  <2>4. CASE CompleteTask(r)
    <3>1. \/ UNCHANGED <<rows, sess>>
          \/ bsess[b] # 0 /\ Complete(bsess[b]) /\ CompleteUpload(bsess[b], b)
      BY <2>0, <2>4 DEF CompleteTask
    <3>2. bsess[b] # 0 => bsess[b] \in DOMAIN sess
      BY DEF BrowserInv, TaskOK, Feeds
    <3> QED
      BY <3>1, <3>2, <1>1, SessionCompleted
  <2>5. CASE AskConflict(r) \/ CheckResumable(r) \/ EndChunks(r)
    BY <1>1, <2>5 DEF AskConflict, CheckResumable, EndChunks, server
  <2> QED
    BY <1>3, <2>1, <2>2, <2>3, <2>4, <2>5 DEF RunStep
<1> QED
  BY <1>2, <1>3

(* Types; and a step of one task leaves the others alone.                    *)
StartsRun(b) == \E lapsed : StartRun(b, lapsed)
LEMMA StartTypes ==
    ASSUME BrowserTypes, NEW b \in Browser, StartsRun(b)
    PROVE  /\ starts' \in [Browser -> Nat] /\ bpc' \in [Runs -> RunPlace]
           /\ missing' \in [Runs -> SUBSET Index] /\ failed' \in [Runs -> SUBSET Index]
           /\ tries' \in [Runs -> Nat] /\ doubled' \subseteq Browser
<1>1. PICK lapsed : StartRun(b, lapsed)
  BY DEF StartsRun
<1>2. PICK r \in Of(b) :
          /\ ~Alive(r) /\ BGoto(r, "check")
          /\ failed' = [q \in Runs |->
                           IF q = r THEN {}
                           ELSE failed[q] \cup IF q \in lapsed THEN {NoIndex} ELSE {}]
          /\ missing' = [missing EXCEPT ![r] = {}] /\ tries' = [tries EXCEPT ![r] = 0]
  BY <1>1 DEF StartRun
<1>3. failed' \in [Runs -> SUBSET Index]
  BY <1>2 DEF BrowserTypes, Index
<1> QED
  BY <1>1, <1>2, <1>3, RunOfTask DEF StartRun, BGoto, BrowserTypes, RunPlace

(* Every start of a run is one of these.                                    *)
LEMMA StartsARun ==
    ASSUME NEW b \in Browser
    PROVE  /\ StartRun(b, {}) => StartsRun(b)
           /\ (\E lapsed \in SUBSET Waiting(b) : StartRun(b, lapsed)) => StartsRun(b)
<1> QED
  BY DEF StartsRun

(* Types of the page.                                                       *)
LEMMA BrowserTypesStep ==
    ASSUME ServerInv, BrowserInv, NEW b \in Browser,
           User(b) \/ \E r \in Of(b) : RunStep(r) \/ LateChunk(r)
    PROVE  BrowserTypes'
<1> USE DEF Becomes
<1>0. BrowserTypes
  BY DEF BrowserInv
<1>1. CASE User(b)
  <2>1. CASE RunOne(b)
    BY <1>0, <2>1, StartTypes, StartsARun DEF RunOne, BrowserTypes, Shown
  <2>2. CASE Pause(b)
    BY <1>0, <2>2 DEF Pause, BrowserTypes, Shown, run
  <2>3. CASE Resume(b)
    BY <1>0, <2>3, StartTypes, StartsARun DEF Resume, BrowserTypes, Shown
  <2>4. CASE Abort(b)
    BY <1>0, <2>4 DEF Abort, BrowserTypes, Shown, run
  <2>5. CASE Retry(b)
    BY <1>0, <2>5, StartTypes, StartsARun DEF Retry, BrowserTypes, Shown
  <2> QED
    BY <1>1, <2>1, <2>2, <2>3, <2>4, <2>5 DEF User
<1>2. ASSUME NEW r \in Of(b), RunStep(r) \/ LateChunk(r)
      PROVE  BrowserTypes'
  <2> USE DEF BGoto, Throw
  <2>0. r[1] = b /\ r \in Runs
    BY RunOfTask
  <2>1. CASE TryInstantUpload(r)
    BY <1>0, <2>0, <2>1 DEF TryInstantUpload, BrowserTypes, Shown, RunPlace
  <2>2. CASE InitSession(r)
    <3>1. \A key : Target(key) \in Nat
      <4> TAKE key
      <4>1. /\ Resumable(key) \in SUBSET Nat /\ Len(sess) \in Nat
            /\ \A m \in Resumable(key) : m <= Len(sess)
        BY ListedAppend DEF ServerInv, Resumable
      <4>2. CASE Resumable(key) = {}
        BY <4>1, <4>2 DEF Target
      <4>3. CASE Resumable(key) # {}
        <5>1. Max(Resumable(key)) \in Resumable(key)
          BY <4>1, <4>3, GreatestNatural
        <5> QED
          BY <4>1, <4>3, <5>1 DEF Target
      <4> QED
        BY <4>2, <4>3
    <3>2. PICK key :
          \/ UNCHANGED <<bsess, total>>
          \/ /\ InitUpload(key, Len(file[b]), part[b], <<file[b], part[b]>>)
             /\ UNCHANGED rows
             /\ bsess' = [bsess EXCEPT ![b] = Target(key)]
             /\ total' = [total EXCEPT ![b] = sess'[Target(key)].total]
      BY <2>0, <2>2 DEF InitSession
    <3>3. /\ UNCHANGED <<file, part, paused, cancelled, insists, received, starts, via, missing,
                         failed, tries, doubled, skipped>>
          /\ \E x \in RunPlace : bpc' = [bpc EXCEPT ![r] = x]
          /\ \/ UNCHANGED status
             \/ \E x \in Shown : status' = [status EXCEPT ![b] = x]
      BY <2>0, <2>2 DEF InitSession, RunPlace, Shown
    <3>4. bsess' \in [Browser -> Nat] /\ total' \in [Browser -> Nat]
      <4>1. CASE UNCHANGED <<bsess, total>>
        BY <1>0, <4>1 DEF BrowserTypes
      <4>2. CASE /\ InitUpload(key, Len(file[b]), part[b], <<file[b], part[b]>>)
                 /\ UNCHANGED rows
                 /\ bsess' = [bsess EXCEPT ![b] = Target(key)]
                 /\ total' = [total EXCEPT ![b] = sess'[Target(key)].total]
        <5>1. ServerInv' /\ Target(key) \in DOMAIN sess'
          BY <4>2, TaskFile, SessionOpened
        <5>2. sess'[Target(key)].total \in Nat
          BY <5>1 DEF ServerInv, SessionOK
        <5> QED
          BY <1>0, <3>1, <4>2, <5>2 DEF BrowserTypes
      <4> QED
        BY <3>2, <4>1, <4>2
    <3> QED
      BY <1>0, <2>0, <3>3, <3>4 DEF BrowserTypes
  <2>3. CASE AskConflict(r)
    BY <1>0, <2>0, <2>3 DEF AskConflict, BrowserTypes, Shown, RunPlace
  <2>4. CASE CheckResumable(r)
    <3>1. bsess[b] # 0 => ReportedChunks(bsess[b]) \in SUBSET Nat
      <4> SUFFICES ASSUME bsess[b] # 0
                   PROVE  ReportedChunks(bsess[b]) \in SUBSET Nat
        OBVIOUS
      <4>1. SessionOK(sess[bsess[b]])
        BY DEF BrowserInv, TaskOK, Feeds, ServerInv
      <4> QED
        BY <4>1 DEF ReportedChunks, Received, SessionOK
    <3>2. \/ UNCHANGED received
          \/ /\ bsess[b] # 0
             /\ \E null \in BOOLEAN :
                   received' = [received EXCEPT ![b] =
                                  IF null THEN @ ELSE ReportedChunks(bsess[b])]
      <4>1. CASE UNCHANGED received
        BY <4>1
      <4>2. CASE /\ bsess[b] # 0
                 /\ received' = [received EXCEPT ![b] =
                                  IF scene.path = "sqlite" /\ ReportedChunks(bsess[b]) = {}
                                  THEN @ ELSE ReportedChunks(bsess[b])]
        BY <4>2
      <4> QED
        BY <2>0, <2>4, <4>1, <4>2 DEF CheckResumable
    <3>3. received' \in [Browser -> SUBSET Nat]
      BY <1>0, <3>1, <3>2 DEF BrowserTypes
    <3>4. (0 .. total[b] - 1) \ received'[b] \in SUBSET Index
      BY <1>0 DEF BrowserTypes, Index
    <3>5. missing' \in [Runs -> SUBSET Index]
      BY <1>0, <2>0, <2>4, <3>4 DEF CheckResumable, BrowserTypes
    <3> QED
      BY <1>0, <2>0, <2>4, <3>3, <3>5 DEF CheckResumable, BrowserTypes, RunPlace
  <2>5. CASE PostChunk(r)
    <3>1. PICK i \in missing[r] :
              /\ missing' = [missing EXCEPT ![r] = @ \ {i}]
              /\ \/ UNCHANGED <<received, failed>>
                 \/ /\ received' = [received EXCEPT ![b] = @ \cup {i}] /\ UNCHANGED failed
                    /\ i # NoIndex
                 \/ failed' = [failed EXCEPT ![r] = @ \cup {i}] /\ UNCHANGED received
      BY <2>0, <2>5 DEF PostChunk
    <3>2. i \in Index /\ (i # NoIndex => i \in Nat)
      BY <1>0, <2>0, <3>1 DEF BrowserTypes, Index
    <3>3. missing' \in [Runs -> SUBSET Index] /\ failed' \in [Runs -> SUBSET Index]
      BY <1>0, <2>0, <3>1, <3>2 DEF BrowserTypes
    <3>4. received' \in [Browser -> SUBSET Nat]
      BY <1>0, <3>1, <3>2 DEF BrowserTypes
    <3> QED
      BY <1>0, <2>0, <2>5, <3>3, <3>4 DEF PostChunk, BrowserTypes
  <2>6. CASE EndChunks(r)
    BY <1>0, <2>0, <2>6 DEF EndChunks, BrowserTypes, Shown, RunPlace
  <2>7. CASE CompleteTask(r)
    BY <1>0, <2>0, <2>7 DEF CompleteTask, BrowserTypes, Shown, RunPlace
  <2>8. CASE LateChunk(r)
    BY <1>0, <2>0, <2>8 DEF LateChunk, BrowserTypes, task
  <2> QED
    BY <1>2, <2>1, <2>2, <2>3, <2>4, <2>5, <2>6, <2>7, <2>8 DEF RunStep
<1> QED
  BY <1>1, <1>2

-----------------------------------------------------------------------------
(* What the page shows of a task.                                            *)
DoneOK(b) == status[b] = "done" => Stored(file[b]) \/ b \in skipped \/ Mixed(via[b])
ShownOK(b) == status[b] = "uploading" =>
    /\ RunsOf(b) # {} \/ cancelled[b]
    /\ paused[b] => starts[b] >= 2
TasksOK == BrowserInv /\ \A b \in Browser : DoneOK(b) /\ ShownOK(b)

(* A step that leaves a task alone.                                          *)
LeftAlone(a) ==
    /\ file'[a] = file[a] /\ part'[a] = part[a] /\ status'[a] = status[a]
    /\ paused'[a] = paused[a] /\ cancelled'[a] = cancelled[a]
    /\ bsess'[a] = bsess[a] /\ starts'[a] = starts[a] /\ via'[a] = via[a]
    /\ \A q \in Of(a) : bpc'[q] = bpc[q]
    /\ a \in skipped => a \in skipped'
    /\ a \in doubled => a \in doubled'

(* What is said of a task holds on while others move.                       *)
LEMMA TaskLeftAlone ==
    ASSUME Grows, NEW a \in Browser, TaskOK(a), DoneOK(a), ShownOK(a), LeftAlone(a)
    PROVE  TaskOK(a)' /\ DoneOK(a)' /\ ShownOK(a)'
<1>1. RunsOf(a)' = RunsOf(a)
  BY DEF LeftAlone, RunsOf, Alive
<1>2. Feeds(bsess[a], <<file[a], part[a]>>) => Feeds(bsess[a], <<file[a], part[a]>>)'
  BY DEF LeftAlone, Feeds, Grows
<1>3. Stored(file[a]) => Stored(file[a])'
  BY DEF LeftAlone, Stored, Grows
<1>4. Mixed(via[a]) => Mixed(via[a])'
  <2>1. Mixed(via[a]) => Mixed(via[a]) /\ via'[a] = via[a] /\ \A s : Mixed(s) => Mixed(s)'
    BY GrowsKeeps DEF LeftAlone
  <2> QED
    BY <2>1 DEF Mixed, Pure
<1>5. TaskOK(a)'
  BY <1>1, <1>2 DEF TaskOK, LeftAlone
<1>6. DoneOK(a)'
  BY <1>3, <1>4 DEF DoneOK, LeftAlone
<1>7. ShownOK(a)'
  BY <1>1 DEF ShownOK, LeftAlone
<1> QED
  BY <1>5, <1>6, <1>7

(* A new call of run(): one more run, noted if there was one.                *)
LEMMA RunStarted ==
    ASSUME BrowserTypes, NEW b \in Browser, StartsRun(b)
    PROVE  /\ starts'[b] = starts[b] + 1 /\ RunsOf(b)' # {}
           /\ b \notin doubled' => b \notin doubled /\ \A r, q \in RunsOf(b)' : r = q
           /\ \A a \in Browser \ {b} :
                 /\ starts'[a] = starts[a] /\ \A q \in Of(a) : bpc'[q] = bpc[q]
                 /\ a \in doubled => a \in doubled'
<1>0. PICK lapsed : StartRun(b, lapsed)
  BY DEF StartsRun
<1>1. PICK r \in Of(b) : ~Alive(r) /\ bpc' = [bpc EXCEPT ![r] = "check"]
  BY <1>0 DEF StartRun, BGoto
<1>2. r \in Runs /\ r[1] = b
  BY RunOfTask
<1>3. \A q \in Runs : bpc'[q] = IF q = r THEN "check" ELSE bpc[q]
  BY <1>1, <1>2 DEF BrowserTypes
<1>4. \A q \in Of(b) : q \in Runs
  BY RunOfTask
<1>5. RunsOf(b)' = RunsOf(b) \cup {r}
  BY <1>1, <1>3, <1>4 DEF RunsOf, Alive
<1>6. starts'[b] = starts[b] + 1
  BY <1>0 DEF StartRun, BrowserTypes
<1>7. b \notin doubled' => b \notin doubled /\ RunsOf(b) = {}
  BY <1>0 DEF StartRun
<1>8. ASSUME NEW a \in Browser \ {b}
      PROVE  /\ starts'[a] = starts[a] /\ \A q \in Of(a) : bpc'[q] = bpc[q]
             /\ a \in doubled => a \in doubled'
  <2>1. \A q \in Of(a) : q \in Runs /\ q[1] = a
    BY RunOfTask
  <2>2. \A q \in Of(a) : bpc'[q] = bpc[q]
    BY <1>2, <1>3, <2>1
  <2> QED
    BY <1>0, <2>2 DEF StartRun, BrowserTypes
<1> QED
  BY <1>5, <1>6, <1>7, <1>8

(* The user's steps.                                                         *)
UserEffect(b) ==
    /\ UNCHANGED <<rows, sess, file, part, via, skipped>>
    /\ bsess'[b] \in {bsess[b], 0}
    /\ status[b] = "done" => paused[b] /\ StartsRun(b)
    /\ \/ /\ StartsRun(b) /\ status'[b] = "uploading"
          /\ \/ starts[b] = 0 /\ paused'[b] = paused[b]
             \/ ~paused'[b]
             \/ status[b] = "error"
       \/ /\ UNCHANGED <<starts, bpc, doubled>>
          /\ \/ status'[b] = "cancelled" /\ paused'[b] = paused[b]
             \/ status'[b] = "paused" /\ status[b] = "uploading"

(* What the user's steps do to the task, and to the other tasks nothing.    *)
LEMMA UserSteps ==
    ASSUME BrowserInv, NEW b \in Browser, User(b)
    PROVE  UserEffect(b) /\ \A a \in Browser \ {b} : LeftAlone(a)
<1> USE DEF Becomes
<1>0. BrowserTypes /\ TaskOK(b)
  BY DEF BrowserInv
<1>1. \A a \in Browser : \A q \in Of(a) : q \in Runs
  BY RunOfTask
<1>2. CASE RunOne(b)
  <2>1. UserEffect(b)
    BY <1>0, <1>2, StartsARun DEF RunOne, UserEffect, BrowserTypes, TaskOK, server
  <2> QED
    BY <1>0, <1>2, <2>1, RunStarted, StartsARun DEF RunOne, LeftAlone, BrowserTypes
<1>3. CASE Pause(b)
  <2>1. UserEffect(b)
    BY <1>0, <1>3 DEF Pause, UserEffect, BrowserTypes, server, run
  <2> QED
    BY <1>0, <1>3, <2>1 DEF Pause, LeftAlone, BrowserTypes, run
<1>4. CASE Resume(b)
  <2>1. UserEffect(b)
    BY <1>0, <1>4, StartsARun DEF Resume, UserEffect, BrowserTypes, server
  <2> QED
    BY <1>0, <1>4, <2>1, RunStarted, StartsARun DEF Resume, LeftAlone, BrowserTypes
<1>5. CASE Abort(b)
  <2>1. UserEffect(b)
    BY <1>0, <1>5 DEF Abort, UserEffect, BrowserTypes, server, run
  <2> QED
    BY <1>0, <1>5, <2>1 DEF Abort, LeftAlone, BrowserTypes, run
<1>6. CASE Retry(b)
  <2>1. UserEffect(b)
    BY <1>0, <1>6, StartsARun DEF Retry, UserEffect, BrowserTypes, server
  <2> QED
    BY <1>0, <1>6, <2>1, RunStarted, StartsARun DEF Retry, LeftAlone, BrowserTypes
<1> QED
  BY <1>2, <1>3, <1>4, <1>5, <1>6 DEF User

(* They keep what is said of the task.                                      *)
LEMMA UserTask ==
    ASSUME ServerInv, TasksOK, NEW b \in Browser, User(b)
    PROVE  TaskOK(b)' /\ DoneOK(b)' /\ ShownOK(b)'
<1>1. BrowserTypes /\ TaskOK(b) /\ ShownOK(b)
  BY DEF TasksOK, BrowserInv
<1>2. UserEffect(b)
  BY UserSteps DEF TasksOK
<1>3. Feeds(bsess[b], <<file[b], part[b]>>)' \/ bsess'[b] = 0
  BY <1>1, <1>2 DEF UserEffect, Feeds, TaskOK
<1>4. CASE StartsRun(b) /\ status'[b] = "uploading"
  <2>1. /\ starts'[b] = starts[b] + 1 /\ RunsOf(b)' # {}
        /\ b \notin doubled' => b \notin doubled /\ \A r, q \in RunsOf(b)' : r = q
    BY <1>1, <1>4, RunStarted
  <2>2. starts[b] \in Nat
    BY <1>1 DEF BrowserTypes
  <2>3. TaskOK(b)'
    BY <1>3, <1>4, <2>1, <2>2 DEF TaskOK
  <2>4. paused'[b] => starts'[b] >= 2
    <3>1. \/ starts[b] = 0 /\ paused'[b] = paused[b]
          \/ ~paused'[b]
          \/ status[b] = "error"
      BY <1>2, <1>4 DEF UserEffect
    <3>2. starts[b] # 0 \/ ~paused'[b]
      BY <1>1, <3>1 DEF TaskOK
    <3>3. starts[b] # 0 => starts'[b] >= 2
      BY <2>1, <2>2
    <3> QED
      BY <3>2, <3>3
  <2> QED
    BY <1>4, <2>1, <2>3, <2>4 DEF DoneOK, ShownOK
<1>5. CASE /\ UNCHANGED <<starts, bpc, doubled>>
           /\ \/ status'[b] = "cancelled" /\ paused'[b] = paused[b]
              \/ status'[b] = "paused" /\ status[b] = "uploading"
  <2>1. RunsOf(b)' = RunsOf(b)
    BY <1>5 DEF RunsOf, Alive
  <2>2. TaskOK(b)'
    BY <1>1, <1>3, <1>5, <2>1 DEF TaskOK
  <2> QED
    BY <1>5, <2>2 DEF DoneOK, ShownOK
<1> QED
  BY <1>2, <1>4, <1>5 DEF UserEffect

(* The steps of a run.  It goes on, or ends and shows how.                   *)
RunEffect(b, r) ==
    /\ Alive(r)
    /\ UNCHANGED <<file, part, paused, starts, doubled, cancelled>>
    /\ skipped \subseteq skipped'
    /\ bpc'[r] = "off" \/ Alive(r)'
    /\ \/ status'[b] = status[b] /\ (bpc'[r] = "off" => cancelled[b])
       \/ status'[b] \in {"cancelled", "error"} /\ bpc'[r] = "off"
       \/ status'[b] = "done" /\ bpc'[r] = "off"
Others(b, r) ==
    /\ \A a \in Browser \ {b} :
          status'[a] = status[a] /\ bsess'[a] = bsess[a] /\ via'[a] = via[a]
    /\ \A q \in Runs \ {r} : bpc'[q] = bpc[q]

(* What a run does to its task, and to the others nothing.                  *)
LEMMA RunSteps ==
    ASSUME BrowserInv, NEW b \in Browser, NEW r \in Of(b), RunStep(r)
    PROVE  RunEffect(b, r) /\ Others(b, r)
<1> USE DEF Becomes, BGoto, BAt, Alive, Throw, RunEffect, Others
<1>0. BrowserTypes /\ r \in Runs /\ r[1] = b
  BY RunOfTask DEF BrowserInv
<1>1. CASE TryInstantUpload(r)
  BY <1>0, <1>1 DEF TryInstantUpload, BrowserTypes
<1>2. CASE InitSession(r)
  BY <1>0, <1>2 DEF InitSession, BrowserTypes
<1>3. CASE AskConflict(r)
  BY <1>0, <1>3 DEF AskConflict, BrowserTypes
<1>4. CASE CheckResumable(r)
  BY <1>0, <1>4 DEF CheckResumable, BrowserTypes
<1>5. CASE PostChunk(r)
  BY <1>0, <1>5 DEF PostChunk, BrowserTypes
<1>6. CASE EndChunks(r)
  BY <1>0, <1>6 DEF EndChunks, BrowserTypes
<1>7. CASE CompleteTask(r)
  BY <1>0, <1>7 DEF CompleteTask, BrowserTypes
<1> QED
  BY <1>1, <1>2, <1>3, <1>4, <1>5, <1>6, <1>7 DEF RunStep

(* The session a task has knows the task.                                    *)
LEMMA RunSession ==
    ASSUME ServerInv, BrowserInv, NEW b \in Browser, NEW r \in Of(b), RunStep(r)
    PROVE  bsess'[b] # 0 => Feeds(bsess[b], <<file[b], part[b]>>)'
<1>0. BrowserTypes /\ r \in Runs /\ r[1] = b /\ TaskOK(b)
  BY RunOfTask DEF BrowserInv
<1>1. Grows /\ UNCHANGED <<file, part>>
  BY BrowserServer, RunSteps DEF RunEffect
<1>2. CASE UNCHANGED bsess
  BY <1>0, <1>1, <1>2 DEF TaskOK, Feeds, Grows
<1>3. CASE InitSession(r) /\ bsess' # bsess
  <2> DEFINE who == <<file[b], part[b]>>
  <2>1. PICK key : /\ UNCHANGED rows /\ bsess' = [bsess EXCEPT ![b] = Target(key)]
                   /\ InitUpload(key, Len(file[b]), part[b], who)
    BY <1>0, <1>3 DEF InitSession
  <2>2. /\ who \in Version \X (Nat \ {0}) /\ Len(file[b]) \in Nat
        /\ part[b] \in Nat \ {0}
    BY TaskFile
  <2>3. Target(key) \in DOMAIN sess' /\ who \in sess'[Target(key)].seen
    <3> HIDE DEF who
    <3> QED
      BY <2>1, <2>2, SessionOpened
  <2>4. bsess'[b] = Target(key)
    BY <1>0, <2>1 DEF BrowserTypes
  <2>5. who' = who
    BY <1>1
  <2> QED
    BY <2>3, <2>4, <2>5 DEF Feeds
<1>4. UNCHANGED bsess \/ InitSession(r)
  BY DEF RunStep, TryInstantUpload, AskConflict, CheckResumable, PostChunk, EndChunks,
     CompleteTask
<1> QED
  BY <1>2, <1>3, <1>4

(* A run that ends well leaves the file, or the session was mixed, or the    *)
(* user skipped.                                                            *)
LEMMA RunDone ==
    ASSUME ServerInv, BrowserInv, NEW b \in Browser, NEW r \in Of(b), RunStep(r),
           status'[b] = "done", status[b] # "done" \/ via' # via
    PROVE  Stored(file[b])' \/ b \in skipped' \/ Mixed(via[b])'
<1> USE DEF Becomes, Throw
<1>0. BrowserTypes /\ r \in Runs /\ r[1] = b /\ TaskOK(b)
  BY RunOfTask DEF BrowserInv
<1>1. file' = file
  BY RunSteps DEF RunEffect
<1>2. CASE TryInstantUpload(r)
  <2>1. Share(file[b], b) /\ UNCHANGED sess
    BY <1>0, <1>2 DEF TryInstantUpload
  <2>2. Has(file[b])
    BY <2>1, SharedRow
  <2> QED
    BY <1>1, <2>2 DEF Has, Stored
<1>3. CASE AskConflict(r)
  BY <1>0, <1>3 DEF AskConflict
<1>4. CASE CompleteTask(r)
  <2> DEFINE s == bsess[b]
             v == file[b]
             n == part[b]
  <2>1. Complete(s) /\ CompleteUpload(s, b) /\ s # 0
    BY <1>0, <1>4 DEF CompleteTask, BrowserTypes
  <2>2. Feeds(s, <<v, n>>) /\ s \in DOMAIN sess
    BY <1>0, <2>1 DEF TaskOK, Feeds
  <2>3. v' = v
    BY <1>1
  <2>4. Has(v) \/ (/\ s \in DOMAIN sess' /\ sess'[s].status = "completed"
                   /\ <<v, n>> \in sess'[s].seen
                   /\ ~(\E w \in Version :
                           /\ sess'[s].seen = {<<w, sess'[s].part>>}
                           /\ sess'[s].total = TotalChunks(Len(w), sess'[s].part)))
    <3> HIDE DEF s, v, n
    <3> QED
      BY <2>1, <2>2, SessionCompleted DEF Mixed, Pure
  <2>5. CASE Has(v)
    BY <2>3, <2>5 DEF Has, Stored
  <2>6. CASE ~Has(v)
    <3>1. via'[b] = s
      BY <1>0, <1>4 DEF CompleteTask, BrowserTypes
    <3> HIDE DEF s, v, n
    <3> QED
      BY <2>4, <2>6, <3>1 DEF Mixed, Pure
  <2> QED
    BY <2>5, <2>6
<1>5. ~(InitSession(r) \/ CheckResumable(r) \/ PostChunk(r) \/ EndChunks(r))
  BY <1>0 DEF InitSession, CheckResumable, PostChunk, EndChunks, BrowserTypes
<1> QED
  BY <1>2, <1>3, <1>4, <1>5 DEF RunStep

(* A step of a run keeps what is said of its task.                          *)
LEMMA RunTask ==
    ASSUME ServerInv, TasksOK, NEW b \in Browser, NEW r \in Of(b), RunStep(r)
    PROVE  TaskOK(b)' /\ DoneOK(b)' /\ ShownOK(b)'
<1>1. /\ BrowserTypes /\ TaskOK(b) /\ DoneOK(b) /\ ShownOK(b) /\ BrowserInv
      /\ r \in Runs /\ r \in RunsOf(b) \cup {r}
  BY RunOfTask DEF TasksOK, BrowserInv
<1>2. RunEffect(b, r) /\ Others(b, r)
  BY <1>1, RunSteps
<1>3. Grows
  BY <1>1, BrowserServer
<1>4. r \in RunsOf(b)
  BY <1>2 DEF RunEffect, RunsOf
<1>5. \A q \in Of(b) : q \in Runs
  BY RunOfTask
<1>6. RunsOf(b)' = IF bpc'[r] = "off" THEN RunsOf(b) \ {r} ELSE RunsOf(b)
  <2>1. \A q \in Of(b) : q # r => bpc'[q] = bpc[q]
    BY <1>2, <1>5 DEF Others
  <2> QED
    BY <1>2, <1>4, <2>1 DEF RunsOf, Alive, RunEffect
<1>7. TaskOK(b)'
  <2>1. bsess'[b] # 0 => Feeds(bsess[b], <<file[b], part[b]>>)'
    BY <1>1, RunSession
  <2>2. starts'[b] # 0
    BY <1>1, <1>2, <1>4 DEF TaskOK, RunEffect
  <2>3. ASSUME b \notin doubled'
        PROVE  /\ \A q, p \in RunsOf(b)' : q = p
               /\ status'[b] = "done" => RunsOf(b)' = {}
    <3>1. b \notin doubled
      BY <1>2, <2>3 DEF RunEffect
    <3>2. (\A q, p \in RunsOf(b) : q = p) /\ status[b] # "done"
      BY <1>1, <1>4, <3>1 DEF TaskOK
    <3>3. \A q, p \in RunsOf(b)' : q = p
      BY <1>6, <3>2
    <3>4. status'[b] = "done" => bpc'[r] = "off"
      BY <1>2, <3>2 DEF RunEffect
    <3> QED
      BY <1>4, <1>6, <3>2, <3>3, <3>4
  <2> QED
    BY <2>1, <2>2, <2>3 DEF TaskOK
<1>8. DoneOK(b)'
  <2>1. CASE status'[b] = "done" /\ (status[b] # "done" \/ via' # via)
    BY <1>1, <2>1, RunDone DEF DoneOK
  <2>2. CASE status[b] = "done" /\ via' = via
    <3>1. file'[b] = file[b] /\ skipped \subseteq skipped'
      BY <1>2 DEF RunEffect
    <3>2. Stored(file[b]) => Stored(file[b])'
      BY <1>3, <3>1 DEF Stored, Grows
    <3>3. Mixed(via[b]) => Mixed(via[b])'
      <4>1. Mixed(via[b]) => via'[b] = via[b] /\ \A x : Mixed(x) => Mixed(x)'
        BY <1>3, <2>2, GrowsKeeps
      <4> QED
        BY <4>1 DEF Mixed, Pure
    <3> QED
      BY <1>1, <2>2, <3>1, <3>2, <3>3 DEF DoneOK
  <2> QED
    BY <2>1, <2>2 DEF DoneOK
<1>9. ShownOK(b)'
  <2>1. /\ status'[b] = "uploading" => status[b] = "uploading"
        /\ status'[b] = "uploading" => (bpc'[r] = "off" => cancelled[b])
        /\ paused' = paused /\ starts' = starts /\ cancelled' = cancelled
    BY <1>2 DEF RunEffect
  <2> QED
    BY <1>1, <1>4, <1>6, <2>1 DEF ShownOK
<1> QED
  BY <1>7, <1>8, <1>9

(* A step of the page keeps what is said of every task, and what is done     *)
(* stays done but for what DoneStays names.                                 *)
Stays(a) == status[a] = "done" /\ status'[a] # "done" =>
    a \in doubled \/ (paused[a] /\ starts'[a] > starts[a])
LEMMA BrowserStep ==
    ASSUME ServerInv, TasksOK, NEW b \in Browser,
           User(b) \/ \E r \in Of(b) : RunStep(r) \/ LateChunk(r)
    PROVE  /\ ServerInv' /\ Grows /\ TasksOK'
           /\ \A a \in Browser : Stays(a)
<1>1. ServerInv' /\ Grows /\ BrowserTypes' /\ BrowserInv
  BY BrowserServer, BrowserTypesStep DEF TasksOK
<1>2. SUFFICES /\ TaskOK(b)' /\ DoneOK(b)' /\ ShownOK(b)'
               /\ \A a \in Browser \ {b} : LeftAlone(a)
               /\ Stays(b)
  <2>1. \A a \in Browser \ {b} : TaskOK(a)' /\ DoneOK(a)' /\ ShownOK(a)'
    BY <1>1, <1>2, TaskLeftAlone DEF TasksOK, BrowserInv
  <2>2. \A a \in Browser \ {b} : status'[a] = status[a]
    BY <1>2 DEF LeftAlone
  <2> QED
    BY <1>1, <1>2, <2>1, <2>2 DEF TasksOK, BrowserInv, Stays
<1>3. CASE User(b)
  <2>1. UserEffect(b) /\ \A a \in Browser \ {b} : LeftAlone(a)
    BY <1>1, <1>3, UserSteps
  <2>2. StartsRun(b) => starts'[b] > starts[b]
    <3>1. BrowserTypes /\ starts[b] \in Nat
      BY <1>1 DEF BrowserInv, BrowserTypes
    <3> QED
      BY <3>1, RunStarted
  <2>3. Stays(b)
    BY <2>1, <2>2 DEF UserEffect, Stays
  <2> QED
    BY <1>3, <2>1, <2>3, UserTask
<1>4. ASSUME NEW r \in Of(b), RunStep(r)
      PROVE  /\ TaskOK(b)' /\ DoneOK(b)' /\ ShownOK(b)'
             /\ \A a \in Browser \ {b} : LeftAlone(a)
             /\ Stays(b)
  <2>1. RunEffect(b, r) /\ Others(b, r)
    BY <1>1, <1>4, RunSteps
  <2>2. \A a \in Browser \ {b} : LeftAlone(a)
    <3> TAKE a \in Browser \ {b}
    <3>1. \A q \in Of(a) : q \in Runs \ {r}
      BY RunOfTask
    <3> QED
      BY <2>1, <3>1 DEF RunEffect, Others, LeftAlone
  <2>3. status[b] = "done" => b \in doubled
    <3>1. r \in RunsOf(b)
      BY <2>1 DEF RunEffect, RunsOf
    <3> QED
      BY <1>1, <3>1 DEF BrowserInv, TaskOK
  <2> QED
    BY <1>4, <2>2, <2>3, RunTask DEF Stays
<1>5. ASSUME NEW r \in Of(b), LateChunk(r)
      PROVE  /\ TaskOK(b)' /\ DoneOK(b)' /\ ShownOK(b)'
             /\ \A a \in Browser \ {b} : LeftAlone(a)
             /\ Stays(b)
  <2>1. \A a \in Browser : LeftAlone(a)
    BY <1>5 DEF LateChunk, LeftAlone, task
  <2> QED
    BY <1>1, <2>1, TaskLeftAlone DEF TasksOK, BrowserInv, LeftAlone, Stays
<1> QED
  BY <1>3, <1>4, <1>5

-----------------------------------------------------------------------------
(* The whole.                                                                *)
ClientInv == ServerInv /\ DesktopInv /\ TasksOK

(* The initial states satisfy the invariant,                                *)
LEMMA ClientsStart == ASSUME Init PROVE ClientInv
<1>1. ServerInv
  <2>1. <<>> \in Seq(Range(<<>>))
    BY EmptySeq
  <2> QED
    BY <2>1 DEF Init, ServerInv, Listed
<1>2. DesktopTypes
  BY DEF Init, DesktopTypes, Place, Reply
<1>3. \A d \in Desktop : CallOK(d)
  BY DEF Init, CallOK, Hashed
<1>4. BrowserTypes
  BY DEF Init, BrowserTypes, Shown, RunPlace
<1>5. ASSUME NEW b \in Browser
      PROVE  TaskOK(b) /\ DoneOK(b) /\ ShownOK(b)
  <2>1. RunsOf(b) = {}
    <3>1. \A q \in Of(b) : q \in Runs
      BY RunOfTask
    <3> QED
      BY <3>1 DEF Init, RunsOf, Alive
  <2>2. bsess[b] = 0 /\ ~paused[b] /\ status[b] \in {"none", "pending"}
    BY DEF Init
  <2> QED
    BY <2>1, <2>2 DEF TaskOK, DoneOK, ShownOK
<1> QED
  BY <1>1, <1>2, <1>3, <1>4, <1>5 DEF ClientInv, DesktopInv, TasksOK, BrowserInv

(* every step keeps it, and takes no task from done for another reason,     *)
LEMMA ClientsStep ==
    ASSUME ClientInv, [Next]_vars
    PROVE  /\ ClientInv'
           /\ \A b \in Browser : Stays(b)
<1>0. ServerInv /\ DesktopInv /\ TasksOK
  BY DEF ClientInv
<1>1. ASSUME ServerInv', Grows, DesktopInv', UNCHANGED browser
      PROVE  TasksOK'
  <2>1. UNCHANGED <<file, part, status, paused, cancelled, insists, bsess, total, received,
                    starts, via, bpc, missing, failed, tries, doubled, skipped>>
    BY <1>1 DEF browser, task, run
  <2>2. BrowserTypes'
    BY <1>0, <2>1 DEF TasksOK, BrowserInv, BrowserTypes
  <2>3. \A a \in Browser : LeftAlone(a)
    BY <2>1 DEF LeftAlone
  <2> QED
    BY <1>0, <1>1, <2>2, <2>3, TaskLeftAlone DEF TasksOK, BrowserInv
<1>2. ASSUME Grows, UNCHANGED desktop
      PROVE  DesktopInv'
  <2>1. UNCHANGED <<disk, dpc, reply, scan, was, full, dsess, left, errs, stale>>
    BY <1>2 DEF desktop, local, call
  <2>2. DesktopTypes'
    BY <1>0, <2>1 DEF DesktopInv, DesktopTypes
  <2>3. \A d \in Desktop : CallOK(d)'
    BY <1>0, <1>2, <2>1, CallKept DEF DesktopInv
  <2> QED
    BY <2>2, <2>3 DEF DesktopInv
<1>3. CASE DesktopNext
  <2>1. ServerInv' /\ Grows /\ DesktopInv'
    BY <1>0, <1>3, EditStep, DesktopInvStep DEF DesktopNext
  <2>2. status' = status
    BY <1>3 DEF DesktopNext, browser, task
  <2> QED
    BY <1>1, <1>3, <2>1, <2>2 DEF DesktopNext, ClientInv, Stays
<1>4. CASE BrowserNext
  <2>1. PICK b \in Browser : User(b) \/ \E r \in Of(b) : RunStep(r) \/ LateChunk(r)
    BY <1>4 DEF BrowserNext
  <2>2. /\ ServerInv' /\ Grows /\ TasksOK'
        /\ \A a \in Browser : Stays(a)
    BY <1>0, <2>1, BrowserStep
  <2> QED
    BY <1>2, <1>4, <2>2 DEF BrowserNext, ClientInv
<1>5. CASE UNCHANGED vars
  <2>1. ServerInv' /\ Grows
    BY <1>0, <1>5, ServerStays DEF vars, server
  <2>2. DesktopInv'
    BY <1>2, <1>5, <2>1 DEF vars
  <2>3. status' = status
    BY <1>5 DEF vars, browser, task
  <2> QED
    BY <1>1, <1>5, <2>1, <2>2, <2>3 DEF vars, ClientInv, Stays
<1> QED
  BY <1>3, <1>4, <1>5 DEF Next

(* and it implies the three properties of the run.                          *)
LEMMA ClientsExplained ==
    ASSUME ClientInv
    PROVE  DoneExplained /\ SyncedExplained /\ ShownRuns
<1>1. ShownRuns
  BY DEF ClientInv, TasksOK, ShownOK, ShownRuns
<1>2. \A x : Mixed(x) => x # 0 /\ ~Pure(x)
  <2> TAKE x
  <2>1. \A s \in DOMAIN sess : s # 0
    BY ListedAppend DEF ClientInv, ServerInv
  <2> QED
    BY <2>1 DEF Mixed
<1>3. SyncedExplained
  BY <1>2 DEF ClientInv, DesktopInv, CallOK, SyncedExplained
<1>4. DoneExplained
  BY <1>2 DEF ClientInv, TasksOK, DoneOK, DoneExplained, MixedSession
<1> QED
  BY <1>1, <1>3, <1>4

(* So it always holds.                                                      *)
LEMMA ClientsAlways == Spec => []ClientInv
<1>1. Init => ClientInv
  BY ClientsStart
<1>2. ClientInv /\ [Next]_vars => ClientInv'
  BY ClientsStep
<1> QED
  BY <1>1, <1>2, PTL DEF Spec

(* Every variable of the clients and of the server they share has its type   *)
(* (uploader.go, app.js): a session holds pieces of versions sent to it, by  *)
(* clients it remembers, each cut with its sender's chunk size.              *)
THEOREM TransferTypeCorrect == Spec => [](ServerInv /\ DesktopTypes /\ BrowserTypes)
<1>1. ClientInv => ServerInv /\ DesktopTypes /\ BrowserTypes
  BY DEF ClientInv, DesktopInv, TasksOK, BrowserInv
<1> QED
  BY <1>1, ClientsAlways, PTL

(* A task of the page that shows done (app.js complete, tryInstantUpload)    *)
(* has its file on the server, or was skipped by the user, or was completed  *)
(* with a session that another version or chunk size was sent to as well.   *)
THEOREM DoneIsExplained == Spec => []DoneExplained
<1>1. ClientInv => DoneExplained
  BY ClientsExplained
<1> QED
  BY <1>1, ClientsAlways, PTL

(* A sync that ends well (scanner.go ScanAndUpload, uploader.go UploadFile)   *)
(* leaves what was on the disk when it began, or the file was edited, or the *)
(* oldest row of the name has its size, or its session was mixed.            *)
THEOREM SyncedIsExplained == Spec => []SyncedExplained
<1>1. ClientInv => SyncedExplained
  BY ClientsExplained
<1> QED
  BY <1>1, ClientsAlways, PTL

(* A task that shows as uploading (app.js run) has a run or was cancelled    *)
(* before, and is paused only if it was started twice.                      *)
THEOREM RunsAreShown == Spec => []ShownRuns
<1>1. ClientInv => ShownRuns
  BY ClientsExplained
<1> QED
  BY <1>1, ClientsAlways, PTL

(* What the page shows as done stays done (app.js pause, resume, abort,      *)
(* retry), unless two runs of the task have been under way at a time, or it *)
(* was done while paused and is resumed, and so started again.              *)
THEOREM DoneStaysDone == Spec => DoneStays
<1>1. ClientInv /\ [Next]_vars =>
          [\A b \in Browser :
              status[b] = "done" /\ status'[b] # "done" =>
                  b \in doubled \/ (paused[b] /\ starts'[b] > starts[b])]_vars
  BY ClientsStep DEF Stays
<1> QED
  BY <1>1, ClientsAlways, PTL DEF Spec, DoneStays
=============================================================================
