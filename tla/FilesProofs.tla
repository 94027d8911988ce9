----------------------------- MODULE FilesProofs -----------------------------
(***************************************************************************)
(* Proofs about Files, for any rows, names, spaces, visitors and requests: *)
(* duplicates, names without rows, deleted spaces and the counts of links  *)
(* come about only as the properties say.                                  *)
(***************************************************************************)
EXTENDS Files, FiniteSetTheorems, TLAPS

Entry == [id : Row \cup {None}, name : Name \cup {None}]
FileRow == [state : {"none", "live", "trash"}, name : Name \cup {None},
            space : Space \cup {None}]
Session == [state : {"none", "active", "completed"}, name : Name \cup {None},
            space : Space \cup {None}]
Spot == (Row \cup {None}) \X (((Space \cup {None}) \X (Name \cup {None})) \cup {None})

(* The requests that make a row, and those that have a name of their own.    *)
Inserters == {"completeUpload", "checkUpload", "createText", "mkdir", "agentWrite",
              "saveShare"}
Namers == Inserters \cup Moves \cup {"initUpload"}

Places == {"start", "index", "hit", "miss", "repair", "reuse", "session", "record", "close",
           "charge", "mark", "hash", "find", "insert", "replace", "update", "unmark", "get",
           "soft", "restore", "count", "drop", "link", "visit", "serve", "source", "done",
           "lost"}
RequestTypes ==
    /\ pc \in [Request -> Places]
    /\ name \in [Request -> Name \cup {None}]
    /\ space \in [Request -> Space \cup {None}]
    /\ todo \in [Request -> SUBSET Entry]
    /\ cur \in [Request -> Entry]
    /\ looked \in [Request -> SUBSET Spot]
    /\ session \in [Request -> Session]
    /\ used \in Nat
Completes(r, s) == /\ s \in Request /\ session[s].state # "none"
                   /\ name[r] = session[s].name /\ space[r] = session[s].space
RowTypes ==
    /\ row \in [Row -> FileRow]
    /\ \A x \in Row : row[x].state # "none" => row[x].name \in Name /\ row[x].space \in Space
NameTypes ==
    /\ \A r \in Request : Is(r, Namers) /\ pc[r] # "start" => name[r] \in Name
    /\ \A r \in Request : Is(r, Inserters \cup {"initUpload"}) /\ pc[r] # "start"
                          => space[r] \in Space
    /\ \A r \in Request : \A t \in todo[r] :
          t.id \in Row /\ (Is(r, Moves) => t.name \in Name)
    /\ links \subseteq Request /\ spaces \subseteq Space
    /\ \A r \in Request : session[r].state # "none" =>
          /\ session[r].name \in Name /\ session[r].space \in Space
          /\ Is(r, {"initUpload"}) /\ pc[r] \in {"done", "lost"}
    /\ \A r \in Request : Is(r, {"completeUpload"}) /\ pc[r] \in {"record", "close"} =>
          Completes(r, cur[r].id)
TypeOK == RequestTypes /\ RowTypes /\ NameTypes

FileStep(r) ==
    \/ UploadStep(r) /\ UNCHANGED <<moveVars, shareVars>>
    \/ MoveStep(r) /\ UNCHANGED <<uploadVars, shareVars>>
    \/ ShareStep(r) /\ UNCHANGED <<uploadVars, moveVars>>

LEMMA Steps ==
    Next => plan' = plan /\ (Crash \/ \E r \in Request : FileStep(r) /\ crashed' = crashed)
BY DEF Next, FileStep

(* A step of one request leaves the others where they are.                   *)
Keeps(q) == /\ pc'[q] = pc[q] /\ name'[q] = name[q] /\ space'[q] = space[q]
            /\ todo'[q] = todo[q] /\ cur'[q] = cur[q] /\ looked'[q] = looked[q]

LEMMA OthersKeep ==
    ASSUME RequestTypes, NEW r \in Request, FileStep(r), NEW q \in Request \ {r}
    PROVE  Keeps(q)
<1> USE DEF RequestTypes, Goto, Keeps, history
<1>1. CASE UploadStep(r)
  <2>1. CASE InitUpload(r) \/ CheckUpload(r) \/ CreateTextFile(r) \/ Mkdir(r) \/ AgentWrite(r)
    BY <2>1 DEF InitUpload, CheckUpload, CreateTextFile, Mkdir, AgentWrite, Ask
  <2>2. CASE FileExists(r) \/ RepairMark(r) \/ Mark(r) \/ AccountPATQuota(r, "mark")
    BY <2>2 DEF FileExists, RepairMark, Mark, AccountPATQuota, MarkFileExists
  <2>3. CASE CheckHit(r) \/ CheckMiss(r) \/ CheckFree(r)
    BY <2>3 DEF CheckHit, CheckMiss, CheckFree, FindFileByName, Look
  <2>4. CASE CheckSource(r) \/ CheckOverwrite(r)
    BY <2>4 DEF CheckSource, CheckOverwrite, FindFileByName, Look
  <2>5. CASE FindActiveSessionByHash(r) \/ CreateUploadSession(r) \/ CompleteUpload(r)
             \/ UpdateUploadSessionStatus(r)
    BY <2>5 DEF FindActiveSessionByHash, CreateUploadSession, CompleteUpload,
                UpdateUploadSessionStatus
  <2>6. CASE GetFileByHash(r) \/ NoSource(r) \/ RecordUpload(r)
    BY <2>6 DEF GetFileByHash, NoSource, RecordUpload, CreateFile
  <2>7. CASE ReplaceOld(r) \/ Insert(r, "charge") \/ Insert(r, "done")
    BY <2>7 DEF ReplaceOld, DeleteFile, Insert, CreateFile, GiveUp
  <2> QED BY <1>1, <2>1, <2>2, <2>3, <2>4, <2>5, <2>6, <2>7 DEF UploadStep
<1>2. CASE MoveStep(r)
  <2> USE DEF Take, Onward
  <2>1. CASE Rename(r) \/ MoveDir(r) \/ DeleteFiles(r) \/ DeleteDir(r)
    BY <2>1 DEF Rename, MoveDir, DeleteFiles, DeleteDir
  <2>2. CASE CheckNewName(r) \/ CheckTarget(r) \/ CheckRestored(r)
    BY <2>2 DEF CheckNewName, CheckTarget, CheckRestored, FindFileByName, Look
  <2>3. CASE MoveOne(r) \/ MoveFails(r)
    BY <2>3 DEF MoveOne, MoveFails, UpdateFilename
  <2>4. CASE UnmarkMoved(r) \/ MarkMoved(r) \/ UnmarkDeleted(r) \/ UnmarkDir(r)
             \/ MarkRestored(r)
    BY <2>4 DEF UnmarkMoved, MarkMoved, UnmarkDeleted, UnmarkDir, MarkRestored,
                MarkFileExists, UnmarkFileExists
  <2>5. CASE GetFile(r) \/ DeleteOne(r) \/ AgentDeleteOne(r) \/ DeleteFilesByPrefix(r)
    BY <2>5 DEF GetFile, DeleteOne, AgentDeleteOne, DeleteFilesByPrefix, DeleteFile, GiveUp
  <2>6. CASE RestoreFile(r) \/ RestoreOne(r) \/ PermanentlyDeleteFile(r)
    BY <2>6 DEF RestoreFile, RestoreOne, PermanentlyDeleteFile, RestoreRow, GiveUp
  <2>7. CASE CreateSpace(r) \/ EnsureUserDefaultSpace(r) \/ DeleteSpace(r)
             \/ CountFilesBySpace(r) \/ DropSpace(r)
    BY <2>7 DEF CreateSpace, EnsureUserDefaultSpace, DeleteSpace, CountFilesBySpace,
                DropSpace
  <2> QED BY <1>2, <2>1, <2>2, <2>3, <2>4, <2>5, <2>6, <2>7 DEF MoveStep
<1>3. CASE ShareStep(r)
  <2>1. CASE CreateShare(r) \/ InsertShare(r) \/ DeleteShare(r) \/ GetShare(r)
    BY <2>1 DEF CreateShare, InsertShare, DeleteShare, GetShare
  <2>2. CASE RecordVisit(r) \/ IncrementCount(r) \/ Serve(r)
    BY <2>2 DEF RecordVisit, IncrementCount, Serve
  <2>3. CASE SaveShare(r) \/ CheckInShare(r) \/ TryName(r) \/ InsertSaved(r)
    BY <2>3 DEF SaveShare, CheckInShare, TryName, InsertSaved, FindFileByName, Look,
                CreateFile, GiveUp
  <2> QED BY <1>3, <2>1, <2>2, <2>3 DEF ShareStep
<1> QED BY <1>1, <1>2, <1>3 DEF FileStep
-----------------------------------------------------------------------------
(* What a step of a request does to the table.                               *)
Made(r) ==
    /\ Is(r, Inserters) /\ pc[r] \in {"insert", "record"}
    /\ pc'[r] \in {"charge", "done", "close"}
    /\ row' = [row EXCEPT ![r] = [state |-> "live", name |-> name[r], space |-> space[r]]]
Renamed(r) ==
    /\ Is(r, Moves) /\ pc[r] = "update"
    /\ \E t \in todo[r] :
          row' = IF row[t.id].state = "none" THEN row
                 ELSE [row EXCEPT ![t.id].name = NewName(r, t)]
Dropped ==
    /\ row' \in [Row -> FileRow]
    /\ \A x \in Row : \/ row'[x] = row[x]
                      \/ Live(x) /\ row'[x] = [row[x] EXCEPT !.state = "trash"]
Restored(r) ==
    /\ Is(r, {"restore", "agentRestore"}) /\ pc[r] = "restore"
    /\ row[cur[r].id].state = "trash"
    /\ row' = [row EXCEPT ![cur[r].id].state = "live"]
Purged == \E x \in Row : row[x].state = "trash" /\ row' = [row EXCEPT ![x] = Absent]
RowStep(r) == row' = row \/ Made(r) \/ Renamed(r) \/ Dropped \/ Restored(r) \/ Purged

LEMMA Deletes ==
    ASSUME RowTypes, NEW ts, NEW unmarks \in BOOLEAN, DeleteFile(ts, unmarks)
    PROVE  Dropped
<1> DEFINE gone(x) == \E t \in ts : Live(t.id) /\ t.id = x
<1>1. row' = [x \in Row |-> IF gone(x) THEN [row[x] EXCEPT !.state = "trash"] ELSE row[x]]
  BY Zenon DEF DeleteFile
<1>2. ASSUME NEW x \in Row
      PROVE  /\ \/ row'[x] = row[x]
                \/ Live(x) /\ row'[x] = [row[x] EXCEPT !.state = "trash"]
             /\ row'[x] \in FileRow
  <2>1. gone(x) => Live(x)
    OBVIOUS
  <2>2. row[x] \in FileRow
    BY DEF RowTypes
  <2>3. [row[x] EXCEPT !.state = "trash"] \in FileRow
    BY <2>2 DEF FileRow
  <2> HIDE DEF gone
  <2> QED BY <1>1, <2>1, <2>2, <2>3
<1> HIDE DEF gone
<1> QED BY <1>1, <1>2 DEF Dropped

LEMMA RowSteps ==
    ASSUME RequestTypes, RowTypes, NEW r \in Request, FileStep(r) PROVE RowStep(r)
<1> USE DEF RowStep
<1>1. CASE UploadStep(r)
  <2>1. CASE InitUpload(r) \/ CheckUpload(r) \/ CreateTextFile(r) \/ Mkdir(r) \/ AgentWrite(r)
    BY <2>1 DEF InitUpload, CheckUpload, CreateTextFile, Mkdir, AgentWrite, Ask
  <2>2. CASE FileExists(r) \/ RepairMark(r) \/ Mark(r) \/ AccountPATQuota(r, "mark")
    BY <2>2 DEF FileExists, RepairMark, Mark, AccountPATQuota, MarkFileExists
  <2>3. CASE CheckHit(r) \/ CheckMiss(r) \/ CheckFree(r) \/ CheckSource(r)
             \/ CheckOverwrite(r)
    BY <2>3 DEF CheckHit, CheckMiss, CheckFree, CheckSource, CheckOverwrite, FindFileByName
  <2>4. CASE FindActiveSessionByHash(r) \/ CreateUploadSession(r) \/ CompleteUpload(r)
             \/ UpdateUploadSessionStatus(r) \/ GetFileByHash(r) \/ NoSource(r)
    BY <2>4 DEF FindActiveSessionByHash, CreateUploadSession, CompleteUpload,
                UpdateUploadSessionStatus, GetFileByHash, NoSource
  <2>5. CASE ReplaceOld(r)
    BY <2>5, Deletes DEF ReplaceOld
  <2>6. CASE RecordUpload(r)
    BY <2>6 DEF RecordUpload, CreateFile, Made, At, Is, Inserters, Goto, RequestTypes
  <2>7. CASE Is(r, Inserters) /\ (Insert(r, "charge") \/ Insert(r, "done"))
    BY <2>7 DEF Insert, CreateFile, Made, Goto, GiveUp, RequestTypes
  <2> QED BY <1>1, <2>1, <2>2, <2>3, <2>4, <2>5, <2>6, <2>7
          DEF UploadStep, Is, Inserters
<1>2. CASE MoveStep(r)
  <2>1. CASE Rename(r) \/ MoveDir(r) \/ DeleteFiles(r) \/ DeleteDir(r) \/ GetFile(r)
             \/ RestoreFile(r) \/ MoveFails(r)
    BY <2>1 DEF Rename, MoveDir, DeleteFiles, DeleteDir, GetFile, RestoreFile, MoveFails
  <2>2. CASE CheckNewName(r) \/ CheckTarget(r) \/ CheckRestored(r)
    BY <2>2 DEF CheckNewName, CheckTarget, CheckRestored, FindFileByName
  <2>3. CASE MoveOne(r)
    BY <2>3 DEF MoveOne, UpdateFilename, Renamed
  <2>4. CASE UnmarkMoved(r) \/ MarkMoved(r) \/ UnmarkDeleted(r) \/ UnmarkDir(r)
             \/ MarkRestored(r)
    BY <2>4 DEF UnmarkMoved, MarkMoved, UnmarkDeleted, UnmarkDir, MarkRestored,
                MarkFileExists, UnmarkFileExists
  <2>5. CASE DeleteOne(r) \/ AgentDeleteOne(r) \/ DeleteFilesByPrefix(r)
    BY <2>5, Deletes DEF DeleteOne, AgentDeleteOne, DeleteFilesByPrefix, GiveUp
  <2>6. CASE RestoreOne(r)
    BY <2>6 DEF RestoreOne, RestoreRow, GiveUp, Restored
  <2>7. CASE PermanentlyDeleteFile(r)
    BY <2>7 DEF PermanentlyDeleteFile, Trashed, Purged
  <2>8. CASE CreateSpace(r) \/ EnsureUserDefaultSpace(r) \/ DeleteSpace(r)
             \/ CountFilesBySpace(r) \/ DropSpace(r)
    BY <2>8 DEF CreateSpace, EnsureUserDefaultSpace, DeleteSpace, CountFilesBySpace,
                DropSpace
  <2> QED BY <1>2, <2>1, <2>2, <2>3, <2>4, <2>5, <2>6, <2>7, <2>8 DEF MoveStep
<1>3. CASE ShareStep(r)
  <2>1. CASE CreateShare(r) \/ InsertShare(r) \/ DeleteShare(r) \/ GetShare(r)
             \/ RecordVisit(r) \/ IncrementCount(r) \/ Serve(r)
    BY <2>1 DEF CreateShare, InsertShare, DeleteShare, GetShare, RecordVisit,
                IncrementCount, Serve
  <2>2. CASE SaveShare(r) \/ CheckInShare(r) \/ TryName(r)
    BY <2>2 DEF SaveShare, CheckInShare, TryName, FindFileByName
  <2>3. CASE InsertSaved(r)
    BY <2>3 DEF InsertSaved, CreateFile, GiveUp, Made, At, Is, Inserters, Goto, RequestTypes
  <2> QED BY <1>3, <2>1, <2>2, <2>3 DEF ShareStep
<1> QED BY <1>1, <1>2, <1>3 DEF FileStep
-----------------------------------------------------------------------------
(* A request makes one row: none of its own before, no other after.          *)
Through(x) == Is(x, Inserters) /\ pc[x] \in {"close", "charge", "mark", "done", "lost"}
FreshInv == \A x \in Request : row[x].state # "none" => Through(x)

LEMMA ThroughStays ==
    ASSUME RequestTypes, plan' = plan, NEW r \in Request, FileStep(r), NEW x \in Request,
           Through(x)
    PROVE  Through(x)'
<1>1. CASE x # r
  BY <1>1, OthersKeep DEF Through, Keeps, Is
<1>2. CASE x = r
  <2> SUFFICES pc'[r] \in {"close", "charge", "mark", "done", "lost"}
    BY <1>2 DEF Through, Is
  <2> USE <1>2 DEF Through, RequestTypes, Goto, Is, At, Inserters, Charged
  <2>1. CASE UploadStep(r)
    BY <2>1 DEF UploadStep, InitUpload, CheckUpload, CreateTextFile, Mkdir, AgentWrite, Ask,
         FileExists, RepairMark, Mark, AccountPATQuota, CheckHit, CheckMiss, CheckFree,
         CheckSource, CheckOverwrite, FindActiveSessionByHash, CreateUploadSession,
         CompleteUpload, UpdateUploadSessionStatus, GetFileByHash, NoSource, ReplaceOld,
         RecordUpload, Insert
  <2>2. CASE MoveStep(r)
    BY <2>2 DEF MoveStep, Rename, MoveDir, DeleteFiles, DeleteDir, GetFile, RestoreFile,
         MoveFails, CheckNewName, CheckTarget, CheckRestored, MoveOne, UnmarkMoved,
         MarkMoved, UnmarkDeleted, UnmarkDir, MarkRestored, DeleteOne, AgentDeleteOne,
         DeleteFilesByPrefix, RestoreOne, PermanentlyDeleteFile, CreateSpace,
         EnsureUserDefaultSpace, DeleteSpace, CountFilesBySpace, DropSpace, Moves
  <2>3. CASE ShareStep(r)
    BY <2>3 DEF ShareStep, CreateShare, InsertShare, DeleteShare, GetShare, RecordVisit,
         IncrementCount, Serve, SaveShare, CheckInShare, TryName, InsertSaved
  <2> QED BY <2>1, <2>2, <2>3 DEF FileStep
<1> QED BY <1>1, <1>2

LEMMA FreshStays ==
    ASSUME RequestTypes, RowTypes, FreshInv, Next PROVE FreshInv'
<1>0. plan' = plan /\ (Crash \/ \E r \in Request : FileStep(r))
  BY Steps
<1>1. CASE Crash
  <2>1. \A x \in Request : row'[x].state = row[x].state
    BY <1>1 DEF Crash, migrateAssignDefaultSpace, RowTypes, FileRow, Row
  <2>2. \A x \in Request : Through(x) => Through(x)'
    BY <1>0, <1>1 DEF Crash, Through, Running, Is, RequestTypes
  <2> QED BY <2>1, <2>2 DEF FreshInv
<1>2. ASSUME NEW r \in Request, FileStep(r), NEW x \in Request, row'[x].state # "none"
      PROVE  Through(x)'
  <2>0. x \in Row /\ r \in Row /\ row[x] \in FileRow
    BY DEF Row, RowTypes
  <2>1. row[x].state # "none" => Through(x)'
    BY <1>0, <1>2, ThroughStays DEF FreshInv
  <2>2. CASE Made(r)
    <3>1. x # r => row'[x] = row[x]
      BY <2>0, <2>2 DEF Made, RowTypes
    <3>2. x = r => Through(x)'
      BY <1>0, <2>2 DEF Made, Through, Is
    <3> QED BY <1>2, <2>1, <3>1, <3>2
  <2>3. CASE Renamed(r)
    <3>1. row'[x].state = row[x].state
      BY <2>0, <2>3 DEF Renamed, RowTypes, FileRow
    <3> QED BY <1>2, <2>1, <3>1
  <2>4. CASE Dropped
    <3>1. Live(x) => row[x].state # "none"
      BY DEF Live
    <3> QED BY <1>2, <2>0, <2>1, <2>4, <3>1 DEF Dropped
  <2>5. CASE Restored(r)
    <3>1. row'[x].state = row[x].state \/ row[x].state = "trash"
      BY <2>0, <2>5 DEF Restored, RowTypes, FileRow
    <3> QED BY <1>2, <2>1, <3>1
  <2>6. CASE Purged
    <3>1. row'[x] = row[x] \/ row'[x] = Absent
      BY <2>0, <2>6 DEF Purged, RowTypes
    <3> QED BY <1>2, <2>1, <3>1 DEF Absent
  <2> QED BY <1>2, <2>1, <2>2, <2>3, <2>4, <2>5, <2>6, RowSteps DEF RowStep
<1> QED BY <1>0, <1>1, <1>2 DEF FreshInv
-----------------------------------------------------------------------------
LEMMA SnapshotTypes ==
    ASSUME RowTypes, NEW x \in Row
    PROVE  /\ Snapshot(x) \in Entry
           /\ row[x].state # "none" => /\ Snapshot(x).id \in Row /\ Snapshot(x).name \in Name
<1>1. row[x] \in FileRow /\ (row[x].state # "none" => row[x].name \in Name)
  BY DEF RowTypes
<1>2. row[x].name \in Name \cup {None}
  BY <1>1 DEF FileRow
<1> QED BY <1>1, <1>2 DEF Snapshot, Entry

LEMMA LookTypes ==
    ASSUME RequestTypes, RowTypes, NEW r \in Request, Look(r)
    PROVE  looked' \in [Request -> SUBSET Spot]
<1>1. ASSUME NEW x \in Row PROVE <<x, Place(x)>> \in Spot
  <2>1. row[x] \in FileRow
    BY DEF RowTypes
  <2>2. row[x].space \in Space \cup {None} /\ row[x].name \in Name \cup {None}
    BY <2>1 DEF FileRow
  <2> QED BY <2>2 DEF Spot, Place
<1>2. {<<x, Place(x)>> : x \in {y \in Row : Live(y)}} \in SUBSET Spot
  BY <1>1
<1> QED BY <1>2 DEF Look, RequestTypes

LEMMA RequestTypesStay ==
    ASSUME TypeOK, RowsAssumption, NEW r \in Request, FileStep(r) PROVE RequestTypes'
<1>0. RequestTypes /\ RowTypes /\ NameTypes
  BY DEF TypeOK
<1>l. links \subseteq Request /\ spaces \subseteq Space
  BY <1>0 DEF NameTypes
<1>t. \A t \in todo[r] : t.id \in Row
  BY <1>0 DEF NameTypes
<1>n. NoSession \in Session /\ Nothing \in Entry
  BY DEF NoSession, Session, Nothing, Entry
<1> USE <1>0 DEF RequestTypes, Goto, Places, history, uploadVars
<1>1. CASE UploadStep(r)
  <2>1. CASE InitUpload(r) \/ CheckUpload(r) \/ CreateTextFile(r) \/ Mkdir(r) \/ AgentWrite(r)
    <3>1. Asked \subseteq Name /\ Dir \X {Keep} \subseteq Name
      BY RowsAssumption DEF Name, Base
    <3>2. /\ \E n \in Name, s \in Space :
                /\ name' = [name EXCEPT ![r] = n] /\ space' = [space EXCEPT ![r] = s]
          /\ UNCHANGED <<todo, cur, looked, session, used>>
      BY <2>1, <3>1 DEF InitUpload, CheckUpload, CreateTextFile, Mkdir, AgentWrite, Ask
    <3>3. \E then \in Places : pc' = [pc EXCEPT ![r] = then]
      BY <2>1 DEF InitUpload, CheckUpload, CreateTextFile, Mkdir, AgentWrite, Ask
    <3>4. /\ pc' \in [Request -> Places] /\ name' \in [Request -> Name \cup {None}]
          /\ space' \in [Request -> Space \cup {None}]
      BY <3>2, <3>3
    <3> QED BY <3>2, <3>4
  <2>2. CASE FileExists(r) \/ RepairMark(r) \/ Mark(r)
    BY <2>2 DEF FileExists, RepairMark, Mark, MarkFileExists
  <2>2b. CASE AccountPATQuota(r, "mark")
    <3>1. used' \in Nat
      BY <2>2b DEF AccountPATQuota
    <3>2. pc' \in [Request -> Places] /\ UNCHANGED <<name, space, todo, cur, looked, session>>
      BY <2>2b DEF AccountPATQuota
    <3> QED BY <3>1, <3>2
  <2>3. CASE CheckHit(r) \/ CheckMiss(r) \/ CheckFree(r)
    <3>1. looked' \in [Request -> SUBSET Spot]
      BY <2>3, LookTypes DEF CheckHit, CheckMiss, CheckFree, FindFileByName
    <3> QED BY <2>3, <3>1 DEF CheckHit, CheckMiss, CheckFree
  <2>4. CASE CheckSource(r)
    <3>1. looked' \in [Request -> SUBSET Spot]
      BY <2>4, LookTypes DEF CheckSource, FindFileByName
    <3> QED BY <2>4, <3>1 DEF CheckSource
  <2>5. CASE CheckOverwrite(r)
    <3>1. looked' \in [Request -> SUBSET Spot]
      BY <2>5, LookTypes DEF CheckOverwrite, FindFileByName
    <3>2. \A found \in Answers(space[r], name[r]) : found \subseteq Row
      BY DEF Answers, LiveAt
    <3>3. cur' \in [Request -> Entry]
      BY <2>5, <3>2, SnapshotTypes DEF CheckOverwrite
    <3> QED BY <2>5, <3>1, <3>3 DEF CheckOverwrite
  <2>6. CASE FindActiveSessionByHash(r)
    BY <2>6 DEF FindActiveSessionByHash
  <2>7. CASE CreateUploadSession(r)
    <3>1. [state |-> "active", name |-> name[r], space |-> space[r]] \in Session
      BY DEF Session
    <3>2. session' \in [Request -> Session]
      BY <2>7, <3>1 DEF CreateUploadSession
    <3> QED BY <2>7, <3>2 DEF CreateUploadSession
  <2>8. CASE CompleteUpload(r)
    <3>1. PICK s \in Request :
             /\ cur' = [cur EXCEPT ![r] = [id |-> s, name |-> session[s].name]]
             /\ name' = [name EXCEPT ![r] = session[s].name]
             /\ space' = [space EXCEPT ![r] = session[s].space]
      BY <2>8 DEF CompleteUpload
    <3>2. session[s] \in Session /\ s \in Row
      BY DEF Row
    <3>3. session[s].name \in Name \cup {None} /\ session[s].space \in Space \cup {None}
      BY <3>2 DEF Session
    <3>4. [id |-> s, name |-> session[s].name] \in Entry
      BY <3>2, <3>3 DEF Entry
    <3>5. /\ cur' \in [Request -> Entry] /\ name' \in [Request -> Name \cup {None}]
          /\ space' \in [Request -> Space \cup {None}]
      BY <3>1, <3>3, <3>4
    <3> QED BY <2>8, <3>5 DEF CompleteUpload
  <2>9. CASE UpdateUploadSessionStatus(r)
    <3>1. \A s \in Request : [session[s] EXCEPT !.state = "completed"] \in Session
      BY DEF Session
    <3>2. session' \in [Request -> Session]
      BY <2>9, <3>1 DEF UpdateUploadSessionStatus
    <3> QED BY <2>9, <3>2 DEF UpdateUploadSessionStatus
  <2>10. CASE GetFileByHash(r) \/ NoSource(r)
    <3>1. cur' \in [Request -> Entry]
      BY <2>10, SnapshotTypes DEF GetFileByHash, NoSource
    <3> QED BY <2>10, <3>1 DEF GetFileByHash, NoSource
  <2>11. CASE RecordUpload(r) \/ Insert(r, "charge") \/ Insert(r, "done")
    BY <2>11 DEF RecordUpload, Insert, CreateFile, GiveUp
  <2>12. CASE ReplaceOld(r)
    BY <2>12 DEF ReplaceOld, DeleteFile
  <2> QED BY <1>1, <2>1, <2>2, <2>2b, <2>3, <2>4, <2>5, <2>6, <2>7, <2>8, <2>9, <2>10, <2>11,
             <2>12 DEF UploadStep
<1>2. CASE MoveStep(r) /\ UNCHANGED <<session, used>>
  <2> USE <1>2 DEF Take, Onward
  <2>s. \A x \in Row : Live(x) \/ row[x].state = "trash" => row[x].space \in Space
    BY DEF RowTypes, Live
  <2>1. CASE Rename(r)
    <3>1. Asked \subseteq Name /\ LiveRows \subseteq Row
      BY RowsAssumption DEF LiveRows
    <3>2. PICK x \in LiveRows, n \in Asked :
             /\ todo' = [todo EXCEPT ![r] = {Snapshot(x)}] /\ name' = [name EXCEPT ![r] = n]
             /\ space' = [space EXCEPT ![r] = row[x].space]
      BY <2>1 DEF Rename
    <3>3. Snapshot(x) \in Entry /\ row[x].space \in Space
      BY <2>s, <3>1, SnapshotTypes DEF LiveRows
    <3>4. /\ todo' \in [Request -> SUBSET Entry] /\ name' \in [Request -> Name \cup {None}]
          /\ space' \in [Request -> Space \cup {None}]
      BY <3>1, <3>2, <3>3
    <3>5. pc' \in [Request -> Places] /\ UNCHANGED <<cur, looked>>
      BY <2>1 DEF Rename
    <3> QED BY <3>4, <3>5
  <2>2. CASE MoveDir(r)
    <3>1. PICK s \in Space, from \in Dir, to \in Dir :
             /\ todo' = [todo EXCEPT ![r] = {Snapshot(x) : x \in InDir(s, from)}]
             /\ name' = [name EXCEPT ![r] = <<to, Keep>>] /\ space' = [space EXCEPT ![r] = s]
      BY <2>2 DEF MoveDir
    <3>2. {Snapshot(x) : x \in InDir(s, from)} \in SUBSET Entry
      BY SnapshotTypes DEF InDir, LiveIn
    <3>3. <<to, Keep>> \in Name
      BY DEF Name, Base
    <3>4. /\ todo' \in [Request -> SUBSET Entry] /\ name' \in [Request -> Name \cup {None}]
          /\ space' \in [Request -> Space \cup {None}]
      BY <3>1, <3>2, <3>3
    <3>5. pc' \in [Request -> Places] /\ UNCHANGED <<cur, looked>>
      BY <2>2 DEF MoveDir
    <3> QED BY <3>4, <3>5
  <2>3. CASE CheckNewName(r) \/ CheckTarget(r) \/ CheckRestored(r)
    <3>1. looked' \in [Request -> SUBSET Spot]
      BY <2>3, LookTypes DEF CheckNewName, CheckTarget, CheckRestored, FindFileByName
    <3>2. pc' \in [Request -> Places] /\ UNCHANGED <<name, space, todo, cur>>
      BY <2>3 DEF CheckNewName, CheckTarget, CheckRestored
    <3> QED BY <3>1, <3>2
  <2>4. CASE MoveOne(r)
    <3>1. PICK t \in todo[r] : todo' = [todo EXCEPT ![r] = todo[r] \ {t}]
                               /\ cur' = [cur EXCEPT ![r] = t]
      BY <2>4 DEF MoveOne
    <3>2. todo' \in [Request -> SUBSET Entry] /\ cur' \in [Request -> Entry]
      BY <3>1
    <3>3. pc' \in [Request -> Places] /\ UNCHANGED <<name, space, looked>>
      BY <2>4 DEF MoveOne, UpdateFilename
    <3> QED BY <3>2, <3>3
  <2>5. CASE MoveFails(r)
    BY <2>5 DEF MoveFails
  <2>6. CASE UnmarkMoved(r) \/ MarkMoved(r) \/ UnmarkDeleted(r) \/ MarkRestored(r)
    BY <2>6 DEF UnmarkMoved, MarkMoved, UnmarkDeleted, MarkRestored, MarkFileExists,
                UnmarkFileExists
  <2>7. CASE UnmarkDir(r)
    BY <2>7 DEF UnmarkDir, UnmarkFileExists
  <2>8. CASE DeleteFiles(r)
    <3>1. PICK xs \in SUBSET LiveRows : todo' = [todo EXCEPT ![r] = {Snapshot(x) : x \in xs}]
      BY <2>8 DEF DeleteFiles
    <3>2. {Snapshot(x) : x \in xs} \in SUBSET Entry
      BY SnapshotTypes DEF LiveRows
    <3>3. todo' \in [Request -> SUBSET Entry]
      BY <3>1, <3>2
    <3> QED BY <2>8, <3>3 DEF DeleteFiles
  <2>9. CASE GetFile(r)
    <3>1. \A t \in todo[r] : Live(t.id) /\ t.id \in Row => Snapshot(t.id) \in Entry
      BY SnapshotTypes
    <3>2. todo' \in [Request -> SUBSET Entry]
      BY <2>9 DEF GetFile
    <3>3. cur' \in [Request -> Entry]
      BY <1>t, <2>9, <3>1 DEF GetFile
    <3> QED BY <2>9, <3>2, <3>3 DEF GetFile
  <2>10. CASE DeleteOne(r) \/ AgentDeleteOne(r) \/ DeleteFilesByPrefix(r)
    BY <2>10 DEF DeleteOne, AgentDeleteOne, DeleteFilesByPrefix, DeleteFile, GiveUp
  <2>11. CASE DeleteDir(r)
    <3>1. PICK s \in Space, d \in Dir :
             todo' = [todo EXCEPT ![r] = {Snapshot(x) : x \in InDir(s, d)}]
      BY <2>11 DEF DeleteDir
    <3>2. {Snapshot(x) : x \in InDir(s, d)} \in SUBSET Entry
      BY SnapshotTypes DEF InDir, LiveIn
    <3>3. todo' \in [Request -> SUBSET Entry]
      BY <3>1, <3>2
    <3>4. pc' \in [Request -> Places] /\ UNCHANGED <<name, space, cur, looked>>
      BY <2>11 DEF DeleteDir
    <3> QED BY <3>3, <3>4
  <2>12. CASE RestoreFile(r)
    <3>1. PICK x \in Trashed : /\ cur' = [cur EXCEPT ![r] = Snapshot(x)]
                               /\ space' = [space EXCEPT ![r] = row[x].space]
      BY <2>12 DEF RestoreFile
    <3>2. Snapshot(x) \in Entry /\ row[x].space \in Space
      BY <2>s, SnapshotTypes DEF Trashed
    <3>3. cur' \in [Request -> Entry] /\ space' \in [Request -> Space \cup {None}]
      BY <3>1, <3>2
    <3> QED BY <2>12, <3>3 DEF RestoreFile
  <2>13. CASE RestoreOne(r) \/ PermanentlyDeleteFile(r)
    BY <2>13 DEF RestoreOne, PermanentlyDeleteFile, RestoreRow, GiveUp
  <2>14. CASE CreateSpace(r) \/ EnsureUserDefaultSpace(r) \/ CountFilesBySpace(r)
              \/ DropSpace(r)
    BY <2>14 DEF CreateSpace, EnsureUserDefaultSpace, CountFilesBySpace, DropSpace
  <2>15. CASE DeleteSpace(r)
    BY <1>l, <2>15 DEF DeleteSpace
  <2> QED BY <1>2, <2>1, <2>2, <2>3, <2>4, <2>5, <2>6, <2>7, <2>8, <2>9, <2>10, <2>11,
             <2>12, <2>13, <2>14, <2>15 DEF MoveStep
<1>3. CASE ShareStep(r) /\ UNCHANGED <<session, used>>
  <2> USE <1>3
  <2>1. CASE CreateShare(r)
    <3>1. CASE \E x \in {y \in Row : Live(y)} :
                  cur' = [cur EXCEPT ![r] = Snapshot(x)] /\ UNCHANGED <<name, space>>
      <4>1. cur' \in [Request -> Entry]
        BY <3>1, SnapshotTypes
      <4> QED BY <2>1, <3>1, <4>1 DEF CreateShare
    <3>2. CASE \E s \in Space \ {Nowhere}, d \in Dir :
                  /\ name' = [name EXCEPT ![r] = <<d, Keep>>]
                  /\ space' = [space EXCEPT ![r] = s] /\ UNCHANGED cur
      <4>1. \A d \in Dir : <<d, Keep>> \in Name
        BY DEF Name, Base
      <4>2. /\ name' \in [Request -> Name \cup {None}]
            /\ space' \in [Request -> Space \cup {None}]
        BY <3>2, <4>1
      <4>3. pc' \in [Request -> Places] /\ UNCHANGED <<cur, todo, looked>>
        BY <2>1, <3>2 DEF CreateShare
      <4> QED BY <4>2, <4>3
    <3> QED BY <2>1, <3>1, <3>2 DEF CreateShare
  <2>2. CASE InsertShare(r) \/ DeleteShare(r) \/ RecordVisit(r) \/ IncrementCount(r)
             \/ Serve(r) \/ InsertSaved(r)
    BY <2>2 DEF InsertShare, DeleteShare, RecordVisit, IncrementCount, Serve, InsertSaved,
                CreateFile, GiveUp
  <2>3. CASE GetShare(r)
    <3>1. \A s \in Request : [id |-> s, name |-> None] \in Entry
      BY DEF Entry, Row
    <3>2. cur' \in [Request -> Entry]
      BY <2>3, <3>1, <1>l DEF GetShare
    <3> QED BY <2>3, <3>2 DEF GetShare
  <2>4. CASE SaveShare(r)
    <3>1. PICK s \in links, x \in Row, to \in Space, d \in Dir :
             /\ cur' = [cur EXCEPT ![r] = [id |-> s, name |-> None]]
             /\ todo' = [todo EXCEPT ![r] = {[id |-> x, name |-> None]}]
             /\ space' = [space EXCEPT ![r] = to]
             /\ name' = [name EXCEPT ![r] = <<d, Keep>>]
      BY <2>4 DEF SaveShare
    <3>2. [id |-> s, name |-> None] \in Entry /\ [id |-> x, name |-> None] \in Entry
      BY <1>l DEF Entry, Row
    <3>3. <<d, Keep>> \in Name
      BY DEF Name, Base
    <3>4. /\ cur' \in [Request -> Entry] /\ todo' \in [Request -> SUBSET Entry]
          /\ space' \in [Request -> Space \cup {None}]
          /\ name' \in [Request -> Name \cup {None}]
      BY <3>1, <3>2, <3>3
    <3>5. pc' \in [Request -> Places] /\ UNCHANGED looked
      BY <2>4 DEF SaveShare
    <3> QED BY <3>4, <3>5
  <2>5. CASE CheckInShare(r) /\ plan[r].kind = "saveShare"
    <3>1. name[r] \in Name
      BY <2>5 DEF CheckInShare, At, NameTypes, Is, Namers, Inserters
    <3>2. \A x \in Row : Live(x) => <<name[r][1], row[x].name[2]>> \in Name
      BY <3>1 DEF Name, Live, RowTypes
    <3>3. name' \in [Request -> Name \cup {None}]
      <4>1. PICK t \in todo[r] :
               \/ Live(t.id) /\ name' = [name EXCEPT ![r] = <<name[r][1], row[t.id].name[2]>>]
               \/ name' = name
        BY <2>5 DEF CheckInShare
      <4>2. t.id \in Row
        BY <2>5, <1>t DEF CheckInShare, At, Is
      <4> QED BY <3>2, <4>1, <4>2
    <3>4. pc' \in [Request -> Places] /\ UNCHANGED <<space, todo, cur, looked>>
      BY <2>5 DEF CheckInShare
    <3> QED BY <3>3, <3>4
  <2>6. CASE TryName(r) /\ plan[r].kind = "saveShare"
    <3>1. looked' \in [Request -> SUBSET Spot]
      BY <2>6, LookTypes DEF TryName, FindFileByName
    <3>2. name[r] \in Name
      BY <2>6 DEF TryName, At, NameTypes, Is, Namers, Inserters
    <3>3. name' \in [Request -> Name \cup {None}]
      <4>1. PICK i \in DOMAIN Bases :
               \/ name' = name
               \/ i < Len(Bases) /\ name' = [name EXCEPT ![r] = [name[r] EXCEPT ![2] = Bases[i + 1]]]
        BY <2>6 DEF TryName
      <4>2. i < Len(Bases) => i + 1 \in DOMAIN Bases
        BY RowsAssumption
      <4>3. \A j \in DOMAIN Bases : [name[r] EXCEPT ![2] = Bases[j]] \in Name
        BY <3>2 DEF Name, Base
      <4> QED BY <4>1, <4>2, <4>3
    <3>4. pc' \in [Request -> Places] /\ UNCHANGED <<space, todo, cur>>
      BY <2>6 DEF TryName
    <3> QED BY <3>1, <3>3, <3>4
  <2> QED BY <1>3, <2>1, <2>2, <2>3, <2>4, <2>5, <2>6 DEF ShareStep, CheckInShare, TryName, At
<1> QED BY <1>1, <1>2, <1>3 DEF FileStep
-----------------------------------------------------------------------------
LEMMA RowTypesStay ==
    ASSUME TypeOK, NEW r \in Request, FileStep(r) PROVE RowTypes'
<1>0. RequestTypes /\ RowTypes /\ NameTypes /\ r \in Row
  BY DEF TypeOK, Row
<1>1. CASE row' = row
  BY <1>0, <1>1 DEF RowTypes
<1>2. CASE Made(r)
  <2>1. name[r] \in Name /\ space[r] \in Space
    BY <1>0, <1>2 DEF Made, NameTypes, Is, Namers
  <2>2. [state |-> "live", name |-> name[r], space |-> space[r]] \in FileRow
    BY <2>1 DEF FileRow
  <2> QED BY <1>0, <1>2, <2>1, <2>2 DEF Made, RowTypes
<1>3. CASE Renamed(r)
  <2>1. PICK t \in todo[r] : row' = IF row[t.id].state = "none" THEN row
                                    ELSE [row EXCEPT ![t.id].name = NewName(r, t)]
    BY <1>3 DEF Renamed
  <2>2. name[r] \in Name /\ t.name \in Name /\ t.id \in Row
    BY <1>0, <1>3 DEF Renamed, NameTypes, Is, Namers
  <2>3. NewName(r, t) \in Name
    BY <2>2 DEF NewName, Name
  <2> DEFINE new == [row[t.id] EXCEPT !.name = NewName(r, t)]
  <2>4. row[t.id] \in FileRow /\ (row[t.id].state # "none" => row[t.id].space \in Space)
    BY <1>0, <2>2 DEF RowTypes
  <2>5. /\ new \in FileRow /\ new.name \in Name /\ new.state = row[t.id].state
        /\ new.space = row[t.id].space
    BY <2>3, <2>4 DEF FileRow
  <2>6. row' = row \/ (row' = [row EXCEPT ![t.id] = new] /\ row[t.id].state # "none")
    BY <2>1
  <2> HIDE DEF new
  <2> QED BY <1>0, <2>2, <2>4, <2>5, <2>6 DEF RowTypes
<1>4. CASE Dropped
  <2>1. \A x \in Row : /\ row[x] \in FileRow /\ (Live(x) => row[x].state # "none")
                       /\ [row[x] EXCEPT !.state = "trash"].name = row[x].name
                       /\ [row[x] EXCEPT !.state = "trash"].space = row[x].space
    BY <1>0 DEF RowTypes, FileRow, Live
  <2>2. \A x \in Row : /\ row'[x].name = row[x].name /\ row'[x].space = row[x].space
                       /\ row'[x].state # "none" => row[x].state # "none"
    BY <1>4, <2>1 DEF Dropped
  <2>3. row' \in [Row -> FileRow]
    BY <1>4 DEF Dropped
  <2> QED BY <1>0, <2>2, <2>3 DEF RowTypes
<1>5. CASE Restored(r)
  <2> DEFINE x == cur[r].id  new == [row[cur[r].id] EXCEPT !.state = "live"]
  <2>1. row' = row \/ (x \in Row /\ row' = [row EXCEPT ![x] = new])
    BY <1>0, <1>5 DEF Restored, RowTypes
  <2>2. x \in Row => new \in FileRow /\ new.name = row[x].name /\ new.space = row[x].space
    BY <1>0 DEF RowTypes, FileRow
  <2>3. x \in Row => row[x].name \in Name /\ row[x].space \in Space
    BY <1>0, <1>5 DEF Restored, RowTypes
  <2> HIDE DEF x, new
  <2> QED BY <1>0, <2>1, <2>2, <2>3 DEF RowTypes
<1>6. CASE Purged
  <2>1. Absent \in FileRow /\ Absent.state = "none"
    BY DEF Absent, FileRow
  <2> QED BY <1>0, <1>6, <2>1 DEF Purged, RowTypes
<1> QED BY <1>0, <1>1, <1>2, <1>3, <1>4, <1>5, <1>6, RowSteps DEF RowStep

(* A request that makes or moves rows has its name and space from its first  *)
(* step; only saving a share looks for another name.                         *)
LEMMA FirstName ==
    ASSUME TypeOK, RowsAssumption, NEW r \in Request, FileStep(r), pc[r] = "start"
    PROVE  /\ Is(r, Namers) => name'[r] \in Name
           /\ Is(r, Inserters \cup {"initUpload"}) => space'[r] \in Space
<1>0. RequestTypes /\ NameTypes
  BY DEF TypeOK
<1> USE DEF RequestTypes, At, Is
<1>1. CASE UploadStep(r)
  <2>1. CASE InitUpload(r) \/ CheckUpload(r) \/ CreateTextFile(r) \/ Mkdir(r) \/ AgentWrite(r)
    <3>1. Asked \subseteq Name /\ Dir \X {Keep} \subseteq Name
      BY RowsAssumption DEF Name, Base
    <3>2. \E n \in Name, s \in Space :
             name' = [name EXCEPT ![r] = n] /\ space' = [space EXCEPT ![r] = s]
      BY <2>1, <3>1 DEF InitUpload, CheckUpload, CreateTextFile, Mkdir, AgentWrite, Ask
    <3> QED BY <1>0, <3>2
  <2>2. CASE CompleteUpload(r)
    <3>1. PICK s \in Request : /\ session[s].state = "active"
                               /\ name' = [name EXCEPT ![r] = session[s].name]
                               /\ space' = [space EXCEPT ![r] = session[s].space]
      BY <2>2 DEF CompleteUpload
    <3>2. session[s].name \in Name /\ session[s].space \in Space
      BY <1>0, <3>1 DEF NameTypes
    <3> QED BY <1>0, <3>1, <3>2
  <2> QED BY <1>1, <2>1, <2>2 DEF UploadStep, FileExists, CheckHit, CheckMiss, RepairMark,
         FindActiveSessionByHash, CreateUploadSession, RecordUpload,
         UpdateUploadSessionStatus, GetFileByHash, NoSource, CheckSource, CheckFree,
         CheckOverwrite, ReplaceOld, Insert, AccountPATQuota, Mark
<1>2. CASE MoveStep(r)
  <2>1. CASE Rename(r)
    <3>1. PICK n \in Asked : name' = [name EXCEPT ![r] = n]
      BY <2>1 DEF Rename
    <3>2. ~Is(r, Inserters \cup {"initUpload"})
      BY <2>1 DEF Rename, Inserters
    <3> QED BY <1>0, <3>1, <3>2, RowsAssumption
  <2>2. CASE MoveDir(r)
    <3>1. PICK d \in Dir : name' = [name EXCEPT ![r] = <<d, Keep>>]
      BY <2>2 DEF MoveDir
    <3>2. ~Is(r, Inserters \cup {"initUpload"})
      BY <2>2 DEF MoveDir, Inserters
    <3> QED BY <1>0, <3>1, <3>2 DEF Name, Base
  <2>3. ASSUME Is(r, Namers) PROVE Rename(r) \/ MoveDir(r)
    BY <1>2, <2>3 DEF MoveStep, DeleteFiles, DeleteDir, GetFile, RestoreFile, MoveFails,
         CheckNewName, CheckTarget, CheckRestored, MoveOne, UnmarkMoved, MarkMoved,
         UnmarkDeleted, UnmarkDir, MarkRestored, DeleteOne, AgentDeleteOne,
         DeleteFilesByPrefix, RestoreOne, PermanentlyDeleteFile, CreateSpace,
         EnsureUserDefaultSpace, DeleteSpace, CountFilesBySpace, DropSpace, Namers,
         Inserters, Moves
  <2> QED BY <2>1, <2>2, <2>3 DEF Namers
<1>3. CASE ShareStep(r)
  <2>1. CASE SaveShare(r)
    <3>1. PICK d \in Dir, to \in Space : /\ name' = [name EXCEPT ![r] = <<d, Keep>>]
                                         /\ space' = [space EXCEPT ![r] = to]
      BY <2>1 DEF SaveShare
    <3> QED BY <1>0, <3>1 DEF Name, Base
  <2>2. ASSUME Is(r, Namers) PROVE SaveShare(r)
    BY <1>3, <2>2 DEF ShareStep, CreateShare, InsertShare, DeleteShare, GetShare,
         RecordVisit, IncrementCount, Serve, CheckInShare, TryName, InsertSaved, Namers,
         Inserters, Moves
  <2> QED BY <2>1, <2>2 DEF Namers
<1> QED BY <1>1, <1>2, <1>3 DEF FileStep

LEMMA NameLater ==
    ASSUME TypeOK, RowsAssumption, NEW r \in Request, FileStep(r), pc[r] # "start"
    PROVE  /\ pc'[r] # "start" /\ space' = space
           /\ name' = name \/ (Is(r, {"saveShare"}) /\ name'[r] \in Name)
<1>0. RequestTypes /\ NameTypes /\ RowTypes
  BY DEF TypeOK
<1> USE <1>0 DEF RequestTypes, At, Is, Goto
<1>1. CASE UploadStep(r)
  BY <1>1 DEF UploadStep, FileExists, CheckHit, CheckMiss, RepairMark, InitUpload,
         CheckUpload, CreateTextFile, Mkdir, AgentWrite, Ask, CompleteUpload,
         FindActiveSessionByHash, CreateUploadSession, RecordUpload,
         UpdateUploadSessionStatus, GetFileByHash, NoSource, CheckSource, CheckFree,
         CheckOverwrite, ReplaceOld, Insert, AccountPATQuota, Mark, CreateFile, GiveUp
<1>2. CASE MoveStep(r)
  BY <1>2 DEF MoveStep, Rename, MoveDir, DeleteFiles, DeleteDir, GetFile, RestoreFile,
         MoveFails, CheckNewName, CheckTarget, CheckRestored, MoveOne, UnmarkMoved,
         MarkMoved, UnmarkDeleted, UnmarkDir, MarkRestored, DeleteOne, AgentDeleteOne,
         DeleteFilesByPrefix, RestoreOne, PermanentlyDeleteFile, CreateSpace,
         EnsureUserDefaultSpace, DeleteSpace, CountFilesBySpace, DropSpace, Onward, GiveUp
<1>3. CASE ShareStep(r)
  <2>1. CASE CheckInShare(r)
    <3>1. name[r] \in Name
      BY <2>1 DEF CheckInShare, NameTypes, Namers, Inserters
    <3>2. \A x \in Row : Live(x) => <<name[r][1], row[x].name[2]>> \in Name
      BY <3>1 DEF Name, Live, RowTypes
    <3>3. PICK t \in todo[r] :
             \/ Live(t.id) /\ name' = [name EXCEPT ![r] = <<name[r][1], row[t.id].name[2]>>]
             \/ name' = name
      BY <2>1 DEF CheckInShare
    <3>4. t.id \in Row
      BY DEF NameTypes
    <3>5. name' = name \/ name'[r] \in Name
      BY <3>2, <3>3, <3>4
    <3>6. pc'[r] # "start" /\ space' = space /\ Is(r, {"saveShare"})
      BY <2>1 DEF CheckInShare
    <3> QED BY <3>5, <3>6
  <2>2. CASE TryName(r)
    <3>1. name[r] \in Name
      BY <2>2 DEF TryName, NameTypes, Namers, Inserters
    <3>2. PICK i \in DOMAIN Bases :
             \/ name' = name
             \/ i < Len(Bases) /\ name' = [name EXCEPT ![r] = [name[r] EXCEPT ![2] = Bases[i + 1]]]
      BY <2>2 DEF TryName
    <3>3. i < Len(Bases) => i + 1 \in DOMAIN Bases
      BY RowsAssumption
    <3>4. \A j \in DOMAIN Bases : [name[r] EXCEPT ![2] = Bases[j]] \in Name
      BY <3>1 DEF Name, Base
    <3>5. name' = name \/ name'[r] \in Name
      BY <3>2, <3>3, <3>4
    <3>6. pc'[r] # "start" /\ space' = space /\ Is(r, {"saveShare"})
      BY <2>2 DEF TryName
    <3> QED BY <3>5, <3>6
  <2> QED BY <1>3, <2>1, <2>2 DEF ShareStep, CreateShare, InsertShare, DeleteShare,
         GetShare, RecordVisit, IncrementCount, Serve, SaveShare, InsertSaved, CreateFile,
         GiveUp
<1> QED BY <1>1, <1>2, <1>3 DEF FileStep

(* The list of a request shrinks once it is made.                            *)
LEMMA TodoSteps ==
    ASSUME TypeOK, NEW r \in Request, FileStep(r), plan' = plan, NEW t \in todo'[r]
    PROVE  t \in todo[r] \/ (t.id \in Row /\ (Is(r, Moves)' => t.name \in Name))
<1>0. RequestTypes /\ NameTypes /\ RowTypes
  BY DEF TypeOK
<1> USE <1>0 DEF RequestTypes
<1>1. CASE UploadStep(r)
  BY <1>1 DEF UploadStep, FileExists, CheckHit, CheckMiss, RepairMark, InitUpload,
         CheckUpload, CreateTextFile, Mkdir, AgentWrite, Ask, CompleteUpload,
         FindActiveSessionByHash, CreateUploadSession, RecordUpload,
         UpdateUploadSessionStatus, GetFileByHash, NoSource, CheckSource, CheckFree,
         CheckOverwrite, ReplaceOld, Insert, AccountPATQuota, Mark, CreateFile, GiveUp
<1>2. CASE MoveStep(r)
  <2>l. \A x \in Row : Live(x) => Snapshot(x).id \in Row /\ Snapshot(x).name \in Name
    BY SnapshotTypes DEF Live
  <2>1. CASE Rename(r) \/ MoveDir(r) \/ DeleteFiles(r) \/ DeleteDir(r)
    <3>1. PICK X \in SUBSET Row : /\ \A x \in X : Live(x)
                                  /\ todo' = [todo EXCEPT ![r] = {Snapshot(x) : x \in X}]
      <4>1. CASE Rename(r)
        <5>1. PICK x \in LiveRows : todo' = [todo EXCEPT ![r] = {Snapshot(x)}]
          BY <4>1 DEF Rename, Take
        <5>2. {Snapshot(y) : y \in {x}} = {Snapshot(x)}
          OBVIOUS
        <5>3. {x} \in SUBSET Row /\ Live(x)
          BY DEF LiveRows
        <5> QED BY <5>1, <5>2, <5>3
      <4>2. CASE MoveDir(r) \/ DeleteDir(r)
        <5>1. PICK s \in Space, d \in Dir :
                 todo' = [todo EXCEPT ![r] = {Snapshot(x) : x \in InDir(s, d)}]
          BY <4>2 DEF MoveDir, DeleteDir, Take
        <5>2. InDir(s, d) \in SUBSET Row /\ \A x \in InDir(s, d) : Live(x)
          BY DEF InDir, LiveIn
        <5> QED BY <5>1, <5>2
      <4>3. CASE DeleteFiles(r)
        <5>1. PICK xs \in SUBSET LiveRows :
                 todo' = [todo EXCEPT ![r] = {Snapshot(x) : x \in xs}]
          BY <4>3 DEF DeleteFiles, Take
        <5>2. xs \in SUBSET Row /\ \A x \in xs : Live(x)
          BY DEF LiveRows
        <5> QED BY <5>1, <5>2
      <4> QED BY <2>1, <4>1, <4>2, <4>3
    <3>2. t \in {Snapshot(x) : x \in X}
      BY <3>1
    <3> QED BY <2>l, <3>1, <3>2
  <2> QED BY <1>2, <2>1 DEF MoveStep, GetFile, RestoreFile,
         MoveFails, CheckNewName, CheckTarget, CheckRestored, MoveOne, UnmarkMoved,
         MarkMoved, UnmarkDeleted, UnmarkDir, MarkRestored, DeleteOne, AgentDeleteOne,
         DeleteFilesByPrefix, RestoreOne, PermanentlyDeleteFile, CreateSpace, Take,
         EnsureUserDefaultSpace, DeleteSpace, CountFilesBySpace, DropSpace
<1>3. CASE ShareStep(r)
  <2>1. CASE SaveShare(r)
    <3>1. PICK x \in Row : todo' = [todo EXCEPT ![r] = {[id |-> x, name |-> None]}]
      BY <2>1 DEF SaveShare
    <3>2. t.id = x
      BY <3>1
    <3>3. ~Is(r, Moves)'
      BY <2>1 DEF SaveShare, At, Is, Moves
    <3> QED BY <3>2, <3>3
  <2> QED BY <1>3, <2>1 DEF ShareStep, CreateShare, InsertShare, DeleteShare,
         GetShare, RecordVisit, IncrementCount, Serve, CheckInShare, TryName, InsertSaved
<1> QED BY <1>1, <1>2, <1>3 DEF FileStep
LEMMA Ended == ASSUME NEW r \in Request, FileStep(r) PROVE pc[r] \notin {"done", "lost"}
<1> USE DEF At, Is
<1>1. CASE UploadStep(r)
  BY <1>1 DEF UploadStep, FileExists, CheckHit, CheckMiss, RepairMark, InitUpload,
         CheckUpload, CreateTextFile, Mkdir, AgentWrite, Ask, CompleteUpload,
         FindActiveSessionByHash, CreateUploadSession, RecordUpload,
         UpdateUploadSessionStatus, GetFileByHash, NoSource, CheckSource, CheckFree,
         CheckOverwrite, ReplaceOld, Insert, AccountPATQuota, Mark
<1>2. CASE MoveStep(r)
  BY <1>2 DEF MoveStep, Rename, MoveDir, DeleteFiles, DeleteDir, GetFile, RestoreFile,
         MoveFails, CheckNewName, CheckTarget, CheckRestored, MoveOne, UnmarkMoved,
         MarkMoved, UnmarkDeleted, UnmarkDir, MarkRestored, DeleteOne, AgentDeleteOne,
         DeleteFilesByPrefix, RestoreOne, PermanentlyDeleteFile, CreateSpace,
         EnsureUserDefaultSpace, DeleteSpace, CountFilesBySpace, DropSpace
<1>3. CASE ShareStep(r)
  BY <1>3 DEF ShareStep, CreateShare, InsertShare, DeleteShare, GetShare, RecordVisit,
         IncrementCount, Serve, SaveShare, CheckInShare, TryName, InsertSaved
<1> QED BY <1>1, <1>2, <1>3 DEF FileStep

(* A session takes its name and space from the request that opens it, and    *)
(* keeps them.                                                               *)
Opens(r) == /\ At(r, "initUpload", "session") /\ pc'[r] = "done"
            /\ session'[r] = [state |-> "active", name |-> name[r], space |-> space[r]]
LEMMA SessionSteps ==
    ASSUME TypeOK, NEW r \in Request, FileStep(r), NEW s \in Request
    PROVE  \/ session'[s] = session[s]
           \/ /\ session[s].state # "none" /\ session'[s].state # "none"
              /\ session'[s].name = session[s].name /\ session'[s].space = session[s].space
           \/ s = r /\ session[s].state = "none" /\ Opens(r)
<1>0. RequestTypes /\ NameTypes
  BY DEF TypeOK
<1> USE <1>0 DEF RequestTypes, uploadVars
<1>1. CASE CreateUploadSession(r)
  <2>1. session[r].state = "none"
    BY <1>1 DEF CreateUploadSession, NameTypes, At
  <2> QED BY <1>1, <2>1 DEF CreateUploadSession, Goto, Opens
<1>2. CASE UpdateUploadSessionStatus(r)
  <2>1. session[s] \in Session
    OBVIOUS
  <2>2. s = cur[r].id => session[s].state # "none"
    BY <1>2 DEF UpdateUploadSessionStatus, NameTypes, Completes, At, Is
  <2> QED BY <1>2, <2>1, <2>2 DEF UpdateUploadSessionStatus, Session
<1>3. ASSUME ~CreateUploadSession(r), ~UpdateUploadSessionStatus(r) PROVE session' = session
  <2>1. ASSUME UploadStep(r) PROVE session' = session
    BY <1>3, <2>1 DEF UploadStep, FileExists, CheckHit, CheckMiss, RepairMark, InitUpload,
         CheckUpload, CreateTextFile, Mkdir, AgentWrite, Ask, CompleteUpload,
         FindActiveSessionByHash, RecordUpload,
         GetFileByHash, NoSource, CheckSource, CheckFree,
         CheckOverwrite, ReplaceOld, Insert, AccountPATQuota, Mark
  <2> QED BY <2>1 DEF FileStep
<1> QED BY <1>1, <1>2, <1>3

(* A completion works on the session it has found, from its first step.      *)
LEMMA Completion ==
    ASSUME TypeOK, NEW r \in Request, FileStep(r), Is(r, {"completeUpload"}),
           pc'[r] \in {"record", "close"}
    PROVE  /\ session' = session \/ pc'[r] = "charge"
           /\ Completes(r, cur[r].id)'
<1>0. RequestTypes /\ NameTypes /\ r \in Row
  BY DEF TypeOK, Row
<1>1. CASE CompleteUpload(r)
  <2>1. PICK s \in Request :
           /\ session[s].state = "active"
           /\ cur' = [cur EXCEPT ![r] = [id |-> s, name |-> session[s].name]]
           /\ name' = [name EXCEPT ![r] = session[s].name]
           /\ space' = [space EXCEPT ![r] = session[s].space]
    BY <1>1 DEF CompleteUpload
  <2>2. session' = session /\ cur'[r].id = s
    BY <1>0, <1>1, <2>1 DEF CompleteUpload, uploadVars, RequestTypes
  <2> QED BY <1>0, <2>1, <2>2 DEF RequestTypes, Completes
<1>2. CASE RecordUpload(r)
  <2>1. Completes(r, cur[r].id)
    BY <1>0, <1>2 DEF RecordUpload, NameTypes, At, Is
  <2> QED BY <1>2, <2>1 DEF RecordUpload, uploadVars, Completes
<1>3. CASE ~CompleteUpload(r) /\ ~RecordUpload(r)
  <2>1. UpdateUploadSessionStatus(r) \/ AccountPATQuota(r, "mark") \/ Mark(r)
    <3>1. CASE UploadStep(r)
      BY <1>3, <3>1 DEF UploadStep, FileExists, CheckHit, CheckMiss, RepairMark, InitUpload,
         CheckUpload, CreateTextFile, Mkdir, AgentWrite, FindActiveSessionByHash,
         CreateUploadSession, GetFileByHash, NoSource, CheckSource, CheckFree,
         CheckOverwrite, ReplaceOld, At, Is
    <3>2. CASE MoveStep(r)
      BY <3>2 DEF MoveStep, Rename, MoveDir, DeleteFiles, DeleteDir, GetFile, RestoreFile,
         MoveFails, CheckNewName, CheckTarget, CheckRestored, MoveOne, UnmarkMoved,
         MarkMoved, UnmarkDeleted, UnmarkDir, MarkRestored, DeleteOne, AgentDeleteOne,
         DeleteFilesByPrefix, RestoreOne, PermanentlyDeleteFile, CreateSpace,
         EnsureUserDefaultSpace, DeleteSpace, CountFilesBySpace, DropSpace, At, Is, Moves
    <3>3. CASE ShareStep(r)
      BY <3>3 DEF ShareStep, CreateShare, InsertShare, DeleteShare, GetShare, RecordVisit,
         IncrementCount, Serve, SaveShare, CheckInShare, TryName, InsertSaved, At, Is
    <3> QED BY <3>1, <3>2, <3>3 DEF FileStep
  <2> QED BY <1>0, <2>1 DEF UpdateUploadSessionStatus, AccountPATQuota, Mark, Goto,
                            RequestTypes
<1> QED BY <1>1, <1>2, <1>3 DEF uploadVars, CompleteUpload, RecordUpload

LEMMA NameTypesStay ==
    ASSUME TypeOK, RowsAssumption, NEW r \in Request, FileStep(r), plan' = plan
    PROVE  NameTypes'
<1>0. RequestTypes /\ NameTypes /\ RowTypes
  BY DEF TypeOK
<1>k. \A q \in Request : q # r => Keeps(q)
  BY <1>0, OthersKeep
<1>1. ASSUME NEW q \in Request, Is(q, Namers)', pc'[q] # "start" PROVE name'[q] \in Name
  <2>1. CASE q = r
    <3>1. Is(r, Namers)
      BY <1>1, <2>1 DEF Is
    <3> QED BY <1>0, <2>1, <3>1, FirstName, NameLater DEF NameTypes
  <2>2. CASE q # r
    BY <1>0, <1>1, <1>k, <2>2 DEF Keeps, NameTypes, Is
  <2> QED BY <2>1, <2>2
<1>2. ASSUME NEW q \in Request, Is(q, Inserters \cup {"initUpload"})', pc'[q] # "start"
      PROVE  space'[q] \in Space
  <2>1. CASE q = r
    <3>1. Is(r, Inserters \cup {"initUpload"})
      BY <1>2, <2>1 DEF Is
    <3> QED BY <1>0, <2>1, <3>1, FirstName, NameLater DEF NameTypes
  <2>2. CASE q # r
    BY <1>0, <1>2, <1>k, <2>2 DEF Keeps, NameTypes, Is
  <2> QED BY <2>1, <2>2
<1>3. ASSUME NEW q \in Request, NEW t \in todo'[q]
      PROVE  t.id \in Row /\ (Is(q, Moves)' => t.name \in Name)
  <2>0. t \in todo[q] => t.id \in Row /\ (Is(q, Moves)' => t.name \in Name)
    BY <1>0 DEF NameTypes, Is
  <2>1. CASE q = r
    BY <1>3, <2>0, <2>1, TodoSteps
  <2>2. CASE q # r
    BY <1>3, <1>k, <2>0, <2>2 DEF Keeps
  <2> QED BY <2>1, <2>2
<1>4. links' \subseteq Request
  <2>1. CASE ShareStep(r)
    BY <1>0, <2>1 DEF NameTypes, ShareStep, CreateShare, InsertShare, DeleteShare, GetShare,
         RecordVisit, IncrementCount, Serve, SaveShare, CheckInShare, TryName, InsertSaved,
         shareVars
  <2> QED BY <1>0, <2>1 DEF NameTypes, FileStep, shareVars
<1>5. spaces' \subseteq Space
  <2>1. CASE CreateSpace(r) \/ EnsureUserDefaultSpace(r) \/ DropSpace(r)
    BY <1>0, <2>1, RowsAssumption DEF NameTypes, CreateSpace, EnsureUserDefaultSpace,
                                      DropSpace
  <2>2. ASSUME MoveStep(r), ~CreateSpace(r), ~EnsureUserDefaultSpace(r), ~DropSpace(r)
        PROVE  spaces' = spaces
    BY <2>2 DEF MoveStep, Rename, MoveDir, DeleteFiles, DeleteDir, GetFile, RestoreFile,
         MoveFails, CheckNewName, CheckTarget, CheckRestored, MoveOne, UnmarkMoved,
         MarkMoved, UnmarkDeleted, UnmarkDir, MarkRestored, DeleteOne, AgentDeleteOne,
         DeleteFilesByPrefix, RestoreOne, PermanentlyDeleteFile, DeleteSpace,
         CountFilesBySpace, moveVars
  <2> QED BY <1>0, <2>1, <2>2 DEF NameTypes, FileStep, moveVars
<1>6. ASSUME NEW s \in Request, session'[s].state # "none"
      PROVE  /\ session'[s].name \in Name /\ session'[s].space \in Space
             /\ Is(s, {"initUpload"})' /\ pc'[s] \in {"done", "lost"}
  <2>1. CASE s = r /\ Opens(r)
    <3>1. name[r] \in Name /\ space[r] \in Space
      BY <1>0, <2>1 DEF NameTypes, Opens, At, Is, Namers
    <3> QED BY <2>1, <3>1 DEF Opens, At, Is
  <2>2. CASE session[s].state # "none"
    <3>1. s # r
      BY <1>0, <2>2, Ended DEF NameTypes
    <3>2. session'[s].name = session[s].name /\ session'[s].space = session[s].space
      BY <2>2, SessionSteps
    <3> QED BY <1>0, <1>k, <2>2, <3>1, <3>2 DEF NameTypes, Keeps, Is
  <2> QED BY <1>6, <2>1, <2>2, SessionSteps
<1>7. ASSUME NEW q \in Request, Is(q, {"completeUpload"})', pc'[q] \in {"record", "close"}
      PROVE  Completes(q, cur[q].id)'
  <2>1. CASE q = r
    <3>1. Is(r, {"completeUpload"})
      BY <1>7, <2>1 DEF Is
    <3> QED BY <1>7, <2>1, <3>1, Completion
  <2>2. CASE q # r
    <3>1. Completes(q, cur[q].id) /\ Keeps(q)
      BY <1>0, <1>7, <1>k, <2>2 DEF NameTypes, Keeps, Is
    <3>2. /\ session'[cur[q].id].state # "none"
          /\ session'[cur[q].id].name = session[cur[q].id].name
          /\ session'[cur[q].id].space = session[cur[q].id].space
      BY <3>1, SessionSteps DEF Completes
    <3> QED BY <3>1, <3>2 DEF Completes, Keeps
  <2> QED BY <2>1, <2>2
<1> QED BY <1>1, <1>2, <1>3, <1>4, <1>5, <1>6, <1>7 DEF NameTypes
-----------------------------------------------------------------------------
LEMMA TypesInCrash == ASSUME TypeOK, RowsAssumption, plan' = plan, Crash PROVE TypeOK'
<1>0. RequestTypes /\ NameTypes /\ RowTypes
  BY DEF TypeOK
<1>1. RequestTypes'
  BY <1>0 DEF RequestTypes, Crash, Places, uploadVars
<1>2. RowTypes'
  <2>1. ASSUME NEW x \in Row
        PROVE  /\ row'[x] \in FileRow /\ row'[x].state = row[x].state
               /\ row'[x].name = row[x].name
               /\ row'[x].space \in {row[x].space, Home}
    <3>1. row[x] \in FileRow
      BY <1>0 DEF RowTypes
    <3>2. row'[x] = IF row[x].space = Nowhere THEN [row[x] EXCEPT !.space = Home] ELSE row[x]
      BY DEF Crash, migrateAssignDefaultSpace
    <3> QED BY <3>1, <3>2, RowsAssumption DEF FileRow
  <2>2. row' = [x \in Row |-> row'[x]]
    BY DEF Crash, migrateAssignDefaultSpace
  <2> QED BY <1>0, <2>1, <2>2, RowsAssumption DEF RowTypes
<1>3. NameTypes'
  <2>1. \A q \in Request : pc'[q] = pc[q] \/ (pc[q] # "start" /\ pc'[q] = "lost")
    BY <1>0 DEF Crash, Running, RequestTypes
  <2> QED BY <1>0, <2>1 DEF NameTypes, Crash, uploadVars, moveVars, Completes, Is
<1> QED BY <1>1, <1>2, <1>3 DEF TypeOK

BaseInv == TypeOK /\ FreshInv

LEMMA BaseStays == ASSUME BaseInv, [Next]_vars PROVE BaseInv'
<1>0. TypeOK /\ RequestTypes /\ RowTypes /\ FreshInv
  BY DEF BaseInv, TypeOK
<1>1. CASE UNCHANGED vars
  BY <1>0, <1>1 DEF vars, request, history, uploadVars, moveVars, shareVars, BaseInv, TypeOK,
     RequestTypes, RowTypes, NameTypes, Completes, FreshInv, Through, Is
<1>2. CASE Next
  <2>1. ASSUME NEW r \in Request, FileStep(r), plan' = plan PROVE TypeOK'
    BY <1>0, <2>1, RequestTypesStay, RowTypesStay, NameTypesStay, RowsAssumption DEF TypeOK
  <2>2. TypeOK'
    BY <1>0, <1>2, <2>1, Steps, TypesInCrash, RowsAssumption
  <2> QED BY <1>0, <1>2, <2>2, FreshStays DEF BaseInv
<1> QED BY <1>1, <1>2

(* The requests, tables and sessions of the file service keep to their       *)
(* types whatever the plan, the faults and the crash: a row or a session     *)
(* there is has a name and a space, and a request makes one row at most.     *)
THEOREM FilesTypeCorrect == Spec => []BaseInv
<1>1. Init => BaseInv
  <2> SUFFICES ASSUME Init PROVE BaseInv
    OBVIOUS
  <2>1. NoSession \in Session /\ Nothing \in Entry /\ NeverLooked \in SUBSET Spot
    BY DEF NoSession, Session, Nothing, Entry, NeverLooked, Spot
  <2>2. RequestTypes
    BY <2>1 DEF Init, RequestTypes, Places
  <2>3. PICK stock \in Stock : row = [x \in Row |-> IF x \in Past THEN stock[x] ELSE Absent]
    BY DEF Init
  <2>4. ASSUME NEW x \in Row
        PROVE  /\ row[x] \in FileRow
               /\ row[x].state # "none" =>
                     /\ row[x].name \in Name /\ row[x].space \in Space /\ x \in Past
    <3>1. row[x] \in TableRow /\ (x \notin Past => row[x] = Absent)
      BY <2>3, RowsAssumption DEF TableRow
    <3>2. CASE row[x] = Absent
      BY <3>1, <3>2 DEF Absent, FileRow
    <3>3. CASE row[x] # Absent
      BY <3>1, <3>3 DEF TableRow, FileRow
    <3> QED BY <3>2, <3>3
  <2>5. RowTypes
    BY <2>3, <2>4 DEF RowTypes
  <2>6. spaces \subseteq Space
    <3>1. \A x \in Past : Live(x) => row[x].space \in Space
      BY <2>4 DEF Live, Row
    <3> QED BY <3>1, RowsAssumption DEF Init
  <2>7. NameTypes
    BY <2>6 DEF Init, NameTypes, NoSession
  <2>8. FreshInv
    BY <2>4, RowsAssumption DEF FreshInv, Row
  <2> QED BY <2>2, <2>5, <2>7, <2>8 DEF BaseInv, TypeOK
<1>2. BaseInv /\ [Next]_vars => BaseInv'
  BY BaseStays
<1> QED BY <1>1, <1>2, PTL DEF Spec
-----------------------------------------------------------------------------
(***************************************************************************)
(* The set of names                                                        *)
(***************************************************************************)
Marks(r) == RepairMark(r) \/ Mark(r) \/ MarkMoved(r) \/ MarkRestored(r)
Unmarks(r) == UnmarkMoved(r) \/ UnmarkDeleted(r) \/ UnmarkDir(r)
Drops(r) == ReplaceOld(r) \/ DeleteOne(r) \/ AgentDeleteOne(r) \/ DeleteFilesByPrefix(r)
Plain(r) ==   \* takes no row from its name, and lets the set be
    /\ pc[r] # "unmark" /\ UNCHANGED <<marked, excused>>
    /\ row' = row \/ Made(r) \/ Restored(r) \/ Purged

LEMMA NameSteps ==
    ASSUME RequestTypes, NEW r \in Request, FileStep(r)
    PROVE  Marks(r) \/ Unmarks(r) \/ MoveOne(r) \/ Drops(r) \/ Plain(r)
<1> USE DEF Plain, history
<1>1. CASE UploadStep(r)
  <2>1. CASE InitUpload(r) \/ CheckUpload(r) \/ CreateTextFile(r) \/ Mkdir(r) \/ AgentWrite(r)
    BY <2>1 DEF InitUpload, CheckUpload, CreateTextFile, Mkdir, AgentWrite, Ask
  <2>2. CASE FileExists(r) \/ AccountPATQuota(r, "mark")
    BY <2>2 DEF FileExists, AccountPATQuota, At
  <2>3. CASE CheckHit(r) \/ CheckMiss(r) \/ CheckFree(r) \/ CheckSource(r)
             \/ CheckOverwrite(r)
    BY <2>3 DEF CheckHit, CheckMiss, CheckFree, CheckSource, CheckOverwrite,
                FindFileByName, At
  <2>4. CASE FindActiveSessionByHash(r) \/ CreateUploadSession(r) \/ CompleteUpload(r)
             \/ UpdateUploadSessionStatus(r) \/ GetFileByHash(r) \/ NoSource(r)
    BY <2>4 DEF FindActiveSessionByHash, CreateUploadSession, CompleteUpload,
                UpdateUploadSessionStatus, GetFileByHash, NoSource, At
  <2>5. CASE RecordUpload(r)
    BY <2>5 DEF RecordUpload, CreateFile, Made, At, Is, Inserters, Goto, RequestTypes
  <2>6. CASE Is(r, Inserters) /\ (Insert(r, "charge") \/ Insert(r, "done"))
    BY <2>6 DEF Insert, CreateFile, Made, Goto, GiveUp, RequestTypes
  <2> QED BY <1>1, <2>1, <2>2, <2>3, <2>4, <2>5, <2>6
          DEF UploadStep, Is, Inserters, Marks, Drops
<1>2. CASE MoveStep(r)
  <2>1. CASE Rename(r) \/ MoveDir(r) \/ DeleteFiles(r) \/ DeleteDir(r) \/ GetFile(r)
             \/ RestoreFile(r) \/ MoveFails(r)
    BY <2>1 DEF Rename, MoveDir, DeleteFiles, DeleteDir, GetFile, RestoreFile, MoveFails, At
  <2>2. CASE CheckNewName(r) \/ CheckTarget(r) \/ CheckRestored(r)
    BY <2>2 DEF CheckNewName, CheckTarget, CheckRestored, FindFileByName, At
  <2>3. CASE RestoreOne(r)
    BY <2>3 DEF RestoreOne, RestoreRow, GiveUp, Restored
  <2>4. CASE PermanentlyDeleteFile(r)
    BY <2>4 DEF PermanentlyDeleteFile, Trashed, Purged, At
  <2>5. CASE CreateSpace(r) \/ EnsureUserDefaultSpace(r) \/ DeleteSpace(r)
             \/ CountFilesBySpace(r) \/ DropSpace(r)
    BY <2>5 DEF CreateSpace, EnsureUserDefaultSpace, DeleteSpace, CountFilesBySpace,
                DropSpace, At
  <2> QED BY <1>2, <2>1, <2>2, <2>3, <2>4, <2>5 DEF MoveStep, Marks, Unmarks, Drops
<1>3. CASE ShareStep(r)
  <2>1. CASE CreateShare(r) \/ InsertShare(r) \/ DeleteShare(r) \/ GetShare(r)
             \/ RecordVisit(r) \/ IncrementCount(r) \/ Serve(r)
    BY <2>1 DEF CreateShare, InsertShare, DeleteShare, GetShare, RecordVisit,
                IncrementCount, Serve, At
  <2>2. CASE SaveShare(r) \/ CheckInShare(r) \/ TryName(r)
    BY <2>2 DEF SaveShare, CheckInShare, TryName, FindFileByName, At
  <2>3. CASE InsertSaved(r)
    BY <2>3 DEF InsertSaved, CreateFile, GiveUp, Made, At, Is, Inserters, Goto, RequestTypes
  <2> QED BY <1>3, <2>1, <2>2, <2>3 DEF ShareStep
<1> QED BY <1>1, <1>2, <1>3 DEF FileStep

LEMMA NamesStay ==
    ASSUME BaseInv, NEW r \in Request, row' = row \/ Made(r) \/ Restored(r) \/ Purged, NEW n
    PROVE  Named(n) \subseteq Named(n)'
<1>0. RequestTypes /\ RowTypes /\ FreshInv /\ r \in Row
  BY DEF BaseInv, TypeOK, Row
<1> SUFFICES ASSUME NEW y \in Row, Live(y), row[y].name = n
             PROVE  row'[y].state = "live" /\ row'[y].name = n
  BY DEF Named, Live
<1>1. CASE Made(r)
  <2>1. row[r].state = "none"
    BY <1>0, <1>1 DEF Made, FreshInv, Through
  <2>2. y # r
    BY <2>1 DEF Live
  <2> QED BY <1>0, <1>1, <2>2 DEF Made, RowTypes, Live
<1>2. CASE Restored(r)
  <2>1. y # cur[r].id
    BY <1>2 DEF Restored, Live
  <2> QED BY <1>0, <1>2, <2>1 DEF Restored, RowTypes, Live
<1>3. CASE Purged
  BY <1>0, <1>3 DEF Purged, RowTypes, Live
<1> QED BY <1>1, <1>2, <1>3 DEF Live

(* Of the rows put in the trash, the names are excused or in names.          *)
LEMMA DropNames ==
    ASSUME RowTypes, NEW ts, NEW unmarks, DeleteFile(ts, unmarks), NEW n, NEW names,
           \A t \in ts : Live(t.id) => row[t.id].name \in excused' \cup names
    PROVE  Named(n) # {} => Named(n)' # {} \/ n \in excused' \cup names
<1> DEFINE gone(y) == \E t \in ts : Live(t.id) /\ t.id = y
<1>1. row' = [y \in Row |-> IF gone(y) THEN [row[y] EXCEPT !.state = "trash"] ELSE row[y]]
  BY Zenon DEF DeleteFile
<1>2. ASSUME NEW y \in Row, Live(y), row[y].name = n
      PROVE  Named(n)' # {} \/ n \in excused' \cup names
  <2>1. CASE gone(y)
    <3>1. PICK t \in ts : Live(t.id) /\ t.id = y
      BY <2>1
    <3>2. row[t.id].name \in excused' \cup names
      BY <3>1
    <3> HIDE DEF gone
    <3> QED BY <1>2, <3>1, <3>2
  <2>2. CASE ~gone(y)
    <3>1. row'[y] = row[y]
      BY <1>1, <2>2
    <3>2. y \in Named(n)'
      BY <1>2, <3>1 DEF Named, Live
    <3> HIDE DEF gone
    <3> QED BY <3>2
  <2> HIDE DEF gone
  <2> QED BY <2>1, <2>2
<1>3. Named(n) # {} => \E y \in Row : Live(y) /\ row[y].name = n
  BY DEF Named
<1> HIDE DEF gone
<1> QED BY <1>2, <1>3

LEMMA DropsExcuse ==
    ASSUME NEW ts, NEW unmarks, DeleteFile(ts, unmarks)
    PROVE  /\ marked' = marked /\ excused \subseteq excused'
           /\ \A t \in ts : Live(t.id) => \/ row[t.id].name \in excused'
                                          \/ unmarks /\ row[t.id].name = t.name
BY DEF DeleteFile

(* A step of one request accounts for every name, or leaves it to another.   *)
Accounts(r, n) ==
    \/ Named(n)' # {} \/ n \in excused' \/ n \in Unmarking(r)'
    \/ n \in marked /\ Named(n) = {} /\ n \notin excused /\ n \notin Unmarking(r)

LEMMA AllAccountedFor ==
    ASSUME BaseInv, NEW r \in Request, FileStep(r), plan' = plan, NEW n \in marked'
    PROVE  Accounts(r, n)
<1>0. RequestTypes /\ RowTypes /\ NameTypes /\ TypeOK
  BY DEF BaseInv, TypeOK
<1> USE DEF Accounts
<1>1. CASE Plain(r)
  <2>1. Named(n) \subseteq Named(n)' /\ Unmarking(r) = {} /\ n \in marked /\ excused' = excused
    BY <1>1, NamesStay DEF Plain, Unmarking
  <2> QED BY <2>1
<1>2. CASE Marks(r)
  <2>1. PICK m : MarkFileExists(m)
    BY <1>2 DEF Marks, RepairMark, Mark, MarkMoved, MarkRestored
  <2>2. Unmarking(r) = {}
    BY <1>2 DEF Marks, RepairMark, Mark, MarkMoved, MarkRestored, Unmarking, At
  <2>3. Named(n)' = Named(n)
    BY <2>1 DEF MarkFileExists, Named, Live
  <2> QED BY <2>1, <2>2, <2>3 DEF MarkFileExists
<1>3. CASE UnmarkMoved(r) \/ UnmarkDeleted(r)
  <2>1. UnmarkFileExists(cur[r].name) /\ Unmarking(r) = {cur[r].name}
    BY <1>3 DEF UnmarkMoved, UnmarkDeleted, Unmarking, At, Is
  <2>2. Named(n)' = Named(n)
    BY <2>1 DEF UnmarkFileExists, Named, Live
  <2> QED BY <2>1, <2>2 DEF UnmarkFileExists
<1>4. CASE UnmarkDir(r)
  <2>1. PICK t \in todo[r] :
           /\ todo' = [todo EXCEPT ![r] = todo[r] \ {t}] /\ UnmarkFileExists(t.name)
           /\ pc' = [pc EXCEPT ![r] = IF todo[r] \ {t} = {} THEN "done" ELSE "unmark"]
    BY <1>4 DEF UnmarkDir, Take, Onward, Goto
  <2>2. /\ Unmarking(r) = {u.name : u \in todo[r]}
        /\ todo[r] \ {t} # {} => Unmarking(r)' = {u.name : u \in todo[r] \ {t}}
    BY <1>0, <1>4, <2>1 DEF UnmarkDir, Unmarking, At, Is, RequestTypes
  <2>3. Named(n)' = Named(n)
    BY <2>1 DEF UnmarkFileExists, Named, Live
  <2>4. n \in Unmarking(r) /\ n # t.name => n \in Unmarking(r)'
    <3>1. ASSUME NEW u \in todo[r], u.name # t.name PROVE u.name \in Unmarking(r)'
      BY <2>2, <3>1
    <3> QED BY <2>2, <3>1
  <2> QED BY <2>1, <2>3, <2>4 DEF UnmarkFileExists
<1>5. CASE MoveOne(r)
  <2>1. PICK t \in todo[r] :
           /\ cur' = [cur EXCEPT ![r] = t]
           /\ UpdateFilename(r, t, NewName(r, t), ~Is(r, Quiet))
           /\ ~Is(r, Quiet) => pc' = [pc EXCEPT ![r] = "unmark"]
    BY <1>5 DEF MoveOne, Goto
  <2>2. Unmarking(r) = {} /\ ~Is(r, {"deleteDir"})
    BY <1>5 DEF MoveOne, Unmarking, Is, Moves
  <2>3. ~Is(r, Quiet) => Unmarking(r)' = {t.name}
    BY <1>0, <2>1, <2>2 DEF Unmarking, RequestTypes, Is
  <2>4. /\ marked' = marked /\ excused \subseteq excused'
        /\ Live(t.id) /\ ~(~Is(r, Quiet) /\ row[t.id].name = t.name)
              => row[t.id].name \in excused'
    BY <2>1 DEF UpdateFilename
  <2>5. ASSUME NEW y \in Row, Live(y), row[y].name = n
        PROVE  Named(n)' # {} \/ n \in excused' \/ n \in Unmarking(r)'
    <3>1. CASE y = t.id
      BY <2>3, <2>4, <2>5, <3>1
    <3>2. CASE y # t.id
      <4>1. row'[y] = row[y]
        BY <1>0, <2>1, <3>2 DEF UpdateFilename, RowTypes
      <4> QED BY <2>5, <4>1 DEF Named, Live
    <3> QED BY <3>1, <3>2
  <2>6. Named(n) # {} => \E y \in Row : Live(y) /\ row[y].name = n
    BY DEF Named
  <2> QED BY <2>2, <2>4, <2>5, <2>6
<1>6. CASE Drops(r)
  <2>0. Unmarking(r) = {}
    BY <1>6 DEF Drops, ReplaceOld, DeleteOne, AgentDeleteOne, DeleteFilesByPrefix, Unmarking,
                At
  <2>1. CASE UNCHANGED <<row, marked, excused>>
    BY <2>0, <2>1 DEF Named, Live
  <2>2. ASSUME NEW ts, DeleteFile(ts, FALSE) PROVE Accounts(r, n)
    <3>1. /\ marked' = marked /\ excused \subseteq excused'
          /\ \A t \in ts : Live(t.id) => row[t.id].name \in excused' \cup {}
      BY <2>2, DropsExcuse
    <3>2. Named(n) # {} => Named(n)' # {} \/ n \in excused' \cup {}
      BY <1>0, <2>2, <3>1, DropNames
    <3> QED BY <2>0, <3>1, <3>2
  <2>3. ASSUME DeleteOne(r), DeleteFile({cur[r]}, TRUE), pc' = [pc EXCEPT ![r] = "unmark"]
        PROVE  Accounts(r, n)
    <3>1. Unmarking(r)' = {cur[r].name}
      BY <1>0, <2>3 DEF DeleteOne, Unmarking, RequestTypes, At, Is
    <3> DEFINE ts == {cur[r]}
               names == {cur[r].name}
    <3>2. DeleteFile(ts, TRUE)
      BY <2>3
    <3>3. \A t \in ts : t.name \in names
      OBVIOUS
    <3> HIDE DEF ts, names
    <3>4. /\ marked' = marked /\ excused \subseteq excused'
          /\ \A t \in ts : Live(t.id) => row[t.id].name \in excused' \cup names
      BY <3>2, <3>3, DropsExcuse
    <3>5. Named(n) # {} => Named(n)' # {} \/ n \in excused' \cup names
      BY <1>0, <3>2, <3>4, DropNames
    <3> QED BY <2>0, <3>1, <3>4, <3>5 DEF names
  <2>4. ASSUME DeleteFilesByPrefix(r), DeleteFile(todo[r], TRUE),
               pc' = [pc EXCEPT ![r] = "unmark"]
        PROVE  Accounts(r, n)
    <3> DEFINE names == {t.name : t \in todo[r]}
    <3>1. Unmarking(r)' = names
      BY <1>0, <2>4 DEF DeleteFilesByPrefix, Unmarking, RequestTypes, At, Is
    <3>2. \A t \in todo[r] : t.name \in names
      OBVIOUS
    <3> HIDE DEF names
    <3>3. /\ marked' = marked /\ excused \subseteq excused'
          /\ \A t \in todo[r] : Live(t.id) => row[t.id].name \in excused' \cup names
      BY <2>4, <3>2, DropsExcuse
    <3>4. Named(n) # {} => Named(n)' # {} \/ n \in excused' \cup names
      BY <1>0, <2>4, <3>3, DropNames
    <3> QED BY <2>0, <3>1, <3>3, <3>4
  <2> QED BY <1>6, <2>1, <2>2, <2>3, <2>4 DEF Drops, ReplaceOld, DeleteOne, AgentDeleteOne,
             DeleteFilesByPrefix, GiveUp, Goto, history
<1> QED BY <1>0, <1>1, <1>2, <1>3, <1>4, <1>5, <1>6, NameSteps DEF Unmarks

LEMMA GhostsStay == ASSUME BaseInv, GhostExplained, Next PROVE GhostExplained'
<1>0. RequestTypes /\ RowTypes /\ plan' = plan
  BY Steps DEF BaseInv, TypeOK
<1>1. CASE Crash
  <2>1. ASSUME NEW x \in Row
        PROVE  row'[x].state = row[x].state /\ row'[x].name = row[x].name
    <3>1. row[x] \in FileRow
      BY <1>0 DEF RowTypes
    <3>2. row'[x] = IF row[x].space = Nowhere THEN [row[x] EXCEPT !.space = Home] ELSE row[x]
      BY <1>1 DEF Crash, migrateAssignDefaultSpace
    <3> QED BY <3>1, <3>2 DEF FileRow
  <2>2. \A n : Named(n)' = Named(n)
    BY <2>1 DEF Named, Live
  <2>3. marked' = marked /\ excused' = excused \cup UNION {Unmarking(r) : r \in Request}
    BY <1>1 DEF Crash
  <2> QED BY <2>2, <2>3 DEF GhostExplained
<1>2. ASSUME NEW r \in Request, FileStep(r), NEW n \in marked'
      PROVE  Named(n)' # {} \/ n \in excused' \/ \E q \in Request : n \in Unmarking(q)'
  <2>1. \A q \in Request \ {r} : Unmarking(q)' = Unmarking(q)
    BY <1>0, <1>2, OthersKeep DEF Keeps, Unmarking, Is
  <2>2. Accounts(r, n)
    BY <1>0, <1>2, AllAccountedFor
  <2>3. ASSUME n \in marked, Named(n) = {}, n \notin excused, n \notin Unmarking(r)
        PROVE  \E q \in Request : n \in Unmarking(q)'
    <3>1. PICK q \in Request : n \in Unmarking(q)
      BY <2>3 DEF GhostExplained
    <3>2. q # r
      BY <2>3, <3>1
    <3> QED BY <2>1, <3>1, <3>2
  <2> QED BY <2>2, <2>3 DEF Accounts
<1> QED BY <1>1, <1>2, Steps DEF GhostExplained

(* files:names is kept beside the table by calls of their own: a name in it  *)
(* has a live row, or a request is about to remove it, or it was left there  *)
(* for a reason that is known.                                               *)
THEOREM GhostsAreExplained == Spec => []GhostExplained
<1>1. Init => GhostExplained
  BY DEF Init, GhostExplained, Named, Live
<1>2. BaseInv /\ GhostExplained /\ [Next]_vars => GhostExplained'
  <2>1. ASSUME GhostExplained, UNCHANGED vars PROVE GhostExplained'
    BY <2>1 DEF vars, request, history, GhostExplained, Named, Live, Unmarking, Is
  <2> QED BY <2>1, GhostsStay
<1> QED BY <1>1, <1>2, FilesTypeCorrect, PTL DEF Spec
-----------------------------------------------------------------------------
(***************************************************************************)
(* Deleted spaces                                                          *)
(***************************************************************************)
LEMMA FiniteRows == ASSUME RowsAssumption, NEW S \in SUBSET Row
                    PROVE  IsFiniteSet(S) /\ Cardinality(S) \in Nat
                           /\ (Cardinality(S) = 0 => S = {})
<1>1. IsFiniteSet(Row)
  BY RowsAssumption, FS_Union DEF Row
<1>2. IsFiniteSet(S)
  BY <1>1, FS_Subset
<1> QED BY <1>2, FS_CardinalityType, FS_EmptySet

(* What is known of a request is not forgotten.                              *)
LEMMA BlindGrows ==
    ASSUME NEW r \in Request, FileStep(r)
    PROVE  blind \subseteq blind' /\ emptied \subseteq emptied' /\ forced \subseteq forced'
<1> USE DEF history, uploadVars, moveVars
<1>1. ASSUME UploadStep(r) PROVE blind \subseteq blind' /\ forced \subseteq forced'
  <2>1. CASE InitUpload(r) \/ CheckUpload(r) \/ CreateTextFile(r) \/ Mkdir(r) \/ AgentWrite(r)
    BY <2>1 DEF InitUpload, CheckUpload, CreateTextFile, Mkdir, AgentWrite, Ask
  <2>2. CASE ReplaceOld(r)
    BY <2>2 DEF ReplaceOld, DeleteFile
  <2> QED
    BY <1>1, <2>1, <2>2 DEF UploadStep, FileExists, CheckHit, CheckMiss, RepairMark,
         CompleteUpload, FindActiveSessionByHash, CreateUploadSession, RecordUpload,
         UpdateUploadSessionStatus, GetFileByHash, NoSource, CheckSource, CheckFree,
         CheckOverwrite, Insert, AccountPATQuota, Mark, FindFileByName,
         MarkFileExists, CreateFile, GiveUp
<1>2. ASSUME MoveStep(r) PROVE blind \subseteq blind' /\ emptied \subseteq emptied'
  <2>1. CASE DeleteOne(r) \/ AgentDeleteOne(r) \/ DeleteFilesByPrefix(r)
    BY <2>1 DEF DeleteOne, AgentDeleteOne, DeleteFilesByPrefix, DeleteFile, GiveUp
  <2>2. CASE MoveOne(r)
    BY <2>2 DEF MoveOne, UpdateFilename
  <2> QED
    BY <1>2, <2>1, <2>2 DEF MoveStep, Rename, MoveDir, DeleteFiles, DeleteDir, GetFile,
         RestoreFile, MoveFails, CheckNewName, CheckTarget, CheckRestored, UnmarkMoved,
         MarkMoved, UnmarkDeleted, UnmarkDir, MarkRestored, RestoreOne,
         PermanentlyDeleteFile, CreateSpace, EnsureUserDefaultSpace, DeleteSpace,
         CountFilesBySpace, DropSpace, FindFileByName, MarkFileExists, UnmarkFileExists,
         RestoreRow, GiveUp
<1>3. ASSUME ShareStep(r) PROVE blind \subseteq blind'
  BY <1>3 DEF ShareStep, CreateShare, InsertShare, DeleteShare, GetShare, RecordVisit,
         IncrementCount, Serve, SaveShare, CheckInShare, TryName, InsertSaved,
         FindFileByName, CreateFile, GiveUp
<1> QED BY <1>1, <1>2, <1>3 DEF FileStep

Strands(r) == At(r, "deleteSpace", "drop") => r \in emptied \cup blind
StrandInv == \A r \in Request : Strands(r)

LEMMA CountsFirst ==
    ASSUME BaseInv, NEW r \in Request, FileStep(r), Is(r, {"deleteSpace"}), pc'[r] = "drop"
    PROVE  CountFilesBySpace(r)
<1>0. RequestTypes
  BY DEF BaseInv, TypeOK
<1> USE <1>0 DEF RequestTypes, Goto, At, Is
<1>1. CASE UploadStep(r)
  BY <1>1 DEF UploadStep, FileExists, CheckHit, CheckMiss, RepairMark, InitUpload,
         CheckUpload, CreateTextFile, Mkdir, AgentWrite, CompleteUpload,
         FindActiveSessionByHash, CreateUploadSession, RecordUpload,
         UpdateUploadSessionStatus, GetFileByHash, NoSource, CheckSource, CheckFree,
         CheckOverwrite, ReplaceOld, AccountPATQuota, Mark, Charged
<1>2. CASE MoveStep(r)
  BY <1>2 DEF MoveStep, Rename, MoveDir, DeleteFiles, DeleteDir, GetFile, RestoreFile,
         MoveFails, CheckNewName, CheckTarget, CheckRestored, MoveOne, UnmarkMoved,
         MarkMoved, UnmarkDeleted, UnmarkDir, MarkRestored, DeleteOne, AgentDeleteOne,
         DeleteFilesByPrefix, RestoreOne, PermanentlyDeleteFile, CreateSpace,
         EnsureUserDefaultSpace, DeleteSpace, DropSpace, Moves
<1>3. CASE ShareStep(r)
  BY <1>3 DEF ShareStep, CreateShare, InsertShare, DeleteShare, GetShare, RecordVisit,
         IncrementCount, Serve, SaveShare, CheckInShare, TryName, InsertSaved
<1> QED BY <1>1, <1>2, <1>3 DEF FileStep

LEMMA StrandStays == ASSUME BaseInv, StrandInv, RowsAssumption, Next PROVE StrandInv'
<1>0. RequestTypes /\ plan' = plan
  BY Steps DEF BaseInv, TypeOK
<1>1. CASE Crash
  BY <1>0, <1>1 DEF Crash, StrandInv, Strands, At, RequestTypes, moveVars
<1>2. ASSUME NEW r \in Request, FileStep(r), NEW q \in Request, At(q, "deleteSpace", "drop")'
      PROVE  q \in emptied' \cup blind'
  <2>1. CASE q # r
    <3>1. At(q, "deleteSpace", "drop")
      BY <1>0, <1>2, <2>1, OthersKeep DEF Keeps, At
    <3> QED BY <1>2, <3>1, BlindGrows DEF StrandInv, Strands
  <2>2. CASE q = r
    <3>1. CountFilesBySpace(r)
      BY <1>0, <1>2, <2>2, CountsFirst DEF At, Is
    <3>2. LiveIn(space[r]) \in SUBSET Row
      BY DEF LiveIn
    <3> DEFINE n == Cardinality(LiveIn(space[r]))
    <3>3. n \in Nat /\ (n = 0 => LiveIn(space[r]) = {})
      BY <3>2, FiniteRows
    <3>4. blind' = blind \cup {r} \/ ~(n > 0)
      BY <1>0, <1>2, <2>2, <3>1 DEF CountFilesBySpace, Goto, RequestTypes, At
    <3>5. emptied' = IF LiveIn(space[r]) = {} THEN emptied \cup {r} ELSE emptied
      BY <3>1 DEF CountFilesBySpace
    <3> HIDE DEF n
    <3> QED BY <2>2, <3>3, <3>4, <3>5
  <2> QED BY <2>1, <2>2
<1> QED BY <1>1, <1>2, Steps DEF StrandInv, Strands

(* A space is deleted by a request that had counted no live row in it, or    *)
(* whose count had failed.  The handler drops the space in a statement of    *)
(* its own, long after the count: nothing else protects the files in it.     *)
THEOREM SpacesAreEmptied == Spec => StrandedExplained
<1>1. Init => StrandInv
  BY DEF Init, StrandInv, Strands, At
<1>2. BaseInv /\ StrandInv /\ [Next]_vars => StrandInv'
  <2>1. ASSUME StrandInv, UNCHANGED vars PROVE StrandInv'
    BY <2>1 DEF vars, request, history, moveVars, StrandInv, Strands, At
  <2> QED BY <2>1, StrandStays, RowsAssumption
<1>3. ASSUME BaseInv, StrandInv, [Next]_vars, spaces' \subseteq spaces, spaces' # spaces
      PROVE  \E r \in Request : Acts(r) /\ r \in emptied \cup blind
  <2>1. PICK r \in Request : FileStep(r)
    BY <1>3, Steps DEF vars, Crash, moveVars
  <2>2. DropSpace(r)
    <3>1. MoveStep(r)
      BY <1>3, <2>1 DEF FileStep, moveVars
    <3> QED BY <1>3, <3>1 DEF MoveStep, Rename, MoveDir, DeleteFiles, DeleteDir, GetFile,
         RestoreFile, MoveFails, CheckNewName, CheckTarget, CheckRestored, MoveOne,
         UnmarkMoved, MarkMoved, UnmarkDeleted, UnmarkDir, MarkRestored, DeleteOne,
         AgentDeleteOne, DeleteFilesByPrefix, RestoreOne, PermanentlyDeleteFile,
         CreateSpace, EnsureUserDefaultSpace, DeleteSpace, CountFilesBySpace, moveVars
  <2> QED BY <1>3, <2>2 DEF DropSpace, At, StrandInv, Strands, Acts, Goto, BaseInv, TypeOK,
                            RequestTypes
<1> QED BY <1>1, <1>2, <1>3, FilesTypeCorrect, PTL DEF Spec, StrandedExplained
-----------------------------------------------------------------------------
(***************************************************************************)
(* Counts of links                                                         *)
(***************************************************************************)
LEMMA DownloadSteps ==
    ASSUME NEW r \in Request, FileStep(r), Is(r, {"download"})
    PROVE  (GetShare(r) \/ RecordVisit(r) \/ IncrementCount(r) \/ Serve(r))
           /\ UNCHANGED <<uploadVars, moveVars>>
<1> USE DEF At, Is
<1>1. ~UploadStep(r)
  BY DEF UploadStep, FileExists, CheckHit, CheckMiss, RepairMark, InitUpload,
         CheckUpload, CreateTextFile, Mkdir, AgentWrite, CompleteUpload,
         FindActiveSessionByHash, CreateUploadSession, RecordUpload,
         UpdateUploadSessionStatus, GetFileByHash, NoSource, CheckSource, CheckFree,
         CheckOverwrite, ReplaceOld, AccountPATQuota, Mark, Charged
<1>2. ~MoveStep(r)
  BY DEF MoveStep, Rename, MoveDir, DeleteFiles, DeleteDir, GetFile, RestoreFile,
         MoveFails, CheckNewName, CheckTarget, CheckRestored, MoveOne, UnmarkMoved,
         MarkMoved, UnmarkDeleted, UnmarkDir, MarkRestored, DeleteOne, AgentDeleteOne,
         DeleteFilesByPrefix, RestoreOne, PermanentlyDeleteFile, CreateSpace,
         EnsureUserDefaultSpace, DeleteSpace, CountFilesBySpace, DropSpace, Moves
<1>3. ShareStep(r) => GetShare(r) \/ RecordVisit(r) \/ IncrementCount(r) \/ Serve(r)
  BY DEF ShareStep, CreateShare, InsertShare, DeleteShare, SaveShare, CheckInShare, TryName,
         InsertSaved
<1> QED BY <1>1, <1>2, <1>3 DEF FileStep

LEMMA OthersCountNothing ==
    ASSUME NEW r \in Request, FileStep(r), ~Is(r, {"download"})
    PROVE  UNCHANGED linkVars
<1>1. ASSUME ShareStep(r) PROVE UNCHANGED linkVars
  BY <1>1 DEF ShareStep, CreateShare, InsertShare, DeleteShare, SaveShare, CheckInShare,
         TryName, InsertSaved, GetShare, RecordVisit, IncrementCount, Serve, shareVars,
         linkVars, At, Is
<1> QED BY <1>1 DEF FileStep, shareVars, linkVars

CountTypes ==
    /\ count \in [Request -> Nat] /\ uncounted \in [Request -> Nat]
    /\ visits \in [Request -> SUBSET Visitor]
    /\ \A s \in Request : IsFiniteSet(visits[s])
    /\ \A r \in Request : Is(r, {"download"}) /\ pc[r] \in {"visit", "count"}
                          => cur[r].id \in Request
Counting(s) == {r \in Request : At(r, "download", "count") /\ cur[r].id = s}
Counted(s) == count[s] + uncounted[s] + Cardinality(Counting(s)) = Cardinality(visits[s])
CountInv == CountTypes /\ \A s \in Request : Counted(s)

(* A visit is entered: one visitor and one visit to count more.              *)
LEMMA VisitCounts ==
    ASSUME BaseInv, CountInv, RowsAssumption, plan' = plan, NEW r \in Request, RecordVisit(r),
           \A q \in Request \ {r} : Keeps(q)
    PROVE  CountInv'
<1>0. RequestTypes /\ CountTypes /\ \A s \in Request : Counted(s)
  BY DEF BaseInv, TypeOK, CountInv
<1> DEFINE s == cur[r].id
<1>1. s \in Request /\ r \notin Counting(s) /\ UNCHANGED <<count, uncounted>> /\ cur' = cur
  BY <1>0 DEF RecordVisit, CountTypes, At, Is, Counting
<1>2. CASE \E v \in Visitor : /\ v \notin visits[s]
                              /\ visits' = [visits EXCEPT ![s] = @ \cup {v}]
                              /\ Goto(r, "count")
  <2>1. PICK v \in Visitor : v \notin visits[s]
                             /\ visits' = [visits EXCEPT ![s] = visits[s] \cup {v}]
    BY <1>2
  <2>2. /\ visits'[s] = visits[s] \cup {v} /\ v \notin visits[s]
        /\ \A o \in Request \ {s} : visits'[o] = visits[o]
        /\ visits' \in [Request -> SUBSET Visitor]
    BY <1>0, <1>1, <2>1 DEF CountTypes
  <2>3. IsFiniteSet(visits'[s]) /\ Cardinality(visits'[s]) = Cardinality(visits[s]) + 1
    <3>1. IsFiniteSet(visits[s])
      BY <1>0, <1>1 DEF CountTypes
    <3>2. /\ IsFiniteSet(visits[s] \cup {v})
          /\ Cardinality(visits[s] \cup {v}) = Cardinality(visits[s]) + 1
      BY <2>1, <3>1, FS_AddElement
    <3> QED BY <2>2, <3>2
  <2>4. pc'[r] = "count" /\ At(r, "download", "visit")
    BY <1>0, <1>2 DEF Goto, RequestTypes, RecordVisit
  <2>5. Counting(s)' = Counting(s) \cup {r} /\ \A o \in Request \ {s} : Counting(o)' = Counting(o)
    BY <1>1, <2>4 DEF Counting, Keeps, At
  <2>6. IsFiniteSet(Counting(s)) /\ Cardinality(Counting(s)) \in Nat
    <3>1. Counting(s) \in SUBSET Row
      BY DEF Counting, Row
    <3> QED BY <3>1, FiniteRows
  <2>7. Cardinality(Counting(s)') = Cardinality(Counting(s)) + 1
    BY <1>1, <2>5, <2>6, FS_AddElement
  <2>8. CountTypes'
    <3>1. \A o \in Request : IsFiniteSet(visits'[o])
      BY <1>0, <2>2, <2>3 DEF CountTypes
    <3>2. \A q \in Request : Is(q, {"download"})' /\ pc'[q] \in {"visit", "count"}
                             => cur'[q].id \in Request
      BY <1>0, <1>1 DEF CountTypes, Keeps, Is
    <3> QED BY <1>0, <1>1, <2>2, <3>1, <3>2 DEF CountTypes
  <2>9. Counted(s)'
    <3>1. count[s] \in Nat /\ uncounted[s] \in Nat /\ Cardinality(visits[s]) \in Nat
      BY <1>0, <1>1, FS_CardinalityType DEF CountTypes
    <3>2. count[s] + uncounted[s] + Cardinality(Counting(s)) = Cardinality(visits[s])
      BY <1>0, <1>1 DEF Counted
    <3>3. count'[s] + uncounted'[s] + Cardinality(Counting(s)') = Cardinality(visits'[s])
      BY <1>1, <2>3, <2>6, <2>7, <3>1, <3>2
    <3> QED BY <1>1, <3>3 DEF Counted
  <2>10. \A o \in Request \ {s} : Counted(o)'
    BY <1>0, <1>1, <2>2, <2>5 DEF Counted
  <2> QED BY <1>1, <2>8, <2>9, <2>10 DEF CountInv, Counted
<1>3. CASE visits' = visits /\ Goto(r, "serve")
  <2>1. pc'[r] = "serve" /\ At(r, "download", "visit")
    BY <1>0, <1>3 DEF Goto, RequestTypes, RecordVisit
  <2>2. \A o : Counting(o)' = Counting(o)
    BY <1>1, <2>1 DEF Counting, Keeps, At
  <2>3. CountTypes'
    BY <1>0, <1>1, <1>3, <2>1 DEF CountTypes, Keeps, Is
  <2> QED BY <1>0, <1>1, <1>3, <2>2, <2>3 DEF CountInv, Counted
<1> QED BY <1>2, <1>3 DEF RecordVisit

(* A visit is counted, or never will be.                                     *)
LEMMA IncrementCounts ==
    ASSUME BaseInv, CountInv, RowsAssumption, plan' = plan, NEW r \in Request,
           IncrementCount(r), \A q \in Request \ {r} : Keeps(q)
    PROVE  CountInv'
<1>0. RequestTypes /\ CountTypes /\ \A s \in Request : Counted(s)
  BY DEF BaseInv, TypeOK, CountInv
<1>c. At(r, "download", "count") /\ cur[r].id \in Request
  BY <1>0 DEF IncrementCount, CountTypes, At, Is
<1>s. PICK s \in Request : s = cur[r].id
  BY <1>c
<1>1. /\ r \in Counting(s) /\ visits' = visits /\ cur' = cur
      /\ pc'[r] = "serve"
  BY <1>0, <1>c, <1>s DEF IncrementCount, Counting, Goto, RequestTypes
<1>2. /\ count' \in [Request -> Nat] /\ uncounted' \in [Request -> Nat]
      /\ count'[s] + uncounted'[s] = count[s] + uncounted[s] + 1
      /\ \A o \in Request \ {s} : count'[o] = count[o] /\ uncounted'[o] = uncounted[o]
  <2>1. \/ count' = [count EXCEPT ![s] = count[s] + 1] /\ uncounted' = uncounted
        \/ count' = count /\ uncounted' = [uncounted EXCEPT ![s] = uncounted[s] + 1]
    BY <1>s DEF IncrementCount
  <2>2. count[s] \in Nat /\ uncounted[s] \in Nat
    BY <1>0 DEF CountTypes
  <2>3. count \in [Request -> Nat] /\ uncounted \in [Request -> Nat]
    BY <1>0 DEF CountTypes
  <2>4. CASE count' = [count EXCEPT ![s] = count[s] + 1] /\ uncounted' = uncounted
    BY <2>2, <2>3, <2>4
  <2>5. CASE count' = count /\ uncounted' = [uncounted EXCEPT ![s] = uncounted[s] + 1]
    BY <2>2, <2>3, <2>5
  <2> QED BY <2>1, <2>4, <2>5
<1>3. Counting(s)' = Counting(s) \ {r} /\ \A o \in Request \ {s} : Counting(o)' = Counting(o)
  BY <1>1, <1>s DEF Counting, Keeps, At
<1>4. IsFiniteSet(Counting(s)) /\ Cardinality(Counting(s)) \in Nat
  <2>1. Counting(s) \in SUBSET Row
    BY DEF Counting, Row
  <2> QED BY <2>1, FiniteRows
<1>5. Cardinality(Counting(s)') = Cardinality(Counting(s)) - 1
  <2>1. Cardinality(Counting(s) \ {r}) = Cardinality(Counting(s)) - 1
    BY <1>1, <1>4, FS_RemoveElement
  <2> QED BY <1>3, <2>1
<1>6. CountTypes'
  BY <1>0, <1>1, <1>2 DEF CountTypes, Keeps, Is
<1>7. Counted(s)'
  <2>1. count[s] \in Nat /\ uncounted[s] \in Nat /\ count'[s] \in Nat /\ uncounted'[s] \in Nat
    BY <1>0, <1>1, <1>2 DEF CountTypes
  <2>2. count[s] + uncounted[s] + Cardinality(Counting(s)) = Cardinality(visits[s])
    BY <1>0, <1>1 DEF Counted
  <2>3. count'[s] + uncounted'[s] + Cardinality(Counting(s)') = Cardinality(visits'[s])
    <3>1. visits'[s] = visits[s]
      BY <1>1
    <3> QED BY SMTT(30), <1>2, <1>4, <1>5, <2>1, <2>2, <3>1
  <2> QED BY <1>1, <2>3 DEF Counted
<1>8. \A o \in Request \ {s} : Counted(o)'
  BY <1>0, <1>1, <1>2, <1>3 DEF Counted
<1> QED BY <1>1, <1>6, <1>7, <1>8 DEF CountInv, Counted

LEMMA CountStays == ASSUME BaseInv, CountInv, RowsAssumption, Next PROVE CountInv'
<1>0. RequestTypes /\ CountTypes /\ plan' = plan /\ \A s \in Request : Counted(s)
  BY Steps DEF BaseInv, TypeOK, CountInv
<1>1. CASE Crash
  <2>1. \A s \in Request : IsFiniteSet(Counting(s)) /\ Cardinality(Counting(s)) \in Nat
    <3>1. \A s \in Request : Counting(s) \in SUBSET Row
      BY DEF Counting, Row
    <3> QED BY <3>1, FiniteRows
  <2>2. \A s : Counting(s)' = {}
    BY <1>0, <1>1 DEF Crash, Counting, At, Running, RequestTypes
  <2>3. /\ uncounted' = [s \in Request |-> uncounted[s] + Cardinality(Counting(s))]
        /\ count' = count /\ visits' = visits
    BY <1>1 DEF Crash, Counting
  <2>4. CountTypes'
    <3>1. uncounted' \in [Request -> Nat]
      BY <1>0, <2>1, <2>3 DEF CountTypes
    <3>2. \A r \in Request : pc'[r] \notin {"visit", "count"}
      BY <1>0, <1>1 DEF Crash, Running, RequestTypes
    <3> QED BY <1>0, <2>3, <3>1, <3>2 DEF CountTypes
  <2>5. ASSUME NEW s \in Request PROVE Counted(s)'
    <3>1. Cardinality(Counting(s)') = 0
      BY <2>2, FS_EmptySet
    <3>2. count[s] \in Nat /\ uncounted[s] \in Nat /\ Cardinality(Counting(s)) \in Nat
      BY <1>0, <2>1 DEF CountTypes
    <3>3. count[s] + uncounted[s] + Cardinality(Counting(s)) = Cardinality(visits[s])
      BY <1>0 DEF Counted
    <3>4. count'[s] = count[s] /\ visits'[s] = visits[s]
          /\ uncounted'[s] = uncounted[s] + Cardinality(Counting(s))
      BY <2>3
    <3>5. count'[s] + uncounted'[s] + Cardinality(Counting(s)') = Cardinality(visits'[s])
      BY <3>1, <3>2, <3>3, <3>4
    <3> QED BY <3>5 DEF Counted
  <2> QED BY <2>4, <2>5 DEF CountInv
<1>2. ASSUME NEW r \in Request, FileStep(r) PROVE CountInv'
  <2>1. \A q \in Request \ {r} : Keeps(q)
    BY <1>0, <1>2, OthersKeep
  <2>2. CASE RecordVisit(r)
    BY <1>0, <2>1, <2>2, VisitCounts
  <2>3. CASE IncrementCount(r)
    BY <1>0, <2>1, <2>3, IncrementCounts
  <2>4. CASE ~RecordVisit(r) /\ ~IncrementCount(r)
    <3>1. UNCHANGED linkVars
          /\ (Is(r, {"download"}) =>
                 /\ pc[r] \in {"start", "serve"} /\ pc'[r] \in {"visit", "done"}
                 /\ pc'[r] = "visit" => cur'[r].id \in Request)
      <4>1. CASE ~Is(r, {"download"})
        BY <1>2, <4>1, OthersCountNothing
      <4>2. CASE Is(r, {"download"})
        <5>1. GetShare(r) \/ Serve(r)
          BY <1>2, <2>4, <4>2, DownloadSteps
        <5>2. links \subseteq Request
          BY DEF BaseInv, TypeOK, NameTypes
        <5>3. GetShare(r) => cur'[r].id \in links
          BY <1>0 DEF GetShare, RequestTypes
        <5> QED BY <1>0, <5>1, <5>2, <5>3 DEF GetShare, Serve, shareVars, linkVars, Goto, At,
                                          RequestTypes
      <4> QED BY <4>1, <4>2
    <3>2. \A s : Counting(s)' = Counting(s)
      BY <1>0, <2>1, <3>1 DEF Counting, Keeps, At, Is
    <3>3. CountTypes'
      BY <1>0, <2>1, <3>1 DEF CountTypes, linkVars, Keeps, Is
    <3> QED BY <1>0, <3>1, <3>2, <3>3 DEF CountInv, Counted, linkVars
  <2> QED BY <2>2, <2>3, <2>4
<1> QED BY <1>1, <1>2, Steps

(* A visit is entered and counted in two statements: the counter and the     *)
(* table of visitors agree but for the visits between the two, and those     *)
(* whose second statement failed, came too late or was lost.                 *)
THEOREM CountsMatchVisits == Spec => []CountExplained
<1>1. Init => CountInv
  <2> SUFFICES ASSUME Init PROVE CountInv
    OBVIOUS
  <2>1. CountTypes
    BY FS_EmptySet DEF Init, CountTypes
  <2>2. \A s : Counting(s) = {}
    BY DEF Init, Counting, At
  <2>3. Cardinality({}) = 0
    BY FS_EmptySet
  <2>4. \A s \in Request : visits[s] = {} /\ count[s] = 0 /\ uncounted[s] = 0
    BY DEF Init
  <2>5. \A s \in Request : Counted(s)
    BY <2>2, <2>3, <2>4 DEF Counted
  <2> QED BY <2>1, <2>5 DEF CountInv
<1>2. BaseInv /\ CountInv /\ [Next]_vars => CountInv'
  <2>1. ASSUME CountInv, UNCHANGED vars PROVE CountInv'
    BY <2>1 DEF vars, request, shareVars, CountInv, CountTypes, Counted, Counting, At, Is
  <2> QED BY <2>1, CountStays, RowsAssumption
<1>3. BaseInv /\ CountInv => CountExplained
  BY DEF BaseInv, TypeOK, NameTypes, CountInv, Counted, Counting, CountExplained
<1> QED BY <1>1, <1>2, <1>3, FilesTypeCorrect, PTL DEF Spec
-----------------------------------------------------------------------------
(***************************************************************************)
(* Duplicates                                                              *)
(***************************************************************************)
(* The steps of a request, by its kind.                                      *)
UploadKinds == (Inserters \ {"saveShare"}) \cup {"initUpload"}

LEMMA UploadSteps ==
    ASSUME NEW r \in Request, FileStep(r), Is(r, UploadKinds) PROVE UploadStep(r)
<1> USE DEF At, Is, UploadKinds, Inserters
<1>1. ~MoveStep(r)
  BY DEF MoveStep, Rename, MoveDir, DeleteFiles, DeleteDir, GetFile, RestoreFile,
         MoveFails, CheckNewName, CheckTarget, CheckRestored, MoveOne, UnmarkMoved,
         MarkMoved, UnmarkDeleted, UnmarkDir, MarkRestored, DeleteOne, AgentDeleteOne,
         DeleteFilesByPrefix, RestoreOne, PermanentlyDeleteFile, CreateSpace,
         EnsureUserDefaultSpace, DeleteSpace, CountFilesBySpace, DropSpace, Moves
<1>2. ~ShareStep(r)
  BY DEF ShareStep, CreateShare, InsertShare, DeleteShare, GetShare, RecordVisit,
         IncrementCount, Serve, SaveShare, CheckInShare, TryName, InsertSaved
<1> QED BY <1>1, <1>2 DEF FileStep

LEMMA MoveSteps ==
    ASSUME NEW r \in Request, FileStep(r), Is(r, {"rename", "moveDir", "restore"})
    PROVE  /\ session' = session /\ forced' = forced
           /\ \/ Rename(r) \/ CheckNewName(r) \/ MoveDir(r) \/ CheckTarget(r)
              \/ MoveOne(r) \/ MoveFails(r) \/ UnmarkMoved(r) \/ MarkMoved(r)
              \/ RestoreFile(r) \/ CheckRestored(r) \/ RestoreOne(r) \/ MarkRestored(r)
<1> USE DEF At, Is
<1>1. ~UploadStep(r)
  BY DEF UploadStep, FileExists, CheckHit, CheckMiss, RepairMark, InitUpload,
         CheckUpload, CreateTextFile, Mkdir, AgentWrite, CompleteUpload,
         FindActiveSessionByHash, CreateUploadSession, RecordUpload,
         UpdateUploadSessionStatus, GetFileByHash, NoSource, CheckSource, CheckFree,
         CheckOverwrite, ReplaceOld, AccountPATQuota, Mark, Charged
<1>2. ~ShareStep(r)
  BY DEF ShareStep, CreateShare, InsertShare, DeleteShare, GetShare, RecordVisit,
         IncrementCount, Serve, SaveShare, CheckInShare, TryName, InsertSaved
<1>3. MoveStep(r) /\ UNCHANGED uploadVars
  BY <1>1, <1>2 DEF FileStep
<1> QED BY <1>3 DEF uploadVars, MoveStep, DeleteFiles, DeleteDir, GetFile, UnmarkDeleted,
         UnmarkDir, DeleteOne, AgentDeleteOne, DeleteFilesByPrefix, PermanentlyDeleteFile,
         CreateSpace, EnsureUserDefaultSpace, DeleteSpace, CountFilesBySpace, DropSpace

LEMMA SaveSteps ==
    ASSUME NEW r \in Request, FileStep(r), Is(r, {"saveShare"})
    PROVE  /\ session' = session /\ forced' = forced
           /\ SaveShare(r) \/ CheckInShare(r) \/ TryName(r) \/ InsertSaved(r)
<1> USE DEF At, Is
<1>1. ~UploadStep(r)
  BY DEF UploadStep, FileExists, CheckHit, CheckMiss, RepairMark, InitUpload,
         CheckUpload, CreateTextFile, Mkdir, AgentWrite, CompleteUpload,
         FindActiveSessionByHash, CreateUploadSession, RecordUpload,
         UpdateUploadSessionStatus, GetFileByHash, NoSource, CheckSource, CheckFree,
         CheckOverwrite, ReplaceOld, AccountPATQuota, Mark, Charged
<1>2. ~MoveStep(r)
  BY DEF MoveStep, Rename, MoveDir, DeleteFiles, DeleteDir, GetFile, RestoreFile,
         MoveFails, CheckNewName, CheckTarget, CheckRestored, MoveOne, UnmarkMoved,
         MarkMoved, UnmarkDeleted, UnmarkDir, MarkRestored, DeleteOne, AgentDeleteOne,
         DeleteFilesByPrefix, RestoreOne, PermanentlyDeleteFile, CreateSpace,
         EnsureUserDefaultSpace, DeleteSpace, CountFilesBySpace, DropSpace, Moves
<1>3. ShareStep(r) /\ UNCHANGED uploadVars
  BY <1>1, <1>2 DEF FileStep
<1> QED BY <1>3 DEF uploadVars, ShareStep, CreateShare, InsertShare, DeleteShare, GetShare,
                    RecordVisit, IncrementCount, Serve

(* Where a request is about to put a row, and what it has seen there.        *)
Target(r) ==
    IF Is(r, {"moveDir"}) THEN {<<space[r], <<name[r][1], b>>>> : b \in Base}
    ELSE IF Is(r, {"restore"}) THEN {<<space[r], cur[r].name>>}
    ELSE {<<space[r], name[r]>>}
Clear(r) == looked[r] # NeverLooked /\ \A l \in looked[r] : l[2] \notin Target(r)
Over(r) == cur[r].id \in Row /\ <<cur[r].id, <<space[r], name[r]>>>> \in looked[r]
Aims(r) ==
    \/ Is(r, Inserters \ {"completeUpload"}) /\ pc[r] = "insert"
    \/ Is(r, {"initUpload"}) /\ (pc[r] \in {"reuse", "session"} \/ session[r].state # "none")
    \/ Is(r, {"rename", "moveDir"}) /\ pc[r] \in {"update", "unmark", "mark"}
    \/ Is(r, {"restore"}) /\ pc[r] = "restore"
Checked(r) ==
    /\ IsFiniteSet(looked[r])
    /\ Aims(r) => \/ r \in blind \cup forced \/ Clear(r)
                  \/ Is(r, {"checkUpload", "agentWrite"}) /\ Over(r)
    /\ Is(r, {"agentWrite"}) /\ pc[r] = "replace" => Over(r)
    /\ session[r].state # "none" => session[r].name = name[r] /\ session[r].space = space[r]

(* A look sees every live row there is.                                      *)
LEMMA LooksSee ==
    ASSUME RequestTypes, RowsAssumption, NEW r \in Request, Look(r)
    PROVE  /\ IsFiniteSet(looked'[r]) /\ looked'[r] # NeverLooked
           /\ looked'[r] = {<<x, Place(x)>> : x \in {y \in Row : Live(y)}}
<1> DEFINE L == {y \in Row : Live(y)}
           seen == {<<x, Place(x)>> : x \in L}
<1>1. looked'[r] = seen
  BY DEF Look, RequestTypes
<1>2. IsFiniteSet(L)
  BY FiniteRows
<1>3. IsFiniteSet(seen)
  <2> DEFINE spot == [y \in L |-> <<y, Place(y)>>]
  <2>1. spot \in Surjection(L, seen)
    BY DEF Surjection
  <2> HIDE DEF L, seen, spot
  <2> QED BY <1>2, <2>1, FS_Surjection
<1>4. seen # NeverLooked
  <2>1. ASSUME seen = NeverLooked PROVE FALSE
    <3>1. <<None, None>> \in seen
      BY <2>1 DEF NeverLooked
    <3>2. PICK x \in L : <<None, None>> = <<x, Place(x)>>
      BY <3>1
    <3> QED BY <3>2, RowsAssumption
  <2> QED BY <2>1
<1> QED BY <1>1, <1>3, <1>4

LEMMA FindsSee ==
    ASSUME RequestTypes, RowsAssumption, NEW r \in Request, NEW s, NEW n, NEW found,
           found \in Answers(s, n), FindFileByName(r, s, n, found)
    PROVE  /\ IsFiniteSet(looked'[r]) /\ looked'[r] # NeverLooked
           /\ found = {} => r \in blind' \/ \A l \in looked'[r] : l[2] # <<s, n>>
           /\ \A x \in found : x \in Row /\ <<x, <<s, n>>>> \in looked'[r]
<1>1. /\ IsFiniteSet(looked'[r]) /\ looked'[r] # NeverLooked
      /\ looked'[r] = {<<x, Place(x)>> : x \in {y \in Row : Live(y)}}
  BY LooksSee DEF FindFileByName
<1>2. \A x \in LiveAt(s, n) : x \in Row /\ Live(x) /\ Place(x) = <<s, n>>
  BY DEF LiveAt
<1>3. \A x \in found : x \in Row /\ <<x, <<s, n>>>> \in looked'[r]
  BY <1>1, <1>2 DEF Answers
<1>4. LiveAt(s, n) = {} => \A l \in looked'[r] : l[2] # <<s, n>>
  BY <1>1 DEF LiveAt
<1>5. found = {} => r \in blind' \/ LiveAt(s, n) = {}
  BY DEF FindFileByName
<1> QED BY <1>1, <1>3, <1>4, <1>5

LEMMA LookedSteps ==
    ASSUME NEW r \in Request, FileStep(r) PROVE looked' = looked \/ Look(r)
<1> USE DEF history
<1>1. CASE UploadStep(r)
  BY <1>1 DEF UploadStep, FileExists, CheckHit, CheckMiss, RepairMark, InitUpload,
         CheckUpload, CreateTextFile, Mkdir, AgentWrite, Ask, CompleteUpload,
         FindActiveSessionByHash, CreateUploadSession, RecordUpload,
         UpdateUploadSessionStatus, GetFileByHash, NoSource, CheckSource, CheckFree,
         CheckOverwrite, ReplaceOld, Insert, AccountPATQuota, Mark, FindFileByName,
         MarkFileExists, CreateFile, GiveUp, DeleteFile
<1>2. CASE MoveStep(r)
  BY <1>2 DEF MoveStep, Rename, MoveDir, DeleteFiles, DeleteDir, GetFile, RestoreFile,
         MoveFails, CheckNewName, CheckTarget, CheckRestored, MoveOne, UnmarkMoved,
         MarkMoved, UnmarkDeleted, UnmarkDir, MarkRestored, DeleteOne, AgentDeleteOne,
         DeleteFilesByPrefix, RestoreOne, PermanentlyDeleteFile, CreateSpace,
         EnsureUserDefaultSpace, DeleteSpace, CountFilesBySpace, DropSpace, FindFileByName,
         UpdateFilename, DeleteFile, RestoreRow, GiveUp, MarkFileExists, UnmarkFileExists
<1>3. CASE ShareStep(r)
  BY <1>3 DEF ShareStep, CreateShare, InsertShare, DeleteShare, GetShare, RecordVisit,
         IncrementCount, Serve, SaveShare, CheckInShare, TryName, InsertSaved,
         FindFileByName, CreateFile, GiveUp
<1> QED BY <1>1, <1>2, <1>3 DEF FileStep

LEMMA ClearNow ==
    ASSUME NEW r \in Request, NEW p, Target(r)' = {p}, looked'[r] # NeverLooked,
           \A l \in looked'[r] : l[2] # p
    PROVE  Clear(r)'
BY DEF Clear

LEMMA InsertLooks ==
    ASSUME BaseInv, RowsAssumption, plan' = plan, NEW r \in Request, FileStep(r), Checked(r),
           Is(r, {"createText", "mkdir", "checkUpload", "agentWrite"})
    PROVE  /\ pc'[r] = "insert" => \/ r \in blind' \/ Clear(r)'
                                   \/ Is(r, {"checkUpload", "agentWrite"}) /\ Over(r)'
           /\ Is(r, {"agentWrite"}) /\ pc'[r] = "replace" => Over(r)'
<1>0. RequestTypes
  BY DEF BaseInv, TypeOK
<1>1. pc'[r] \in {"insert", "replace"} =>
         CheckFree(r) \/ CheckSource(r) \/ CheckOverwrite(r) \/ ReplaceOld(r)
  <2>1. UploadStep(r)
    BY UploadSteps DEF Is, UploadKinds, Inserters
  <2> QED BY <1>0, <2>1 DEF UploadStep, FileExists, CheckHit, CheckMiss, RepairMark,
         InitUpload, CheckUpload, CreateTextFile, Mkdir, AgentWrite, Ask, CompleteUpload,
         FindActiveSessionByHash, CreateUploadSession, RecordUpload,
         UpdateUploadSessionStatus, GetFileByHash, NoSource, Insert, AccountPATQuota, Mark,
         CreateFile, GiveUp, Goto, RequestTypes, At, Is
<1>t. /\ name' = name /\ space' = space => Target(r)' = {<<space[r], name[r]>>}
      /\ Target(r) = {<<space[r], name[r]>>}
  BY DEF Target, Is
<1>2. CASE CheckFree(r)
  <2>1. PICK found \in Answers(space[r], name[r]) :
           /\ FindFileByName(r, space[r], name[r], found)
           /\ Goto(r, IF found = {} THEN "insert" ELSE "done")
    BY <1>2 DEF CheckFree
  <2>2. /\ looked'[r] # NeverLooked
        /\ found = {} => r \in blind' \/ \A l \in looked'[r] : l[2] # <<space[r], name[r]>>
    BY <1>0, <2>1, FindsSee
  <2>3. pc'[r] = IF found = {} THEN "insert" ELSE "done"
    BY <1>0, <2>1 DEF Goto, RequestTypes
  <2>4. name' = name /\ space' = space
    BY <1>2 DEF CheckFree
  <2>5. pc'[r] = "insert" => r \in blind' \/ Clear(r)'
    BY <1>t, <2>2, <2>3, <2>4, ClearNow
  <2> QED BY <2>3, <2>5
<1>3. CASE CheckSource(r)
  <2>1. PICK found \in Answers(space[r], name[r]) :
           /\ FindFileByName(r, space[r], name[r], found)
           /\ IF found = {} THEN Goto(r, "insert")
              ELSE \E x \in found : Goto(r, IF x = cur[r].id THEN "insert" ELSE "done")
    BY <1>3 DEF CheckSource
  <2>2. /\ looked'[r] # NeverLooked
        /\ found = {} => r \in blind' \/ \A l \in looked'[r] : l[2] # <<space[r], name[r]>>
        /\ \A x \in found : x \in Row /\ <<x, <<space[r], name[r]>>>> \in looked'[r]
    BY <1>0, <2>1, FindsSee
  <2>3. name' = name /\ space' = space /\ cur' = cur /\ Is(r, {"checkUpload"})
    BY <1>3 DEF CheckSource, At, Is
  <2>4. CASE found = {}
    <3>1. pc'[r] = "insert"
      BY <1>0, <2>1, <2>4 DEF Goto, RequestTypes
    <3>2. r \in blind' \/ Clear(r)'
      BY <1>t, <2>2, <2>3, <2>4, ClearNow
    <3> QED BY <3>1, <3>2
  <2>5. CASE found # {}
    <3>1. PICK x \in found : Goto(r, IF x = cur[r].id THEN "insert" ELSE "done")
      BY <2>1, <2>5
    <3>2. pc'[r] = IF x = cur[r].id THEN "insert" ELSE "done"
      BY <1>0, <3>1 DEF Goto, RequestTypes
    <3>3. x = cur[r].id => Over(r)'
      BY <2>2, <2>3, <3>1 DEF Over
    <3> QED BY <2>3, <3>2, <3>3 DEF Is
  <2> QED BY <2>4, <2>5
<1>4. CASE CheckOverwrite(r)
  <2>1. PICK found \in Answers(space[r], name[r]) :
           /\ FindFileByName(r, space[r], name[r], found)
           /\ \/ found = {} /\ Goto(r, "insert") /\ UNCHANGED cur
              \/ found # {} /\ Goto(r, "done") /\ UNCHANGED cur
              \/ \E x \in found : /\ cur' = [cur EXCEPT ![r] = Snapshot(x)]
                                  /\ Goto(r, "replace")
    BY <1>4 DEF CheckOverwrite
  <2>2. /\ looked'[r] # NeverLooked
        /\ found = {} => r \in blind' \/ \A l \in looked'[r] : l[2] # <<space[r], name[r]>>
        /\ \A x \in found : x \in Row /\ <<x, <<space[r], name[r]>>>> \in looked'[r]
    BY <1>0, <2>1, FindsSee
  <2>3. name' = name /\ space' = space /\ Is(r, {"agentWrite"})
    BY <1>4 DEF CheckOverwrite, At, Is
  <2>4. CASE found = {} /\ Goto(r, "insert")
    <3>1. pc'[r] = "insert"
      BY <1>0, <2>4 DEF Goto, RequestTypes
    <3>2. r \in blind' \/ Clear(r)'
      BY <1>t, <2>2, <2>3, <2>4, ClearNow
    <3> QED BY <3>1, <3>2
  <2>5. CASE Goto(r, "done")
    BY <1>0, <2>5 DEF Goto, RequestTypes
  <2>6. CASE \E x \in found : cur' = [cur EXCEPT ![r] = Snapshot(x)] /\ Goto(r, "replace")
    <3>1. PICK x \in found : cur' = [cur EXCEPT ![r] = Snapshot(x)] /\ Goto(r, "replace")
      BY <2>6
    <3>2. pc'[r] = "replace" /\ cur'[r].id = x
      BY <1>0, <3>1 DEF Goto, RequestTypes, Snapshot
    <3>3. Over(r)'
      BY <2>2, <2>3, <3>1, <3>2 DEF Over
    <3> QED BY <3>2, <3>3
  <2> QED BY <2>1, <2>4, <2>5, <2>6
<1>5. CASE ReplaceOld(r)
  <2>1. Is(r, {"agentWrite"}) /\ Over(r) /\ pc'[r] = "insert"
    BY <1>0, <1>5 DEF ReplaceOld, Checked, At, Is, Goto, RequestTypes
  <2>2. UNCHANGED <<name, space, cur, looked>>
    BY <1>5 DEF ReplaceOld, DeleteFile
  <2>3. Over(r)'
    BY <2>1, <2>2 DEF Over
  <2> QED BY <2>1, <2>3 DEF Is
<1> QED BY <1>1, <1>2, <1>3, <1>4, <1>5

LEMMA SessionLooks ==
    ASSUME BaseInv, RowsAssumption, plan' = plan, NEW r \in Request, FileStep(r), Checked(r),
           Is(r, {"initUpload"}), Aims(r)'
    PROVE  r \in blind' \cup forced' \/ Clear(r)'
<1>0. RequestTypes /\ NameTypes
  BY DEF BaseInv, TypeOK
<1>n. session[r].state = "none" /\ UploadStep(r)
  <2>1. Is(r, UploadKinds)
    BY DEF Is, UploadKinds
  <2>2. pc[r] \notin {"done", "lost"}
    BY Ended
  <2> QED BY <1>0, <2>1, <2>2, UploadSteps DEF NameTypes
<1>a. pc'[r] \in {"reuse", "session"} \/ At(r, "initUpload", "session")
  BY <1>n, SessionSteps DEF Aims, Is, Opens, Inserters, BaseInv
<1>1. CheckHit(r) \/ CheckMiss(r) \/ RepairMark(r) \/ FindActiveSessionByHash(r)
      \/ CreateUploadSession(r)
  BY <1>0, <1>n, <1>a DEF UploadStep, FileExists, InitUpload, CheckUpload, CreateTextFile,
         Mkdir, AgentWrite, Ask, CompleteUpload, RecordUpload, UpdateUploadSessionStatus,
         GetFileByHash, NoSource, CheckSource, CheckFree, CheckOverwrite, ReplaceOld, Insert,
         AccountPATQuota, Mark, CreateFile, GiveUp, Goto, RequestTypes, At, Is, Charged
<1>t. name' = name /\ space' = space /\ Target(r)' = {<<space[r], name[r]>>}
      /\ Target(r) = {<<space[r], name[r]>>}
  BY <1>1 DEF Target, Is, CheckHit, CheckMiss, RepairMark, FindActiveSessionByHash,
              CreateUploadSession
<1>f. blind \subseteq blind' /\ forced \subseteq forced'
  BY BlindGrows
<1>2. CASE CheckHit(r) \/ RepairMark(r)
  <2>1. pc'[r] = IF r \in forced THEN "reuse" ELSE "done"
    BY <1>0, <1>2 DEF CheckHit, RepairMark, Goto, RequestTypes
  <2>2. ~At(r, "initUpload", "session")
    BY <1>2 DEF CheckHit, RepairMark, At
  <2> QED BY <1>a, <1>f, <2>1, <2>2
<1>3. CASE CheckMiss(r)
  <2>1. PICK found \in Answers(space[r], name[r]) :
           /\ FindFileByName(r, space[r], name[r], found)
           /\ Goto(r, IF found = {} THEN "reuse" ELSE "repair")
    BY <1>3 DEF CheckMiss
  <2>2. /\ looked'[r] # NeverLooked
        /\ found = {} => r \in blind' \/ \A l \in looked'[r] : l[2] # <<space[r], name[r]>>
    BY <1>0, <2>1, FindsSee
  <2>3. pc'[r] = IF found = {} THEN "reuse" ELSE "repair"
    BY <1>0, <2>1 DEF Goto, RequestTypes
  <2>4. found = {}
    BY <1>3, <1>a, <2>3 DEF CheckMiss, At
  <2> QED BY <1>t, <2>2, <2>4, ClearNow
<1>4. CASE FindActiveSessionByHash(r) \/ CreateUploadSession(r)
  <2>1. r \in blind \cup forced \/ Clear(r)
    BY <1>4 DEF Checked, Aims, FindActiveSessionByHash, CreateUploadSession, At, Is
  <2>2. looked' = looked
    BY <1>4 DEF FindActiveSessionByHash, CreateUploadSession, history
  <2>3. Clear(r) => Clear(r)'
    BY <1>t, <2>2 DEF Clear
  <2> QED BY <1>f, <2>1, <2>3
<1> QED BY <1>1, <1>2, <1>3, <1>4

LEMMA SavedLooks ==
    ASSUME BaseInv, RowsAssumption, plan' = plan, NEW r \in Request, FileStep(r),
           Is(r, {"saveShare"}), pc'[r] = "insert"
    PROVE  r \in blind' \/ Clear(r)'
<1>0. RequestTypes
  BY DEF BaseInv, TypeOK
<1>1. TryName(r)
  BY <1>0, SaveSteps DEF SaveShare, CheckInShare, InsertSaved, CreateFile, GiveUp, Goto,
                         RequestTypes
<1>2. PICK found \in Answers(space[r], name[r]) :
         /\ FindFileByName(r, space[r], name[r], found)
         /\ IF found = {} THEN name' = name ELSE pc' = pc
  BY <1>1 DEF TryName
<1>3. found = {} /\ name' = name /\ space' = space
  BY <1>1, <1>2 DEF TryName, At
<1>4. /\ looked'[r] # NeverLooked
      /\ r \in blind' \/ \A l \in looked'[r] : l[2] # <<space[r], name[r]>>
  BY <1>0, <1>2, <1>3, FindsSee
<1>5. Target(r)' = {<<space[r], name[r]>>}
  BY <1>3 DEF Target, Is
<1> QED BY <1>4, <1>5, ClearNow

LEMMA RestoreLooks ==
    ASSUME BaseInv, RowsAssumption, plan' = plan, NEW r \in Request, FileStep(r),
           Is(r, {"restore"}), pc'[r] = "restore"
    PROVE  r \in blind' \/ Clear(r)'
<1>0. RequestTypes
  BY DEF BaseInv, TypeOK
<1>1. CheckRestored(r)
  <2>1. RestoreFile(r) \/ CheckRestored(r) \/ RestoreOne(r) \/ MarkRestored(r)
    BY MoveSteps DEF Is, Moves, At, Rename, CheckNewName, MoveDir, CheckTarget, MoveOne,
                     MoveFails, UnmarkMoved, MarkMoved
  <2> QED BY <1>0, <2>1 DEF RestoreFile, RestoreOne, MarkRestored, GiveUp, Goto, RequestTypes, Is
<1>2. PICK found \in Answers(space[r], cur[r].name) :
         /\ FindFileByName(r, space[r], cur[r].name, found)
         /\ Goto(r, IF found = {} THEN "restore" ELSE "done")
  BY <1>1 DEF CheckRestored
<1>3. pc'[r] = IF found = {} THEN "restore" ELSE "done"
  BY <1>0, <1>2 DEF Goto, RequestTypes
<1>4. space' = space /\ cur' = cur
  BY <1>1 DEF CheckRestored
<1>5. /\ looked'[r] # NeverLooked
      /\ r \in blind' \/ \A l \in looked'[r] : l[2] # <<space[r], cur[r].name>>
  BY <1>0, <1>2, <1>3, FindsSee
<1>6. Target(r)' = {<<space[r], cur[r].name>>}
  BY <1>4 DEF Target, Is
<1> QED BY <1>5, <1>6, ClearNow

LEMMA RenameLooks ==
    ASSUME BaseInv, RowsAssumption, plan' = plan, NEW r \in Request, FileStep(r), Checked(r),
           Is(r, {"rename", "moveDir"}), pc'[r] \in {"update", "unmark", "mark"}
    PROVE  r \in blind' \cup forced' \/ Clear(r)'
<1>0. RequestTypes
  BY DEF BaseInv, TypeOK
<1>f. blind \subseteq blind' /\ forced \subseteq forced'
  BY BlindGrows
<1>1. \/ Rename(r) \/ CheckNewName(r) \/ CheckTarget(r)
      \/ MoveOne(r) \/ MoveFails(r) \/ UnmarkMoved(r) \/ MarkMoved(r)
  BY <1>0, MoveSteps DEF Is, At, MoveDir, RestoreFile, CheckRestored, RestoreOne,
                         MarkRestored, Goto, RequestTypes
<1>2. CASE Rename(r)
  BY <1>0, <1>2 DEF Rename, Is, Goto, RequestTypes
<1>3. CASE CheckNewName(r)
  <2>1. PICK found \in Answers(space[r], name[r]) :
           /\ FindFileByName(r, space[r], name[r], found)
           /\ Goto(r, IF found = {} THEN "update" ELSE "done")
    BY <1>3 DEF CheckNewName
  <2>2. pc'[r] = IF found = {} THEN "update" ELSE "done"
    BY <1>0, <2>1 DEF Goto, RequestTypes
  <2>3. /\ looked'[r] # NeverLooked
        /\ r \in blind' \/ \A l \in looked'[r] : l[2] # <<space[r], name[r]>>
    BY <1>0, <2>1, <2>2, FindsSee
  <2>4. Target(r)' = {<<space[r], name[r]>>}
    BY <1>3 DEF CheckNewName, Target, Is, At
  <2> QED BY <2>3, <2>4, ClearNow
<1>4. CASE CheckTarget(r)
  <2>1. /\ looked'[r] # NeverLooked
        /\ looked'[r] = {<<x, Place(x)>> : x \in {y \in Row : Live(y)}}
    BY <1>0, <1>4, LooksSee DEF CheckTarget
  <2>2. r \in blind' \/ InDir(space[r], name[r][1]) = {}
    BY <1>0, <1>4 DEF CheckTarget, Goto, RequestTypes
  <2>3. Target(r)' = {<<space[r], <<name[r][1], b>>>> : b \in Base}
    BY <1>4 DEF CheckTarget, Target, Is, At
  <2>4. ASSUME InDir(space[r], name[r][1]) = {}, NEW x \in Row, Live(x), NEW b \in Base,
               Place(x) = <<space[r], <<name[r][1], b>>>>
        PROVE  FALSE
    <3>1. row[x].space = space[r] /\ row[x].name = <<name[r][1], b>>
      BY <2>4 DEF Place
    <3>2. x \in InDir(space[r], name[r][1])
      BY <2>4, <3>1 DEF InDir, LiveIn
    <3> QED BY <2>4, <3>2
  <2>5. InDir(space[r], name[r][1]) = {} => \A l \in looked'[r] : l[2] \notin Target(r)'
    BY <2>1, <2>3, <2>4
  <2> QED BY <2>1, <2>2, <2>5 DEF Clear
<1>5. CASE MoveOne(r) \/ MoveFails(r) \/ UnmarkMoved(r) \/ MarkMoved(r)
  <2>1. r \in blind \cup forced \/ Clear(r)
    BY <1>5 DEF Checked, Aims, MoveOne, MoveFails, UnmarkMoved, MarkMoved, Is
  <2>2. UNCHANGED <<name, space, looked>>
    BY <1>5 DEF MoveOne, MoveFails, UnmarkMoved, MarkMoved, UpdateFilename, MarkFileExists,
                UnmarkFileExists, history
  <2>3. Clear(r) => Clear(r)'
    BY <2>2 DEF Clear, Target, Is
  <2> QED BY <1>f, <2>1, <2>3
<1> QED BY <1>1, <1>2, <1>3, <1>4, <1>5

CheckedInv == \A r \in Request : Checked(r)

LEMMA CheckedOwn ==
    ASSUME BaseInv, RowsAssumption, plan' = plan, NEW r \in Request, FileStep(r), Checked(r)
    PROVE  Checked(r)'
<1>0. RequestTypes /\ NameTypes
  BY DEF BaseInv, TypeOK
<1>1. IsFiniteSet(looked'[r])
  BY <1>0, LookedSteps, LooksSee DEF Checked
<1>2. session'[r].state # "none" => session'[r].name = name'[r] /\ session'[r].space = space'[r]
  <2>1. session[r].state = "none"
    BY <1>0, Ended DEF NameTypes
  <2>2. CASE Opens(r)
    <3>1. Is(r, UploadKinds)
      BY <2>2 DEF Opens, At, Is, UploadKinds
    <3>2. CreateUploadSession(r)
      BY <2>2, <3>1, UploadSteps DEF Opens, UploadStep, FileExists, CheckHit, CheckMiss,
         RepairMark, InitUpload, CheckUpload, CreateTextFile, Mkdir, AgentWrite, Ask,
         CompleteUpload, FindActiveSessionByHash, RecordUpload, UpdateUploadSessionStatus,
         GetFileByHash, NoSource, CheckSource, CheckFree, CheckOverwrite, ReplaceOld, Insert,
         AccountPATQuota, Mark, At, Is, Goto
    <3> QED BY <2>2, <3>2 DEF CreateUploadSession, Opens
  <2> QED BY <2>1, <2>2, SessionSteps DEF BaseInv
<1>3. Is(r, {"agentWrite"})' /\ pc'[r] = "replace" => Over(r)'
  BY InsertLooks DEF Is
<1>4. ASSUME Aims(r)'
      PROVE  \/ r \in blind' \cup forced' \/ Clear(r)'
             \/ Is(r, {"checkUpload", "agentWrite"})' /\ Over(r)'
  <2>1. CASE Is(r, {"createText", "mkdir", "checkUpload", "agentWrite"})
    <3>1. pc'[r] = "insert"
      BY <1>4, <2>1 DEF Aims, Is
    <3>2. Is(r, {"checkUpload", "agentWrite"})' <=> Is(r, {"checkUpload", "agentWrite"})
      BY DEF Is
    <3>3. \/ r \in blind' \/ Clear(r)'
          \/ Is(r, {"checkUpload", "agentWrite"}) /\ Over(r)'
      BY <2>1, <3>1, InsertLooks
    <3> QED BY <3>2, <3>3
  <2>2. CASE Is(r, {"initUpload"})
    BY <1>4, <2>2, SessionLooks
  <2>3. CASE Is(r, {"saveShare"})
    <3>1. pc'[r] = "insert"
      BY <1>4, <2>3 DEF Aims, Is
    <3> QED BY <2>3, <3>1, SavedLooks
  <2>4. CASE Is(r, {"restore"})
    <3>1. pc'[r] = "restore"
      BY <1>4, <2>4 DEF Aims, Is, Inserters
    <3> QED BY <2>4, <3>1, RestoreLooks
  <2>5. CASE Is(r, {"rename", "moveDir"})
    <3>1. pc'[r] \in {"update", "unmark", "mark"}
      BY <1>4, <2>5 DEF Aims, Is, Inserters
    <3> QED BY <2>5, <3>1, RenameLooks
  <2> QED BY <1>4, <2>1, <2>2, <2>3, <2>4, <2>5 DEF Aims, Is, Inserters
<1> QED BY <1>1, <1>2, <1>3, <1>4 DEF Checked

LEMMA CheckedStays == ASSUME BaseInv, CheckedInv, RowsAssumption, Next PROVE CheckedInv'
<1>0. RequestTypes /\ plan' = plan
  BY Steps DEF BaseInv, TypeOK
<1>1. CASE Crash
  <2>1. \A q \in Request : pc'[q] = pc[q] \/ pc'[q] = "lost"
    BY <1>0, <1>1 DEF Crash, RequestTypes
  <2>2. UNCHANGED <<name, space, cur, looked, blind, session, forced>>
    BY <1>1 DEF Crash, uploadVars
  <2>3. ASSUME NEW q \in Request PROVE Checked(q)'
    <3>1. Checked(q) /\ (Aims(q)' => Aims(q)) /\ (pc'[q] = "replace" => pc[q] = "replace")
      BY <1>0, <2>1, <2>2 DEF CheckedInv, Aims, Is
    <3>2. (Clear(q) => Clear(q)') /\ (Over(q) => Over(q)')
      BY <1>0, <2>2 DEF Clear, Over, Target, Is
    <3> QED BY <1>0, <2>2, <3>1, <3>2 DEF Checked, Is
  <2> QED BY <2>3 DEF CheckedInv
<1>2. ASSUME NEW r \in Request, FileStep(r), NEW q \in Request PROVE Checked(q)'
  <2>1. CASE q = r
    BY <1>0, <1>2, <2>1, CheckedOwn DEF CheckedInv
  <2>2. CASE q # r
    <3>1. Keeps(q) /\ blind \subseteq blind' /\ forced \subseteq forced'
      BY <1>0, <1>2, <2>2, OthersKeep, BlindGrows
    <3>2. /\ session'[q].state # "none" => session[q].state # "none"
          /\ session[q].state # "none" => /\ session'[q].name = session[q].name
                                          /\ session'[q].space = session[q].space
      BY <1>2, <2>2, SessionSteps DEF BaseInv
    <3>3. Checked(q) /\ (Aims(q)' => Aims(q)) /\ (pc'[q] = "replace" => pc[q] = "replace")
      BY <1>0, <3>1, <3>2 DEF CheckedInv, Aims, Is, Keeps
    <3>4. (Clear(q) => Clear(q)') /\ (Over(q) => Over(q)')
      BY <1>0, <3>1 DEF Clear, Over, Target, Is, Keeps
    <3> QED BY <1>0, <3>1, <3>2, <3>3, <3>4 DEF Checked, Is, Keeps
  <2> QED BY <2>1, <2>2
<1> QED BY <1>1, <1>2, Steps DEF CheckedInv

(* A row that is in the table, or has been, is not made again: it stays in   *)
(* the space in which a request has found it.                               *)
Settled(x) == x \in Past \/ (x \in Request /\ Through(x))
Stays(r, x) == /\ x \in Row /\ Settled(x)
               /\ row[x].state # "none" => row[x].space = space[r]
Placed(r) ==
    /\ Is(r, {"rename", "moveDir"}) /\ pc[r] \in {"find", "update", "unmark", "mark"}
          => \A t \in todo[r] : Stays(r, t.id)
    /\ Is(r, {"restore"}) /\ pc[r] \in {"find", "restore"} => Stays(r, cur[r].id)
PlacedInv == \A r \in Request : Placed(r)

LEMMA SpaceStays ==
    ASSUME BaseInv, RowsAssumption, plan' = plan, NEW q \in Request, FileStep(q),
           NEW x \in Row, Settled(x)
    PROVE  /\ Settled(x)'
           /\ row'[x].state # "none" => row[x].state # "none" /\ row'[x].space = row[x].space
<1>0. RequestTypes /\ RowTypes /\ row[x] \in FileRow
  BY DEF BaseInv, TypeOK, RowTypes
<1>1. Settled(x)'
  BY <1>0, ThroughStays DEF Settled
<1>2. CASE row' = row
  BY <1>1, <1>2
<1>3. CASE Made(q)
  <2>1. x # q
    BY <1>3, RowsAssumption DEF Made, Settled, Through
  <2>2. row'[x] = row[x]
    BY <1>0, <1>3, <2>1 DEF Made, RowTypes
  <2> QED BY <1>1, <2>2
<1>4. CASE Renamed(q)
  <2>1. row'[x].state = row[x].state /\ row'[x].space = row[x].space
    BY <1>0, <1>4 DEF Renamed, RowTypes, FileRow
  <2> QED BY <1>1, <2>1
<1>5. CASE Dropped
  <2>1. row'[x] = row[x] \/ (Live(x) /\ row'[x] = [row[x] EXCEPT !.state = "trash"])
    BY <1>5 DEF Dropped
  <2> QED BY <1>0, <1>1, <2>1 DEF Live, FileRow
<1>6. CASE Restored(q)
  <2>1. row'[x] = row[x] \/ (row[x].state = "trash" /\ row'[x].space = row[x].space)
    BY <1>0, <1>6 DEF Restored, RowTypes, FileRow
  <2> QED BY <1>1, <2>1
<1>7. CASE Purged
  <2>1. row'[x] = row[x] \/ row'[x].state = "none"
    BY <1>0, <1>7 DEF Purged, RowTypes, Absent
  <2> QED BY <1>1, <2>1
<1> QED BY <1>0, <1>2, <1>3, <1>4, <1>5, <1>6, <1>7, RowSteps DEF RowStep

LEMMA PlacedOwn ==
    ASSUME BaseInv, RowsAssumption, plan' = plan, NEW r \in Request, FileStep(r), Placed(r)
    PROVE  Placed(r)'
<1>0. RequestTypes /\ RowTypes /\ NameTypes
  BY DEF BaseInv, TypeOK
<1>s. \A x \in Row : row[x].state # "none" => Settled(x)
  BY DEF BaseInv, FreshInv, Settled, Row
<1>k. ASSUME NEW x, Stays(r, x), space' = space PROVE Stays(r, x)'
  BY <1>k, SpaceStays DEF Stays
<1>f. ASSUME NEW x \in Row, row[x].state # "none", row' = row, space'[r] = row[x].space
      PROVE  Stays(r, x)'
  BY <1>f, <1>s, SpaceStays DEF Stays
<1>1. ASSUME Is(r, {"rename", "moveDir"}), pc'[r] \in {"find", "update", "unmark", "mark"},
             NEW t \in todo'[r]
      PROVE  Stays(r, t.id)'
  <2>1. \/ Rename(r) \/ CheckNewName(r) \/ MoveDir(r) \/ CheckTarget(r)
        \/ MoveOne(r) \/ MoveFails(r) \/ UnmarkMoved(r) \/ MarkMoved(r)
    BY <1>1, MoveSteps DEF RestoreFile, CheckRestored, RestoreOne, MarkRestored, At, Is
  <2>2. CASE Rename(r)
    <3>1. PICK x \in LiveRows : /\ todo' = [todo EXCEPT ![r] = {Snapshot(x)}]
                                /\ space' = [space EXCEPT ![r] = row[x].space]
      BY <2>2 DEF Rename, Take
    <3>2. t = Snapshot(x) /\ space'[r] = row[x].space /\ row' = row
      BY <1>0, <1>1, <2>2, <3>1 DEF RequestTypes, Rename
    <3>3. x \in Row /\ row[x].state # "none" /\ t.id = x
      BY <3>2 DEF LiveRows, Live, Snapshot
    <3> QED BY <1>f, <3>2, <3>3
  <2>3. CASE MoveDir(r)
    <3>1. PICK s \in Space, from \in Dir :
             /\ todo' = [todo EXCEPT ![r] = {Snapshot(x) : x \in InDir(s, from)}]
             /\ space' = [space EXCEPT ![r] = s]
      BY <2>3 DEF MoveDir, Take
    <3>2. todo'[r] = {Snapshot(x) : x \in InDir(s, from)} /\ space'[r] = s /\ row' = row
      BY <1>0, <2>3, <3>1 DEF RequestTypes, MoveDir
    <3>3. PICK x \in InDir(s, from) : t = Snapshot(x)
      BY <1>1, <3>2
    <3>4. x \in Row /\ row[x].state # "none" /\ row[x].space = s /\ t.id = x
      BY <3>3 DEF InDir, LiveIn, Live, Snapshot
    <3> QED BY <1>f, <3>2, <3>4
  <2>4. CASE CheckNewName(r) \/ CheckTarget(r) \/ MoveOne(r) \/ MoveFails(r)
             \/ UnmarkMoved(r) \/ MarkMoved(r)
    <3>1. space' = space /\ pc[r] \in {"find", "update", "unmark", "mark"}
      BY <2>4 DEF CheckNewName, CheckTarget, MoveOne, MoveFails, UnmarkMoved, MarkMoved, At
    <3>2. t \in todo[r]
      <4>1. CASE todo' = todo
        BY <1>1, <4>1
      <4>2. CASE \E u \in todo[r] : Take(r, todo[r] \ {u})
        BY <1>0, <1>1, <4>2 DEF Take, RequestTypes
      <4> QED BY <2>4, <4>1, <4>2 DEF CheckNewName, CheckTarget, MoveOne, MoveFails,
                                      UnmarkMoved, MarkMoved
    <3> QED BY <1>1, <1>k, <3>1, <3>2 DEF Placed
  <2> QED BY <2>1, <2>2, <2>3, <2>4
<1>2. ASSUME Is(r, {"restore"}), pc'[r] \in {"find", "restore"}
      PROVE  Stays(r, cur[r].id)'
  <2>1. RestoreFile(r) \/ CheckRestored(r)
    <3>1. RestoreFile(r) \/ CheckRestored(r) \/ RestoreOne(r) \/ MarkRestored(r)
      BY <1>2, MoveSteps DEF Is, Moves, At, Rename, CheckNewName, MoveDir, CheckTarget, MoveOne,
                             MoveFails, UnmarkMoved, MarkMoved
    <3> QED BY <1>0, <1>2, <3>1 DEF RestoreOne, MarkRestored, GiveUp, Goto, RequestTypes, Is
  <2>2. CASE RestoreFile(r)
    <3>1. PICK x \in Trashed : /\ cur' = [cur EXCEPT ![r] = Snapshot(x)]
                               /\ space' = [space EXCEPT ![r] = row[x].space]
      BY <2>2 DEF RestoreFile
    <3>2. cur'[r].id = x /\ space'[r] = row[x].space /\ row' = row
      BY <1>0, <2>2, <3>1 DEF RequestTypes, RestoreFile, Snapshot
    <3>3. x \in Row /\ row[x].state # "none"
      BY DEF Trashed
    <3>4. Stays(r, x)'
      BY <1>f, <3>2, <3>3
    <3> QED BY <3>2, <3>4 DEF Stays
  <2>3. CASE CheckRestored(r)
    <3>1. Stays(r, cur[r].id) /\ space' = space /\ cur' = cur
      BY <1>2, <2>3 DEF CheckRestored, Placed, At
    <3>2. PICK x : x = cur[r].id
      OBVIOUS
    <3>3. Stays(r, x)'
      BY <1>k, <3>1, <3>2
    <3> QED BY <3>1, <3>2, <3>3 DEF Stays
  <2> QED BY <2>1, <2>2, <2>3
<1> QED BY <1>1, <1>2 DEF Placed, Is

LEMMA PlacedStays == ASSUME BaseInv, PlacedInv, RowsAssumption, Next PROVE PlacedInv'
<1>0. RequestTypes /\ plan' = plan
  BY Steps DEF BaseInv, TypeOK
<1>1. CASE Crash
  <2>1. \A q \in Request : pc'[q] \in {"start", "done", "lost"}
    BY <1>0, <1>1 DEF Crash, Running, RequestTypes
  <2> QED BY <2>1 DEF PlacedInv, Placed
<1>2. ASSUME NEW r \in Request, FileStep(r), NEW q \in Request PROVE Placed(q)'
  <2>1. CASE q = r
    BY <1>0, <1>2, <2>1, PlacedOwn DEF PlacedInv
  <2>2. CASE q # r
    <3>1. Keeps(q) /\ Placed(q)
      BY <1>0, <1>2, <2>2, OthersKeep DEF PlacedInv
    <3>2. ASSUME NEW x, Stays(q, x) PROVE Stays(q, x)'
      BY <1>0, <1>2, <3>1, <3>2, SpaceStays DEF Stays, Keeps
    <3>3. ASSUME Stays(q, cur[q].id) PROVE Stays(q, cur[q].id)'
      <4>1. PICK x : x = cur[q].id
        OBVIOUS
      <4>2. Stays(q, x)'
        BY <3>2, <3>3, <4>1
      <4> QED BY <3>1, <4>1, <4>2 DEF Stays, Keeps
    <3> QED BY <1>0, <3>1, <3>2, <3>3 DEF Placed, Keeps, Is
  <2> QED BY <2>1, <2>2
<1> QED BY <1>1, <1>2, Steps DEF PlacedInv

LEMMA ClearExcuses ==
    ASSUME NEW r \in Request, NEW x \in Row, NEW y \in Row, NEW q, Looker(r) = q, Clear(q),
           Place(x)' \in Target(q)
    PROVE  Excuse(r, x, y)
<1>1. <<y, Place(x)'>> \notin looked[q]
  <2>1. <<y, Place(x)'>>[2] = Place(x)'
    OBVIOUS
  <2> QED BY <2>1 DEF Clear
<1> QED BY <1>1 DEF Clear, Excuse

LEMMA BlindExcuses ==
    ASSUME NEW r \in Request, NEW x \in Row, NEW y \in Row, Looker(r) \in blind \cup forced
    PROVE  Excuse(r, x, y)
BY DEF Excuse

(* A finite set with two members has more than one.                          *)
LEMMA MoreThanOne ==
    ASSUME NEW S, IsFiniteSet(S), NEW a \in S, NEW b \in S, a # b
    PROVE  Cardinality(S) > 1
<1>1. IsFiniteSet({a}) /\ Cardinality({a}) = 1
  BY FS_Singleton
<1>2. Cardinality({a} \cup {b}) = 2
  BY <1>1, FS_AddElement
<1>3. Cardinality({a} \cup {b}) <= Cardinality(S) /\ Cardinality(S) \in Nat
  BY FS_Subset, FS_CardinalityType
<1>4. ASSUME NEW m, NEW n \in Nat, m = 2, m <= n PROVE n > 1
  BY <1>4
<1> QED BY <1>2, <1>3, <1>4

LEMMA ByInsert ==
    ASSUME BaseInv, CheckedInv, RowsAssumption, plan' = plan, NEW r \in Request, FileStep(r),
           NEW x \in Row, NEW y \in Row, Twins(x, y)', row'[x] # row[x], Made(r)
    PROVE  Acts(r) /\ Excuse(r, x, y)
<1>0. RequestTypes /\ RowTypes /\ NameTypes /\ r \in Row
  BY DEF BaseInv, TypeOK, Row
<1>1. Acts(r)
  BY DEF Made, Acts
<1>2. x = r /\ Place(x)' = <<space[r], name[r]>>
  BY <1>0 DEF Made, RowTypes, Place
<1>3. CASE Is(r, {"completeUpload"})
  <2>1. pc[r] = "record"
    <3>1. UploadStep(r)
      BY <1>3, UploadSteps DEF Is, UploadKinds, Inserters
    <3> QED BY <1>3, <3>1 DEF Made, UploadStep, FileExists, CheckHit, CheckMiss, RepairMark,
         InitUpload, CheckUpload, CreateTextFile, Mkdir, AgentWrite, CompleteUpload,
         FindActiveSessionByHash, CreateUploadSession, RecordUpload,
         UpdateUploadSessionStatus, GetFileByHash, NoSource, CheckSource, CheckFree,
         CheckOverwrite, ReplaceOld, AccountPATQuota, Mark, At, Is
  <2>2. PICK q : q = cur[r].id
    OBVIOUS
  <2>3. Completes(r, q) /\ Looker(r) = q
    BY <1>0, <1>3, <2>1, <2>2 DEF NameTypes, Looker
  <2>4. q \in Request /\ Is(q, {"initUpload"}) /\ Checked(q) /\ Aims(q)
    BY <1>0, <2>3 DEF Completes, NameTypes, CheckedInv, Aims
  <2>5. q \in blind \cup forced \/ Clear(q)
    BY <2>4 DEF Checked, Is
  <2>6. Place(x)' \in Target(q)
    BY <1>2, <2>3, <2>4 DEF Completes, Checked, Target, Is
  <2> QED BY <1>1, <2>3, <2>5, <2>6, ClearExcuses, BlindExcuses
<1>4. CASE ~Is(r, {"completeUpload"})
  <2>1. Is(r, Inserters \ {"completeUpload"}) /\ pc[r] \in {"insert", "record"}
    BY <1>4 DEF Made, Is, Inserters
  <2>2. pc[r] # "record"
    <3>1. CASE Is(r, {"saveShare"})
      BY <3>1, SaveSteps DEF SaveShare, CheckInShare, TryName, InsertSaved, At
    <3>2. CASE ~Is(r, {"saveShare"})
      <4>1. UploadStep(r)
        BY <2>1, <3>2, UploadSteps DEF Is, UploadKinds
      <4> QED BY <1>4, <4>1 DEF UploadStep, FileExists, CheckHit, CheckMiss, RepairMark,
         InitUpload, CheckUpload, CreateTextFile, Mkdir, AgentWrite, Ask, CompleteUpload,
         FindActiveSessionByHash, CreateUploadSession, RecordUpload, Insert,
         UpdateUploadSessionStatus, GetFileByHash, NoSource, CheckSource, CheckFree,
         CheckOverwrite, ReplaceOld, AccountPATQuota, Mark, At, Is
    <3> QED BY <3>1, <3>2
  <2>3. Checked(r) /\ Aims(r) /\ Looker(r) = r
    BY <1>4, <2>1, <2>2 DEF CheckedInv, Aims, Looker
  <2>4. Target(r) = {<<space[r], name[r]>>}
    BY <2>1 DEF Target, Is, Inserters
  <2>5. CASE r \in blind \cup forced
    BY <1>1, <2>3, <2>5, BlindExcuses
  <2>6. CASE Clear(r)
    BY <1>1, <1>2, <2>3, <2>4, <2>6, ClearExcuses
  <2>7. CASE Is(r, {"checkUpload"}) /\ Over(r)
    BY <1>1, <1>2, <2>3, <2>7 DEF Excuse, Over
  <2>8. CASE Is(r, {"agentWrite"}) /\ Over(r)
    <3> DEFINE p == <<space[r], name[r]>>
               there == {l \in looked[r] : l[2] = p}
    <3>1. CASE <<y, p>> \notin looked[r]
      <4>1. looked[r] # NeverLooked
        <5>1. cur[r].id # None /\ <<cur[r].id, p>> \in looked[r]
          BY RowsAssumption, <2>8 DEF Over
        <5>2. ASSUME looked[r] = NeverLooked PROVE FALSE
          BY <5>1, <5>2 DEF NeverLooked
        <5> QED BY <5>2
      <4> QED BY <1>1, <1>2, <2>3, <3>1, <4>1 DEF Excuse
    <3>2. CASE cur[r].id = y
      BY <1>1, <2>8, <3>2 DEF Excuse
    <3>3. CASE <<y, p>> \in looked[r] /\ cur[r].id # y
      <4>1. IsFiniteSet(there)
        BY <2>3, FS_Subset DEF Checked
      <4>2. <<y, p>> \in there /\ <<cur[r].id, p>> \in there /\ <<y, p>> # <<cur[r].id, p>>
        BY <2>8, <3>3 DEF Over
      <4>3. Cardinality(there) > 1
        BY <4>1, <4>2, MoreThanOne
      <4> QED BY <1>1, <1>2, <2>3, <2>8, <4>3 DEF Excuse
    <3> QED BY <3>1, <3>2, <3>3
  <2> QED BY <2>3, <2>5, <2>6, <2>7, <2>8 DEF Checked, Is
<1> QED BY <1>3, <1>4

LEMMA ByRename ==
    ASSUME BaseInv, CheckedInv, PlacedInv, RowsAssumption, plan' = plan, NEW r \in Request,
           FileStep(r), NEW x \in Row, NEW y \in Row, Twins(x, y)', row'[x] # row[x],
           Renamed(r)
    PROVE  Acts(r) /\ Excuse(r, x, y)
<1>0. RequestTypes /\ RowTypes /\ NameTypes
  BY DEF BaseInv, TypeOK
<1>1. MoveOne(r)
  <2>1. Is(r, Moves) /\ pc[r] = "update" /\ row' # row
    BY DEF Renamed
  <2>2. ~UploadStep(r)
    BY <2>1 DEF UploadStep, FileExists, CheckHit, CheckMiss, RepairMark, InitUpload,
         CheckUpload, CreateTextFile, Mkdir, AgentWrite, CompleteUpload,
         FindActiveSessionByHash, CreateUploadSession, RecordUpload,
         UpdateUploadSessionStatus, GetFileByHash, NoSource, CheckSource, CheckFree,
         CheckOverwrite, ReplaceOld, AccountPATQuota, Mark, Charged, At, Is, Moves
  <2>3. ~ShareStep(r)
    BY <2>1 DEF ShareStep, CreateShare, InsertShare, DeleteShare, GetShare, RecordVisit,
         IncrementCount, Serve, SaveShare, CheckInShare, TryName, InsertSaved, At, Is, Moves
  <2>4. MoveStep(r)
    BY <2>2, <2>3 DEF FileStep
  <2> QED BY <2>1, <2>4 DEF MoveStep, Rename, MoveDir, DeleteFiles, DeleteDir, GetFile,
         RestoreFile, MoveFails, CheckNewName, CheckTarget, CheckRestored, UnmarkMoved,
         MarkMoved, UnmarkDeleted, UnmarkDir, MarkRestored, DeleteOne, AgentDeleteOne,
         DeleteFilesByPrefix, RestoreOne, PermanentlyDeleteFile, CreateSpace,
         EnsureUserDefaultSpace, DeleteSpace, CountFilesBySpace, DropSpace, At, Is
<1>2. PICK t \in todo[r] :
         /\ todo' = [todo EXCEPT ![r] = todo[r] \ {t}]
         /\ row' = IF row[t.id].state = "none" THEN row
                   ELSE [row EXCEPT ![t.id].name = NewName(r, t)]
  BY <1>1 DEF MoveOne, Take, UpdateFilename
<1>3. Acts(r)
  BY <1>0, <1>2 DEF Acts, RequestTypes
<1>4. /\ x = t.id /\ row[x].state # "none"
      /\ row'[x].name = NewName(r, t) /\ row'[x].space = row[x].space
  BY <1>0, <1>2 DEF RowTypes, FileRow
<1>5. CASE Is(r, {"agentRename", "agentMove"})
  BY <1>3, <1>5 DEF Excuse, Is
<1>6. CASE Is(r, {"rename", "moveDir"})
  <2>1. pc[r] = "update" /\ Checked(r) /\ Aims(r) /\ Placed(r) /\ Looker(r) = r
    BY <1>1, <1>6 DEF MoveOne, CheckedInv, PlacedInv, Aims, Looker, Is
  <2>2. row[x].space = space[r]
    BY <1>4, <1>6, <2>1 DEF Placed, Stays
  <2>3. Place(x)' \in Target(r)
    <3>1. CASE Is(r, {"rename"})
      BY <1>4, <2>2, <3>1 DEF Target, Place, NewName, Is
    <3>2. CASE Is(r, {"moveDir"})
      <4>1. t.name[2] \in Base
        BY <1>0, <1>6 DEF NameTypes, Name, Is, Moves
      <4> QED BY <1>4, <2>2, <3>2, <4>1 DEF Target, Place, NewName, Is
    <3> QED BY <1>6, <3>1, <3>2 DEF Is
  <2>4. r \in blind \cup forced \/ Clear(r)
    BY <1>6, <2>1 DEF Checked, Is
  <2> QED BY <1>3, <2>1, <2>3, <2>4, ClearExcuses, BlindExcuses
<1> QED BY <1>5, <1>6 DEF Renamed, Is, Moves

LEMMA ByRestore ==
    ASSUME BaseInv, CheckedInv, PlacedInv, RowsAssumption, plan' = plan, NEW r \in Request,
           FileStep(r), NEW x \in Row, NEW y \in Row, Twins(x, y)', row'[x] # row[x],
           Restored(r)
    PROVE  Acts(r) /\ Excuse(r, x, y)
<1>0. RequestTypes /\ RowTypes
  BY DEF BaseInv, TypeOK
<1>1. /\ x = cur[r].id /\ row[x].state = "trash"
      /\ row'[x].name = row[x].name /\ row'[x].space = row[x].space
  BY <1>0 DEF Restored, RowTypes, FileRow
<1>2. RestoreOne(r)
  <2>1. Is(r, {"restore", "agentRestore"}) /\ pc[r] = "restore" /\ row' # row
    BY DEF Restored
  <2>2. ~UploadStep(r)
    BY <2>1 DEF UploadStep, FileExists, CheckHit, CheckMiss, RepairMark, InitUpload,
         CheckUpload, CreateTextFile, Mkdir, AgentWrite, CompleteUpload,
         FindActiveSessionByHash, CreateUploadSession, RecordUpload,
         UpdateUploadSessionStatus, GetFileByHash, NoSource, CheckSource, CheckFree,
         CheckOverwrite, ReplaceOld, AccountPATQuota, Mark, Charged, At, Is
  <2>3. ~ShareStep(r)
    BY <2>1 DEF ShareStep, CreateShare, InsertShare, DeleteShare, GetShare, RecordVisit,
         IncrementCount, Serve, SaveShare, CheckInShare, TryName, InsertSaved, At, Is
  <2>4. MoveStep(r)
    BY <2>2, <2>3 DEF FileStep
  <2> QED BY <2>1, <2>4 DEF MoveStep, Rename, MoveDir, DeleteFiles, DeleteDir, GetFile,
         RestoreFile, MoveOne, MoveFails, CheckNewName, CheckTarget, CheckRestored,
         UnmarkMoved, MarkMoved, UnmarkDeleted, UnmarkDir, MarkRestored, DeleteOne,
         AgentDeleteOne, DeleteFilesByPrefix, PermanentlyDeleteFile, CreateSpace,
         EnsureUserDefaultSpace, DeleteSpace, CountFilesBySpace, DropSpace, At, Is, Moves
<1>3. Acts(r)
  BY <1>0, <1>2 DEF RestoreOne, GiveUp, Goto, Acts, RequestTypes
<1>4. CASE Is(r, {"agentRestore"})
  BY <1>3, <1>4 DEF Excuse, Is
<1>5. CASE Is(r, {"restore"}) /\ row'[x].name # cur[r].name
  BY <1>3, <1>5 DEF Excuse
<1>6. CASE Is(r, {"restore"}) /\ row'[x].name = cur[r].name
  <2>1. Checked(r) /\ Aims(r) /\ Placed(r) /\ Looker(r) = r
    BY <1>2, <1>6 DEF RestoreOne, CheckedInv, PlacedInv, Aims, Looker, Is
  <2>2. row[x].space = space[r]
    BY <1>1, <1>2, <1>6, <2>1 DEF Placed, Stays, RestoreOne
  <2>3. Place(x)' \in Target(r)
    BY <1>1, <1>6, <2>2 DEF Target, Place, Is
  <2>4. r \in blind \cup forced \/ Clear(r)
    BY <1>6, <2>1 DEF Checked, Is
  <2> QED BY <1>3, <2>1, <2>3, <2>4, ClearExcuses, BlindExcuses
<1> QED BY <1>4, <1>5, <1>6 DEF Restored, Is

LEMMA NewTwins ==
    ASSUME BaseInv, CheckedInv, PlacedInv, RowsAssumption, Next, NEW x \in Row, NEW y \in Row,
           Twins(x, y)', row'[x] # row[x]
    PROVE  crashed' # crashed \/ \E r \in Request : Acts(r) /\ Excuse(r, x, y)
<1>1. CASE Crash
  BY <1>1 DEF Crash
<1>2. ASSUME NEW r \in Request, FileStep(r), plan' = plan PROVE Acts(r) /\ Excuse(r, x, y)
  <2>0. RequestTypes /\ RowTypes /\ Live(x)'
    BY DEF BaseInv, TypeOK, Twins
  <2>1. ~Dropped
    BY <2>0 DEF Dropped, Live, RowTypes, FileRow
  <2>2. ~Purged
    BY <2>0 DEF Purged, Live, RowTypes, Absent
  <2> QED BY <1>2, <2>0, <2>1, <2>2, RowSteps, ByInsert, ByRename, ByRestore DEF RowStep
<1> QED BY <1>1, <1>2, Steps

(* Nothing in the table keeps two rows from one name: every request looks    *)
(* for the name first and writes later.  Two rows come to share a name and a *)
(* space only where the look could not help: the client asked for it, the    *)
(* look failed or was not made, the row came in after it, the copy is of the *)
(* row itself, or a restart took in rows without a space.                    *)
THEOREM DuplicatesAreExplained == Spec => DuplicatesExplained
<1>1. Init => CheckedInv /\ PlacedInv
  <2>1. IsFiniteSet(NeverLooked)
    BY FS_Singleton DEF NeverLooked
  <2> QED BY <2>1 DEF Init, CheckedInv, Checked, Aims, PlacedInv, Placed, NoSession
<1>2. BaseInv /\ CheckedInv /\ PlacedInv /\ [Next]_vars => CheckedInv' /\ PlacedInv'
  <2>1. ASSUME CheckedInv, UNCHANGED vars PROVE CheckedInv'
    <3>1. UNCHANGED <<plan, pc, name, space, cur, looked, blind, session, forced>>
      BY <2>1 DEF vars, request, history, uploadVars
    <3>2. ASSUME NEW q \in Request PROVE Checked(q)'
      <4>1. Checked(q) /\ (Aims(q)' => Aims(q))
        BY <2>1, <3>1 DEF CheckedInv, Aims, Is
      <4>2. (Clear(q) => Clear(q)') /\ (Over(q) => Over(q)')
        BY <3>1 DEF Clear, Over, Target, Is
      <4> QED BY <3>1, <4>1, <4>2 DEF Checked, Is
    <3> QED BY <3>2 DEF CheckedInv
  <2>2. ASSUME PlacedInv, UNCHANGED vars PROVE PlacedInv'
    BY <2>2 DEF vars, request, PlacedInv, Placed, Stays, Settled, Through, Is
  <2> QED BY <2>1, <2>2, CheckedStays, PlacedStays, RowsAssumption
<1>3. ASSUME BaseInv, CheckedInv, PlacedInv, [Next]_vars
      PROVE  \A x, y \in Row : Twins(x, y)' /\ ~Twins(x, y) /\ row'[x] # row[x] =>
                \/ crashed' # crashed
                \/ \E r \in Request : Acts(r) /\ Excuse(r, x, y)
  <2>1. CASE UNCHANGED vars
    BY <2>1 DEF vars
  <2> QED BY <1>3, <2>1, NewTwins, RowsAssumption
<1> QED BY <1>1, <1>2, <1>3, FilesTypeCorrect, PTL DEF Spec, DuplicatesExplained
=============================================================================
