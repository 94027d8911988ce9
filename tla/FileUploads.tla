---------------------------- MODULE FileUploads -----------------------------
(* The requests that insert a row: uploads, instant uploads, text files,    *)
(* directories and the agent's writes (handler/upload_*.go, file_text.go,   *)
(* file_dir.go, agentsvc/files.go), and the quota of the token they use.    *)
EXTENDS FileRows

VARIABLES session,   \* upload_sessions: state, name and space
          used,      \* quota_used of the token
          \* history
          forced     \* uploads made with ?force=true or ?rename=true

uploadVars == <<session, used, forced>>
NoSession == [state |-> "none", name |-> None, space |-> None]
Charged == {"completeUpload", "checkUpload", "createText"}

(* authenticate copies the token's row into the request; the quota is       *)
(* compared with this copy.                                                 *)
CheckPATQuota(r) == plan[r].token => used + 1 <= Quota

AccountPATQuota(r, then) ==
    /\ Is(r, Charged) /\ pc[r] = "charge"
    /\ \/ Works /\ used' = used + (IF plan[r].token THEN 1 ELSE 0)
       \/ plan[r].token /\ Fails /\ UNCHANGED used
    /\ Goto(r, then)
    /\ UNCHANGED <<name, space, todo, cur, row, marked, history, session, forced>>

(* A request to make a file: its name, its space, and the quota check.       *)
Ask(r, names, checked, then) ==
    /\ pc[r] = "start"
    /\ \E n \in names, s \in Space \ {Nowhere} :
          /\ name' = [name EXCEPT ![r] = n] /\ space' = [space EXCEPT ![r] = s]
    /\ Goto(r, IF checked => CheckPATQuota(r) THEN then ELSE "done")
    /\ UNCHANGED <<todo, cur, row, marked, history, faults, session, used>>

Insert(r, then) ==
    /\ pc[r] = "insert"
    /\ CreateFile(r, name[r], space[r], then) \/ GiveUp(r)
    /\ UNCHANGED <<name, space, todo, cur, uploadVars>>

Mark(r) ==
    /\ Is(r, Charged) /\ pc[r] = "mark"
    /\ MarkFileExists(name[r])
    /\ Goto(r, "done")
    /\ UNCHANGED <<name, space, todo, cur, uploadVars>>
-----------------------------------------------------------------------------
InitUpload(r) ==
    /\ plan[r].kind = "initUpload"
    /\ Ask(r, Asked, TRUE, "index")
    /\ forced' \in {forced, forced \cup {r}}

(* The set of names knows no spaces.  An error counts as a miss.            *)
FileExists(r) ==
    /\ At(r, "initUpload", "index")
    /\ \/ Works /\ Goto(r, IF name[r] \in marked THEN "hit" ELSE "miss")
       \/ Fails /\ Goto(r, "miss")
    /\ UNCHANGED <<name, space, todo, cur, row, marked, history, uploadVars>>

(* A hit without a row in the space is a conflict too.                      *)
CheckHit(r) ==
    /\ At(r, "initUpload", "hit")
    /\ \E found \in Answers(space[r], name[r]) :
          FindFileByName(r, space[r], name[r], found)
    /\ Goto(r, IF r \in forced THEN "reuse" ELSE "done")
    /\ UNCHANGED <<name, space, todo, cur, uploadVars>>

CheckMiss(r) ==
    /\ At(r, "initUpload", "miss")
    /\ \E found \in Answers(space[r], name[r]) :
          /\ FindFileByName(r, space[r], name[r], found)
          /\ Goto(r, IF found = {} THEN "reuse" ELSE "repair")
    /\ UNCHANGED <<name, space, todo, cur, uploadVars>>

RepairMark(r) ==
    /\ At(r, "initUpload", "repair")
    /\ MarkFileExists(name[r])
    /\ Goto(r, IF r \in forced THEN "reuse" ELSE "done")
    /\ UNCHANGED <<name, space, todo, cur, uploadVars>>

(* An active session for the same content (or different content, or a       *)
(* failing query, for which a new one is made).                             *)
FindActiveSessionByHash(r) ==
    /\ At(r, "initUpload", "reuse")
    /\ \/ /\ \E s \in Request : session[s] = [state |-> "active",
                                    name |-> name[r], space |-> space[r]]
          /\ Goto(r, "done")
       \/ Goto(r, "session")
    /\ UNCHANGED <<name, space, todo, cur, row, marked, history, faults, uploadVars>>

CreateUploadSession(r) ==
    /\ At(r, "initUpload", "session")
    /\ \/ /\ session' = [session EXCEPT ![r] = [state |-> "active",
                             name |-> name[r], space |-> space[r]]]
          /\ Works
       \/ Fails /\ UNCHANGED session
    /\ Goto(r, "done")
    /\ UNCHANGED <<name, space, todo, cur, row, marked, history, used, forced>>

(* One completion of a session at a time: the lock of RedisUpload.           *)
CompleteUpload(r) ==
    /\ At(r, "completeUpload", "start")
    /\ \E s \in Request :
          /\ session[s].state = "active"
          /\ ~\E q \in Request : Running(q) /\ At(q, "completeUpload", pc[q])
                                 /\ cur[q].id = s
          /\ cur' = [cur EXCEPT ![r] = [id |-> s, name |-> session[s].name]]
          /\ name' = [name EXCEPT ![r] = session[s].name]
          /\ space' = [space EXCEPT ![r] = session[s].space]
    /\ Goto(r, "record")
    /\ UNCHANGED <<todo, row, marked, history, faults, uploadVars>>

(* The error of the insert is ignored.                                      *)
RecordUpload(r) ==
    /\ At(r, "completeUpload", "record")
    /\ \/ CreateFile(r, name[r], space[r], "close")
       \/ Fails /\ Goto(r, "close") /\ UNCHANGED <<row, marked, history>>
    /\ UNCHANGED <<name, space, todo, cur, uploadVars>>

UpdateUploadSessionStatus(r) ==
    /\ At(r, "completeUpload", "close")
    /\ \/ Works /\ session' = [session EXCEPT ![cur[r].id].state = "completed"]
       \/ Fails /\ UNCHANGED session
    /\ Goto(r, "charge")
    /\ UNCHANGED <<name, space, todo, cur, row, marked, history, used, forced>>
-----------------------------------------------------------------------------
CheckUpload(r) ==
    /\ plan[r].kind = "checkUpload"
    /\ Ask(r, Asked, TRUE, "hash") /\ UNCHANGED forced

(* A live row of the same content, whatever its name and space.             *)
GetFileByHash(r) ==
    /\ At(r, "checkUpload", "hash")
    /\ \E x \in {y \in Row : Live(y) /\ row[y].name[2] # Keep} :
          cur' = [cur EXCEPT ![r] = Snapshot(x)]
    /\ Goto(r, "find")
    /\ UNCHANGED <<name, space, todo, row, marked, history, faults, uploadVars>>

NoSource(r) ==
    /\ At(r, "checkUpload", "hash")
    /\ Goto(r, "done")
    /\ UNCHANGED <<name, space, todo, cur, row, marked, history, faults, uploadVars>>

(* The newest row under the name decides, and it may be the source itself.   *)
CheckSource(r) ==
    /\ At(r, "checkUpload", "find")
    /\ \E found \in Answers(space[r], name[r]) :
          /\ FindFileByName(r, space[r], name[r], found)
          /\ IF found = {} THEN Goto(r, "insert")
             ELSE \E x \in found :
                     Goto(r, IF x = cur[r].id THEN "insert" ELSE "done")
    /\ UNCHANGED <<name, space, todo, cur, uploadVars>>

CreateTextFile(r) ==
    /\ plan[r].kind = "createText"
    /\ Ask(r, Asked, TRUE, "find") /\ UNCHANGED forced

(* Neither REST nor the agent marks or charges a directory.                 *)
Mkdir(r) ==
    /\ plan[r].kind = "mkdir"
    /\ Ask(r, Dir \X {Keep}, FALSE, "find") /\ UNCHANGED forced

(* Mutant of CheckFree: the check is for the user, whatever the space.       *)
CheckDefaultSpace(r) ==
    /\ Is(r, {"createText", "mkdir"}) /\ pc[r] = "find"
    /\ \E found \in Answers(Home, name[r]) :
          /\ FindFileByName(r, Home, name[r], found)
          /\ Goto(r, IF found = {} THEN "insert" ELSE "done")
    /\ UNCHANGED <<name, space, todo, cur, uploadVars>>

CheckFree(r) ==
    /\ Is(r, {"createText", "mkdir"}) /\ pc[r] = "find"
    /\ \E found \in Answers(space[r], name[r]) :
          /\ FindFileByName(r, space[r], name[r], found)
          /\ Goto(r, IF found = {} THEN "insert" ELSE "done")
    /\ UNCHANGED <<name, space, todo, cur, uploadVars>>

(* The agent's writes: a name of its own, or over an existing file.  They    *)
(* neither look at the quota nor at the names in Redis.                     *)
AgentWrite(r) ==
    /\ plan[r].kind = "agentWrite"
    /\ Ask(r, Asked, FALSE, "find") /\ UNCHANGED forced

CheckOverwrite(r) ==
    /\ At(r, "agentWrite", "find")
    /\ \E found \in Answers(space[r], name[r]) :
          /\ FindFileByName(r, space[r], name[r], found)
          /\ \/ found = {} /\ Goto(r, "insert") /\ UNCHANGED cur
             \/ found # {} /\ Goto(r, "done") /\ UNCHANGED cur
             \/ \E x \in found : /\ cur' = [cur EXCEPT ![r] = Snapshot(x)]
                                 /\ Goto(r, "replace")
    /\ UNCHANGED <<name, space, todo, uploadVars>>

ReplaceOld(r) ==
    /\ At(r, "agentWrite", "replace")
    /\ \/ DeleteFile({cur[r]}, FALSE)
       \/ /\ Fails /\ blind' = blind \cup {r}
          /\ UNCHANGED <<row, marked, looked, excused>>
    /\ Goto(r, "insert")
    /\ UNCHANGED <<name, space, todo, cur, uploadVars>>

UploadStep(r) ==
    \/ InitUpload(r) \/ FileExists(r) \/ CheckHit(r) \/ CheckMiss(r)
    \/ RepairMark(r) \/ FindActiveSessionByHash(r) \/ CreateUploadSession(r)
    \/ CompleteUpload(r) \/ RecordUpload(r) \/ UpdateUploadSessionStatus(r)
    \/ CheckUpload(r) \/ GetFileByHash(r) \/ NoSource(r) \/ CheckSource(r)
    \/ CreateTextFile(r) \/ Mkdir(r) \/ CheckFree(r)
    \/ AgentWrite(r) \/ CheckOverwrite(r) \/ ReplaceOld(r)
    \/ Is(r, {"checkUpload", "createText"}) /\ Insert(r, "charge")
    \/ Is(r, {"mkdir", "agentWrite"}) /\ Insert(r, "done")
    \/ AccountPATQuota(r, "mark") \/ Mark(r)
=============================================================================
