----------------------------- MODULE FileMoves ------------------------------
(* The requests that rename, move, delete and restore rows                  *)
(* (handler/file_dir.go, file_delete.go, trash.go, agentsvc/files.go and    *)
(* misc.go), and the spaces the rows are in (handler/spaces.go).            *)
EXTENDS FileRows

VARIABLES spaces,    \* the rows of the spaces table
          \* history
          emptied    \* deletions that counted no file, rightly

moveVars == <<spaces, emptied>>
Quiet == {"agentRename", "agentMove", "agentDelete"}
Moves == {"rename", "moveDir", "agentRename", "agentMove"}

LiveRows == {x \in Row : Live(x)}
Trashed == {x \in Row : row[x].state = "trash"}
Take(r, ts) == todo' = [todo EXCEPT ![r] = ts]
(* The next listed row, or the end.                                         *)
Onward(r, ts, step) == Goto(r, IF ts = {} THEN "done" ELSE step)
-----------------------------------------------------------------------------
(* GetFile finds live rows only.                                            *)
Rename(r) ==
    /\ Is(r, {"rename", "agentRename"}) /\ pc[r] = "start"
    /\ \E x \in LiveRows, n \in Asked :
          /\ Take(r, {Snapshot(x)})
          /\ name' = [name EXCEPT ![r] = n]
          /\ space' = [space EXCEPT ![r] = row[x].space]
          /\ IF Is(r, {"agentRename"})
             THEN /\ n[1] = row[x].name[1]
                  /\ Goto(r, "update") /\ UNCHANGED blind
             ELSE IF n = row[x].name
             THEN Goto(r, "update") /\ blind' = blind \cup {r}
             ELSE Goto(r, "find") /\ UNCHANGED blind
    /\ UNCHANGED <<cur, row, marked, faults, looked, excused, moveVars>>

CheckNewName(r) ==
    /\ At(r, "rename", "find")
    /\ \E found \in Answers(space[r], name[r]) :
          /\ FindFileByName(r, space[r], name[r], found)
          /\ Goto(r, IF found = {} THEN "update" ELSE "done")
    /\ UNCHANGED <<name, space, todo, cur, moveVars>>

(* A prefix is replaced in every row that is listed under it.               *)
MoveDir(r) ==
    /\ Is(r, {"moveDir", "agentMove"}) /\ pc[r] = "start"
    /\ \E s \in Space \ {Nowhere}, from \in Dir, to \in Dir :
          /\ from # to
          /\ Take(r, {Snapshot(x) : x \in InDir(s, from)})
          /\ name' = [name EXCEPT ![r] = <<to, Keep>>]
          /\ space' = [space EXCEPT ![r] = s]
          /\ Goto(r, IF InDir(s, from) = {} THEN "done"
                     ELSE IF Is(r, {"moveDir"}) THEN "find" ELSE "update")
    /\ UNCHANGED <<cur, row, marked, faults, history, moveVars>>

CheckTarget(r) ==
    /\ At(r, "moveDir", "find")
    /\ LET there == InDir(space[r], name[r][1])
       IN  /\ Look(r)
           /\ \/ /\ Works /\ UNCHANGED blind
                 /\ Goto(r, IF there = {} THEN "update" ELSE "done")
              \/ /\ there # {} /\ Fails /\ blind' = blind \cup {r}
                 /\ Goto(r, "update")
    /\ UNCHANGED <<name, space, todo, cur, row, marked, excused, moveVars>>

NewName(r, t) == IF Is(r, {"rename", "agentRename"}) THEN name[r]
                 ELSE <<name[r][1], t.name[2]>>

MoveOne(r) ==
    /\ Is(r, Moves) /\ pc[r] = "update"
    /\ \E t \in todo[r] :
          /\ Take(r, todo[r] \ {t})
          /\ cur' = [cur EXCEPT ![r] = t]
          /\ UpdateFilename(r, t, NewName(r, t), ~Is(r, Quiet))
          /\ IF Is(r, Quiet) THEN Onward(r, todo[r] \ {t}, "update")
             ELSE Goto(r, "unmark")
    /\ UNCHANGED <<name, space, moveVars>>

(* A failing update ends a rename and the agent's move; moveDir counts it    *)
(* and goes on.                                                             *)
MoveFails(r) ==
    /\ Is(r, Moves) /\ pc[r] = "update"
    /\ Fails
    /\ \E t \in todo[r] :
          /\ Take(r, todo[r] \ {t})
          /\ IF Is(r, {"moveDir"}) THEN Onward(r, todo[r] \ {t}, "update")
             ELSE Goto(r, "done")
    /\ UNCHANGED <<name, space, cur, row, marked, history, moveVars>>

UnmarkMoved(r) ==
    /\ Is(r, {"rename", "moveDir"}) /\ pc[r] = "unmark"
    /\ UnmarkFileExists(cur[r].name)
    /\ Goto(r, "mark")
    /\ UNCHANGED <<name, space, todo, cur, moveVars>>

MarkMoved(r) ==
    /\ Is(r, {"rename", "moveDir"}) /\ pc[r] = "mark"
    /\ MarkFileExists(NewName(r, cur[r]))
    /\ Onward(r, todo[r], "update")
    /\ UNCHANGED <<name, space, todo, cur, moveVars>>
-----------------------------------------------------------------------------
(* One file or several, one after the other; the agent finds all of them     *)
(* first.                                                                   *)
DeleteFiles(r) ==
    /\ Is(r, {"batchDelete", "agentDelete"}) /\ pc[r] = "start"
    /\ \E xs \in SUBSET LiveRows :
          /\ xs # {}
          /\ Take(r, {Snapshot(x) : x \in xs})
    /\ Goto(r, "get")
    /\ UNCHANGED <<name, space, cur, row, marked, faults, history, moveVars>>

GetFile(r) ==
    /\ At(r, "batchDelete", "get")
    /\ \E t \in todo[r] :
          /\ Take(r, todo[r] \ {t})
          /\ \/ /\ Live(t.id)
                /\ cur' = [cur EXCEPT ![r] = Snapshot(t.id)]
                /\ Goto(r, "soft")
             \/ /\ ~Live(t.id)
                /\ Onward(r, todo[r] \ {t}, "get") /\ UNCHANGED cur
    /\ UNCHANGED <<name, space, row, marked, faults, history, moveVars>>

DeleteOne(r) ==
    /\ At(r, "batchDelete", "soft")
    /\ \/ DeleteFile({cur[r]}, TRUE) /\ Goto(r, "unmark")
       \/ /\ Fails /\ UNCHANGED <<row, marked, history>>
          /\ Onward(r, todo[r], "get")
    /\ UNCHANGED <<name, space, todo, cur, moveVars>>

(* Mutant of UnmarkDeleted: the name stays in the set.                      *)
UnmarkNothing(r) ==
    /\ At(r, "batchDelete", "unmark")
    /\ Works /\ UNCHANGED <<row, marked, history>>
    /\ Onward(r, todo[r], "get")
    /\ UNCHANGED <<name, space, todo, cur, moveVars>>

UnmarkDeleted(r) ==
    /\ At(r, "batchDelete", "unmark")
    /\ UnmarkFileExists(cur[r].name)
    /\ Onward(r, todo[r], "get")
    /\ UNCHANGED <<name, space, todo, cur, moveVars>>

AgentDeleteOne(r) ==
    /\ At(r, "agentDelete", "get")
    /\ \E t \in todo[r] :
          /\ Take(r, todo[r] \ {t})
          /\ \/ DeleteFile({t}, FALSE) /\ Onward(r, todo[r] \ {t}, "get")
             \/ GiveUp(r)
    /\ UNCHANGED <<name, space, cur, moveVars>>

(* The rows under a prefix are listed, and then deleted in a transaction.    *)
DeleteDir(r) ==
    /\ At(r, "deleteDir", "start")
    /\ \E s \in Space \ {Nowhere}, d \in Dir :
          /\ Take(r, {Snapshot(x) : x \in InDir(s, d)})
          /\ Onward(r, InDir(s, d), "soft")
    /\ UNCHANGED <<name, space, cur, row, marked, faults, history, moveVars>>

DeleteFilesByPrefix(r) ==
    /\ At(r, "deleteDir", "soft")
    /\ \/ DeleteFile(todo[r], TRUE) /\ Goto(r, "unmark")
       \/ GiveUp(r)
    /\ UNCHANGED <<name, space, todo, cur, moveVars>>

UnmarkDir(r) ==
    /\ At(r, "deleteDir", "unmark")
    /\ \E t \in todo[r] :
          /\ Take(r, todo[r] \ {t})
          /\ UnmarkFileExists(t.name)
          /\ Onward(r, todo[r] \ {t}, "unmark")
    /\ UNCHANGED <<name, space, cur, moveVars>>
-----------------------------------------------------------------------------
(* The row is found in the list of the trash of one space.  The agent goes   *)
(* by the id alone, looks at no name and marks none.                        *)
RestoreFile(r) ==
    /\ Is(r, {"restore", "agentRestore"}) /\ pc[r] = "start"
    /\ \E x \in Trashed :
          /\ cur' = [cur EXCEPT ![r] = Snapshot(x)]
          /\ space' = [space EXCEPT ![r] = row[x].space]
    /\ Goto(r, IF Is(r, {"restore"}) THEN "find" ELSE "restore")
    /\ UNCHANGED <<name, todo, row, marked, faults, history, moveVars>>

CheckRestored(r) ==
    /\ At(r, "restore", "find")
    /\ \E found \in Answers(space[r], cur[r].name) :
          /\ FindFileByName(r, space[r], cur[r].name, found)
          /\ Goto(r, IF found = {} THEN "restore" ELSE "done")
    /\ UNCHANGED <<name, space, todo, cur, moveVars>>

RestoreOne(r) ==
    /\ Is(r, {"restore", "agentRestore"}) /\ pc[r] = "restore"
    /\ IF row[cur[r].id].state = "trash"
       THEN \/ /\ RestoreRow(cur[r].id)
               /\ Goto(r, IF Is(r, {"restore"}) THEN "mark" ELSE "done")
            \/ GiveUp(r)
       ELSE Works /\ Goto(r, "done") /\ UNCHANGED <<row, marked, history>>
    /\ UNCHANGED <<name, space, todo, cur, moveVars>>

MarkRestored(r) ==
    /\ At(r, "restore", "mark")
    /\ MarkFileExists(cur[r].name)
    /\ Goto(r, "done")
    /\ UNCHANGED <<name, space, todo, cur, moveVars>>

(* The row is selected and deleted while it is in the trash.  What becomes   *)
(* of its file is the matter of SharedBlobs.                                *)
PermanentlyDeleteFile(r) ==
    /\ At(r, "purge", "start")
    /\ \E x \in Trashed : row' = [row EXCEPT ![x] = Absent]
    /\ Goto(r, "done")
    /\ UNCHANGED <<name, space, todo, cur, marked, faults, history, moveVars>>
-----------------------------------------------------------------------------
CreateSpace(r) ==
    /\ At(r, "createSpace", "start")
    /\ \E s \in Space \ ({Home, Nowhere} \cup spaces) :  \* a fresh id
          /\ \A q \in Request : Is(q, {"deleteSpace"}) => space[q] # s
          /\ spaces' = spaces \cup {s}
    /\ Goto(r, "done")
    /\ UNCHANGED <<name, space, todo, cur, row, marked, faults, history, emptied>>

(* Listing makes the default space when there is none yet.                  *)
EnsureUserDefaultSpace(r) ==
    /\ At(r, "listSpaces", "start")
    /\ spaces' = spaces \cup {Home}
    /\ Goto(r, "done")
    /\ UNCHANGED <<name, space, todo, cur, row, marked, faults, history, emptied>>

DeleteSpace(r) ==
    /\ At(r, "deleteSpace", "start")
    /\ \E s \in spaces : /\ space' = [space EXCEPT ![r] = s]
                         /\ Goto(r, IF s = Home THEN "done" ELSE "count")
    /\ UNCHANGED <<name, todo, cur, row, marked, faults, history, moveVars>>

(* Mutant of CountFilesBySpace: directories do not count.                   *)
CountWithoutKeep(r) ==
    /\ At(r, "deleteSpace", "count")
    /\ LET n == Cardinality({x \in LiveIn(space[r]) : row[x].name[2] # Keep})
       IN  \/ /\ Works /\ UNCHANGED blind
              /\ Goto(r, IF n > 0 THEN "done" ELSE "drop")
           \/ /\ n > 0 /\ Fails /\ blind' = blind \cup {r} /\ Goto(r, "drop")
    /\ emptied' = IF LiveIn(space[r]) = {} THEN emptied \cup {r} ELSE emptied
    /\ UNCHANGED <<name, space, todo, cur, row, marked, looked, excused, spaces>>

(* A failing count counts none.  Directories count, the trash does not.      *)
CountFilesBySpace(r) ==
    /\ At(r, "deleteSpace", "count")
    /\ LET n == Cardinality(LiveIn(space[r]))
       IN  \/ /\ Works /\ UNCHANGED blind
              /\ Goto(r, IF n > 0 THEN "done" ELSE "drop")
           \/ /\ n > 0 /\ Fails /\ blind' = blind \cup {r} /\ Goto(r, "drop")
    /\ emptied' = IF LiveIn(space[r]) = {} THEN emptied \cup {r} ELSE emptied
    /\ UNCHANGED <<name, space, todo, cur, row, marked, looked, excused, spaces>>

DropSpace(r) ==
    /\ At(r, "deleteSpace", "drop")
    /\ spaces' = spaces \ {space[r]}
    /\ Goto(r, "done")
    /\ UNCHANGED <<name, space, todo, cur, row, marked, faults, history, emptied>>

MoveStep(r) ==
    \/ Rename(r) \/ CheckNewName(r) \/ MoveDir(r) \/ CheckTarget(r)
    \/ MoveOne(r) \/ MoveFails(r) \/ UnmarkMoved(r) \/ MarkMoved(r)
    \/ DeleteFiles(r) \/ GetFile(r) \/ DeleteOne(r) \/ UnmarkDeleted(r)
    \/ AgentDeleteOne(r) \/ DeleteDir(r) \/ DeleteFilesByPrefix(r) \/ UnmarkDir(r)
    \/ RestoreFile(r) \/ CheckRestored(r) \/ RestoreOne(r) \/ MarkRestored(r)
    \/ PermanentlyDeleteFile(r) \/ CreateSpace(r) \/ EnsureUserDefaultSpace(r)
    \/ DeleteSpace(r) \/ CountFilesBySpace(r) \/ DropSpace(r)
=============================================================================
