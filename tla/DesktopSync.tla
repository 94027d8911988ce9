---------------------------- MODULE DesktopSync -----------------------------
(***************************************************************************)
(* The desktop client (filesync-client: sync/uploader.go, sync/scanner.go,  *)
(* api/client.go): calls of ScanAndUpload and UploadFile, which may run at   *)
(* the same time and while the file on the disk is edited.  The chunk        *)
(* goroutines of a call are its set "left"; reading a chunk and sending it,  *)
(* three times if it must be, are one step, for nobody else sees the buffer. *)
(***************************************************************************)
EXTENDS TransferServer

CONSTANTS Desktop,      \* the calls
          DesktopPart,  \* defaultChunkSize
          MaxEdits      \* changes of the local file and of the settings

ASSUME DesktopAssumption == DesktopPart \in Nat \ {0}

VARIABLES
    disk,      \* the file in the directory
    edits,
    strategy,  \* SyncStrategy of the configuration
    dpc, reply,
    scan,      \* is the call a ScanAndUpload?
    was,       \* the file when it was looked at: its size is used
    full,      \* the file when it was hashed
    dsess,     \* initResp.SessionID
    left,      \* chunks whose goroutines run
    errs,      \* the kinds of error they have stored
    stale      \* history: calls during which the file was edited

local == <<disk, edits, strategy>>
call == <<dpc, reply, scan, was, full, dsess, left, errs>>
desktop == <<local, call, stale>>

DAt(d, where) == dpc[d] = where
DGoto(d, where) == dpc' = [dpc EXCEPT ![d] = where]
Return(d, what) == DGoto(d, "done") /\ reply' = [reply EXCEPT ![d] = what]
DRunning(d) == dpc[d] \notin {"off", "idle", "done"}

Edit ==
    /\ edits < MaxEdits
    /\ \E v \in Version \ {disk} : disk' = v
    /\ edits' = edits + 1
    /\ stale' = stale \cup {d \in Desktop : DRunning(d)}
    /\ UNCHANGED <<server, strategy, call>>

(* SaveConfig, at any time: the calls read the configuration as they go.     *)
SaveConfig ==
    /\ edits < MaxEdits /\ edits' = edits + 1
    /\ strategy' = IF strategy = "ask" THEN "always_upload" ELSE "ask"
    /\ UNCHANGED <<server, disk, call, stale>>

(***************************************************************************)
(* ScanAndUpload                                                            *)
(***************************************************************************)
ScanDir(d) ==
    /\ DAt(d, "idle")
    /\ DGoto(d, "list")
    /\ scan' = [scan EXCEPT ![d] = TRUE]
    /\ was' = [was EXCEPT ![d] = disk]
    /\ UNCHANGED <<server, local, reply, full, dsess, left, errs, stale>>

(* The list has the newest row first and the index by name keeps the last:   *)
(* the size compared is that of the oldest row.                             *)
Differs(d) == rows = <<>> \/ Len(rows[1].content) # Len(was[d])

\* MUTANT of DiffFiles: only names are compared.
DiffNames(d) ==
    /\ DAt(d, "list") /\ Works
    /\ IF rows = <<>> THEN DGoto(d, "stat") /\ UNCHANGED reply ELSE Return(d, "ok")
    /\ UNCHANGED <<scene, rows, sess, local, scan, was, full, dsess, left, errs, stale>>

DiffFiles(d) ==
    /\ DAt(d, "list")
    /\ \/ Fails /\ Return(d, "error")
       \/ /\ Works
          /\ IF Differs(d) THEN DGoto(d, "stat") /\ UNCHANGED reply
             ELSE Return(d, "ok")
    /\ UNCHANGED <<scene, rows, sess, local, scan, was, full, dsess, left, errs, stale>>

(***************************************************************************)
(* UploadFile                                                               *)
(***************************************************************************)
UploadFile(d) ==
    /\ DAt(d, "idle") \/ DAt(d, "stat")
    /\ \/ /\ Works /\ DGoto(d, "hash") /\ UNCHANGED reply
          /\ was' = [was EXCEPT ![d] = disk]
       \/ Fails /\ Return(d, "error") /\ UNCHANGED was
    /\ UNCHANGED <<scene, rows, sess, local, scan, full, dsess, left, errs, stale>>

ComputeSHA256(d) ==
    /\ DAt(d, "hash")
    /\ \/ /\ Works /\ DGoto(d, "check") /\ UNCHANGED reply
          /\ full' = [full EXCEPT ![d] = disk]
       \/ Fails /\ Return(d, "error") /\ UNCHANGED full
    /\ UNCHANGED <<scene, rows, sess, local, scan, was, dsess, left, errs, stale>>

(* Only a conflict is looked at; any other error is passed over.             *)
TryInstant(d) ==
    LET answer == CheckAnswer(full[d], Len(was[d]))
        effect == IF answer = "instant" THEN Share(full[d], d) ELSE UNCHANGED rows
    IN  /\ DAt(d, "check")
        /\ \/ /\ Works /\ effect
              /\ CASE answer = "instant"  -> Return(d, "ok")
                   [] answer = "conflict" -> DGoto(d, "clash") /\ UNCHANGED reply
                   [] OTHER               -> DGoto(d, "init") /\ UNCHANGED reply
           \/ /\ Fails /\ (effect \/ UNCHANGED rows)
              /\ DGoto(d, "init") /\ UNCHANGED reply
        /\ UNCHANGED <<scene, sess, local, scan, was, full, dsess, left, errs, stale>>

(* A conflict under "ask" ends the call without an error: the user is shown  *)
(* it, reply "conflict".  Under "always_upload": after the check the upload *)
(* goes on; after InitUpload, which was not forced then, it fails.          *)
HandleConflict(d, refused) ==
    IF strategy # "always_upload" THEN Return(d, "conflict")
    ELSE IF refused THEN Return(d, "error")
    ELSE DGoto(d, "init") /\ UNCHANGED reply
ResolveConflict(d) ==
    /\ DAt(d, "clash") \/ DAt(d, "refused")
    /\ HandleConflict(d, DAt(d, "refused"))
    /\ UNCHANGED <<server, local, scan, was, full, dsess, left, errs, stale>>

OpenSession(d) ==
    LET force == strategy = "always_upload"
        key == <<"full", full[d]>>
        effect == /\ InitUpload(key, Len(was[d]), DesktopPart, <<full[d], DesktopPart>>)
                  /\ dsess' = [dsess EXCEPT ![d] = Target(key)]
    IN  /\ DAt(d, "init")
        /\ \/ /\ Works
              /\ IF Refused(force)
                 THEN DGoto(d, "refused") /\ UNCHANGED <<sess, dsess, reply>>
                 ELSE DGoto(d, "status") /\ effect /\ UNCHANGED reply
           \/ /\ Fails /\ Return(d, "error")
              /\ \/ UNCHANGED <<sess, dsess>>
                 \/ ~Refused(force) /\ effect
        /\ UNCHANGED <<scene, rows, local, scan, was, full, left, errs, stale>>

(* Without a status every chunk is sent; then the file is opened.            *)
GetUploadStatus(d) ==
    /\ DAt(d, "status")
    /\ \/ /\ Works /\ DGoto(d, "chunks") /\ UNCHANGED reply
          /\ left' = [left EXCEPT ![d] = All(dsess[d]) \ ReportedChunks(dsess[d])]
       \/ /\ Fails /\ DGoto(d, "chunks") /\ UNCHANGED reply
          /\ left' = [left EXCEPT ![d] = All(dsess[d])]
       \/ Fails /\ Return(d, "error") /\ UNCHANGED left
    /\ UNCHANGED <<scene, rows, sess, local, scan, was, full, dsess, errs, stale>>

(* An error of a goroutine goes into an atomic.Value, which takes values of  *)
(* one type only: "read" and "send" errors differ, and the second kind is a *)
(* panic that ends the program and with it every call.                      *)
Store(d, kind) ==
    IF errs[d] \subseteq {kind}
    THEN errs' = [errs EXCEPT ![d] = {kind}] /\ UNCHANGED <<dpc, reply>>
    ELSE /\ errs' = [errs EXCEPT ![d] = @ \cup {kind}]
         /\ dpc' = [e \in Desktop |-> IF DRunning(e) THEN "done" ELSE dpc[e]]
         /\ reply' = [e \in Desktop |-> IF DRunning(e) THEN "crash" ELSE reply[e]]
NoError == UNCHANGED <<errs, dpc, reply>>
AwaitReceived(d, s) == IF Accepts(s) THEN NoError ELSE Store(d, "send")

(* The offset is computed with the client's own chunk size; past the end of  *)
(* the file nothing is sent, and that is no error.                          *)
SendChunk(d) ==
    /\ DAt(d, "chunks")
    /\ \E i \in left[d] :
          LET s == dsess[d]
              data == Piece(disk, DesktopPart, i)
              effect == IF Accepts(s)
                        THEN UploadChunk(s, i, data, <<disk, DesktopPart>>)
                        ELSE UNCHANGED sess
          IN  /\ left' = [left EXCEPT ![d] = @ \ {i}]
              /\ \/ Fails /\ Store(d, "read") /\ UNCHANGED sess
                 \/ data = <<>> /\ Works /\ NoError /\ UNCHANGED sess
                 \/ /\ data # <<>> /\ Works /\ effect
                    /\ AwaitReceived(d, s)
                 \/ /\ data # <<>> /\ Fails /\ (effect \/ UNCHANGED sess)
                    /\ Store(d, "send")
    /\ UNCHANGED <<scene, rows, local, scan, was, full, dsess, stale>>

WaitChunks(d) ==
    /\ DAt(d, "chunks") /\ left[d] = {}
    /\ IF errs[d] = {} THEN DGoto(d, "complete") /\ UNCHANGED reply
       ELSE Return(d, "error")
    /\ UNCHANGED <<server, local, scan, was, full, dsess, left, errs, stale>>

Finish(d) ==
    LET s == dsess[d]
        effect == IF Complete(s) THEN CompleteUpload(s, d) ELSE UNCHANGED <<rows, sess>>
    IN  /\ DAt(d, "complete")
        /\ \/ Works /\ effect /\ Return(d, IF Complete(s) THEN "ok" ELSE "error")
           \/ Fails /\ (effect \/ UNCHANGED <<rows, sess>>) /\ Return(d, "error")
        /\ UNCHANGED <<scene, local, scan, was, full, dsess, left, errs, stale>>

DesktopStep(d) ==
    \/ DiffFiles(d) \/ UploadFile(d) \/ ComputeSHA256(d)
    \/ TryInstant(d) \/ ResolveConflict(d) \/ OpenSession(d) \/ GetUploadStatus(d)
    \/ SendChunk(d) \/ WaitChunks(d) \/ Finish(d)
=============================================================================
