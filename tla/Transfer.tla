------------------------------ MODULE Transfer ------------------------------
(***************************************************************************)
(* Clients that upload one file name at the same time: calls of the desktop *)
(* client and tasks of the web page, against the server they share, while   *)
(* the file is edited, the settings change, requests and answers get lost,  *)
(* and the user pauses, resumes, cancels and retries.                       *)
(***************************************************************************)
EXTENDS DesktopSync, BrowserUpload

ASSUME CastAssumption == \A sc \in Scenes : sc.cast \subseteq Desktop \cup Browser

vars == <<server, desktop, browser>>

Init ==
    /\ scene \in Scenes /\ rows = <<>> /\ sess = <<>> /\ faults = 0
    /\ disk \in Version /\ edits = 0 /\ strategy \in {"ask", "always_upload"}
    /\ reply = [d \in Desktop |-> "none"] /\ scan = [d \in Desktop |-> FALSE]
    /\ was = [d \in Desktop |-> <<>>] /\ full = [d \in Desktop |-> <<>>]
    /\ dsess = [d \in Desktop |-> 0] /\ left = [d \in Desktop |-> {}]
    /\ errs = [d \in Desktop |-> {}] /\ stale = {}
    /\ dpc = [d \in Desktop |-> IF d \in scene.cast THEN "idle" ELSE "off"]
    /\ status = [b \in Browser |-> IF b \in scene.cast THEN "pending" ELSE "none"]
    /\ file \in [Browser -> Version] /\ part \in [Browser -> BrowserParts]
    /\ \A b \in Browser \ scene.cast :
          /\ file[b] = CHOOSE v \in Version : TRUE
          /\ part[b] = CHOOSE n \in BrowserParts : TRUE
    /\ paused = [b \in Browser |-> FALSE] /\ cancelled = [b \in Browser |-> FALSE]
    /\ insists = [b \in Browser |-> FALSE] /\ bsess = [b \in Browser |-> 0]
    /\ total = [b \in Browser |-> 0] /\ received = [b \in Browser |-> {}]
    /\ starts = [b \in Browser |-> 0] /\ via = [b \in Browser |-> 0]
    /\ bpc = [r \in Runs |-> "off"] /\ missing = [r \in Runs |-> {}]
    /\ failed = [r \in Runs |-> {}] /\ tries = [r \in Runs |-> 0]
    /\ doubled = {} /\ skipped = {}

(* While none of the desktop client's calls runs, its file may change too:   *)
(* that is another initial state.                                           *)
DesktopNext ==
    /\ \/ \E d \in Desktop : ScanDir(d) \/ DesktopStep(d)
       \/ (\E d \in Desktop : DRunning(d)) /\ (Edit \/ SaveConfig)
    /\ UNCHANGED browser
BrowserNext ==
    /\ \E b \in Browser : User(b) \/ \E r \in Of(b) : RunStep(r) \/ LateChunk(r)
    /\ UNCHANGED desktop
Next == DesktopNext \/ BrowserNext
Spec == Init /\ [][Next]_vars

(***************************************************************************)
(* Properties                                                               *)
(***************************************************************************)
(* A client that is told its upload is done (uploader.go UploadFile, app.js  *)
(* complete and tryInstantUpload) has its file on the server, unless its    *)
(* session was also fed with another version of the file, which the page    *)
(* allows because it names a session by the first 8 MB, or by the size, or  *)
(* with another chunk size, because it does not read the session's; or the  *)
(* user skipped.                                                            *)
MixedSession(b) == via[b] # 0 /\ ~Pure(via[b])
DoneExplained ==
    \A b \in Browser :
        status[b] = "done" => Stored(file[b]) \/ b \in skipped \/ MixedSession(b)

(* A sync that ends well (scanner.go ScanAndUpload) leaves on the server     *)
(* what was on the disk when it began, unless the file was edited during    *)
(* the sync, or the server's oldest row of the name has the file's size,    *)
(* for the sizes are all DiffFiles compares; or the session it resumed was   *)
(* opened, or also fed, by a call that saw the file change under it.  A     *)
(* conflict that is left to the user, for which UploadFile returns nil too, *)
(* is not what is meant by a sync that ends well.                           *)
SyncedExplained ==
    \A d \in Desktop :
        reply[d] = "ok" /\ d \notin stale =>
            \/ Stored(was[d])
            \/ dsess[d] # 0 /\ ~Pure(dsess[d])
            \/ scan[d] /\ rows # <<>> /\ Len(rows[1].content) = Len(was[d])

(* An upload the page shows as done stays done (app.js pause, abort and      *)
(* retry refuse it), unless two runs of the task have been under way at a   *)
(* time, or it was done while it was paused and the user resumes it, which  *)
(* starts it again.                                                         *)
DoneStays ==
    [][\A b \in Browser :
          status[b] = "done" /\ status'[b] # "done" =>
              b \in doubled \/ (paused[b] /\ starts'[b] > starts[b])]_vars

(* A task that the page shows as uploading has a run (app.js run's catch     *)
(* and its returns), unless it had been cancelled before a run of it was    *)
(* started, by the queue or by a resume; and it is not paused, unless it    *)
(* was started twice: a task that fails while paused and is retried.        *)
ShownRuns ==
    \A b \in Browser : status[b] = "uploading" =>
        /\ RunsOf(b) # {} \/ cancelled[b]
        /\ paused[b] => starts[b] >= 2
=============================================================================
