---------------------------- MODULE BizResources ----------------------------
(* Resources, their opening policy and their downloads                      *)
(* (internal/biz/resource.go, handler_resource.go).                         *)
EXTENDS BizRequests

VARIABLES
    policy,     \* "open" (public, login) or "listed" (whitelist, member, paid)
    listed,     \* biz_resource_whitelist: the users listed for each resource
    logged,     \* rows of biz_resource_download_logs, per resource
    downloads,  \* the downloads column of each resource
    links,      \* requests answered with a download link
    \* history
    entitled,   \* downloads whose user was allowed at some instant of them
    revised,    \* downloads during which the row changed
    relisted    \* downloads during which the whitelist changed

resourceVars == <<policy, listed, logged, downloads, links>>
accessHistory == <<entitled, revised, relisted>>

ResourceStatus == {"draft", "pending", "published", "offline"}

CreateResource(r) ==
    /\ At(r, "createResource", "admitted")
    /\ \E s \in Targets \cap ResourceStatus, p \in {"open", "listed"} :
          /\ status' = [status EXCEPT ![r] = s]
          /\ policy' = [policy EXCEPT ![r] = p]
    /\ Goto(r, "done")
    /\ UNCHANGED <<of, target, seen, trail, roles, history, faults, listed,
                   logged, downloads, links>>

(* The UPDATEs and the DELETE affect no row when it has gone meanwhile.     *)
UpdateResource(r) ==
    /\ At(r, "updateResource", "admitted")
    /\ IF status[of[r]] = "absent" THEN UNCHANGED <<status, policy>>
       ELSE \E s \in Targets \cap ResourceStatus, p \in {"open", "listed"} :
               /\ status' = [status EXCEPT ![of[r]] = s]
               /\ policy' = [policy EXCEPT ![of[r]] = p]
    /\ Goto(r, "done")
    /\ UNCHANGED <<of, target, seen, trail, roles, history, faults, listed,
                   logged, downloads, links>>

(* Approval publishes; rejection and OfflineResource take offline.          *)
ReviewResource(r) ==
    /\ At(r, "reviewResource", "admitted")
    /\ IF status[of[r]] = "absent" THEN UNCHANGED status
       ELSE \E s \in {"published", "offline"} :
               status' = [status EXCEPT ![of[r]] = s]
    /\ Goto(r, "done")
    /\ UNCHANGED <<of, target, seen, trail, roles, history, faults,
                   resourceVars>>

DeleteResource(r) ==
    /\ At(r, "deleteResource", "admitted")
    /\ status' = [status EXCEPT ![of[r]] = "absent"]
    /\ Goto(r, "done")
    /\ UNCHANGED <<of, target, seen, trail, roles, history, faults,
                   resourceVars>>

EditWhitelist(r) ==
    /\ At(r, "whitelist", "admitted")
    /\ \E u \in User \ {Admin} :
          \/ listed' = [listed EXCEPT ![of[r]] = @ \cup {u}]
          \/ listed' = [listed EXCEPT ![of[r]] = @ \ {u}]
    /\ Goto(r, "done")
    /\ UNCHANGED <<of, target, seen, rowVars, roles, history, faults, policy,
                   logged, downloads, links>>
-----------------------------------------------------------------------------
(* Mutant of CheckRow: unpublished resources are let through.               *)
CheckRowPolicyOnly(r) ==
    /\ At(r, "accessResource", "admitted")
    /\ Goto(r, IF policy[of[r]] = "open" THEN "record" ELSE "count")
    /\ UNCHANGED <<of, target, seen, rowVars, roles, history, faults,
                   resourceVars>>

(* CheckResourceAccess reads the row, and the whitelist in a query of its    *)
(* own when the policy needs it.                                            *)
CheckRow(r) ==
    /\ At(r, "accessResource", "admitted")
    /\ Goto(r, IF status[of[r]] # "published" THEN "done"
               ELSE IF policy[of[r]] = "open" THEN "record" ELSE "count")
    /\ UNCHANGED <<of, target, seen, rowVars, roles, history, faults,
                   resourceVars>>

CheckWhitelist(r) ==
    /\ At(r, "accessResource", "count")
    /\ Goto(r, IF plan[r].user \in listed[of[r]] THEN "record" ELSE "done")
    /\ UNCHANGED <<of, target, seen, rowVars, roles, history, faults,
                   resourceVars>>

(* LogDownload: one row in the log, then one more in the column.            *)
RecordDownload(r) ==
    /\ At(r, "accessResource", "record")
    /\ logged' = [logged EXCEPT ![of[r]] = @ + 1]
    /\ Goto(r, "tally")
    /\ UNCHANGED <<of, target, seen, rowVars, roles, history, faults, policy,
                   listed, downloads, links>>

TallyDownload(r) ==
    /\ At(r, "accessResource", "tally")
    /\ downloads' = [downloads EXCEPT
                       ![of[r]] = IF status[of[r]] = "absent" THEN @ ELSE @ + 1]
    /\ Goto(r, "share")
    /\ UNCHANGED <<of, target, seen, rowVars, roles, history, faults, policy,
                   listed, logged, links>>

(* The row is read again for its file; without one there is no link.  The   *)
(* file service may fail to make the share.                                 *)
ShareFile(r) ==
    /\ At(r, "accessResource", "share")
    /\ \/ status[of[r]] # "absent" /\ links' = links \cup {r}
       \/ UNCHANGED links
    /\ Goto(r, "done")
    /\ UNCHANGED <<of, target, seen, rowVars, roles, history, faults, policy,
                   listed, logged, downloads>>

ResourceStep(r) ==
    \/ CreateResource(r) \/ UpdateResource(r) \/ ReviewResource(r)
    \/ DeleteResource(r) \/ EditWhitelist(r)
    \/ CheckRow(r) \/ CheckWhitelist(r)
    \/ RecordDownload(r) \/ TallyDownload(r) \/ ShareFile(r)

(* What has happened to each download in progress, after any step.          *)
Downloading(r) == Is(r, {"accessResource"}) /\ Running(r)
Entitled(r) ==
    /\ status[of[r]] = "published"
    /\ policy[of[r]] = "open" \/ plan[r].user \in listed[of[r]]
Observe ==
    LET D == {r \in Request : Downloading(r)'}
    IN  /\ entitled' = entitled \cup {r \in D : Entitled(r)'}
        /\ revised' = revised \cup
              {r \in D \cap {q \in Request : Downloading(q)} :
                 <<status[of[r]], policy[of[r]]>>' # <<status[of[r]], policy[of[r]]>>}
        /\ relisted' = relisted \cup
              {r \in D \cap {q \in Request : Downloading(q)} :
                 (listed[of[r]])' # listed[of[r]]}
=============================================================================
