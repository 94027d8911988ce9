---------------------------- MODULE AccessTokens ----------------------------
(* Personal access tokens: their creation and revocation, the requests that *)
(* authenticate with one and write a file on its quota, and what an         *)
(* administrator does to the account behind it (handler/pat_handler.go,     *)
(* pat_quota.go, admin.go, middleware/jwt_gateway.go, store/api_token_repo.go). *)
(*                                                                         *)
(* A token and an upload session are named by the request that made them.    *)
(* Every file has size 1.  Uploads are those of a server without Redis.      *)
EXTENDS AuthAccounts

CONSTANT Quotas  \* the values of quota_bytes, 0 for no limit

ASSUME QuotasAssumption == Quotas \subseteq Nat

VARIABLES
    pat,       \* api_tokens: state, quota_bytes, quota_used, may it write?
    context,   \* the row of the token as the request's context carries it
    upload,    \* upload_sessions and their chunks: "none", "open" or "gone"
    target,    \* the session each completion completes
    \* history
    outdated   \* charges of each token that no up-to-date copy admitted

patVars == <<pat, context, upload, target, outdated>>

NoToken == [state |-> "none", quota |-> 0, used |-> 0, writes |-> FALSE]
Write == {"beginUpload", "completeUpload", "createText"}
Known(t) == pat[t].state # "none"
Valid(t) == pat[t].state = "live"

(* The owner, in a web session; a status other than active does not matter.  *)
CreateToken(r) ==
    /\ At(r, "createToken", "start")
    /\ account # "none"
    /\ Goto(r, "insert") /\ Works
    /\ UNCHANGED <<account, version, tokenVars, activation, expired, reset, patVars>>

CreateAPIToken(r) ==
    /\ At(r, "createToken", "insert")
    /\ \/ /\ \E q \in Quotas, w \in BOOLEAN :
                pat' = [pat EXCEPT ![r] =
                          [state |-> "live", quota |-> q, used |-> 0, writes |-> w]]
          /\ Works
       \/ Fails(r) /\ UNCHANGED pat
    /\ Goto(r, "done")
    /\ UNCHANGED <<account, version, tokenVars, activation, expired, reset,
                   context, upload, target, outdated>>

RevokeToken(r) ==
    /\ At(r, "revokeToken", "start")
    /\ \E t \in Artefact : Known(t) /\ arg' = [arg EXCEPT ![r] = t]
    /\ Goto(r, "revokeToken") /\ Works
    /\ UNCHANGED <<account, version, session, sso, code, blacklist, cred, bearer,
                   ended, raced, activation, expired, reset, patVars>>

RevokeAPIToken(r) ==
    /\ At(r, "revokeToken", "revokeToken")
    /\ \/ pat' = [pat EXCEPT ![arg[r]].state = "revoked"] /\ Works
       \/ Fails(r) /\ UNCHANGED pat
    /\ Goto(r, "done")
    /\ UNCHANGED <<account, version, tokenVars, activation, expired, reset,
                   context, upload, target, outdated>>
-----------------------------------------------------------------------------
Inject(r, t) == context' = [context EXCEPT ![r] = pat[t]]

(* The middleware reads the token's row, then the user's status.            *)
Authenticate(r) ==
    /\ plan[r] \in Write /\ pc[r] = "start"
    /\ \E t \in Artefact : /\ Valid(t)
                           /\ arg' = [arg EXCEPT ![r] = t]
                           /\ Inject(r, t)
    /\ Goto(r, "user") /\ Works
    /\ UNCHANGED <<account, version, session, sso, code, blacklist, cred, bearer,
                   ended, raced, activation, expired, reset, pat, upload, target,
                   outdated>>

(* Mutant of CheckPATQuota: the size of the file is not added.              *)
CheckPATQuotaBefore(r) == \/ context[r].quota = 0
                          \/ context[r].used <= context[r].quota

(* The copy of the row decides, not the row.                                *)
CheckPATQuota(r) == \/ context[r].quota = 0
                    \/ context[r].used + 1 <= context[r].quota

(* A completion has its size checked when the upload began, and by then it   *)
(* may have been another token's.                                           *)
Admitted(r) == /\ context[r].writes
               /\ plan[r] \in {"beginUpload", "createText"} => CheckPATQuota(r)

(* A user who cannot be read is let in with the role of a user.             *)
GetUserByUsername(r) ==
    /\ plan[r] \in Write /\ pc[r] = "user"
    /\ LET then == IF Admitted(r) THEN "write" ELSE "done"
       IN  \/ Works /\ Goto(r, IF account = "active" THEN then ELSE "done")
           \/ Fails(r) /\ Goto(r, then)
    /\ UNCHANGED <<account, version, tokenVars, activation, expired, reset, patVars>>
-----------------------------------------------------------------------------
BeginUpload(r) ==
    /\ At(r, "beginUpload", "write")
    /\ \/ upload' = [upload EXCEPT ![r] = "open"] /\ Works
       \/ Fails(r) /\ UNCHANGED upload
    /\ Goto(r, "done")
    /\ UNCHANGED <<account, version, tokenVars, activation, expired, reset, pat,
                   context, target, outdated>>

(* Two completions of a session may both find its chunks.                   *)
Assemble(r) ==
    /\ At(r, "completeUpload", "write")
    /\ \E u \in Artefact :
          /\ upload[u] = "open"
          /\ target' = [target EXCEPT ![r] = u]
    /\ Goto(r, "record") /\ Works
    /\ UNCHANGED <<account, version, tokenVars, activation, expired, reset, pat,
                   context, upload, outdated>>

(* A name that is taken, a chunk that is missing, a file that cannot be     *)
(* written; or a session that is there already and is resumed.             *)
Reject(r) ==
    /\ plan[r] \in Write /\ pc[r] = "write"
    /\ Goto(r, "done") /\ Works
    /\ UNCHANGED <<account, version, tokenVars, activation, expired, reset, patVars>>

CreateTextFile(r) ==
    /\ At(r, "createText", "write")
    /\ Goto(r, "record") /\ Works
    /\ target' = [target EXCEPT ![r] = r]
    /\ UNCHANGED <<account, version, tokenVars, activation, expired, reset, pat,
                   context, upload, outdated>>

(* A completion ignores the error of the insert, and charges all the same.   *)
CreateFile(r) ==
    /\ plan[r] \in Write /\ pc[r] = "record"
    /\ \/ Goto(r, "charge") /\ Works
       \/ Goto(r, IF plan[r] = "completeUpload" THEN "charge" ELSE "done") /\ Fails(r)
    /\ UNCHANGED <<account, version, tokenVars, activation, expired, reset, patVars>>

(* The copy that admitted this file says what the row still says.           *)
Bearer(u) == IF u = Past THEN Past ELSE arg[u]
UpToDate(r) == /\ Bearer(target[r]) = arg[r]
               /\ context[target[r]].used = pat[arg[r]].used

AccountPATQuota(r) ==
    /\ plan[r] \in Write /\ pc[r] = "charge"
    /\ Goto(r, IF plan[r] = "createText" THEN "done" ELSE "temp")
    /\ \/ /\ pat' = [pat EXCEPT ![arg[r]].used = @ + 1]
          /\ outdated' = IF UpToDate(r) THEN outdated
                         ELSE [outdated EXCEPT ![arg[r]] = @ + 1]
          /\ Works
       \/ Fails(r) /\ UNCHANGED <<pat, outdated>>
    /\ UNCHANGED <<account, version, tokenVars, activation, expired, reset,
                   context, upload, target>>

DeleteTemp(r) ==
    /\ At(r, "completeUpload", "temp")
    /\ upload' = [upload EXCEPT ![target[r]] = "gone"]
    /\ Goto(r, "done") /\ Works
    /\ UNCHANGED <<account, version, tokenVars, activation, expired, reset, pat,
                   context, target, outdated>>
-----------------------------------------------------------------------------
(* Both endpoints read the user first: an administrator is left alone.       *)
GetUserByID(r) ==
    /\ plan[r] \in {"setStatus", "adminReset"} /\ pc[r] = "start"
    /\ account # "none"
    /\ Goto(r, "update") /\ Works
    /\ UNCHANGED <<account, version, tokenVars, activation, expired, reset, patVars>>

SetUserStatus(r) ==
    /\ At(r, "setStatus", "update")
    /\ \/ account' \in {"active", "disabled", "pending"} /\ Works
       \/ Fails(r) /\ UNCHANGED account
    /\ Goto(r, "done")
    /\ UNCHANGED <<version, tokenVars, activation, expired, reset, patVars>>

(* Unlike a reset by mail, this ends no session.                            *)
ResetUserPassword(r) ==
    /\ At(r, "adminReset", "update")
    /\ \/ version' = version + 1 /\ Works
       \/ Fails(r) /\ UNCHANGED version
    /\ Goto(r, "done")
    /\ UNCHANGED <<account, tokenVars, activation, expired, reset, patVars>>

PatStep(r) ==
    \/ CreateToken(r) \/ CreateAPIToken(r) \/ RevokeToken(r) \/ RevokeAPIToken(r)
    \/ Authenticate(r) \/ GetUserByUsername(r)
    \/ BeginUpload(r) \/ Assemble(r) \/ Reject(r) \/ CreateTextFile(r)
    \/ CreateFile(r) \/ AccountPATQuota(r) \/ DeleteTemp(r)
    \/ GetUserByID(r) \/ SetUserStatus(r) \/ ResetUserPassword(r)
=============================================================================
