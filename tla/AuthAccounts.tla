---------------------------- MODULE AuthAccounts ----------------------------
(* Registration, activation by mail and password reset of one address       *)
(* (service/auth_service.go, store/token_repo.go).                          *)
EXTENDS AuthTokens

VARIABLES
    activation,  \* user_activation_tokens
    expired,     \* activation tokens past their 24 hours
    reset,       \* password_reset_codes: "none", "unused" or "used"
    \* history
    muddled      \* two requests worked on the activation at the same time,
                 \* or an administrator set the status

accountVars == <<activation, expired, reset, muddled>>

NotActive == {"pending", "disabled"}
Activating(r) == plan[r] \in {"register", "resend", "activate"} /\ Running(r)

(* GetUserByEmail, and what each endpoint makes of it: an account that is    *)
(* not active, for whatever reason, gets a new mail.                        *)
FindUser(r) ==
    /\ plan[r] \in {"register", "resend", "forgot"} /\ pc[r] = "start"
    /\ Goto(r, CASE plan[r] = "register" /\ account = "none" -> "create"
                 [] plan[r] # "forgot" /\ account \in NotActive -> "clean"
                 [] plan[r] = "forgot" /\ account = "active" -> "forget"
                 [] OTHER -> "done")
    /\ Works
    /\ UNCHANGED <<account, version, tokenVars, activation, expired, reset>>

(* The address is unique: the second of two registrations fails here.       *)
CreateUser(r) ==
    /\ At(r, "register", "create")
    /\ IF account = "none"
       THEN account' = "pending" /\ Goto(r, "send")
       ELSE Goto(r, "done") /\ UNCHANGED account
    /\ Works
    /\ UNCHANGED <<version, tokenVars, activation, expired, reset>>

(* Mutant of DeleteActivationTokensByUserID: the old tokens stay.           *)
KeepActivationTokens(r) ==
    /\ pc[r] = "clean"
    /\ Goto(r, "send") /\ Works
    /\ UNCHANGED <<account, version, tokenVars, activation, expired, reset>>

DeleteActivationTokensByUserID(r) ==
    /\ pc[r] = "clean"
    /\ \/ activation' = {} /\ Works
       \/ Fails(r) /\ UNCHANGED activation
    /\ Goto(r, "send")
    /\ UNCHANGED <<account, version, tokenVars, expired, reset>>

SendActivationEmail(r) ==
    /\ pc[r] = "send"
    /\ \/ activation' = activation \cup {r} /\ Works
       \/ Fails(r) /\ UNCHANGED activation
    /\ Goto(r, "done")
    /\ UNCHANGED <<account, version, tokenVars, expired, reset>>

Activate(r) ==
    /\ At(r, "activate", "start")
    /\ \E t \in activation :
          /\ arg' = [arg EXCEPT ![r] = t]
          /\ Goto(r, IF t \in expired THEN "drop" ELSE "enable")
    /\ Works
    /\ UNCHANGED <<account, version, session, sso, code, blacklist, cred, bearer,
                   ended, raced, activation, expired, reset>>

UpdateUserStatus(r) ==
    /\ At(r, "activate", "enable")
    /\ \/ account' = "active" /\ Goto(r, "drop") /\ Works
       \/ Goto(r, "done") /\ Fails(r) /\ UNCHANGED account
    /\ UNCHANGED <<version, tokenVars, activation, expired, reset>>

DeleteActivationToken(r) ==
    /\ At(r, "activate", "drop")
    /\ \/ activation' = activation \ {arg[r]} /\ Works
       \/ Fails(r) /\ UNCHANGED activation
    /\ Goto(r, "done")
    /\ UNCHANGED <<account, version, tokenVars, expired, reset>>

ExpireActivation ==
    /\ \E t \in activation \ expired : expired' = expired \cup {t}
    /\ UNCHANGED <<pc, account, version, tokenVars, faultVars, activation, reset>>
-----------------------------------------------------------------------------
CreateResetCode(r) ==
    /\ At(r, "forgot", "forget")
    /\ \/ reset' = [reset EXCEPT ![r] = "unused"] /\ Works
       \/ Fails(r) /\ UNCHANGED reset
    /\ Goto(r, "done")
    /\ UNCHANGED <<account, version, tokenVars, activation, expired>>

(* GetResetCode: the code is checked first and marked last.                 *)
ResetPassword(r) ==
    /\ At(r, "reset", "start")
    /\ \E c \in Artefact :
          /\ reset[c] = "unused"
          /\ arg' = [arg EXCEPT ![r] = c]
    /\ Goto(r, "password") /\ Works
    /\ UNCHANGED <<account, version, session, sso, code, blacklist, cred, bearer,
                   ended, raced, activation, expired, reset>>

UpdateUserPassword(r) ==
    /\ At(r, "reset", "password")
    /\ \/ /\ version' = version + 1
          /\ cred' = [cred EXCEPT ![r] = version + 1]
          /\ Goto(r, "revokeAll") /\ Works
       \/ Goto(r, "done") /\ Fails(r) /\ UNCHANGED <<version, cred>>
    /\ UNCHANGED <<account, arg, session, sso, code, blacklist, bearer, ended,
                   raced, activation, expired, reset>>

RevokeAllUserSessions(r) ==
    /\ At(r, "reset", "revokeAll")
    /\ Goto(r, "unssoAll")
    /\ LET live == {t \in Artefact : Live(t)}
       IN  \/ /\ session' = [t \in Artefact |->
                               IF t \in live THEN "revoked" ELSE session[t]]
              /\ End(live)
              /\ Works
           \/ Fails(r) /\ UNCHANGED <<session, ended, raced>>
    /\ UNCHANGED <<account, version, arg, sso, code, blacklist, cred, bearer,
                   activation, expired, reset>>

(* Mutant of DestroyAllUserSessions: the SSO sessions stay.                 *)
KeepSSOSessions(r) ==
    /\ At(r, "reset", "unssoAll")
    /\ Goto(r, "markReset") /\ Works
    /\ UNCHANGED <<account, version, tokenVars, activation, expired, reset>>

DestroyAllUserSessions(r) ==
    /\ At(r, "reset", "unssoAll")
    /\ \/ sso' = {} /\ Works
       \/ Fails(r) /\ UNCHANGED sso
    /\ Goto(r, "markReset")
    /\ UNCHANGED <<account, version, arg, session, code, blacklist, cred, bearer,
                   ended, raced, activation, expired, reset>>

MarkResetCodeUsed(r) ==
    /\ At(r, "reset", "markReset")
    /\ \/ reset' = [reset EXCEPT ![arg[r]] = "used"] /\ Works
       \/ Fails(r) /\ UNCHANGED reset
    /\ Goto(r, "done")
    /\ UNCHANGED <<account, version, tokenVars, activation, expired>>

AccountStep(r) ==
    \/ FindUser(r) \/ CreateUser(r) \/ DeleteActivationTokensByUserID(r)
    \/ SendActivationEmail(r)
    \/ Activate(r) \/ UpdateUserStatus(r) \/ DeleteActivationToken(r)
    \/ CreateResetCode(r)
    \/ ResetPassword(r) \/ UpdateUserPassword(r) \/ RevokeAllUserSessions(r)
    \/ DestroyAllUserSessions(r) \/ MarkResetCodeUsed(r)
=============================================================================
