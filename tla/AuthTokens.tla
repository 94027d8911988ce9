----------------------------- MODULE AuthTokens -----------------------------
(* Login, logout, refresh tokens, single sign-on sessions and OAuth codes of *)
(* one user (auth/token_rotate.go, auth/sso.go, auth/oauth2.go,              *)
(* service/auth_service.go, service/oauth_service.go, store/oauth_repo.go). *)
(*                                                                         *)
(* Every statement of the database is a step.  A refresh session, an SSO     *)
(* session, a code and a mailed token are named by the request that made     *)
(* them; Past made one of each before the behaviour begins.  A credential    *)
(* that has expired or belongs to another client is refused like a missing   *)
(* one, so a request may be refused whenever it presents something.         *)
EXTENDS Naturals, FiniteSets

CONSTANTS Request, Past,
          Plans,      \* the mixes of endpoints to look at
          MaxFaults   \* how many statements fail (bound)

Artefact == Request \cup {Past}
Kind == {"login", "logout", "refresh", "authorize", "exchange", "clientToken",
         "register", "resend", "activate", "forgot", "reset",
         "createToken", "revokeToken", "beginUpload", "completeUpload",
         "createText", "setStatus", "adminReset"}

ASSUME AuthAssumption == /\ Past \notin Request
                         /\ Plans \subseteq [Request -> Kind]
                         /\ MaxFaults \in Nat

VARIABLES
    plan, pc,
    arg,        \* what each request presents
    account,    \* the status of the user, "none" before CreateUser
    version,    \* how often the password has been reset
    session,    \* refresh_sessions: "none", "live" or "revoked"
    sso,        \* sso_sessions
    code,       \* oauth_codes: "none", "unused" or "used"
    blacklist,  \* token_blacklist (only refresh tokens ever enter it)
    faults,
    \* history
    cred,       \* the password version each artefact goes back to
    bearer,     \* requests that showed an access token or a code
    ended,      \* how often each live session was ended
    raced,      \* sessions ended while a rotation had already checked them
    failed      \* requests with an error the code ignores, or cut by a crash

tokenVars == <<arg, session, sso, code, blacklist, cred, bearer, ended, raced>>
faultVars == <<faults, failed>>

At(r, k, s) == plan[r] = k /\ pc[r] = s
Goto(r, s) == pc' = [pc EXCEPT ![r] = s]
Running(r) == pc[r] \notin {"start", "done", "lost"}
Fails(r) == /\ faults < MaxFaults
            /\ faults' = faults + 1
            /\ failed' = failed \cup {r}
Works == UNCHANGED faultVars

Live(t) == session[t] = "live"
Blacklisted(t) == t \in blacklist
SignedOn(s) == s \in sso

Refuse(r) ==
    /\ pc[r] = "start"
    /\ Goto(r, "done")
    /\ UNCHANGED <<account, version, tokenVars, faultVars>>
-----------------------------------------------------------------------------
(* One SELECT reads the password hash and the status.                       *)
Login(r) ==
    /\ At(r, "login", "start")
    /\ account = "active"
    /\ cred' = [cred EXCEPT ![r] = version]
    /\ Goto(r, "issue") /\ Works
    /\ UNCHANGED <<account, version, arg, session, sso, code, blacklist, bearer,
                   ended, raced>>

(* The owner bound to the client, whatever the owner's password.            *)
TokenFromClientCredentials(r) ==
    /\ At(r, "clientToken", "start")
    /\ account # "none"
    /\ cred' = [cred EXCEPT ![r] = version]
    /\ Goto(r, "issue") /\ Works
    /\ UNCHANGED <<account, version, arg, session, sso, code, blacklist, bearer,
                   ended, raced>>

(* Authorize ignores an error here; the others answer it.                   *)
IssueTokenPair(r) ==
    /\ pc[r] = "issue"
    /\ \/ /\ session' = [session EXCEPT ![r] = "live"]
          /\ Goto(r, CASE plan[r] = "login" -> "sso"
                       [] plan[r] = "authorize" -> "code"
                       [] OTHER -> "done")
          /\ Works
       \/ /\ Goto(r, IF plan[r] = "authorize" THEN "code" ELSE "done")
          /\ Fails(r)
          /\ UNCHANGED session
    /\ UNCHANGED <<account, version, arg, sso, code, blacklist, cred, bearer,
                   ended, raced>>

CreateSession(r) ==
    /\ At(r, "login", "sso")
    /\ \/ sso' = sso \cup {r} /\ Works
       \/ Fails(r) /\ UNCHANGED sso
    /\ Goto(r, "done")
    /\ UNCHANGED <<account, version, arg, session, code, blacklist, cred, bearer,
                   ended, raced>>
-----------------------------------------------------------------------------
(* Rotations of session t between their check and their transaction.        *)
Rotating(t) == {q \in Request : At(q, "refresh", "rotate") /\ arg[q] = t}
End(T) ==
    /\ ended' = [t \in Artefact |-> IF t \in T THEN ended[t] + 1 ELSE ended[t]]
    /\ raced' = raced \cup {t \in T : \E q \in Rotating(t) : pc'[q] = "rotate"}

PresentRefreshToken(r) ==
    /\ plan[r] \in {"logout", "refresh"} /\ pc[r] = "start"
    /\ \E t \in Artefact :
          /\ session[t] # "none"
          /\ arg' = [arg EXCEPT ![r] = t]
    /\ Goto(r, IF plan[r] = "logout" THEN "revoke" ELSE "listed") /\ Works
    /\ UNCHANGED <<account, version, session, sso, code, blacklist, cred, bearer,
                   ended, raced>>

(* A blacklist that cannot be read does not refuse.                         *)
IsBlacklisted(r) ==
    /\ At(r, "refresh", "listed")
    /\ \/ Goto(r, IF Blacklisted(arg[r]) THEN "done" ELSE "session") /\ Works
       \/ Goto(r, "session") /\ Fails(r)
    /\ UNCHANGED <<account, version, tokenVars>>

(* Mutant of GetSessionByJTI: revoked sessions rotate too.                  *)
GetSessionUnchecked(r) ==
    /\ At(r, "refresh", "session")
    /\ Goto(r, "rotate")
    /\ cred' = [cred EXCEPT ![r] = cred[arg[r]]]
    /\ Works
    /\ UNCHANGED <<account, version, arg, session, sso, code, blacklist, bearer,
                   ended, raced>>

GetSessionByJTI(r) ==
    /\ At(r, "refresh", "session")
    /\ Goto(r, IF Live(arg[r]) THEN "rotate" ELSE "done")
    /\ cred' = [cred EXCEPT ![r] = cred[arg[r]]]
    /\ Works
    /\ UNCHANGED <<account, version, arg, session, sso, code, blacklist, bearer,
                   ended, raced>>

(* One transaction revokes the old session, live or not, and inserts the     *)
(* new one.                                                                 *)
RotateSession(r) ==
    /\ At(r, "refresh", "rotate")
    /\ \/ /\ session' = [session EXCEPT ![arg[r]] = "revoked", ![r] = "live"]
          /\ Goto(r, "ban")
          /\ End({arg[r]})
          /\ Works
       \/ /\ Goto(r, "done") /\ Fails(r)
          /\ UNCHANGED <<session, ended, raced>>
    /\ UNCHANGED <<account, version, arg, sso, code, blacklist, cred, bearer>>

RevokeSessionByJTI(r) ==
    /\ At(r, "logout", "revoke")
    /\ Goto(r, "ban")
    /\ \/ /\ session' = [session EXCEPT ![arg[r]] = "revoked"]
          /\ End({arg[r]} \cap {t \in Artefact : Live(t)})
          /\ Works
       \/ Fails(r) /\ UNCHANGED <<session, ended, raced>>
    /\ UNCHANGED <<account, version, arg, sso, code, blacklist, cred, bearer>>

AddToBlacklist(r) ==
    /\ pc[r] = "ban"
    /\ \/ blacklist' = blacklist \cup {arg[r]} /\ Works
       \/ Fails(r) /\ UNCHANGED blacklist
    /\ Goto(r, IF plan[r] = "logout" THEN "unsso" ELSE "done")
    /\ UNCHANGED <<account, version, arg, session, sso, code, cred, bearer, ended,
                   raced>>

(* The browser shows an SSO cookie of its own, or none.                     *)
DestroySession(r) ==
    /\ At(r, "logout", "unsso")
    /\ \/ \E s \in sso : sso' = sso \ {s}
       \/ UNCHANGED sso
    /\ Goto(r, "done") /\ Works
    /\ UNCHANGED <<account, version, arg, session, code, blacklist, cred, bearer,
                   ended, raced>>
-----------------------------------------------------------------------------
(* The user is known by an access token, which no logout ends before its     *)
(* time, or by an SSO session, and then a new pair is issued as well.       *)
Authorize(r) ==
    /\ At(r, "authorize", "start")
    /\ \E a \in Artefact :
          /\ arg' = [arg EXCEPT ![r] = a]
          /\ cred' = [cred EXCEPT ![r] = cred[a]]
          /\ \/ /\ session[a] # "none"
                /\ bearer' = bearer \cup {r}
                /\ Goto(r, "code")
             \/ /\ SignedOn(a)
                /\ Goto(r, "issue")
                /\ UNCHANGED bearer
    /\ Works
    /\ UNCHANGED <<account, version, session, sso, code, blacklist, ended, raced>>

SaveAuthCode(r) ==
    /\ At(r, "authorize", "code")
    /\ \/ code' = [code EXCEPT ![r] = "unused"] /\ Works
       \/ Fails(r) /\ UNCHANGED code
    /\ Goto(r, "done")
    /\ UNCHANGED <<account, version, arg, session, sso, blacklist, cred, bearer,
                   ended, raced>>

TokenFromCode(r) ==
    /\ At(r, "exchange", "start")
    /\ \E c \in Artefact : /\ code[c] # "none"
                           /\ arg' = [arg EXCEPT ![r] = c]
    /\ bearer' = bearer \cup {r}
    /\ Goto(r, "select") /\ Works
    /\ UNCHANGED <<account, version, session, sso, code, blacklist, cred, ended,
                   raced>>

(* GetAndMarkUsed: a SELECT, then an UPDATE that looks at used again.       *)
SelectCode(r) ==
    /\ At(r, "exchange", "select")
    /\ Goto(r, IF code[arg[r]] = "unused" THEN "mark" ELSE "done")
    /\ Works
    /\ UNCHANGED <<account, version, tokenVars>>

(* Mutant of MarkUsed: the UPDATE does not look at used.                    *)
MarkUsedBlindly(r) ==
    /\ At(r, "exchange", "mark")
    /\ code' = [code EXCEPT ![arg[r]] = "used"]
    /\ Goto(r, "issue")
    /\ cred' = [cred EXCEPT ![r] = cred[arg[r]]]
    /\ Works
    /\ UNCHANGED <<account, version, arg, session, sso, blacklist, bearer, ended,
                   raced>>

(* The redirect URI and the PKCE verifier are compared when the code is      *)
(* already used up.                                                         *)
MarkUsed(r) ==
    /\ At(r, "exchange", "mark")
    /\ IF code[arg[r]] = "unused"
       THEN /\ code' = [code EXCEPT ![arg[r]] = "used"]
            /\ \E s \in {"issue", "done"} : Goto(r, s)
       ELSE Goto(r, "done") /\ UNCHANGED code
    /\ cred' = [cred EXCEPT ![r] = cred[arg[r]]]
    /\ Works
    /\ UNCHANGED <<account, version, arg, session, sso, blacklist, bearer, ended,
                   raced>>

TokenStep(r) ==
    \/ Refuse(r) \/ Login(r) \/ TokenFromClientCredentials(r)
    \/ IssueTokenPair(r) \/ CreateSession(r)
    \/ PresentRefreshToken(r) \/ IsBlacklisted(r) \/ GetSessionByJTI(r)
    \/ RotateSession(r) \/ RevokeSessionByJTI(r) \/ AddToBlacklist(r)
    \/ DestroySession(r)
    \/ Authorize(r) \/ SaveAuthCode(r)
    \/ TokenFromCode(r) \/ SelectCode(r) \/ MarkUsed(r)
=============================================================================
