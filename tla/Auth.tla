-------------------------------- MODULE Auth --------------------------------
(* Authentication: tokens, SSO and codes with the account whose password     *)
(* they rest on, and the account's personal access tokens.                  *)
EXTENDS AccessTokens

VARIABLE during  \* history: requests that ran while a reset was revoking

vars == <<plan, pc, account, version, tokenVars, faultVars, accountVars, patVars, during>>

(* Nobody has registered; or the mail to activate is out; or an administrator *)
(* has disabled the account, before or after its activation; or the user has *)
(* logged in, authorized a client, asked for a reset code, and begun an      *)
(* upload with a token before.                                              *)
Init ==
    /\ plan \in Plans
    /\ pc = [r \in Request |-> "start"]
    /\ arg = [r \in Request |-> Past]
    /\ account \in {"none", "pending", "disabled", "active"}
    /\ version = 0
    /\ LET past(then, else) ==
             [a \in Artefact |-> IF a = Past /\ account = "active" THEN then ELSE else]
       IN  /\ session = past("live", "none")
           /\ code = past("unused", "none")
           /\ reset = past("unused", "none")
           /\ \E q \in Quotas :
                 LET row == [state |-> "live", quota |-> q, used |-> 0, writes |-> TRUE]
                 IN  pat = past(row, NoToken) /\ context = past(row, NoToken)
           /\ upload = past("open", "none")
    /\ sso = IF account = "active" THEN {Past} ELSE {}
    /\ blacklist = {}
    /\ activation \in CASE account = "pending" -> {{Past}}
                         [] account = "disabled" -> {{}, {Past}}
                         [] OTHER -> {{}}
    /\ expired = {}
    /\ cred = [a \in Artefact |-> 0]
    /\ ended = [a \in Artefact |-> 0]
    /\ target = [r \in Request |-> Past]
    /\ outdated = [a \in Artefact |-> 0]
    /\ bearer = {} /\ raced = {} /\ failed = {} /\ during = {}
    /\ muddled = FALSE
    /\ faults = 0

(* The process dies and takes the requests with it.  cmd/server deletes the  *)
(* expired activation tokens when it starts, and ignores an error.          *)
Crash ==
    /\ faults < MaxFaults
    /\ faults' = faults + 1
    /\ failed' = failed \cup {r \in Request : Running(r)}
    /\ pc' = [r \in Request |-> IF Running(r) THEN "lost" ELSE pc[r]]
    /\ activation' \in {activation, activation \ expired}
    /\ UNCHANGED <<account, version, tokenVars, expired, reset, patVars>>

Observe ==
    /\ muddled' = \/ muddled
                  \/ \E r, q \in Request : r # q /\ Activating(r)' /\ Activating(q)'
                  \/ account' # account /\ \E r \in Request : At(r, "setStatus", "update")
    /\ during' = IF \E r \in Request : pc'[r] \in {"revokeAll", "unssoAll"}
                 THEN during \cup {q \in Request : Running(q)'}
                 ELSE during

Next ==
    /\ \/ \E r \in Request :
            \/ TokenStep(r) /\ UNCHANGED <<activation, expired, reset, patVars>>
            \/ AccountStep(r) /\ UNCHANGED patVars
            \/ PatStep(r)
       \/ ExpireActivation /\ UNCHANGED patVars
       \/ Crash
    /\ UNCHANGED plan
    /\ Observe

Spec == Init /\ [][Next]_vars
-----------------------------------------------------------------------------
(* An authorization code is exchanged for at most one pair of tokens, however *)
(* many requests show it at once.                                           *)
CodeOnce ==
    \A r, q \in Request :
        /\ plan[r] = "exchange" /\ plan[q] = "exchange"
        /\ session[r] # "none" /\ session[q] # "none"
        /\ arg[r] = arg[q]
        => r = q

(* A refresh session is ended once, by a rotation, a logout or a password     *)
(* reset, unless a rotation had checked it before another of them ended it:  *)
(* only then does it get a successor after its end, or two of them.         *)
EndedOnceExplained == \A t \in Artefact : ended[t] > 1 => t \in raced

(* What an artefact was made from, and what that was made from, and so on:  *)
(* the least set with the artefact that a request's own artefact cannot     *)
(* enter without what the request was shown.                                *)
Closed(S) ==
    \A r \in S \cap Request :
        plan[r] \in {"refresh", "authorize", "exchange"} => arg[r] \in S
Lineage(a) ==
    {b \in Artefact : \A S \in SUBSET Artefact : a \in S /\ Closed(S) => b \in S}

(* When a reset by mail is over, no session or SSO session that goes back to  *)
(* an earlier password is usable, unless something on its way was made while *)
(* a reset was revoking, or from an access token or a code (which a reset    *)
(* does not revoke), or a statement of the reset failed.  A password set by  *)
(* an administrator (admin.go resetUserPassword) promises nothing like it.  *)
ResetRevokes ==
    \A a \in Artefact, r \in Request :
        /\ plan[r] = "reset" /\ pc[r] = "done" /\ r \notin failed
        /\ Live(a) \/ SignedOn(a)
        /\ cred[a] < cred[r]
        => Lineage(a) \cap (during \cup bearer) # {}

(* Between requests a pending account has one activation token, a disabled    *)
(* one at most one, and any other none, unless two requests worked on them   *)
(* at once, one failed, or an administrator changed the status; a pending    *)
(* account has lost its token only when the token was out of date.          *)
ActivationExplained ==
    /\ ~muddled
    /\ \A r \in Request : ~Activating(r) /\ r \notin failed
    => CASE account = "pending" -> /\ Cardinality(activation) <= 1
                                   /\ activation = {} => expired # {}
         [] account = "disabled" -> Cardinality(activation) <= 1
         [] OTHER -> activation = {}

(* A token's quota is overdrawn by no more than was charged on an outdated    *)
(* copy of its row: pat_quota.go compares the copy that the request was      *)
(* authenticated with, and an upload is checked when it begins and charged   *)
(* when it is completed, by then perhaps to another token, or twice.        *)
QuotaExplained ==
    \A t \in Artefact :
        pat[t].quota # 0 => pat[t].used <= pat[t].quota + outdated[t]
=============================================================================
