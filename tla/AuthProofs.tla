----------------------------- MODULE AuthProofs -----------------------------
(*****************************************************************************)
(* Proofs about Auth for any number of requests, mixes of endpoints, quotas  *)
(* and faults: a code is redeemed once, a session is ended twice only past   *)
(* a rotation that had checked it, a token is overdrawn by no more than was  *)
(* charged on outdated copies of it, a password reset ends the sessions of   *)
(* earlier passwords, and activation tokens match the account's status.      *)
(*****************************************************************************)
EXTENDS Auth, FiniteSetTheorems, TLAPS

State == {"start", "done", "lost", "issue", "sso", "code", "listed", "session",
          "rotate", "revoke", "ban", "unsso", "select", "mark", "create", "send",
          "clean", "forget", "enable", "drop", "password", "revokeAll", "unssoAll",
          "markReset", "insert", "revokeToken", "user", "write", "record",
          "charge", "temp", "update"}
Token == [state : {"none", "live", "revoked"}, quota : Nat, used : Nat, writes : BOOLEAN]

TypeOK ==
    /\ pc \in [Request -> State]
    /\ arg \in [Request -> Artefact]
    /\ session \in [Artefact -> {"none", "live", "revoked"}]
    /\ code \in [Artefact -> {"none", "unused", "used"}]
    /\ ended \in [Artefact -> Nat]
    /\ pat \in [Artefact -> Token]
    /\ context \in [Artefact -> Token]
    /\ upload \in [Artefact -> {"none", "open", "gone"}]
    /\ target \in [Request -> Artefact]
    /\ outdated \in [Artefact -> Nat]
    /\ activation \subseteq Artefact

(* A request makes its session and its code once, at the end of its way; and *)
(* what a rotation or a logout was shown exists.                             *)
Unissued ==
    \A r \in Request :
        pc[r] \in {"start", "issue", "listed", "session", "rotate", "select", "mark"}
        => session[r] = "none"
Unsaved ==
    \A r \in Request :
        pc[r] \in {"start", "issue", "code", "select", "mark"} => code[r] = "none"
Shown ==
    \A r \in Request :
        pc[r] \in {"listed", "session", "rotate", "revoke"} => session[arg[r]] # "none"
SessionInv == Unissued /\ Unsaved /\ Shown

(* An exchange that has its pair, or goes to get it, holds a used code.      *)
Holder(r) == plan[r] = "exchange" /\ (pc[r] = "issue" \/ session[r] # "none")
HeldUsed == \A r \in Request : Holder(r) => code[arg[r]] = "used"
HeldOnce ==
    \A r, q \in Request : Holder(r) /\ Holder(q) /\ arg[r] = arg[q] => r = q
CodeInv == HeldUsed /\ HeldOnce

(* What was ended stays revoked, and no rotation is past its check of it but *)
(* those that count as races.                                                *)
EndedRevoked == \A t \in Artefact : ended[t] # 0 => session[t] = "revoked"
NoneRotating ==
    \A t \in Artefact, q \in Request :
        ended[t] # 0 /\ At(q, "refresh", "rotate") /\ arg[q] = t => t \in raced
EndedInv == EndedRevoked /\ NoneRotating /\ EndedOnceExplained

(* A copy of a token's row has the quota of the row; a session that is open, *)
(* and a file about to be charged, were admitted on such a copy.             *)
Copied(u) == context[u].state # "none"
CopiesTrue ==
    \A u \in Artefact : Copied(u) =>
        /\ Known(Bearer(u)) /\ context[u].quota = pat[Bearer(u)].quota
        /\ u \in Request => plan[u] \in Write /\ pc[u] # "start"
Admits(u) == Copied(u) /\ CheckPATQuota(u)
OpenAdmitted == \A u \in Artefact : upload[u] = "open" => Admits(u)
ChargeAdmitted ==
    \A r \in Request :
        /\ plan[r] \in Write /\ pc[r] \in {"record", "charge"} => Admits(target[r])
        /\ plan[r] \in Write /\ pc[r] = "user" => Copied(r)
        /\ plan[r] \in {"beginUpload", "createText"} /\ pc[r] = "write" => Admits(r)
TokensMade ==
    \A r \in Request : /\ pc[r] \in {"start", "insert"} => ~Known(r)
                       /\ pc[r] = "revokeToken" => Known(arg[r])
QuotaInv == CopiesTrue /\ OpenAdmitted /\ ChargeAdmitted /\ TokensMade /\ QuotaExplained
-----------------------------------------------------------------------------
(* A charge and a revocation leave a token a token.                          *)
LEMMA TokenChanged ==
    ASSUME NEW p \in Token
    PROVE  [p EXCEPT !.used = @ + 1] \in Token /\ [p EXCEPT !.state = "revoked"] \in Token
  BY DEF Token

(* Every step keeps the types.                                               *)
LEMMA TypeStays == TypeOK /\ [Next]_vars => TypeOK'
<1> SUFFICES ASSUME TypeOK, [Next]_vars PROVE TypeOK'
  OBVIOUS
<1> USE DEF TypeOK, State, tokenVars, patVars, Goto
<1>r. Request \subseteq Artefact
  BY DEF Artefact
<1>1. ASSUME NEW r \in Request, TokenStep(r), UNCHANGED <<activation, patVars>>
      PROVE  TypeOK'
  <2> USE <1>1, <1>r
  <2>e. \A T : End(T) => ended' \in [Artefact -> Nat]
    BY DEF End
  <2>1. CASE Refuse(r)
    BY <2>1 DEF Refuse
  <2>2. CASE Login(r)
    BY <2>2 DEF Login
  <2>3. CASE TokenFromClientCredentials(r)
    BY <2>3 DEF TokenFromClientCredentials
  <2>4. CASE IssueTokenPair(r)
    BY <2>4 DEF IssueTokenPair
  <2>5. CASE CreateSession(r)
    BY <2>5 DEF CreateSession
  <2>6. CASE PresentRefreshToken(r)
    BY <2>6 DEF PresentRefreshToken
  <2>7. CASE IsBlacklisted(r)
    BY <2>7 DEF IsBlacklisted
  <2>8. CASE GetSessionByJTI(r)
    BY <2>8 DEF GetSessionByJTI
  <2>9. CASE RotateSession(r)
    BY <2>9, <2>e DEF RotateSession
  <2>10. CASE RevokeSessionByJTI(r)
    BY <2>10, <2>e DEF RevokeSessionByJTI
  <2>11. CASE AddToBlacklist(r)
    BY <2>11 DEF AddToBlacklist
  <2>12. CASE DestroySession(r)
    BY <2>12 DEF DestroySession
  <2>13. CASE Authorize(r)
    BY <2>13 DEF Authorize
  <2>14. CASE SaveAuthCode(r)
    BY <2>14 DEF SaveAuthCode
  <2>15. CASE TokenFromCode(r)
    BY <2>15 DEF TokenFromCode
  <2>16. CASE SelectCode(r)
    BY <2>16 DEF SelectCode
  <2>17. CASE MarkUsed(r)
    <3>1. pc' \in [Request -> State]
      BY <2>17 DEF MarkUsed
    <3>2. code' \in [Artefact -> {"none", "unused", "used"}]
      BY <2>17 DEF MarkUsed
    <3> QED BY <2>17, <3>1, <3>2 DEF MarkUsed
  <2> QED BY <2>1, <2>2, <2>3, <2>4, <2>5, <2>6, <2>7, <2>8, <2>9, <2>10, <2>11,
         <2>12, <2>13, <2>14, <2>15, <2>16, <2>17 DEF TokenStep
<1>2. ASSUME NEW r \in Request, AccountStep(r), UNCHANGED patVars PROVE TypeOK'
  <2> USE <1>2, <1>r
  <2>e. \A T : End(T) => ended' \in [Artefact -> Nat]
    BY DEF End
  <2>1. CASE FindUser(r)
    BY <2>1 DEF FindUser
  <2>2. CASE CreateUser(r)
    BY <2>2 DEF CreateUser
  <2>3. CASE DeleteActivationTokensByUserID(r)
    BY <2>3 DEF DeleteActivationTokensByUserID
  <2>4. CASE SendActivationEmail(r)
    BY <2>4 DEF SendActivationEmail
  <2>5. CASE Activate(r)
    BY <2>5 DEF Activate
  <2>6. CASE UpdateUserStatus(r)
    BY <2>6 DEF UpdateUserStatus
  <2>7. CASE DeleteActivationToken(r)
    BY <2>7 DEF DeleteActivationToken
  <2>8. CASE CreateResetCode(r)
    BY <2>8 DEF CreateResetCode
  <2>9. CASE ResetPassword(r)
    BY <2>9 DEF ResetPassword
  <2>10. CASE UpdateUserPassword(r)
    BY <2>10 DEF UpdateUserPassword
  <2>11. CASE RevokeAllUserSessions(r)
    BY <2>11, <2>e DEF RevokeAllUserSessions
  <2>12. CASE DestroyAllUserSessions(r)
    BY <2>12 DEF DestroyAllUserSessions
  <2>13. CASE MarkResetCodeUsed(r)
    BY <2>13 DEF MarkResetCodeUsed
  <2> QED BY <2>1, <2>2, <2>3, <2>4, <2>5, <2>6, <2>7, <2>8, <2>9, <2>10, <2>11,
         <2>12, <2>13 DEF AccountStep
<1>3. ASSUME NEW r \in Request, PatStep(r) PROVE TypeOK'
  <2> USE <1>3, <1>r
  <2>1. CASE CreateToken(r)
    BY <2>1 DEF CreateToken
  <2>2. CASE CreateAPIToken(r)
    <3>1. CASE UNCHANGED pat
      BY <2>2, <3>1 DEF CreateAPIToken
    <3>2. CASE ~UNCHANGED pat
      <4>1. PICK q \in Quotas, w \in BOOLEAN :
              pat' = [pat EXCEPT ![r] =
                        [state |-> "live", quota |-> q, used |-> 0, writes |-> w]]
        BY <2>2, <3>2 DEF CreateAPIToken
      <4>2. [state |-> "live", quota |-> q, used |-> 0, writes |-> w] \in Token
        BY QuotasAssumption DEF Token
      <4>3. pat' \in [Artefact -> Token]
        BY <4>1, <4>2
      <4> QED BY <2>2, <4>3 DEF CreateAPIToken
    <3> QED BY <3>1, <3>2
  <2>3. CASE RevokeToken(r)
    BY <2>3 DEF RevokeToken
  <2>4. CASE RevokeAPIToken(r)
    <3>1. [pat[arg[r]] EXCEPT !.state = "revoked"] \in Token
      BY TokenChanged
    <3>2. pat' \in [Artefact -> Token]
      BY <2>4, <3>1 DEF RevokeAPIToken
    <3> QED BY <2>4, <3>2 DEF RevokeAPIToken
  <2>5. CASE Authenticate(r)
    <3>1. PICK t \in Artefact : /\ arg' = [arg EXCEPT ![r] = t]
                               /\ context' = [context EXCEPT ![r] = pat[t]]
      BY <2>5 DEF Authenticate, Inject
    <3>2. context' \in [Artefact -> Token]
      BY <3>1
    <3> QED BY <2>5, <3>1, <3>2 DEF Authenticate
  <2>6. CASE GetUserByUsername(r)
    BY <2>6 DEF GetUserByUsername
  <2>7. CASE BeginUpload(r)
    BY <2>7 DEF BeginUpload
  <2>8. CASE Assemble(r)
    BY <2>8 DEF Assemble
  <2>9. CASE Reject(r)
    BY <2>9 DEF Reject
  <2>10. CASE CreateTextFile(r)
    BY <2>10 DEF CreateTextFile
  <2>11. CASE CreateFile(r)
    BY <2>11 DEF CreateFile
  <2>12. CASE AccountPATQuota(r)
    <3>1. [pat[arg[r]] EXCEPT !.used = @ + 1] \in Token
      BY TokenChanged
    <3>2. pat' \in [Artefact -> Token]
      BY <2>12, <3>1 DEF AccountPATQuota
    <3>3. outdated' \in [Artefact -> Nat]
      BY <2>12 DEF AccountPATQuota
    <3> QED BY <2>12, <3>2, <3>3 DEF AccountPATQuota
  <2>13. CASE DeleteTemp(r)
    BY <2>13 DEF DeleteTemp
  <2>14. CASE GetUserByID(r)
    BY <2>14 DEF GetUserByID
  <2>15. CASE SetUserStatus(r)
    BY <2>15 DEF SetUserStatus
  <2>16. CASE ResetUserPassword(r)
    BY <2>16 DEF ResetUserPassword
  <2> QED BY <2>1, <2>2, <2>3, <2>4, <2>5, <2>6, <2>7, <2>8, <2>9, <2>10, <2>11,
         <2>12, <2>13, <2>14, <2>15, <2>16 DEF PatStep
<1>4. CASE ExpireActivation /\ UNCHANGED patVars
  BY <1>4 DEF ExpireActivation
<1>5. CASE Crash
  BY <1>5 DEF Crash
<1>6. CASE UNCHANGED vars
  BY <1>6 DEF vars, accountVars
<1> QED BY <1>1, <1>2, <1>3, <1>4, <1>5, <1>6 DEF Next

(* Type correctness of what the invariants below are about.                  *)
THEOREM AuthTypeCorrect == Spec => []TypeOK
<1>1. Init => TypeOK
  <2> SUFFICES ASSUME Init PROVE TypeOK
    OBVIOUS
  <2>1. Past \in Artefact /\ Request \subseteq Artefact
    BY DEF Artefact
  <2>2. pat \in [Artefact -> Token] /\ context \in [Artefact -> Token]
    <3> DEFINE past(then, else) ==
             [a \in Artefact |-> IF a = Past /\ account = "active" THEN then ELSE else]
    <3>1. PICK q \in Quotas :
            LET row == [state |-> "live", quota |-> q, used |-> 0, writes |-> TRUE]
            IN  pat = past(row, NoToken) /\ context = past(row, NoToken)
      BY DEF Init
    <3>2. /\ [state |-> "live", quota |-> q, used |-> 0, writes |-> TRUE] \in Token
          /\ NoToken \in Token
      BY QuotasAssumption DEF Token, NoToken
    <3> QED BY <3>1, <3>2
  <2>3. pc \in [Request -> State]
    BY DEF Init, State
  <2> QED BY <2>1, <2>2, <2>3 DEF Init, TypeOK
<1> QED BY <1>1, TypeStays, PTL DEF Spec
-----------------------------------------------------------------------------
(* Most steps leave the sessions and the codes alone, and take no request    *)
(* along or out of the ways that lead to one; the steps that do are these.   *)
Ways == {"start", "issue", "code", "listed", "session", "rotate", "revoke", "select",
         "mark"}
Aside ==
    /\ \A q \in Request : /\ pc'[q] = pc[q] \/ pc'[q] \notin Ways
                          /\ \/ arg'[q] = arg[q]
                             \/ pc[q] = "start" /\ pc'[q] \notin Ways
    /\ UNCHANGED <<session, code, ended, raced>>
SessionStep(r) ==
    \/ Login(r) \/ TokenFromClientCredentials(r) \/ IssueTokenPair(r)
    \/ PresentRefreshToken(r) \/ IsBlacklisted(r) \/ GetSessionByJTI(r)
    \/ RotateSession(r) \/ RevokeSessionByJTI(r)
    \/ Authorize(r) \/ SaveAuthCode(r)
    \/ TokenFromCode(r) \/ SelectCode(r) \/ MarkUsed(r)
    \/ RevokeAllUserSessions(r)

(* Every step is one of those, or leaves sessions, codes and ways alone.     *)
LEMMA StepsAside ==
    TypeOK /\ [Next]_vars
    => UNCHANGED plan /\ (Aside \/ \E r \in Request : SessionStep(r))
<1> SUFFICES ASSUME TypeOK, [Next]_vars
             PROVE  UNCHANGED plan /\ (Aside \/ \E r \in Request : SessionStep(r))
  OBVIOUS
<1>p. UNCHANGED plan
  BY DEF Next, vars
<1> USE <1>p DEF TypeOK, Aside, Ways, At, Goto, tokenVars
<1>1. ASSUME NEW r \in Request, TokenStep(r) PROVE Aside \/ SessionStep(r)
  <2>1. CASE Refuse(r)
    BY <2>1 DEF Refuse
  <2>2. CASE CreateSession(r)
    BY <2>2 DEF CreateSession
  <2>3. CASE AddToBlacklist(r)
    BY <2>3 DEF AddToBlacklist
  <2>4. CASE DestroySession(r)
    BY <2>4 DEF DestroySession
  <2> QED BY <1>1, <2>1, <2>2, <2>3, <2>4 DEF TokenStep, SessionStep
<1>2. ASSUME NEW r \in Request, AccountStep(r) PROVE Aside \/ SessionStep(r)
  <2>1. CASE FindUser(r)
    BY <2>1 DEF FindUser
  <2>2. CASE CreateUser(r)
    BY <2>2 DEF CreateUser
  <2>3. CASE DeleteActivationTokensByUserID(r)
    BY <2>3 DEF DeleteActivationTokensByUserID
  <2>4. CASE SendActivationEmail(r)
    BY <2>4 DEF SendActivationEmail
  <2>5. CASE Activate(r)
    BY <2>5 DEF Activate
  <2>6. CASE UpdateUserStatus(r)
    BY <2>6 DEF UpdateUserStatus
  <2>7. CASE DeleteActivationToken(r)
    BY <2>7 DEF DeleteActivationToken
  <2>8. CASE CreateResetCode(r)
    BY <2>8 DEF CreateResetCode
  <2>9. CASE ResetPassword(r)
    BY <2>9 DEF ResetPassword
  <2>10. CASE UpdateUserPassword(r)
    BY <2>10 DEF UpdateUserPassword
  <2>11. CASE DestroyAllUserSessions(r)
    BY <2>11 DEF DestroyAllUserSessions
  <2>12. CASE MarkResetCodeUsed(r)
    BY <2>12 DEF MarkResetCodeUsed
  <2> QED BY <1>2, <2>1, <2>2, <2>3, <2>4, <2>5, <2>6, <2>7, <2>8, <2>9, <2>10,
         <2>11, <2>12 DEF AccountStep, SessionStep
<1>3. ASSUME NEW r \in Request, PatStep(r) PROVE Aside \/ SessionStep(r)
  <2>1. CASE CreateToken(r)
    BY <2>1 DEF CreateToken
  <2>2. CASE CreateAPIToken(r)
    BY <2>2 DEF CreateAPIToken
  <2>3. CASE RevokeToken(r)
    BY <2>3 DEF RevokeToken
  <2>4. CASE RevokeAPIToken(r)
    BY <2>4 DEF RevokeAPIToken
  <2>5. CASE Authenticate(r)
    BY <2>5 DEF Authenticate
  <2>6. CASE GetUserByUsername(r)
    BY <2>6 DEF GetUserByUsername
  <2>7. CASE BeginUpload(r)
    BY <2>7 DEF BeginUpload
  <2>8. CASE Assemble(r)
    BY <2>8 DEF Assemble
  <2>9. CASE Reject(r)
    BY <2>9 DEF Reject
  <2>10. CASE CreateTextFile(r)
    BY <2>10 DEF CreateTextFile
  <2>11. CASE CreateFile(r)
    BY <2>11 DEF CreateFile
  <2>12. CASE AccountPATQuota(r)
    BY <2>12 DEF AccountPATQuota
  <2>13. CASE DeleteTemp(r)
    BY <2>13 DEF DeleteTemp
  <2>14. CASE GetUserByID(r)
    BY <2>14 DEF GetUserByID
  <2>15. CASE SetUserStatus(r)
    BY <2>15 DEF SetUserStatus
  <2>16. CASE ResetUserPassword(r)
    BY <2>16 DEF ResetUserPassword
  <2> QED BY <1>3, <2>1, <2>2, <2>3, <2>4, <2>5, <2>6, <2>7, <2>8, <2>9, <2>10,
         <2>11, <2>12, <2>13, <2>14, <2>15, <2>16 DEF PatStep
<1>4. CASE ExpireActivation
  BY <1>4 DEF ExpireActivation
<1>5. CASE Crash
  BY <1>5 DEF Crash
<1>6. CASE UNCHANGED vars
  BY <1>6 DEF vars
<1> QED BY <1>1, <1>2, <1>3, <1>4, <1>5, <1>6 DEF Next

(* A request makes its session and its code at the end of its way.           *)
LEMMA SessionStays ==
    TypeOK /\ SessionInv /\ [Next]_vars => SessionInv'
<1> SUFFICES ASSUME TypeOK, SessionInv, [Next]_vars PROVE SessionInv'
  OBVIOUS
<1>p. UNCHANGED plan /\ (Aside \/ \E r \in Request : SessionStep(r))
  BY StepsAside
<1> USE DEF SessionInv, Unissued, Unsaved, Shown
<1>1. CASE Aside
  BY <1>1 DEF Aside, Ways
<1>2. ASSUME NEW r \in Request, SessionStep(r) PROVE SessionInv'
  <2> USE DEF TypeOK, Goto, At, Artefact, Live, tokenVars
  <2>1. CASE Login(r)
    BY <2>1 DEF Login
  <2>2. CASE TokenFromClientCredentials(r)
    BY <2>2 DEF TokenFromClientCredentials
  <2>3. CASE IssueTokenPair(r)
    BY <2>3 DEF IssueTokenPair
  <2>4. CASE PresentRefreshToken(r)
    BY <2>4 DEF PresentRefreshToken
  <2>5. CASE IsBlacklisted(r)
    BY <2>5 DEF IsBlacklisted
  <2>6. CASE GetSessionByJTI(r)
    BY <2>6 DEF GetSessionByJTI
  <2>7. CASE RotateSession(r)
    BY <2>7 DEF RotateSession
  <2>8. CASE RevokeSessionByJTI(r)
    BY <2>8 DEF RevokeSessionByJTI
  <2>9. CASE Authorize(r)
    BY <2>9 DEF Authorize
  <2>10. CASE SaveAuthCode(r)
    BY <2>10 DEF SaveAuthCode
  <2>11. CASE TokenFromCode(r)
    BY <2>11 DEF TokenFromCode
  <2>12. CASE SelectCode(r)
    BY <2>12 DEF SelectCode
  <2>13. CASE MarkUsed(r)
    BY <2>13 DEF MarkUsed
  <2>14. CASE RevokeAllUserSessions(r)
    BY <2>14 DEF RevokeAllUserSessions
  <2> QED BY <1>2, <2>1, <2>2, <2>3, <2>4, <2>5, <2>6, <2>7, <2>8, <2>9, <2>10,
         <2>11, <2>12, <2>13, <2>14 DEF SessionStep
<1> QED BY <1>p, <1>1, <1>2

(* A code that is used up is used by one exchange: MarkUsed finds it unused, *)
(* and what an exchange presents is settled before it looks.                 *)
LEMMA CodeStays ==
    TypeOK /\ SessionInv /\ CodeInv /\ [Next]_vars => CodeInv'
<1> SUFFICES ASSUME TypeOK, SessionInv, CodeInv, [Next]_vars PROVE CodeInv'
  OBVIOUS
<1>p. UNCHANGED plan /\ (Aside \/ \E r \in Request : SessionStep(r))
  BY StepsAside
<1>t. TypeOK'
  BY TypeStays
<1> USE DEF SessionInv, Unissued, Shown, At, Unsaved, CodeInv, HeldUsed,
            HeldOnce, Holder
<1>1. CASE Aside
  BY <1>1, <1>p, <1>t DEF Aside, Ways, TypeOK
<1>2. ASSUME NEW r \in Request, SessionStep(r) PROVE CodeInv'
  <2> USE <1>p DEF TypeOK, Goto, Artefact, Live, tokenVars
  <2>1. CASE Login(r)
    BY <2>1 DEF Login
  <2>2. CASE TokenFromClientCredentials(r)
    BY <2>2 DEF TokenFromClientCredentials
  <2>3. CASE IssueTokenPair(r)
    BY <2>3 DEF IssueTokenPair
  <2>4. CASE PresentRefreshToken(r)
    BY <2>4 DEF PresentRefreshToken
  <2>5. CASE IsBlacklisted(r)
    BY <2>5 DEF IsBlacklisted
  <2>6. CASE GetSessionByJTI(r)
    BY <2>6 DEF GetSessionByJTI
  <2>7. CASE RotateSession(r)
    BY <2>7 DEF RotateSession
  <2>8. CASE RevokeSessionByJTI(r)
    BY <2>8 DEF RevokeSessionByJTI
  <2>9. CASE Authorize(r)
    BY <2>9 DEF Authorize
  <2>10. CASE SaveAuthCode(r)
    BY <2>10 DEF SaveAuthCode
  <2>11. CASE TokenFromCode(r)
    BY <2>11 DEF TokenFromCode
  <2>12. CASE SelectCode(r)
    BY <2>12 DEF SelectCode
  <2>13. CASE MarkUsed(r)
    BY <2>13 DEF MarkUsed
  <2>14. CASE RevokeAllUserSessions(r)
    BY <2>14 DEF RevokeAllUserSessions
  <2> QED BY <1>2, <2>1, <2>2, <2>3, <2>4, <2>5, <2>6, <2>7, <2>8, <2>9, <2>10,
         <2>11, <2>12, <2>13, <2>14 DEF SessionStep
<1> QED BY <1>p, <1>1, <1>2

(* A session is ended when it is live, or under a rotation that has checked  *)
(* it; and a rotation checks live sessions only.                             *)
LEMMA EndedStays ==
    TypeOK /\ SessionInv /\ EndedInv /\ [Next]_vars => EndedInv'
<1> SUFFICES ASSUME TypeOK, SessionInv, EndedInv, [Next]_vars PROVE EndedInv'
  OBVIOUS
<1>p. UNCHANGED plan /\ (Aside \/ \E r \in Request : SessionStep(r))
  BY StepsAside
<1>t. TypeOK'
  BY TypeStays
<1> USE DEF SessionInv, Unissued, Shown, At, EndedInv, EndedRevoked,
            NoneRotating, EndedOnceExplained
<1>1. CASE Aside
  BY <1>1, <1>p, <1>t DEF Aside, Ways, TypeOK
<1>2. ASSUME NEW r \in Request, SessionStep(r) PROVE EndedInv'
  <2> USE <1>p DEF TypeOK, Goto, Artefact, Live, tokenVars
  <2>1. CASE Login(r)
    BY <2>1 DEF Login
  <2>2. CASE TokenFromClientCredentials(r)
    BY <2>2 DEF TokenFromClientCredentials
  <2>3. CASE IssueTokenPair(r)
    BY <2>3 DEF IssueTokenPair
  <2>4. CASE PresentRefreshToken(r)
    BY <2>4 DEF PresentRefreshToken
  <2>5. CASE IsBlacklisted(r)
    BY <2>5 DEF IsBlacklisted
  <2>6. CASE GetSessionByJTI(r)
    BY <2>6 DEF GetSessionByJTI
  <2>7. CASE RotateSession(r)
    BY <2>7 DEF RotateSession, End, Rotating
  <2>8. CASE RevokeSessionByJTI(r)
    BY <2>8 DEF RevokeSessionByJTI, End, Rotating
  <2>9. CASE Authorize(r)
    BY <2>9 DEF Authorize
  <2>10. CASE SaveAuthCode(r)
    BY <2>10 DEF SaveAuthCode
  <2>11. CASE TokenFromCode(r)
    BY <2>11 DEF TokenFromCode
  <2>12. CASE SelectCode(r)
    BY <2>12 DEF SelectCode
  <2>13. CASE MarkUsed(r)
    BY <2>13 DEF MarkUsed
  <2>14. CASE RevokeAllUserSessions(r)
    BY <2>14 DEF RevokeAllUserSessions, End, Rotating
  <2> QED BY <1>2, <2>1, <2>2, <2>3, <2>4, <2>5, <2>6, <2>7, <2>8, <2>9, <2>10,
         <2>11, <2>12, <2>13, <2>14 DEF SessionStep
<1> QED BY <1>p, <1>1, <1>2

(* An authorization code is exchanged for at most one pair of tokens.        *)
THEOREM CodeRedeemedOnce == Spec => []CodeOnce
<1>1. Init => SessionInv /\ CodeInv
  BY AuthAssumption DEF Init, SessionInv, Unissued, Unsaved, Shown, CodeInv, HeldUsed,
     HeldOnce, Holder, Artefact
<1>2. TypeOK /\ SessionInv /\ CodeInv /\ [Next]_vars => (SessionInv /\ CodeInv)'
  BY SessionStays, CodeStays
<1>3. CodeInv => CodeOnce
  BY DEF CodeInv, HeldOnce, Holder, CodeOnce
<1> QED BY AuthTypeCorrect, <1>1, <1>2, <1>3, PTL DEF Spec

(* A refresh session is ended twice only if a rotation had already checked   *)
(* it when it was ended.                                                     *)
THEOREM SessionEndedOnce == Spec => []EndedOnceExplained
<1>1. Init => SessionInv /\ EndedInv
  BY AuthAssumption DEF Init, SessionInv, Unissued, Unsaved, Shown, EndedInv,
     EndedRevoked, NoneRotating, EndedOnceExplained, Artefact
<1>2. TypeOK /\ SessionInv /\ EndedInv /\ [Next]_vars => (SessionInv /\ EndedInv)'
  BY SessionStays, EndedStays
<1>3. EndedInv => EndedOnceExplained
  BY DEF EndedInv
<1> QED BY AuthTypeCorrect, <1>1, <1>2, <1>3, PTL DEF Spec
-----------------------------------------------------------------------------
(* Sessions, codes and accounts do not touch tokens, uploads or their ways.  *)
TokenWays == {"start", "insert", "revokeToken", "user", "write", "record", "charge"}
AsideTokens ==
    /\ \A q \in Request : /\ pc'[q] = pc[q] \/ pc'[q] \notin TokenWays
                          /\ \/ arg'[q] = arg[q]
                             \/ pc[q] = "start" /\ pc'[q] \notin TokenWays
    /\ UNCHANGED patVars
QuotaStep(r) ==
    \/ CreateToken(r) \/ CreateAPIToken(r) \/ RevokeToken(r) \/ RevokeAPIToken(r)
    \/ Authenticate(r) \/ GetUserByUsername(r)
    \/ BeginUpload(r) \/ Assemble(r) \/ CreateTextFile(r) \/ CreateFile(r)
    \/ AccountPATQuota(r) \/ DeleteTemp(r)

(* Every step is one of those, or leaves tokens, uploads and ways alone.     *)
LEMMA StepsAsideTokens ==
    TypeOK /\ [Next]_vars
    => UNCHANGED plan /\ (AsideTokens \/ \E r \in Request : QuotaStep(r))
<1> SUFFICES ASSUME TypeOK, [Next]_vars
             PROVE  UNCHANGED plan /\ (AsideTokens \/ \E r \in Request : QuotaStep(r))
  OBVIOUS
<1>p. UNCHANGED plan
  BY DEF Next, vars
<1> USE <1>p DEF TypeOK, AsideTokens, TokenWays, At, Goto, tokenVars
<1>1. ASSUME NEW r \in Request, TokenStep(r), UNCHANGED patVars PROVE AsideTokens
  <2> USE <1>1
  <2>1. CASE Refuse(r)
    BY <2>1 DEF Refuse
  <2>2. CASE Login(r)
    BY <2>2 DEF Login
  <2>3. CASE TokenFromClientCredentials(r)
    BY <2>3 DEF TokenFromClientCredentials
  <2>4. CASE IssueTokenPair(r)
    BY <2>4 DEF IssueTokenPair
  <2>5. CASE CreateSession(r)
    BY <2>5 DEF CreateSession
  <2>6. CASE PresentRefreshToken(r)
    BY <2>6 DEF PresentRefreshToken
  <2>7. CASE IsBlacklisted(r)
    BY <2>7 DEF IsBlacklisted
  <2>8. CASE GetSessionByJTI(r)
    BY <2>8 DEF GetSessionByJTI
  <2>9. CASE RotateSession(r)
    BY <2>9 DEF RotateSession
  <2>10. CASE RevokeSessionByJTI(r)
    BY <2>10 DEF RevokeSessionByJTI
  <2>11. CASE AddToBlacklist(r)
    BY <2>11 DEF AddToBlacklist
  <2>12. CASE DestroySession(r)
    BY <2>12 DEF DestroySession
  <2>13. CASE Authorize(r)
    BY <2>13 DEF Authorize
  <2>14. CASE SaveAuthCode(r)
    BY <2>14 DEF SaveAuthCode
  <2>15. CASE TokenFromCode(r)
    BY <2>15 DEF TokenFromCode
  <2>16. CASE SelectCode(r)
    BY <2>16 DEF SelectCode
  <2>17. CASE MarkUsed(r)
    BY <2>17 DEF MarkUsed
  <2> QED BY <1>1, <2>1, <2>2, <2>3, <2>4, <2>5, <2>6, <2>7, <2>8, <2>9, <2>10,
         <2>11, <2>12, <2>13, <2>14, <2>15, <2>16, <2>17 DEF TokenStep
<1>2. ASSUME NEW r \in Request, AccountStep(r), UNCHANGED patVars PROVE AsideTokens
  <2> USE <1>2
  <2>1. CASE FindUser(r)
    BY <2>1 DEF FindUser
  <2>2. CASE CreateUser(r)
    BY <2>2 DEF CreateUser
  <2>3. CASE DeleteActivationTokensByUserID(r)
    BY <2>3 DEF DeleteActivationTokensByUserID
  <2>4. CASE SendActivationEmail(r)
    BY <2>4 DEF SendActivationEmail
  <2>5. CASE Activate(r)
    BY <2>5 DEF Activate
  <2>6. CASE UpdateUserStatus(r)
    BY <2>6 DEF UpdateUserStatus
  <2>7. CASE DeleteActivationToken(r)
    BY <2>7 DEF DeleteActivationToken
  <2>8. CASE CreateResetCode(r)
    BY <2>8 DEF CreateResetCode
  <2>9. CASE ResetPassword(r)
    BY <2>9 DEF ResetPassword
  <2>10. CASE UpdateUserPassword(r)
    BY <2>10 DEF UpdateUserPassword
  <2>11. CASE RevokeAllUserSessions(r)
    BY <2>11 DEF RevokeAllUserSessions
  <2>12. CASE DestroyAllUserSessions(r)
    BY <2>12 DEF DestroyAllUserSessions
  <2>13. CASE MarkResetCodeUsed(r)
    BY <2>13 DEF MarkResetCodeUsed
  <2> QED BY <1>2, <2>1, <2>2, <2>3, <2>4, <2>5, <2>6, <2>7, <2>8, <2>9, <2>10,
         <2>11, <2>12, <2>13 DEF AccountStep
<1>3. ASSUME NEW r \in Request, PatStep(r) PROVE AsideTokens \/ QuotaStep(r)
  <2>1. CASE Reject(r)
    BY <2>1 DEF Reject
  <2>2. CASE GetUserByID(r)
    BY <2>2 DEF GetUserByID
  <2>3. CASE SetUserStatus(r)
    BY <2>3 DEF SetUserStatus
  <2>4. CASE ResetUserPassword(r)
    BY <2>4 DEF ResetUserPassword
  <2> QED BY <1>3, <2>1, <2>2, <2>3, <2>4 DEF PatStep, QuotaStep
<1>4. CASE ExpireActivation /\ UNCHANGED patVars
  BY <1>4 DEF ExpireActivation
<1>5. CASE Crash
  BY <1>5 DEF Crash
<1>6. CASE UNCHANGED vars
  BY <1>6 DEF vars
<1> QED BY <1>1, <1>2, <1>3, <1>4, <1>5, <1>6 DEF Next

(* An up-to-date charge of a token is one that the row itself admits: the    *)
(* copy that admitted it has the row's quota and the row's use.              *)
LEMMA QuotaStays == TypeOK /\ QuotaInv /\ [Next]_vars => QuotaInv'
<1> SUFFICES ASSUME TypeOK, QuotaInv, [Next]_vars PROVE QuotaInv'
  OBVIOUS
<1>p. UNCHANGED plan /\ (AsideTokens \/ \E r \in Request : QuotaStep(r))
  BY StepsAsideTokens
<1> USE AuthAssumption DEF QuotaInv, CopiesTrue, OpenAdmitted, ChargeAdmitted,
        TokensMade, QuotaExplained, Copied, Admits, CheckPATQuota, Known, Bearer
<1>1. CASE AsideTokens
  BY <1>1, <1>p DEF AsideTokens, TokenWays, patVars, Artefact
<1>2. ASSUME NEW r \in Request, QuotaStep(r) PROVE QuotaInv'
  <2> USE <1>p DEF TypeOK, Token, Goto, At, Artefact, Write, patVars, tokenVars
  <2>1. CASE CreateToken(r)
    BY <2>1 DEF CreateToken
  <2>2. CASE CreateAPIToken(r)
    <3>1. CASE UNCHANGED pat
      BY <2>2, <3>1 DEF CreateAPIToken
    <3>2. CASE ~UNCHANGED pat
      <4>1. PICK q \in Quotas, w \in BOOLEAN :
              pat' = [pat EXCEPT ![r] =
                        [state |-> "live", quota |-> q, used |-> 0, writes |-> w]]
        BY <2>2, <3>2 DEF CreateAPIToken
      <4>2. /\ Known(r)' /\ pat'[r].used = 0 /\ pat'[r].quota \in Nat
            /\ \A t \in Artefact \ {r} : pat'[t] = pat[t]
        BY <4>1, QuotasAssumption
      <4>3. \A u \in Artefact : Copied(u) => Bearer(u) # r
        BY <2>2 DEF CreateAPIToken
      <4>4. UNCHANGED <<arg, context, upload, target, outdated>> /\ Goto(r, "done")
        BY <2>2 DEF CreateAPIToken
      <4>5. CopiesTrue'
        BY <4>2, <4>3, <4>4
      <4>6. OpenAdmitted' /\ ChargeAdmitted'
        BY <4>4
      <4>7. TokensMade'
        <5>1. \A t \in Artefact : Known(t) => Known(t)'
          BY <4>2
        <5>2. \A p \in Request : p # r => pc'[p] = pc[p]
          BY <4>4
        <5>3. pc'[r] = "done"
          BY <4>4
        <5>4. \A p \in Request : p # r => Known(p)' = Known(p)
          BY <4>2
        <5> QED BY <4>4, <5>1, <5>2, <5>3, <5>4
      <4>8. QuotaExplained'
        BY <4>2, <4>4
      <4> QED BY <4>5, <4>6, <4>7, <4>8
    <3> QED BY <3>1, <3>2
  <2>3. CASE RevokeToken(r)
    BY <2>3 DEF RevokeToken
  <2>4. CASE RevokeAPIToken(r)
    <3>0. Known(arg[r])
      BY <2>4 DEF RevokeAPIToken
    <3>1. \A t \in Artefact :
            /\ pat'[t].quota = pat[t].quota /\ pat'[t].used = pat[t].used
            /\ Known(t)' = Known(t)
      <4>1. CASE UNCHANGED pat
        BY <4>1
      <4>2. CASE pat' = [pat EXCEPT ![arg[r]].state = "revoked"]
        BY <4>2, <3>0
      <4> QED BY <2>4, <4>1, <4>2 DEF RevokeAPIToken
    <3>2. UNCHANGED <<arg, context, upload, target, outdated>> /\ Goto(r, "done")
      BY <2>4 DEF RevokeAPIToken
    <3>3. CopiesTrue' /\ OpenAdmitted' /\ ChargeAdmitted' /\ TokensMade'
      BY <3>1, <3>2
    <3>4. QuotaExplained'
      BY <3>1, <3>2
    <3> QED BY <3>3, <3>4
  <2>5. CASE Authenticate(r)
    BY <2>5 DEF Authenticate, Valid, Inject
  <2>6. CASE GetUserByUsername(r)
    BY <2>6 DEF GetUserByUsername, Admitted
  <2>7. CASE BeginUpload(r)
    BY <2>7 DEF BeginUpload
  <2>8. CASE Assemble(r)
    BY <2>8 DEF Assemble
  <2>9. CASE CreateTextFile(r)
    BY <2>9 DEF CreateTextFile
  <2>10. CASE CreateFile(r)
    BY <2>10 DEF CreateFile
  <2>11. CASE AccountPATQuota(r)
    <3>1. CASE UNCHANGED pat
      BY <2>11, <3>1 DEF AccountPATQuota
    <3>2. CASE ~UNCHANGED pat
      <4>1. /\ pat' = [pat EXCEPT ![arg[r]].used = @ + 1]
            /\ outdated' = IF UpToDate(r) THEN outdated
                           ELSE [outdated EXCEPT ![arg[r]] = @ + 1]
            /\ UNCHANGED <<arg, context, upload, target>>
            /\ Goto(r, IF plan[r] = "createText" THEN "done" ELSE "temp")
            /\ plan[r] \in Write /\ pc[r] = "charge"
        BY <2>11, <3>2 DEF AccountPATQuota
      <4>2. /\ pat'[arg[r]].used = pat[arg[r]].used + 1
            /\ \A t \in Artefact :
                 /\ pat'[t].quota = pat[t].quota /\ pat'[t].state = pat[t].state
                 /\ t # arg[r] => pat'[t].used = pat[t].used
        BY <4>1
      <4>3. CopiesTrue' /\ OpenAdmitted' /\ ChargeAdmitted' /\ TokensMade'
        BY <4>1, <4>2
      <4>4. ASSUME NEW t \in Artefact, pat'[t].quota # 0
            PROVE  pat'[t].used <= pat'[t].quota + outdated'[t]
        <5>1. CASE t # arg[r]
          BY <4>1, <4>2, <4>4, <5>1
        <5>2. CASE t = arg[r] /\ UpToDate(r)
          <6>1. Admits(target[r]) /\ pat[t].quota = context[target[r]].quota
            BY <4>1, <5>2 DEF UpToDate
          <6> QED BY <4>1, <4>2, <4>4, <5>2, <6>1 DEF UpToDate
        <5>3. CASE t = arg[r] /\ ~UpToDate(r)
          BY <4>1, <4>2, <4>4, <5>3
        <5> QED BY <5>1, <5>2, <5>3
      <4> QED BY <4>3, <4>4
    <3> QED BY <3>1, <3>2
  <2>12. CASE DeleteTemp(r)
    BY <2>12 DEF DeleteTemp
  <2> QED BY <1>2, <2>1, <2>2, <2>3, <2>4, <2>5, <2>6, <2>7, <2>8, <2>9, <2>10,
         <2>11, <2>12 DEF QuotaStep
<1> QED BY <1>p, <1>1, <1>2

(* A token is overdrawn by no more than was charged on outdated copies.      *)
THEOREM QuotaOverdrawnByOutdated == Spec => []QuotaExplained
<1>1. Init => QuotaInv
  BY AuthAssumption, QuotasAssumption DEF Init, QuotaInv, CopiesTrue, OpenAdmitted,
     ChargeAdmitted, TokensMade, QuotaExplained, Copied, Admits, CheckPATQuota, Known,
     Bearer, Artefact, NoToken
<1>2. QuotaInv => QuotaExplained
  BY DEF QuotaInv
<1> QED BY AuthTypeCorrect, QuotaStays, <1>1, <1>2, PTL DEF Spec
-----------------------------------------------------------------------------
(* What requests are on their way to, and what they have been shown.         *)
Making == {"issue", "sso", "rotate"}
PathsInv ==
    \A r \in Request :
        /\ plan[r] = "reset" => pc[r] \in {"start", "password", "revokeAll", "unssoAll",
                                           "markReset", "done", "lost"}
        /\ plan[r] = "reset" => session[r] = "none"
        /\ r \in sso => plan[r] = "login" /\ pc[r] = "done"
        /\ pc[r] = "start" => arg[r] = Past /\ cred[r] = 0
        /\ plan[r] = "exchange" /\ pc[r] \in {"select", "mark", "issue"} => r \in bearer
VersionsInv ==
    /\ version \in Nat /\ cred \in [Artefact -> Nat]
    /\ \A a \in Artefact : cred[a] <= version
    /\ during \subseteq Request /\ bearer \subseteq Request /\ sso \subseteq Artefact

(* What goes back to a request that ran while a reset was revoking, or that  *)
(* was shown an access token or a code.                                      *)
Tainted(a) ==
    \A S \in SUBSET Artefact : a \in S /\ Closed(S) => S \cap (during \cup bearer) # {}

(* Once a reset has revoked the sessions, a session of an earlier password   *)
(* is tainted; once it has destroyed the SSO sessions, so is an SSO session; *)
(* and from its new password on, so is what is about to be issued.           *)
Resetting(r, states) == plan[r] = "reset" /\ r \notin failed /\ pc[r] \in states
SessionsEnd ==
    \A r \in Request, a \in Artefact :
        Resetting(r, {"unssoAll", "markReset", "done"}) /\ Live(a) /\ cred[a] < cred[r]
        => Tainted(a)
SignOnEnds ==
    \A r \in Request, a \in Artefact :
        Resetting(r, {"markReset", "done"}) /\ SignedOn(a) /\ cred[a] < cred[r]
        => Tainted(a)
MakersLate ==
    \A r, q \in Request :
        /\ Resetting(r, {"revokeAll", "unssoAll", "markReset", "done"})
        /\ pc[q] \in Making /\ cred[q] < cred[r]
        => Tainted(q)
ResetInv == SessionsEnd /\ SignOnEnds /\ MakersLate

(* The account and its activation tokens, as the request that works on them  *)
(* has brought them.                                                         *)
OnItsWay ==
    \A r \in Request :
        /\ pc[r] \in {"clean", "send"} => plan[r] \in {"register", "resend"}
        /\ plan[r] \in {"register", "resend"} =>
             pc[r] \in {"start", "create", "clean", "send", "done", "lost"}
        /\ plan[r] = "activate" => pc[r] \in {"start", "enable", "drop", "done", "lost"}
OneToken == activation = {} \/ \E t \in Artefact : activation = {t}
Settled == /\ OneToken
           /\ account = "pending" => activation # {} \/ expired # {}
           /\ account \notin NotActive => activation = {}
Progress(r) ==
    /\ pc[r] = "create" => Settled
    /\ pc[r] = "clean" => Settled /\ account \in NotActive
    /\ pc[r] = "send" => account \in NotActive /\ activation = {}
    /\ pc[r] = "enable" => account \in NotActive /\ activation = {arg[r]}
    /\ pc[r] = "drop" => /\ activation = {arg[r]}
                         /\ \/ account = "active"
                            \/ account \in NotActive /\ arg[r] \in expired
Single == \A r, q \in Request : Activating(r) /\ Activating(q) => r = q
Unspoiled == ~muddled /\ \A r \in Request : r \notin failed
ActivationInv ==
    Unspoiled => /\ Single
                 /\ \A r \in Request : Activating(r) => Progress(r)
                 /\ (\A r \in Request : ~Activating(r)) => Settled
(* Every step keeps requests on their ways.                                   *)
LEMMA PathsStay ==
    TypeOK /\ SessionInv /\ VersionsInv /\ PathsInv /\ [Next]_vars
    => PathsInv'
<1> SUFFICES ASSUME TypeOK, SessionInv, VersionsInv, PathsInv, [Next]_vars
             PROVE  PathsInv'
  OBVIOUS
<1>p. UNCHANGED plan
  BY DEF Next, vars
<1> USE <1>p, AuthAssumption DEF TypeOK, PathsInv, Artefact, At, Goto, tokenVars
<1>1. ASSUME NEW r \in Request, TokenStep(r) PROVE PathsInv'
  <2>1. CASE Refuse(r)
    BY <2>1 DEF Refuse
  <2>2. CASE Login(r)
    BY <2>2 DEF Login, VersionsInv
  <2>3. CASE TokenFromClientCredentials(r)
    BY <2>3 DEF TokenFromClientCredentials, VersionsInv
  <2>4. CASE IssueTokenPair(r)
    BY <2>4 DEF IssueTokenPair
  <2>5. CASE CreateSession(r)
    BY <2>5 DEF CreateSession
  <2>6. CASE PresentRefreshToken(r)
    BY <2>6 DEF PresentRefreshToken
  <2>7. CASE IsBlacklisted(r)
    BY <2>7 DEF IsBlacklisted
  <2>8. CASE GetSessionByJTI(r)
    BY <2>8 DEF GetSessionByJTI, VersionsInv
  <2>9. CASE RotateSession(r)
    BY <2>9 DEF RotateSession, SessionInv, Shown
  <2>10. CASE RevokeSessionByJTI(r)
    BY <2>10 DEF RevokeSessionByJTI, SessionInv, Shown
  <2>11. CASE AddToBlacklist(r)
    BY <2>11 DEF AddToBlacklist
  <2>12. CASE DestroySession(r)
    BY <2>12 DEF DestroySession
  <2>13. CASE Authorize(r)
    BY <2>13 DEF Authorize, VersionsInv
  <2>14. CASE SaveAuthCode(r)
    BY <2>14 DEF SaveAuthCode
  <2>15. CASE TokenFromCode(r)
    BY <2>15 DEF TokenFromCode
  <2>16. CASE SelectCode(r)
    BY <2>16 DEF SelectCode
  <2>17. CASE MarkUsed(r)
    BY <2>17 DEF MarkUsed, VersionsInv
  <2> QED BY <1>1, <2>1, <2>2, <2>3, <2>4, <2>5, <2>6, <2>7, <2>8, <2>9, <2>10,
       <2>11, <2>12, <2>13, <2>14, <2>15, <2>16, <2>17 DEF TokenStep
<1>2. ASSUME NEW r \in Request, AccountStep(r) PROVE PathsInv'
  <2>1. CASE FindUser(r)
    BY <2>1 DEF FindUser
  <2>2. CASE CreateUser(r)
    BY <2>2 DEF CreateUser
  <2>3. CASE DeleteActivationTokensByUserID(r)
    BY <2>3 DEF DeleteActivationTokensByUserID
  <2>4. CASE SendActivationEmail(r)
    BY <2>4 DEF SendActivationEmail
  <2>5. CASE Activate(r)
    BY <2>5 DEF Activate
  <2>6. CASE UpdateUserStatus(r)
    BY <2>6 DEF UpdateUserStatus
  <2>7. CASE DeleteActivationToken(r)
    BY <2>7 DEF DeleteActivationToken
  <2>8. CASE CreateResetCode(r)
    BY <2>8 DEF CreateResetCode
  <2>9. CASE ResetPassword(r)
    BY <2>9 DEF ResetPassword
  <2>10. CASE UpdateUserPassword(r)
    BY <2>10 DEF UpdateUserPassword, VersionsInv
  <2>11. CASE RevokeAllUserSessions(r)
    BY <2>11 DEF RevokeAllUserSessions, Live
  <2>12. CASE DestroyAllUserSessions(r)
    BY <2>12 DEF DestroyAllUserSessions
  <2>13. CASE MarkResetCodeUsed(r)
    BY <2>13 DEF MarkResetCodeUsed
  <2> QED BY <1>2, <2>1, <2>2, <2>3, <2>4, <2>5, <2>6, <2>7, <2>8, <2>9, <2>10,
       <2>11, <2>12, <2>13 DEF AccountStep
<1>3. ASSUME NEW r \in Request, PatStep(r) PROVE PathsInv'
  BY <1>3 DEF PatStep, CreateToken, CreateAPIToken, RevokeToken, RevokeAPIToken,
       Authenticate, GetUserByUsername, BeginUpload, Assemble, Reject,
       CreateTextFile, CreateFile, AccountPATQuota, DeleteTemp, GetUserByID,
       SetUserStatus, ResetUserPassword, Write
<1>4. CASE ExpireActivation
  BY <1>4 DEF ExpireActivation
<1>5. CASE Crash
  BY <1>5 DEF Crash, Running
<1>6. CASE UNCHANGED vars
  BY <1>6 DEF vars, accountVars, patVars
<1> QED BY <1>1, <1>2, <1>3, <1>4, <1>5, <1>6 DEF Next

(* What has happened has happened.                                           *)
Grows == /\ during \subseteq during' /\ bearer \subseteq bearer' /\ failed \subseteq failed'
         /\ \A r \in Request : arg'[r] = arg[r] \/ pc[r] = "start"

(* Every step keeps the versions, and what has happened has happened.         *)
LEMMA VersionsStay ==
    TypeOK /\ VersionsInv /\ [Next]_vars
    => VersionsInv' /\ Grows
<1> SUFFICES ASSUME TypeOK, VersionsInv, [Next]_vars
             PROVE  VersionsInv' /\ Grows
  OBVIOUS
<1>d. during' \subseteq Request /\ during \subseteq during'
  BY DEF Next, Observe, VersionsInv, vars
<1> USE <1>d, AuthAssumption DEF TypeOK, VersionsInv, Grows, Artefact, At, Goto, Fails, Works,
        tokenVars, faultVars
<1>1. ASSUME NEW r \in Request, TokenStep(r) PROVE VersionsInv' /\ Grows
  <2>1. CASE Refuse(r)
    BY <2>1 DEF Refuse
  <2>2. CASE Login(r)
    BY <2>2 DEF Login
  <2>3. CASE TokenFromClientCredentials(r)
    BY <2>3 DEF TokenFromClientCredentials
  <2>4. CASE IssueTokenPair(r)
    BY <2>4 DEF IssueTokenPair
  <2>5. CASE CreateSession(r)
    BY <2>5 DEF CreateSession
  <2>6. CASE PresentRefreshToken(r)
    BY <2>6 DEF PresentRefreshToken
  <2>7. CASE IsBlacklisted(r)
    BY <2>7 DEF IsBlacklisted
  <2>8. CASE GetSessionByJTI(r)
    BY <2>8 DEF GetSessionByJTI
  <2>9. CASE RotateSession(r)
    BY <2>9 DEF RotateSession
  <2>10. CASE RevokeSessionByJTI(r)
    BY <2>10 DEF RevokeSessionByJTI
  <2>11. CASE AddToBlacklist(r)
    BY <2>11 DEF AddToBlacklist
  <2>12. CASE DestroySession(r)
    BY <2>12 DEF DestroySession
  <2>13. CASE Authorize(r)
    BY <2>13 DEF Authorize
  <2>14. CASE SaveAuthCode(r)
    BY <2>14 DEF SaveAuthCode
  <2>15. CASE TokenFromCode(r)
    BY <2>15 DEF TokenFromCode
  <2>16. CASE SelectCode(r)
    BY <2>16 DEF SelectCode
  <2>17. CASE MarkUsed(r)
    BY <2>17 DEF MarkUsed
  <2> QED BY <1>1, <2>1, <2>2, <2>3, <2>4, <2>5, <2>6, <2>7, <2>8, <2>9, <2>10,
       <2>11, <2>12, <2>13, <2>14, <2>15, <2>16, <2>17 DEF TokenStep
<1>2. ASSUME NEW r \in Request, AccountStep(r) PROVE VersionsInv' /\ Grows
  <2>1. CASE FindUser(r)
    BY <2>1 DEF FindUser
  <2>2. CASE CreateUser(r)
    BY <2>2 DEF CreateUser
  <2>3. CASE DeleteActivationTokensByUserID(r)
    BY <2>3 DEF DeleteActivationTokensByUserID
  <2>4. CASE SendActivationEmail(r)
    BY <2>4 DEF SendActivationEmail
  <2>5. CASE Activate(r)
    BY <2>5 DEF Activate
  <2>6. CASE UpdateUserStatus(r)
    BY <2>6 DEF UpdateUserStatus
  <2>7. CASE DeleteActivationToken(r)
    BY <2>7 DEF DeleteActivationToken
  <2>8. CASE CreateResetCode(r)
    BY <2>8 DEF CreateResetCode
  <2>9. CASE ResetPassword(r)
    BY <2>9 DEF ResetPassword
  <2>10. CASE UpdateUserPassword(r)
    BY <2>10 DEF UpdateUserPassword
  <2>11. CASE RevokeAllUserSessions(r)
    BY <2>11 DEF RevokeAllUserSessions
  <2>12. CASE DestroyAllUserSessions(r)
    BY <2>12 DEF DestroyAllUserSessions
  <2>13. CASE MarkResetCodeUsed(r)
    BY <2>13 DEF MarkResetCodeUsed
  <2> QED BY <1>2, <2>1, <2>2, <2>3, <2>4, <2>5, <2>6, <2>7, <2>8, <2>9, <2>10,
       <2>11, <2>12, <2>13 DEF AccountStep
<1>3. ASSUME NEW r \in Request, PatStep(r) PROVE VersionsInv' /\ Grows
  BY <1>3 DEF PatStep, CreateToken, CreateAPIToken, RevokeToken, RevokeAPIToken,
       Authenticate, GetUserByUsername, BeginUpload, Assemble, Reject,
       CreateTextFile, CreateFile, AccountPATQuota, DeleteTemp, GetUserByID,
       SetUserStatus, ResetUserPassword, Write
<1>4. CASE ExpireActivation
  BY <1>4 DEF ExpireActivation
<1>5. CASE Crash
  BY <1>5 DEF Crash, Running
<1>6. CASE UNCHANGED vars
  BY <1>6 DEF vars, accountVars, patVars
<1> QED BY <1>1, <1>2, <1>3, <1>4, <1>5, <1>6 DEF Next

(* What is tainted stays so: a request is shown something only at its start, *)
(* when it cannot have tainted anything but itself.                          *)
LEMMA TaintStays ==
  ASSUME PathsInv, VersionsInv, Grows, UNCHANGED plan, NEW a \in Artefact, Tainted(a)
  PROVE  Tainted(a)'
<1> SUFFICES ASSUME NEW S \in SUBSET Artefact, a \in S, Closed(S)'
             PROVE  S \cap (during' \cup bearer') # {}
  BY DEF Tainted
<1>1. Closed(S \cup {Past})
  <2> SUFFICES ASSUME NEW r \in S \cap Request,
                      plan[r] \in {"refresh", "authorize", "exchange"},
                      arg[r] # Past
               PROVE  arg[r] \in S
    BY AuthAssumption DEF Closed
  <2>1. arg'[r] = arg[r]
    BY DEF Grows, PathsInv
  <2> QED BY <2>1 DEF Closed
<1>2. (S \cup {Past}) \cap (during \cup bearer) # {}
  BY <1>1 DEF Tainted, Artefact
<1> QED BY <1>2, AuthAssumption DEF Grows, VersionsInv

(* Who was shown something tainted is tainted, and so is who ran while a     *)
(* reset was revoking, and who showed an access token or a code.             *)
LEMMA TaintPasses ==
  ASSUME NEW r \in Request, plan[r] \in {"refresh", "authorize", "exchange"},
         Tainted(arg[r])
  PROVE  Tainted(r)
BY DEF Tainted, Closed

LEMMA TaintStarts ==
  ASSUME NEW r \in Request, r \in during \cup bearer
  PROVE  Tainted(r)
BY DEF Tainted

(* While a reset is revoking, whoever is about to issue something is noted.  *)
LEMMA MakersNoted ==
  ASSUME Observe, NEW r \in Request, pc'[r] \in {"revokeAll", "unssoAll"},
         NEW q \in Request, pc'[q] \in Making
  PROVE  Tainted(q)'
<1>1. q \in during'
  BY DEF Observe, Running, Making
<1> QED BY <1>1 DEF Tainted

(* A step that issues nothing, and brings no reset past its revocations.     *)
IssuesNothing ==
    /\ UNCHANGED cred /\ sso' \subseteq sso
    /\ \A a \in Artefact : Live(a)' => Live(a)
    /\ \A q \in Request : pc'[q] \in Making => pc[q] \in Making
    /\ \A r \in Request :
         /\ plan[r] = "reset" /\ pc'[r] \in {"revokeAll", "unssoAll", "markReset", "done"}
         /\ r \notin failed'
         => \/ pc'[r] = pc[r] \/ cred[r] = 0
            \/ pc[r] = "markReset" /\ pc'[r] = "done"

LEMMA NothingIssued ==
  ASSUME PathsInv, VersionsInv, ResetInv, Grows, UNCHANGED plan, IssuesNothing
  PROVE  ResetInv'
<1> USE DEF IssuesNothing
<1>r. Request \subseteq Artefact
  BY DEF Artefact
<1>0. \A r \in Request, a \in Artefact : ~(cred[a] < 0)
  BY DEF VersionsInv
<1>1. \A a \in Artefact : Tainted(a) => Tainted(a)'
  BY TaintStays
<1>2. \A r \in Request : r \notin failed' => r \notin failed
  BY DEF Grows
<1>3. SessionsEnd'
  BY <1>0, <1>1, <1>2 DEF ResetInv, SessionsEnd, Resetting
<1>4. SignOnEnds'
  BY <1>0, <1>1, <1>2 DEF ResetInv, SignOnEnds, Resetting, SignedOn
<1>5. MakersLate'
  BY <1>r, <1>0, <1>1, <1>2 DEF ResetInv, MakersLate, Resetting
<1> QED BY <1>3, <1>4, <1>5 DEF ResetInv

IssueStep(r) ==
    \/ Login(r) \/ TokenFromClientCredentials(r) \/ IssueTokenPair(r) \/ CreateSession(r)
    \/ GetSessionByJTI(r) \/ RotateSession(r) \/ Authorize(r) \/ MarkUsed(r)
    \/ UpdateUserPassword(r) \/ RevokeAllUserSessions(r) \/ DestroyAllUserSessions(r)

(* Every step is one of those, or issues nothing.                             *)
LEMMA StepsIssueNothing ==
    TypeOK /\ SessionInv /\ PathsInv /\ [Next]_vars
    => IssuesNothing \/ \E r \in Request : Observe /\ IssueStep(r)
<1> SUFFICES ASSUME TypeOK, SessionInv, PathsInv, [Next]_vars
             PROVE  IssuesNothing \/ \E r \in Request : Observe /\ IssueStep(r)
  OBVIOUS
<1>p. UNCHANGED plan
  BY DEF Next, vars
<1> USE <1>p, AuthAssumption DEF TypeOK, PathsInv, IssuesNothing, Making, Artefact, At, Goto,
        Live, tokenVars
<1>1. ASSUME NEW r \in Request, TokenStep(r) PROVE IssuesNothing \/ IssueStep(r)
  <2>1. CASE Refuse(r)
    BY <2>1 DEF Refuse
  <2>2. CASE PresentRefreshToken(r)
    BY <2>2 DEF PresentRefreshToken
  <2>3. CASE IsBlacklisted(r)
    BY <2>3 DEF IsBlacklisted
  <2>4. CASE RevokeSessionByJTI(r)
    BY <2>4 DEF RevokeSessionByJTI, SessionInv, Shown
  <2>5. CASE AddToBlacklist(r)
    BY <2>5 DEF AddToBlacklist
  <2>6. CASE DestroySession(r)
    BY <2>6 DEF DestroySession
  <2>7. CASE SaveAuthCode(r)
    BY <2>7 DEF SaveAuthCode
  <2>8. CASE TokenFromCode(r)
    BY <2>8 DEF TokenFromCode
  <2>9. CASE SelectCode(r)
    BY <2>9 DEF SelectCode
  <2> QED BY <1>1, <2>1, <2>2, <2>3, <2>4, <2>5, <2>6, <2>7, <2>8, <2>9
         DEF TokenStep, IssueStep
<1>2. ASSUME NEW r \in Request, AccountStep(r) PROVE IssuesNothing \/ IssueStep(r)
  <2>1. CASE FindUser(r)
    BY <2>1 DEF FindUser
  <2>2. CASE CreateUser(r)
    BY <2>2 DEF CreateUser
  <2>3. CASE DeleteActivationTokensByUserID(r)
    BY <2>3 DEF DeleteActivationTokensByUserID
  <2>4. CASE SendActivationEmail(r)
    BY <2>4 DEF SendActivationEmail
  <2>5. CASE Activate(r)
    BY <2>5 DEF Activate
  <2>6. CASE UpdateUserStatus(r)
    BY <2>6 DEF UpdateUserStatus
  <2>7. CASE DeleteActivationToken(r)
    BY <2>7 DEF DeleteActivationToken
  <2>8. CASE CreateResetCode(r)
    BY <2>8 DEF CreateResetCode
  <2>9. CASE ResetPassword(r)
    BY <2>9 DEF ResetPassword
  <2>10. CASE MarkResetCodeUsed(r)
    BY <2>10 DEF MarkResetCodeUsed
  <2> QED BY <1>2, <2>1, <2>2, <2>3, <2>4, <2>5, <2>6, <2>7, <2>8, <2>9, <2>10
         DEF AccountStep, IssueStep
<1>3. ASSUME NEW r \in Request, PatStep(r) PROVE IssuesNothing \/ IssueStep(r)
  BY <1>3 DEF PatStep, CreateToken, CreateAPIToken, RevokeToken, RevokeAPIToken,
       Authenticate, GetUserByUsername, BeginUpload, Assemble, Reject,
       CreateTextFile, CreateFile, AccountPATQuota, DeleteTemp, GetUserByID,
       SetUserStatus, ResetUserPassword, Write
<1>4. CASE ExpireActivation
  BY <1>4 DEF ExpireActivation
<1>5. CASE Crash
  BY <1>5 DEF Crash, Running
<1>6. CASE UNCHANGED vars
  BY <1>6 DEF vars, accountVars, patVars
<1> QED BY <1>1, <1>2, <1>3, <1>4, <1>5, <1>6 DEF Next

(* Every step keeps what a reset has achieved.                               *)
LEMMA ResetStays ==
    TypeOK /\ SessionInv /\ PathsInv /\ VersionsInv /\ ResetInv /\ [Next]_vars => ResetInv'
<1> SUFFICES ASSUME TypeOK, SessionInv, PathsInv, VersionsInv, ResetInv, [Next]_vars
             PROVE  ResetInv'
  OBVIOUS
<1>p. UNCHANGED plan
  BY DEF Next, vars
<1>g. PathsInv' /\ VersionsInv' /\ Grows
  BY PathsStay, VersionsStay
<1>1. CASE IssuesNothing
  BY <1>p, <1>g, <1>1, NothingIssued
<1>2. ASSUME NEW r \in Request, Observe, IssueStep(r) PROVE ResetInv'
  <2> USE <1>p, <1>g DEF TypeOK, ResetInv, Goto, At, tokenVars
  <2>a. r \in Artefact /\ Request \subseteq Artefact
    BY DEF Artefact
  <2>t. \A a \in Artefact : Tainted(a) => Tainted(a)'
    BY TaintStays
  <2>f. \A p \in Request : p \notin failed' => p \notin failed
    BY DEF Grows
  <2>n. ASSUME NEW p \in Request, pc'[p] \in {"revokeAll", "unssoAll"},
               NEW q \in Request, pc'[q] \in Making
        PROVE  Tainted(q)'
    BY <1>2, <2>n, MakersNoted
  <2>d. plan[r] \in {"refresh", "authorize", "exchange"} /\ Tainted(arg[r])' => Tainted(r)'
    BY DEF Tainted, Closed
  <2>b. r \in bearer' => Tainted(r)'
    BY DEF Tainted
  <2>v. cred \in [Artefact -> Nat] /\ version \in Nat /\ \A a \in Artefact : cred[a] <= version
    BY DEF VersionsInv
  <2>1. CASE Login(r) \/ TokenFromClientCredentials(r)
    <3>1. /\ plan[r] # "reset" /\ pc[r] = "start" /\ cred' = [cred EXCEPT ![r] = version]
          /\ UNCHANGED <<session, sso>> /\ pc' = [pc EXCEPT ![r] = "issue"]
      BY <2>1 DEF Login, TokenFromClientCredentials
    <3>2. session[r] = "none" /\ r \notin sso
      BY <3>1 DEF SessionInv, Unissued, PathsInv
    <3>3. SessionsEnd'
      BY <2>t, <2>f, <3>1, <3>2 DEF SessionsEnd, Resetting, Live
    <3>4. SignOnEnds'
      BY <2>t, <2>f, <3>1, <3>2 DEF SignOnEnds, Resetting, SignedOn
    <3>5. ASSUME NEW p \in Request,
                 Resetting(p, {"revokeAll", "unssoAll", "markReset", "done"})',
                 NEW q \in Request, pc'[q] \in Making, cred'[q] < cred'[p]
          PROVE  Tainted(q)'
      <4>1. Resetting(p, {"revokeAll", "unssoAll", "markReset", "done"}) /\ p # r
        BY <2>f, <3>1, <3>5 DEF Resetting
      <4>2. cred'[p] = cred[p] /\ cred[p] <= version
        BY <2>a, <2>v, <3>1, <4>1
      <4>3. q # r
        BY <2>a, <2>v, <3>1, <3>5, <4>2
      <4>4. Tainted(q)
        BY <2>a, <3>1, <3>5, <4>1, <4>2, <4>3 DEF MakersLate
      <4> QED BY <2>a, <2>t, <4>4
    <3>6. MakersLate'
      BY <3>5 DEF MakersLate
    <3> QED BY <3>3, <3>4, <3>6
  <2>2. CASE IssueTokenPair(r)
    <3>1. /\ UNCHANGED <<sso, cred>> /\ pc[r] = "issue"
          /\ pc'[r] \in Making \cup {"code", "done"}
          /\ \A p \in Request \ {r} : pc'[p] = pc[p]
          /\ \A a \in Artefact \ {r} : session'[a] = session[a]
      BY <2>2 DEF IssueTokenPair, Making
    <3>2. plan[r] # "reset"
      BY <3>1 DEF PathsInv
    <3>3. SessionsEnd'
      BY <2>t, <2>f, <3>1, <3>2 DEF SessionsEnd, MakersLate, Making, Resetting, Live
    <3>4. SignOnEnds'
      BY <2>t, <2>f, <3>1, <3>2 DEF SignOnEnds, Resetting, SignedOn
    <3>5. MakersLate'
      BY <2>a, <2>t, <2>f, <3>1, <3>2 DEF MakersLate, Making, Resetting
    <3> QED BY <3>3, <3>4, <3>5
  <2>3. CASE CreateSession(r)
    <3>1. /\ UNCHANGED <<session, cred>> /\ pc[r] = "sso" /\ plan[r] = "login"
          /\ pc' = [pc EXCEPT ![r] = "done"] /\ sso' \subseteq sso \cup {r}
      BY <2>3 DEF CreateSession
    <3>2. SessionsEnd'
      BY <2>t, <2>f, <3>1 DEF SessionsEnd, Resetting, Live
    <3>3. SignOnEnds'
      BY <2>t, <2>f, <3>1 DEF SignOnEnds, MakersLate, Making, Resetting, SignedOn
    <3>4. MakersLate'
      BY <2>a, <2>t, <2>f, <3>1 DEF MakersLate, Making, Resetting
    <3> QED BY <3>2, <3>3, <3>4
  <2>4. CASE GetSessionByJTI(r)
    <3>1. /\ UNCHANGED <<session, sso, arg>> /\ pc[r] = "session" /\ plan[r] = "refresh"
          /\ cred' = [cred EXCEPT ![r] = cred[arg[r]]]
          /\ pc' = [pc EXCEPT ![r] = IF Live(arg[r]) THEN "rotate" ELSE "done"]
      BY <2>4 DEF GetSessionByJTI
    <3>2. session[r] = "none" /\ r \notin sso
      BY <3>1 DEF SessionInv, Unissued, PathsInv
    <3>3. SessionsEnd'
      BY <2>t, <2>f, <3>1, <3>2 DEF SessionsEnd, Resetting, Live
    <3>4. SignOnEnds'
      BY <2>t, <2>f, <3>1, <3>2 DEF SignOnEnds, Resetting, SignedOn
    <3>5. ASSUME NEW p \in Request, Resetting(p, {"markReset", "done"})', pc'[r] \in Making,
                 cred'[r] < cred'[p]
          PROVE  Tainted(r)'
      <4>1. Resetting(p, {"unssoAll", "markReset", "done"}) /\ p # r /\ cred'[p] = cred[p]
        BY <2>f, <3>1, <3>5 DEF Resetting
      <4>2. Live(arg[r]) /\ cred[arg[r]] < cred[p] /\ arg[r] \in Artefact
        BY <2>a, <2>v, <3>1, <3>5, <4>1 DEF Making
      <4>3. Tainted(arg[r])
        BY <4>1, <4>2 DEF SessionsEnd
      <4> QED BY <2>d, <2>t, <3>1, <4>2, <4>3
    <3>6. MakersLate'
      BY <2>a, <2>t, <2>f, <2>n, <3>1, <3>5 DEF MakersLate, Resetting
    <3> QED BY <3>3, <3>4, <3>6
  <2>5. CASE RotateSession(r)
    <3>1. /\ UNCHANGED <<sso, cred>> /\ pc[r] = "rotate" /\ plan[r] = "refresh"
          /\ pc'[r] \in {"ban", "done"} /\ \A p \in Request \ {r} : pc'[p] = pc[p]
          /\ \A a \in Artefact \ {r} : Live(a)' => Live(a)
      BY <2>5 DEF RotateSession, Live
    <3>2. SessionsEnd'
      BY <2>t, <2>f, <3>1 DEF SessionsEnd, MakersLate, Making, Resetting
    <3>3. SignOnEnds'
      BY <2>t, <2>f, <3>1 DEF SignOnEnds, Resetting, SignedOn
    <3>4. MakersLate'
      BY <2>a, <2>t, <2>f, <3>1 DEF MakersLate, Making, Resetting
    <3> QED BY <3>2, <3>3, <3>4
  <2>6. CASE Authorize(r)
    <3>1. /\ UNCHANGED <<session, sso>> /\ pc[r] = "start" /\ plan[r] = "authorize"
      BY <2>6 DEF Authorize
    <3>2. PICK a \in Artefact :
            /\ arg' = [arg EXCEPT ![r] = a] /\ cred' = [cred EXCEPT ![r] = cred[a]]
            /\ \/ pc' = [pc EXCEPT ![r] = "code"]
               \/ SignedOn(a) /\ pc' = [pc EXCEPT ![r] = "issue"]
      BY <2>6 DEF Authorize
    <3>3. session[r] = "none" /\ r \notin sso
      BY <3>1 DEF SessionInv, Unissued, PathsInv
    <3>4. SessionsEnd'
      BY <2>t, <2>f, <3>1, <3>2, <3>3 DEF SessionsEnd, Resetting, Live
    <3>5. SignOnEnds'
      BY <2>t, <2>f, <3>1, <3>2, <3>3 DEF SignOnEnds, Resetting, SignedOn
    <3>6. ASSUME NEW p \in Request, Resetting(p, {"markReset", "done"})', pc'[r] \in Making,
                 cred'[r] < cred'[p]
          PROVE  Tainted(r)'
      <4>1. Resetting(p, {"markReset", "done"}) /\ p # r /\ cred'[p] = cred[p]
        BY <2>f, <3>1, <3>2, <3>6 DEF Resetting
      <4>2. SignedOn(a) /\ cred[a] < cred[p] /\ arg'[r] = a
        BY <2>a, <2>v, <3>1, <3>2, <3>6, <4>1 DEF Making
      <4>3. Tainted(a)'
        BY <2>t, <4>1, <4>2 DEF SignOnEnds
      <4>4. Tainted(arg[r])'
        BY <4>2, <4>3
      <4> QED BY <2>d, <3>1, <4>4
    <3>7. MakersLate'
      BY <2>a, <2>t, <2>f, <2>n, <3>1, <3>2, <3>6 DEF MakersLate, Resetting
    <3> QED BY <3>4, <3>5, <3>7
  <2>7. CASE MarkUsed(r)
    <3>1. /\ UNCHANGED <<session, sso>> /\ pc[r] = "mark" /\ plan[r] = "exchange"
          /\ cred' = [cred EXCEPT ![r] = cred[arg[r]]]
          /\ \A p \in Request \ {r} : pc'[p] = pc[p]
          /\ r \in bearer'
      BY <2>7 DEF MarkUsed, PathsInv
    <3>2. session[r] = "none" /\ r \notin sso
      BY <3>1 DEF SessionInv, Unissued, PathsInv
    <3>3. SessionsEnd'
      BY <2>t, <2>f, <3>1, <3>2 DEF SessionsEnd, Resetting, Live
    <3>4. SignOnEnds'
      BY <2>t, <2>f, <3>1, <3>2 DEF SignOnEnds, Resetting, SignedOn
    <3>5. MakersLate'
      BY <2>a, <2>b, <2>t, <2>f, <3>1 DEF MakersLate, Resetting
    <3> QED BY <3>3, <3>4, <3>5
  <2>8. CASE UpdateUserPassword(r)
    <3>1. /\ UNCHANGED <<session, sso>> /\ pc[r] = "password" /\ plan[r] = "reset"
          /\ pc'[r] = "revokeAll" \/ r \in failed'
          /\ pc'[r] \in {"revokeAll", "done"}
          /\ \A p \in Request \ {r} : pc'[p] = pc[p]
          /\ \A a \in Artefact \ {r} : cred'[a] = cred[a]
      BY <2>a, <2>8 DEF UpdateUserPassword, Fails, VersionsInv
    <3>2. session[r] = "none" /\ r \notin sso
      BY <3>1 DEF PathsInv
    <3>3. SessionsEnd'
      BY <2>a, <2>t, <2>f, <3>1, <3>2 DEF SessionsEnd, Resetting, Live
    <3>4. SignOnEnds'
      BY <2>a, <2>t, <2>f, <3>1, <3>2 DEF SignOnEnds, Resetting, SignedOn
    <3>5. MakersLate'
      BY <2>a, <2>t, <2>f, <2>n, <3>1 DEF MakersLate, Making, Resetting
    <3> QED BY <3>3, <3>4, <3>5
  <2>9. CASE RevokeAllUserSessions(r)
    <3>1. /\ UNCHANGED <<sso, cred>> /\ plan[r] = "reset"
          /\ pc' = [pc EXCEPT ![r] = "unssoAll"]
          /\ (\A a \in Artefact : ~Live(a)') \/ (r \in failed' /\ UNCHANGED session)
      BY <2>9 DEF RevokeAllUserSessions, Fails, Live
    <3>2. SessionsEnd'
      BY <2>t, <2>f, <3>1 DEF SessionsEnd, Resetting, Live
    <3>3. SignOnEnds'
      BY <2>t, <2>f, <3>1 DEF SignOnEnds, Resetting, SignedOn
    <3>4. MakersLate'
      BY <2>a, <2>t, <2>f, <2>n, <3>1 DEF MakersLate, Making, Resetting
    <3> QED BY <3>2, <3>3, <3>4
  <2>10. CASE DestroyAllUserSessions(r)
    <3>1. /\ UNCHANGED <<session, cred>> /\ plan[r] = "reset" /\ pc[r] = "unssoAll"
          /\ pc' = [pc EXCEPT ![r] = "markReset"]
          /\ sso' = {} \/ (r \in failed' /\ UNCHANGED sso)
      BY <2>10 DEF DestroyAllUserSessions, Fails
    <3>2. SessionsEnd'
      BY <2>t, <2>f, <3>1 DEF SessionsEnd, Resetting, Live
    <3>3. SignOnEnds'
      BY <2>t, <2>f, <3>1 DEF SignOnEnds, Resetting, SignedOn
    <3>4. MakersLate'
      BY <2>a, <2>t, <2>f, <3>1 DEF MakersLate, Making, Resetting
    <3> QED BY <3>2, <3>3, <3>4
  <2> QED BY <1>2, <2>1, <2>2, <2>3, <2>4, <2>5, <2>6, <2>7, <2>8, <2>9, <2>10
         DEF IssueStep
<1> QED BY <1>1, <1>2, StepsIssueNothing

(* What an artefact goes back to is closed under what requests were shown.   *)
LEMMA LineageClosed ==
  ASSUME TypeOK, NEW a \in Artefact
  PROVE  Lineage(a) \in SUBSET Artefact /\ a \in Lineage(a) /\ Closed(Lineage(a))
<1>1. ASSUME NEW r \in Lineage(a) \cap Request,
             plan[r] \in {"refresh", "authorize", "exchange"}
      PROVE  arg[r] \in Lineage(a)
  <2>1. arg[r] \in Artefact
    BY DEF TypeOK
  <2>2. ASSUME NEW S \in SUBSET Artefact, a \in S, Closed(S) PROVE arg[r] \in S
    BY <1>1, <2>2 DEF Lineage, Closed
  <2> QED BY <2>1, <2>2 DEF Lineage
<1> QED BY <1>1 DEF Lineage, Closed

(* When a reset by mail has ended without an error, no session and no SSO    *)
(* session of an earlier password is usable, but those that go back to a     *)
(* request that ran while a reset was revoking, or to an access token or a   *)
(* code: whatever logins, rotations and other resets interleave with it.     *)
THEOREM ResetEndsOldSessions == Spec => []ResetRevokes
<1>1. Init => SessionInv /\ PathsInv /\ VersionsInv /\ ResetInv
  <2> SUFFICES ASSUME Init PROVE SessionInv /\ PathsInv /\ VersionsInv /\ ResetInv
    OBVIOUS
  <2> USE AuthAssumption DEF Init, Artefact
  <2>1. PathsInv
    BY DEF PathsInv
  <2>2. VersionsInv
    BY DEF VersionsInv
  <2>3. ResetInv
    BY DEF ResetInv, SessionsEnd, SignOnEnds, MakersLate, Resetting
  <2>4. SessionInv
    BY DEF SessionInv, Unissued, Unsaved, Shown
  <2> QED BY <2>1, <2>2, <2>3, <2>4
<1>2. TypeOK /\ SessionInv /\ PathsInv /\ VersionsInv /\ ResetInv /\ [Next]_vars
      => SessionInv' /\ PathsInv' /\ VersionsInv' /\ ResetInv'
  BY SessionStays, PathsStay, VersionsStay, ResetStays
<1>3. TypeOK /\ ResetInv => ResetRevokes
  <2> SUFFICES ASSUME TypeOK, ResetInv, NEW a \in Artefact, NEW r \in Request,
                      plan[r] = "reset", pc[r] = "done", r \notin failed,
                      Live(a) \/ SignedOn(a), cred[a] < cred[r]
               PROVE  Lineage(a) \cap (during \cup bearer) # {}
    BY DEF ResetRevokes
  <2>1. Tainted(a)
    BY DEF ResetInv, SessionsEnd, SignOnEnds, Resetting
  <2> QED BY <2>1, LineageClosed DEF Tainted
<1> QED BY AuthTypeCorrect, <1>1, <1>2, <1>3, PTL DEF Spec
-----------------------------------------------------------------------------
(* Every step keeps who works on an activation on its way.                    *)
LEMMA WaysStay ==
    TypeOK /\ OnItsWay /\ [Next]_vars
    => OnItsWay'
<1> SUFFICES ASSUME TypeOK, OnItsWay, [Next]_vars
             PROVE  OnItsWay'
  OBVIOUS
<1>p. UNCHANGED plan
  BY DEF Next, vars
<1> USE <1>p DEF TypeOK, OnItsWay, At, Goto
<1>1. ASSUME NEW r \in Request, TokenStep(r) PROVE OnItsWay'
  BY <1>1 DEF TokenStep, Refuse, Login, TokenFromClientCredentials, IssueTokenPair,
       CreateSession, PresentRefreshToken, IsBlacklisted, GetSessionByJTI,
       RotateSession, RevokeSessionByJTI, AddToBlacklist, DestroySession,
       Authorize, SaveAuthCode, TokenFromCode, SelectCode, MarkUsed
<1>2. ASSUME NEW r \in Request, AccountStep(r) PROVE OnItsWay'
  <2>1. CASE FindUser(r)
    BY <2>1 DEF FindUser
  <2>2. CASE CreateUser(r)
    BY <2>2 DEF CreateUser
  <2>3. CASE DeleteActivationTokensByUserID(r)
    BY <2>3 DEF DeleteActivationTokensByUserID
  <2>4. CASE SendActivationEmail(r)
    BY <2>4 DEF SendActivationEmail
  <2>5. CASE Activate(r)
    BY <2>5 DEF Activate
  <2>6. CASE UpdateUserStatus(r)
    BY <2>6 DEF UpdateUserStatus
  <2>7. CASE DeleteActivationToken(r)
    BY <2>7 DEF DeleteActivationToken
  <2>8. CASE CreateResetCode(r)
    BY <2>8 DEF CreateResetCode
  <2>9. CASE ResetPassword(r)
    BY <2>9 DEF ResetPassword
  <2>10. CASE UpdateUserPassword(r)
    BY <2>10 DEF UpdateUserPassword
  <2>11. CASE RevokeAllUserSessions(r)
    BY <2>11 DEF RevokeAllUserSessions
  <2>12. CASE DestroyAllUserSessions(r)
    BY <2>12 DEF DestroyAllUserSessions
  <2>13. CASE MarkResetCodeUsed(r)
    BY <2>13 DEF MarkResetCodeUsed
  <2> QED BY <1>2, <2>1, <2>2, <2>3, <2>4, <2>5, <2>6, <2>7, <2>8, <2>9, <2>10,
       <2>11, <2>12, <2>13 DEF AccountStep
<1>3. ASSUME NEW r \in Request, PatStep(r) PROVE OnItsWay'
  BY <1>3 DEF PatStep, CreateToken, CreateAPIToken, RevokeToken, RevokeAPIToken,
       Authenticate, GetUserByUsername, BeginUpload, Assemble, Reject,
       CreateTextFile, CreateFile, AccountPATQuota, DeleteTemp, GetUserByID,
       SetUserStatus, ResetUserPassword, Write
<1>4. CASE ExpireActivation
  BY <1>4 DEF ExpireActivation
<1>5. CASE Crash
  BY <1>5 DEF Crash, Running
<1>6. CASE UNCHANGED vars
  BY <1>6 DEF vars, accountVars, patVars
<1> QED BY <1>1, <1>2, <1>3, <1>4, <1>5, <1>6 DEF Next

(* A step that works on no activation, and the steps that do.                *)
Inactive ==
    /\ UNCHANGED account /\ expired \subseteq expired'
    /\ \/ UNCHANGED activation
       \/ /\ activation' = activation \ expired
          /\ \A q \in Request : ~Activating(q)
    /\ \A q \in Request :
         /\ Activating(q)' <=> Activating(q)
         /\ Activating(q) => pc'[q] = pc[q] /\ arg'[q] = arg[q]
ActivationStep(r) ==
    \/ FindUser(r) \/ CreateUser(r) \/ DeleteActivationTokensByUserID(r)
    \/ SendActivationEmail(r) \/ Activate(r) \/ UpdateUserStatus(r)
    \/ DeleteActivationToken(r)

(* Every step is one of those, or works on no activation, or spoils it.       *)
LEMMA StepsInactive ==
    TypeOK /\ OnItsWay /\ [Next]_vars /\ Unspoiled'
    => Inactive \/ \E r \in Request : Observe /\ ActivationStep(r)
<1> SUFFICES ASSUME TypeOK, OnItsWay, [Next]_vars, Unspoiled'
             PROVE  Inactive \/ \E r \in Request : Observe /\ ActivationStep(r)
  OBVIOUS
<1>p. UNCHANGED plan
  BY DEF Next, vars
<1> USE <1>p DEF TypeOK, OnItsWay, Inactive, Activating, Running, At, Goto, tokenVars
<1>1. ASSUME NEW r \in Request, TokenStep(r), UNCHANGED <<activation, expired>>
      PROVE  Inactive \/ ActivationStep(r)
  <2> USE <1>1
  <2>1. CASE Refuse(r)
    BY <2>1 DEF Refuse
  <2>2. CASE Login(r)
    BY <2>2 DEF Login
  <2>3. CASE TokenFromClientCredentials(r)
    BY <2>3 DEF TokenFromClientCredentials
  <2>4. CASE IssueTokenPair(r)
    BY <2>4 DEF IssueTokenPair
  <2>5. CASE CreateSession(r)
    BY <2>5 DEF CreateSession
  <2>6. CASE PresentRefreshToken(r)
    BY <2>6 DEF PresentRefreshToken
  <2>7. CASE IsBlacklisted(r)
    BY <2>7 DEF IsBlacklisted
  <2>8. CASE GetSessionByJTI(r)
    BY <2>8 DEF GetSessionByJTI
  <2>9. CASE RotateSession(r)
    BY <2>9 DEF RotateSession
  <2>10. CASE RevokeSessionByJTI(r)
    BY <2>10 DEF RevokeSessionByJTI
  <2>11. CASE AddToBlacklist(r)
    BY <2>11 DEF AddToBlacklist
  <2>12. CASE DestroySession(r)
    BY <2>12 DEF DestroySession
  <2>13. CASE Authorize(r)
    BY <2>13 DEF Authorize
  <2>14. CASE SaveAuthCode(r)
    BY <2>14 DEF SaveAuthCode
  <2>15. CASE TokenFromCode(r)
    BY <2>15 DEF TokenFromCode
  <2>16. CASE SelectCode(r)
    BY <2>16 DEF SelectCode
  <2>17. CASE MarkUsed(r)
    BY <2>17 DEF MarkUsed
  <2> QED BY <1>1, <2>1, <2>2, <2>3, <2>4, <2>5, <2>6, <2>7, <2>8, <2>9, <2>10,
       <2>11, <2>12, <2>13, <2>14, <2>15, <2>16, <2>17 DEF TokenStep
<1>2. ASSUME NEW r \in Request, AccountStep(r) PROVE Inactive \/ ActivationStep(r)
  <2>1. CASE CreateResetCode(r)
    BY <2>1 DEF CreateResetCode
  <2>2. CASE ResetPassword(r)
    BY <2>2 DEF ResetPassword
  <2>3. CASE UpdateUserPassword(r)
    BY <2>3 DEF UpdateUserPassword
  <2>4. CASE RevokeAllUserSessions(r)
    BY <2>4 DEF RevokeAllUserSessions
  <2>5. CASE DestroyAllUserSessions(r)
    BY <2>5 DEF DestroyAllUserSessions
  <2>6. CASE MarkResetCodeUsed(r)
    BY <2>6 DEF MarkResetCodeUsed
  <2> QED BY <1>2, <2>1, <2>2, <2>3, <2>4, <2>5, <2>6 DEF AccountStep,
         ActivationStep
<1>3. ASSUME NEW r \in Request, PatStep(r), Observe PROVE Inactive \/ ActivationStep(r)
  <2>1. CASE SetUserStatus(r)
    BY <1>3, <2>1 DEF SetUserStatus, Observe, Unspoiled
  <2>2. CASE ~SetUserStatus(r)
    BY <1>3, <2>2 DEF PatStep, CreateToken, CreateAPIToken, RevokeToken,
       RevokeAPIToken, Authenticate, GetUserByUsername, BeginUpload, Assemble,
       Reject, CreateTextFile, CreateFile, AccountPATQuota, DeleteTemp,
       GetUserByID, ResetUserPassword, Write
  <2> QED BY <2>1, <2>2
<1>4. CASE ExpireActivation
  BY <1>4 DEF ExpireActivation
<1>5. CASE Crash
  <2>1. \A q \in Request : ~Running(q)
    BY <1>5 DEF Crash, Unspoiled
  <2>2. UNCHANGED <<pc, arg, account, expired>>
    BY <1>5, <2>1 DEF Crash
  <2>3. activation' \in {activation, activation \ expired}
    BY <1>5 DEF Crash
  <2> QED BY <2>1, <2>2, <2>3
<1>6. CASE UNCHANGED vars
  BY <1>6 DEF vars, accountVars, patVars
<1> QED BY <1>1, <1>2, <1>3, <1>4, <1>5, <1>6 DEF Next

(* Every step brings the activation on as the request that works on it does, *)
(* unless something fails or two requests work on it at once.                *)
LEMMA ActivationStays ==
    TypeOK /\ OnItsWay /\ VersionsInv /\ ActivationInv /\ [Next]_vars => ActivationInv'
<1> SUFFICES ASSUME TypeOK, OnItsWay, VersionsInv, ActivationInv, [Next]_vars, Unspoiled'
             PROVE  /\ Single'
                    /\ \A q \in Request : Activating(q)' => Progress(q)'
                    /\ (\A q \in Request : ~Activating(q)') => Settled'
  BY DEF ActivationInv
<1>p. UNCHANGED plan
  BY DEF Next, vars
<1>u. Unspoiled
  <2>1. \A q \in Request : q \notin failed
    BY VersionsStay DEF Grows, Unspoiled
  <2>2. ~muddled
    BY DEF Next, Observe, Unspoiled, vars, accountVars
  <2> QED BY <2>1, <2>2 DEF Unspoiled
<1>1. CASE Inactive
  <2>1. Single'
    BY <1>u, <1>1 DEF ActivationInv, Inactive, Single
  <2>2. ASSUME NEW q \in Request, Activating(q)' PROVE Progress(q)'
    <3>1. Progress(q) /\ pc'[q] = pc[q] /\ arg'[q] = arg[q]
      BY <1>u, <1>1, <2>2 DEF ActivationInv, Inactive
    <3>2. UNCHANGED activation
      BY <1>1, <2>2 DEF Inactive
    <3>3. Settled => Settled'
      BY <1>1, <3>2 DEF Inactive, Settled, OneToken
    <3> QED BY <1>1, <3>1, <3>2, <3>3 DEF Inactive, Progress
  <2>3. (\A q \in Request : ~Activating(q)') => Settled'
    BY <1>u, <1>1 DEF ActivationInv, Inactive, Settled, OneToken
  <2> QED BY <2>1, <2>2, <2>3
<1>2. ASSUME NEW r \in Request, Observe, ActivationStep(r)
      PROVE  /\ Single'
             /\ \A q \in Request : Activating(q)' => Progress(q)'
             /\ (\A q \in Request : ~Activating(q)') => Settled'
  <2>s. Single'
    BY <1>2 DEF Observe, Unspoiled, Single
  <2>c. /\ Single /\ \A q \in Request : Activating(q) => Progress(q)
        /\ (\A q \in Request : ~Activating(q)) => Settled
    BY <1>u DEF ActivationInv
  <2>f. r \notin failed'
    BY DEF Unspoiled
  <2>o. \A q \in Request \ {r} : /\ Activating(q)' <=> Activating(q)
                                 /\ pc'[q] = pc[q] /\ arg'[q] = arg[q]
    BY <1>p, <1>2 DEF ActivationStep, FindUser, CreateUser, DeleteActivationTokensByUserID,
       SendActivationEmail, Activate, UpdateUserStatus, DeleteActivationToken, At, Goto,
       Activating, Running, TypeOK, tokenVars
  (* nobody else works on it, if this request does *)
  <2>n. ASSUME Activating(r) \/ Activating(r)', NEW q \in Request \ {r}
        PROVE  ~Activating(q) /\ ~Activating(q)'
    BY <2>c, <2>s, <2>o, <2>n DEF Single
  <2>g. ASSUME Activating(r)', Progress(r)'
        PROVE  /\ \A q \in Request : Activating(q)' => Progress(q)'
               /\ (\A q \in Request : ~Activating(q)') => Settled'
    BY <2>n, <2>g
  <2>h. ASSUME Activating(r), ~Activating(r)', Settled'
        PROVE  /\ \A q \in Request : Activating(q)' => Progress(q)'
               /\ (\A q \in Request : ~Activating(q)') => Settled'
    BY <2>n, <2>h
  <2>z. Activating(r)' /\ ~Activating(r) => Settled
    BY <2>c, <2>n
  <2> USE <1>p DEF TypeOK, At, Goto, Works, Fails, Running, tokenVars
  <2>1. CASE FindUser(r)
    <3>1. UNCHANGED <<account, activation, expired, arg>> /\ ~Activating(r)
      BY <2>1 DEF FindUser, Activating
    <3>2. Settled' = Settled
      BY <3>1 DEF Settled, OneToken
    <3>3. CASE Activating(r)'
      <4>1. pc'[r] = "create" \/ (pc'[r] = "clean" /\ account \in NotActive)
        BY <2>1, <3>3 DEF FindUser, Activating
      <4>2. Progress(r)'
        BY <2>z, <3>1, <3>2, <3>3, <4>1 DEF Progress
      <4> QED BY <2>s, <2>g, <3>3, <4>2
    <3>4. CASE ~Activating(r)'
      <4>1. \A q \in Request : Activating(q)' <=> Activating(q)
        BY <2>o, <3>1, <3>4
      <4>2. ASSUME NEW q \in Request, Activating(q)' PROVE Progress(q)'
        <5>1. q # r /\ Progress(q)
          BY <2>c, <3>4, <4>1, <4>2
        <5> QED BY <2>o, <3>1, <3>2, <5>1 DEF Progress
      <4> QED BY <2>c, <2>s, <3>2, <4>1, <4>2
    <3> QED BY <3>3, <3>4
  <2>2. CASE CreateUser(r)
    <3>1. /\ Activating(r) /\ pc[r] = "create" /\ UNCHANGED <<activation, expired>>
          /\ \/ account = "none" /\ account' = "pending" /\ pc'[r] = "send"
             \/ UNCHANGED account /\ pc'[r] = "done"
      BY <2>2 DEF CreateUser, Activating
    <3>2. Settled
      BY <2>c, <3>1 DEF Progress
    <3>3. CASE pc'[r] = "send"
      <4>1. Activating(r)'
        BY <3>1, <3>3 DEF Activating
      <4>2. Progress(r)'
        BY <3>1, <3>2, <3>3 DEF Progress, Settled, NotActive
      <4> QED BY <2>s, <2>g, <4>1, <4>2
    <3>4. CASE pc'[r] = "done"
      <4>1. ~Activating(r)' /\ Settled'
        BY <3>1, <3>2, <3>4 DEF Activating, Settled, OneToken
      <4> QED BY <2>s, <2>h, <3>1, <4>1
    <3> QED BY <3>1, <3>3, <3>4
  <2>3. CASE DeleteActivationTokensByUserID(r)
    <3>1. /\ pc[r] = "clean" /\ pc'[r] = "send" /\ Activating(r) /\ Activating(r)'
          /\ account' = account /\ activation' = {}
      BY <2>f, <2>3 DEF DeleteActivationTokensByUserID, OnItsWay, Activating
    <3>2. Progress(r)'
      BY <2>c, <3>1 DEF Progress
    <3> QED BY <2>s, <2>g, <3>1, <3>2
  <2>4. CASE SendActivationEmail(r)
    <3>1. /\ pc[r] = "send" /\ pc'[r] = "done" /\ Activating(r) /\ ~Activating(r)'
          /\ account' = account /\ activation' = activation \cup {r}
      BY <2>f, <2>4 DEF SendActivationEmail, OnItsWay, Activating
    <3>2. account \in NotActive /\ activation' = {r}
      BY <2>c, <3>1 DEF Progress
    <3>3. Settled'
      BY <3>1, <3>2 DEF Settled, OneToken, Artefact
    <3> QED BY <2>s, <2>h, <3>1, <3>3
  <2>5. CASE Activate(r)
    <3>1. PICK t \in activation :
            /\ arg' = [arg EXCEPT ![r] = t]
            /\ pc' = [pc EXCEPT ![r] = IF t \in expired THEN "drop" ELSE "enable"]
      BY <2>5 DEF Activate
    <3>2. /\ Activating(r)' /\ ~Activating(r) /\ UNCHANGED <<account, activation, expired>>
      BY <2>5, <3>1 DEF Activate, Activating
    <3>3. account \in NotActive /\ activation = {t}
      BY <2>z, <3>1, <3>2 DEF Settled, OneToken
    <3>4. Progress(r)'
      BY <3>1, <3>2, <3>3 DEF Progress
    <3> QED BY <2>s, <2>g, <3>2, <3>4
  <2>6. CASE UpdateUserStatus(r)
    <3>1. /\ pc[r] = "enable" /\ pc'[r] = "drop" /\ Activating(r) /\ Activating(r)'
          /\ account' = "active" /\ UNCHANGED <<activation, arg>>
      BY <2>f, <2>6 DEF UpdateUserStatus, Activating
    <3>2. Progress(r)'
      BY <2>c, <3>1 DEF Progress
    <3> QED BY <2>s, <2>g, <3>1, <3>2
  <2>7. CASE DeleteActivationToken(r)
    <3>1. /\ pc[r] = "drop" /\ pc'[r] = "done" /\ Activating(r) /\ ~Activating(r)'
          /\ UNCHANGED <<account, expired>> /\ activation' = activation \ {arg[r]}
      BY <2>f, <2>7 DEF DeleteActivationToken, Activating
    <3>2. /\ activation' = {}
          /\ account = "active" \/ expired # {}
      BY <2>c, <3>1 DEF Progress
    <3>3. Settled'
      BY <3>1, <3>2 DEF Settled, OneToken
    <3> QED BY <2>s, <2>h, <3>1, <3>3
  <2> QED BY <1>2, <2>1, <2>2, <2>3, <2>4, <2>5, <2>6, <2>7 DEF ActivationStep
<1> QED BY <1>1, <1>2, StepsInactive

(* While nobody works on the activation, a pending account has one token, or *)
(* lost it out of date, a disabled one has at most one and any other none;   *)
(* only a failure, an administrator or requests that overlap can leave it    *)
(* otherwise.                                                                *)
THEOREM ActivationTokensMatch == Spec => []ActivationExplained
<1>1. Init => OnItsWay /\ VersionsInv /\ ActivationInv
  <2> SUFFICES ASSUME Init PROVE OnItsWay /\ VersionsInv /\ ActivationInv
    OBVIOUS
  <2> USE AuthAssumption DEF Init, Artefact
  <2>1. OnItsWay
    BY DEF OnItsWay
  <2>2. VersionsInv
    BY DEF VersionsInv
  <2>3. ActivationInv
    <3>1. \A r \in Request : ~Activating(r)
      BY DEF Activating, Running
    <3>2. Settled
      <4>1. CASE account = "disabled"
        BY <4>1 DEF Settled, OneToken, NotActive
      <4>2. CASE account # "disabled"
        <5>1. activation = IF account = "pending" THEN {Past} ELSE {}
          BY <4>2
        <5> QED BY <4>2, <5>1 DEF Settled, OneToken, NotActive
      <4> QED BY <4>1, <4>2
    <3> QED BY <3>1, <3>2 DEF ActivationInv, Single
  <2> QED BY <2>1, <2>2, <2>3
<1>2. TypeOK /\ OnItsWay /\ VersionsInv /\ ActivationInv /\ [Next]_vars
      => OnItsWay' /\ VersionsInv' /\ ActivationInv'
  BY WaysStay, VersionsStay, ActivationStays
<1>3. ActivationInv => ActivationExplained
  <2>1. OneToken => Cardinality(activation) <= 1
    <3>1. CASE activation = {}
      <4>1. Cardinality({}) = 0
        BY FS_EmptySet
      <4> QED BY <3>1, <4>1
    <3>2. ASSUME NEW t \in Artefact, activation = {t} PROVE Cardinality(activation) = 1
      <4>1. Cardinality({t}) = 1
        BY FS_Singleton
      <4> QED BY <3>2, <4>1
    <3> QED BY <3>1, <3>2 DEF OneToken
  <2> QED BY <2>1 DEF ActivationInv, ActivationExplained, Unspoiled, Settled, NotActive
<1> QED BY AuthTypeCorrect, <1>1, <1>2, <1>3, PTL DEF Spec
=============================================================================
