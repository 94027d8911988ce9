---------------------------- MODULE BizRequests -----------------------------
(***************************************************************************)
(* Requests to the business service (internal/biz): who may make them      *)
(* (rbac.go, handler.go), the rows they act on, and the way every status   *)
(* in the service is changed.                                              *)
(*                                                                         *)
(* The service has one SQLite connection and no transactions (store.go), so *)
(* each statement is one step and requests interleave between statements.  *)
(* A row is named by the request that inserts it.                          *)
(***************************************************************************)
EXTENDS Naturals, Sequences, FiniteSets, SequencesExt

CONSTANTS Request,  \* the requests of one behaviour
          User,     \* the users, Admin among them
          Admin,    \* the user seedRBAC makes a super administrator
          Staff,    \* the users whose access token carries a staff role
          Plans,    \* the mixes of endpoints and users to look at
          Targets,  \* the statuses clients write (bounds the free text)
          Codes,    \* the role codes requests name
          MaxFaults, \* how many statements fail and processes die (bound)
          None      \* no row

Role == {"super_admin", "admin", "operator", "staff", "customer", "guest"}

(* For each kind of request, the table of the row it names, if any.         *)
SubjectTable ==
    [createOrder |-> "none", payOrder |-> "orders", putOrder |-> "orders",
     requestRefund |-> "orders", auditRefund |-> "refunds",
     orderStats |-> "none",
     createServiceOrder |-> "orders", assignService |-> "services",
     serviceStatus |-> "services", acceptService |-> "services",
     createTicket |-> "none", replyTicket |-> "tickets",
     assignTicket |-> "tickets", ticketStatus |-> "tickets",
     evaluateTicket |-> "tickets",
     createResource |-> "none", updateResource |-> "resources",
     reviewResource |-> "resources", deleteResource |-> "resources",
     whitelist |-> "resources", accessResource |-> "resources",
     assignRole |-> "none", unassignRole |-> "none"]
Kind == DOMAIN SubjectTable

(* The table a kind of request inserts into.                                *)
TableOf(k) == CASE k = "createOrder" -> "orders"
                [] k = "requestRefund" -> "refunds"
                [] k = "createServiceOrder" -> "services"
                [] k = "createTicket" -> "tickets"
                [] k = "createResource" -> "resources"
                [] OTHER -> "none"

ASSUME RequestsAssumption ==
    /\ Admin \in User /\ Staff \subseteq User
    /\ None \notin Request
    /\ Codes \subseteq Role
    /\ MaxFaults \in Nat
    /\ \A plan \in Plans : plan \in [Request -> [kind : STRING, user : User]]

VARIABLES
    plan,     \* the endpoint and the user of each request
    pc,       \* where each request is
    of,       \* the row it acts on
    target,   \* the status it writes
    seen,     \* the status it has read
    status,   \* the status column of each row, "absent" without one
    trail,    \* the recorded transitions of each row, oldest first
    roles,    \* biz_user_roles
    \* history
    mixed,    \* rows two of whose transitions overlapped
    torn,     \* rows with a transition that could not be recorded
    freed,    \* orders that have left "refunding", or could not reach it
    faults    \* statements that failed, and crashes

requestVars == <<pc, of, target, seen>>
history == <<mixed, torn, freed>>

Rows(t) == {x \in Request : TableOf(plan[x].kind) = t /\ status[x] # "absent"}
Running(r) == pc[r] \notin {"start", "done", "lost"}
At(r, k, s) == plan[r].kind = k /\ pc[r] = s
Goto(r, s) == pc' = [pc EXCEPT ![r] = s]
Is(r, ks) == plan[r].kind \in ks
-----------------------------------------------------------------------------
(* The permissions of a role that some endpoint below asks for.             *)
Granted(role) ==
    CASE role \in {"super_admin", "admin"} ->
            {"order:read", "order:write", "order:refund", "ticket:write",
             "ticket:assign", "resource:write", "admin:role"}
      [] role = "operator" ->
            {"order:read", "order:write", "ticket:write", "ticket:assign"}
      [] role = "staff" -> {"ticket:write"}
      [] role = "customer" -> {"order:read"}
      [] OTHER -> {}

HasPermission(u, p) == \E role \in roles[u] : p \in Granted(role)

(* What the route and the handler ask of the user, before the handler       *)
(* looks at the status of row x.                                            *)
Permitted(r, x) ==
    LET u == plan[r].user
        owner == x # None /\ plan[x].user = u
    IN  CASE Is(r, {"payOrder"}) -> owner \/ HasPermission(u, "order:write")
          [] Is(r, {"putOrder"}) -> HasPermission(u, "order:write")
          [] Is(r, {"auditRefund"}) -> HasPermission(u, "order:refund")
          [] Is(r, {"orderStats"}) -> HasPermission(u, "order:read")
          [] Is(r, {"createServiceOrder"}) ->
                IF u \in Staff THEN HasPermission(u, "order:read") ELSE owner
          [] Is(r, {"assignTicket"}) ->
                (u \in Staff \/ owner) /\ HasPermission(u, "ticket:assign")
          [] Is(r, {"ticketStatus"}) ->
                (u \in Staff \/ owner) /\ HasPermission(u, "ticket:write")
          [] Is(r, {"assignService", "serviceStatus", "reviewResource"}) ->
                u \in Staff
          [] Is(r, {"requestRefund", "acceptService", "replyTicket",
                    "evaluateTicket", "updateResource", "deleteResource"}) ->
                u \in Staff \/ owner
          [] Is(r, {"whitelist"}) -> owner \/ HasPermission(u, "resource:write")
          [] Is(r, {"assignRole", "unassignRole"}) ->
                HasPermission(u, "admin:role")
          [] OTHER -> TRUE  \* requireAuth: any user

(* A request names a row; it is refused without one or without permission.  *)
Admit(r) ==
    /\ pc[r] = "start" /\ Is(r, Kind)
    /\ LET t == SubjectTable[plan[r].kind]
       IN  \E x \in IF t = "none" THEN {None} ELSE Rows(t) :
             /\ of' = [of EXCEPT ![r] = x]
             /\ Goto(r, IF Permitted(r, x) THEN "admitted" ELSE "done")
    /\ UNCHANGED <<target, seen, status, trail, roles, history, faults>>

rowVars == <<status, trail>>

AssignRole(r) ==
    /\ At(r, "assignRole", "admitted")
    /\ \E u \in User, role \in Codes :
          roles' = [roles EXCEPT ![u] = @ \cup {role}]
    /\ Goto(r, "done")
    /\ UNCHANGED <<of, target, seen, rowVars, history, faults>>

UnassignRole(r) ==
    /\ At(r, "unassignRole", "admitted")
    /\ \E u \in User, role \in Codes :
          roles' = [roles EXCEPT ![u] = @ \ {role}]
    /\ Goto(r, "done")
    /\ UNCHANGED <<of, target, seen, rowVars, history, faults>>
-----------------------------------------------------------------------------
(* A status is changed in up to three statements: it is read, it is written  *)
(* without looking at it again, and the transition is recorded.             *)

InFlight(x) == {r \in Request : of[r] = x /\ pc[r] \in {"write", "log"}}
Enter(x) == mixed' = IF InFlight(x) = {} THEN mixed ELSE mixed \cup {x}

ReadStatus(r, nothingToDo) ==
    /\ pc[r] = "read"
    /\ seen' = [seen EXCEPT ![r] = status[of[r]]]
    /\ IF nothingToDo
       THEN Goto(r, "done") /\ UNCHANGED mixed
       ELSE Goto(r, "write") /\ Enter(of[r])
    /\ UNCHANGED <<of, target, rowVars, roles, torn, freed, faults>>

WriteStatus(r) ==
    /\ pc[r] = "write"
    /\ status' = [status EXCEPT ![of[r]] = target[r]]
    /\ freed' = IF status[of[r]] = "refunding" THEN freed \cup {of[r]}
                ELSE freed
    /\ Goto(r, "log")
    /\ UNCHANGED <<of, target, seen, trail, roles, mixed, torn, faults>>

LogStatus(r) ==
    /\ pc[r] = "log"
    /\ trail' = [trail EXCEPT
                   ![of[r]] = Append(@, [from |-> seen[r], to |-> target[r]])]
    /\ Goto(r, "done")
    /\ UNCHANGED <<of, target, seen, status, roles, history, faults>>

(* Mutant of Assign: nothing is recorded.                                   *)
AssignUnlogged(r, to) ==
    /\ pc[r] = "admitted"
    /\ status' = [status EXCEPT ![of[r]] = to]
    /\ Goto(r, "done")
    /\ UNCHANGED <<of, target, seen, trail, roles, history, faults>>

(* Assigning somebody writes the status without reading it; the record does  *)
(* not say what it was.                                                     *)
Assign(r, to) ==
    /\ pc[r] = "admitted"
    /\ status' = [status EXCEPT ![of[r]] = to]
    /\ target' = [target EXCEPT ![r] = to]
    /\ seen' = [seen EXCEPT ![r] = "unread"]
    /\ Enter(of[r])
    /\ Goto(r, "log")
    /\ UNCHANGED <<of, trail, roles, torn, freed, faults>>

(* A statement fails and the request ends there: the handler answers the     *)
(* error (UpdateOrderStatus, a first INSERT) or ignores it and has nothing   *)
(* left to do (the log of a new order, a milestone, the order of a refund).  *)
Fail(r) ==
    /\ Is(r, Kind) /\ pc[r] \in {"admitted", "insert", "read", "write", "log", "paid",
                                 "count", "record", "tally"}
    /\ faults < MaxFaults
    /\ faults' = faults + 1
    /\ Goto(r, "done")
    /\ torn' = IF pc[r] = "log" THEN torn \cup {of[r]} ELSE torn
    /\ freed' = IF Is(r, {"requestRefund"}) /\ pc[r] \in {"read", "write"}
                THEN freed \cup {of[r]} ELSE freed
    /\ UNCHANGED <<of, target, seen, rowVars, roles, mixed>>

(* The handler knows the status to write and goes on to read the row.       *)
Aim(r, to) ==
    /\ target' = [target EXCEPT ![r] = to]
    /\ Goto(r, "read")

(* NewStore binds Admin to super_admin every time the service starts.       *)
SeedRBAC(rs) == [rs EXCEPT ![Admin] = @ \cup {"super_admin"}]

(* The process dies, and with it every request; the database remains.       *)
Crash ==
    /\ faults < MaxFaults
    /\ faults' = faults + 1
    /\ pc' = [r \in Request |-> IF Running(r) THEN "lost" ELSE pc[r]]
    /\ torn' = torn \cup {of[r] : r \in {q \in Request : pc[q] = "log"}}
    /\ freed' = freed \cup
                {of[r] : r \in {q \in Request : /\ Is(q, {"requestRefund"})
                                                /\ pc[q] \in {"read", "write"}}}
    /\ roles' = SeedRBAC(roles)
    /\ UNCHANGED <<of, target, seen, rowVars, mixed>>
=============================================================================
