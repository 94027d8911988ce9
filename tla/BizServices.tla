---------------------------- MODULE BizServices -----------------------------
(* Service orders and support tickets (internal/biz/service.go, ticket.go,  *)
(* handler_service.go, handler_ticket.go).                                  *)
EXTENDS BizRequests

VARIABLES accepted,   \* service orders with an acceptance record
          evaluated,  \* tickets with an evaluation
          replies     \* how many replies each ticket has, notes apart

serviceVars == <<accepted, evaluated, replies>>

ServiceStatus == {"WAIT_CONFIRM", "WAIT_ASSIGN", "DELIVERING", "WAIT_ACCEPT",
                  "COMPLETED", "CANCELLED"}
TicketStatus == {"pending", "handling", "waiting", "resolved", "closed"}

(* A customer's service order needs a paid order; staff need none.          *)
CheckServiceOrder(r) ==
    /\ At(r, "createServiceOrder", "admitted")
    /\ Goto(r, IF \/ plan[r].user \in Staff
                  \/ status[of[r]] \in {"paid", "delivering", "delivered",
                                        "completed"}
               THEN "insert" ELSE "done")
    /\ UNCHANGED <<of, target, seen, rowVars, roles, history, faults,
                   serviceVars>>

CreateServiceOrder(r) ==
    /\ At(r, "createServiceOrder", "insert")
    /\ \E s \in Targets \cap ServiceStatus : status' = [status EXCEPT ![r] = s]
    /\ Goto(r, "done")
    /\ UNCHANGED <<of, target, seen, trail, roles, history, faults, serviceVars>>

AssignServiceOwner(r) ==
    /\ Is(r, {"assignService"})
    /\ Assign(r, "DELIVERING")
    /\ UNCHANGED serviceVars

PostServiceStatus(r) ==
    /\ At(r, "serviceStatus", "admitted")
    /\ \E s \in Targets \cap ServiceStatus : Aim(r, s)
    /\ UNCHANGED <<of, seen, rowVars, roles, history, faults, serviceVars>>

SubmitAcceptance(r) ==
    /\ At(r, "acceptService", "admitted")
    /\ accepted' = accepted \cup {of[r]}
    /\ \E to \in {"COMPLETED", "WAIT_ACCEPT"} : Aim(r, to)
    /\ UNCHANGED <<of, seen, rowVars, roles, history, faults, evaluated, replies>>

UpdateServiceOrderStatus(r) ==
    /\ Is(r, {"assignService", "serviceStatus", "acceptService"})
    /\ \/ ReadStatus(r, status[of[r]] = target[r])
       \/ WriteStatus(r)
       \/ LogStatus(r)
    /\ UNCHANGED serviceVars
-----------------------------------------------------------------------------
CreateTicket(r) ==
    /\ At(r, "createTicket", "admitted")
    /\ \E s \in Targets \cap TicketStatus : status' = [status EXCEPT ![r] = s]
    /\ Goto(r, "done")
    /\ UNCHANGED <<of, target, seen, trail, roles, history, faults, serviceVars>>

(* An internal reply asks for a permission the customer has not.            *)
AddTicketReply(r) ==
    /\ At(r, "replyTicket", "admitted")
    /\ \E internal \in BOOLEAN :
          replies' = IF internal /\ ~HasPermission(plan[r].user, "ticket:write")
                     THEN replies
                     ELSE [replies EXCEPT ![of[r]] = @ + 1]
    /\ Goto(r, "done")
    /\ UNCHANGED <<of, target, seen, rowVars, roles, history, faults, accepted,
                   evaluated>>

AssignTicket(r) ==
    /\ Is(r, {"assignTicket"})
    /\ Assign(r, "handling")
    /\ UNCHANGED serviceVars

PostTicketStatus(r) ==
    /\ At(r, "ticketStatus", "admitted")
    /\ \E s \in Targets \cap TicketStatus : Aim(r, s)
    /\ UNCHANGED <<of, seen, rowVars, roles, history, faults, serviceVars>>

(* An evaluation replaces an earlier one and closes the ticket.             *)
AddTicketEvaluation(r) ==
    /\ At(r, "evaluateTicket", "admitted")
    /\ evaluated' = evaluated \cup {of[r]}
    /\ Aim(r, "closed")
    /\ UNCHANGED <<of, seen, rowVars, roles, history, faults, accepted, replies>>

UpdateTicketStatus(r) ==
    /\ Is(r, {"assignTicket", "ticketStatus", "evaluateTicket"})
    /\ \/ ReadStatus(r, status[of[r]] = target[r])
       \/ WriteStatus(r)
       \/ LogStatus(r)
    /\ UNCHANGED serviceVars

ServiceStep(r) ==
    \/ CheckServiceOrder(r) \/ CreateServiceOrder(r) \/ AssignServiceOwner(r)
    \/ PostServiceStatus(r) \/ SubmitAcceptance(r) \/ UpdateServiceOrderStatus(r)
    \/ CreateTicket(r) \/ AddTicketReply(r) \/ AssignTicket(r)
    \/ PostTicketStatus(r) \/ AddTicketEvaluation(r) \/ UpdateTicketStatus(r)
=============================================================================
