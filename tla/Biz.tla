-------------------------------- MODULE Biz ---------------------------------
(* The business service: orders, refunds, service orders, tickets, resources *)
(* and roles over one database (internal/biz); and the workbench service,   *)
(* which has a database of its own.  The requests of a plan go to one of    *)
(* them, and the crash is of that one.                                      *)
EXTENDS BizOrders, BizServices, BizResources, Workbench

vars == <<plan, requestVars, rowVars, roles, history, faults, orderVars,
          serviceVars, resourceVars, accessHistory, workbenchVars>>

ASSUME PlansAssumption ==
    \A p \in Plans : {p[r].kind : r \in Request} \subseteq Kind
                   \/ {p[r].kind : r \in Request} \subseteq WorkbenchKind

(* The tables of the business service are empty apart from what seedRBAC      *)
(* puts in them, those of the workbench are empty.                          *)
Init ==
    /\ plan \in Plans
    /\ pc = [r \in Request |-> "start"]
    /\ of = [r \in Request |-> None]
    /\ target = [r \in Request |-> "absent"]
    /\ seen = [r \in Request |-> "none"]
    /\ status = [r \in Request |-> "absent"]
    /\ trail = [r \in Request |-> <<>>]
    /\ roles = SeedRBAC([u \in User |-> {}])
    /\ mixed = {} /\ torn = {} /\ freed = {} /\ rushed = {} /\ faults = 0
    /\ stats = [r \in Request |-> [total |-> 0, paid |-> 0]]
    /\ accepted = {} /\ evaluated = {} /\ replies = [r \in Request |-> 0]
    /\ policy = [r \in Request |-> "open"]
    /\ listed = [r \in Request |-> {}]
    /\ logged = [r \in Request |-> 0] /\ downloads = [r \in Request |-> 0]
    /\ links = {} /\ entitled = {} /\ revised = {} /\ relisted = {}
    /\ boot = IF \E r \in Request : Is(r, WorkbenchKind) THEN "count" ELSE "off"
    /\ shown = {} /\ items = <<>>
    /\ at = [r \in Request |-> 0] /\ read = [r \in Request |-> FALSE]
    /\ unseeded = FALSE /\ muddled = {}

Shared(r) == Admit(r) \/ AssignRole(r) \/ UnassignRole(r) \/ Fail(r)

BizStep(r) ==
    \/ Shared(r) /\ UNCHANGED <<orderVars, serviceVars, resourceVars>>
    \/ OrderStep(r) /\ UNCHANGED <<serviceVars, resourceVars>>
    \/ ServiceStep(r) /\ UNCHANGED <<orderVars, resourceVars>>
    \/ ResourceStep(r) /\ UNCHANGED <<orderVars, serviceVars>>

bizVars == <<of, target, seen, rowVars, roles, history, faults, orderVars,
             serviceVars, resourceVars>>

Next ==
    /\ \/ (\E r \in Request : BizStep(r)) /\ UNCHANGED workbenchVars
       \/ (\E r \in Request : WorkbenchStep(r)) /\ UNCHANGED bizVars
       \/ (CountOverview \/ SeedIfEmpty) /\ UNCHANGED <<pc, bizVars>>
       \/ Crash /\ Restart /\ UNCHANGED <<orderVars, serviceVars, resourceVars>>
    /\ UNCHANGED plan
    /\ Observe

Spec == Init /\ [][Next]_vars
-----------------------------------------------------------------------------
(* The recorded transitions of a row lead, one to the next, to the status it *)
(* has, unless two of its transitions overlapped (each wrote over the other's *)
(* status), or the record of one was not inserted: its statement failed, or  *)
(* a crash came before it.                                                  *)
Chained(t) == \A i \in 1..(Len(t) - 1) : t[i + 1].from \in {t[i].to, "unread"}
TrailFaithful ==
    \A x \in Rows("orders") \cup Rows("services") \cup Rows("tickets") :
        InFlight(x) = {} /\ x \notin mixed \cup torn =>
            /\ Chained(trail[x])
            /\ trail[x] # <<>> => Last(trail[x]).to = status[x]

(* An order has two refunds waiting for an audit only if two requests for    *)
(* them overlapped, or something moved the order out of refunding, or a      *)
(* crash or a failing statement kept it from getting there: CreateRefund    *)
(* ignores what UpdateOrderStatus returns.                                  *)
RefundsExplained ==
    \A f, g \in Rows("refunds") :
        /\ f # g /\ of[f] = of[g]
        /\ status[f] = "pending" /\ status[g] = "pending"
        => of[f] \in rushed \cup freed

(* A download link is given to a user who was allowed the resource at some    *)
(* instant of the request, or both the row and the whitelist changed during  *)
(* it: the two are read by two queries.                                     *)
AccessExplained == \A r \in links : r \in entitled \/ r \in revised \cap relisted

(* What a to-do or a notification shows (store.go ToggleTodo and             *)
(* ToggleNotificationRead) is the number of its toggles, odd or even, unless *)
(* two of them overlapped and one was lost.                                 *)
TogglesExplained ==
    \A i \in DOMAIN items \ muddled : items[i].flag <=> items[i].toggles % 2 = 1

(* Two rows of one list have the same place in it (the pos they are ordered  *)
(* by) only if the service once started without the demonstration rows, for *)
(* those come with fixed places whenever they come.                         *)
PlacesExplained ==
    \A i, j \in DOMAIN items :
        /\ i # j /\ items[i].live /\ items[j].live
        /\ <<items[i].table, items[i].owner, items[i].pos>>
            = <<items[j].table, items[j].owner, items[j].pos>>
        => unseeded
=============================================================================
