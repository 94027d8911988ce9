------------------------------- MODULE MCBiz --------------------------------
(* Model values for Biz: four requests, all to one area of the service.     *)
EXTENDS Biz

CONSTANTS q1, q2, q3, q4, admin, customer

RequestSeq == <<q1, q2, q3, q4>>
Requests4 == Range(RequestSeq)
Users2 == {admin, customer}
Staff1 == {admin}

Areas ==
    {<<<<"createOrder", customer>>, <<"payOrder", customer>>,
       <<"requestRefund", customer>>, <<"putOrder", admin>>,
       <<"auditRefund", admin>>, <<"orderStats", admin>>>>,
     <<<<"createOrder", customer>>, <<"createServiceOrder", customer>>,
       <<"acceptService", customer>>, <<"assignService", admin>>,
       <<"serviceStatus", admin>>>>,
     <<<<"createTicket", customer>>, <<"replyTicket", customer>>,
       <<"evaluateTicket", customer>>, <<"assignTicket", admin>>,
       <<"ticketStatus", admin>>>>,
     <<<<"createResource", admin>>, <<"accessResource", customer>>,
       <<"updateResource", admin>>, <<"reviewResource", admin>>,
       <<"deleteResource", admin>>, <<"whitelist", admin>>>>,
     <<<<"assignRole", customer>>, <<"assignRole", admin>>,
       <<"unassignRole", admin>>, <<"unassignRole", customer>>>>,
     <<<<"createTodo", admin>>, <<"createTodo", admin>>, <<"toggleTodo", admin>>,
       <<"createTodo", customer>>, <<"toggleNotification", admin>>>>,
     <<<<"createProject", admin>>, <<"createProject", admin>>,
       <<"updateProject", admin>>, <<"deleteProject", admin>>>>}

(* Requests differ only by their endpoint and user: one plan stands for all  *)
(* the plans that permute them.  One request makes the row (the first pair   *)
(* of an area), three act on it.                                            *)
Mixes(area) == {m \in [1..4 -> DOMAIN area] :
                  m[1] = 1 /\ 1 < m[2] /\ m[2] <= m[3] /\ m[3] <= m[4]}
PlanOf(area, m) ==
    [r \in Requests4 |->
        LET c == area[m[CHOOSE i \in 1..4 : RequestSeq[i] = r]]
        IN  [kind |-> c[1], user |-> c[2]]]
Plans4 == UNION {{PlanOf(area, m) : m \in Mixes(area)} : area \in Areas}

SomeTargets == {"paid", "completed", "closed", "WAIT_ASSIGN", "DELIVERING",
                "handling", "published", "draft"}
=============================================================================
