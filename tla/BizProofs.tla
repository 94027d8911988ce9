----------------------------- MODULE BizProofs ------------------------------
(***************************************************************************)
(* Proofs about Biz, for any requests, users, plans and statuses: the log  *)
(* of a row is its history, an order is refunded once, a download had been *)
(* allowed, toggles count, and places differ - each but for the cases that *)
(* the property names.                                                     *)
(***************************************************************************)
EXTENDS Biz, WellFoundedInduction, TLAPS

PcState == {"start", "admitted", "insert", "read", "write", "log", "paid", "count",
            "record", "tally", "share", "named", "flag", "done", "lost"}
AnyStatus == {"absent", "rejected"} \cup OrderStatus \cup ServiceStatus
                \cup TicketStatus \cup ResourceStatus
SeenStatus == AnyStatus \cup {"none", "unread"}
AnyKind == Kind \cup WorkbenchKind
Item == [table : {"todos", "notifications", "projects"}, owner : User, pos : Nat,
         flag : BOOLEAN, toggles : Nat, writer : Request \cup {None}, live : BOOLEAN]

RequestTypes ==
    /\ plan \in [Request -> [kind : AnyKind, user : User]]
    /\ pc \in [Request -> PcState]
    /\ of \in [Request -> Request \cup {None}]
    /\ target \in [Request -> AnyStatus]
    /\ seen \in [Request -> SeenStatus]
    /\ status \in [Request -> AnyStatus]
    /\ trail \in [Request -> Seq([from : SeenStatus, to : AnyStatus])]
ResourceTypes ==
    /\ policy \in [Request -> {"open", "listed"}]
    /\ listed \in [Request -> SUBSET User]
    /\ links \subseteq Request
WorkbenchTypes ==
    /\ boot \in {"off", "count", "seed", "serving"}
    /\ shown \subseteq User
    /\ items \in Seq(Item)
    /\ at \in [Request -> Nat]
    /\ read \in [Request -> BOOLEAN]
    /\ unseeded \in BOOLEAN
TypeOK == RequestTypes /\ ResourceTypes /\ WorkbenchTypes

(* The tables whose rows have a status that is logged or audited, and which  *)
(* never lose a row; the requests that move such a status.                   *)
Logged == {"orders", "services", "tickets"}
Kept == Logged \cup {"refunds"}
OrderKinds == {"payOrder", "putOrder", "requestRefund"}
ServiceKinds == {"assignService", "serviceStatus", "acceptService"}
TicketKinds == {"assignTicket", "ticketStatus", "evaluateTicket"}
Movers == OrderKinds \cup ServiceKinds \cup TicketKinds \cup {"createOrder", "auditRefund"}
Moving == {"read", "write", "log"}
-----------------------------------------------------------------------------
(* Most of the 45 actions differ in ways that no theorem below speaks of.    *)
(* What a step of the business service does to rows, logs and refunds is one *)
(* of the following.                                                         *)
rowHistory == <<mixed, torn, freed, rushed, faults>>

Pass(r) ==   \* goes on without touching a row of these
    /\ Is(r, {"assignRole", "unassignRole", "orderStats", "createServiceOrder",
              "replyTicket", "whitelist", "accessResource"})
    /\ pc[r] \in {"admitted", "paid", "count", "record", "tally", "share"}
    /\ Is(r, {"createServiceOrder"}) => pc[r] = "admitted"
    /\ \E s \in {"insert", "paid", "count", "record", "tally", "share", "done"} : Goto(r, s)
    /\ UNCHANGED <<of, target, seen, rowVars, rowHistory>>

TakeAim(r) ==   \* knows the status to write
    /\ Is(r, {"payOrder", "putOrder", "serviceStatus", "acceptService",
              "ticketStatus", "evaluateTicket"})
    /\ pc[r] = "admitted"
    /\ \E s \in AnyStatus \ {"absent"} : Aim(r, s)
    /\ UNCHANGED <<of, seen, rowVars, rowHistory>>

Insert(r) ==   \* makes a row that has no log yet
    /\ Is(r, {"createServiceOrder", "createTicket", "createResource"})
    /\ pc[r] \in {"admitted", "insert"}
    /\ \E s \in AnyStatus \ {"absent"} : status' = [status EXCEPT ![r] = s]
    /\ Goto(r, "done")
    /\ UNCHANGED <<of, target, seen, trail, rowHistory>>

EditResource(r) ==
    /\ Is(r, {"updateResource", "reviewResource", "deleteResource"})
    /\ pc[r] = "admitted"
    /\ \/ UNCHANGED status
       \/ \E s \in AnyStatus : status' = [status EXCEPT ![of[r]] = s]
    /\ Goto(r, "done")
    /\ UNCHANGED <<of, target, seen, trail, rowHistory>>

Read(r) ==
    /\ Is(r, Movers)
    /\ \/ ReadStatus(r, FALSE)
       \/ /\ ReadStatus(r, TRUE)
          /\ Is(r, {"requestRefund"}) => status[of[r]] = target[r]
    /\ UNCHANGED rushed
Write(r) == Is(r, Movers) /\ WriteStatus(r) /\ UNCHANGED rushed
Log(r) == Is(r, Movers) /\ LogStatus(r) /\ UNCHANGED rushed
Give(r) ==   \* assigns somebody
    /\ Is(r, {"assignService", "assignTicket"})
    /\ \E s \in AnyStatus \ {"absent"} : Assign(r, s)
    /\ UNCHANGED rushed

Enrol(r) == Admit(r) /\ UNCHANGED rushed
Elsewhere(r) ==   \* the workbench
    /\ Is(r, WorkbenchKind) \/ pc[r] = "flag"
    /\ pc[r] \in {"start", "named", "flag"}
    /\ \E s \in {"named", "flag", "done"} : Goto(r, s)
    /\ UNCHANGED <<of, target, seen, rowVars, rowHistory>>
Asleep == UNCHANGED <<pc, of, target, seen, rowVars, rowHistory>>
GiveUp(r) == Fail(r) /\ UNCHANGED rushed
Die == Crash /\ UNCHANGED rushed

RowStep(r) ==
    \/ Enrol(r) \/ Pass(r) \/ TakeAim(r) \/ Insert(r) \/ EditResource(r)
    \/ CreateOrder(r) \/ RequestRefund(r) \/ CreateRefund(r) \/ AuditRefund(r)
    \/ Read(r) \/ Write(r) \/ Log(r) \/ Give(r) \/ Elsewhere(r) \/ GiveUp(r)
Step == (\E r \in Request : RowStep(r)) \/ Asleep \/ Die

LEMMA Kinds == Kind = {"createOrder", "payOrder", "putOrder", "requestRefund",
    "auditRefund", "orderStats", "createServiceOrder", "assignService",
    "serviceStatus", "acceptService", "createTicket", "replyTicket",
    "assignTicket", "ticketStatus", "evaluateTicket", "createResource",
    "updateResource", "reviewResource", "deleteResource", "whitelist",
    "accessResource", "assignRole", "unassignRole"}
BY DEF Kind, SubjectTable

LEMMA BizStepKinds == ASSUME NEW r \in Request, BizStep(r) PROVE RowStep(r)
<1> USE DEF rowHistory, At, Is, Moving
<1>2. ASSUME Shared(r), UNCHANGED orderVars PROVE RowStep(r)
  <2>1. CASE Admit(r)
    BY <1>2, <2>1 DEF RowStep, Enrol, orderVars
  <2>2. CASE AssignRole(r)
    BY <1>2, <2>2 DEF RowStep, AssignRole, Pass, orderVars, history
  <2>3. CASE UnassignRole(r)
    BY <1>2, <2>3 DEF RowStep, UnassignRole, Pass, orderVars, history
  <2>4. CASE Fail(r)
    BY <1>2, <2>4 DEF RowStep, GiveUp, orderVars
  <2> QED BY <1>2, <2>1, <2>2, <2>3, <2>4 DEF Shared
<1>3. ASSUME OrderStep(r) PROVE RowStep(r)
  <2>1. CASE PayOrder(r)
    BY <2>1 DEF PayOrder, RowStep, TakeAim, AnyStatus, OrderStatus, history, orderVars
  <2>2. CASE PutOrderStatus(r)
    <3>1. PICK s \in OrderStatus : Aim(r, s)
      BY <2>2 DEF PutOrderStatus
    <3>2. s \in AnyStatus \ {"absent"}
      BY DEF AnyStatus, OrderStatus
    <3>3. TakeAim(r)
      BY <2>2, <3>1, <3>2 DEF PutOrderStatus, TakeAim, history, orderVars
    <3> QED BY <3>3 DEF RowStep
  <2>3. CASE UpdateOrderStatus(r)
    <3>1. Is(r, Movers) /\ UNCHANGED rushed
      BY <2>3 DEF UpdateOrderStatus, Movers, OrderKinds, orderVars
    <3>2. ASSUME ReadStatus(r, IF Is(r, {"payOrder"})
                               THEN status[of[r]] \in {"paid", "delivering"}
                               ELSE status[of[r]] = target[r])
          PROVE  Read(r)
      <4>1. CASE ReadStatus(r, FALSE)
        BY <3>1, <4>1 DEF Read
      <4>2. CASE /\ ReadStatus(r, TRUE)
                 /\ Is(r, {"requestRefund"}) => status[of[r]] = target[r]
        BY <3>1, <4>2 DEF Read
      <4> QED BY <3>2, <4>1, <4>2 DEF ReadStatus
    <3> QED BY <2>3, <3>1, <3>2 DEF UpdateOrderStatus, RowStep, Write, Log
  <2>4. CASE CountOrders(r) \/ CountPaid(r)
    BY <2>4 DEF CountOrders, CountPaid, RowStep, Pass, history
  <2>5. CASE CreateOrder(r) \/ RequestRefund(r) \/ CreateRefund(r) \/ AuditRefund(r)
    BY <2>5 DEF RowStep
  <2> QED BY <1>3, <2>1, <2>2, <2>3, <2>4, <2>5 DEF OrderStep
<1>4. ASSUME ServiceStep(r), UNCHANGED orderVars PROVE RowStep(r)
  <2> USE <1>4 DEF history, orderVars
  <2>1. CASE CheckServiceOrder(r) \/ AddTicketReply(r)
    BY <2>1 DEF CheckServiceOrder, AddTicketReply, RowStep, Pass
  <2>2. CASE CreateServiceOrder(r)
    <3>1. PICK s \in ServiceStatus : status' = [status EXCEPT ![r] = s]
      BY <2>2 DEF CreateServiceOrder
    <3>2. s \in AnyStatus \ {"absent"}
      BY DEF AnyStatus, ServiceStatus
    <3> QED BY <2>2, <3>1, <3>2 DEF CreateServiceOrder, RowStep, Insert
  <2>3. CASE CreateTicket(r)
    <3>1. PICK s \in TicketStatus : status' = [status EXCEPT ![r] = s]
      BY <2>3 DEF CreateTicket
    <3>2. s \in AnyStatus \ {"absent"}
      BY DEF AnyStatus, TicketStatus
    <3> QED BY <2>3, <3>1, <3>2 DEF CreateTicket, RowStep, Insert
  <2>4. CASE AssignServiceOwner(r) \/ AssignTicket(r)
    <3>1. {"DELIVERING", "handling"} \subseteq AnyStatus \ {"absent"}
      BY DEF AnyStatus, ServiceStatus, TicketStatus
    <3> QED BY <2>4, <3>1 DEF AssignServiceOwner, AssignTicket, RowStep, Give
  <2>5. CASE PostServiceStatus(r)
    <3>1. PICK s \in ServiceStatus : Aim(r, s)
      BY <2>5 DEF PostServiceStatus
    <3>2. s \in AnyStatus \ {"absent"}
      BY DEF AnyStatus, ServiceStatus
    <3> QED BY <2>5, <3>1, <3>2 DEF PostServiceStatus, RowStep, TakeAim
  <2>6. CASE PostTicketStatus(r)
    <3>1. PICK s \in TicketStatus : Aim(r, s)
      BY <2>6 DEF PostTicketStatus
    <3>2. s \in AnyStatus \ {"absent"}
      BY DEF AnyStatus, TicketStatus
    <3> QED BY <2>6, <3>1, <3>2 DEF PostTicketStatus, RowStep, TakeAim
  <2>7. CASE SubmitAcceptance(r)
    <3>1. PICK s \in {"COMPLETED", "WAIT_ACCEPT"} : Aim(r, s)
      BY <2>7 DEF SubmitAcceptance
    <3>2. s \in AnyStatus \ {"absent"}
      BY DEF AnyStatus, ServiceStatus
    <3> QED BY <2>7, <3>1, <3>2 DEF SubmitAcceptance, RowStep, TakeAim
  <2>8. CASE AddTicketEvaluation(r)
    <3>1. "closed" \in AnyStatus \ {"absent"}
      BY DEF AnyStatus, TicketStatus
    <3> QED BY <2>8, <3>1 DEF AddTicketEvaluation, RowStep, TakeAim
  <2>9. CASE UpdateServiceOrderStatus(r) \/ UpdateTicketStatus(r)
    <3>1. Is(r, Movers) /\ ~Is(r, {"requestRefund"})
      BY <2>9 DEF UpdateServiceOrderStatus, UpdateTicketStatus, Movers, ServiceKinds,
                  TicketKinds
    <3>2. ASSUME ReadStatus(r, status[of[r]] = target[r]) PROVE Read(r)
      BY <3>1, <3>2 DEF Read, ReadStatus
    <3> QED BY <2>9, <3>1, <3>2
            DEF UpdateServiceOrderStatus, UpdateTicketStatus, RowStep, Write, Log
  <2> QED BY <2>1, <2>2, <2>3, <2>4, <2>5, <2>6, <2>7, <2>8, <2>9 DEF ServiceStep
<1>5. ASSUME ResourceStep(r), UNCHANGED orderVars PROVE RowStep(r)
  <2> USE <1>5 DEF history, orderVars, rowVars
  <2>1. CASE CreateResource(r)
    <3>1. PICK s \in ResourceStatus : status' = [status EXCEPT ![r] = s]
      BY <2>1 DEF CreateResource
    <3>2. s \in AnyStatus \ {"absent"}
      BY DEF AnyStatus, ResourceStatus
    <3> QED BY <2>1, <3>1, <3>2 DEF CreateResource, RowStep, Insert
  <2>2. CASE UpdateResource(r)
    <3>1. UNCHANGED status
          \/ \E s \in ResourceStatus : status' = [status EXCEPT ![of[r]] = s]
      BY <2>2 DEF UpdateResource
    <3>2. ResourceStatus \subseteq AnyStatus
      BY DEF AnyStatus
    <3> QED BY <2>2, <3>1, <3>2 DEF UpdateResource, RowStep, EditResource
  <2>3. CASE ReviewResource(r)
    <3>1. UNCHANGED status
          \/ \E s \in ResourceStatus : status' = [status EXCEPT ![of[r]] = s]
      BY <2>3 DEF ReviewResource, ResourceStatus
    <3>2. ResourceStatus \subseteq AnyStatus
      BY DEF AnyStatus
    <3> QED BY <2>3, <3>1, <3>2 DEF ReviewResource, RowStep, EditResource
  <2>4. CASE DeleteResource(r)
    <3>1. "absent" \in AnyStatus
      BY DEF AnyStatus
    <3> QED BY <2>4, <3>1 DEF DeleteResource, RowStep, EditResource
  <2>5. CASE EditWhitelist(r) \/ CheckRow(r) \/ CheckWhitelist(r)
    BY <2>5 DEF EditWhitelist, CheckRow, CheckWhitelist, RowStep, Pass
  <2>6. CASE RecordDownload(r) \/ TallyDownload(r) \/ ShareFile(r)
    BY <2>6 DEF RecordDownload, TallyDownload, ShareFile, RowStep, Pass
  <2> QED BY <2>1, <2>2, <2>3, <2>4, <2>5, <2>6 DEF ResourceStep
<1> QED BY <1>2, <1>3, <1>4, <1>5 DEF BizStep

LEMMA WorkbenchStepKinds ==
    ASSUME NEW r \in Request, WorkbenchStep(r), UNCHANGED bizVars PROVE RowStep(r)
BY DEF WorkbenchStep, Name, Create, UpdateProject, DeleteProject, ReadFlag, WriteFlag,
       Respond, Elsewhere, RowStep, bizVars, history, orderVars, rowVars, WorkbenchKind,
       rowHistory, At, Is

LEMMA Steps == [Next]_vars => Step /\ plan' = plan
<1> SUFFICES ASSUME [Next]_vars PROVE Step /\ plan' = plan
  OBVIOUS
<1>1. CASE UNCHANGED vars
  BY <1>1 DEF vars, Step, Asleep, requestVars, history, orderVars, rowVars, rowHistory
<1>2. CASE Next
  <2>1. plan' = plan
    BY <1>2 DEF Next
  <2>2. ASSUME UNCHANGED <<pc, bizVars>> PROVE Step
    BY <2>2 DEF bizVars, Asleep, Step, history, orderVars, rowVars, rowHistory
  <2>3. ASSUME Crash, UNCHANGED orderVars PROVE Step
    BY <2>3 DEF Die, Step, orderVars
  <2> QED BY <1>2, <2>1, <2>2, <2>3, BizStepKinds, WorkbenchStepKinds DEF Next, Step
<1> QED BY <1>1, <1>2
-----------------------------------------------------------------------------
(* What a request works on, at each of its steps, is a row of the table its  *)
(* handler is about; a row comes with the request that makes it, and without *)
(* a log.                                                                    *)
Busy == {"admitted", "insert"} \cup Moving
Editors == {"updateResource", "reviewResource", "deleteResource"}
SubjectOf(r) ==
    /\ Is(r, OrderKinds) /\ pc[r] \in Busy => of[r] \in Rows("orders")
    /\ Is(r, {"requestRefund"}) /\ pc[r] # "start" => of[r] \in Rows("orders")
    /\ Is(r, {"createOrder", "auditRefund"}) /\ pc[r] \in Moving => of[r] \in Rows("orders")
    /\ Is(r, {"auditRefund"}) /\ pc[r] = "admitted" => of[r] \in Rows("refunds")
    /\ Is(r, ServiceKinds) /\ pc[r] \in Busy => of[r] \in Rows("services")
    /\ Is(r, TicketKinds) /\ pc[r] \in Busy => of[r] \in Rows("tickets")
    /\ Is(r, Editors) /\ pc[r] = "admitted"
            => of[r] \in Request /\ TableOf(plan[of[r]].kind) = "resources"
    /\ pc[r] \in Moving => Is(r, Movers) /\ target[r] # "absent"
SubjectInv == \A r \in Request : SubjectOf(r)
FreshInv ==
    \A x \in Request :
        /\ TableOf(plan[x].kind) \in Kept /\ pc[x] \in {"start", "admitted", "insert"}
                => status[x] = "absent"
        /\ TableOf(plan[x].kind) \in Logged /\ status[x] = "absent" => trail[x] = <<>>
RowInv == RequestTypes /\ SubjectInv /\ FreshInv

LEMMA Subjects ==
    ASSUME RowInv, NEW r \in Request
    PROVE  /\ pc[r] \in Moving => /\ of[r] \in Request
                                  /\ TableOf(plan[of[r]].kind) \in Logged
                                  /\ status[of[r]] # "absent"
           /\ Is(r, {"auditRefund"}) /\ pc[r] = "admitted"
                => of[r] \in Request /\ Is(of[r], {"requestRefund"}) /\ status[of[r]] # "absent"
           /\ Is(r, {"requestRefund"}) /\ pc[r] # "start"
                => /\ of[r] \in Request
                   /\ TableOf(plan[of[r]].kind) = "orders" /\ status[of[r]] # "absent"
           /\ Is(r, {"assignService", "assignTicket"}) /\ pc[r] = "admitted"
                => /\ of[r] \in Request
                   /\ TableOf(plan[of[r]].kind) \in Logged /\ status[of[r]] # "absent"
           /\ Is(r, Editors) /\ pc[r] = "admitted"
                => of[r] \in Request /\ TableOf(plan[of[r]].kind) = "resources"
<1>1. pc[r] \in Moving =>
        of[r] \in Rows("orders") \cup Rows("services") \cup Rows("tickets")
  BY DEF RowInv, SubjectInv, SubjectOf, Movers, Busy, Is, OrderKinds, ServiceKinds, TicketKinds
<1>2. Is(r, {"assignService", "assignTicket"}) /\ pc[r] = "admitted" =>
        of[r] \in Rows("services") \cup Rows("tickets")
  BY DEF RowInv, SubjectInv, SubjectOf, Busy, Is, ServiceKinds, TicketKinds
<1>3. \A x \in Rows("refunds") : x \in Request /\ Is(x, {"requestRefund"}) /\ status[x] # "absent"
  BY DEF Rows, TableOf, Is
<1>4. \A t \in {"orders", "services", "tickets"} : \A x \in Rows(t) :
         x \in Request /\ TableOf(plan[x].kind) = t /\ status[x] # "absent"
  BY DEF Rows
<1>5. /\ Is(r, {"auditRefund"}) /\ pc[r] = "admitted" => of[r] \in Rows("refunds")
      /\ Is(r, {"requestRefund"}) /\ pc[r] # "start" => of[r] \in Rows("orders")
      /\ Is(r, Editors) /\ pc[r] = "admitted"
                => of[r] \in Request /\ TableOf(plan[of[r]].kind) = "resources"
  BY DEF RowInv, SubjectInv, SubjectOf
<1> QED BY <1>1, <1>2, <1>3, <1>4, <1>5 DEF Logged

LEMMA AppendTyped ==
    ASSUME NEW T, NEW s \in Seq(T), NEW e \in T
    PROVE  /\ Append(s, e) \in Seq(T)
           /\ Len(Append(s, e)) = Len(s) + 1
           /\ \A i \in 1 .. Len(s) : Append(s, e)[i] = s[i]
           /\ Append(s, e)[Len(s) + 1] = e
OBVIOUS

LEMMA RowTypesStay == ASSUME RowInv, Step, plan' = plan PROVE RequestTypes'
<1> USE DEF RequestTypes
<1>0. RequestTypes
  BY DEF RowInv
<1>1. ASSUME NEW r \in Request, RowStep(r) PROVE RequestTypes'
  <2>0. \A s : Goto(r, s) /\ s \in PcState => pc' \in [Request -> PcState]
    BY <1>0 DEF Goto
  <2>1. CASE Enrol(r)
    <3>1. \E s \in {"admitted", "done"} : Goto(r, s)
      BY <2>1 DEF Enrol, Admit
    <3>2. \E x \in Request \cup {None} : of' = [of EXCEPT ![r] = x]
      BY <2>1 DEF Enrol, Admit, Rows
    <3>3. UNCHANGED <<target, seen, status, trail>>
      BY <2>1 DEF Enrol, Admit
    <3> QED BY <1>0, <2>0, <3>1, <3>2, <3>3 DEF PcState
  <2>2. CASE Pass(r) \/ Elsewhere(r)
    BY <1>0, <2>0, <2>2 DEF Pass, Elsewhere, rowVars, PcState
  <2>3. CASE TakeAim(r)
    BY <1>0, <2>0, <2>3 DEF TakeAim, Aim, rowVars, PcState
  <2>4. CASE Insert(r)
    BY <1>0, <2>0, <2>4 DEF Insert, PcState
  <2>5. CASE EditResource(r)
    BY <1>0, <2>0, <2>5 DEF EditResource, PcState
  <2>6. CASE CreateOrder(r)
    <3>1. PICK s \in OrderStatus : /\ status' = [status EXCEPT ![r] = s]
                                   /\ target' = [target EXCEPT ![r] = s]
      BY <2>6 DEF CreateOrder
    <3>2. s \in AnyStatus /\ "none" \in SeenStatus
      BY DEF AnyStatus, SeenStatus
    <3>3. Goto(r, "log") /\ of' = [of EXCEPT ![r] = r] /\ seen' = [seen EXCEPT ![r] = "none"]
          /\ UNCHANGED trail
      BY <2>6 DEF CreateOrder
    <3> QED BY <1>0, <2>0, <3>1, <3>2, <3>3 DEF PcState
  <2>7. CASE RequestRefund(r)
    BY <1>0, <2>0, <2>7 DEF RequestRefund, rowVars, PcState
  <2>8. CASE CreateRefund(r)
    <3>1. {"pending", "refunding"} \subseteq AnyStatus
      BY DEF AnyStatus, OrderStatus
    <3> QED BY <1>0, <2>0, <2>8, <3>1 DEF CreateRefund, Aim, PcState
  <2>9. CASE AuditRefund(r)
    <3>1. {"completed", "rejected", "refunded", "paid"} \subseteq AnyStatus
      BY DEF AnyStatus, OrderStatus
    <3>2. of[r] \in Request
      BY <2>9, Subjects DEF AuditRefund, At, Is
    <3>3. PICK s \in {"completed", "rejected"}, t \in {"refunded", "paid"} :
             status' = [status EXCEPT ![of[r]] = s] /\ Aim(r, t)
      BY <2>9 DEF AuditRefund
    <3>4. of' = [of EXCEPT ![r] = of[of[r]]] /\ UNCHANGED <<seen, trail>>
      BY <2>9 DEF AuditRefund
    <3> QED BY <1>0, <2>0, <3>1, <3>2, <3>3, <3>4 DEF Aim, PcState
  <2>10. CASE Read(r)
    <3>1. of[r] \in Request
      BY <2>10, Subjects DEF Read, ReadStatus, Moving
    <3>2. /\ seen' = [seen EXCEPT ![r] = status[of[r]]]
          /\ Goto(r, "done") \/ Goto(r, "write")
          /\ UNCHANGED <<of, target, rowVars>>
      BY <2>10 DEF Read, ReadStatus
    <3> QED BY <1>0, <2>0, <3>1, <3>2 DEF rowVars, PcState, SeenStatus
  <2>11. CASE Write(r)
    BY <1>0, <2>0, <2>11 DEF Write, WriteStatus, PcState
  <2>12. CASE Log(r)
    <3>1. of[r] \in Request
      BY <2>12, Subjects DEF Log, LogStatus, Moving
    <3>2. [from |-> seen[r], to |-> target[r]] \in [from : SeenStatus, to : AnyStatus]
      BY <1>0
    <3>3. Append(trail[of[r]], [from |-> seen[r], to |-> target[r]])
            \in Seq([from : SeenStatus, to : AnyStatus])
      <4>1. trail[of[r]] \in Seq([from : SeenStatus, to : AnyStatus])
        BY <1>0, <3>1
      <4> QED BY <3>2, <4>1, AppendTyped
    <3>4. /\ trail' = [trail EXCEPT ![of[r]] =
                         Append(trail[of[r]], [from |-> seen[r], to |-> target[r]])]
          /\ Goto(r, "done") /\ UNCHANGED <<of, target, seen, status>>
      BY <2>12, <1>0, <3>1 DEF Log, LogStatus
    <3> QED BY <1>0, <2>0, <3>1, <3>3, <3>4 DEF PcState
  <2>13. CASE Give(r)
    <3>1. "unread" \in SeenStatus
      BY DEF SeenStatus
    <3>2. PICK s \in AnyStatus : Assign(r, s)
      BY <2>13 DEF Give
    <3>3. status' \in [Request -> AnyStatus] /\ target' \in [Request -> AnyStatus]
      BY <1>0, <3>2 DEF Assign
    <3>4. seen' \in [Request -> SeenStatus] /\ UNCHANGED <<of, trail>> /\ Goto(r, "log")
      BY <1>0, <3>1, <3>2 DEF Assign
    <3> QED BY <1>0, <2>0, <3>3, <3>4 DEF PcState
  <2>14. CASE GiveUp(r)
    BY <1>0, <2>0, <2>14 DEF GiveUp, Fail, rowVars, PcState
  <2> QED BY <1>1, <2>1, <2>2, <2>3, <2>4, <2>5, <2>6, <2>7, <2>8, <2>9, <2>10, <2>11,
             <2>12, <2>13, <2>14 DEF RowStep
<1>2. CASE Asleep
  BY <1>0, <1>2 DEF Asleep, rowVars
<1>3. CASE Die
  BY <1>0, <1>3 DEF Die, Crash, rowVars, PcState
<1> QED BY <1>1, <1>2, <1>3 DEF Step

(* A row of these tables is never deleted.                                   *)
LEMMA RowsStay ==
    ASSUME RowInv, Step, plan' = plan
    PROVE  \A t \in Kept : Rows(t) \subseteq Rows(t)'
<1>0. RequestTypes
  BY DEF RowInv
<1> SUFFICES ASSUME NEW x \in Request, TableOf(plan[x].kind) \in Kept, status[x] # "absent"
             PROVE  status'[x] # "absent"
  BY DEF Rows
<1>1. ASSUME NEW r \in Request, RowStep(r) PROVE status'[x] # "absent"
  <2>1. CASE UNCHANGED status
    BY <2>1
  <2>2. CASE Insert(r)
    BY <1>0, <2>2 DEF Insert, RequestTypes
  <2>3. CASE EditResource(r)
    <3>1. x # of[r]
      BY <2>3, Subjects DEF EditResource, Kept, Logged, Editors
    <3> QED BY <1>0, <2>3, <3>1 DEF EditResource, RequestTypes
  <2>4. CASE CreateOrder(r)
    BY <1>0, <2>4 DEF CreateOrder, RequestTypes, OrderStatus
  <2>5. CASE CreateRefund(r)
    BY <1>0, <2>5 DEF CreateRefund, RequestTypes
  <2>6. CASE AuditRefund(r)
    BY <1>0, <2>6 DEF AuditRefund, RequestTypes
  <2>7. CASE Write(r)
    <3>1. target[r] # "absent"
      BY <2>7 DEF Write, WriteStatus, RowInv, SubjectInv, SubjectOf, Moving
    <3> QED BY <1>0, <2>7, <3>1 DEF Write, WriteStatus, RequestTypes
  <2>8. CASE Give(r)
    BY <1>0, <2>8 DEF Give, Assign, RequestTypes
  <2> QED BY <1>1, <2>1, <2>2, <2>3, <2>4, <2>5, <2>6, <2>7, <2>8
          DEF RowStep, Enrol, Admit, Pass, TakeAim, RequestRefund, Read, ReadStatus, Log,
              LogStatus, Elsewhere, GiveUp, Fail, rowVars
<1> QED BY <1>1 DEF Step, Asleep, Die, Crash, rowVars

LEMMA OthersKeep ==
    ASSUME RequestTypes, NEW r \in Request, RowStep(r), NEW q \in Request \ {r}
    PROVE  pc'[q] = pc[q] /\ of'[q] = of[q] /\ target'[q] = target[q] /\ seen'[q] = seen[q]
<1> USE DEF RequestTypes, Goto
<1>1. CASE Enrol(r) \/ Read(r)
  BY <1>1 DEF Enrol, Admit, Read, ReadStatus
<1>2. CASE Pass(r) \/ Elsewhere(r) \/ Insert(r) \/ EditResource(r)
  BY <1>2 DEF Pass, Elsewhere, Insert, EditResource
<1>3. CASE TakeAim(r) \/ CreateOrder(r)
  BY <1>3 DEF TakeAim, Aim, CreateOrder
<1>4. CASE RequestRefund(r) \/ CreateRefund(r) \/ AuditRefund(r)
  BY <1>4 DEF RequestRefund, CreateRefund, AuditRefund, Aim
<1>5. CASE Write(r) \/ Log(r) \/ Give(r) \/ GiveUp(r)
  BY <1>5 DEF Write, WriteStatus, Log, LogStatus, Give, Assign, GiveUp, Fail
<1> QED BY <1>1, <1>2, <1>3, <1>4, <1>5 DEF RowStep

LEMMA SubjectsStay == ASSUME RowInv, Step, plan' = plan PROVE SubjectInv'
<1>0. RequestTypes
  BY DEF RowInv
<1>r. \A t \in {"orders", "refunds", "services", "tickets"} : Rows(t) \subseteq Rows(t)'
  BY RowsStay DEF Kept, Logged
<1>k. ASSUME NEW q \in Request, \/ pc'[q] = pc[q]
                                \/ pc'[q] \in {"done", "lost"} /\ pc[q] # "start",
             of'[q] = of[q], target'[q] = target[q]
      PROVE  SubjectOf(q)'
  BY <1>k, <1>r DEF RowInv, SubjectInv, SubjectOf, Is, Moving, Busy
<1>1. ASSUME NEW r \in Request, RowStep(r) PROVE SubjectOf(r)'
  <2>u. of[r] = of'[r] /\ target'[r] = target[r] /\ pc'[r] = "done" /\ pc[r] # "start"
          => SubjectOf(r)'
    BY <1>k
  <2>1. CASE Enrol(r)
    <3>1. PICK x \in IF SubjectTable[plan[r].kind] = "none" THEN {None}
                     ELSE Rows(SubjectTable[plan[r].kind]) :
                 of' = [of EXCEPT ![r] = x]
      BY <2>1 DEF Enrol, Admit
    <3>2. /\ pc'[r] \in {"admitted", "done"} /\ of'[r] = x
      BY <1>0, <2>1, <3>1 DEF Enrol, Admit, Goto, RequestTypes
    <3>3. /\ Is(r, OrderKinds) => x \in Rows("orders")
          /\ Is(r, {"auditRefund"}) => x \in Rows("refunds")
          /\ Is(r, ServiceKinds) => x \in Rows("services")
          /\ Is(r, TicketKinds) => x \in Rows("tickets")
          /\ Is(r, Editors) => x \in Rows("resources")
      BY <3>1 DEF Is, OrderKinds, ServiceKinds, TicketKinds, Editors, SubjectTable
    <3>4. Is(r, {"requestRefund"}) => x \in Rows("orders")
      BY <3>3 DEF Is, OrderKinds
    <3>5. \A y \in Rows("resources") : y \in Request /\ TableOf(plan[y].kind) = "resources"
      BY DEF Rows
    <3> QED BY <1>r, <3>2, <3>3, <3>4, <3>5 DEF SubjectOf, Moving, Is
  <2>2. CASE Pass(r)
    <3>1. /\ pc'[r] \notin Moving \cup {"admitted"}
          /\ ~Is(r, OrderKinds \cup ServiceKinds \cup TicketKinds \cup Editors)
          /\ ~Is(r, {"requestRefund", "createOrder", "auditRefund"})
      BY <1>0, <2>2 DEF Pass, Is, OrderKinds, ServiceKinds, TicketKinds, Editors, Moving,
                        Goto, RequestTypes
    <3> QED BY <3>1 DEF SubjectOf, Is
  <2>3. CASE TakeAim(r)
    <3>1. /\ pc[r] = "admitted" /\ pc'[r] = "read" /\ of'[r] = of[r] /\ target'[r] # "absent"
          /\ Is(r, {"payOrder", "putOrder", "serviceStatus", "acceptService",
                    "ticketStatus", "evaluateTicket"})
      BY <1>0, <2>3 DEF TakeAim, Aim, Goto, RequestTypes
    <3>2. Is(r, Movers) /\ ~Is(r, {"requestRefund", "createOrder", "auditRefund"} \cup Editors)
      BY <3>1 DEF Is, Movers, OrderKinds, ServiceKinds, TicketKinds, Editors
    <3> QED BY <1>r, <3>1, <3>2 DEF RowInv, SubjectInv, SubjectOf, Is, Moving, Busy
  <2>4. CASE Insert(r)
    BY <1>0, <2>u, <2>4 DEF Insert, Goto, RequestTypes
  <2>5. CASE EditResource(r)
    BY <1>0, <2>u, <2>5 DEF EditResource, Goto, RequestTypes
  <2>6. CASE CreateOrder(r)
    <3>1. /\ Is(r, {"createOrder"}) /\ of'[r] = r /\ status'[r] # "absent"
          /\ target'[r] # "absent" /\ pc'[r] = "log"
      BY <1>0, <2>6 DEF CreateOrder, At, Is, Goto, RequestTypes, OrderStatus
    <3>2. r \in Rows("orders")'
      BY <3>1 DEF Is, Rows, TableOf
    <3> QED BY <3>1, <3>2 DEF SubjectOf, Is, OrderKinds, ServiceKinds, TicketKinds, Editors,
                              Movers
  <2>7. CASE RequestRefund(r)
    <3>1. /\ Is(r, {"requestRefund"}) /\ pc[r] = "admitted" /\ pc'[r] \in {"insert", "done"}
          /\ of'[r] = of[r]
      BY <1>0, <2>7 DEF RequestRefund, At, Is, Goto, RequestTypes
    <3> QED BY <1>r, <3>1 DEF RowInv, SubjectInv, SubjectOf, Is, Moving, Busy, ServiceKinds,
                              TicketKinds
  <2>8. CASE CreateRefund(r)
    <3>1. /\ Is(r, {"requestRefund"}) /\ pc[r] = "insert" /\ pc'[r] = "read"
          /\ of'[r] = of[r] /\ target'[r] = "refunding"
      BY <1>0, <2>8 DEF CreateRefund, Aim, At, Is, Goto, RequestTypes
    <3> QED BY <1>r, <3>1 DEF RowInv, SubjectInv, SubjectOf, Is, Moving, Busy, ServiceKinds,
                              TicketKinds, OrderKinds, Movers
  <2>9. CASE AuditRefund(r)
    <3>1. /\ Is(r, {"auditRefund"}) /\ pc[r] = "admitted" /\ pc'[r] = "read"
          /\ of'[r] = of[of[r]] /\ target'[r] \in {"refunded", "paid"}
      BY <1>0, <2>9 DEF AuditRefund, Aim, At, Is, Goto, RequestTypes
    <3>2. of[r] \in Request /\ Is(of[r], {"requestRefund"}) /\ status[of[r]] # "absent"
      BY <3>1, Subjects
    <3>3. pc[of[r]] # "start"
      BY <3>2 DEF RowInv, FreshInv, Is, TableOf, Kept
    <3>4. of[of[r]] \in Rows("orders")
      BY <3>2, <3>3 DEF RowInv, SubjectInv, SubjectOf
    <3> QED BY <1>r, <3>1, <3>4 DEF SubjectOf, Is, ServiceKinds, TicketKinds, OrderKinds,
                                    Movers, Editors
  <2>10. CASE Read(r)
    <3>1. /\ pc[r] = "read" /\ pc'[r] \in {"write", "done"}
          /\ of'[r] = of[r] /\ target'[r] = target[r]
      BY <1>0, <2>10 DEF Read, ReadStatus, Goto, RequestTypes
    <3> QED BY <1>r, <3>1 DEF RowInv, SubjectInv, SubjectOf, Is, Moving, Busy
  <2>11. CASE Write(r)
    <3>1. /\ pc[r] = "write" /\ pc'[r] = "log" /\ of'[r] = of[r] /\ target'[r] = target[r]
      BY <1>0, <2>11 DEF Write, WriteStatus, Goto, RequestTypes
    <3> QED BY <1>r, <3>1 DEF RowInv, SubjectInv, SubjectOf, Is, Moving, Busy
  <2>12. CASE Log(r)
    BY <1>0, <2>u, <2>12 DEF Log, LogStatus, Goto, RequestTypes
  <2>13. CASE Give(r)
    <3>1. /\ Is(r, {"assignService", "assignTicket"}) /\ pc[r] = "admitted"
          /\ pc'[r] = "log" /\ of'[r] = of[r] /\ target'[r] # "absent"
      BY <1>0, <2>13 DEF Give, Assign, Goto, RequestTypes
    <3>2. Is(r, Movers) /\ ~Is(r, {"requestRefund", "createOrder", "auditRefund"})
          /\ ~Is(r, OrderKinds)
      BY <3>1 DEF Is, Movers, ServiceKinds, TicketKinds, OrderKinds
    <3> QED BY <1>r, <3>1, <3>2 DEF RowInv, SubjectInv, SubjectOf, Is, Moving, Busy
  <2>14. CASE Elsewhere(r)
    <3>1. /\ pc'[r] \notin Busy
          /\ pc[r] = "start" => Is(r, WorkbenchKind)
          /\ of'[r] = of[r]
      BY <1>0, <2>14 DEF Elsewhere, Goto, RequestTypes, Busy, Moving
    <3>2. Is(r, WorkbenchKind) => ~Is(r, {"requestRefund"})
      BY DEF Is, WorkbenchKind
    <3> QED BY <1>r, <3>1, <3>2 DEF RowInv, SubjectInv, SubjectOf, Is, Moving, Busy
  <2>15. CASE GiveUp(r)
    BY <1>0, <2>u, <2>15 DEF GiveUp, Fail, Running, Goto, RequestTypes
  <2> QED BY <1>1, <2>1, <2>2, <2>3, <2>4, <2>5, <2>6, <2>7, <2>8, <2>9, <2>10, <2>11,
             <2>12, <2>13, <2>14, <2>15 DEF RowStep
<1>2. ASSUME NEW r \in Request, RowStep(r), NEW q \in Request \ {r} PROVE SubjectOf(q)'
  BY <1>0, <1>2, <1>k, OthersKeep
<1>3. CASE Asleep
  BY <1>3, <1>k DEF Asleep, SubjectInv
<1>4. CASE Die
  BY <1>0, <1>4, <1>k DEF Die, Crash, Running, SubjectInv, RequestTypes
<1> QED BY <1>1, <1>2, <1>3, <1>4 DEF Step, SubjectInv

(* Who changes the status of a row: the request that makes it, once, and     *)
(* those that move it.                                                       *)
LEMMA Changes ==
    ASSUME RowInv, NEW r \in Request, RowStep(r), NEW x \in Request,
           TableOf(plan[x].kind) \in Kept
    PROVE  \/ status'[x] = status[x]
           \/ /\ x = r /\ status[x] = "absent" /\ pc[r] \in {"admitted", "insert"}
              /\ Insert(r) \/ CreateOrder(r) \/ CreateRefund(r)
           \/ /\ x = of[r] /\ status[x] # "absent"
              /\ Write(r) \/ Give(r) \/ AuditRefund(r)
<1>0. RequestTypes
  BY DEF RowInv
<1>1. pc[x] \in {"admitted", "insert"} => status[x] = "absent"
  BY DEF RowInv, FreshInv
<1>2. CASE Insert(r)
  BY <1>0, <1>1, <1>2 DEF Insert, RequestTypes
<1>3. CASE EditResource(r)
  <2>1. x # of[r]
    BY <1>3, Subjects DEF EditResource, Kept, Logged, Editors
  <2> QED BY <1>0, <1>3, <2>1 DEF EditResource, RequestTypes
<1>4. CASE CreateOrder(r)
  BY <1>0, <1>1, <1>4 DEF CreateOrder, At, RequestTypes
<1>5. CASE CreateRefund(r)
  BY <1>0, <1>1, <1>5 DEF CreateRefund, At, RequestTypes
<1>6. CASE AuditRefund(r)
  BY <1>0, <1>6, Subjects DEF AuditRefund, At, Is, RequestTypes
<1>7. CASE Write(r)
  BY <1>0, <1>7, Subjects DEF Write, WriteStatus, Moving, RequestTypes
<1>8. CASE Give(r)
  <2>1. of[r] \in Request /\ status[of[r]] # "absent"
    BY <1>8, Subjects DEF Give, Assign
  <2>2. \E s : status' = [status EXCEPT ![of[r]] = s]
    BY <1>8 DEF Give, Assign
  <2> QED BY <1>0, <1>8, <2>1, <2>2 DEF RequestTypes
<1>9. CASE Enrol(r) \/ Pass(r) \/ TakeAim(r) \/ RequestRefund(r) \/ Read(r) \/ Log(r)
           \/ Elsewhere(r) \/ GiveUp(r)
  BY <1>9 DEF Enrol, Admit, Pass, TakeAim, RequestRefund, Read, ReadStatus, Log,
              LogStatus, Elsewhere, GiveUp, Fail, rowVars
<1> QED BY <1>2, <1>3, <1>4, <1>5, <1>6, <1>7, <1>8, <1>9 DEF RowStep

LEMMA FreshStays == ASSUME RowInv, Step, plan' = plan PROVE FreshInv'
<1>0. RequestTypes /\ RequestTypes'
  BY RowTypesStay DEF RowInv
<1> SUFFICES ASSUME NEW x \in Request, TableOf(plan[x].kind) \in Kept
             PROVE  /\ pc'[x] \in {"start", "admitted", "insert"} => status'[x] = "absent"
                    /\ TableOf(plan[x].kind) \in Logged /\ status'[x] = "absent"
                            => trail'[x] = <<>>
  BY DEF FreshInv, Kept
<1>1. /\ pc[x] \in {"start", "admitted", "insert"} => status[x] = "absent"
      /\ TableOf(plan[x].kind) \in Logged /\ status[x] = "absent" => trail[x] = <<>>
  BY DEF RowInv, FreshInv
<1>2. ASSUME NEW r \in Request, RowStep(r)
      PROVE  /\ pc'[x] \in {"start", "admitted", "insert"} => status'[x] = "absent"
             /\ status'[x] = "absent" => status[x] = "absent" /\ trail'[x] = trail[x]
  <2>1. pc'[x] \in {"start", "admitted", "insert"} =>
            /\ pc[x] \in {"start", "admitted", "insert"}
            /\ x = r => ~(Insert(r) \/ CreateOrder(r) \/ CreateRefund(r))
    <3>1. CASE x # r
      BY <1>0, <1>2, <3>1, OthersKeep
    <3>2. CASE x = r
      <4>1. CASE Enrol(r)
        BY <3>2, <4>1 DEF Enrol, Admit, Insert, CreateOrder, CreateRefund, At
      <4>2. CASE Pass(r)
        <5>1. TableOf(plan[r].kind) \in Kept => Is(r, {"createServiceOrder"})
          BY <4>2 DEF Pass, Is, TableOf, Kept, Logged
        <5> QED BY <1>0, <3>2, <4>2, <5>1
                DEF Pass, Insert, CreateOrder, CreateRefund, At, Goto, RequestTypes, Is
      <4>3. CASE RequestRefund(r)
        BY <1>0, <3>2, <4>3 DEF RequestRefund, Insert, CreateOrder, CreateRefund, At, Is,
                                Goto, RequestTypes
      <4>4. CASE TakeAim(r) \/ CreateRefund(r) \/ AuditRefund(r)
        BY <1>0, <3>2, <4>4 DEF TakeAim, CreateRefund, AuditRefund, Aim, Goto, RequestTypes
      <4>5. CASE Insert(r) \/ EditResource(r) \/ CreateOrder(r) \/ Log(r) \/ Write(r)
        BY <1>0, <3>2, <4>5 DEF Insert, EditResource, CreateOrder, Log, LogStatus, Write,
                                WriteStatus, Goto, RequestTypes
      <4>6. CASE Read(r) \/ Give(r) \/ Elsewhere(r) \/ GiveUp(r)
        BY <1>0, <3>2, <4>6 DEF Read, ReadStatus, Give, Assign, Elsewhere, GiveUp, Fail, Goto,
                                RequestTypes
      <4> QED BY <1>2, <4>1, <4>2, <4>3, <4>4, <4>5, <4>6 DEF RowStep
    <3> QED BY <3>1, <3>2
  <2>2. status'[x] = "absent" => status[x] = "absent"
    BY RowsStay DEF Rows, Kept
  <2>3. status[x] = "absent" => trail'[x] = trail[x]
    <3>1. CASE Log(r)
      BY <1>0, <3>1, Subjects DEF Log, LogStatus, Moving, RequestTypes
    <3> QED BY <1>2, <3>1
            DEF RowStep, Enrol, Admit, Pass, TakeAim, Insert, EditResource, CreateOrder,
                RequestRefund, CreateRefund, AuditRefund, Read, ReadStatus, Write,
                WriteStatus, Give, Assign, Elsewhere, GiveUp, Fail, rowVars
  <2> QED BY <1>1, <1>2, <2>1, <2>2, <2>3, Changes
<1>3. CASE Asleep
  BY <1>1, <1>3 DEF Asleep, rowVars
<1>4. CASE Die
  BY <1>0, <1>1, <1>4 DEF Die, Crash, rowVars, RequestTypes, Running
<1> QED BY <1>1, <1>2, <1>3, <1>4 DEF Step

LEMMA RowInvariant == Spec => []RowInv
<1>1. Init => RowInv
  <2> SUFFICES ASSUME Init PROVE RowInv
    OBVIOUS
  <2>1. plan \in [Request -> [kind : AnyKind, user : User]]
    <3>1. plan \in [Request -> [kind : STRING, user : User]]
      BY RequestsAssumption DEF Init
    <3>2. \A r \in Request : plan[r].kind \in AnyKind
      BY PlansAssumption DEF Init, AnyKind
    <3> QED BY <3>1, <3>2
  <2>2. "absent" \in AnyStatus /\ "none" \in SeenStatus /\ "start" \in PcState
    BY DEF AnyStatus, SeenStatus, PcState
  <2>3. trail \in [Request -> Seq([from : SeenStatus, to : AnyStatus])]
    BY DEF Init
  <2>4. RequestTypes
    BY <2>1, <2>2, <2>3 DEF Init, RequestTypes
  <2>5. \A r \in Request : pc[r] = "start" /\ status[r] = "absent" /\ trail[r] = <<>>
    BY DEF Init
  <2> QED BY <2>4, <2>5 DEF RowInv, SubjectInv, SubjectOf, FreshInv, Busy, Moving
<1>2. RowInv /\ [Next]_vars => RowInv'
  BY Steps, RowTypesStay, SubjectsStay, FreshStays DEF RowInv
<1> QED BY <1>1, <1>2, PTL DEF Spec
-----------------------------------------------------------------------------
(* The log of a row: the only transition under way, if there is one, knows   *)
(* the status the row had, and the log ends with that one.                   *)
Ends(t, s) == t # <<>> => Last(t).to = s
TrailOf(x) ==
    x \notin mixed \cup torn =>
        /\ Chained(trail[x])
        /\ \A r, q \in InFlight(x) : r = q
        /\ InFlight(x) = {} => Ends(trail[x], status[x])
        /\ \A r \in InFlight(x) :
              /\ pc[r] = "write" => seen[r] = status[x] /\ Ends(trail[x], status[x])
              /\ pc[r] = "log" => /\ target[r] = status[x]
                                  /\ seen[r] = "unread" \/ Ends(trail[x], seen[r])
LoggedRows == Rows("orders") \cup Rows("services") \cup Rows("tickets")
TrailInv == \A x \in LoggedRows : TrailOf(x)

LEMMA LoggedRow ==
    /\ \A x \in LoggedRows : /\ x \in Request /\ status[x] # "absent"
                             /\ TableOf(plan[x].kind) \in Logged
    /\ \A x \in Request : TableOf(plan[x].kind) \in Logged /\ status[x] # "absent"
            => x \in LoggedRows
BY DEF LoggedRows, Rows, Logged

LEMMA ChainGrows ==
    ASSUME NEW t \in Seq([from : SeenStatus, to : AnyStatus]), Chained(t),
           NEW e \in [from : SeenStatus, to : AnyStatus],
           e.from = "unread" \/ Ends(t, e.from)
    PROVE  Chained(Append(t, e)) /\ Last(Append(t, e)) = e
<1> DEFINE u == Append(t, e)
<1>1. /\ u \in Seq([from : SeenStatus, to : AnyStatus])
      /\ Len(u) = Len(t) + 1 /\ u[Len(t) + 1] = e
      /\ \A i \in 1 .. Len(t) : u[i] = t[i]
  BY AppendTyped
<1> HIDE DEF u
<1>2. Last(u) = e
  BY <1>1 DEF Last
<1>3. ASSUME NEW i \in 1 .. (Len(u) - 1) PROVE u[i + 1].from \in {u[i].to, "unread"}
  <2>1. Len(t) \in Nat
    OBVIOUS
  <2>2. CASE i < Len(t)
    <3>1. i \in 1 .. (Len(t) - 1) /\ i \in 1 .. Len(t) /\ i + 1 \in 1 .. Len(t)
      BY <1>1, <2>1, <2>2
    <3>2. t[i + 1].from \in {t[i].to, "unread"}
      BY <3>1 DEF Chained
    <3> QED BY <1>1, <3>1, <3>2
  <2>3. CASE i = Len(t)
    <3>1. t # <<>> /\ u[i] = t[Len(t)] /\ u[i + 1] = e
      BY <1>1, <2>1, <2>3
    <3> QED BY <3>1 DEF Ends, Last
  <2> QED BY <1>1, <2>1, <2>2, <2>3
<1> QED BY <1>2, <1>3 DEF Chained, u

LEMMA TrailKept ==
    ASSUME NEW x \in Request, TrailOf(x),
           mixed \subseteq mixed', torn \subseteq torn',
           status'[x] = status[x], trail'[x] = trail[x],
           InFlight(x)' = InFlight(x),
           \A q \in InFlight(x) : pc'[q] = pc[q] /\ seen'[q] = seen[q]
                                                 /\ target'[q] = target[q]
    PROVE  TrailOf(x)'
BY DEF TrailOf, Chained, Ends, Last

LEMMA TrailStepStays ==
    ASSUME RowInv, RowInv', TrailInv, NEW r \in Request, RowStep(r), plan' = plan
    PROVE  TrailInv'
<1>0. RequestTypes /\ RequestTypes'
  BY DEF RowInv
<1>m. mixed \subseteq mixed' /\ torn \subseteq torn'
  BY DEF RowStep, Enrol, Admit, Pass, TakeAim, Insert, EditResource, CreateOrder,
         RequestRefund, CreateRefund, AuditRefund, Read, ReadStatus, Enter, Write,
         WriteStatus, Log, LogStatus, Give, Assign, Elsewhere, GiveUp, Fail, rowHistory,
         history
<1> SUFFICES ASSUME NEW x \in Request, TableOf(plan[x].kind) \in Logged,
                    status'[x] # "absent"
             PROVE  TrailOf(x)'
  BY LoggedRow DEF TrailInv, LoggedRows, Rows, Logged
<1>k. TableOf(plan[x].kind) \in Kept
  BY DEF Kept
<1>n. ASSUME status[x] = "absent" PROVE InFlight(x) = {} /\ trail[x] = <<>>
  <2>1. trail[x] = <<>>
    BY <1>n DEF RowInv, FreshInv
  <2>2. ASSUME NEW q \in InFlight(x) PROVE FALSE
    BY <1>n, <2>2, Subjects DEF InFlight, Moving
  <2> QED BY <2>1, <2>2
<1>o. status[x] # "absent" => TrailOf(x)
  BY LoggedRow DEF TrailInv
<1>f. ASSUME r \notin InFlight(x), r \notin InFlight(x)' PROVE InFlight(x)' = InFlight(x)
  <2>1. ASSUME NEW q \in Request, q # r PROVE q \in InFlight(x)' <=> q \in InFlight(x)
    BY <1>0, <2>1, OthersKeep DEF InFlight
  <2> QED BY <1>f, <2>1 DEF InFlight
<1>s. ASSUME r \in InFlight(x)', r \notin InFlight(x), InFlight(x) = {}
      PROVE  InFlight(x)' = {r}
  <2>1. ASSUME NEW q \in Request, q # r PROVE q \in InFlight(x)' <=> q \in InFlight(x)
    BY <1>0, <2>1, OthersKeep DEF InFlight
  <2> QED BY <1>s, <2>1 DEF InFlight
<1>1. CASE CreateOrder(r) /\ x = r
  <2>1. status[r] = "absent"
    BY <1>1, <1>k DEF CreateOrder, At, RowInv, FreshInv
  <2>2. /\ of'[r] = r /\ pc'[r] = "log" /\ target'[r] = status'[r] /\ trail' = trail
    BY <1>0, <1>1 DEF CreateOrder, Goto, RequestTypes
  <2>3. InFlight(x)' = {r}
    BY <1>1, <1>n, <1>s, <2>1, <2>2 DEF InFlight
  <2> QED BY <1>1, <1>n, <2>1, <2>2, <2>3 DEF TrailOf, Chained, Ends
<1>2. CASE Insert(r) /\ x = r
  <2>1. CASE status[r] = "absent"
    <3>1. pc'[r] = "done" /\ trail' = trail
      BY <1>0, <1>2 DEF Insert, Goto, RequestTypes
    <3>2. InFlight(x)' = {}
      BY <1>2, <1>n, <1>f, <2>1, <3>1 DEF InFlight
    <3> QED BY <1>2, <1>n, <2>1, <3>1, <3>2 DEF TrailOf, Chained, Ends
  <2>2. status[r] = "absent"
    BY <1>2, <1>k DEF Insert, RowInv, FreshInv
  <2> QED BY <2>1, <2>2
<1>3. CASE Read(r) /\ of[r] = x /\ pc'[r] = "write"
  <2>1. status[x] # "absent" /\ r \notin InFlight(x)
    BY <1>3, Subjects DEF Read, ReadStatus, Moving, InFlight
  <2>2. /\ seen'[r] = status[x] /\ UNCHANGED <<of, status, trail, torn>>
    BY <1>0, <1>3 DEF Read, ReadStatus, rowVars, RequestTypes
  <2>3. Enter(x)
    BY <1>0, <1>3 DEF Read, ReadStatus, Goto, RequestTypes
  <2>4. CASE InFlight(x) = {}
    <3>1. InFlight(x)' = {r}
      BY <1>3, <1>s, <2>1, <2>2, <2>4 DEF InFlight
    <3> QED BY <1>3, <1>o, <1>m, <2>1, <2>2, <2>4, <3>1 DEF TrailOf
  <2>5. CASE InFlight(x) # {}
    BY <2>3, <2>5 DEF Enter, TrailOf
  <2> QED BY <2>4, <2>5
<1>4. CASE Write(r) /\ of[r] = x
  <2>1. status[x] # "absent" /\ r \in InFlight(x)
    BY <1>4, Subjects DEF Write, WriteStatus, Moving, InFlight
  <2>2. /\ status'[x] = target[r] /\ pc[r] = "write" /\ pc'[r] = "log"
        /\ UNCHANGED <<of, seen, target, trail, mixed, torn>>
    BY <1>0, <1>4 DEF Write, WriteStatus, Goto, RequestTypes
  <2>3. InFlight(x)' = InFlight(x)
    <3>1. ASSUME NEW q \in Request, q # r PROVE q \in InFlight(x)' <=> q \in InFlight(x)
      BY <1>0, <3>1, OthersKeep DEF InFlight
    <3>2. r \in InFlight(x)'
      BY <1>4, <2>2 DEF InFlight
    <3> QED BY <2>1, <3>1, <3>2 DEF InFlight
  <2>4. CASE x \notin mixed \cup torn
    <3>1. /\ Chained(trail[x]) /\ seen[r] = status[x] /\ Ends(trail[x], status[x])
          /\ \A q \in InFlight(x) : q = r
      BY <1>o, <2>1, <2>2, <2>4 DEF TrailOf
    <3>2. Chained(trail'[x]) /\ Ends(trail'[x], seen'[r])
      BY <2>2, <3>1 DEF Chained
    <3>3. \A q \in InFlight(x)' : q = r
      BY <2>3, <3>1
    <3>4. target'[r] = status'[x] /\ pc'[r] = "log" /\ InFlight(x)' # {}
      BY <2>1, <2>2, <2>3
    <3> QED BY <3>2, <3>3, <3>4 DEF TrailOf, Chained, Ends, Last
  <2>5. CASE x \in mixed \cup torn
    BY <2>2, <2>5 DEF TrailOf
  <2> QED BY <2>4, <2>5
<1>5. CASE Log(r) /\ of[r] = x
  <2> DEFINE e == [from |-> seen[r], to |-> target[r]]
  <2>1. status[x] # "absent" /\ r \in InFlight(x)
    BY <1>5, Subjects DEF Log, LogStatus, Moving, InFlight
  <2>2. /\ trail'[x] = Append(trail[x], e) /\ pc[r] = "log" /\ pc'[r] = "done"
        /\ UNCHANGED <<of, seen, target, status, mixed, torn>>
    BY <1>0, <1>5 DEF Log, LogStatus, Goto, RequestTypes, history
  <2>3. CASE x \notin mixed \cup torn
    <3>1. /\ Chained(trail[x]) /\ target[r] = status[x]
          /\ seen[r] = "unread" \/ Ends(trail[x], seen[r])
          /\ \A q \in InFlight(x) : q = r
      BY <1>o, <2>1, <2>2, <2>3 DEF TrailOf
    <3>2. InFlight(x)' = {}
      <4>1. ASSUME NEW q \in InFlight(x)' PROVE FALSE
        <5>1. q # r /\ q \in Request
          BY <2>2, <4>1 DEF InFlight
        <5>2. q \in InFlight(x)
          BY <1>0, <4>1, <5>1, OthersKeep DEF InFlight
        <5> QED BY <3>1, <5>1, <5>2
      <4> QED BY <4>1
    <3>3. trail[x] \in Seq([from : SeenStatus, to : AnyStatus])
          /\ e \in [from : SeenStatus, to : AnyStatus]
      BY <1>0 DEF RequestTypes
    <3>4. e.from = "unread" \/ Ends(trail[x], e.from)
      BY <3>1
    <3>5. e.to = target[r]
      OBVIOUS
    <3> HIDE DEF e
    <3>6. Chained(Append(trail[x], e)) /\ Last(Append(trail[x], e)) = e
      BY <3>1, <3>3, <3>4, ChainGrows
    <3> QED BY <2>2, <3>1, <3>2, <3>5, <3>6 DEF TrailOf, Ends, Chained, Last
  <2>4. CASE x \in mixed \cup torn
    BY <2>2, <2>4 DEF TrailOf
  <2> QED BY <2>3, <2>4
<1>6. CASE Give(r) /\ of[r] = x
  <2>1. status[x] # "absent" /\ r \notin InFlight(x)
    BY <1>6, Subjects DEF Give, Assign, InFlight
  <2>2. /\ status'[x] = target'[r] /\ seen'[r] = "unread" /\ pc'[r] = "log"
        /\ UNCHANGED <<of, trail, torn>>
    BY <1>0, <1>6 DEF Give, Assign, Goto, RequestTypes
  <2>3. Enter(x)
    BY <1>6 DEF Give, Assign
  <2>4. CASE InFlight(x) = {}
    <3>1. InFlight(x)' = {r}
      BY <1>6, <1>s, <2>1, <2>2, <2>4 DEF InFlight
    <3> QED BY <1>o, <1>m, <2>1, <2>2, <2>4, <3>1 DEF TrailOf
  <2>5. CASE InFlight(x) # {}
    BY <2>3, <2>5 DEF Enter, TrailOf
  <2> QED BY <2>4, <2>5
<1>8. CASE GiveUp(r) /\ r \in InFlight(x)
  <2>0. of[r] = x /\ pc[r] \in {"write", "log"}
    BY <1>8 DEF InFlight
  <2>1. /\ pc'[r] = "done" /\ UNCHANGED <<of, seen, target, status, trail, mixed>>
        /\ torn \subseteq torn'
        /\ pc[r] = "log" => x \in torn'
    <3>1. pc'[r] = "done" /\ UNCHANGED <<of, seen, target, status, trail, mixed>>
      BY <1>0, <1>8 DEF GiveUp, Fail, Goto, rowVars, RequestTypes
    <3>2. torn' = IF pc[r] = "log" THEN torn \cup {of[r]} ELSE torn
      BY <1>8 DEF GiveUp, Fail
    <3> QED BY <2>0, <3>1, <3>2
  <2>2. status[x] # "absent"
    BY <1>8, <1>n
  <2>3. CASE x \notin mixed' \cup torn'
    <3>1. /\ Chained(trail[x]) /\ Ends(trail[x], status[x])
          /\ \A q \in InFlight(x) : q = r
      BY <1>8, <1>o, <2>0, <2>1, <2>2, <2>3 DEF TrailOf
    <3>2. InFlight(x)' = {}
      <4>1. ASSUME NEW q \in InFlight(x)' PROVE FALSE
        <5>1. q # r /\ q \in Request
          BY <2>1, <4>1 DEF InFlight
        <5>2. q \in InFlight(x)
          BY <1>0, <4>1, <5>1, OthersKeep DEF InFlight
        <5> QED BY <3>1, <5>1, <5>2
      <4> QED BY <4>1
    <3> QED BY <2>1, <3>1, <3>2 DEF TrailOf, Ends, Chained, Last
  <2>4. CASE x \in mixed' \cup torn'
    BY <2>4 DEF TrailOf
  <2> QED BY <2>3, <2>4
<1>7. CASE /\ ~(CreateOrder(r) /\ x = r) /\ ~(Insert(r) /\ x = r)
           /\ ~(Read(r) /\ of[r] = x /\ pc'[r] = "write")
           /\ ~((Write(r) \/ Log(r) \/ Give(r)) /\ of[r] = x)
           /\ ~(GiveUp(r) /\ r \in InFlight(x))
  <2>1. r \notin InFlight(x)
    BY <1>7 DEF InFlight, RowStep, Enrol, Admit, Pass, TakeAim, Insert, EditResource,
                CreateOrder, RequestRefund, CreateRefund, AuditRefund, Read, ReadStatus,
                Write, Log, Give, Assign, Elsewhere, At
  <2>2. r \notin InFlight(x)'
    <3>1. CASE Read(r) \/ Write(r) \/ Log(r) \/ Give(r)
      BY <1>0, <1>7, <3>1 DEF InFlight, Read, ReadStatus, Write, WriteStatus, Log, LogStatus,
                              Give, Assign, Goto, RequestTypes
    <3>2. CASE CreateOrder(r)
      BY <1>0, <1>7, <3>2 DEF InFlight, CreateOrder, RequestTypes
    <3>3. CASE Enrol(r) \/ Pass(r) \/ Insert(r) \/ EditResource(r) \/ Elsewhere(r)
               \/ RequestRefund(r) \/ GiveUp(r)
      BY <1>0, <3>3 DEF InFlight, Enrol, Admit, Pass, Insert, EditResource, Elsewhere,
                        RequestRefund, GiveUp, Fail, Goto, RequestTypes
    <3>4. CASE TakeAim(r) \/ CreateRefund(r) \/ AuditRefund(r)
      BY <1>0, <3>4 DEF InFlight, TakeAim, CreateRefund, AuditRefund, Aim, Goto, RequestTypes
    <3> QED BY <3>1, <3>2, <3>3, <3>4 DEF RowStep
  <2>3. InFlight(x)' = InFlight(x)
    BY <1>f, <2>1, <2>2
  <2>4. status'[x] = status[x]
    <3>1. ~CreateRefund(r) \/ x # r
      BY DEF CreateRefund, At, TableOf, Logged
    <3>2. ~AuditRefund(r) \/ x # of[r]
      BY Subjects DEF AuditRefund, At, Is, TableOf, Logged
    <3> QED BY <1>7, <1>k, <3>1, <3>2, Changes
  <2>5. trail'[x] = trail[x]
    BY <1>0, <1>7
       DEF RowStep, Enrol, Admit, Pass, TakeAim, Insert, EditResource, CreateOrder,
           RequestRefund, CreateRefund, AuditRefund, Read, ReadStatus, Write, WriteStatus,
           Log, LogStatus, Give, Assign, Elsewhere, GiveUp, Fail, rowVars, RequestTypes
  <2>6. \A q \in InFlight(x) : /\ pc'[q] = pc[q] /\ seen'[q] = seen[q]
                               /\ target'[q] = target[q]
    BY <1>0, <2>1, OthersKeep DEF InFlight
  <2> QED BY <1>o, <1>m, <2>3, <2>4, <2>5, <2>6, TrailKept
<1> QED BY <1>1, <1>2, <1>3, <1>4, <1>5, <1>6, <1>7, <1>8

LEMMA TrailStays ==
    ASSUME RowInv, RowInv', TrailInv, Step, plan' = plan
    PROVE  TrailInv'
<1>1. CASE Asleep
  <2> SUFFICES ASSUME NEW x \in LoggedRows' PROVE TrailOf(x)'
    BY DEF TrailInv
  <2>1. x \in LoggedRows /\ x \in Request
    BY <1>1 DEF Asleep, rowVars, LoggedRows, Rows
  <2> QED BY <1>1, <2>1, TrailKept DEF TrailInv, Asleep, rowVars, rowHistory, InFlight
<1>2. CASE Die
  <2> SUFFICES ASSUME NEW x \in LoggedRows' PROVE TrailOf(x)'
    BY DEF TrailInv
  <2>1. x \in LoggedRows /\ x \in Request
    BY <1>2 DEF Die, Crash, rowVars, LoggedRows, Rows
  <2>2. /\ mixed' = mixed /\ status' = status /\ trail' = trail /\ torn \subseteq torn'
        /\ \A q \in InFlight(x) : pc[q] = "log" => x \in torn'
    BY <1>2 DEF Die, Crash, rowVars, InFlight
  <2>3. InFlight(x)' = {}
    BY <1>2 DEF Die, Crash, Running, InFlight, RowInv, RequestTypes
  <2>4. ASSUME x \notin mixed' \cup torn'
        PROVE  Chained(trail[x]) /\ Ends(trail[x], status[x])
    <3>1. TrailOf(x) /\ x \notin mixed \cup torn
      BY <2>1, <2>2, <2>4 DEF TrailInv
    <3>2. \A q \in InFlight(x) : pc[q] = "write"
      BY <2>2, <2>4 DEF InFlight
    <3> QED BY <3>1, <3>2 DEF TrailOf
  <2> QED BY <2>2, <2>3, <2>4 DEF TrailOf, Chained, Ends, Last
<1> QED BY <1>1, <1>2, TrailStepStays DEF Step

(* UpdateOrderStatus, UpdateServiceOrderStatus and UpdateTicketStatus read,  *)
(* write and record in three statements: the records of a row lead to its    *)
(* status as soon as nobody is between them, unless two transitions of the   *)
(* row overlapped, or the record of one failed or fell to a crash.           *)
THEOREM TrailIsHistory == Spec => []TrailFaithful
<1>1. Init => TrailInv
  BY DEF Init, TrailInv, LoggedRows, Rows
<1>2. RowInv /\ RowInv' /\ TrailInv /\ [Next]_vars => TrailInv'
  BY Steps, TrailStays
<1>3. TrailInv => TrailFaithful
  BY DEF TrailInv, TrailFaithful, LoggedRows, TrailOf, Ends
<1> QED BY <1>1, <1>2, <1>3, RowInvariant, PTL DEF Spec
-----------------------------------------------------------------------------
(* Refunds: whoever has passed RequestRefund's check either still has to     *)
(* move the order to refunding, or has, or the order has left it again.      *)
Passed(f) == /\ Is(f, {"requestRefund"})
             /\ pc[f] \in {"insert", "read", "write"} \/ status[f] # "absent"
RefundInv ==
    /\ \A f \in Request : Is(f, {"requestRefund"}) =>
          /\ status[f] # "absent" /\ pc[f] \notin {"read", "write"}
                => status[of[f]] = "refunding" \/ of[f] \in freed
          /\ pc[f] \in {"read", "write"} => target[f] = "refunding"
    /\ \A f, g \in Request :
          Passed(f) /\ Passed(g) /\ f # g /\ of[f] = of[g] => of[f] \in rushed \cup freed

LEMMA RefundStepStays ==
    ASSUME RowInv, RowInv', RefundInv, NEW r \in Request, RowStep(r), plan' = plan
    PROVE  RefundInv'
<1>0. RequestTypes /\ RequestTypes'
  BY DEF RowInv
<1>m. freed \subseteq freed' /\ rushed \subseteq rushed'
  BY DEF RowStep, Enrol, Admit, Pass, TakeAim, Insert, EditResource, CreateOrder,
         RequestRefund, CreateRefund, AuditRefund, Read, ReadStatus, Write,
         WriteStatus, Log, LogStatus, Give, Assign, Elsewhere, GiveUp, Fail, rowHistory,
         history, orderVars
<1>f. \A f \in Request : Is(f, {"requestRefund"}) =>
        /\ TableOf(plan[f].kind) \in Kept
        /\ pc[f] # "start" => /\ of[f] \in Request /\ TableOf(plan[of[f]].kind) = "orders"
        /\ pc[f] \in {"start", "admitted", "insert"} => status[f] = "absent"
  <2>1. \A f \in Request : Is(f, {"requestRefund"}) => TableOf(plan[f].kind) \in Kept
    BY DEF Is, TableOf, Kept
  <2>2. \A f \in Request : Is(f, {"requestRefund"}) /\ pc[f] # "start" =>
          of[f] \in Request /\ TableOf(plan[of[f]].kind) = "orders"
    BY Subjects
  <2> QED BY <2>1, <2>2 DEF RowInv, FreshInv
<1>o. ASSUME NEW x \in Request, TableOf(plan[x].kind) = "orders", status[x] = "refunding"
      PROVE  status'[x] = "refunding" \/ x \in freed'
  <2>1. ~(Give(r) /\ x = of[r])
    BY <1>o, Subjects DEF Give, Assign, RowInv, SubjectInv, SubjectOf, Is, ServiceKinds,
                          TicketKinds, Busy, Rows
  <2>2. ~(AuditRefund(r) /\ x = of[r])
    BY <1>o, Subjects DEF AuditRefund, At, Is, TableOf
  <2>3. Write(r) /\ x = of[r] => x \in freed'
    BY <1>o DEF Write, WriteStatus
  <2>4. TableOf(plan[x].kind) \in Kept
    BY <1>o DEF Kept, Logged
  <2> QED BY <1>o, <2>1, <2>2, <2>3, <2>4, Changes
<1>c. ASSUME NEW f \in Request, Is(f, {"requestRefund"}), status'[f] # "absent",
             ~(CreateRefund(r) /\ f = r)
      PROVE  status[f] # "absent"
  <2>1. ~((Insert(r) \/ CreateOrder(r)) /\ f = r)
    BY <1>c DEF Insert, CreateOrder, At, Is
  <2> QED BY <1>c, <1>f, <2>1, Changes
<1>1. ASSUME NEW f \in Request, Is(f, {"requestRefund"}), status'[f] # "absent",
             pc'[f] \notin {"read", "write"}
      PROVE  status'[of'[f]] = "refunding" \/ of'[f] \in freed'
  <2>1. CASE f # r \/ (f = r /\ (Log(r) \/ Elsewhere(r)))
    <3>1. pc[f] \notin {"read", "write"} /\ of'[f] = of[f] /\ ~(CreateRefund(r) /\ f = r)
      BY <1>0, <1>1, <2>1, OthersKeep
         DEF Log, LogStatus, Elsewhere, CreateRefund, At
    <3>2. status[f] # "absent"
      BY <1>1, <1>c, <3>1
    <3>3. status[of[f]] = "refunding" \/ of[f] \in freed
      BY <1>1, <3>1, <3>2 DEF RefundInv
    <3> QED BY <1>1, <1>f, <1>m, <1>o, <3>1, <3>2, <3>3
  <2>7. CASE f = r /\ GiveUp(r)
    <3>1. of'[f] = of[f] /\ status'[f] = status[f]
      BY <2>7 DEF GiveUp, Fail, rowVars
    <3>2. CASE pc[f] \in {"read", "write"}
      BY <1>1, <2>7, <3>1, <3>2 DEF GiveUp, Fail
    <3>3. CASE pc[f] \notin {"read", "write"}
      <4>1. status[of[f]] = "refunding" \/ of[f] \in freed
        BY <1>1, <3>1, <3>3 DEF RefundInv
      <4>2. of[f] \in Request /\ TableOf(plan[of[f]].kind) = "orders"
        BY <1>1, <1>f, <3>1, <2>7 DEF GiveUp, Fail, Running
      <4> QED BY <1>m, <1>o, <3>1, <4>1, <4>2
    <3> QED BY <3>2, <3>3
  <2>2. CASE f = r /\ (Enrol(r) \/ RequestRefund(r))
    <3>1. pc[r] \in {"start", "admitted"} /\ UNCHANGED status
      BY <2>2 DEF Enrol, Admit, RequestRefund, At, rowVars
    <3> QED BY <1>1, <1>f, <2>2, <3>1
  <2>3. CASE f = r /\ Read(r)
    <3>1. /\ pc[r] = "read" /\ status[of[r]] = target[r] /\ UNCHANGED <<of, status>>
      BY <1>0, <1>1, <2>3 DEF Read, ReadStatus, Goto, RequestTypes, rowVars
    <3>2. target[r] = "refunding"
      BY <1>1, <2>3, <3>1 DEF RefundInv
    <3> QED BY <2>3, <3>1, <3>2
  <2>4. CASE f = r /\ Write(r)
    <3>1. target[r] = "refunding" /\ of[r] \in Request
      BY <1>1, <2>4, Subjects DEF RefundInv, Write, WriteStatus, Moving
    <3> QED BY <1>0, <2>4, <3>1 DEF Write, WriteStatus, RequestTypes
  <2>5. CASE f = r /\ CreateRefund(r)
    BY <1>0, <1>1, <2>5 DEF CreateRefund, Aim, Goto, RequestTypes
  <2>6. ~(Pass(r) \/ TakeAim(r) \/ Insert(r) \/ EditResource(r) \/ CreateOrder(r)
          \/ AuditRefund(r) \/ Give(r)) \/ f # r
    BY <1>1 DEF Pass, TakeAim, Insert, EditResource, CreateOrder, AuditRefund, Give, At, Is
  <2> QED BY <2>1, <2>2, <2>3, <2>4, <2>5, <2>6, <2>7 DEF RowStep
<1>2. ASSUME NEW f \in Request, Is(f, {"requestRefund"}), pc'[f] \in {"read", "write"}
      PROVE  target'[f] = "refunding"
  <2>1. CASE f # r
    BY <1>0, <1>2, <2>1, OthersKeep DEF RefundInv
  <2>2. CASE f = r /\ CreateRefund(r)
    BY <1>0, <2>2 DEF CreateRefund, Aim, RequestTypes
  <2>3. CASE f = r /\ ~CreateRefund(r)
    <3>1. Read(r)
      <4>1. ~(Pass(r) \/ TakeAim(r) \/ Insert(r) \/ EditResource(r) \/ CreateOrder(r)
              \/ AuditRefund(r) \/ Give(r))
        BY <1>2, <2>3 DEF Pass, TakeAim, Insert, EditResource, CreateOrder, AuditRefund,
                          Give, At, Is
      <4>2. ~(Enrol(r) \/ RequestRefund(r) \/ Write(r) \/ Log(r) \/ Elsewhere(r)
              \/ GiveUp(r))
        BY <1>0, <1>2, <2>3 DEF Enrol, Admit, RequestRefund, Write, WriteStatus, Log,
                                LogStatus, Elsewhere, GiveUp, Fail, Goto, RequestTypes
      <4> QED BY <2>3, <4>1, <4>2 DEF RowStep
    <3> QED BY <1>2, <2>3, <3>1 DEF Read, ReadStatus, RefundInv
  <2> QED BY <2>1, <2>2, <2>3
<1>3. ASSUME NEW f \in Request, Passed(f)', ~(RequestRefund(r) /\ f = r)
      PROVE  Passed(f) /\ of'[f] = of[f]
  <2>1. Is(f, {"requestRefund"})
    BY <1>3 DEF Passed, Is
  <2>2. CASE f # r
    BY <1>0, <1>3, <1>c, <2>1, <2>2, OthersKeep DEF Passed
  <2>3. CASE f = r
    <3>1. ~(Pass(r) \/ TakeAim(r) \/ Insert(r) \/ EditResource(r) \/ CreateOrder(r)
            \/ AuditRefund(r) \/ Give(r))
      BY <2>1, <2>3 DEF Pass, TakeAim, Insert, EditResource, CreateOrder, AuditRefund, Give,
                        At, Is
    <3>2. CASE CreateRefund(r) \/ Read(r) \/ Write(r)
      BY <2>1, <2>3, <3>2 DEF CreateRefund, Read, ReadStatus, Write, WriteStatus, At, Passed
    <3>4. CASE GiveUp(r)
      <4>1. pc'[r] = "done" /\ UNCHANGED <<status, of>>
        BY <1>0, <3>4 DEF GiveUp, Fail, Goto, rowVars, RequestTypes
      <4> QED BY <1>3, <2>1, <2>3, <4>1 DEF Passed
    <3>3. CASE Enrol(r) \/ Log(r) \/ Elsewhere(r)
      <4>1. pc'[r] \notin {"insert", "read", "write"}
        BY <1>0, <3>3 DEF Enrol, Admit, Log, LogStatus, Elsewhere, Goto, RequestTypes
      <4>2. ~CreateRefund(r)
        BY <3>3 DEF Enrol, Admit, Log, LogStatus, Elsewhere, CreateRefund, At
      <4>3. status[r] # "absent"
        BY <1>3, <1>c, <2>1, <2>3, <4>1, <4>2 DEF Passed
      <4>4. pc[r] # "start"
        BY <1>f, <2>1, <2>3, <4>3
      <4> QED BY <2>1, <2>3, <3>3, <4>3, <4>4 DEF Enrol, Admit, Log, LogStatus, Elsewhere,
                                                  Passed
    <3> QED BY <1>3, <2>3, <3>1, <3>2, <3>3, <3>4 DEF RowStep
  <2> QED BY <2>2, <2>3
<1>4. ASSUME NEW f \in Request, NEW g \in Request, Passed(f)', Passed(g)', f # g,
             of'[f] = of'[g], ~(RequestRefund(r) /\ g = r)
      PROVE  of'[f] \in rushed' \cup freed'
  <2>g. Passed(g) /\ of'[g] = of[g] /\ Is(g, {"requestRefund"})
    BY <1>3, <1>4 DEF Passed
  <2>1. CASE ~(RequestRefund(r) /\ f = r)
    BY <1>3, <1>4, <1>m, <2>1, <2>g DEF RefundInv
  <2>2. CASE RequestRefund(r) /\ f = r
    <3>1. /\ of' = of /\ status' = status /\ pc[r] = "admitted" /\ Is(r, {"requestRefund"})
          /\ pc'[r] \in {"insert", "done"}
      BY <1>0, <2>2 DEF RequestRefund, At, Is, Goto, RequestTypes, rowVars
    <3>2. status[r] = "absent"
      BY <1>f, <3>1
    <3>3. pc'[r] = "insert"
      BY <1>4, <2>2, <3>1, <3>2 DEF Passed
    <3>4. /\ Refundable(status[of[r]])
          /\ rushed' = IF Refunding(of[r]) = {} THEN rushed ELSE rushed \cup {of[r]}
      BY <1>0, <2>2, <3>3 DEF RequestRefund, Goto, RequestTypes
    <3>5. CASE pc[g] \in {"insert", "read", "write"}
      <4>1. g \in Refunding(of[r])
        BY <1>4, <2>2, <2>g, <3>1, <3>5 DEF Refunding
      <4> QED BY <2>2, <3>1, <3>4, <4>1
    <3>6. CASE pc[g] \notin {"insert", "read", "write"}
      <4>1. status[of[g]] = "refunding" \/ of[g] \in freed
        BY <2>g, <3>6 DEF Passed, RefundInv
      <4> QED BY <1>4, <1>m, <2>2, <3>1, <3>4, <4>1 DEF Refundable
    <3> QED BY <3>5, <3>6
  <2> QED BY <2>1, <2>2
<1>5. \A f, g \in Request : Passed(f)' /\ Passed(g)' /\ f # g /\ of'[f] = of'[g]
         => of'[f] \in rushed' \cup freed'
  BY <1>4
<1>6. \A f \in Request : Is(f, {"requestRefund"})' = Is(f, {"requestRefund"})
  BY DEF Is
<1> QED BY <1>1, <1>2, <1>5, <1>6 DEF RefundInv

LEMMA RefundStays ==
    ASSUME RowInv, RowInv', RefundInv, Step, plan' = plan
    PROVE  RefundInv'
<1>1. CASE Asleep
  BY <1>1 DEF Asleep, rowVars, rowHistory, RefundInv, Passed, Is
<1>2. CASE Die
  <2>1. /\ UNCHANGED <<of, target, status>> /\ freed \subseteq freed' /\ rushed' = rushed
        /\ \A f \in Request : Is(f, {"requestRefund"}) /\ pc[f] \in {"read", "write"}
              => of[f] \in freed'
    BY <1>2 DEF Die, Crash, rowVars
  <2>2. \A f \in Request : pc'[f] \notin {"insert", "read", "write"}
    BY <1>2 DEF Die, Crash, Running, RowInv, RequestTypes
  <2>3. \A f \in Request : Passed(f)' => Passed(f)
    BY <2>1, <2>2 DEF Passed, Is
  <2> QED BY <2>1, <2>2, <2>3 DEF RefundInv, Is
<1> QED BY <1>1, <1>2, RefundStepStays DEF Step

(* RequestRefund looks at the order, inserts a refund and moves the order in *)
(* three statements, and AuditRefund looks at neither: one order has two     *)
(* open refunds only if two requests were between those statements at once,  *)
(* or the order had left "refunding", or a statement failed or the process   *)
(* died on the way there.                                                    *)
THEOREM OneRefundWaits == Spec => []RefundsExplained
<1>1. Init => RefundInv
  BY DEF Init, RefundInv, Passed, Is
<1>2. RowInv /\ RowInv' /\ RefundInv /\ [Next]_vars => RefundInv'
  BY Steps, RefundStays
<1>3. RowInv /\ RefundInv => RefundsExplained
  <2>1. \A f \in Rows("refunds") : f \in Request /\ Is(f, {"requestRefund"})
                                   /\ status[f] # "absent"
    BY DEF Rows, TableOf, Is
  <2> QED BY <2>1 DEF RefundsExplained, RefundInv, Passed
<1> QED BY <1>1, <1>2, <1>3, RowInvariant, PTL DEF Spec
-----------------------------------------------------------------------------
LEMMA ResourceTypesStay == ASSUME ResourceTypes, Next PROVE ResourceTypes'
<1>1. CASE UNCHANGED resourceVars
  BY <1>1 DEF ResourceTypes, resourceVars
<1>2. ASSUME NEW r \in Request, ResourceStep(r) PROVE ResourceTypes'
  <2>1. CASE CreateResource(r) \/ UpdateResource(r)
    BY <2>1 DEF CreateResource, UpdateResource, ResourceTypes
  <2>2. CASE ReviewResource(r) \/ DeleteResource(r) \/ CheckRow(r) \/ CheckWhitelist(r)
    BY <2>2 DEF ReviewResource, DeleteResource, CheckRow, CheckWhitelist, resourceVars,
                ResourceTypes
  <2>3. CASE EditWhitelist(r)
    BY <2>3 DEF EditWhitelist, ResourceTypes
  <2>4. CASE RecordDownload(r) \/ TallyDownload(r) \/ ShareFile(r)
    BY <2>4 DEF RecordDownload, TallyDownload, ShareFile, ResourceTypes
  <2> QED BY <1>2, <2>1, <2>2, <2>3, <2>4 DEF ResourceStep
<1> QED BY <1>1, <1>2 DEF Next, BizStep, bizVars

LEMMA ResourceTypesHold == Spec => []ResourceTypes
<1>1. Init => ResourceTypes
  BY DEF Init, ResourceTypes
<1>2. ResourceTypes /\ [Next]_vars => ResourceTypes'
  BY ResourceTypesStay DEF vars, resourceVars, ResourceTypes
<1> QED BY <1>1, <1>2, PTL DEF Spec
(* Downloads.  A download that is past the row's check found it published,   *)
(* and, past the whitelist's, its user listed: if it was never entitled, the *)
(* row and the list have both changed between the two.                       *)
AccessOf(r) ==
    /\ Downloading(r) /\ Entitled(r) => r \in entitled
    /\ Downloading(r) /\ pc[r] = "count" /\ r \notin entitled =>
          /\ r \in revised \/ status[of[r]] = "published"
          /\ r \in relisted \/ plan[r].user \notin listed[of[r]]
    /\ \/ Downloading(r) /\ pc[r] \in {"record", "tally", "share"}
       \/ r \in links
       => r \in entitled \/ r \in revised \cap relisted
AccessInv == \A r \in Request : AccessOf(r)

LEMMA Observed ==
    ASSUME Observe
    PROVE  /\ entitled \subseteq entitled' /\ revised \subseteq revised'
           /\ relisted \subseteq relisted'
           /\ \A r \in Request : Downloading(r)' =>
                /\ Entitled(r)' => r \in entitled'
                /\ Downloading(r) /\ status'[of'[r]] # status[of[r]] => r \in revised'
                /\ Downloading(r) /\ listed'[of'[r]] # listed[of[r]] => r \in relisted'
BY DEF Observe

(* What one step does to a download.                                         *)
Untouched(r) == pc'[r] = pc[r] /\ of'[r] = of[r] /\ (r \in links' => r \in links)
Ended(r) == pc'[r] \in {"done", "lost"} /\ (r \in links' => r \in links)
Checks(r) ==
    /\ UNCHANGED <<of, status, policy, listed, links>>
    /\ \/ /\ pc[r] = "admitted" /\ status[of[r]] = "published"
          /\ \/ pc'[r] = "record" /\ policy[of[r]] = "open"
             \/ pc'[r] = "count"
       \/ pc[r] = "count" /\ pc'[r] = "record" /\ plan[r].user \in listed[of[r]]
Records(r) == /\ pc[r] \in {"record", "tally", "share"}
              /\ pc'[r] \in {"tally", "share", "done"}
              /\ of' = of

LEMMA DownloadSteps ==
    ASSUME RowInv, Next, NEW r \in Request, Is(r, {"accessResource"})
    PROVE  \/ Untouched(r) \/ Ended(r) \/ Checks(r) \/ Records(r)
           \/ pc'[r] = "admitted" /\ ~Downloading(r) /\ (r \in links' => r \in links)
<1>0. RequestTypes
  BY DEF RowInv
<1>1. ASSUME NEW q \in Request, q # r, BizStep(q) PROVE Untouched(r)
  <2>1. pc'[r] = pc[r] /\ of'[r] = of[r]
    BY <1>0, <1>1, BizStepKinds, OthersKeep
  <2>2. r \in links' => r \in links
    <3>1. CASE UNCHANGED resourceVars
      BY <3>1 DEF resourceVars
    <3>2. CASE ResourceStep(q)
      BY <1>1, <3>2 DEF ResourceStep, CreateResource, UpdateResource, ReviewResource,
            DeleteResource, EditWhitelist, CheckRow, CheckWhitelist, RecordDownload,
            TallyDownload, ShareFile, resourceVars
    <3> QED BY <1>1, <3>1, <3>2 DEF BizStep
  <2> QED BY <2>1, <2>2 DEF Untouched
<1>2. CASE BizStep(r)
  <2>1. CASE Admit(r)
    <3>1. pc[r] = "start" /\ pc'[r] \in {"admitted", "done"}
      BY <1>0, <2>1 DEF Admit, Goto, RequestTypes
    <3>2. links' = links
      BY <1>2, <2>1 DEF BizStep, Admit, ResourceStep, CreateResource, UpdateResource,
            ReviewResource, DeleteResource, EditWhitelist, CheckRow, CheckWhitelist,
            RecordDownload, TallyDownload, ShareFile, At, resourceVars
    <3> QED BY <3>1, <3>2 DEF Ended, Downloading, Running
  <2>2. CASE CheckRow(r)
    <3>1. /\ pc[r] = "admitted" /\ UNCHANGED <<of, status, policy, listed, links>>
          /\ pc'[r] = IF status[of[r]] # "published" THEN "done"
                      ELSE IF policy[of[r]] = "open" THEN "record" ELSE "count"
      BY <1>0, <2>2 DEF CheckRow, At, Goto, RequestTypes, rowVars, resourceVars
    <3>2. CASE status[of[r]] # "published"
      BY <3>1, <3>2 DEF Ended
    <3>3. CASE status[of[r]] = "published" /\ policy[of[r]] = "open"
      BY <3>1, <3>3 DEF Checks
    <3>4. CASE status[of[r]] = "published" /\ policy[of[r]] # "open"
      BY <3>1, <3>4 DEF Checks
    <3> QED BY <3>2, <3>3, <3>4
  <2>3. CASE CheckWhitelist(r)
    BY <1>0, <2>3 DEF CheckWhitelist, At, Goto, RequestTypes, rowVars, resourceVars, Checks,
                      Ended
  <2>4. CASE RecordDownload(r) \/ TallyDownload(r) \/ ShareFile(r)
    BY <1>0, <2>4 DEF RecordDownload, TallyDownload, ShareFile, At, Goto, RequestTypes,
                      Records
  <2>5. ~OrderStep(r) /\ ~AssignRole(r) /\ ~UnassignRole(r)
    BY DEF OrderStep, CreateOrder, PayOrder, PutOrderStatus, UpdateOrderStatus,
           RequestRefund, CreateRefund, AuditRefund, CountOrders, CountPaid, AssignRole,
           UnassignRole, At, Is
  <2>6. ~ServiceStep(r)
    BY DEF ServiceStep, CheckServiceOrder, CreateServiceOrder, AssignServiceOwner,
           PostServiceStatus, SubmitAcceptance, UpdateServiceOrderStatus, CreateTicket,
           AddTicketReply, AssignTicket, PostTicketStatus, AddTicketEvaluation,
           UpdateTicketStatus, At, Is
  <2>7. ~(CreateResource(r) \/ UpdateResource(r) \/ ReviewResource(r) \/ DeleteResource(r)
          \/ EditWhitelist(r))
    BY DEF CreateResource, UpdateResource, ReviewResource, DeleteResource, EditWhitelist,
           At, Is
  <2>8. CASE Fail(r) /\ UNCHANGED resourceVars
    BY <1>0, <2>8 DEF Fail, Goto, RequestTypes, resourceVars, Ended
  <2> QED BY <1>2, <2>1, <2>2, <2>3, <2>4, <2>5, <2>6, <2>7, <2>8 DEF BizStep, Shared,
             ResourceStep
<1>3. ASSUME NEW q \in Request, WorkbenchStep(q), UNCHANGED bizVars
      PROVE  Untouched(r) \/ Ended(r)
  <2>1. of' = of /\ links' = links
    BY <1>3 DEF bizVars, resourceVars
  <2>2. CASE q # r
    BY <1>0, <1>3, <2>1, <2>2, WorkbenchStepKinds, OthersKeep DEF Untouched
  <2>3. CASE q = r
    <3>1. WriteFlag(r)
      BY <1>3, <2>3 DEF WorkbenchStep, Name, Create, UpdateProject, DeleteProject, ReadFlag,
            At, Is, WorkbenchKind
    <3> QED BY <1>0, <2>1, <3>1 DEF WriteFlag, Respond, Goto, RequestTypes, Ended
  <2> QED BY <2>2, <2>3
<1>4. ASSUME UNCHANGED <<pc, bizVars>> PROVE Untouched(r)
  BY <1>4 DEF bizVars, resourceVars, Untouched
<1>5. ASSUME Crash, UNCHANGED resourceVars PROVE Untouched(r) \/ Ended(r)
  BY <1>0, <1>5 DEF Crash, resourceVars, Untouched, Ended, RequestTypes
<1> QED BY <1>1, <1>2, <1>3, <1>4, <1>5 DEF Next

LEMMA AccessStays == ASSUME RowInv, AccessInv, Next PROVE AccessInv'
<1> SUFFICES ASSUME NEW r \in Request PROVE AccessOf(r)'
  BY DEF AccessInv
<1>0. Observe /\ plan' = plan
  BY DEF Next
<1>1. AccessOf(r)
  BY DEF AccessInv
<1>2. Downloading(r)' /\ Entitled(r)' => r \in entitled'
  BY <1>0, Observed
<1>3. CASE ~Is(r, {"accessResource"})
  <2>1. r \in links' => r \in links
    <3>1. ~ShareFile(r)
      BY <1>3 DEF ShareFile, At, Is
    <3>2. ASSUME NEW q \in Request, BizStep(q), r \in links' PROVE r \in links
      BY <3>1, <3>2 DEF BizStep, ResourceStep, CreateResource, UpdateResource,
           ReviewResource, DeleteResource, EditWhitelist, CheckRow, CheckWhitelist,
           RecordDownload, TallyDownload, ShareFile, resourceVars
    <3>3. ASSUME UNCHANGED bizVars PROVE links' = links
      BY <3>3 DEF bizVars, resourceVars
    <3> QED BY <3>2, <3>3 DEF Next, bizVars, resourceVars
  <2>2. ~Downloading(r)'
    BY <1>0, <1>3 DEF Downloading, Is
  <2> QED BY <1>0, <1>1, <2>1, <2>2, Observed DEF AccessOf
<1>4. CASE Is(r, {"accessResource"})
  <2>d. Downloading(r) <=> Running(r)
    BY <1>4 DEF Downloading
  <2>h. entitled \subseteq entitled' /\ revised \subseteq revised' /\ relisted \subseteq relisted'
    BY <1>0, Observed
  <2>1. CASE Untouched(r)
    <3>1. Downloading(r)' <=> Downloading(r)
      BY <1>0, <2>1 DEF Untouched, Downloading, Running, Is
    <3>2. Downloading(r) => /\ status'[of'[r]] = status[of[r]] \/ r \in revised'
                            /\ listed'[of'[r]] = listed[of[r]] \/ r \in relisted'
      BY <1>0, <3>1, Observed
    <3> QED BY <1>0, <1>1, <1>2, <2>1, <2>h, <3>1, <3>2 DEF AccessOf, Untouched
  <2>2. CASE Ended(r)
    <3>1. ~Downloading(r)'
      BY <2>2 DEF Ended, Downloading, Running
    <3> QED BY <1>1, <2>2, <2>h, <3>1 DEF AccessOf, Ended
  <2>3. CASE Checks(r)
    <3>0. r \in links' => r \in links
      BY <2>3 DEF Checks
    <3>1. Downloading(r)
      BY <2>3, <2>d DEF Checks, Running
    <3>2. CASE pc[r] = "admitted" /\ status[of[r]] = "published" /\ pc'[r] = "record"
               /\ policy[of[r]] = "open"
      <4>1. r \in entitled
        BY <1>1, <3>1, <3>2 DEF AccessOf, Entitled
      <4> QED BY <1>2, <2>h, <3>2, <4>1 DEF AccessOf
    <3>3. CASE pc[r] = "admitted" /\ status[of[r]] = "published" /\ pc'[r] = "count"
      <4>1. r \in entitled \/ plan[r].user \notin listed[of[r]]
        BY <1>1, <3>1, <3>3 DEF AccessOf, Entitled
      <4> QED BY <1>0, <1>1, <1>2, <2>3, <2>h, <3>0, <3>3, <4>1 DEF AccessOf, Checks
    <3>4. CASE pc[r] = "count" /\ pc'[r] = "record" /\ plan[r].user \in listed[of[r]]
      <4>1. r \in entitled \/ (r \in revised \cap relisted)
        BY <1>1, <3>1, <3>4 DEF AccessOf, Entitled
      <4> QED BY <1>2, <2>h, <3>4, <4>1 DEF AccessOf
    <3> QED BY <2>3, <3>2, <3>3, <3>4 DEF Checks
  <2>4. CASE Records(r)
    <3>1. r \in entitled \/ (r \in revised \cap relisted)
      BY <1>1, <2>4, <2>d DEF AccessOf, Records, Running
    <3>2. pc'[r] # "count"
      BY <2>4 DEF Records
    <3> QED BY <1>2, <2>h, <3>1, <3>2 DEF AccessOf
  <2>5. CASE pc'[r] = "admitted" /\ ~Downloading(r) /\ (r \in links' => r \in links)
    BY <1>1, <1>2, <2>5, <2>h DEF AccessOf
  <2> QED BY <1>4, <2>1, <2>2, <2>3, <2>4, <2>5, DownloadSteps
<1> QED BY <1>3, <1>4

(* CheckResourceAccess reads the row and the whitelist in two queries: a     *)
(* link is given to a user whom the resource was open to at some instant of  *)
(* the request, or the row and the list both changed meanwhile.              *)
THEOREM AccessWasAllowed == Spec => []AccessExplained
<1>1. Init => AccessInv
  BY DEF Init, AccessInv, AccessOf, Downloading, Running
<1>2. RowInv /\ AccessInv /\ [Next]_vars => AccessInv'
  <2>1. ASSUME AccessInv, UNCHANGED vars PROVE AccessInv'
    BY <2>1 DEF vars, requestVars, rowVars, resourceVars, accessHistory, AccessInv, AccessOf,
                Downloading, Running, Entitled, Is
  <2> QED BY <2>1, AccessStays
<1>3. AccessInv /\ ResourceTypes => AccessExplained
  BY DEF AccessInv, AccessOf, AccessExplained, ResourceTypes
<1> QED BY <1>1, <1>2, <1>3, ResourceTypesHold, RowInvariant, PTL DEF Spec
-----------------------------------------------------------------------------
(***************************************************************************)
(* The workbench                                                           *)
(***************************************************************************)
(* A set of natural numbers with a bound has a greatest element: < is well   *)
(* founded on Nat, so the set of its bounds has a least one.                 *)
LEMMA Ordered ==
    \E R : /\ IsWellFoundedOn(R, Nat)
           /\ \A a, b \in Nat : <<a, b>> \in R <=> a < b
<1> DEFINE R == OpToRel(<, Nat)
<1>1. IsWellFoundedOn(R, Nat)
  BY NatLessThanWellFounded
<1>2. \A a, b \in Nat : <<a, b>> \in R <=> a < b
  BY DEF OpToRel
<1> QED BY <1>1, <1>2, Zenon

LEMMA Least == ASSUME NEW S \in SUBSET Nat, S # {} PROVE \E m \in S : \A n \in S : m <= n
<1>1. PICK R : /\ IsWellFoundedOn(R, Nat)
               /\ \A a, b \in Nat : <<a, b>> \in R <=> a < b
  BY Ordered
<1>2. PICK m \in S : \A n \in S : ~(<<n, m>> \in R)
  <2>1. S \subseteq Nat /\ S # {}
    OBVIOUS
  <2>2. IsWellFoundedOn(R, Nat)
    BY <1>1
  <2>3. \E m \in S : \A n \in S : ~(<<n, m>> \in R)
    BY <2>1, <2>2, WFMin
  <2> QED BY <2>3
<1>3. \A n \in S : ~(n < m)
  BY <1>1, <1>2
<1>4. \A n \in S : m <= n
  BY <1>3
<1> QED BY <1>4

LEMMA Greatest ==
    ASSUME NEW S \in SUBSET Nat, S # {}, NEW b \in Nat, \A n \in S : n <= b
    PROVE  \E m \in S : \A n \in S : n <= m
<1> DEFINE B == {c \in Nat : \A n \in S : n <= c}
<1>1. B \in SUBSET Nat /\ b \in B
  OBVIOUS
<1>2. PICK m \in B : \A c \in B : m <= c
  BY <1>1, Least
<1>3. m \in Nat /\ \A n \in S : n <= m
  BY <1>2
<1>4. CASE m \in S
  BY <1>3, <1>4
<1>5. CASE m \notin S
  <2>1. PICK n \in S : TRUE
    OBVIOUS
  <2>2. m # 0
    BY <1>3, <1>5, <2>1
  <2>3. m - 1 \in Nat /\ \A k \in S : k <= m - 1
    BY <1>3, <1>5, <2>2
  <2>4. m - 1 \in B
    BY <2>3
  <2> QED BY <1>2, <1>3, <2>4
<1> QED BY <1>4, <1>5

(* No row's place is beyond its rank among all the rows: this bounds places. *)
(* The rows of Admin come before any request is served, or else unseeded.    *)
Same(i, j) == /\ items[i].table = items[j].table /\ items[i].owner = items[j].owner
              /\ items[i].pos = items[j].pos
PlaceInv ==
    /\ \A i \in DOMAIN items : items[i].pos < i
    /\ boot = "seed" => Admin \notin shown
    /\ ~unseeded => /\ boot = "serving" => Admin \in shown
                    /\ Admin \notin shown => items = <<>>
                    /\ \A i, j \in DOMAIN items :
                          i # j /\ items[i].live /\ items[j].live => ~Same(i, j)

(* What a toggle has read is the flag, as long as no other is in its way.    *)
ToggleInv ==
    /\ \A q \in Request : pc[q] \in {"named", "flag"} => at[q] \in DOMAIN items
    /\ \A i \in DOMAIN items \ muddled : items[i].flag <=> items[i].toggles % 2 = 1
    /\ \A q \in Request : pc[q] = "flag" /\ at[q] \notin muddled
            => read[q] = items[at[q]].flag
    /\ \A p, q \in Request : pc[p] = "flag" /\ pc[q] = "flag" /\ p # q /\ at[p] = at[q]
            => at[p] \in muddled
BenchInv == WorkbenchTypes /\ PlaceInv /\ ToggleInv

LEMMA NextPlace ==
    ASSUME WorkbenchTypes, PlaceInv, NEW t, NEW u
    PROVE  /\ NextPos(t, u) \in Nat /\ NextPos(t, u) <= Len(items)
           /\ \A i \in Held(t, u) : items[i].pos < NextPos(t, u)
<1>0. /\ Len(items) \in Nat /\ DOMAIN items = 1 .. Len(items)
      /\ \A i \in DOMAIN items : items[i].pos \in Nat /\ items[i].pos < i
  <2>1. Len(items) \in Nat /\ DOMAIN items = 1 .. Len(items)
    BY DEF WorkbenchTypes
  <2>2. ASSUME NEW i \in DOMAIN items PROVE items[i].pos \in Nat /\ items[i].pos < i
    <3>1. items[i] \in Item
      BY <2>2 DEF WorkbenchTypes
    <3>2. items[i].pos \in Nat
      BY <3>1 DEF Item
    <3> QED BY <3>2 DEF PlaceInv
  <2> QED BY <2>1, <2>2
<1>1. CASE Held(t, u) = {}
  BY <1>0, <1>1 DEF NextPos
<1>2. CASE Held(t, u) # {}
  <2> DEFINE P == Positions(t, u)
  <2>1. P \in SUBSET Nat /\ P # {} /\ \A n \in P : n <= Len(items)
    <3>1. ASSUME NEW n \in P PROVE n \in Nat /\ n <= Len(items)
      <4>1. PICK i \in DOMAIN items : n = items[i].pos
        BY DEF Positions, Held
      <4>2. i \in 1 .. Len(items) /\ n \in Nat /\ n < i
        BY <1>0, <4>1
      <4> QED BY <1>0, <4>2
    <3>2. P # {}
      BY <1>2 DEF Positions
    <3> QED BY <3>1, <3>2
  <2>2. \E m \in P : \A n \in P : n <= m
    BY <1>0, <2>1, Greatest
  <2> DEFINE g == CHOOSE m \in P : \A n \in P : n <= m
  <2>3. g \in P /\ \A n \in P : n <= g
    BY <2>2
  <2>4. NextPos(t, u) = 1 + g
    BY <1>2 DEF NextPos
  <2>5. \A i \in Held(t, u) : items[i].pos \in P
    BY DEF Positions
  <2>6. g \in Nat /\ g < Len(items)
    <3>1. PICK i \in Held(t, u) : g = items[i].pos
      BY <2>3 DEF Positions
    <3>2. i \in DOMAIN items
      BY DEF Held
    <3>3. i \in 1 .. Len(items) /\ g \in Nat /\ g < i
      BY <1>0, <3>1, <3>2
    <3> QED BY <1>0, <3>3
  <2> HIDE DEF g, P
  <2>7. ASSUME NEW i \in Held(t, u) PROVE items[i].pos < 1 + g
    <3>1. items[i].pos \in Nat /\ items[i].pos <= g
      BY <1>0, <2>3, <2>5 DEF Held
    <3> QED BY <2>6, <3>1
  <2> QED BY <1>0, <2>4, <2>6, <2>7
<1> QED BY <1>1, <1>2

-----------------------------------------------------------------------------
LEMMA BenchFree ==
    ASSUME NEW r \in Request, BizStep(r)
    PROVE  ~Is(r, WorkbenchKind) /\ pc[r] \notin {"named", "flag"}
<1> USE DEF At, Is, WorkbenchKind
<1>1. CASE Shared(r)
  BY <1>1, Kinds DEF Shared, Admit, AssignRole, UnassignRole, Fail
<1>2. CASE OrderStep(r)
  BY <1>2 DEF OrderStep, CreateOrder, PayOrder, PutOrderStatus, UpdateOrderStatus,
              RequestRefund, CreateRefund, AuditRefund, CountOrders, CountPaid, ReadStatus,
              WriteStatus, LogStatus
<1>3. CASE ServiceStep(r)
  BY <1>3 DEF ServiceStep, CheckServiceOrder, CreateServiceOrder, AssignServiceOwner,
              PostServiceStatus, SubmitAcceptance, UpdateServiceOrderStatus, CreateTicket,
              AddTicketReply, AssignTicket, PostTicketStatus, AddTicketEvaluation,
              UpdateTicketStatus, ReadStatus, WriteStatus, LogStatus, Assign
<1>4. CASE ResourceStep(r)
  BY <1>4 DEF ResourceStep, CreateResource, UpdateResource, ReviewResource, DeleteResource,
              EditWhitelist, CheckRow, CheckWhitelist, RecordDownload, TallyDownload,
              ShareFile
<1> QED BY <1>1, <1>2, <1>3, <1>4 DEF BizStep

(* No request comes to the workbench by a step of the business service.      *)
OnBench == {"named", "flag"}
NoneArrives == \A q \in Request : pc'[q] \in OnBench => pc'[q] = pc[q]

LEMMA BizArrivesNowhere == ASSUME RequestTypes, NEW r \in Request, BizStep(r) PROVE NoneArrives
<1>1. RowStep(r) /\ ~Elsewhere(r)
  BY BizStepKinds, BenchFree DEF Elsewhere
<1>2. pc'[r] \notin OnBench
  <2> USE DEF RequestTypes, Goto, OnBench
  <2>1. CASE Enrol(r) \/ Read(r)
    BY <2>1 DEF Enrol, Admit, Read, ReadStatus
  <2>2. CASE Pass(r) \/ Insert(r) \/ EditResource(r)
    BY <2>2 DEF Pass, Insert, EditResource
  <2>3. CASE TakeAim(r) \/ CreateOrder(r)
    BY <2>3 DEF TakeAim, Aim, CreateOrder
  <2>4. CASE RequestRefund(r) \/ CreateRefund(r) \/ AuditRefund(r)
    BY <2>4 DEF RequestRefund, CreateRefund, AuditRefund, Aim
  <2>5. CASE Write(r) \/ Log(r) \/ Give(r) \/ GiveUp(r)
    BY <2>5 DEF Write, WriteStatus, Log, LogStatus, Give, Assign, GiveUp, Fail
  <2> QED BY <1>1, <2>1, <2>2, <2>3, <2>4, <2>5 DEF RowStep
<1> QED BY <1>1, <1>2, OthersKeep DEF NoneArrives

(* What the steps do to the rows: add new ones, or rewrite some in place.    *)
Fresh(rows) == /\ rows \in Seq(Item)
               /\ \A i \in DOMAIN rows : rows[i].flag = FALSE /\ rows[i].toggles = 0
Rewritten ==
    /\ items' \in Seq(Item) /\ DOMAIN items' = DOMAIN items
    /\ \A i \in DOMAIN items :
          /\ items'[i].table = items[i].table /\ items'[i].owner = items[i].owner
          /\ items'[i].pos = items[i].pos
          /\ items'[i].live => items[i].live
FlagsStay ==
    \A i \in DOMAIN items : items'[i].flag = items[i].flag /\ items'[i].toggles = items[i].toggles

LEMMA Extended ==
    ASSUME WorkbenchTypes, NEW rows, Fresh(rows), items' = items \o rows
    PROVE  /\ items' \in Seq(Item) /\ Len(items') = Len(items) + Len(rows)
           /\ DOMAIN items \subseteq DOMAIN items'
           /\ \A i \in DOMAIN items : items'[i] = items[i]
           /\ \A i \in DOMAIN items' \ DOMAIN items :
                /\ i - Len(items) \in DOMAIN rows /\ items'[i] = rows[i - Len(items)]
<1>1. items \in Seq(Item) /\ rows \in Seq(Item)
  BY DEF WorkbenchTypes, Fresh
<1> QED BY <1>1

LEMMA RowIsItem ==
    ASSUME RequestsAssumption, NEW t \in {"todos", "notifications", "projects"},
           NEW u \in User, NEW n \in Nat
    PROVE  Row(t, u, n) \in Item
BY DEF Row, Item

LEMMA TogglesAside ==
    ASSUME ToggleInv, NoneArrives, UNCHANGED <<items, at, read, muddled>>
    PROVE  ToggleInv'
BY DEF ToggleInv, NoneArrives, OnBench

LEMMA TogglesExtended ==
    ASSUME WorkbenchTypes, ToggleInv, NoneArrives, UNCHANGED <<at, read, muddled>>,
           NEW rows, Fresh(rows), items' = items \o rows
    PROVE  ToggleInv'
<1>1. /\ DOMAIN items \subseteq DOMAIN items' /\ \A i \in DOMAIN items : items'[i] = items[i]
      /\ \A i \in DOMAIN items' \ DOMAIN items :
            items'[i].flag = FALSE /\ items'[i].toggles = 0
  BY Extended DEF Fresh
<1>2. \A q \in Request : pc'[q] \in OnBench => pc'[q] = pc[q] /\ at[q] \in DOMAIN items
  BY DEF ToggleInv, NoneArrives, OnBench
<1>3. \A i \in DOMAIN items' \ muddled' : items'[i].flag <=> items'[i].toggles % 2 = 1
  BY <1>1 DEF ToggleInv
<1>4. \A q \in Request : pc'[q] \in {"named", "flag"} => at'[q] \in DOMAIN items'
  BY <1>1, <1>2 DEF OnBench
<1>5. \A q \in Request : pc'[q] = "flag" /\ at'[q] \notin muddled'
            => read'[q] = items'[at'[q]].flag
  BY <1>1, <1>2 DEF ToggleInv, OnBench
<1>6. \A p, q \in Request : pc'[p] = "flag" /\ pc'[q] = "flag" /\ p # q /\ at'[p] = at'[q]
            => at'[p] \in muddled'
  BY <1>2 DEF ToggleInv, OnBench
<1> QED BY <1>3, <1>4, <1>5, <1>6 DEF ToggleInv

LEMMA TogglesRewritten ==
    ASSUME ToggleInv, NoneArrives, Rewritten, FlagsStay, UNCHANGED <<at, read, muddled>>
    PROVE  ToggleInv'
BY DEF ToggleInv, NoneArrives, OnBench, Rewritten, FlagsStay

LEMMA PlacesRewritten ==
    ASSUME PlaceInv, Rewritten, UNCHANGED <<boot, shown, unseeded>>
    PROVE  PlaceInv'
<1>1. items = <<>> => items' = <<>>
  BY DEF Rewritten
<1>2. \A i, j \in DOMAIN items' : items'[i].live /\ items'[j].live /\ Same(i, j)'
        => items[i].live /\ items[j].live /\ Same(i, j)
  BY DEF Rewritten, Same
<1>3. \A i \in DOMAIN items' : items'[i].pos < i
  BY DEF Rewritten, PlaceInv
<1> QED BY <1>1, <1>2, <1>3 DEF PlaceInv, Rewritten
-----------------------------------------------------------------------------
LEMMA RewriteStays ==
    ASSUME RequestTypes, BenchInv, NEW r \in Request,
           UpdateProject(r) \/ DeleteProject(r) \/ WriteFlag(r)
    PROVE  /\ pc' = [pc EXCEPT ![r] = "done"] /\ NoneArrives
           /\ at[r] \in DOMAIN items /\ Rewritten
           /\ ~WriteFlag(r) => FlagsStay
           /\ UNCHANGED <<boot, shown, at, read, unseeded, muddled>>
<1>0. /\ items \in Seq(Item) /\ r \in Request \cup {None} /\ read[r] \in BOOLEAN
      /\ UNCHANGED <<boot, shown, at, read, unseeded, muddled>>
  BY DEF BenchInv, WorkbenchTypes, UpdateProject, DeleteProject, WriteFlag
<1>1. pc' = [pc EXCEPT ![r] = "done"] /\ pc[r] \in {"named", "flag"}
  BY DEF UpdateProject, DeleteProject, WriteFlag, Respond, Goto, At
<1>2. NoneArrives
  BY <1>1 DEF RequestTypes, NoneArrives, OnBench
<1>3. at[r] \in DOMAIN items
  BY <1>1 DEF BenchInv, ToggleInv
<1>4. items[at[r]] \in Item
  BY <1>0, <1>3
<1>5. CASE items' = items
  BY <1>0, <1>1, <1>2, <1>3, <1>5 DEF Rewritten, FlagsStay
<1>6. CASE UpdateProject(r) /\ items' # items
  <2>1. items' = [items EXCEPT ![at[r]] = [items[at[r]] EXCEPT !.writer = r]]
    BY <1>6 DEF UpdateProject
  <2>2. [items[at[r]] EXCEPT !.writer = r] \in Item
    BY <1>0, <1>4 DEF Item
  <2>3. Rewritten /\ FlagsStay
    BY SMTT(30), <1>0, <1>3, <1>4, <2>1, <2>2 DEF Rewritten, FlagsStay, Item
  <2> QED BY <1>0, <1>1, <1>2, <1>3, <2>3
<1>7. CASE DeleteProject(r)
  <2>1. items' = [items EXCEPT ![at[r]] = [items[at[r]] EXCEPT !.live = FALSE]]
    BY <1>7 DEF DeleteProject
  <2>2. [items[at[r]] EXCEPT !.live = FALSE] \in Item
    BY <1>4 DEF Item
  <2>3. Rewritten /\ FlagsStay
    BY <1>0, <1>3, <1>4, <2>1, <2>2 DEF Rewritten, FlagsStay, Item
  <2> QED BY <1>0, <1>1, <1>2, <1>3, <2>3
<1>8. CASE WriteFlag(r)
  <2> DEFINE new == [items[at[r]] EXCEPT !.flag = ~read[r], !.toggles = @ + 1]
  <2>1. items' = [items EXCEPT ![at[r]] = new]
    BY <1>3, <1>8 DEF WriteFlag, Flipped
  <2>2. new \in Item
    <3> DEFINE b == ~read[r]
    <3>1. b \in BOOLEAN
      OBVIOUS
    <3>2. items[at[r]].toggles + 1 \in Nat
      BY <1>4 DEF Item
    <3> HIDE DEF b
    <3>3. [items[at[r]] EXCEPT !.flag = b, !.toggles = @ + 1] \in Item
      BY <1>4, <3>1, <3>2 DEF Item
    <3> QED BY <3>3 DEF b
  <2>3. /\ new.table = items[at[r]].table /\ new.owner = items[at[r]].owner
        /\ new.pos = items[at[r]].pos /\ new.live = items[at[r]].live
    BY <1>4 DEF Item
  <2> HIDE DEF new
  <2>4. Rewritten
    BY <1>0, <1>3, <2>1, <2>2, <2>3 DEF Rewritten
  <2> QED BY <1>0, <1>1, <1>2, <1>3, <1>8, <2>4
<1> QED BY <1>5, <1>6, <1>7, <1>8

LEMMA Parity == \A n \in Nat : (n + 1) % 2 = 1 <=> ~(n % 2 = 1)
OBVIOUS

LEMMA WriteStays ==
    ASSUME RequestTypes, BenchInv, NEW r \in Request, WriteFlag(r) PROVE ToggleInv'
<1>0. /\ pc' = [pc EXCEPT ![r] = "done"] /\ NoneArrives
      /\ at[r] \in DOMAIN items /\ Rewritten /\ UNCHANGED <<at, read, muddled>>
  BY RewriteStays
<1>1. pc[r] = "flag" /\ pc'[r] = "done" /\ \A q \in Request \ {r} : pc'[q] = pc[q]
  BY <1>0 DEF WriteFlag, RequestTypes
<1>2. items \in Seq(Item) /\ items[at[r]] \in Item /\ read[r] \in BOOLEAN
  BY <1>0 DEF BenchInv, WorkbenchTypes
<1>3. /\ items'[at[r]].flag = ~read[r] /\ items'[at[r]].toggles = items[at[r]].toggles + 1
      /\ \A i \in DOMAIN items \ {at[r]} : items'[i] = items[i]
  <2> DEFINE new == [items[at[r]] EXCEPT !.flag = ~read[r], !.toggles = @ + 1]
  <2>1. items' = [items EXCEPT ![at[r]] = new]
    BY <1>0 DEF WriteFlag, Flipped
  <2>2. new.flag = ~read[r] /\ new.toggles = items[at[r]].toggles + 1
    BY <1>2 DEF Item
  <2> HIDE DEF new
  <2> QED BY <1>0, <1>2, <2>1, <2>2
<1>4. \A q \in Request : pc'[q] \in OnBench => pc'[q] = pc[q] /\ at[q] \in DOMAIN items
  BY <1>0 DEF BenchInv, ToggleInv, NoneArrives, OnBench
<1>5. ASSUME at[r] \notin muddled
      PROVE  items'[at[r]].flag <=> items'[at[r]].toggles % 2 = 1
  <2>1. read[r] = items[at[r]].flag
    BY <1>1, <1>5 DEF BenchInv, ToggleInv
  <2>2. items[at[r]].flag <=> items[at[r]].toggles % 2 = 1
    BY <1>0, <1>5 DEF BenchInv, ToggleInv
  <2>3. items[at[r]].toggles \in Nat
    BY <1>2 DEF Item
  <2>4. (items[at[r]].toggles + 1) % 2 = 1 <=> ~(items[at[r]].toggles % 2 = 1)
    BY <2>3, Parity
  <2>5. (items'[at[r]].toggles % 2 = 1) <=> ~read[r]
    <3>1. items'[at[r]].toggles % 2 = 1 <=> ~(items[at[r]].toggles % 2 = 1)
      BY <1>3, <2>4, Zenon
    <3> QED BY <2>1, <2>2, <3>1, Zenon
  <2> QED BY <1>3, <2>5, Zenon
<1>6. \A i \in DOMAIN items' \ muddled' : items'[i].flag <=> items'[i].toggles % 2 = 1
  <2>1. ASSUME NEW i \in DOMAIN items' \ muddled', i # at[r]
        PROVE  items'[i].flag <=> items'[i].toggles % 2 = 1
    <3>1. i \in DOMAIN items \ muddled /\ items'[i] = items[i]
      BY <1>0, <1>3, <2>1 DEF Rewritten
    <3>2. items[i].flag <=> items[i].toggles % 2 = 1
      BY <3>1 DEF BenchInv, ToggleInv
    <3> QED BY <3>1, <3>2, Zenon
  <2> QED BY <1>0, <1>5, <2>1
<1>7. \A q \in Request : pc'[q] \in {"named", "flag"} => at'[q] \in DOMAIN items'
  BY <1>0, <1>4 DEF OnBench, Rewritten
<1>8. ASSUME NEW q \in Request, pc'[q] = "flag", at'[q] \notin muddled'
      PROVE  read'[q] = items'[at'[q]].flag
  <2>1. q # r /\ pc[q] = "flag" /\ at[q] \in DOMAIN items
    BY <1>1, <1>4, <1>8 DEF OnBench
  <2>2. at[q] # at[r]
    BY <1>0, <1>1, <1>8, <2>1 DEF BenchInv, ToggleInv
  <2>3. read[q] = items[at[q]].flag
    BY <1>0, <1>8, <2>1 DEF BenchInv, ToggleInv
  <2>4. items'[at[q]] = items[at[q]]
    BY <1>3, <2>1, <2>2
  <2> QED BY <1>0, <2>3, <2>4
<1>9. \A p, q \in Request : pc'[p] = "flag" /\ pc'[q] = "flag" /\ p # q /\ at'[p] = at'[q]
            => at'[p] \in muddled'
  BY <1>0, <1>4 DEF BenchInv, ToggleInv, OnBench
<1> QED BY <1>6, <1>7, <1>8, <1>9 DEF ToggleInv
-----------------------------------------------------------------------------
LEMMA NameStays == ASSUME RequestTypes, BenchInv, NEW r \in Request, Name(r) PROVE BenchInv'
<1>1. /\ pc' = [pc EXCEPT ![r] = "named"] /\ pc[r] = "start"
      /\ UNCHANGED <<boot, shown, items, read, unseeded, muddled>>
  BY DEF Name, Goto
<1>2. PICK i \in DOMAIN items : at' = [at EXCEPT ![r] = i]
  BY DEF Name
<1>3. i \in Nat /\ items \in Seq(Item)
  BY <1>2 DEF BenchInv, WorkbenchTypes
<1>4. WorkbenchTypes' /\ PlaceInv'
  BY <1>1, <1>2, <1>3 DEF BenchInv, WorkbenchTypes, PlaceInv, Same
<1>5. /\ pc'[r] = "named" /\ at'[r] = i
      /\ \A q \in Request \ {r} : pc'[q] = pc[q] /\ at'[q] = at[q]
  BY <1>1, <1>2 DEF RequestTypes, BenchInv, WorkbenchTypes
<1>6. ToggleInv'
  BY <1>1, <1>2, <1>5 DEF BenchInv, ToggleInv
<1> QED BY <1>4, <1>6 DEF BenchInv

LEMMA AppendJoins ==
    ASSUME NEW T, NEW s \in Seq(T), NEW e \in T
    PROVE  Append(s, e) = s \o <<e>>
OBVIOUS

LEMMA CreateStays == ASSUME RequestTypes, BenchInv, NEW r \in Request, Create(r),
                            RequestsAssumption, plan[r].user \in User
                     PROVE  BenchInv'
<1> DEFINE t == Table(plan[r].kind)
           u == plan[r].user
           n == NextPos(t, u)
           rows == <<Row(t, u, n)>>
<1>1. /\ pc' = [pc EXCEPT ![r] = "done"] /\ boot = "serving"
      /\ items' = Append(items, Row(t, u, n))
      /\ UNCHANGED <<boot, shown, at, read, unseeded, muddled>>
  BY DEF Create, Respond, Goto
<1>2. n \in Nat /\ n <= Len(items) /\ \A i \in Held(t, u) : items[i].pos < n
  BY NextPlace DEF BenchInv
<1>t. t \in {"todos", "notifications", "projects"}
  BY DEF Table
<1> HIDE DEF t, u, n
<1>3. Row(t, u, n) \in Item
  BY <1>2, <1>t, RowIsItem DEF u
<1>4. /\ items \in Seq(Item) /\ Len(items) \in Nat /\ DOMAIN items = 1 .. Len(items)
  BY DEF BenchInv, WorkbenchTypes
<1>5. Fresh(rows) /\ items' = items \o rows
  <2>1. rows \in Seq(Item) /\ DOMAIN rows = {1} /\ rows[1] = Row(t, u, n)
    BY <1>3
  <2>2. Row(t, u, n).flag = FALSE /\ Row(t, u, n).toggles = 0
    BY DEF Row
  <2>3. items' = items \o rows
    BY <1>1, <1>3, <1>4, AppendJoins
  <2> QED BY <2>1, <2>2, <2>3 DEF Fresh
<1>6. /\ items' \in Seq(Item) /\ DOMAIN items' = DOMAIN items \cup {Len(items) + 1}
      /\ \A i \in DOMAIN items : items'[i] = items[i]
      /\ items'[Len(items) + 1] = Row(t, u, n)
  BY <1>1, <1>3, <1>4
<1>7. WorkbenchTypes'
  BY <1>1, <1>6 DEF BenchInv, WorkbenchTypes
<1>8. NoneArrives
  BY <1>1 DEF RequestTypes, NoneArrives, OnBench
<1>9. ToggleInv'
  BY <1>1, <1>5, <1>8, TogglesExtended DEF BenchInv
<1>10. PlaceInv'
  <2>1. ASSUME NEW i \in DOMAIN items' PROVE items'[i].pos < i
    <3>1. CASE i \in DOMAIN items
      BY <1>6, <3>1 DEF BenchInv, PlaceInv
    <3>2. CASE i = Len(items) + 1
      BY <1>2, <1>4, <1>6, <3>2 DEF Row
    <3> QED BY <1>6, <3>1, <3>2
  <2>2. ASSUME ~unseeded
        PROVE  /\ Admin \in shown
               /\ \A i, j \in DOMAIN items' :
                     i # j /\ items'[i].live /\ items'[j].live => ~Same(i, j)'
    <3>1. Admin \in shown
      BY <1>1, <2>2 DEF BenchInv, PlaceInv
    <3>2. ASSUME NEW i \in DOMAIN items, items[i].live
          PROVE  /\ items[i].table # t \/ items[i].owner # u \/ items[i].pos # n
      <4>1. items[i].table = t /\ items[i].owner = u => items[i].pos < n
        BY <1>2, <3>2 DEF Held
      <4>2. items[i] \in Item
        BY <1>4
      <4>3. items[i].pos \in Nat
        BY <4>2 DEF Item
      <4> QED BY <1>2, <4>1, <4>3
    <3>3. /\ Row(t, u, n).table = t /\ Row(t, u, n).owner = u /\ Row(t, u, n).pos = n
      BY DEF Row
    <3>4. ASSUME NEW i \in DOMAIN items', NEW j \in DOMAIN items', i # j,
                 items'[i].live, items'[j].live
          PROVE  ~Same(i, j)'
      <4>1. CASE i \in DOMAIN items /\ j \in DOMAIN items
        BY <1>6, <2>2, <3>4, <4>1 DEF BenchInv, PlaceInv, Same
      <4>2. CASE i \in DOMAIN items /\ j = Len(items) + 1
        BY <1>6, <3>2, <3>3, <3>4, <4>2 DEF Same
      <4>3. CASE j \in DOMAIN items /\ i = Len(items) + 1
        BY <1>6, <3>2, <3>3, <3>4, <4>3 DEF Same
      <4> QED BY <1>6, <3>4, <4>1, <4>2, <4>3
    <3> QED BY <3>1, <3>4
  <2> QED BY <1>1, <2>1, <2>2 DEF PlaceInv
<1> QED BY <1>7, <1>9, <1>10 DEF BenchInv

LEMMA SeedStays == ASSUME BenchInv, SeedIfEmpty, pc' = pc, RequestsAssumption PROVE BenchInv'
<1>0. NoneArrives /\ boot = "seed" /\ boot' = "serving" /\ UNCHANGED <<at, read, muddled>>
  BY DEF SeedIfEmpty, NoneArrives
<1>1. CASE unseeded' = TRUE /\ UNCHANGED <<shown, items>>
  <2>1. ToggleInv'
    BY <1>0, <1>1, TogglesAside DEF BenchInv
  <2>2. PlaceInv'
    BY <1>0, <1>1 DEF BenchInv, PlaceInv
  <2>3. WorkbenchTypes'
    BY <1>0, <1>1 DEF BenchInv, WorkbenchTypes
  <2> QED BY <2>1, <2>2, <2>3 DEF BenchInv
<1> DEFINE rows == <<Row("projects", Admin, 0), Row("todos", Admin, 0),
                     Row("notifications", Admin, 0)>>
<1>2. CASE shown' = shown \cup {Admin} /\ items' = items \o rows /\ UNCHANGED unseeded
  <2>1. Fresh(rows) /\ Len(rows) = 3
    <3>1. /\ Row("projects", Admin, 0) \in Item /\ Row("todos", Admin, 0) \in Item
          /\ Row("notifications", Admin, 0) \in Item
      BY RowIsItem DEF RequestsAssumption
    <3>2. rows \in Seq(Item) /\ Len(rows) = 3 /\ DOMAIN rows = {1, 2, 3}
      BY <3>1
    <3>3. rows[1].flag = FALSE /\ rows[2].flag = FALSE /\ rows[3].flag = FALSE
      BY DEF Row
    <3>4. rows[1].toggles = 0 /\ rows[2].toggles = 0 /\ rows[3].toggles = 0
      BY DEF Row
    <3> QED BY <3>2, <3>3, <3>4 DEF Fresh
  <2>2. /\ rows[1].pos = 0 /\ rows[2].pos = 0 /\ rows[3].pos = 0
        /\ rows[1].table = "projects" /\ rows[2].table = "todos"
        /\ rows[3].table = "notifications"
    BY DEF Row
  <2>3. DOMAIN rows = {1, 2, 3}
    OBVIOUS
  <2> HIDE DEF rows
  <2>4. ToggleInv'
    BY <1>0, <1>2, <2>1, TogglesExtended DEF BenchInv
  <2>5. /\ items' \in Seq(Item) /\ Len(items') = Len(items) + 3
        /\ DOMAIN items \subseteq DOMAIN items'
        /\ \A i \in DOMAIN items : items'[i] = items[i]
        /\ \A i \in DOMAIN items' \ DOMAIN items :
             /\ i - Len(items) \in {1, 2, 3} /\ items'[i] = rows[i - Len(items)]
    BY <1>2, <2>1, <2>3, Extended DEF BenchInv
  <2>6. Len(items) \in Nat /\ DOMAIN items = 1 .. Len(items)
        /\ DOMAIN items' = 1 .. Len(items) + 3
    BY <2>5 DEF BenchInv, WorkbenchTypes
  <2>7. \A i \in DOMAIN items' : items'[i].pos < i
    <3>1. ASSUME NEW i \in DOMAIN items' \ DOMAIN items PROVE items'[i].pos < i
      <4>1. items'[i].pos = 0
        BY <2>2, <2>5, <3>1
      <4>2. i \in Nat /\ i > 0
        BY <2>6
      <4> QED BY <4>1, <4>2
    <3> QED BY <2>5, <3>1 DEF BenchInv, PlaceInv
  <2>8. ASSUME ~unseeded, NEW i \in DOMAIN items', NEW j \in DOMAIN items', i # j
        PROVE  ~Same(i, j)'
    <3>1. items = <<>>
      BY <1>0, <2>8 DEF BenchInv, PlaceInv
    <3>2. i \in {1, 2, 3} /\ j \in {1, 2, 3}
      BY <2>6, <3>1
    <3>3. items'[i] = rows[i] /\ items'[j] = rows[j]
      BY <1>2, <2>1, <3>1 DEF Fresh
    <3> QED BY <2>2, <2>8, <3>2, <3>3 DEF Same
  <2>9. PlaceInv'
    BY <1>0, <1>2, <2>7, <2>8 DEF PlaceInv
  <2>10. WorkbenchTypes'
    BY <1>0, <1>2, <2>5 DEF BenchInv, WorkbenchTypes, RequestsAssumption
  <2> QED BY <2>4, <2>9, <2>10 DEF BenchInv
<1> QED BY <1>1, <1>2 DEF SeedIfEmpty

LEMMA ReadFlagStays ==
    ASSUME RequestTypes, BenchInv, NEW r \in Request, ReadFlag(r) PROVE BenchInv'
<1>1. /\ pc' = [pc EXCEPT ![r] = "flag"] /\ pc[r] = "named"
      /\ read' = [read EXCEPT ![r] = items[at[r]].flag]
      /\ UNCHANGED <<boot, shown, items, at, unseeded>>
  BY DEF ReadFlag, Goto
<1>2. at[r] \in DOMAIN items
  BY <1>1 DEF BenchInv, ToggleInv
<1>3. items[at[r]] \in Item
  BY <1>2 DEF BenchInv, WorkbenchTypes
<1>4. items[at[r]].flag \in BOOLEAN
  BY <1>3 DEF Item
<1>5. WorkbenchTypes' /\ PlaceInv'
  BY <1>1, <1>4 DEF BenchInv, WorkbenchTypes, PlaceInv, Same
<1>6. /\ pc'[r] = "flag" /\ \A q \in Request \ {r} : pc'[q] = pc[q] /\ read'[q] = read[q]
      /\ read'[r] = items[at[r]].flag
  BY <1>1 DEF RequestTypes, BenchInv, WorkbenchTypes
<1>7. /\ muddled \subseteq muddled'
      /\ \A q \in Request : pc[q] = "flag" /\ at[q] = at[r] => at[r] \in muddled'
  BY DEF ReadFlag
<1>8. ToggleInv'
  <2>1. \A q \in Request : pc'[q] \in {"named", "flag"} => at'[q] \in DOMAIN items'
    BY <1>1, <1>2, <1>6 DEF BenchInv, ToggleInv
  <2>2. \A i \in DOMAIN items' \ muddled' : items'[i].flag <=> items'[i].toggles % 2 = 1
    BY <1>1, <1>7 DEF BenchInv, ToggleInv
  <2>3. \A q \in Request : pc'[q] = "flag" /\ at'[q] \notin muddled'
            => read'[q] = items'[at'[q]].flag
    BY <1>1, <1>6, <1>7 DEF BenchInv, ToggleInv
  <2>4. \A p, q \in Request : pc'[p] = "flag" /\ pc'[q] = "flag" /\ p # q /\ at'[p] = at'[q]
            => at'[p] \in muddled'
    BY <1>1, <1>6, <1>7 DEF BenchInv, ToggleInv
  <2> QED BY <2>1, <2>2, <2>3, <2>4 DEF ToggleInv
<1> QED BY <1>5, <1>8 DEF BenchInv

LEMMA AsideStays ==
    ASSUME BenchInv, NoneArrives, UNCHANGED <<shown, items, at, read, unseeded, muddled>>,
           \/ boot' = boot
           \/ boot' \in {"off", "count"}
           \/ boot = "count" /\ boot' = IF Admin \in shown THEN "serving" ELSE "seed"
    PROVE  BenchInv'
<1>1. ToggleInv'
  BY TogglesAside DEF BenchInv
<1>2. PlaceInv'
  BY DEF BenchInv, PlaceInv, Same
<1>3. WorkbenchTypes'
  BY DEF BenchInv, WorkbenchTypes
<1> QED BY <1>1, <1>2, <1>3 DEF BenchInv

LEMMA BenchStays == ASSUME RequestTypes, BenchInv, [Next]_vars PROVE BenchInv'
<1>1. CASE UNCHANGED vars
  BY <1>1, AsideStays DEF vars, requestVars, workbenchVars, NoneArrives
<1>2. ASSUME NEW r \in Request, BizStep(r), UNCHANGED workbenchVars PROVE BenchInv'
  BY <1>2, BizArrivesNowhere, AsideStays DEF workbenchVars
<1>3. ASSUME NEW r \in Request, WorkbenchStep(r) PROVE BenchInv'
  <2>1. CASE Name(r)
    BY <2>1, NameStays
  <2>2. CASE Create(r)
    <3>1. plan[r].user \in User
      BY DEF RequestTypes
    <3> QED BY <2>2, <3>1, CreateStays, RequestsAssumption
  <2>3. CASE ReadFlag(r)
    BY <2>3, ReadFlagStays
  <2>4. CASE UpdateProject(r) \/ DeleteProject(r) \/ WriteFlag(r)
    <3>1. PlaceInv' /\ WorkbenchTypes'
      BY <2>4, RewriteStays, PlacesRewritten DEF BenchInv, WorkbenchTypes, Rewritten
    <3>2. ToggleInv'
      BY <2>4, RewriteStays, TogglesRewritten, WriteStays DEF BenchInv
    <3> QED BY <3>1, <3>2 DEF BenchInv
  <2> QED BY <1>3, <2>1, <2>2, <2>3, <2>4 DEF WorkbenchStep
<1>4. CASE CountOverview /\ UNCHANGED <<pc, bizVars>>
  BY <1>4, AsideStays DEF CountOverview, NoneArrives
<1>5. CASE SeedIfEmpty /\ UNCHANGED <<pc, bizVars>>
  BY <1>5, SeedStays, RequestsAssumption
<1>6. CASE Crash /\ Restart
  <2>1. NoneArrives
    BY <1>6 DEF Crash, NoneArrives, OnBench
  <2> QED BY <1>6, <2>1, AsideStays DEF Restart
<1> QED BY <1>1, <1>2, <1>3, <1>4, <1>5, <1>6 DEF Next

LEMMA BenchInvariant == Spec => []BenchInv
<1>1. Init => BenchInv
  <2> SUFFICES ASSUME Init PROVE BenchInv
    OBVIOUS
  <2>1. WorkbenchTypes
    <3>1. /\ boot \in {"off", "count"} /\ shown = {} /\ items = <<>> /\ unseeded = FALSE
          /\ at = [r \in Request |-> 0] /\ read = [r \in Request |-> FALSE]
      BY DEF Init
    <3>2. items \in Seq(Item)
      BY <3>1
    <3>3. at \in [Request -> Nat] /\ read \in [Request -> BOOLEAN]
      BY <3>1
    <3> QED BY <3>1, <3>2, <3>3 DEF WorkbenchTypes
  <2>2. /\ items = <<>> /\ DOMAIN items = {} /\ shown = {} /\ boot \in {"count", "off"}
        /\ \A q \in Request : pc[q] = "start"
    BY DEF Init
  <2>3. PlaceInv /\ ToggleInv
    BY <2>2 DEF PlaceInv, ToggleInv
  <2> QED BY <2>1, <2>3 DEF BenchInv
<1>2. RowInv => RequestTypes
  BY DEF RowInv
<1>3. RequestTypes /\ BenchInv /\ [Next]_vars => BenchInv'
  BY BenchStays
<1> QED BY <1>1, <1>2, <1>3, RowInvariant, PTL DEF Spec

(* ToggleTodo and ToggleNotificationRead read a flag in one statement and    *)
(* write its opposite in another: what a row shows is the number of its      *)
(* toggles, odd or even, unless two of them overlapped.                      *)
THEOREM TogglesCount == Spec => []TogglesExplained
<1>1. BenchInv => TogglesExplained
  BY DEF BenchInv, ToggleInv, TogglesExplained
<1> QED BY <1>1, BenchInvariant, PTL

(* CreateTodo and CreateProject take the place after the greatest in the     *)
(* list: two rows of a list share a place only if the service once started   *)
(* without the demonstration rows, whose places are fixed.                   *)
THEOREM PlacesDiffer == Spec => []PlacesExplained
<1>1. BenchInv => PlacesExplained
  BY DEF BenchInv, PlaceInv, PlacesExplained, Same
<1> QED BY <1>1, BenchInvariant, PTL

(* Requests, the rows they make and name, statuses and logs, whitelists and  *)
(* the rows of the workbench keep to their types, whatever the plan and      *)
(* wherever a crash falls.                                                   *)
THEOREM BizTypeCorrect == Spec => []TypeOK
<1>1. RowInv /\ ResourceTypes /\ BenchInv => TypeOK
  BY DEF RowInv, BenchInv, TypeOK
<1> QED BY <1>1, RowInvariant, ResourceTypesHold, BenchInvariant, PTL
=============================================================================
