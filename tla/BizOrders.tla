----------------------------- MODULE BizOrders ------------------------------
(* Orders, their payment and their refunds (internal/biz/order.go,          *)
(* handler_order.go).                                                       *)
EXTENDS BizRequests

VARIABLES
    stats,    \* what a GetOrderStats has counted: all orders, paid ones
    \* history
    rushed    \* orders for which two refund requests overlapped

orderVars == <<stats, rushed>>

OrderStatus == {"pending", "paid", "delivering", "delivered", "completed",
                "cancelled", "closed", "refunding", "refunded"}
PaidStatus == {"paid", "delivering", "delivered", "completed", "refunding"}

(* The client may send the status of its new order.                         *)
CreateOrder(r) ==
    /\ At(r, "createOrder", "admitted")
    /\ \E s \in Targets \cap OrderStatus :
          /\ status' = [status EXCEPT ![r] = s]
          /\ target' = [target EXCEPT ![r] = s]
    /\ of' = [of EXCEPT ![r] = r]
    /\ seen' = [seen EXCEPT ![r] = "none"]
    /\ Goto(r, "log")
    /\ UNCHANGED <<trail, roles, history, faults, orderVars>>

(* The payment callback.  Its own SELECT decides: paid and delivering are   *)
(* ignored, and every other status becomes paid.                            *)
PayOrder(r) ==
    /\ At(r, "payOrder", "admitted")
    /\ Aim(r, "paid")
    /\ UNCHANGED <<of, seen, rowVars, roles, history, faults, orderVars>>

PutOrderStatus(r) ==
    /\ At(r, "putOrder", "admitted")
    /\ \E s \in Targets \cap OrderStatus : Aim(r, s)
    /\ UNCHANGED <<of, seen, rowVars, roles, history, faults, orderVars>>

UpdateOrderStatus(r) ==
    /\ Is(r, {"createOrder", "payOrder", "putOrder", "requestRefund",
              "auditRefund"})
    /\ \/ ReadStatus(r, IF Is(r, {"payOrder"})
                        THEN status[of[r]] \in {"paid", "delivering"}
                        ELSE status[of[r]] = target[r])
       \/ WriteStatus(r)
       \/ LogStatus(r)
    /\ UNCHANGED orderVars

(* Mutant of Refundable: an order being refunded may be refunded again.     *)
RefundableAgain(s) == s \notin {"pending", "cancelled", "closed", "refunded"}

Refundable(s) ==
    s \notin {"pending", "cancelled", "closed", "refunding", "refunded"}

(* Refund requests that have passed the check of the order x and have not    *)
(* yet moved it to refunding.                                               *)
Refunding(x) == {r \in Request : /\ Is(r, {"requestRefund"}) /\ of[r] = x
                                 /\ pc[r] \in {"insert", "read", "write"}}

RequestRefund(r) ==
    /\ At(r, "requestRefund", "admitted")
    /\ IF Refundable(status[of[r]])
       THEN /\ Goto(r, "insert")
            /\ rushed' = IF Refunding(of[r]) = {} THEN rushed
                         ELSE rushed \cup {of[r]}
       ELSE Goto(r, "done") /\ UNCHANGED rushed
    /\ UNCHANGED <<of, target, seen, rowVars, roles, history, faults, stats>>

CreateRefund(r) ==
    /\ At(r, "requestRefund", "insert")
    /\ status' = [status EXCEPT ![r] = "pending"]
    /\ Aim(r, "refunding")
    /\ UNCHANGED <<of, seen, trail, roles, history, faults, orderVars>>

(* An audit writes the refund whatever its status, then the order.          *)
AuditRefund(r) ==
    /\ At(r, "auditRefund", "admitted")
    /\ \E approve \in BOOLEAN :
          /\ status' = [status EXCEPT
                          ![of[r]] = IF approve THEN "completed" ELSE "rejected"]
          /\ Aim(r, IF approve THEN "refunded" ELSE "paid")
    /\ of' = [of EXCEPT ![r] = of[of[r]]]
    /\ UNCHANGED <<seen, trail, roles, history, faults, orderVars>>

(* GetOrderStats counts in separate queries.                                *)
CountOrders(r) ==
    /\ At(r, "orderStats", "admitted")
    /\ stats' = [stats EXCEPT ![r].total = Cardinality(Rows("orders"))]
    /\ Goto(r, "paid")
    /\ UNCHANGED <<of, target, seen, rowVars, roles, history, faults, rushed>>

CountPaid(r) ==
    /\ At(r, "orderStats", "paid")
    /\ stats' = [stats EXCEPT ![r].paid =
                   Cardinality({x \in Rows("orders") : status[x] \in PaidStatus})]
    /\ Goto(r, "done")
    /\ UNCHANGED <<of, target, seen, rowVars, roles, history, faults, rushed>>

OrderStep(r) == \/ CreateOrder(r) \/ PayOrder(r) \/ PutOrderStatus(r)
                \/ UpdateOrderStatus(r)
                \/ RequestRefund(r) \/ CreateRefund(r) \/ AuditRefund(r)
                \/ CountOrders(r) \/ CountPaid(r)
=============================================================================
