----------------------------- MODULE Workbench ------------------------------
(***************************************************************************)
(* The workbench service (internal/workbench, cmd/workbench-svc): projects, *)
(* to-dos and notifications of each owner in a SQLite database of its own,  *)
(* over one connection, where each statement is a step.  Before it serves,  *)
(* the service writes the demonstration rows of Admin if there are none.    *)
(* It does not talk to the business service; it shares the module of        *)
(* requests, since its handlers are of the same make.                       *)
(***************************************************************************)
EXTENDS BizRequests

VARIABLES
    boot,      \* where the start of the service is, "off" if it does not run
    shown,     \* the owners with rows in wb_overview
    items,     \* rows in the order of their ids, over all the tables
    at,        \* the row a request names
    read,      \* the flag a request has read
    \* history
    unseeded,  \* has the service ever served without the rows of Admin?
    muddled    \* rows two of whose toggles overlapped

workbenchVars == <<boot, shown, items, at, read, unseeded, muddled>>

WorkbenchKind == {"createTodo", "toggleTodo", "toggleNotification",
                  "createProject", "updateProject", "deleteProject"}
Table(k) == CASE k \in {"createTodo", "toggleTodo"} -> "todos"
              [] k = "toggleNotification" -> "notifications"
              [] OTHER -> "projects"

Held(t, u) == {i \in DOMAIN items : /\ items[i].table = t /\ items[i].owner = u
                                    /\ items[i].live}
Positions(t, u) == {items[i].pos : i \in Held(t, u)}

(* The flag of a row is how it differs from the flag it was made with.       *)
Row(t, u, n) == [table |-> t, owner |-> u, pos |-> n, flag |-> FALSE,
                 toggles |-> 0, writer |-> None, live |-> TRUE]

(***************************************************************************)
(* The start                                                                *)
(***************************************************************************)
(* SeedIfEmpty looks at the overview alone.                                  *)
CountOverview ==
    /\ boot = "count"
    /\ boot' = IF Admin \in shown THEN "serving" ELSE "seed"
    /\ UNCHANGED <<shown, items, at, read, unseeded, muddled>>

(* One transaction; when it fails that is logged, and the service serves.    *)
SeedIfEmpty ==
    /\ boot = "seed"
    /\ boot' = "serving"
    /\ \/ /\ shown' = shown \cup {Admin}
          /\ items' = items \o <<Row("projects", Admin, 0), Row("todos", Admin, 0),
                                 Row("notifications", Admin, 0)>>
          /\ UNCHANGED unseeded
       \/ unseeded' = TRUE /\ UNCHANGED <<shown, items>>
    /\ UNCHANGED <<at, read, muddled>>

(***************************************************************************)
(* The requests                                                             *)
(***************************************************************************)
(* A statement on a row names its owner too: without such a row the answer   *)
(* is "not found".                                                          *)
Name(r) ==
    /\ Is(r, WorkbenchKind \ {"createTodo", "createProject"})
    /\ boot = "serving" /\ pc[r] = "start"
    /\ LET mine == {i \in DOMAIN items : items[i].table = Table(plan[r].kind)
                                         /\ items[i].owner = plan[r].user}
       IN  \E i \in mine : at' = [at EXCEPT ![r] = i]
    /\ Goto(r, "named")
    /\ UNCHANGED <<boot, shown, items, read, unseeded, muddled>>
Alive(r) == items[at[r]].live
Respond(r) == Goto(r, "done")

\* MUTANT of NextPos: the rows are counted.
CountPos(t, u) == Cardinality(Held(t, u))

NextPos(t, u) ==
    IF Held(t, u) = {} THEN 0
    ELSE 1 + CHOOSE m \in Positions(t, u) : \A n \in Positions(t, u) : n <= m

(* CreateProject and CreateTodo: one INSERT, with a subselect for pos.       *)
Create(r) ==
    /\ Is(r, {"createTodo", "createProject"})
    /\ boot = "serving" /\ pc[r] = "start"
    /\ LET t == Table(plan[r].kind)  u == plan[r].user
       IN  items' = Append(items, Row(t, u, NextPos(t, u)))
    /\ Respond(r)
    /\ UNCHANGED <<boot, shown, at, read, unseeded, muddled>>

UpdateProject(r) ==
    /\ At(r, "updateProject", "named")
    /\ items' = IF Alive(r) THEN [items EXCEPT ![at[r]].writer = r] ELSE items
    /\ Respond(r)
    /\ UNCHANGED <<boot, shown, at, read, unseeded, muddled>>

DeleteProject(r) ==
    /\ At(r, "deleteProject", "named")
    /\ items' = [items EXCEPT ![at[r]].live = FALSE]
    /\ Respond(r)
    /\ UNCHANGED <<boot, shown, at, read, unseeded, muddled>>

(* ToggleTodo and ToggleNotificationRead: the flag is read by one statement  *)
(* and written by another.                                                  *)
ReadFlag(r) ==
    /\ Is(r, {"toggleTodo", "toggleNotification"}) /\ pc[r] = "named"
    /\ read' = [read EXCEPT ![r] = items[at[r]].flag]
    /\ muddled' = IF \E q \in Request : pc[q] = "flag" /\ at[q] = at[r]
                  THEN muddled \cup {at[r]} ELSE muddled
    /\ Goto(r, "flag")
    /\ UNCHANGED <<boot, shown, items, at, unseeded>>

\* MUTANT of Flipped: a flag is only ever set.
Set(flag) == TRUE

Flipped(flag) == ~flag

WriteFlag(r) ==
    /\ pc[r] = "flag"
    /\ items' = [items EXCEPT ![at[r]].flag = Flipped(read[r]),
                              ![at[r]].toggles = @ + 1]
    /\ Respond(r)
    /\ UNCHANGED <<boot, shown, at, read, unseeded, muddled>>

(* The service starts again after a crash.                                   *)
Restart ==
    /\ boot' = IF boot = "off" THEN "off" ELSE "count"
    /\ UNCHANGED <<shown, items, at, read, unseeded, muddled>>

WorkbenchStep(r) ==
    \/ Name(r) \/ Create(r) \/ UpdateProject(r) \/ DeleteProject(r)
    \/ ReadFlag(r) \/ WriteFlag(r)
=============================================================================
