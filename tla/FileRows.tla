------------------------------ MODULE FileRows ------------------------------
(***************************************************************************)
(* The rows of the files table and the set of file names in Redis, and the  *)
(* statements on them that every request to the file service is made of     *)
(* (store/file_repo.go, store/trash_repo.go, store/rediscache.go).          *)
(*                                                                         *)
(* The files are those of one user.  Every statement to the database or to  *)
(* Redis is one step; a request keeps what it has read.  A row is named by   *)
(* the request that inserts it.                                             *)
(***************************************************************************)
EXTENDS Naturals, Sequences, FiniteSets

CONSTANTS Request,   \* the requests of one behaviour
          Past,      \* the rows there may be before them
          Dir,       \* directory prefixes
          Bases,     \* the names save tries in a directory, in order
          Space,     \* the spaces, Home and Nowhere among them
          Home,      \* the user's default space ("default-<user>")
          Nowhere,   \* the empty space_id
          Visitor,   \* visitors of share links
          Stock,     \* the tables to start from
          Plans,     \* the mixes of requests to look at
          Asked,     \* the names clients ask for
          Quota,     \* files a token may write (quota_bytes, one unit a file)
          MaxFaults, \* statements that fail in a behaviour
          None

Row == Request \cup Past
Keep == ".keep"
Base == {Bases[i] : i \in DOMAIN Bases} \cup {Keep}
Name == Dir \X Base

(* A row of the table, in the trash or not; or none.                        *)
Absent == [state |-> "none", name |-> None, space |-> None]
TableRow == {Absent} \cup [state : {"live", "trash"}, name : Name, space : Space]

ASSUME RowsAssumption ==
    /\ Request \cap Past = {} /\ None \notin Row
    /\ Home \in Space /\ Nowhere \in Space /\ Home # Nowhere
    /\ Asked \subseteq Name /\ Bases \in Seq(STRING)
    /\ Quota \in Nat /\ MaxFaults \in Nat
    /\ IsFiniteSet(Request) /\ IsFiniteSet(Past)
    /\ \A stock \in Stock : stock \in [Past -> TableRow]

NeverLooked == {<<None, None>>}
Nothing == [id |-> None, name |-> None]

VARIABLES
    plan,      \* the kind of each request, and whether a token makes it
    pc,        \* where each request is
    name,      \* the name it asks for, or the directory
    space,     \* the space it works in
    todo,      \* the rows it has listed: id, and name when listed
    cur,       \* the one of them it is at
    row,       \* the files table
    marked,    \* files:names in Redis
    faults,
    crashed,
    \* history
    looked,    \* where the live rows were when a request looked for one
    blind,     \* requests that did not look, or whose look failed
    excused    \* names left in the set for a reason known

request == <<pc, name, space, todo, cur>>
history == <<looked, blind, excused>>

At(r, k, s) == plan[r].kind = k /\ pc[r] = s
Is(r, ks) == plan[r].kind \in ks
Goto(r, s) == pc' = [pc EXCEPT ![r] = s]
Running(r) == pc[r] \notin {"start", "done", "lost"}
Works == UNCHANGED faults
Fails == faults < MaxFaults /\ faults' = faults + 1

Live(x) == row[x].state = "live"
Place(x) == <<row[x].space, row[x].name>>
LiveAt(s, n) == {x \in Row : Live(x) /\ Place(x) = <<s, n>>}
LiveIn(s) == {x \in Row : Live(x) /\ row[x].space = s}
Named(n) == {x \in Row : Live(x) /\ row[x].name = n}
InDir(s, d) == {x \in LiveIn(s) : row[x].name[1] = d}
Snapshot(x) == [id |-> x, name |-> row[x].name]
-----------------------------------------------------------------------------
Look(r) == looked' = [looked EXCEPT
    ![r] = {<<x, Place(x)>> : x \in {y \in Row : Live(y)}}]
Answers(s, n) == {LiveAt(s, n), {}}

(* Every caller drops the error of FindFileByName: a failed query finds     *)
(* nothing.                                                                 *)
FindFileByName(r, s, n, found) ==
    /\ Look(r)
    /\ \/ found = LiveAt(s, n) /\ Works /\ UNCHANGED blind
       \/ found = {} /\ LiveAt(s, n) # {} /\ Fails /\ blind' = blind \cup {r}
    /\ UNCHANGED <<row, marked, excused>>

CreateFile(r, n, s, then) ==
    /\ row' = [row EXCEPT ![r] = [state |-> "live", name |-> n, space |-> s]]
    /\ Works /\ Goto(r, then)
    /\ UNCHANGED <<marked, history>>

(* The update finds the row by its id, live or not.                         *)
UpdateFilename(r, t, n, unmarks) ==
    /\ row' = IF row[t.id].state = "none" THEN row
              ELSE [row EXCEPT ![t.id].name = n]
    /\ excused' = IF Live(t.id) /\ ~(unmarks /\ row[t.id].name = t.name)
                  THEN excused \cup {row[t.id].name} ELSE excused
    /\ Works /\ UNCHANGED <<marked, looked, blind>>

(* Only a live row is moved to the trash; no error when there is none.       *)
DeleteFile(ts, unmarks) ==
    LET gone == {t \in ts : Live(t.id)}
    IN  /\ row' = [x \in Row |-> IF \E t \in gone : t.id = x
                                 THEN [row[x] EXCEPT !.state = "trash"]
                                 ELSE row[x]]
        /\ excused' = excused \cup
                      {row[t.id].name : t \in {u \in gone :
                          ~(unmarks /\ row[u.id].name = u.name)}}
        /\ Works /\ UNCHANGED <<marked, looked, blind>>

RestoreRow(x) ==
    /\ row' = [row EXCEPT ![x].state = "live"]
    /\ Works /\ UNCHANGED <<marked, history>>

(* Errors of the two are logged at most.                                    *)
MarkFileExists(n) ==
    /\ \/ /\ Works /\ marked' = marked \cup {n}
          /\ excused' = IF Named(n) = {} THEN excused \cup {n}
                        ELSE excused \ {n}
       \/ Fails /\ UNCHANGED <<marked, excused>>
    /\ UNCHANGED <<row, looked, blind>>

UnmarkFileExists(n) ==
    /\ \/ Works /\ marked' = marked \ {n} /\ excused' = excused \ {n}
       \/ Fails /\ excused' = excused \cup {n} /\ UNCHANGED marked
    /\ UNCHANGED <<row, looked, blind>>

(* A statement that fails and ends the request.                             *)
GiveUp(r) == Fails /\ Goto(r, "done") /\ UNCHANGED <<row, marked, history>>
=============================================================================
