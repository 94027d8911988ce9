------------------------------- MODULE Files --------------------------------
(* The file service: uploads, moves, trash, spaces, share links and the     *)
(* agent's tools over one table of files and one set of names.              *)
EXTENDS FileUploads, FileMoves, FileShares

vars == <<plan, request, row, marked, faults, crashed, history,
          uploadVars, moveVars, shareVars>>

Kind == {"initUpload", "completeUpload", "checkUpload", "createText", "mkdir",
         "agentWrite", "rename", "moveDir", "agentRename", "agentMove",
         "batchDelete", "deleteDir", "agentDelete", "restore", "agentRestore",
         "purge", "createSpace", "listSpaces", "deleteSpace", "createShare",
         "deleteShare", "download", "saveShare", "idle"}

(* The service starts over the tables and the set of names as they are.      *)
Init ==
    /\ plan \in Plans
    /\ pc = [r \in Request |-> "start"]
    /\ name = [r \in Request |-> None] /\ space = [r \in Request |-> None]
    /\ todo = [r \in Request |-> {}] /\ cur = [r \in Request |-> Nothing]
    /\ \E stock \in Stock :
          row = [x \in Row |-> IF x \in Past THEN stock[x] ELSE Absent]
    /\ marked = {row[x].name : x \in {y \in Row : Live(y)}}
    /\ faults = 0 /\ crashed = FALSE
    /\ looked = [r \in Request |-> NeverLooked] /\ blind = {} /\ excused = {}
    /\ session = [r \in Request |-> NoSession] /\ used = 0 /\ forced = {}
    /\ spaces = {Home} \cup {row[x].space : x \in {y \in Past : Live(y)}}
    /\ emptied = {}
    /\ share = [r \in Request |-> NoLink] /\ links = {}
    /\ visits = [r \in Request |-> {}] /\ count = [r \in Request |-> 0]
    /\ uncounted = [r \in Request |-> 0]

(* The process dies and starts again: the database and Redis remain, and the *)
(* migration at startup takes the rows of no space into their owner's.       *)
migrateAssignDefaultSpace(rows) ==
    [x \in Row |-> IF rows[x].space = Nowhere
                   THEN [rows[x] EXCEPT !.space = Home] ELSE rows[x]]

Unmarking(r) ==
    IF pc[r] # "unmark" THEN {}
    ELSE IF Is(r, {"deleteDir"}) THEN {t.name : t \in todo[r]}
    ELSE {cur[r].name}

Crash ==
    /\ ~crashed /\ crashed' = TRUE
    /\ \E r \in Request : Running(r)
    /\ pc' = [r \in Request |-> IF Running(r) THEN "lost" ELSE pc[r]]
    /\ row' = migrateAssignDefaultSpace(row)
    /\ excused' = excused \cup UNION {Unmarking(r) : r \in Request}
    /\ uncounted' = [s \in Request |-> uncounted[s] +
           Cardinality({r \in Request : At(r, "download", "count") /\ cur[r].id = s})]
    /\ UNCHANGED <<name, space, todo, cur, marked, faults, looked, blind,
                   uploadVars, moveVars, share, links, visits, count>>

Next ==
    /\ \/ /\ \E r \in Request :
                \/ UploadStep(r) /\ UNCHANGED <<moveVars, shareVars>>
                \/ MoveStep(r) /\ UNCHANGED <<uploadVars, shareVars>>
                \/ ShareStep(r) /\ UNCHANGED <<uploadVars, moveVars>>
          /\ UNCHANGED crashed
       \/ Crash
    /\ UNCHANGED plan

Spec == Init /\ [][Next]_vars
-----------------------------------------------------------------------------
Twins(x, y) == x # y /\ Live(x) /\ Live(y) /\ Place(x) = Place(y)
Acts(r) == pc'[r] # pc[r] \/ todo'[r] # todo[r]
(* The request whose look decided that r may write.                         *)
Looker(r) == IF Is(r, {"completeUpload"}) THEN cur[r].id ELSE r

(* x comes to stand beside y under one name of one space by a step of r, and *)
(* no check of r was meant to prevent it, or none could.                    *)
Excuse(r, x, y) ==
    LET seen == looked[Looker(r)]
        there == {l \in seen : l[2] = Place(x)'}
    IN  \/ Is(r, {"agentRename", "agentMove", "agentRestore"})
        \/ r \in blind \/ Looker(r) \in blind \cup forced
        \/ seen # NeverLooked /\ <<y, Place(x)'>> \notin seen  \* it came later
        \/ Is(r, {"restore"}) /\ row'[x].name # cur[r].name  \* x was renamed
        \/ Is(r, {"checkUpload"}) /\ <<cur[r].id, Place(x)'>> \in seen  \* the source
        \/ Is(r, {"agentWrite"}) /\ (cur[r].id = y \/ Cardinality(there) > 1)

(* Two live rows get one name in one space only because a client asked for   *)
(* it, an instant upload repeats its own source, the agent moves or restores *)
(* without looking, a look failed, the other row came between the look and   *)
(* the write, or a restart took in rows saved without a space.              *)
DuplicatesExplained ==
    [][\A x, y \in Row : Twins(x, y)' /\ ~Twins(x, y) /\ row'[x] # row[x] =>
           \/ crashed' # crashed
           \/ \E r \in Request : Acts(r) /\ Excuse(r, x, y)]_vars

(* A name is in Redis without a live row of that name only while a request   *)
(* is about to remove it, or for one of the reasons collected in excused: it *)
(* was marked after its row had gone, its removal failed or was cut off by a *)
(* crash, it belonged to another name than the one a request had read, or    *)
(* the agent, which does not know the set, took the row.                    *)
GhostExplained ==
    \A n \in marked : Named(n) # {} \/ n \in excused
                      \/ \E r \in Request : n \in Unmarking(r)

(* A space that is deleted held no live row at the instant its files were    *)
(* counted, unless the count failed: what it holds now came later.          *)
StrandedExplained ==
    [][spaces' \subseteq spaces /\ spaces' # spaces =>
           \E r \in Request : Acts(r) /\ r \in emptied \cup blind]_vars

(* The count of a link is the number of its visitors, except for visits      *)
(* between the two statements and those whose second one failed, found the   *)
(* link deleted, or was lost in a crash.                                    *)
CountExplained ==
    \A s \in links :
        count[s] + uncounted[s] + Cardinality({r \in Request :
                       At(r, "download", "count") /\ cur[r].id = s})
        = Cardinality(visits[s])

=============================================================================
