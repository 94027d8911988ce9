------------------------------ MODULE Migrate ------------------------------
(***************************************************************************)
(* Opening the database when a service starts (store/migrate.go, db.go,     *)
(* oauth_repo.go, handler/admin_init.go): the tables are created if absent, *)
(* then one migration after the other reads the columns of a table and adds *)
(* those that are missing, and the rows and users of an older release are   *)
(* given a default space.  Services share a MySQL database and may start at *)
(* the same time; any statement may fail, and a service that fails exits and *)
(* is started again.  One step is one statement; nothing runs in a          *)
(* transaction.                                                            *)
(*                                                                         *)
(* A column is a pair of a table and a name, and only the columns some      *)
(* migration adds are told apart.  An index has the name of its column.     *)
(***************************************************************************)
EXTENDS Naturals, Sequences, FiniteSets

CONSTANTS Service,   \* the services that open the database
          Duties,    \* what each does after migrate(): "oauth", "admin"
          Dialects,  \* "mysql", "sqlite"
          Olds,      \* the databases that may be found, see Init
          User,      \* the users of an older release
          Admin,     \* the initial administrator
          Row,       \* its file rows
          MaxFaults  \* failed statements and crashes in a behaviour

ASSUME MigrateAssumption ==
    /\ Dialects \subseteq {"mysql", "sqlite"} /\ Admin \notin User
    /\ MaxFaults \in Nat

Creates == <<"upload_sessions", "files", "users", "shares", "spaces">>

M(t, names, when) ==
    [table |-> t, adds |-> [i \in DOMAIN names |-> <<t, names[i]>>],
     index |-> <<t, IF names = <<>> THEN "hash" ELSE names[1]>>, when |-> when]

(* An index is made when its column has just been added, only on MySQL       *)
(* ("fresh"); or when it is not there ("checked").                          *)
UsersAddColumns == M("users", <<"email", "status">>, "fresh")
FilesAddOwner == M("files", <<"owner">>, "fresh")
FilesAddHashIndex == M("files", <<>>, "checked")
FilesAddDeletedAt == M("files", <<"deleted_at">>, "checked")
SharesAddPassword == M("shares", <<"password_hash">>, "never")
UploadSessionsAddPresignedCols ==
    M("upload_sessions", <<"upload_mode", "object_key">>, "never")
FilesAddSpaceID == M("files", <<"space_id">>, "fresh")
UploadSessionsAddSpaceID == M("upload_sessions", <<"space_id">>, "never")
SharesAddSpaceID == M("shares", <<"space_id">>, "never")
OAuthClientsAddOwner == M("oauth_clients", <<"owner_username">>, "never")

Migrations ==
    << UsersAddColumns, FilesAddOwner, FilesAddHashIndex, FilesAddDeletedAt,
       SharesAddPassword, UploadSessionsAddPresignedCols, FilesAddSpaceID,
       UploadSessionsAddSpaceID, SharesAddSpaceID, OAuthClientsAddOwner >>
LastOfFiles == 9     \* after it the rows are given their spaces
Clients == 10        \* skipped when the table is not there

Names(k) == {Migrations[k].adds[i] : i \in DOMAIN Migrations[k].adds}
Column == UNION {Names(k) : k \in DOMAIN Migrations}
ColumnsOf(t) == {c \in Column : c[1] = t}

VARIABLES
    dialect,
    tables, cols, idx,  \* the schema
    file,               \* owner and space of each file row
    users, homes,       \* users, and those with a default space
    pc, at,             \* where each service is, and in which of its list
    todo,               \* columns it found missing and has not added
    fresh,              \* the index it has yet to make, if any
    left,               \* users it has yet to give a space
    faults,
    \* history
    origin,             \* the file rows as they were found
    skipped,            \* indexes of a column that was added by a service
                        \* that did not get to making them
    unchecked,          \* columns whose table could not be looked up
    excused             \* users whose space was not made, or who came after

schema == <<tables, cols, idx>>
contents == <<file, users, homes>>
local == <<pc, at, todo, fresh, left>>
history == <<origin, skipped, unchecked, excused>>
vars == <<dialect, schema, contents, local, faults, history>>

Goto(s, where) == pc' = [pc EXCEPT ![s] = where]
First(s, where) == Goto(s, where) /\ at' = [at EXCEPT ![s] = 1]
Fails == faults < MaxFaults /\ faults' = faults + 1
Works == UNCHANGED faults

(* The index s has to make after the column it has added.                   *)
Owing(s) == fresh[s] \ todo[s]

(* The process ends: an error from migrate() is fatal.  The index it has to  *)
(* make is then left to nobody.                                             *)
Exit(s) ==
    /\ Goto(s, "down")
    /\ todo' = [todo EXCEPT ![s] = {}] /\ left' = [left EXCEPT ![s] = {}]
    /\ skipped' = skipped \cup Owing(s)
    /\ fresh' = [fresh EXCEPT ![s] = {}]
    /\ UNCHANGED <<at, origin, unchecked, excused>>

(***************************************************************************)
(* migrate(), New, NewMySQL                                                 *)
(***************************************************************************)
Start(s) ==
    /\ pc[s] = "down"
    /\ First(s, "create")
    /\ UNCHANGED <<dialect, schema, contents, todo, fresh, left, faults, history>>

(* The indexes CREATE TABLE makes on MySQL; on SQLite they are statements    *)
(* of their own that run whether the table is new or not.                   *)
IndexesOf(t) ==
    CASE t = "files" /\ dialect = "mysql" -> {<<t, "owner">>, <<t, "deleted_at">>}
      [] t = "users" /\ dialect = "mysql" -> {<<t, "email">>}
      [] OTHER -> {}
FileIndexes ==
    << <<"files", "owner">>, <<"files", "space_id">>, <<"files", "deleted_at">> >>
Added(t) ==
    IF t = "files" /\ dialect = "mysql" THEN ColumnsOf(t) \ {<<t, "space_id">>}
    ELSE ColumnsOf(t)

NewTable(t) ==
    /\ tables' = tables \cup {t}
    /\ cols' = IF t \in tables THEN cols ELSE cols \cup Added(t)
    /\ idx' = IF t \in tables THEN idx ELSE idx \cup IndexesOf(t)

(* CREATE INDEX fails on a column that is not there, and the rest of the     *)
(* statements with it.                                                      *)
IndexFiles(s) ==
    LET now == IF "files" \in tables THEN cols ELSE cols \cup Added("files")
        good == {i \in 1..3 : \A j \in 1..i : FileIndexes[j] \in now}
    IN  /\ tables' = tables \cup {"files"}
        /\ cols' = now
        /\ idx' = idx \cup {FileIndexes[i] : i \in good}
        /\ IF good = 1..3
           THEN /\ at' = [at EXCEPT ![s] = @ + 1]
                /\ UNCHANGED <<pc, todo, fresh, left, history>>
           ELSE Exit(s)

CreateTable(s) ==
    LET t == Creates[at[s]]
    IN  /\ pc[s] = "create"
        /\ \/ Fails /\ Exit(s) /\ UNCHANGED schema
           \/ /\ Works
              /\ IF dialect = "sqlite" /\ t = "files" THEN IndexFiles(s)
                 ELSE /\ NewTable(t)
                      /\ IF at[s] < Len(Creates)
                         THEN at' = [at EXCEPT ![s] = @ + 1] /\ UNCHANGED pc
                         ELSE First(s, "read")
                      /\ UNCHANGED <<todo, fresh, left, history>>
        /\ UNCHANGED <<dialect, contents>>

(* The columns of the table.  The loop ends when rows.Next() is false and    *)
(* rows.Err() is not asked: a connection lost on the way looks like a table *)
(* with fewer columns.                                                      *)
Missing(s, seen) == Names(at[s]) \ seen
\* MUTANT of Owed: the index of a new column is forgotten.
OwedNothing(s, missing) == {}

Owed(s, missing) ==
    LET m == Migrations[at[s]]
    IN  IF dialect = "mysql" /\ m.when = "fresh" THEN {m.index} \cap missing ELSE {}
Found(s, seen) ==
    LET missing == Missing(s, seen)
    IN  /\ todo' = [todo EXCEPT ![s] = missing]
        /\ fresh' = [fresh EXCEPT ![s] = Owed(s, missing)]

\* MUTANT of ReadColumns: the columns are never scanned.
ReadNothing(s) ==
    /\ pc[s] = "read" /\ Works
    /\ Found(s, {}) /\ Goto(s, "add")
    /\ UNCHANGED <<dialect, schema, contents, at, left, history>>

ReadColumns(s) ==
    LET reads == Names(at[s]) # {}
    IN  /\ pc[s] = "read"
        /\ \/ reads /\ Fails /\ Exit(s)
           \/ /\ \/ Works /\ Found(s, cols)
                 \/ reads /\ Fails /\ Found(s, {})
              /\ Goto(s, "add")
              /\ UNCHANGED <<at, left, history>>
        /\ UNCHANGED <<dialect, schema, contents>>

(* The columns are added in the order of the list.                          *)
Foremost(s) ==
    LET adds == Migrations[at[s]].adds
    IN  adds[CHOOSE i \in DOMAIN adds :
                 adds[i] \in todo[s] /\ \A j \in 1 .. i - 1 : adds[j] \notin todo[s]]

\* MUTANT of AddColumn: a failed ALTER TABLE is only logged.
AddColumnLogging(s) ==
    /\ pc[s] = "add" /\ todo[s] # {}
    /\ \/ Fails /\ UNCHANGED cols
       \/ Works /\ cols' = cols \cup {Foremost(s)}
    /\ todo' = [todo EXCEPT ![s] = @ \ {Foremost(s)}]
    /\ UNCHANGED <<dialect, tables, idx, contents, pc, at, fresh, left, history>>

(* ALTER TABLE ADD COLUMN: refused where the column is there, be it that     *)
(* another service was faster.                                              *)
AddColumn(s) ==
    /\ pc[s] = "add" /\ todo[s] # {}
    /\ LET c == Foremost(s)
       IN  \/ /\ \/ Fails
                 \/ Works /\ c \in cols
              /\ Exit(s) /\ UNCHANGED cols
           \/ /\ Works /\ c \notin cols
              /\ cols' = cols \cup {c}
              /\ todo' = [todo EXCEPT ![s] = @ \ {c}]
              /\ UNCHANGED <<pc, at, fresh, left, history>>
    /\ UNCHANGED <<dialect, tables, idx, contents>>

(* Where a service goes after a migration.                                  *)
Proceed(s) ==
    CASE at[s] = LastOfFiles -> Goto(s, "users") /\ UNCHANGED at
      [] at[s] = Clients -> First(s, "duties")
      [] OTHER -> Goto(s, "read") /\ at' = [at EXCEPT ![s] = @ + 1]

(* CREATE INDEX, whose failure is only logged.  On MySQL the query that asks *)
(* whether the index is there may fail too, and ends the start.             *)
CreateIndex(s) ==
    LET m == Migrations[at[s]]
        wanted == fresh[s] # {} \/ m.when = "checked"
    IN  /\ pc[s] = "add" /\ todo[s] = {}
        /\ \/ /\ m.when = "checked" /\ dialect = "mysql"
              /\ Fails /\ Exit(s) /\ UNCHANGED idx
           \/ /\ \/ /\ Works
                    /\ idx' = IF wanted THEN idx \cup {m.index} ELSE idx
                    /\ UNCHANGED skipped
                 \/ /\ wanted /\ Fails
                    /\ skipped' = skipped \cup fresh[s]
                    /\ UNCHANGED idx
              /\ Proceed(s)
              /\ fresh' = [fresh EXCEPT ![s] = {}]
              /\ UNCHANGED <<todo, left, origin, unchecked, excused>>
        /\ UNCHANGED <<dialect, tables, cols, contents>>

(* ensureDefaultSpaces: a space that cannot be inserted is only logged.      *)
ListUsers(s) ==
    /\ pc[s] = "users"
    /\ \/ Fails /\ Exit(s)
       \/ /\ Works /\ Goto(s, "spaces")
          /\ left' = [left EXCEPT ![s] = users]
          /\ UNCHANGED <<at, todo, fresh, history>>
    /\ UNCHANGED <<dialect, schema, contents>>

EnsureDefaultSpace(s) ==
    /\ pc[s] = "spaces"
    /\ \E u \in left[s] :
          /\ left' = [left EXCEPT ![s] = @ \ {u}]
          /\ \/ /\ Works
                /\ homes' = homes \cup {u} /\ excused' = excused \ {u}
             \/ /\ Fails /\ UNCHANGED homes
                /\ excused' = IF u \in homes THEN excused ELSE excused \cup {u}
    /\ UNCHANGED <<dialect, schema, file, users, pc, at, todo, fresh,
                   origin, skipped, unchecked>>

Homeless(f) == f.space = "" /\ f.owner # ""

\* MUTANT of AssignDefaultSpace: files of nobody are moved too.
AssignEverySpace(s) ==
    /\ pc[s] = "spaces" /\ left[s] = {} /\ Works
    /\ Goto(s, "clients")
    /\ file' = [r \in DOMAIN file |->
                   IF file[r].space = "" THEN [file[r] EXCEPT !.space = "default"]
                   ELSE file[r]]
    /\ UNCHANGED <<dialect, schema, users, homes, at, todo, fresh, left, history>>

(* The rows in the trash are moved too.                                     *)
AssignDefaultSpace(s) ==
    /\ pc[s] = "spaces" /\ left[s] = {}
    /\ \/ Fails /\ Exit(s) /\ UNCHANGED file
       \/ /\ Works /\ Goto(s, "clients")
          /\ file' = [r \in DOMAIN file |->
                         IF Homeless(file[r]) THEN [file[r] EXCEPT !.space = "default"]
                         ELSE file[r]]
          /\ UNCHANGED <<at, todo, fresh, left, history>>
    /\ UNCHANGED <<dialect, schema, users, homes>>

(* Is the table of clients there?  A failure of this query counts as no.     *)
HasClients(s) ==
    /\ pc[s] = "clients"
    /\ \/ /\ Fails /\ First(s, "duties")
          /\ unchecked' = unchecked \cup ColumnsOf("oauth_clients")
       \/ /\ Works /\ "oauth_clients" \notin tables
          /\ First(s, "duties") /\ UNCHANGED unchecked
       \/ /\ Works /\ "oauth_clients" \in tables
          /\ Goto(s, "read") /\ at' = [at EXCEPT ![s] = Clients]
          /\ UNCHANGED unchecked
    /\ UNCHANGED <<dialect, schema, contents, todo, fresh, left,
                   origin, skipped, excused>>

(***************************************************************************)
(* What the main functions do next: the tables of the clients, the first    *)
(* administrator.                                                           *)
(***************************************************************************)
Due(s, what) ==
    pc[s] = "duties" /\ at[s] \in DOMAIN Duties[s] /\ Duties[s][at[s]] = what
Done(s) == Goto(s, "duties") /\ at' = [at EXCEPT ![s] = @ + 1]

EnsureOAuthClientsTables(s) ==
    /\ Due(s, "oauth")
    /\ \/ Fails /\ Exit(s) /\ UNCHANGED schema
       \/ /\ Works /\ NewTable("oauth_clients") /\ Done(s)
          /\ UNCHANGED <<todo, fresh, left, history>>
    /\ UNCHANGED <<dialect, contents>>

CountUsers(s) ==
    /\ Due(s, "admin")
    /\ \/ Fails /\ Exit(s)
       \/ /\ Works
          /\ IF users # {} THEN Done(s) ELSE Goto(s, "admin") /\ UNCHANGED at
          /\ UNCHANGED <<todo, fresh, left, history>>
    /\ UNCHANGED <<dialect, schema, contents>>

(* The name is unique: the slower of two services is refused, and exits.     *)
CreateAdmin(s) ==
    /\ pc[s] = "admin"
    /\ \/ /\ \/ Fails
             \/ Works /\ Admin \in users
          /\ Exit(s) /\ UNCHANGED users
       \/ /\ Works /\ Admin \notin users
          /\ users' = users \cup {Admin}
          /\ excused' = excused \cup {Admin}
          /\ Done(s)
          /\ UNCHANGED <<todo, fresh, left, origin, skipped, unchecked>>
    /\ UNCHANGED <<dialect, schema, file, homes>>

Serve(s) ==
    /\ pc[s] = "duties" /\ at[s] > Len(Duties[s])
    /\ Goto(s, "up")
    /\ UNCHANGED <<dialect, schema, contents, at, todo, fresh, left, faults, history>>

Crash(s) ==
    /\ pc[s] \notin {"off", "down"}
    /\ Fails /\ Exit(s)
    /\ UNCHANGED <<dialect, schema, contents>>

(***************************************************************************)
(* Olds has records of the tables and the migrated columns of a database;   *)
(* no tables at all is a new one.  The indexes of an old database are those *)
(* of its columns, and the first service alone opens a SQLite file.         *)
(***************************************************************************)
OldFiles(there) ==
    {f \in [owner : {""} \cup User, space : {"", "own"}] :
        /\ <<"files", "owner">> \in there \/ f.owner = ""
        /\ <<"files", "space_id">> \in there \/ f.space = ""}

Init ==
    /\ dialect \in Dialects
    /\ \E old \in Olds :
          /\ tables = old.tables /\ cols = old.cols
          /\ users = IF tables = {} THEN {} ELSE User
          /\ homes \in IF "spaces" \in tables THEN SUBSET users ELSE {{}}
          /\ file \in [IF tables = {} THEN {} ELSE Row -> OldFiles(cols)]
          /\ idx = LET made == {c \in {FileIndexes[i] : i \in 1..3} : c \in cols}
                       mail == {c \in {<<"users", "email">>} :
                                    c \in cols /\ dialect = "mysql"}
                   IN  made \cup mail
    /\ pc \in [Service -> {"off", "down"}]
    /\ Cardinality({s \in Service : pc[s] = "down"}) =
          IF dialect = "sqlite" THEN 1 ELSE Cardinality(Service)
    /\ at = [s \in Service |-> 1]
    /\ todo = [s \in Service |-> {}]
    /\ fresh = [s \in Service |-> {}] /\ left = [s \in Service |-> {}]
    /\ faults = 0
    /\ origin = file
    /\ skipped = {} /\ unchecked = {}
    /\ excused = {}

Step(s) ==
    \/ Start(s) \/ CreateTable(s) \/ ReadColumns(s) \/ AddColumn(s) \/ CreateIndex(s)
    \/ ListUsers(s) \/ EnsureDefaultSpace(s) \/ AssignDefaultSpace(s) \/ HasClients(s)
    \/ EnsureOAuthClientsTables(s) \/ CountUsers(s) \/ CreateAdmin(s) \/ Serve(s)

Next == \E s \in Service : Step(s) \/ Crash(s)

(* A service manager starts a service again (Restart=on-failure, restart:    *)
(* unless-stopped), and a running start goes on.                            *)
Spec == Init /\ [][Next]_vars /\ \A s \in Service : WF_vars(Step(s))

(***************************************************************************)
(* Properties                                                              *)
(***************************************************************************)
(* A service that is up has every column it uses in the schema, whoever      *)
(* added it and whatever failed in between, except the owner of the OAuth   *)
(* clients: an error of the query for that table is taken for its absence   *)
(* (oauth_repo.go:156), and the service runs without the column.            *)
SchemaExplained ==
    \A s \in Service : pc[s] = "up" =>
        /\ \A i \in DOMAIN Creates : Creates[i] \in tables
        /\ \A c \in Column : c[1] \in tables => c \in cols \cup unchecked

(* On MySQL an index made with its column (the unique index of users.email   *)
(* among them) is there, or about to be made by the service that added the  *)
(* column, unless that service exited or failed between the two statements: *)
(* every later start finds the column and never makes the index.            *)
IndexExplained ==
    dialect = "mysql" =>
        \A k \in DOMAIN Migrations :
            LET m == Migrations[k]
            IN  (m.when = "fresh" /\ m.index \in cols) =>
                    \/ m.index \in idx \cup skipped
                    \/ \E s \in Service : m.index \in Owing(s)

(* Once a service is up, the files found without a space are in their        *)
(* owner's default space and no other file has moved, and every user has a  *)
(* default space but those whose insert failed or who came later.           *)
OwnersHomed ==
    (\E s \in Service : pc[s] = "up") =>
        /\ \A r \in DOMAIN file :
              file[r].space = IF Homeless(origin[r]) THEN "default" ELSE origin[r].space
        /\ users \subseteq homes \cup excused

Upgradable ==
    \/ dialect = "mysql" \/ "files" \notin tables
    \/ \A i \in 1..3 : FileIndexes[i] \in cols

(* Services that race to add the same column make each other exit, but every *)
(* exit of this kind leaves the schema further on: in the end all are up,   *)
(* and stay up.  Not so on a SQLite file of a release without owners, spaces *)
(* or the trash: the indexes on the new columns come first (migrate.go:216) *)
(* and no start gets past them.                                             *)
Starts ==
    /\ Upgradable => <>[](\A s \in Service : pc[s] \in {"off", "up"})
    /\ ~Upgradable => [](\A s \in Service : pc[s] # "up")
=============================================================================
