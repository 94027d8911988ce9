----------------------------- MODULE MCMigrate -----------------------------
(* Model values for Migrate: the file server and the authentication service *)
(* on one MySQL database, or either of them on a SQLite file, found new or   *)
(* as one of the releases before left it.                                   *)
EXTENDS Migrate, TLC

CONSTANTS server, authSvc

DutiesOf == server :> <<"admin", "oauth">> @@ authSvc :> <<"oauth", "admin">>

(* The columns in the order in which releases added them: those of the first *)
(* n are in a database of release n.                                        *)
History == << <<"users", "email">>, <<"users", "status">>, <<"files", "owner">>,
              <<"files", "deleted_at">>, <<"shares", "password_hash">>,
              <<"upload_sessions", "upload_mode">>, <<"upload_sessions", "object_key">>,
              <<"files", "space_id">>, <<"upload_sessions", "space_id">>,
              <<"shares", "space_id">>, <<"oauth_clients", "owner_username">> >>
Releases == {0, 4, 7, 10, 11}
TablesOf(n) == {"upload_sessions", "files", "users"}
               \cup (IF n < 5 THEN {} ELSE {"shares"})
               \cup (IF n < 8 THEN {} ELSE {"spaces"})

Release(n, more) ==
    LET there == TablesOf(n) \cup more
    IN  [tables |-> there,
         cols |-> {c \in {History[i] : i \in 1..n} : c[1] \in there}]

AllOlds ==
    {[tables |-> {}, cols |-> {}]}
    \cup {Release(n, {}) : n \in Releases \ {11}}
    \cup {Release(n, {"oauth_clients"}) : n \in {7, 10, 11}}
    \cup {Release(n, {"shares"}) : n \in {4}}
=============================================================================
