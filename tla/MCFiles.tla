------------------------------ MODULE MCFiles -------------------------------
(* Model values for Files: two requests of any kinds, or three that need    *)
(* each other.                                                              *)
EXTENDS Files, SequencesExt

CONSTANTS q1, q2, q3, p1, p2, home, work, nowhere, v1

RequestSeq == <<q1, q2, q3>>
Requests3 == {q1, q2, q3}
BaseSeq == <<"f", "f_1", "f_2">>
AskedNames == {<<"a", "f">>, <<"b", "f">>}
Spaces3 == {home, work, nowhere}

(* A live file beside a directory, or a file in the trash.                   *)
Stocks ==
    LET file(st) == [state |-> st, name |-> <<"a", "f">>, space |-> home]
        dir == [state |-> "live", name |-> <<"a", Keep>>, space |-> home]
    IN  {[x \in {p1, p2} |-> IF x = p1 THEN file("live") ELSE dir],
         [x \in {p1, p2} |-> IF x = p1 THEN file("trash") ELSE Absent]}

Changes == <<"createText", "checkUpload", "initUpload", "mkdir", "agentWrite",
             "rename", "moveDir", "agentRename", "agentMove", "batchDelete",
             "deleteDir", "agentDelete", "restore", "agentRestore", "purge",
             "deleteSpace", "listSpaces">>
(* Requests differ only by their kind: one order of a pair is enough.        *)
Pairs == {<<Changes[i], Changes[j], "idle">> : <<i, j>> \in
             {p \in (1..Len(Changes)) \X (1..Len(Changes)) : p[1] <= p[2]}}

Triples ==
    {<<"initUpload", "completeUpload", k>> :
        k \in {"initUpload", "createText", "rename", "batchDelete", "restore"}}
    \cup {<<"createSpace", "deleteSpace", k>> : k \in {"mkdir", "restore"}}
    \cup {<<"createShare", "download", k>> : k \in {"download", "deleteShare"}}
    \cup {<<"createShare", "saveShare", k>> :
              k \in {"saveShare", "deleteShare", "createText", "agentDelete"}}

PlanOf(t, byToken) ==
    [r \in Requests3 |->
        [kind |-> t[CHOOSE i \in 1..3 : RequestSeq[i] = r], token |-> byToken]]
AllPlans ==
    {PlanOf(t, FALSE) : t \in Triples \cup Pairs}
    \cup {PlanOf(<<"createText", "createText", "checkUpload">>, TRUE)}
=============================================================================
