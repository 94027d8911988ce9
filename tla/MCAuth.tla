------------------------------- MODULE MCAuth -------------------------------
(* Model values for Auth: three requests, and one of everything before them. *)
EXTENDS Auth, Sequences

CONSTANTS q1, q2, q3

RequestSeq == <<q1, q2, q3>>
Requests3 == {q1, q2, q3}
Sessions == <<"login", "logout", "refresh", "authorize", "exchange",
              "clientToken", "reset", "adminReset">>
Accounts == <<"register", "resend", "activate", "forgot", "reset", "setStatus">>
Tokens == <<"createToken", "revokeToken", "beginUpload", "completeUpload",
            "createText", "setStatus">>

(* Requests differ by their endpoint only: one plan stands for all plans that *)
(* permute them.                                                            *)
Mixes(kinds) ==
    {[r \in Requests3 |-> kinds[m[CHOOSE i \in 1..3 : RequestSeq[i] = r]]] :
        m \in {n \in [1..3 -> DOMAIN kinds] : n[1] <= n[2] /\ n[2] <= n[3]}}
Plans3 == Mixes(Sessions) \cup Mixes(Accounts) \cup Mixes(Tokens)
=============================================================================
