------------------------------- MODULE MCOAuth -------------------------------
(* Instance of OAuth: a client that can be registered for another tenant   *)
(* with another scope, and a second client, not registered at first.       *)
EXTENDS OAuth, TLC

CONSTANTS e1, e2  \* the editors

EditorSymmetry == Permutations({e1, e2})

AtT1 == [uris |-> {"home"}, scopes |-> {"write"}, tenant |-> "t1"]
AtT2 == [uris |-> {"away"}, scopes |-> {"read"}, tenant |-> "t2"]

SomeRegistrations == {AtT1, AtT2}
CrmOnly == [c \in Clients |-> IF c = "crm" THEN AtT1 ELSE NoClient]
SomePatches == {[tenant |-> "t2"], [scopes |-> {"read"}]}
=============================================================================
