------------------------------ MODULE MCFleet ------------------------------
(* TLC instances of Fleet: members are numbers, two feeds that prefer         *)
(* different members.                                                         *)
EXTENDS Fleet
CONSTANT N
MCMember == 1 .. N
MCRank == [m \in MCMember |-> m]
MCFeed == {"f", "g"}
MCScore == [f \in MCFeed |-> [m \in MCMember |-> IF f = "f" THEN m ELSE N - m]]
OneAhead == [m \in MCMember |-> IF m = 1 THEN 1 ELSE 0]
=============================================================================
