------------------------------ MODULE MCFleet ------------------------------
(***************************************************************************)
(* Fleet on a small instance: a raw app and an MCP v2 app, three nodes of  *)
(* which two share a failure domain.                                       *)
(***************************************************************************)
EXTENDS Fleet, TLC

MCDomain   == [n \in Nodes |-> IF n = "n3" THEN "west" ELSE "east"]
MCCapacity == [n \in Nodes |-> IF n = "n2" THEN 2 ELSE 1]
MCSymmetry == Permutations(Clients)

=============================================================================
