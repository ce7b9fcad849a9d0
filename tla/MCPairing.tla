----------------------------- MODULE MCPairing -----------------------------
(* Instances of Pairing for TLC.                                           *)
EXTENDS Pairing

CONSTANTS t1, i1, i2

\* The first token pairs one cluster; all others, the bootstrap included, another.
MCIdOf == [t \in AllTokens |-> IF t = t1 THEN i1 ELSE i2]
=============================================================================
