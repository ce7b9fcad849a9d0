--------------------------- MODULE MCLocalRuntime ---------------------------
(* Instances of LocalRuntime for TLC.                                      *)
EXTENDS LocalRuntime, TLC

CONSTANTS r1, r2, s1, s2, a1, a2, d1, i1, g1

\* a1 is authorized for the request s1, every other activation for s2.
MCAuthorizedSpec == [a \in Activations |-> IF a = a1 THEN s1 ELSE s2]
MCArtifactOf     == [r \in Runtimes |-> d1]
MCImageOf        == [d \in Artifacts |-> i1]
MCGenerationOf   == [r \in Runtimes |-> g1]

CallSymmetry == Permutations(Calls)
=============================================================================
