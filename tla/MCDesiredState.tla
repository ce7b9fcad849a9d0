--------------------------- MODULE MCDesiredState ---------------------------
(* Instances of DesiredState for TLC.                                       *)
EXTENDS DesiredState, TLC

ContainerSymmetry == Permutations(Containers)
HandlerSymmetry   == Permutations(Handlers)
=============================================================================
