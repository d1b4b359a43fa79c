--------------------- MODULE MCModelDeploymentController ---------------------
(* ModelDeploymentController for TLC.  Valid specs can be exchanged for one *)
(* another.                                                                 *)
EXTENDS ModelDeploymentController, TLC

Symmetry == Permutations(Specs \ (Invalid \cup Unfit))
=============================================================================
