--------------------------- MODULE MCDeploymentApi ---------------------------
(* DeploymentApi for TLC.                                                   *)
EXTENDS DeploymentApi, TLC

Symmetry == Permutations(Requests) \cup Permutations(Models)
                \cup Permutations(Versions) \cup Permutations(Replicas)
=============================================================================
