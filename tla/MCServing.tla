----------------------------- MODULE MCServing -----------------------------
(* "bad" was registered with the image of v1. *)
EXTENDS Serving

MCVersions == {"v1", "v2", "bad"}
MCBaked == [v \in MCVersions |-> IF v = "v2" THEN "v2" ELSE "v1"]
=============================================================================
