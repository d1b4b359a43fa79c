-------------------------- MODULE MCInferenceQueue --------------------------
(* InferenceQueue on small instances.                                      *)
EXTENDS InferenceQueue, TLC

\* Jobs, payloads and workers are interchangeable in every action and in
\* every safety property.
Symmetry ==
    Permutations(Jobs) \cup Permutations(Payloads) \cup Permutations(Workers)
=============================================================================
