--------------------------- MODULE MCModelRegistry ---------------------------
(* ModelRegistry on small instances.                                       *)
EXTENDS ModelRegistry, TLC

\* Requests, versions, descriptions and artifacts are interchangeable; names
\* are ordered.
Symmetry ==
    Permutations(Requests) \cup Permutations(Versions)
        \cup Permutations(Descriptions) \cup Permutations(Artifacts)
=============================================================================
