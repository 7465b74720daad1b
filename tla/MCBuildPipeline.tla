--------------------------- MODULE MCBuildPipeline ---------------------------
(* Instances of BuildPipeline for TLC.                                     *)
EXTENDS BuildPipelineLifecycle, TLC

CONSTANTS r1, r2, p1, p2

OneProcess   == [r \in Requests |-> p1]
TwoProcesses == [r \in Requests |-> IF r = r1 THEN p1 ELSE p2]

Symmetry == Permutations(Workers) \cup Permutations(Keys)
=============================================================================
