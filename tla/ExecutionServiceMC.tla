-------------------------- MODULE ExecutionServiceMC --------------------------
(* Instances of ExecutionService for TLC. *)
EXTENDS ExecutionService

CONSTANTS r1, r2, r3

OneRequest    == {r1}
TwoRequests   == {r1, r2}
ThreeRequests == {r1, r2, r3}

\* The requests are interchangeable; used by runs without liveness properties.
RequestSymmetry == Permutations({r1, r2, r3})
=============================================================================
