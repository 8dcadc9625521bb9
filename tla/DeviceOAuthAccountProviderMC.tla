---------------------- MODULE DeviceOAuthAccountProviderMC ----------------------
(* Operations of DeviceOAuthAccountProvider for TLC, interchangeable. *)
EXTENDS DeviceOAuthAccountProvider, TLC

CONSTANTS o1, o2

TwoOps == {o1, o2}
OpSymmetry == Permutations(Ops)
=============================================================================
