----------------------------- MODULE MCEventBus -----------------------------
(***************************************************************************)
(* Instances of EventBus for TLC.                                          *)
(***************************************************************************)
EXTENDS EventBus, TLC

CONSTANTS p1, p2, p3

Publishers == Permutations(Publisher)

=============================================================================
