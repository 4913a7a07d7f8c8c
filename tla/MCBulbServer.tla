---------------------------- MODULE MCBulbServer ----------------------------
(***************************************************************************)
(* Instances of BulbServer for TLC.                                        *)
(***************************************************************************)
EXTENDS OwnershipMap, TLC

CONSTANTS d1, d2, n1, n2, s1, s2, s3

NoFirmware == [v \in {} |-> {}]

NoLamps == [d \in {} |-> n1]
OneLamp == d1 :> n1

=============================================================================
