----------------------------- MODULE OwnershipMap -----------------------------
(***************************************************************************)
(* BulbServer implements Ownership: the owner of a device is its driver in *)
(* the registry, and a connection is "in" from its SetDriver to its        *)
(* deferred Disconnect.                                                    *)
(***************************************************************************)
EXTENDS BulbServer

Phase(s) ==
  IF pc[s] \in Registered THEN "in"
  ELSE IF pc[s] = "ended" THEN "over" ELSE "out"

O == INSTANCE Ownership WITH
       Device <- DeviceId,
       None   <- Nil,
       owner  <- [d \in DeviceId |-> Driver(d)],
       phase  <- [s \in Session |-> Phase(s)]

(* Every step of the sessions, of the operator and of the shutdown is a    *)
(* step of Ownership or leaves owners and phases alone.                    *)
ImplementsOwnership == O!Spec

(* The same, and every displaced connection leaves in the end (register,   *)
(* Close), whatever its bulb does.                                         *)
ImplementsFairOwnership == O!FairSpec

=============================================================================
