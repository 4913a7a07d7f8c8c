------------------------------ MODULE Ownership ------------------------------
(***************************************************************************)
(* What the sessions and the registry promise together, without saying     *)
(* how: every device has at most one owner, the connection that acquired   *)
(* it last; a connection acquires one device, once, and gives up nothing   *)
(* but its own; and one that has lost its device goes away.                *)
(*                                                                         *)
(* BulbServer implements this specification (OwnershipMap).                *)
(***************************************************************************)
CONSTANTS Device, Session, None

VARIABLES
  owner,  \* per device, the connection that owns it or None
  phase   \* per connection: "out", "in", or "over"

ownershipVars == <<owner, phase>>

Init ==
  /\ owner = [d \in Device |-> None]
  /\ phase = [s \in Session |-> "out"]

(* The newest connection of a device takes it over.                        *)
Acquire(s, d) ==
  /\ phase[s] = "out"
  /\ phase' = [phase EXCEPT ![s] = "in"]
  /\ owner' = [owner EXCEPT ![d] = s]

(* A connection leaves, and its device has no owner if it still was his.   *)
Release(s) ==
  /\ phase[s] = "in"
  /\ phase' = [phase EXCEPT ![s] = "over"]
  /\ owner' = [d \in Device |-> IF owner[d] = s THEN None ELSE owner[d]]

(* A connection that never acquired anything leaves.                       *)
TurnAway(s) ==
  /\ phase[s] = "out"
  /\ phase' = [phase EXCEPT ![s] = "over"]
  /\ UNCHANGED owner

Owns(s) == \E d \in Device : owner[d] = s

Next ==
  \E s \in Session :
    Release(s) \/ TurnAway(s) \/ \E d \in Device : Acquire(s, d)

Spec == Init /\ [][Next]_ownershipVars

(* A displaced connection does not stay.                                   *)
FairSpec == Spec /\ \A s \in Session : WF_ownershipVars(~Owns(s) /\ Release(s))

=============================================================================
