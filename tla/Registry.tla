------------------------------ MODULE Registry ------------------------------
(***************************************************************************)
(* internal/registry/registry.go: the authoritative set of known bulbs.    *)
(*                                                                         *)
(* Every method of Registry holds r.mu for its whole body, so each one is  *)
(* a single atomic step here: an operator whose only primed variable is    *)
(* `bulbs`.  The modules that extend this one decide who takes the step    *)
(* and when.  Times, addresses and the wording of errors are left out; a   *)
(* method that returns an error without changing anything is a step that   *)
(* is not enabled.  The map never loses an entry (the code has no delete), *)
(* so a missing entry is a bulb whose status is "Absent".                  *)
(***************************************************************************)
EXTENDS Naturals, FiniteSets

CONSTANTS
  DeviceId,   \* device ids a bulb can present in CONNECT
  Name,       \* display names; every device id is also a name
  Session,    \* connections, which are the drivers of bulbs
  Nil,        \* Go's nil and "": no driver, no desired state, no firmware
  Field,      \* the reported fields of a bulb.LightState
  Value,      \* the values of a field; 0 is Go's zero value
  Channel,    \* the channels a bulb may have: "color", "temp"
  Firmware,   \* firmware versions a bulb can report
  CapsOf      \* what CapabilitiesFromVersion derives from a version

VARIABLE bulbs  \* r.bulbs, as a total function

LightState == [Field -> Value]

ASSUME RegistryAssumption ==
  /\ DeviceId \subseteq Name
  /\ Nil \notin Session
  /\ Nil \notin DeviceId
  /\ Nil \notin Firmware
  /\ Nil \notin Value
  /\ Nil \notin LightState
  /\ 0 \in Value
  /\ CapsOf \in [Firmware -> SUBSET Channel]

Status == {"Absent", "Disconnected", "Discovered", "Connected"}

(* Capabilities.Known is the non-emptiness of the set of channels: in the  *)
(* code a classified bulb always has a channel, an unclassified one none.  *)
Capabilities == SUBSET Channel

Bulb == [name     : Name,
         status   : Status,
         state    : LightState,
         desired  : LightState \cup {Nil},
         caps     : Capabilities,
         firmware : Firmware \cup {Nil},
         driver   : Session \cup {Nil}]

(* The zero bulb.Bulb of a device that has no entry in the map.            *)
NoBulb(d) == [name |-> d, status |-> "Absent", state |-> [f \in Field |-> 0],
              desired |-> Nil, caps |-> {}, firmware |-> Nil, driver |-> Nil]

Known(d) == bulbs[d].status # "Absent"

Adopted(d) == bulbs[d].status # "Discovered"

(* The uniqueness test shared by Declare and Rename.                       *)
NameInUse(d, n) == \E o \in DeviceId \ {d} : Known(o) /\ bulbs[o].name = n

-----------------------------------------------------------------------------
Upsert(d, caps) ==
  LET b == bulbs[d]
      existing == [b EXCEPT
        !.caps = IF caps # {} \/ b.caps = {} THEN caps ELSE b.caps,
        !.status = IF b.status # "Discovered" THEN "Connected" ELSE b.status]
      fresh == [NoBulb(d) EXCEPT !.status = "Discovered", !.caps = caps]
  IN  bulbs' = [bulbs EXCEPT ![d] = IF Known(d) THEN existing ELSE fresh]

(* Declare without the search for another owner of the name.  A mutant.    *)
DeclareUnchecked(d, n) ==
  bulbs' = [bulbs EXCEPT ![d] =
              IF Known(d) THEN [@ EXCEPT !.name = n]
              ELSE [NoBulb(d) EXCEPT !.name = n, !.status = "Disconnected"]]

(* Declare, where it succeeds.                                             *)
Declare(d, n) ==
  LET b == bulbs[d]
      existing == [b EXCEPT
        !.name = n,
        !.status = IF b.status = "Discovered" THEN "Connected" ELSE b.status]
      fresh == [NoBulb(d) EXCEPT !.name = n, !.status = "Disconnected"]
  IN  /\ ~NameInUse(d, n)
      /\ bulbs' = [bulbs EXCEPT ![d] = IF Known(d) THEN existing ELSE fresh]

(* Rename without the search for another owner of the name.  A mutant.     *)
RenameUnchecked(d, n) ==
  /\ Known(d)
  /\ bulbs' = [bulbs EXCEPT ![d].name = n,
                            ![d].status = IF @ = "Discovered" THEN "Connected" ELSE @]

Rename(d, n) ==
  /\ Known(d)
  /\ ~NameInUse(d, n)
  /\ bulbs' = [bulbs EXCEPT ![d].name = n,
                            ![d].status = IF @ = "Discovered" THEN "Connected" ELSE @]

SetState(d, state) ==
  bulbs' = [bulbs EXCEPT ![d].state = state, ![d].desired = Nil]

SetDesired(d, state) ==
  bulbs' = [bulbs EXCEPT ![d].desired = state]

SetFirmware(d, version) ==
  bulbs' = [bulbs EXCEPT ![d].firmware = version]

SetCapabilities(d, caps) ==
  bulbs' = [bulbs EXCEPT ![d].caps = IF caps = {} /\ @ # {} THEN @ ELSE caps]

(* SetDriver that leaves the status to Upsert.  A mutant.                  *)
SetDriverKeepsStatus(d, s) ==
  bulbs' = [bulbs EXCEPT ![d].driver = s]

(* SetDriver; the previous driver it returns is bulbs[d].driver.           *)
SetDriver(d, s) ==
  bulbs' = [bulbs EXCEPT ![d].driver = s,
                         ![d].status = IF @ = "Disconnected" THEN "Connected" ELSE @]

Driver(d) == bulbs[d].driver

(* Disconnect without the test that s is still the driver.  A mutant.      *)
DisconnectAnyone(d, s) ==
  bulbs' = [bulbs EXCEPT ![d].driver = Nil,
                         ![d].status = IF @ = "Connected" THEN "Disconnected" ELSE @]

(* Disconnect that forgets to drop the driver.  A mutant.                  *)
DisconnectKeepsDriver(d, s) ==
  IF bulbs[d].driver # s THEN UNCHANGED bulbs
  ELSE bulbs' = [bulbs EXCEPT ![d].status = IF @ = "Connected" THEN "Disconnected" ELSE @]

(* Disconnect that forgets the status.  A mutant.                          *)
DisconnectKeepsStatus(d, s) ==
  IF bulbs[d].driver # s THEN UNCHANGED bulbs
  ELSE bulbs' = [bulbs EXCEPT ![d].driver = Nil]

Disconnect(d, s) ==
  IF bulbs[d].driver # s THEN UNCHANGED bulbs
  ELSE bulbs' = [bulbs EXCEPT ![d].driver = Nil,
                              ![d].status = IF @ = "Connected" THEN "Disconnected" ELSE @]

-----------------------------------------------------------------------------
(* What Store.save writes of a bulb and Store.Load makes of it: status,    *)
(* driver and desired state are not in the file, and everything loads      *)
(* disconnected (persist.go).                                              *)
Reloaded(b) ==
  [b EXCEPT !.status = "Disconnected", !.desired = Nil, !.driver = Nil]

(* The bulbs a registry file can hold once loaded.                         *)
LoadedBulb == {b \in Bulb : /\ b.status = "Disconnected"
                            /\ b.desired = Nil
                            /\ b.driver = Nil}

(* No two bulbs share a display name: what Rename and Declare look for     *)
(* before they assign one, and what Load demands of the file.              *)
NamesUnique ==
  \A d, e \in DeviceId :
    Known(d) /\ Known(e) /\ bulbs[d].name = bulbs[e].name => d = e

=============================================================================
