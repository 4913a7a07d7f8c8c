------------------------------- MODULE Restart -------------------------------
(***************************************************************************)
(* BulbServer over several lives of the process: when run() returns,       *)
(* Store.Close writes the registry file, and the next process loads it.    *)
(* Store.tla asks whether that last write can be missed; here it succeeds. *)
(***************************************************************************)
EXTENDS BulbServer

(* Store.Load refuses the file of a registry in which two bulbs share a    *)
(* name, and then there is no next life.                                   *)
Restart ==
  /\ RunReturned
  /\ NamesUnique
  /\ bulbs' = [d \in DeviceId |-> IF Known(d) THEN Reloaded(bulbs[d]) ELSE bulbs[d]]
  /\ undeclared' = DOMAIN Configured
  /\ listener' = "starting"
  /\ stopping' = FALSE
  /\ closers' = {}
  /\ presence' = [d \in DeviceId |-> "none"]
  /\ UNCHANGED <<pc, dev, closed, isNew, post, version, view, reported, overtaken>>

RestartNext == Next \/ Restart

RestartSpec == Init /\ [][RestartNext]_vars

(* A report writes back only what it says: the fields it leaves out keep   *)
(* the value they have when SetState runs, though they are taken from a    *)
(* View made earlier, unless a second connection of the bulb has written   *)
(* the state in between (handlePropertyPost).                              *)
DeltaLeavesTheRest ==
  \A s \in Session :
    pc[s] \in {"refine", "setState"} /\ <<s, "state">> \notin overtaken =>
      \A f \in Field : post[s][f] = Nil => view[s].state[f] = bulbs[dev[s]].state[f]

=============================================================================
