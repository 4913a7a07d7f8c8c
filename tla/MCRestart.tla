------------------------------ MODULE MCRestart ------------------------------
(***************************************************************************)
(* Instances of Restart for TLC.                                           *)
(***************************************************************************)
EXTENDS Restart, OwnershipMap, TLC

CONSTANTS d1, d2, n1, n2, s1, s2, s3

Versions == "rgb" :> {"color"} @@ "unknown" :> {}
NoLamps == [d \in {} |-> n1]

Sessions == Permutations(Session)

(* No bulb has said anything about its state or its firmware.              *)
Silent ==
  /\ \A d \in DeviceId : bulbs[d].state = NoView.state /\ bulbs[d].caps = {}
  /\ \A s \in Session : ~reported[s] /\ post[s] = NoPost /\ version[s] = Nil
  /\ \A s \in Session : pc[s] \notin {"refine", "setState", "publish", "otaCaps"}

(* The file of the first process has no reports in it.                     *)
MCInit == Init /\ Silent

MCSpec == MCInit /\ [][RestartNext]_vars

MidReport(s) == pc[s] \in {"refine", "setState", "publish", "otaCaps"}

(* Bounds: either all three connections are used, or two of them report;   *)
(* and no report is being handled while the process is stopping.           *)
Bounded ==
  \/ Cardinality({s \in Session : pc[s] # "free"}) <= 2
     /\ (stopping => \A s \in Session : ~MidReport(s))
  \/ Silent

(* Nothing reads the firmware of a bulb or the last presence event, and no *)
(* property of this run but TypeOK mentions them: states that differ in    *)
(* nothing else are explored once.                                         *)
Relevant ==
  <<[d \in DeviceId |-> [bulbs[d] EXCEPT !.firmware = Nil]],
    undeclared, listener, stopping, sessionVars, overtaken>>

=============================================================================
