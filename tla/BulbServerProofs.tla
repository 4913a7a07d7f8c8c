-------------------------- MODULE BulbServerProofs --------------------------
(***************************************************************************)
(* Proofs about BulbServer, for any set of devices, names and connections. *)
(***************************************************************************)
EXTENDS BulbServer, TLAPS

-----------------------------------------------------------------------------
(* What each registry method does to the entry of its device and to every  *)
(* other entry: the only facts about `bulbs` that the proofs about its     *)
(* callers use.                                                            *)

BulbsType == bulbs \in [DeviceId -> Bulb]

(* The methods touch one entry.                                            *)
OnlyEntry(d) == \A e \in DeviceId : e # d => bulbs'[e] = bulbs[e]

(* The zero bulb of a device is a bulb, absent and without a driver.       *)
LEMMA NoBulbType ==
  ASSUME NEW d \in DeviceId
  PROVE  /\ NoBulb(d) \in Bulb
         /\ NoBulb(d).status = "Absent"
         /\ NoBulb(d).driver = Nil
         /\ NoBulb(d).name = d
  BY RegistryAssumption DEF NoBulb, Bulb, LightState, Status, Capabilities

(* A method that changes one entry to the bulb b.                          *)
LEMMA ChangedEntry ==
  ASSUME BulbsType, NEW d \in DeviceId, NEW b \in Bulb, bulbs' = [bulbs EXCEPT ![d] = b]
  PROVE  BulbsType' /\ OnlyEntry(d) /\ bulbs'[d] = b
  BY DEF BulbsType, OnlyEntry

(* Upsert never touches a driver, keeps the entry of a known bulb, and     *)
(* leaves an unadopted bulb unadopted.                                     *)
LEMMA UpsertEffect ==
  ASSUME BulbsType, NEW d \in DeviceId, NEW caps \in Capabilities, Upsert(d, caps)
  PROVE  /\ BulbsType'
         /\ OnlyEntry(d)
         /\ bulbs'[d].driver = IF Known(d) THEN bulbs[d].driver ELSE Nil
         /\ bulbs'[d].name = IF Known(d) THEN bulbs[d].name ELSE d
         /\ bulbs'[d].status = IF ~Known(d) \/ bulbs[d].status = "Discovered"
                               THEN "Discovered" ELSE "Connected"
  <1>1. CASE Known(d)
    <2> DEFINE c == IF caps # {} \/ bulbs[d].caps = {} THEN caps ELSE bulbs[d].caps
               st == IF bulbs[d].status # "Discovered" THEN "Connected"
                     ELSE bulbs[d].status
               b == [bulbs[d] EXCEPT !.caps = c, !.status = st]
    <2>1. c \in Capabilities /\ st \in Status
      BY DEF BulbsType, Bulb, Capabilities, Status
    <2>2. bulbs' = [bulbs EXCEPT ![d] = b]
      BY <1>1 DEF Upsert
    <2> HIDE DEF c
    <2>3. /\ b \in Bulb
          /\ b.driver = bulbs[d].driver
          /\ b.name = bulbs[d].name
          /\ b.status = st
      BY <2>1 DEF BulbsType, Bulb
    <2> HIDE DEF b
    <2> QED BY <1>1, <2>2, <2>3 DEF BulbsType, OnlyEntry, Known
  <1>2. CASE ~Known(d)
    <2> DEFINE b == [NoBulb(d) EXCEPT !.status = "Discovered", !.caps = caps]
    <2>1. /\ b \in Bulb
          /\ b.driver = Nil
          /\ b.name = d
          /\ b.status = "Discovered"
      BY NoBulbType DEF NoBulb, Bulb, Status, Capabilities
    <2>2. bulbs' = [bulbs EXCEPT ![d] = b]
      BY <1>2 DEF Upsert
    <2> HIDE DEF b
    <2> QED BY <1>2, <2>1, <2>2 DEF BulbsType, OnlyEntry
  <1> QED BY <1>1, <1>2

(* Declare keeps a driver, gives the name, and takes an entry online only  *)
(* from "Discovered".                                                      *)
LEMMA DeclareEffect ==
  ASSUME BulbsType, NEW d \in DeviceId, NEW n \in Name, Declare(d, n)
  PROVE  /\ BulbsType'
         /\ OnlyEntry(d)
         /\ bulbs'[d].driver = IF Known(d) THEN bulbs[d].driver ELSE Nil
         /\ bulbs'[d].name = n
         /\ ~NameInUse(d, n)
         /\ bulbs'[d].status = IF ~Known(d) THEN "Disconnected"
                               ELSE IF bulbs[d].status = "Discovered" THEN "Connected"
                               ELSE bulbs[d].status
  <1>1. CASE Known(d)
    <2> DEFINE st == IF bulbs[d].status = "Discovered" THEN "Connected" ELSE bulbs[d].status
               b == [bulbs[d] EXCEPT !.name = n, !.status = st]
    <2>1. bulbs[d] \in Bulb /\ st \in Status
      BY DEF BulbsType, Bulb, Status
    <2>2. bulbs' = [bulbs EXCEPT ![d] = b] /\ ~NameInUse(d, n)
      BY <1>1 DEF Declare
    <2> HIDE DEF st
    <2>3. b \in Bulb /\ b.name = n /\ b.status = st /\ b.driver = bulbs[d].driver
      BY <2>1 DEF Bulb
    <2> HIDE DEF b
    <2> QED BY <1>1, <2>2, <2>3, ChangedEntry DEF st
  <1>2. CASE ~Known(d)
    <2> DEFINE b == [NoBulb(d) EXCEPT !.name = n, !.status = "Disconnected"]
    <2>1. /\ b \in Bulb
          /\ b.driver = Nil
          /\ b.name = n
          /\ b.status = "Disconnected"
      BY NoBulbType DEF NoBulb, Bulb, Status
    <2>2. bulbs' = [bulbs EXCEPT ![d] = b] /\ ~NameInUse(d, n)
      BY <1>2 DEF Declare
    <2> HIDE DEF b
    <2> QED BY <1>2, <2>1, <2>2 DEF BulbsType, OnlyEntry
  <1> QED BY <1>1, <1>2

(* Rename keeps the driver; it adopts a discovered bulb.                   *)
LEMMA RenameEffect ==
  ASSUME BulbsType, NEW d \in DeviceId, NEW n \in Name, Rename(d, n)
  PROVE  /\ BulbsType'
         /\ OnlyEntry(d)
         /\ Known(d)
         /\ ~NameInUse(d, n)
         /\ bulbs'[d].driver = bulbs[d].driver
         /\ bulbs'[d].name = n
         /\ bulbs'[d].status = IF bulbs[d].status = "Discovered" THEN "Connected"
                               ELSE bulbs[d].status
  <1> DEFINE st == IF bulbs[d].status = "Discovered" THEN "Connected" ELSE bulbs[d].status
             b == [bulbs[d] EXCEPT !.name = n, !.status = st]
  <1>1. bulbs[d] \in Bulb /\ st \in Status
    BY DEF BulbsType, Bulb, Status
  <1>2. bulbs' = [bulbs EXCEPT ![d] = b] /\ Known(d) /\ ~NameInUse(d, n)
    BY <1>1 DEF Rename, BulbsType, Bulb
  <1> HIDE DEF st
  <1>3. b \in Bulb /\ b.name = n /\ b.status = st /\ b.driver = bulbs[d].driver
    BY <1>1 DEF Bulb
  <1> HIDE DEF b
  <1> QED BY <1>2, <1>3, ChangedEntry DEF st

(* SetState, SetFirmware and SetCapabilities leave presence alone.         *)
PresenceKept(d) ==
  /\ BulbsType'
  /\ OnlyEntry(d)
  /\ bulbs'[d].driver = bulbs[d].driver
  /\ bulbs'[d].name = bulbs[d].name
  /\ bulbs'[d].status = bulbs[d].status

LEMMA SetStateEffect ==
  ASSUME BulbsType, NEW d \in DeviceId, NEW st \in LightState, SetState(d, st)
  PROVE  PresenceKept(d)
  <1> DEFINE b == [bulbs[d] EXCEPT !.state = st, !.desired = Nil]
  <1>1. bulbs[d] \in Bulb
    BY DEF BulbsType
  <1>2. b \in Bulb /\ b.driver = bulbs[d].driver /\ b.name = bulbs[d].name /\ b.status = bulbs[d].status
    BY <1>1 DEF Bulb
  <1>3. bulbs' = [bulbs EXCEPT ![d] = b]
    BY <1>1 DEF SetState, BulbsType, Bulb
  <1> HIDE DEF b
  <1> QED BY <1>2, <1>3, ChangedEntry DEF PresenceKept

LEMMA SetFirmwareEffect ==
  ASSUME BulbsType, NEW d \in DeviceId, NEW v \in Firmware, SetFirmware(d, v)
  PROVE  PresenceKept(d)
  BY DEF BulbsType, Bulb, SetFirmware, OnlyEntry, PresenceKept

LEMMA SetCapabilitiesEffect ==
  ASSUME BulbsType, NEW d \in DeviceId, NEW caps \in Capabilities,
         SetCapabilities(d, caps)
  PROVE  PresenceKept(d)
  BY DEF BulbsType, Bulb, SetCapabilities, OnlyEntry, PresenceKept, Capabilities

(* SetDriver installs the session and takes a disconnected bulb online.    *)
LEMMA SetDriverEffect ==
  ASSUME BulbsType, NEW d \in DeviceId, NEW s \in Session, SetDriver(d, s)
  PROVE  /\ BulbsType'
         /\ OnlyEntry(d)
         /\ bulbs'[d].driver = s
         /\ bulbs'[d].name = bulbs[d].name
         /\ bulbs'[d].status = IF bulbs[d].status = "Disconnected" THEN "Connected"
                               ELSE bulbs[d].status
  <1> DEFINE st == IF bulbs[d].status = "Disconnected" THEN "Connected" ELSE bulbs[d].status
             b == [bulbs[d] EXCEPT !.driver = s, !.status = st]
  <1>1. bulbs[d] \in Bulb /\ st \in Status
    BY DEF BulbsType, Bulb, Status
  <1>2. bulbs' = [bulbs EXCEPT ![d] = b]
    BY <1>1 DEF SetDriver, BulbsType, Bulb
  <1> HIDE DEF st
  <1>3. b \in Bulb /\ b.driver = s /\ b.status = st /\ b.name = bulbs[d].name
    BY <1>1 DEF Bulb
  <1> HIDE DEF b
  <1> QED BY <1>2, <1>3, ChangedEntry DEF st

(* Disconnect drops the driver if it is the session that ends, and         *)
(* otherwise does nothing at all.                                          *)
LEMMA DisconnectEffect ==
  ASSUME BulbsType, NEW d \in DeviceId, NEW s \in Session, Disconnect(d, s)
  PROVE  /\ BulbsType'
         /\ OnlyEntry(d)
         /\ bulbs'[d].name = bulbs[d].name
         /\ IF bulbs[d].driver = s
            THEN /\ bulbs'[d].driver = Nil
                 /\ bulbs'[d].status = IF bulbs[d].status = "Connected"
                                       THEN "Disconnected" ELSE bulbs[d].status
            ELSE bulbs'[d] = bulbs[d]
  <1>1. CASE bulbs[d].driver # s
    BY <1>1 DEF Disconnect, BulbsType, OnlyEntry
  <1>2. CASE bulbs[d].driver = s
    <2> DEFINE st == IF bulbs[d].status = "Connected" THEN "Disconnected" ELSE bulbs[d].status
               b == [bulbs[d] EXCEPT !.driver = Nil, !.status = st]
    <2>1. bulbs[d] \in Bulb /\ st \in Status
      BY DEF BulbsType, Bulb, Status
    <2>2. bulbs' = [bulbs EXCEPT ![d] = b]
      BY <1>2, <2>1 DEF Disconnect, BulbsType, Bulb
    <2> HIDE DEF st
    <2>3. b \in Bulb /\ b.driver = Nil /\ b.status = st /\ b.name = bulbs[d].name
      BY <2>1 DEF Bulb
    <2> HIDE DEF b
    <2> QED BY <1>2, <2>2, <2>3, ChangedEntry DEF st
  <1> QED BY <1>1, <1>2

(* The state of a known bulb is written by SetState and its capabilities   *)
(* by SetCapabilities; every other method leaves both as they are.         *)
KnowledgeKept(d) ==
  /\ bulbs'[d].state = bulbs[d].state
  /\ bulbs'[d].caps = bulbs[d].caps

LEMMA MethodsKeepKnowledge ==
  ASSUME BulbsType, NEW d \in DeviceId, Known(d),
         \/ Upsert(d, {})
         \/ \E n \in Name : Declare(d, n) \/ Rename(d, n)
         \/ \E s \in Session : SetDriver(d, s) \/ Disconnect(d, s)
         \/ \E v \in Firmware : SetFirmware(d, v)
  PROVE  KnowledgeKept(d)
  <1> USE DEF BulbsType, Bulb, KnowledgeKept
  <1>1. CASE Upsert(d, {})
    BY <1>1 DEF Upsert
  <1>2. ASSUME NEW n \in Name, Declare(d, n) PROVE KnowledgeKept(d)
    BY <1>2 DEF Declare
  <1>3. ASSUME NEW n \in Name, Rename(d, n) PROVE KnowledgeKept(d)
    BY <1>3 DEF Rename
  <1>4. ASSUME NEW s \in Session, SetDriver(d, s) PROVE KnowledgeKept(d)
    BY <1>4 DEF SetDriver
  <1>5. ASSUME NEW s \in Session, Disconnect(d, s) PROVE KnowledgeKept(d)
    BY <1>5 DEF Disconnect
  <1>6. ASSUME NEW v \in Firmware, SetFirmware(d, v) PROVE KnowledgeKept(d)
    BY <1>6 DEF SetFirmware
  <1> QED BY <1>1, <1>2, <1>3, <1>4, <1>5, <1>6

(* SetCapabilities replaces the channels of a bulb, but by none only where *)
(* there are none.                                                         *)
LEMMA SetCapabilitiesKeepsState ==
  ASSUME BulbsType, NEW d \in DeviceId, NEW caps \in Capabilities,
         SetCapabilities(d, caps)
  PROVE  /\ bulbs'[d].state = bulbs[d].state
         /\ bulbs'[d].caps = IF caps = {} /\ bulbs[d].caps # {} THEN bulbs[d].caps ELSE caps
  BY DEF BulbsType, Bulb, SetCapabilities

LEMMA SetStateKeepsCapabilities ==
  ASSUME BulbsType, NEW d \in DeviceId, NEW st \in LightState, SetState(d, st)
  PROVE  bulbs'[d].caps = bulbs[d].caps /\ bulbs'[d].state = st
  BY DEF BulbsType, Bulb, SetState

-----------------------------------------------------------------------------
(* What the handlers need in order to be well typed: a session past its    *)
(* handshake has a device, and an OTA inform under way a version.          *)
Identified ==
  \A s \in Session :
    /\ pc[s] \in Serving \ {"handshake"} => dev[s] \in DeviceId
    /\ pc[s] = "otaCaps" => version[s] \in Firmware

TypeInv == TypeOK /\ Identified

(* The labels of a session, and which of them mean what.                   *)
LEMMA Labels ==
  /\ "free" \in PC /\ "sniff" \in PC /\ "ended" \in PC
  /\ Serving \subseteq PC
  /\ Registered \subseteq Serving
  /\ Serving = Registered \cup {"handshake", "upsert", "setDriver"}
  /\ Registered = {"announce", "arm", "read", "refine", "setState", "publish",
                   "otaCaps", "report", "gone", "unregister"}
  BY DEF PC, Serving, Registered

LEMMA InitTyped == Init => TypeInv
  <1> SUFFICES ASSUME Init PROVE TypeInv
    OBVIOUS
  <1>1. BulbsType
    <2>1. LoadedBulb \subseteq Bulb
      BY DEF LoadedBulb
    <2>2. {NoBulb(d) : d \in DeviceId} \subseteq Bulb
      BY NoBulbType
    <2> QED BY <2>1, <2>2 DEF Init, BulbsType
  <1>2. NoPost \in Post /\ NoView \in View
    BY RegistryAssumption DEF NoPost, Post, NoView, View, LightState, Capabilities
  <1>3. TypeOK
    BY <1>1, <1>2, Labels DEF Init, TypeOK, BulbsType, Presence
  <1>4. Identified
    BY Labels DEF Init, Identified
  <1> QED BY <1>3, <1>4 DEF TypeInv

(* What RefineFromReport and PostApply return.                             *)
LEMMA RefineType ==
  ASSUME NEW caps \in Capabilities, NEW p \in Post
  PROVE  RefineFromReport(caps, p) \in Capabilities
  BY DEF RefineFromReport, Capabilities

(* What Overtakes adds are sessions.                                       *)
LEMMA OvertakesType ==
  ASSUME TypeOK, NEW s \in Session, NEW part \in {"state", "caps"}, NEW waiting,
         Overtakes(s, part, waiting)
  PROVE  overtaken' \in SUBSET (Session \X {"state", "caps"})
  BY DEF TypeOK, Overtakes

LEMMA PostApplyType ==
  ASSUME NEW p \in Post, NEW st \in LightState
  PROVE  PostApply(p, st) \in LightState
  BY DEF PostApply, Post, LightState

(* Every step keeps TypeInv.                                               *)
LEMMA StepTyped == TypeInv /\ [Next]_vars => TypeInv'
  <1> SUFFICES ASSUME TypeInv, [Next]_vars PROVE TypeInv'
    OBVIOUS
  <1> USE Labels DEF TypeInv, TypeOK, Identified, BulbsType, Goto
  <1>0. CASE UNCHANGED vars
    BY <1>0 DEF vars, sessionVars
  <1>1. ASSUME NEW d \in DeviceId, DeclareLamp(d) PROVE TypeInv'
    <2>1. d \in DOMAIN Configured /\ Configured[d] \in Name
      BY <1>1, BulbServerAssumption DEF DeclareLamp
    <2>2. BulbsType'
      BY <1>1, <2>1, DeclareEffect DEF DeclareLamp
    <2> QED BY <1>1, <2>2 DEF DeclareLamp, sessionVars
  <1>2. ASSUME NEW d \in DeviceId, DeclareFails(d) PROVE TypeInv'
    BY <1>2 DEF DeclareFails, sessionVars
  <1>3. CASE Listen \/ ListenFails
    BY <1>3 DEF Listen, ListenFails, sessionVars
  <1>4. CASE Cancel
    BY <1>4 DEF Cancel, sessionVars
  <1>5. CASE CloseListener \/ AcceptFails
    BY <1>5 DEF CloseListener, AcceptFails, sessionVars
  <1>6. ASSUME NEW d \in DeviceId, NEW n \in OperatorName, OperatorRenames(d, n)
        PROVE  TypeInv'
    <2>1. BulbsType'
      BY <1>6, RenameEffect, BulbServerAssumption DEF OperatorRenames
    <2> QED BY <1>6, <2>1 DEF OperatorRenames, sessionVars
  <1>7. ASSUME NEW s \in Session, Accept(s) PROVE TypeInv'
    BY <1>7 DEF Accept
  <1>8. ASSUME NEW s \in Session, Sniff(s) PROVE TypeInv'
    BY <1>8 DEF Sniff
  <1>9. ASSUME NEW s \in Session, HandshakeFails(s) PROVE TypeInv'
    BY <1>9 DEF HandshakeFails
  <1>10. ASSUME NEW s \in Session, NEW d \in DeviceId, Connect(s, d) PROVE TypeInv'
    BY <1>10 DEF Connect
  <1>11. ASSUME NEW s \in Session, NEW d \in DeviceId, Refuse(s, d) PROVE TypeInv'
    BY <1>11 DEF Refuse
  <1>12. ASSUME NEW s \in Session, RegisterUpsert(s) PROVE TypeInv'
    <2>1. dev[s] \in DeviceId /\ {} \in Capabilities
      BY <1>12 DEF RegisterUpsert, Capabilities
    <2>2. BulbsType'
      BY <1>12, <2>1, UpsertEffect DEF RegisterUpsert
    <2>3. (~Known(dev[s])) \in BOOLEAN
      BY DEF Known
    <2> QED BY <1>12, <2>1, <2>2, <2>3 DEF RegisterUpsert
  <1>13. ASSUME NEW s \in Session, RegisterSetDriver(s) PROVE TypeInv'
    <2>1. dev[s] \in DeviceId
      BY <1>13 DEF RegisterSetDriver
    <2>2. BulbsType'
      BY <1>13, <2>1, SetDriverEffect DEF RegisterSetDriver
    <2>3. Displaced(s) \subseteq Session
      BY <2>1 DEF Displaced, Driver, Bulb
    <2> QED BY <1>13, <2>1, <2>2, <2>3 DEF RegisterSetDriver
  <1>14. ASSUME NEW s \in Session, RegisterAnnounce(s) PROVE TypeInv'
    <2>1. presence' \in [DeviceId -> Presence]
      BY <1>14 DEF RegisterAnnounce, Publish, Presence
    <2> QED BY <1>14, <2>1 DEF RegisterAnnounce
  <1>15. ASSUME NEW s \in Session, Arm(s) PROVE TypeInv'
    BY <1>15 DEF Arm
  <1>16. ASSUME NEW s \in Session, ReadFails(s) PROVE TypeInv'
    BY <1>16 DEF ReadFails
  <1>17. ASSUME NEW s \in Session, HandleOther(s) PROVE TypeInv'
    BY <1>17 DEF HandleOther
  <1>18. ASSUME NEW s \in Session, HandleFails(s) PROVE TypeInv'
    BY <1>18 DEF HandleFails
  <1>19. ASSUME NEW s \in Session, NEW v \in Firmware, HandleOTA(s, v) PROVE TypeInv'
    <2>1. dev[s] \in DeviceId
      BY <1>19 DEF HandleOTA
    <2>2. BulbsType'
      BY <1>19, <2>1, SetFirmwareEffect DEF HandleOTA, PresenceKept
    <2> QED BY <1>19, <2>1, <2>2 DEF HandleOTA
  <1>20. ASSUME NEW s \in Session, OTACapabilities(s) PROVE TypeInv'
    <2>1. dev[s] \in DeviceId /\ CapsOf[version[s]] \in Capabilities
      BY <1>20, RegistryAssumption DEF OTACapabilities, Capabilities
    <2>2. BulbsType'
      BY <1>20, <2>1, SetCapabilitiesEffect DEF OTACapabilities, PresenceKept
    <2>3. overtaken' \in SUBSET (Session \X {"state", "caps"})
      BY <1>20, OvertakesType DEF OTACapabilities
    <2> QED BY <1>20, <2>1, <2>2, <2>3 DEF OTACapabilities
  <1>21. ASSUME NEW s \in Session, NEW p \in Post, HandlePost(s, p) PROVE TypeInv'
    <2>1. dev[s] \in DeviceId
      BY <1>21 DEF HandlePost
    <2>2. [state |-> bulbs[dev[s]].state, caps |-> bulbs[dev[s]].caps] \in View
      BY <2>1 DEF Bulb, View
    <2> QED BY <1>21, <2>1, <2>2 DEF HandlePost
  <1>22. ASSUME NEW s \in Session, PostRefine(s) PROVE TypeInv'
    <2>1. dev[s] \in DeviceId /\ view[s].caps \in Capabilities
      BY <1>22 DEF PostRefine, View
    <2>2. RefineFromReport(view[s].caps, post[s]) \in Capabilities
      BY <2>1, RefineType
    <2>3. BulbsType'
      BY <1>22, <2>1, <2>2, SetCapabilitiesEffect DEF PostRefine, PresenceKept
    <2>4. overtaken' \in SUBSET (Session \X {"state", "caps"})
      BY <1>22, OvertakesType DEF PostRefine
    <2> QED BY <1>22, <2>1, <2>3, <2>4 DEF PostRefine
  <1>23. ASSUME NEW s \in Session, PostSetState(s) PROVE TypeInv'
    <2>1. dev[s] \in DeviceId /\ view[s].state \in LightState
      BY <1>23 DEF PostSetState, View
    <2>2. PostApply(post[s], view[s].state) \in LightState
      BY <2>1, PostApplyType
    <2>3. BulbsType'
      BY <1>23, <2>1, <2>2, SetStateEffect DEF PostSetState, PresenceKept
    <2>4. NoPost \in Post /\ NoView \in View
      BY RegistryAssumption DEF NoPost, Post, NoView, View, LightState, Capabilities
    <2>5. post' \in [Session -> Post] /\ view' \in [Session -> View]
      BY <1>23, <2>4 DEF PostSetState, Reply
    <2>6. \E l \in {"publish", "arm", "unregister"} : pc' = [pc EXCEPT ![s] = l]
      BY <1>23 DEF PostSetState, Reply
    <2>7. overtaken' \in SUBSET (Session \X {"state", "caps"})
      BY <1>23, OvertakesType DEF PostSetState
    <2> QED BY <1>23, <2>1, <2>3, <2>5, <2>6, <2>7 DEF PostSetState
  <1>24. ASSUME NEW s \in Session, PostPublish(s) PROVE TypeInv'
    <2>1. presence' \in [DeviceId -> Presence]
      BY <1>24 DEF PostPublish, Publish, Presence
    <2>2. NoPost \in Post /\ NoView \in View
      BY RegistryAssumption DEF NoPost, Post, NoView, View, LightState, Capabilities
    <2> QED BY <1>24, <2>1, <2>2 DEF PostPublish, Reply
  <1>25. ASSUME NEW s \in Session, ReportDisconnect(s) PROVE TypeInv'
    BY <1>25 DEF ReportDisconnect
  <1>26. ASSUME NEW s \in Session, PublishDisconnected(s) PROVE TypeInv'
    <2>1. presence' \in [DeviceId -> Presence]
      BY <1>26 DEF PublishDisconnected, Publish, Presence
    <2> QED BY <1>26, <2>1 DEF PublishDisconnected
  <1>27. ASSUME NEW s \in Session, Unregister(s) PROVE TypeInv'
    <2>1. dev[s] \in DeviceId
      BY <1>27 DEF Unregister
    <2>2. BulbsType'
      BY <1>27, <2>1, DisconnectEffect DEF Unregister
    <2> QED BY <1>27, <2>1, <2>2 DEF Unregister
  <1>28. ASSUME NEW s \in Session, CloseDisplaced(s) PROVE TypeInv'
    BY <1>28 DEF CloseDisplaced
  <1>29. ASSUME NEW s \in Session, CloseAtShutdown(s) PROVE TypeInv'
    BY <1>29 DEF CloseAtShutdown
  <1>30. CASE Terminated
    BY <1>30 DEF Terminated, vars, sessionVars
  <1> QED
    BY <1>0, <1>1, <1>2, <1>3, <1>4, <1>5, <1>6, <1>7, <1>8, <1>9, <1>10, <1>11,
       <1>12, <1>13, <1>14, <1>15, <1>16, <1>17, <1>18, <1>19, <1>20, <1>21,
       <1>22, <1>23, <1>24, <1>25, <1>26, <1>27, <1>28, <1>29, <1>30
    DEF Next, Handshake, Work, Hear

(* Every reachable state is well typed; in particular no handler works on  *)
(* a session without a device or on a version it has not received.         *)
THEOREM TypeCorrect == Spec => []TypeOK
  <1>1. TypeInv => TypeOK
    BY DEF TypeInv
  <1> QED BY InitTyped, StepTyped, <1>1, PTL DEF Spec

-----------------------------------------------------------------------------
(* DriverIsLive is not inductive alone: that a displaced session is being  *)
(* closed, and that a live driver is never listed as disconnected, follow  *)
(* only because a session that has called Upsert has an entry to its name. *)
Enrolled == Registered \cup {"setDriver"}

EnrolledIsKnown == \A s \in Session : pc[s] \in Enrolled => Known(dev[s])

Safe ==
  /\ DriverIsLive
  /\ SupersededIsClosing
  /\ DriverMeansOnline
  /\ EnrolledIsKnown

LEMMA InitSafe == Init => Safe
  <1> SUFFICES ASSUME Init PROVE Safe
    OBVIOUS
  <1>1. \A d \in DeviceId : Driver(d) = Nil
    <2> TAKE d \in DeviceId
    <2>1. bulbs[d] \in LoadedBulb \/ \E e \in DeviceId : bulbs[d] = NoBulb(e)
      BY DEF Init
    <2> QED BY <2>1, NoBulbType DEF LoadedBulb, Driver
  <1>2. \A s \in Session : pc[s] \notin Enrolled /\ pc[s] \notin Registered
    BY Labels DEF Init, Enrolled
  <1> QED BY <1>1, <1>2
       DEF Safe, DriverIsLive, SupersededIsClosing, DriverMeansOnline, EnrolledIsKnown

(* A step that neither moves a driver or a status, nor enrols or ends a    *)
(* session, nor takes back a Close, keeps Safe.                            *)
LEMMA QuietKeepsSafe ==
  ASSUME TypeInv, TypeInv', Safe,
         \A d \in DeviceId : /\ bulbs'[d].driver = bulbs[d].driver
                             /\ bulbs'[d].status = bulbs[d].status,
         \A s \in Session : /\ pc[s] \in Registered <=> pc'[s] \in Registered
                            /\ pc[s] = "setDriver" <=> pc'[s] = "setDriver",
         \A s \in Session : pc[s] \in Enrolled => dev'[s] = dev[s],
         \A s \in Session : closed[s] \/ s \in closers => closed'[s] \/ s \in closers'
  PROVE  Safe'
  <1> USE Labels DEF Enrolled, TypeInv, TypeOK, Identified, Driver, Known
  <1>1. DriverIsLive'
    <2> SUFFICES ASSUME NEW d \in DeviceId, bulbs'[d].driver # Nil
                 PROVE  /\ dev'[bulbs'[d].driver] = d
                        /\ pc'[bulbs'[d].driver] \in Registered
      BY DEF DriverIsLive
    <2>1. bulbs[d].driver \in Session
      BY DEF Bulb
    <2> QED BY <2>1 DEF Safe, DriverIsLive
  <1>2. SupersededIsClosing'
    BY DEF Safe, SupersededIsClosing
  <1>3. DriverMeansOnline'
    BY DEF Safe, DriverMeansOnline
  <1>4. EnrolledIsKnown'
    BY DEF Safe, EnrolledIsKnown
  <1> QED BY <1>1, <1>2, <1>3, <1>4 DEF Safe

(* The same for a naming, which moves a status but not to or from absent   *)
(* or disconnected where there was an entry.                               *)
LEMMA NamingKeepsSafe ==
  ASSUME TypeInv, TypeInv', Safe, NEW d \in DeviceId, OnlyEntry(d),
         bulbs'[d].driver = IF Known(d) THEN bulbs[d].driver ELSE Nil,
         Known(d) => bulbs'[d].status = IF bulbs[d].status = "Discovered" THEN "Connected"
                                        ELSE bulbs[d].status,
         UNCHANGED <<pc, dev, closed, closers>>
  PROVE  Safe'
  <1> USE Labels DEF Enrolled, TypeInv, TypeOK, Identified, Driver, Known, OnlyEntry
  <1>1. DriverIsLive'
    BY DEF Safe, DriverIsLive
  <1>2. EnrolledIsKnown'
    BY DEF Safe, EnrolledIsKnown
  <1>3. SupersededIsClosing'
    <2> SUFFICES ASSUME NEW s \in Session, pc[s] \in Registered,
                        bulbs'[dev[s]].driver # s
                 PROVE  closed[s] \/ s \in closers
      BY DEF SupersededIsClosing
    <2>1. Known(dev[s])
      BY DEF Safe, EnrolledIsKnown
    <2>2. bulbs[dev[s]].driver # s
      BY <2>1
    <2> QED BY <2>2 DEF Safe, SupersededIsClosing
  <1>4. DriverMeansOnline'
    BY DEF Safe, DriverMeansOnline
  <1> QED BY <1>1, <1>2, <1>3, <1>4 DEF Safe

(* A session that moves on within, or without, its registered part.        *)
Moves(s) ==
  \E l \in PC :
    /\ pc' = [pc EXCEPT ![s] = l]
    /\ pc[s] \in Registered <=> l \in Registered
    /\ pc[s] # "setDriver" /\ l # "setDriver"

LEMMA MoveKeepsSafe ==
  ASSUME TypeInv, TypeInv', Safe, NEW s \in Session, Moves(s), bulbs' = bulbs,
         \A u \in Session : pc[u] \in Enrolled => dev'[u] = dev[u],
         UNCHANGED <<closed, closers>>
  PROVE  Safe'
  <1>1. PICK l \in PC : /\ pc' = [pc EXCEPT ![s] = l]
                        /\ pc[s] \in Registered <=> l \in Registered
                        /\ pc[s] # "setDriver" /\ l # "setDriver"
    BY DEF Moves
  <1>2. \A u \in Session : /\ pc[u] \in Registered <=> pc'[u] \in Registered
                           /\ pc[u] = "setDriver" <=> pc'[u] = "setDriver"
    BY <1>1 DEF TypeInv, TypeOK
  <1>3. \A e \in DeviceId : /\ bulbs'[e].driver = bulbs[e].driver
                            /\ bulbs'[e].status = bulbs[e].status
    OBVIOUS
  <1> QED BY <1>2, <1>3, QuietKeepsSafe

(* The steps of a session before it registers.                             *)
LEMMA HandshakeKeepsSafe ==
  ASSUME TypeInv, TypeInv', Safe, NEW s \in Session,
         Accept(s) \/ Sniff(s) \/ Handshake(s)
  PROVE  Safe'
  <1> USE Labels DEF PC
  <1>1. bulbs' = bulbs /\ UNCHANGED <<closed, closers>>
    BY DEF Accept, Sniff, Handshake, HandshakeFails, Connect, Refuse
  <1>2. pc[s] \notin Enrolled
    BY DEF Accept, Sniff, Handshake, HandshakeFails, Connect, Refuse, Enrolled
  <1>3. \A u \in Session : pc[u] \in Enrolled => dev'[u] = dev[u]
    BY <1>2 DEF Accept, Sniff, Handshake, HandshakeFails, Connect, Refuse,
                TypeInv, TypeOK
  <1>4. Moves(s)
    <2>1. CASE Accept(s)
      BY <2>1 DEF Accept, Goto, Moves
    <2>2. CASE Sniff(s)
      BY <2>2 DEF Sniff, Goto, Moves
    <2>3. CASE HandshakeFails(s)
      BY <2>3 DEF HandshakeFails, Goto, Moves
    <2>4. ASSUME NEW d \in DeviceId, Connect(s, d) \/ Refuse(s, d) PROVE Moves(s)
      BY <2>4 DEF Connect, Refuse, Goto, Moves
    <2> QED BY <2>1, <2>2, <2>3, <2>4 DEF Handshake
  <1> QED BY <1>1, <1>3, <1>4, MoveKeepsSafe

(* The steps of a registered session that do not touch the registry.       *)
LEMMA LoopKeepsSafe ==
  ASSUME TypeInv, TypeInv', Safe, NEW s \in Session,
         \/ RegisterAnnounce(s) \/ Arm(s) \/ ReadFails(s) \/ HandleOther(s)
         \/ HandleFails(s) \/ (\E p \in Post : HandlePost(s, p)) \/ PostPublish(s)
         \/ ReportDisconnect(s) \/ PublishDisconnected(s)
  PROVE  Safe'
  <1> USE Labels DEF PC
  <1>1. bulbs' = bulbs /\ UNCHANGED <<dev, closed, closers>>
    BY DEF RegisterAnnounce, Arm, ReadFails, HandleOther, HandleFails, HandlePost,
           PostPublish, ReportDisconnect, PublishDisconnected
  <1>2. Moves(s)
    <2>1. CASE RegisterAnnounce(s)
      BY <2>1 DEF RegisterAnnounce, Goto, Moves
    <2>2. CASE Arm(s)
      BY <2>2 DEF Arm, Goto, Moves
    <2>3. CASE ReadFails(s) \/ HandleOther(s) \/ HandleFails(s)
      BY <2>3 DEF ReadFails, HandleOther, HandleFails, Goto, Moves
    <2>4. ASSUME NEW p \in Post, HandlePost(s, p) PROVE Moves(s)
      BY <2>4 DEF HandlePost, Goto, Moves
    <2>5. CASE PostPublish(s)
      BY <2>5 DEF PostPublish, Reply, Goto, Moves
    <2>6. CASE ReportDisconnect(s)
      BY <2>6 DEF ReportDisconnect, Goto, Moves
    <2>7. CASE PublishDisconnected(s)
      BY <2>7 DEF PublishDisconnected, Goto, Moves
    <2> QED BY <2>1, <2>2, <2>3, <2>4, <2>5, <2>6, <2>7
  <1> QED BY <1>1, <1>2, MoveKeepsSafe

(* Closing a session does not take back a Close under way.                 *)
LEMMA CloseKeepsSafe ==
  ASSUME TypeInv, TypeInv', Safe, NEW s \in Session,
         CloseDisplaced(s) \/ CloseAtShutdown(s)
  PROVE  Safe'
  <1>1. UNCHANGED <<bulbs, pc, dev>>
    BY DEF CloseDisplaced, CloseAtShutdown
  <1>2. \A u \in Session : closed[u] \/ u \in closers => closed'[u] \/ u \in closers'
    BY DEF CloseDisplaced, CloseAtShutdown, TypeInv, TypeOK
  <1>3. /\ \A u \in Session : /\ pc[u] \in Registered <=> pc'[u] \in Registered
                              /\ pc[u] = "setDriver" <=> pc'[u] = "setDriver"
        /\ \A u \in Session : pc[u] \in Enrolled => dev'[u] = dev[u]
        /\ \A e \in DeviceId : /\ bulbs'[e].driver = bulbs[e].driver
                               /\ bulbs'[e].status = bulbs[e].status
    BY <1>1
  <1> QED BY <1>2, <1>3, QuietKeepsSafe

(* The steps of a session's goroutine that record what the bulb reported.  *)
Reports(s) ==
  \/ \E v \in Firmware : HandleOTA(s, v)
  \/ OTACapabilities(s) \/ PostRefine(s) \/ PostSetState(s)

(* They leave the presence of every bulb as it is.                         *)
LEMMA ReportKeepsPresence ==
  ASSUME TypeInv, NEW s \in Session, Reports(s)
  PROVE  PresenceKept(dev[s]) /\ dev[s] \in DeviceId
  <1> USE Labels DEF TypeInv, TypeOK
  <1>1. dev[s] \in DeviceId
    BY DEF Reports, Identified, HandleOTA, OTACapabilities, PostRefine, PostSetState
  <1>2. ASSUME NEW v \in Firmware, HandleOTA(s, v) PROVE PresenceKept(dev[s])
    BY <1>1, <1>2, SetFirmwareEffect DEF HandleOTA, BulbsType
  <1>3. CASE OTACapabilities(s)
    <2>1. CapsOf[version[s]] \in Capabilities
      BY <1>3, RegistryAssumption DEF OTACapabilities, Identified, Capabilities
    <2> QED BY <1>1, <1>3, <2>1, SetCapabilitiesEffect DEF OTACapabilities, BulbsType
  <1>4. CASE PostRefine(s)
    <2>1. RefineFromReport(view[s].caps, post[s]) \in Capabilities
      BY RefineType DEF View
    <2> QED BY <1>1, <1>4, <2>1, SetCapabilitiesEffect DEF PostRefine, BulbsType
  <1>5. CASE PostSetState(s)
    <2>1. PostApply(post[s], view[s].state) \in LightState
      BY PostApplyType DEF View
    <2> QED BY <1>1, <1>5, <2>1, SetStateEffect DEF PostSetState, BulbsType
  <1> QED BY <1>1, <1>2, <1>3, <1>4, <1>5 DEF Reports

LEMMA ReportKeepsSafe ==
  ASSUME TypeInv, TypeInv', Safe, NEW s \in Session, Reports(s)
  PROVE  Safe'
  <1> USE Labels DEF TypeInv, TypeOK
  <1>1. \A e \in DeviceId : /\ bulbs'[e].driver = bulbs[e].driver
                            /\ bulbs'[e].status = bulbs[e].status
    BY ReportKeepsPresence DEF PresenceKept, OnlyEntry
  <1>2. pc[s] \in Registered /\ \E l \in Registered : pc' = [pc EXCEPT ![s] = l]
    BY DEF Reports, HandleOTA, OTACapabilities, PostRefine, PostSetState, Reply, Goto
  <1>3. UNCHANGED <<dev, closed, closers>>
    BY DEF Reports, HandleOTA, OTACapabilities, PostRefine, PostSetState
  <1>4. \A u \in Session : /\ pc[u] \in Registered <=> pc'[u] \in Registered
                           /\ pc[u] = "setDriver" <=> pc'[u] = "setDriver"
    BY <1>2
  <1> QED BY <1>1, <1>3, <1>4, QuietKeepsSafe

(* Upsert enrols a session; it takes nobody's driver.                      *)
LEMMA UpsertKeepsSafe ==
  ASSUME TypeInv, TypeInv', Safe, NEW s \in Session, RegisterUpsert(s)
  PROVE  Safe'
  <1> USE Labels DEF TypeInv, TypeOK, Enrolled, Driver
  <1> DEFINE d == dev[s]
  <1>1. d \in DeviceId
    BY DEF Identified, RegisterUpsert
  <1>2. /\ OnlyEntry(d)
        /\ bulbs'[d].driver = IF Known(d) THEN bulbs[d].driver ELSE Nil
        /\ bulbs'[d].status = IF ~Known(d) \/ bulbs[d].status = "Discovered"
                              THEN "Discovered" ELSE "Connected"
    <2>1. {} \in Capabilities
      BY DEF Capabilities
    <2> QED BY <1>1, <2>1, UpsertEffect DEF RegisterUpsert, BulbsType
  <1>3. /\ pc[s] = "upsert" /\ pc' = [pc EXCEPT ![s] = "setDriver"]
        /\ UNCHANGED <<dev, closed, closers>>
    BY DEF RegisterUpsert, Goto
  <1> HIDE DEF d
  <1>4. \A e \in DeviceId : Known(e) => bulbs'[e].driver = bulbs[e].driver /\ Known(e)'
    BY <1>1, <1>2 DEF OnlyEntry, Known
  <1>5. \A e \in DeviceId : bulbs'[e].driver # Nil => bulbs'[e].driver = bulbs[e].driver
    BY <1>1, <1>2 DEF OnlyEntry
  <1>6. DriverIsLive'
    BY <1>3, <1>5 DEF Safe, DriverIsLive
  <1>7. EnrolledIsKnown'
    <2> SUFFICES ASSUME NEW u \in Session, pc'[u] \in Enrolled PROVE Known(dev[u])'
      BY DEF EnrolledIsKnown
    <2>1. CASE u = s
      BY <1>1, <1>2, <1>3, <2>1 DEF Known, d
    <2>2. CASE u # s
      BY <1>3, <1>4, <2>2 DEF Safe, EnrolledIsKnown, Identified
    <2> QED BY <2>1, <2>2
  <1>8. SupersededIsClosing'
    <2> SUFFICES ASSUME NEW u \in Session, pc'[u] \in Registered,
                        bulbs'[dev[u]].driver # u
                 PROVE  closed[u] \/ u \in closers
      BY <1>3 DEF SupersededIsClosing
    <2>1. pc[u] \in Registered /\ dev[u] \in DeviceId /\ Known(dev[u])
      BY <1>3 DEF Safe, EnrolledIsKnown, Identified
    <2> QED BY <1>4, <2>1 DEF Safe, SupersededIsClosing
  <1>9. DriverMeansOnline'
    BY <1>1, <1>2, <1>5 DEF Safe, DriverMeansOnline, OnlyEntry
  <1> QED BY <1>6, <1>7, <1>8, <1>9 DEF Safe

(* SetDriver displaces the previous driver and sees to it that it closes.  *)
LEMMA SetDriverKeepsSafe ==
  ASSUME TypeInv, TypeInv', Safe, NEW s \in Session, RegisterSetDriver(s)
  PROVE  Safe'
  <1> USE Labels DEF TypeInv, TypeOK, Enrolled, Driver
  <1> DEFINE d == dev[s]
  <1>1. d \in DeviceId /\ Known(d) /\ bulbs[d] \in Bulb
    BY DEF Identified, RegisterSetDriver, Safe, EnrolledIsKnown
  <1>2. /\ OnlyEntry(d)
        /\ bulbs'[d].driver = s
        /\ bulbs'[d].status = IF bulbs[d].status = "Disconnected" THEN "Connected"
                              ELSE bulbs[d].status
    BY <1>1, SetDriverEffect DEF RegisterSetDriver, BulbsType
  <1>3. /\ pc[s] = "setDriver" /\ pc' = [pc EXCEPT ![s] = "announce"]
        /\ UNCHANGED <<dev, closed>>
        /\ closers' = closers \cup ({bulbs[d].driver} \ {Nil, s})
    BY DEF RegisterSetDriver, Goto, Displaced
  <1>4. dev[s] = d
    OBVIOUS
  <1> HIDE DEF d
  <1>5. DriverIsLive'
    BY <1>1, <1>2, <1>3, <1>4 DEF Safe, DriverIsLive, OnlyEntry, Bulb
  <1>6. EnrolledIsKnown'
    <2>1. \A e \in DeviceId : Known(e) => Known(e)'
      BY <1>1, <1>2 DEF OnlyEntry, Known
    <2> QED BY <1>3, <2>1 DEF Safe, EnrolledIsKnown, Identified
  <1>7. SupersededIsClosing'
    <2> SUFFICES ASSUME NEW u \in Session, pc'[u] \in Registered,
                        bulbs'[dev[u]].driver # u
                 PROVE  closed[u] \/ u \in closers'
      BY <1>3 DEF SupersededIsClosing
    <2>1. u # s
      BY <1>2, <1>4
    <2>2. pc[u] \in Registered /\ dev[u] \in DeviceId
      BY <1>3, <2>1 DEF Identified
    <2>3. CASE bulbs[dev[u]].driver # u
      BY <1>3, <2>2, <2>3 DEF Safe, SupersededIsClosing
    <2>4. CASE bulbs[dev[u]].driver = u
      <3>1. dev[u] = d
        BY <1>2, <2>2, <2>4 DEF OnlyEntry
      <3> QED BY <1>3, <2>1, <2>4, <3>1, RegistryAssumption
    <2> QED BY <2>3, <2>4
  <1>8. DriverMeansOnline'
    BY <1>1, <1>2 DEF Safe, DriverMeansOnline, OnlyEntry, Known, Bulb, Status
  <1> QED BY <1>5, <1>6, <1>7, <1>8 DEF Safe

(* A teardown drops its own driver and no other.                           *)
LEMMA UnregisterKeepsSafe ==
  ASSUME TypeInv, TypeInv', Safe, NEW s \in Session, Unregister(s)
  PROVE  Safe'
  <1> USE Labels DEF TypeInv, TypeOK, Enrolled, Driver
  <1> DEFINE d == dev[s]
  <1>1. d \in DeviceId
    BY DEF Identified, Unregister
  <1>2. /\ OnlyEntry(d)
        /\ IF bulbs[d].driver = s
           THEN /\ bulbs'[d].driver = Nil
                /\ bulbs'[d].status = IF bulbs[d].status = "Connected"
                                      THEN "Disconnected" ELSE bulbs[d].status
           ELSE bulbs'[d] = bulbs[d]
    BY <1>1, DisconnectEffect DEF Unregister, BulbsType
  <1>3. /\ pc[s] = "unregister" /\ pc' = [pc EXCEPT ![s] = "ended"]
        /\ UNCHANGED <<dev, closed, closers>>
    BY DEF Unregister, Goto
  <1>4. dev[s] = d
    OBVIOUS
  <1> HIDE DEF d
  <1>5. \A e \in DeviceId : bulbs'[e].driver # Nil =>
          bulbs'[e] = bulbs[e] /\ bulbs[e].driver # s
    BY <1>1, <1>2, <1>4 DEF OnlyEntry, Safe, DriverIsLive
  <1>6. DriverIsLive'
    BY <1>3, <1>5 DEF Safe, DriverIsLive, Bulb
  <1>7. EnrolledIsKnown'
    <2>1. \A e \in DeviceId : Known(e) => Known(e)'
      BY <1>1, <1>2 DEF OnlyEntry, Known
    <2> QED BY <1>3, <2>1 DEF Safe, EnrolledIsKnown, Identified
  <1>8. SupersededIsClosing'
    <2> SUFFICES ASSUME NEW u \in Session, pc'[u] \in Registered,
                        bulbs'[dev[u]].driver # u
                 PROVE  closed[u] \/ u \in closers
      BY <1>3 DEF SupersededIsClosing
    <2>1. u # s /\ pc[u] \in Registered /\ dev[u] \in DeviceId
      BY <1>3 DEF Identified
    <2>2. bulbs[dev[u]].driver # u
      BY <1>1, <1>2, <2>1 DEF OnlyEntry
    <2> QED BY <2>1, <2>2 DEF Safe, SupersededIsClosing
  <1>9. DriverMeansOnline'
    BY <1>5 DEF Safe, DriverMeansOnline
  <1> QED BY <1>6, <1>7, <1>8, <1>9 DEF Safe

(* Every step keeps Safe.                                                  *)
LEMMA StepSafe == TypeInv /\ Safe /\ [Next]_vars => Safe'
  <1> SUFFICES ASSUME TypeInv, Safe, [Next]_vars PROVE Safe'
    OBVIOUS
  <1>0. TypeInv'
    BY StepTyped
  <1>1. ASSUME UNCHANGED <<bulbs, pc, dev, closed, closers>> PROVE Safe'
    BY <1>1 DEF Safe, DriverIsLive, SupersededIsClosing, DriverMeansOnline,
                EnrolledIsKnown, Driver, Known
  <1>2. CASE \/ UNCHANGED vars \/ Terminated
             \/ Listen \/ ListenFails \/ Cancel \/ CloseListener \/ AcceptFails
    BY <1>1, <1>2 DEF vars, sessionVars, Listen, ListenFails, Cancel, CloseListener,
                AcceptFails, Terminated
  <1>3. ASSUME NEW d \in DeviceId, DeclareLamp(d) PROVE Safe'
    <2>1. d \in DOMAIN Configured /\ Configured[d] \in Name
      BY <1>3, BulbServerAssumption DEF DeclareLamp, TypeInv, TypeOK
    <2>2. Declare(d, Configured[d]) /\ UNCHANGED <<pc, dev, closed, closers>>
      BY <1>3 DEF DeclareLamp, sessionVars
    <2> QED BY <1>0, <2>1, <2>2, DeclareEffect, NamingKeepsSafe
            DEF TypeInv, TypeOK, BulbsType
  <1>4. ASSUME NEW d \in DeviceId, DeclareFails(d) PROVE Safe'
    BY <1>1, <1>4 DEF DeclareFails, sessionVars
  <1>5. ASSUME NEW d \in DeviceId, NEW n \in OperatorName, OperatorRenames(d, n)
        PROVE  Safe'
    <2>1. n \in Name
      BY BulbServerAssumption
    <2>2. Rename(d, n) /\ UNCHANGED <<pc, dev, closed, closers>>
      BY <1>5 DEF OperatorRenames, sessionVars
    <2> QED BY <1>0, <2>1, <2>2, RenameEffect, NamingKeepsSafe
            DEF TypeInv, TypeOK, BulbsType
  <1>6. ASSUME NEW s \in Session, Accept(s) \/ Sniff(s) \/ Handshake(s) PROVE Safe'
    BY <1>0, <1>6, HandshakeKeepsSafe
  <1>7. ASSUME NEW s \in Session, Work(s) PROVE Safe'
    BY <1>0, <1>7, UpsertKeepsSafe, SetDriverKeepsSafe, UnregisterKeepsSafe,
       LoopKeepsSafe, ReportKeepsSafe DEF Work, Reports
  <1>8. ASSUME NEW s \in Session, Hear(s) PROVE Safe'
    BY <1>0, <1>8, LoopKeepsSafe, ReportKeepsSafe DEF Hear, Reports
  <1>9. ASSUME NEW s \in Session, CloseDisplaced(s) \/ CloseAtShutdown(s) PROVE Safe'
    BY <1>0, <1>9, CloseKeepsSafe
  <1> QED BY <1>2, <1>3, <1>4, <1>5, <1>6, <1>7, <1>8, <1>9 DEF Next

LEMMA AlwaysSafe == Spec => [](TypeInv /\ Safe)
  BY InitTyped, InitSafe, StepTyped, StepSafe, PTL DEF Spec

(* The driver of a bulb is a registered connection of that bulb, in every  *)
(* interleaving of any number of its sessions (SetDriver, Disconnect).     *)
THEOREM DriverAlwaysLive == Spec => []DriverIsLive
  <1>1. Safe => DriverIsLive
    BY DEF Safe
  <1> QED BY AlwaysSafe, <1>1, PTL

(* A takeover leaves no connection open that nothing will close.           *)
THEOREM SupersededAlwaysClosing == Spec => []SupersededIsClosing
  <1>1. Safe => SupersededIsClosing
    BY DEF Safe
  <1> QED BY AlwaysSafe, <1>1, PTL

(* A bulb with a live connection is never listed as disconnected.          *)
THEOREM DriverAlwaysOnline == Spec => []DriverMeansOnline
  <1>1. Safe => DriverMeansOnline
    BY DEF Safe
  <1> QED BY AlwaysSafe, <1>1, PTL

-----------------------------------------------------------------------------
(* The steps that change an entry at all.                                  *)
LEMMA FewStepsMoveBulbs ==
  ASSUME [Next]_vars
  PROVE  \/ bulbs' = bulbs
         \/ \E d \in DeviceId : DeclareLamp(d)
         \/ \E d \in DeviceId, n \in OperatorName : OperatorRenames(d, n)
         \/ \E s \in Session : \/ RegisterUpsert(s) \/ RegisterSetDriver(s)
                               \/ Unregister(s) \/ Reports(s)
  <1>2. CASE \/ UNCHANGED vars \/ Terminated
             \/ Listen \/ ListenFails \/ Cancel \/ CloseListener \/ AcceptFails
    BY <1>2 DEF vars, Listen, ListenFails, Cancel, CloseListener, AcceptFails,
                Terminated
  <1>3. ASSUME NEW d \in DeviceId, DeclareFails(d) PROVE bulbs' = bulbs
    BY <1>3 DEF DeclareFails
  <1>4. ASSUME NEW s \in Session,
               \/ Accept(s) \/ Sniff(s) \/ Handshake(s)
               \/ CloseDisplaced(s) \/ CloseAtShutdown(s)
        PROVE  bulbs' = bulbs
    BY <1>4 DEF Accept, Sniff, Handshake, HandshakeFails, Connect, Refuse,
                CloseDisplaced, CloseAtShutdown
  <1>5. ASSUME NEW s \in Session,
               \/ RegisterAnnounce(s) \/ Arm(s) \/ PostPublish(s)
               \/ ReportDisconnect(s) \/ PublishDisconnected(s)
               \/ ReadFails(s) \/ HandleOther(s) \/ HandleFails(s)
               \/ \E p \in Post : HandlePost(s, p)
        PROVE  bulbs' = bulbs
    BY <1>5 DEF RegisterAnnounce, Arm, PostPublish, ReportDisconnect,
                PublishDisconnected, ReadFails, HandleOther, HandleFails, HandlePost
  <1> QED BY <1>2, <1>3, <1>4, <1>5 DEF Next, Work, Hear, Reports

(* What no step but a naming, a registration or a teardown changes.        *)
AllPresenceKept ==
  \A e \in DeviceId : /\ bulbs'[e].driver = bulbs[e].driver
                      /\ bulbs'[e].name = bulbs[e].name
                      /\ bulbs'[e].status = bulbs[e].status

LEMMA FewStepsMovePresence ==
  ASSUME TypeInv, [Next]_vars
  PROVE  \/ AllPresenceKept
         \/ \E d \in DeviceId : DeclareLamp(d)
         \/ \E d \in DeviceId, n \in OperatorName : OperatorRenames(d, n)
         \/ \E s \in Session : RegisterUpsert(s) \/ RegisterSetDriver(s) \/ Unregister(s)
  <1>1. CASE bulbs' = bulbs
    BY <1>1 DEF AllPresenceKept
  <1>2. ASSUME NEW s \in Session, Reports(s) PROVE AllPresenceKept
    BY <1>2, ReportKeepsPresence DEF PresenceKept, OnlyEntry, AllPresenceKept
  <1> QED BY <1>1, <1>2, FewStepsMoveBulbs

(* A live driver is dropped by its own teardown and by nothing else: the   *)
(* late teardown of a replaced connection (Disconnect) leaves it alone.    *)
THEOREM OnlyOwnTeardown == Spec => OnlyOwnTeardownDrops
  <1> DEFINE Drop == \A d \in DeviceId :
        LET s == Driver(d)
        IN  s # Nil /\ Driver(d)' = Nil => pc[s] = "unregister" /\ pc'[s] = "ended"
  <1>1. TypeInv /\ Safe /\ [Next]_vars => [Drop]_vars
    <2> SUFFICES ASSUME TypeInv, Safe, [Next]_vars, NEW d \in DeviceId,
                        bulbs[d].driver # Nil, bulbs'[d].driver = Nil
                 PROVE  /\ pc[bulbs[d].driver] = "unregister"
                        /\ pc'[bulbs[d].driver] = "ended"
      BY DEF Driver
    <2> USE DEF TypeInv, TypeOK
    <2>1. Known(d)
      BY DEF Safe, DriverMeansOnline, Driver, Known
    <2>2. ~AllPresenceKept
      BY DEF AllPresenceKept
    <2>3. ASSUME NEW e \in DeviceId, DeclareLamp(e) PROVE FALSE
      <3>1. Configured[e] \in Name /\ Declare(e, Configured[e])
        BY <2>3, BulbServerAssumption DEF DeclareLamp
      <3> QED BY <2>1, <3>1, DeclareEffect DEF OnlyEntry, BulbsType
    <2>4. ASSUME NEW e \in DeviceId, NEW n \in OperatorName, OperatorRenames(e, n)
          PROVE  FALSE
      <3>1. n \in Name /\ Rename(e, n)
        BY <2>4, BulbServerAssumption DEF OperatorRenames
      <3> QED BY <2>1, <3>1, RenameEffect DEF OnlyEntry, BulbsType
    <2>5. ASSUME NEW s \in Session, RegisterUpsert(s) PROVE FALSE
      <3>1. dev[s] \in DeviceId /\ {} \in Capabilities /\ Upsert(dev[s], {})
        BY <2>5, Labels DEF RegisterUpsert, Identified, Capabilities
      <3> QED BY <2>1, <3>1, UpsertEffect DEF OnlyEntry, BulbsType
    <2>6. ASSUME NEW s \in Session, RegisterSetDriver(s) PROVE FALSE
      <3>1. dev[s] \in DeviceId /\ SetDriver(dev[s], s)
        BY <2>6, Labels DEF RegisterSetDriver, Identified
      <3> QED BY <3>1, SetDriverEffect, RegistryAssumption DEF OnlyEntry, BulbsType
    <2>7. PICK s \in Session : Unregister(s)
      BY <2>2, <2>3, <2>4, <2>5, <2>6, FewStepsMovePresence
    <2>8. dev[s] \in DeviceId /\ Disconnect(dev[s], s)
      BY <2>7, Labels DEF Unregister, Identified
    <2>9. bulbs[d].driver = s
      BY <2>8, DisconnectEffect DEF OnlyEntry, BulbsType
    <2> QED BY <2>7, <2>9 DEF Unregister, Goto
  <1> QED BY AlwaysSafe, <1>1, PTL DEF Spec, OnlyOwnTeardownDrops

-----------------------------------------------------------------------------
(* Nothing is known of a bulb that has no entry.                           *)
UnknownIsBlank == \A d \in DeviceId : ~Known(d) => bulbs[d].caps = {}

ConfiguredNames == {Configured[e] : e \in DOMAIN Configured}

(* What a step leaves of the entries there are.                            *)
EntriesKept ==
  \A d \in DeviceId :
    /\ Known(d) => Known(d)'
    /\ bulbs'[d] = bulbs[d] \/ Known(d)'
    /\ Known(d) /\ bulbs'[d].name # bulbs[d].name =>
         bulbs'[d].name \in OperatorName \cup ConfiguredNames
    /\ Known(d) /\ bulbs[d].caps # {} => bulbs'[d].caps # {}

LEMMA InitBlank == Init => UnknownIsBlank
  BY DEF Init, UnknownIsBlank, NoBulb

(* A report touches state, firmware and capabilities, which it may improve *)
(* but not forget.                                                         *)
LEMMA ReportKeepsEntries ==
  ASSUME TypeInv, Safe, NEW s \in Session, Reports(s)
  PROVE  EntriesKept
  <1> USE Labels DEF TypeInv, TypeOK
  <1>1. dev[s] \in DeviceId /\ Known(dev[s]) /\ BulbsType
    BY DEF Safe, EnrolledIsKnown, Enrolled, Identified, BulbsType, Reports,
           HandleOTA, OTACapabilities, PostRefine, PostSetState
  <1>2. PresenceKept(dev[s])
    BY ReportKeepsPresence
  <1>3. bulbs[dev[s]].caps # {} => bulbs'[dev[s]].caps # {}
    <2>1. ASSUME NEW v \in Firmware, HandleOTA(s, v) PROVE KnowledgeKept(dev[s])
      BY <1>1, <2>1, MethodsKeepKnowledge DEF HandleOTA
    <2>2. CASE OTACapabilities(s)
      <3>1. CapsOf[version[s]] \in Capabilities
        BY <2>2, RegistryAssumption DEF OTACapabilities, Identified, Capabilities
      <3> QED BY <1>1, <2>2, <3>1, SetCapabilitiesKeepsState DEF OTACapabilities
    <2>3. CASE PostRefine(s)
      <3>1. RefineFromReport(view[s].caps, post[s]) \in Capabilities
        BY RefineType DEF View
      <3> QED BY <1>1, <2>3, <3>1, SetCapabilitiesKeepsState DEF PostRefine
    <2>4. CASE PostSetState(s)
      <3>1. PostApply(post[s], view[s].state) \in LightState
        BY PostApplyType DEF View
      <3> QED BY <1>1, <2>4, <3>1, SetStateKeepsCapabilities DEF PostSetState
    <2> QED BY <2>1, <2>2, <2>3, <2>4 DEF Reports, KnowledgeKept
  <1> QED BY <1>1, <1>2, <1>3 DEF EntriesKept, PresenceKept, OnlyEntry, Known

LEMMA StepKeepsEntries ==
  ASSUME TypeInv, Safe, [Next]_vars
  PROVE  EntriesKept
  <1> USE DEF TypeInv, TypeOK
  <1>1. CASE bulbs' = bulbs
    BY <1>1 DEF EntriesKept, Known
  <1>2. ASSUME NEW d \in DeviceId, DeclareLamp(d) PROVE EntriesKept
    <2>1. d \in DOMAIN Configured /\ Configured[d] \in Name /\ Declare(d, Configured[d])
      BY <1>2, BulbServerAssumption DEF DeclareLamp
    <2>2. OnlyEntry(d) /\ Known(d)' /\ bulbs'[d].name \in ConfiguredNames
      BY <2>1, DeclareEffect DEF BulbsType, Known, ConfiguredNames
    <2>3. Known(d) => KnowledgeKept(d)
      BY <2>1, MethodsKeepKnowledge DEF BulbsType
    <2> QED BY <2>2, <2>3 DEF EntriesKept, OnlyEntry, Known, KnowledgeKept
  <1>3. ASSUME NEW d \in DeviceId, NEW n \in OperatorName, OperatorRenames(d, n)
        PROVE  EntriesKept
    <2>1. n \in Name /\ Rename(d, n)
      BY <1>3, BulbServerAssumption DEF OperatorRenames
    <2>2. OnlyEntry(d) /\ Known(d) /\ Known(d)' /\ bulbs'[d].name \in OperatorName
      BY <2>1, RenameEffect DEF BulbsType, Known
    <2>3. KnowledgeKept(d)
      BY <2>1, <2>2, MethodsKeepKnowledge DEF BulbsType
    <2> QED BY <2>2, <2>3 DEF EntriesKept, OnlyEntry, Known, KnowledgeKept
  <1>4. ASSUME NEW s \in Session, RegisterUpsert(s) PROVE EntriesKept
    <2>1. PICK d \in DeviceId : {} \in Capabilities /\ Upsert(d, {})
      BY <1>4, Labels DEF RegisterUpsert, Identified, Capabilities
    <2>2. /\ OnlyEntry(d) /\ Known(d)'
          /\ Known(d) => bulbs'[d].name = bulbs[d].name
      BY <2>1, UpsertEffect DEF BulbsType, Known
    <2>3. Known(d) => KnowledgeKept(d)
      BY <2>1, MethodsKeepKnowledge DEF BulbsType
    <2> QED BY <2>2, <2>3 DEF EntriesKept, OnlyEntry, Known, KnowledgeKept
  <1>5. ASSUME NEW s \in Session, RegisterSetDriver(s) \/ Unregister(s) PROVE EntriesKept
    <2>1. PICK d \in DeviceId : Known(d) /\ (SetDriver(d, s) \/ Disconnect(d, s))
      BY <1>5, Labels DEF RegisterSetDriver, Unregister, Identified, Safe,
                          EnrolledIsKnown, Enrolled
    <2>2. OnlyEntry(d) /\ Known(d)' /\ bulbs'[d].name = bulbs[d].name
      BY <2>1, SetDriverEffect, DisconnectEffect DEF BulbsType, Known
    <2>3. KnowledgeKept(d)
      BY <2>1, MethodsKeepKnowledge DEF BulbsType
    <2> QED BY <2>1, <2>2, <2>3 DEF EntriesKept, OnlyEntry, Known, KnowledgeKept
  <1>6. ASSUME NEW s \in Session, Reports(s) PROVE EntriesKept
    BY <1>6, ReportKeepsEntries
  <1> QED BY <1>1, <1>2, <1>3, <1>4, <1>5, <1>6, FewStepsMoveBulbs

LEMMA KeptStaysBlank ==
  UnknownIsBlank /\ EntriesKept => UnknownIsBlank'
  BY DEF UnknownIsBlank, EntriesKept, Known

=============================================================================
