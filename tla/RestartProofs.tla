---------------------------- MODULE RestartProofs ----------------------------
(***************************************************************************)
(* Proofs about the server over any number of lives of the process, for    *)
(* any set of devices, names and connections.  A restart is one more step  *)
(* of the specification, so each invariant of BulbServerProofs is carried  *)
(* over it, and what needs several lives to go wrong is proved here: that  *)
(* what is known of a bulb survives, that a report leaves alone what it    *)
(* does not mention, that ownership is implemented, and what the headless  *)
(* mode promises beyond the interactive one.                               *)
(***************************************************************************)
EXTENDS Restart, OwnershipMap, BulbServerProofs

-----------------------------------------------------------------------------
(* A process that ends has no registered connection, and so no driver.     *)
LEMMA NobodyAtRestart ==
  ASSUME TypeInv, Safe, Restart
  PROVE  /\ \A s \in Session : pc[s] \in {"free", "ended"}
         /\ \A d \in DeviceId : bulbs[d].driver = Nil
  <1>1. \A s \in Session : pc[s] \in {"free", "ended"}
    BY DEF Restart, RunReturned, ServeReturned
  <1>2. ASSUME NEW d \in DeviceId PROVE bulbs[d].driver = Nil
    <2>1. bulbs[d].driver \in Session \cup {Nil}
      BY DEF TypeInv, TypeOK, Bulb
    <2> QED BY <1>1, <2>1, Labels DEF Safe, DriverIsLive, Driver
  <1> QED BY <1>1, <1>2

(* The file keeps every entry, and of each of them all but status, driver  *)
(* and desired state.                                                      *)
LEMMA RestartEffect ==
  ASSUME TypeInv, Safe, Restart, NEW d \in DeviceId
  PROVE  /\ bulbs'[d] \in Bulb
         /\ bulbs'[d].driver = Nil
         /\ bulbs'[d].name = bulbs[d].name
         /\ bulbs'[d].caps = bulbs[d].caps
         /\ bulbs'[d].status = IF Known(d) THEN "Disconnected" ELSE "Absent"
         /\ ~Known(d) => bulbs'[d] = bulbs[d]
         /\ Known(d) => bulbs'[d] = Reloaded(bulbs[d])
  <1>1. bulbs[d] \in Bulb /\ bulbs[d].driver = Nil
    BY NobodyAtRestart DEF TypeInv, TypeOK
  <1>2. bulbs'[d] = IF Known(d) THEN Reloaded(bulbs[d]) ELSE bulbs[d]
    BY DEF Restart
  <1> QED BY <1>1, <1>2 DEF Reloaded, Bulb, Status, Known

LEMMA RestartKeepsSafe ==
  ASSUME TypeInv, Safe, UnknownIsBlank, Restart
  PROVE  TypeInv' /\ Safe' /\ UnknownIsBlank'
  <1>1. TypeOK'
    <2>1. bulbs' \in [DeviceId -> Bulb]
      BY RestartEffect DEF Restart
    <2>2. presence' \in [DeviceId -> Presence]
      BY DEF Restart, Presence
    <2> QED BY <2>1, <2>2 DEF Restart, TypeInv, TypeOK
  <1>2. Identified'
    BY DEF Restart, TypeInv, Identified
  <1>3. \A s \in Session : pc'[s] \in {"free", "ended"}
    BY NobodyAtRestart DEF Restart
  <1>4. Safe'
    BY <1>3, RestartEffect, Labels
       DEF Safe, DriverIsLive, SupersededIsClosing, DriverMeansOnline, EnrolledIsKnown,
           Driver, Enrolled
  <1>5. UnknownIsBlank'
    BY RestartEffect DEF UnknownIsBlank, Known
  <1> QED BY <1>1, <1>2, <1>4, <1>5 DEF TypeInv

(* What holds in every state of every life.                                *)
LivesInv == TypeInv /\ Safe /\ UnknownIsBlank

LEMMA StepLives == LivesInv /\ [RestartNext]_vars => LivesInv'
  <1> SUFFICES ASSUME LivesInv, [RestartNext]_vars PROVE LivesInv'
    OBVIOUS
  <1>1. CASE [Next]_vars
    BY <1>1, StepTyped, StepSafe, StepKeepsEntries, KeptStaysBlank DEF LivesInv
  <1>2. CASE Restart
    BY <1>2, RestartKeepsSafe DEF LivesInv
  <1> QED BY <1>1, <1>2 DEF RestartNext

LEMMA AlwaysLives == RestartSpec => []LivesInv
  <1>1. Init => LivesInv
    BY InitTyped, InitSafe, InitBlank DEF LivesInv
  <1> QED BY <1>1, StepLives, PTL DEF RestartSpec

(* The first life alone is one of the behaviours.                          *)
LEMMA OneLife == Spec => RestartSpec
  <1>1. [Next]_vars => [RestartNext]_vars
    BY DEF RestartNext
  <1> QED BY <1>1, PTL DEF Spec, RestartSpec

(* The server is well typed, every driver is a live connection of its      *)
(* bulb, displaced connections get closed and a bulb with a driver is      *)
(* online, in every life of the process (SetDriver, Disconnect, Load).     *)
THEOREM SafeOverRestarts ==
  RestartSpec => [](TypeOK /\ DriverIsLive /\ SupersededIsClosing /\ DriverMeansOnline)
  <1>1. LivesInv => TypeOK /\ DriverIsLive /\ SupersededIsClosing /\ DriverMeansOnline
    BY DEF LivesInv, TypeInv, Safe
  <1> QED BY AlwaysLives, <1>1, PTL

-----------------------------------------------------------------------------
(* The View a report works on is the state, and until it has refined them  *)
(* the channels, of its bulb, as long as no other connection of the bulb   *)
(* writes them: no other method does.                                      *)
Reporting(s) == pc[s] \in {"refine", "setState"}

ViewIsCurrent ==
  \A s \in Session :
    /\ Reporting(s) /\ <<s, "state">> \notin overtaken =>
         view[s].state = bulbs[dev[s]].state
    /\ pc[s] = "refine" /\ <<s, "caps">> \notin overtaken =>
         view[s].caps = bulbs[dev[s]].caps

(* A step of another session, or of none, leaves the report of u alone.    *)
ReportUndisturbed(u) ==
  /\ Reporting(u)
  /\ UNCHANGED <<view[u], dev[u]>>
  /\ <<u, "state">> \in overtaken => <<u, "state">> \in overtaken'
  /\ pc'[u] = "refine" =>
       /\ pc[u] = "refine"
       /\ <<u, "caps">> \in overtaken => <<u, "caps">> \in overtaken'

(* A report is begun with a fresh View, refined, and finished by its own   *)
(* goroutine.                                                              *)
LEMMA ReportsStayTheirOwn ==
  ASSUME TypeInv, [Next]_vars, NEW u \in Session, Reporting(u)'
  PROVE  ReportUndisturbed(u) \/ \E p \in Post : HandlePost(u, p)
  <1> USE DEF TypeInv, TypeOK, Reporting, ReportUndisturbed, Goto
  <1>1. CASE \/ UNCHANGED vars \/ Terminated
             \/ Listen \/ ListenFails \/ Cancel \/ CloseListener \/ AcceptFails
    BY <1>1 DEF vars, sessionVars, Listen, ListenFails, Cancel, CloseListener,
                AcceptFails, Terminated
  <1>2. ASSUME NEW d \in DeviceId, DeclareLamp(d) \/ DeclareFails(d)
        PROVE  ReportUndisturbed(u)
    BY <1>2 DEF DeclareLamp, DeclareFails, sessionVars
  <1>3. ASSUME NEW d \in DeviceId, NEW n \in OperatorName, OperatorRenames(d, n)
        PROVE  ReportUndisturbed(u)
    BY <1>3 DEF OperatorRenames, sessionVars
  <1>4. ASSUME NEW s \in Session, Accept(s) \/ Sniff(s) \/ HandshakeFails(s)
        PROVE  ReportUndisturbed(u)
    BY <1>4 DEF Accept, Sniff, HandshakeFails
  <1>5. ASSUME NEW s \in Session, NEW d \in DeviceId, Connect(s, d) \/ Refuse(s, d)
        PROVE  ReportUndisturbed(u)
    BY <1>5 DEF Connect, Refuse
  <1>6. ASSUME NEW s \in Session, CloseDisplaced(s) \/ CloseAtShutdown(s)
        PROVE  ReportUndisturbed(u)
    BY <1>6 DEF CloseDisplaced, CloseAtShutdown
  <1>7. ASSUME NEW s \in Session,
               \/ RegisterUpsert(s) \/ RegisterSetDriver(s) \/ RegisterAnnounce(s)
               \/ Arm(s)
        PROVE  ReportUndisturbed(u)
    BY <1>7 DEF RegisterUpsert, RegisterSetDriver, RegisterAnnounce, Arm
  <1>8. ASSUME NEW s \in Session,
               OTACapabilities(s) \/ PostRefine(s) \/ PostSetState(s) \/ PostPublish(s)
        PROVE  ReportUndisturbed(u)
    <2>1. CASE OTACapabilities(s) \/ PostRefine(s)
      BY <2>1 DEF OTACapabilities, PostRefine, Overtakes
    <2>2. CASE PostSetState(s) \/ PostPublish(s)
      <3>1. \E l \in {"publish", "arm", "unregister"} : pc' = [pc EXCEPT ![s] = l]
        BY <2>2 DEF PostSetState, PostPublish, Reply
      <3>2. u # s
        BY <3>1
      <3>3. pc'[u] = pc[u] /\ dev' = dev /\ view'[u] = view[u]
        BY <2>2, <3>1, <3>2 DEF PostSetState, PostPublish, Reply
      <3>4. \A part : <<u, part>> \in overtaken => <<u, part>> \in overtaken'
        BY <2>2, <3>2 DEF PostSetState, PostPublish, Overtakes
      <3> QED BY <3>3, <3>4
    <2> QED BY <1>8, <2>1, <2>2
  <1>9. ASSUME NEW s \in Session,
               ReportDisconnect(s) \/ PublishDisconnected(s) \/ Unregister(s)
        PROVE  ReportUndisturbed(u)
    BY <1>9 DEF ReportDisconnect, PublishDisconnected, Unregister
  <1>10. ASSUME NEW s \in Session,
                \/ ReadFails(s) \/ HandleOther(s) \/ HandleFails(s)
                \/ \E v \in Firmware : HandleOTA(s, v)
         PROVE  ReportUndisturbed(u)
    BY <1>10 DEF ReadFails, HandleOther, HandleFails, HandleOTA
  <1>11. ASSUME NEW s \in Session, NEW p \in Post, HandlePost(s, p), s # u
         PROVE  ReportUndisturbed(u)
    BY <1>11 DEF HandlePost
  <1> QED BY <1>1, <1>2, <1>3, <1>4, <1>5, <1>6, <1>7, <1>8, <1>9, <1>10, <1>11
          DEF Next, Handshake, Work, Hear

(* A session writes the state of its bulb, or its channels.                *)
Writes(s, part) ==
  \/ part = "state" /\ PostSetState(s)
  \/ part = "caps" /\ (OTACapabilities(s) \/ PostRefine(s))

(* The two are written by SetState and SetCapabilities only.               *)
LEMMA KnowledgeStays ==
  ASSUME TypeInv, Safe, [Next]_vars, NEW d \in DeviceId, Known(d)
  PROVE  /\ \/ bulbs'[d].state = bulbs[d].state
            \/ \E s \in Session : Writes(s, "state") /\ dev[s] = d
         /\ \/ bulbs'[d].caps = bulbs[d].caps
            \/ \E s \in Session : Writes(s, "caps") /\ dev[s] = d
  <1> USE Labels DEF TypeInv, TypeOK, KnowledgeKept
  <1>1. ASSUME NEW e \in DeviceId, DeclareLamp(e) PROVE KnowledgeKept(d)
    <2>1. Configured[e] \in Name /\ Declare(e, Configured[e])
      BY <1>1, BulbServerAssumption DEF DeclareLamp
    <2> QED BY <2>1, DeclareEffect, MethodsKeepKnowledge DEF BulbsType, OnlyEntry
  <1>2. ASSUME NEW e \in DeviceId, NEW n \in OperatorName, OperatorRenames(e, n)
        PROVE  KnowledgeKept(d)
    <2>1. n \in Name /\ Rename(e, n)
      BY <1>2, BulbServerAssumption DEF OperatorRenames
    <2> QED BY <2>1, RenameEffect, MethodsKeepKnowledge DEF BulbsType, OnlyEntry
  <1>3. ASSUME NEW s \in Session,
               \/ RegisterUpsert(s) \/ RegisterSetDriver(s) \/ Unregister(s)
        PROVE  KnowledgeKept(d)
    <2>1. /\ dev[s] \in DeviceId /\ {} \in Capabilities
          /\ \/ Upsert(dev[s], {}) \/ SetDriver(dev[s], s) \/ Disconnect(dev[s], s)
      BY <1>3 DEF RegisterUpsert, RegisterSetDriver, Unregister, Identified, Capabilities
    <2>2. OnlyEntry(dev[s])
      BY <2>1, UpsertEffect, SetDriverEffect, DisconnectEffect DEF BulbsType
    <2> QED BY <2>1, <2>2, MethodsKeepKnowledge DEF BulbsType, OnlyEntry
  <1>4. ASSUME NEW s \in Session, Reports(s)
        PROVE  /\ bulbs'[d].state = bulbs[d].state \/ (Writes(s, "state") /\ dev[s] = d)
               /\ bulbs'[d].caps = bulbs[d].caps \/ (Writes(s, "caps") /\ dev[s] = d)
    <2>1. dev[s] \in DeviceId /\ OnlyEntry(dev[s])
      BY <1>4, ReportKeepsPresence DEF PresenceKept
    <2>2. CASE dev[s] = d
      <3>1. ASSUME NEW v \in Firmware, HandleOTA(s, v) PROVE KnowledgeKept(d)
        BY <2>2, <3>1, MethodsKeepKnowledge DEF HandleOTA, BulbsType
      <3>2. CASE OTACapabilities(s)
        <4>1. CapsOf[version[s]] \in Capabilities
          BY <3>2, RegistryAssumption DEF OTACapabilities, Identified, Capabilities
        <4> QED BY <2>2, <3>2, <4>1, SetCapabilitiesKeepsState
                DEF OTACapabilities, BulbsType, Writes
      <3>3. CASE PostRefine(s)
        <4>1. RefineFromReport(view[s].caps, post[s]) \in Capabilities
          BY RefineType DEF View
        <4> QED BY <2>2, <3>3, <4>1, SetCapabilitiesKeepsState
                DEF PostRefine, BulbsType, Writes
      <3>4. CASE PostSetState(s)
        <4>1. PostApply(post[s], view[s].state) \in LightState
          BY PostApplyType DEF View
        <4> QED BY <2>2, <3>4, <4>1, SetStateKeepsCapabilities
                DEF PostSetState, BulbsType, Writes
      <3> QED BY <1>4, <2>2, <3>1, <3>2, <3>3, <3>4 DEF Reports
    <2>3. CASE dev[s] # d
      BY <2>1, <2>3 DEF OnlyEntry
    <2> QED BY <2>2, <2>3
  <1> QED BY <1>1, <1>2, <1>3, <1>4, FewStepsMoveBulbs

(* Writing a part makes the reports under way for the bulb out of date.    *)
LEMMA WritingOvertakes ==
  ASSUME TypeInv, NEW s \in Session, NEW u \in Session, ReportUndisturbed(u),
         Reporting(u)', dev[s] = dev[u]
  PROVE  /\ Writes(s, "state") => <<u, "state">> \in overtaken'
         /\ Writes(s, "caps") /\ pc'[u] = "refine" => <<u, "caps">> \in overtaken'
  <1> USE DEF TypeInv, TypeOK, Reporting, ReportUndisturbed, Goto
  <1>1. ASSUME PostSetState(s) PROVE <<u, "state">> \in overtaken'
    <2>1. \E l \in {"publish", "arm", "unregister"} : pc' = [pc EXCEPT ![s] = l]
      BY <1>1 DEF PostSetState, Reply
    <2>2. u # s
      BY <2>1
    <2> QED BY <1>1, <2>2 DEF PostSetState, Overtakes
  <1>2. ASSUME OTACapabilities(s) \/ PostRefine(s), pc'[u] = "refine"
        PROVE  <<u, "caps">> \in overtaken'
    <2>1. u # s
      BY <1>2 DEF OTACapabilities, PostRefine
    <2> QED BY <1>2, <2>1 DEF OTACapabilities, PostRefine, Overtakes
  <1> QED BY <1>1, <1>2 DEF Writes

LEMMA StepCurrent ==
  ASSUME LivesInv, ViewIsCurrent, [RestartNext]_vars
  PROVE  ViewIsCurrent'
  <1> DEFINE Current(u) == /\ <<u, "state">> \notin overtaken => view[u].state = bulbs[dev[u]].state
                           /\ pc[u] = "refine" /\ <<u, "caps">> \notin overtaken =>
                                view[u].caps = bulbs[dev[u]].caps
  <1> SUFFICES ASSUME NEW u \in Session, Reporting(u)'
               PROVE  Current(u)'
    BY DEF ViewIsCurrent, Reporting
  <1> USE DEF LivesInv, TypeInv, TypeOK
  <1>1. CASE Restart
    BY <1>1, NobodyAtRestart DEF Restart, Reporting
  <1>2. ASSUME [Next]_vars, ReportUndisturbed(u)
        PROVE  Current(u)'
    <2>1. PICK d \in DeviceId : d = dev[u] /\ Known(d)
      BY <1>2, Labels DEF ReportUndisturbed, Reporting, Identified, Safe,
                          EnrolledIsKnown, Enrolled
    <2>2. /\ <<u, "state">> \notin overtaken' => bulbs'[d].state = bulbs[d].state
          /\ pc'[u] = "refine" /\ <<u, "caps">> \notin overtaken' =>
               bulbs'[d].caps = bulbs[d].caps
      BY <1>2, <2>1, KnowledgeStays, WritingOvertakes
    <2> QED BY <1>2, <2>1, <2>2 DEF ReportUndisturbed, ViewIsCurrent
  <1>3. ASSUME NEW p \in Post, HandlePost(u, p)
        PROVE  Current(u)'
    BY <1>3 DEF HandlePost
  <1> QED BY <1>1, <1>2, <1>3, ReportsStayTheirOwn DEF RestartNext

LEMMA AlwaysCurrent == RestartSpec => []ViewIsCurrent
  <1>1. Init => ViewIsCurrent
    BY DEF Init, ViewIsCurrent, Reporting
  <1>2. LivesInv /\ ViewIsCurrent /\ [RestartNext]_vars => ViewIsCurrent'
    BY StepCurrent
  <1> QED BY AlwaysLives, <1>1, <1>2, PTL DEF RestartSpec

(* A channel is lost to an OTA version or to an overtaken refinement.      *)
ChannelsKept ==
  \A d \in DeviceId :
    bulbs[d].caps \subseteq bulbs'[d].caps \/
      \E s \in Session : /\ dev[s] = d
                         /\ \/ pc[s] = "otaCaps" /\ bulbs'[d].caps = CapsOf[version[s]]
                            \/ pc[s] = "refine" /\ <<s, "caps">> \in overtaken

LEMMA StepKeepsChannels ==
  ASSUME LivesInv, ViewIsCurrent, [Next]_vars
  PROVE  ChannelsKept
  <1> SUFFICES ASSUME NEW d \in DeviceId, bulbs'[d].caps # bulbs[d].caps
               PROVE  bulbs[d].caps \subseteq bulbs'[d].caps \/
                        \E s \in Session :
                          /\ dev[s] = d
                          /\ \/ pc[s] = "otaCaps" /\ bulbs'[d].caps = CapsOf[version[s]]
                             \/ pc[s] = "refine" /\ <<s, "caps">> \in overtaken
    BY DEF ChannelsKept
  <1> USE DEF LivesInv, TypeInv, TypeOK
  <1>1. CASE ~Known(d)
    BY <1>1 DEF UnknownIsBlank
  <1>2. CASE Known(d)
    <2>1. PICK s \in Session : Writes(s, "caps") /\ dev[s] = d
      BY <1>2, KnowledgeStays
    <2>2. CASE OTACapabilities(s)
      <3>1. CapsOf[version[s]] \in Capabilities
        BY <2>2, RegistryAssumption DEF OTACapabilities, Identified, Capabilities
      <3> QED BY <2>1, <2>2, <3>1, SetCapabilitiesKeepsState DEF OTACapabilities, BulbsType
    <2>3. CASE PostRefine(s) /\ <<s, "caps">> \notin overtaken
      <3>1. view[s].caps = bulbs[d].caps /\ SetCapabilities(d, RefineFromReport(view[s].caps, post[s]))
        BY <2>1, <2>3 DEF PostRefine, ViewIsCurrent
      <3>2. RefineFromReport(view[s].caps, post[s]) \in Capabilities
        BY RefineType DEF View
      <3>3. bulbs[d].caps \subseteq RefineFromReport(view[s].caps, post[s])
        BY <3>1 DEF RefineFromReport
      <3> QED BY <3>1, <3>2, <3>3, SetCapabilitiesKeepsState DEF BulbsType
    <2> QED BY <2>1, <2>2, <2>3 DEF Writes, PostRefine
  <1> QED BY <1>1, <1>2

(* What is known of a bulb is kept, by any interleaving of registrations,  *)
(* reports, namings and restarts (Upsert, SetCapabilities, Load): no entry *)
(* is lost, no step but a naming changes a name, a classified bulb stays   *)
(* classified, and it loses a channel only to an OTA version that says so  *)
(* or to a report whose View is older than what another connection of the  *)
(* bulb has learnt since.                                                  *)
THEOREM EntriesSurvive == RestartSpec => EntrySurvives
  <1> DEFINE Survives == \A d \in DeviceId :
        /\ Known(d) => Known(d)'
        /\ Known(d) /\ bulbs'[d].name # bulbs[d].name =>
             bulbs'[d].name \in OperatorName \cup {Configured[e] : e \in DOMAIN Configured}
        /\ bulbs[d].caps # {} => bulbs'[d].caps # {}
        /\ bulbs[d].caps \subseteq bulbs'[d].caps \/
             \E s \in Session : /\ dev[s] = d
                                /\ \/ pc[s] = "otaCaps" /\ bulbs'[d].caps = CapsOf[version[s]]
                                   \/ pc[s] = "refine" /\ <<s, "caps">> \in overtaken
  <1>1. LivesInv /\ ViewIsCurrent /\ [RestartNext]_vars => Survives
    <2> SUFFICES ASSUME LivesInv, ViewIsCurrent, [RestartNext]_vars PROVE Survives
      OBVIOUS
    <2>1. CASE [Next]_vars
      <3>1. EntriesKept
        BY <2>1, StepKeepsEntries DEF LivesInv
      <3>2. ChannelsKept
        BY <2>1, StepKeepsChannels
      <3> QED BY <3>1, <3>2 DEF LivesInv, EntriesKept, ChannelsKept, UnknownIsBlank,
                                ConfiguredNames
    <2>2. CASE Restart
      BY <2>2, RestartEffect DEF LivesInv, Known
    <2> QED BY <2>1, <2>2 DEF RestartNext
  <1> QED BY AlwaysLives, AlwaysCurrent, <1>1, PTL DEF RestartSpec, EntrySurvives

(* A report writes back what it does not mention as it finds it, unless a  *)
(* second connection of the bulb wrote in between (handlePropertyPost), in *)
(* every interleaving with namings, registrations and teardowns.           *)
THEOREM DeltaAlwaysLeavesTheRest == RestartSpec => []DeltaLeavesTheRest
  <1>1. ViewIsCurrent => DeltaLeavesTheRest
    BY DEF ViewIsCurrent, DeltaLeavesTheRest, Reporting
  <1> QED BY AlwaysCurrent, <1>1, PTL

-----------------------------------------------------------------------------
(* What Ownership sees of a step: the drivers, and the phase of every      *)
(* connection.                                                             *)
DriversKept == \A d \in DeviceId : bulbs'[d].driver = bulbs[d].driver
PhasesKept == \A s \in Session : Phase(s)' = Phase(s)

OwnerMap == [d \in DeviceId |-> Driver(d)]
PhaseMap == [s \in Session |-> Phase(s)]

LEMMA KeptIsStutter ==
  ASSUME DriversKept, PhasesKept
  PROVE  UNCHANGED O!ownershipVars
  <1>1. OwnerMap' = OwnerMap
    BY DEF OwnerMap, DriversKept, Driver
  <1>2. PhaseMap' = PhaseMap
    BY DEF PhaseMap, PhasesKept
  <1> QED BY <1>1, <1>2 DEF O!ownershipVars, OwnerMap, PhaseMap

(* A goroutine that goes to a label of the same phase.                     *)
LEMMA GotoKeepsPhases ==
  ASSUME TypeInv, NEW s \in Session, NEW l \in PC, Goto(s, l),
         pc[s] \in Registered <=> l \in Registered,
         pc[s] = "ended" <=> l = "ended"
  PROVE  PhasesKept
  <1>1. ASSUME NEW u \in Session PROVE Phase(u)' = Phase(u)
    <2>1. CASE u = s
      BY <2>1, Labels DEF Phase, Goto, TypeInv, TypeOK, Registered
    <2>2. CASE u # s
      BY <2>2 DEF Phase, Goto, TypeInv, TypeOK
    <2> QED BY <2>1, <2>2
  <1> QED BY <1>1 DEF PhasesKept

(* Declarations, the listener, the operator and closing leave every        *)
(* goroutine where it is.                                                  *)
LEMMA PlacesKept == UNCHANGED pc => PhasesKept
  BY DEF PhasesKept, Phase

(* The driver of an unknown bulb is Nil, so an entry that is made, or      *)
(* renamed, keeps the driver there was.                                    *)
LEMMA NamingKeepsDrivers ==
  ASSUME TypeInv, Safe, NEW d \in DeviceId, OnlyEntry(d),
         bulbs'[d].driver = IF Known(d) THEN bulbs[d].driver ELSE Nil
  PROVE  DriversKept
  <1>1. ~Known(d) => bulbs[d].driver = Nil
    BY DEF Safe, DriverMeansOnline, Driver, Known
  <1> QED BY <1>1 DEF DriversKept, OnlyEntry

(* A report writes state, firmware or capabilities.                        *)
LEMMA ReportIsStutter ==
  ASSUME TypeInv, NEW s \in Session, Reports(s)
  PROVE  DriversKept /\ PhasesKept
  <1>1. DriversKept
    BY ReportKeepsPresence DEF PresenceKept, OnlyEntry, DriversKept
  <1>2. PICK l \in Registered : pc[s] \in Registered /\ Goto(s, l)
    BY Labels DEF Reports, HandleOTA, OTACapabilities, PostRefine, PostSetState, Reply
  <1>3. pc[s] # "ended" /\ l # "ended" /\ l \in PC
    BY <1>2, Labels
  <1> QED BY <1>1, <1>2, <1>3, GotoKeepsPhases

(* The other steps of the loop of serve, and closing.                      *)
LEMMA LoopIsStutter ==
  ASSUME TypeInv, NEW s \in Session,
         \/ RegisterAnnounce(s) \/ Arm(s) \/ ReadFails(s) \/ HandleOther(s)
         \/ HandleFails(s) \/ (\E p \in Post : HandlePost(s, p)) \/ PostPublish(s)
         \/ ReportDisconnect(s) \/ PublishDisconnected(s)
         \/ CloseDisplaced(s) \/ CloseAtShutdown(s)
  PROVE  DriversKept /\ PhasesKept
  <1>1. CASE CloseDisplaced(s) \/ CloseAtShutdown(s)
    BY <1>1, PlacesKept DEF CloseDisplaced, CloseAtShutdown, DriversKept
  <1>2. CASE ~(CloseDisplaced(s) \/ CloseAtShutdown(s))
    <2>1. DriversKept
      BY <1>2 DEF RegisterAnnounce, Arm, ReadFails, HandleOther, HandleFails, HandlePost,
                  PostPublish, ReportDisconnect, PublishDisconnected, DriversKept
    <2>2. PICK l \in Registered : pc[s] \in Registered /\ Goto(s, l)
      BY <1>2, Labels DEF RegisterAnnounce, Arm, ReadFails, HandleOther, HandleFails,
                          HandlePost, PostPublish, Reply, ReportDisconnect,
                          PublishDisconnected
    <2>3. pc[s] # "ended" /\ l # "ended" /\ l \in PC
      BY <2>2, Labels
    <2> QED BY <2>1, <2>2, <2>3, GotoKeepsPhases
  <1> QED BY <1>1, <1>2

(* A connection that does not get past the handshake is turned away; until *)
(* then it is as far as it was.                                            *)
LEMMA HandshakeTurnsAway ==
  ASSUME TypeInv, NEW s \in Session, Accept(s) \/ Sniff(s) \/ Handshake(s)
  PROVE  O!TurnAway(s) \/ UNCHANGED O!ownershipVars
  <1>1. DriversKept
    BY DEF Accept, Sniff, Handshake, HandshakeFails, Connect, Refuse, DriversKept
  <1>2. PICK l \in {"sniff", "handshake", "upsert", "ended"} :
          pc[s] \in {"free", "sniff", "handshake"} /\ Goto(s, l)
    BY DEF Accept, Sniff, Handshake, HandshakeFails, Connect, Refuse
  <1>3. pc[s] \notin Registered /\ pc[s] # "ended" /\ l \notin Registered /\ l \in PC
    BY <1>2, Labels
  <1>4. CASE l = "ended"
    <2>1. OwnerMap' = OwnerMap
      BY <1>1 DEF OwnerMap, DriversKept, Driver
    <2>2. PhaseMap[s] = "out"
      BY <1>3 DEF PhaseMap, Phase
    <2>3. PhaseMap' = [PhaseMap EXCEPT ![s] = "over"]
      BY <1>2, <1>3, <1>4 DEF PhaseMap, Phase, Goto, TypeInv, TypeOK
    <2> QED BY <2>1, <2>2, <2>3 DEF O!TurnAway, OwnerMap, PhaseMap
  <1>5. CASE l # "ended"
    BY <1>1, <1>2, <1>3, <1>5, GotoKeepsPhases, KeptIsStutter
  <1> QED BY <1>4, <1>5

(* SetDriver acquires the bulb of the connection, from whoever had it.     *)
LEMMA SetDriverAcquires ==
  ASSUME TypeInv, NEW s \in Session, RegisterSetDriver(s)
  PROVE  \E d \in DeviceId : O!Acquire(s, d)
  <1> DEFINE d == dev[s]
  <1>1. d \in DeviceId /\ SetDriver(d, s)
    BY Labels DEF RegisterSetDriver, TypeInv, TypeOK, Identified
  <1>2. OnlyEntry(d) /\ bulbs'[d].driver = s
    BY <1>1, SetDriverEffect DEF TypeInv, TypeOK, BulbsType
  <1>3. pc[s] = "setDriver" /\ pc' = [pc EXCEPT ![s] = "announce"]
    BY DEF RegisterSetDriver, Goto
  <1> HIDE DEF d
  <1>4. OwnerMap' = [OwnerMap EXCEPT ![d] = s]
    BY <1>1, <1>2 DEF OwnerMap, Driver, OnlyEntry
  <1>5. PhaseMap[s] = "out"
    BY <1>3, Labels DEF PhaseMap, Phase
  <1>6. PhaseMap' = [PhaseMap EXCEPT ![s] = "in"]
    BY <1>3, Labels DEF PhaseMap, Phase, TypeInv, TypeOK
  <1>7. O!Acquire(s, d)
    BY <1>4, <1>5, <1>6 DEF O!Acquire, OwnerMap, PhaseMap
  <1> QED BY <1>1, <1>7

(* The deferred Disconnect releases the bulb if the connection still has   *)
(* it, and no other bulb: only its own can have it as driver.              *)
LEMMA UnregisterReleases ==
  ASSUME TypeInv, Safe, NEW s \in Session, Unregister(s)
  PROVE  O!Release(s)
  <1> DEFINE d == dev[s]
  <1>1. d \in DeviceId /\ Disconnect(d, s)
    BY Labels DEF Unregister, TypeInv, TypeOK, Identified
  <1>2. /\ OnlyEntry(d)
        /\ IF bulbs[d].driver = s THEN bulbs'[d].driver = Nil
           ELSE bulbs'[d] = bulbs[d]
    BY <1>1, DisconnectEffect DEF TypeInv, TypeOK, BulbsType
  <1>3. pc[s] = "unregister" /\ pc' = [pc EXCEPT ![s] = "ended"]
    BY DEF Unregister, Goto
  <1>4. \A e \in DeviceId : bulbs[e].driver = s => e = d
    BY RegistryAssumption DEF Safe, DriverIsLive, Driver
  <1> HIDE DEF d
  <1>5. OwnerMap' = [e \in DeviceId |-> IF OwnerMap[e] = s THEN Nil ELSE OwnerMap[e]]
    BY <1>1, <1>2, <1>4 DEF OwnerMap, Driver, OnlyEntry
  <1>6. PhaseMap[s] = "in"
    BY <1>3, Labels DEF PhaseMap, Phase
  <1>7. PhaseMap' = [PhaseMap EXCEPT ![s] = "over"]
    BY <1>3, Labels DEF PhaseMap, Phase, TypeInv, TypeOK
  <1> QED BY <1>5, <1>6, <1>7 DEF O!Release, OwnerMap, PhaseMap

LEMMA StepImplements ==
  TypeInv /\ Safe /\ [Next]_vars => [O!Next]_O!ownershipVars
  <1> SUFFICES ASSUME TypeInv, Safe, [Next]_vars
               PROVE  O!Next \/ UNCHANGED O!ownershipVars
    OBVIOUS
  <1>1. CASE \/ UNCHANGED vars \/ Terminated
             \/ Listen \/ ListenFails \/ Cancel \/ CloseListener \/ AcceptFails
    <2>1. bulbs' = bulbs /\ pc' = pc
      BY <1>1 DEF vars, sessionVars, Listen, ListenFails, Cancel, CloseListener,
                  AcceptFails, Terminated
    <2> QED BY <2>1, PlacesKept, KeptIsStutter DEF DriversKept
  <1>2. ASSUME NEW d \in DeviceId, DeclareLamp(d) \/ DeclareFails(d)
        PROVE  UNCHANGED O!ownershipVars
    <2>1. PhasesKept
      BY <1>2, PlacesKept DEF DeclareLamp, DeclareFails, sessionVars
    <2>2. CASE DeclareLamp(d)
      <3>1. Configured[d] \in Name /\ Declare(d, Configured[d])
        BY <2>2, BulbServerAssumption DEF DeclareLamp, TypeInv, TypeOK
      <3> QED BY <2>1, <3>1, DeclareEffect, NamingKeepsDrivers, KeptIsStutter
              DEF TypeInv, TypeOK, BulbsType
    <2>3. CASE DeclareFails(d)
      BY <2>1, <2>3, KeptIsStutter DEF DeclareFails, DriversKept
    <2> QED BY <1>2, <2>2, <2>3
  <1>3. ASSUME NEW d \in DeviceId, NEW n \in OperatorName, OperatorRenames(d, n)
        PROVE  UNCHANGED O!ownershipVars
    <2>1. PhasesKept
      BY <1>3, PlacesKept DEF OperatorRenames, sessionVars
    <2>2. n \in Name /\ Rename(d, n)
      BY <1>3, BulbServerAssumption DEF OperatorRenames
    <2> QED BY <2>1, <2>2, RenameEffect, NamingKeepsDrivers, KeptIsStutter
            DEF TypeInv, TypeOK, BulbsType
  <1>4. ASSUME NEW s \in Session, Accept(s) \/ Sniff(s) \/ Handshake(s)
        PROVE  O!Next \/ UNCHANGED O!ownershipVars
    BY <1>4, HandshakeTurnsAway DEF O!Next
  <1>5. ASSUME NEW s \in Session, RegisterUpsert(s) PROVE UNCHANGED O!ownershipVars
    <2>1. dev[s] \in DeviceId /\ {} \in Capabilities /\ Upsert(dev[s], {})
      BY <1>5, Labels DEF RegisterUpsert, TypeInv, Identified, Capabilities
    <2>2. DriversKept
      BY <2>1, UpsertEffect, NamingKeepsDrivers DEF TypeInv, TypeOK, BulbsType
    <2>3. /\ Goto(s, "setDriver") /\ "setDriver" \in PC /\ "setDriver" \notin Registered
          /\ pc[s] \notin Registered /\ pc[s] # "ended"
      BY <1>5, Labels DEF RegisterUpsert
    <2> QED BY <2>2, <2>3, GotoKeepsPhases, KeptIsStutter
  <1>6. ASSUME NEW s \in Session, RegisterSetDriver(s) PROVE O!Next
    BY <1>6, SetDriverAcquires DEF O!Next
  <1>7. ASSUME NEW s \in Session, Unregister(s) PROVE O!Next
    BY <1>7, UnregisterReleases DEF O!Next
  <1>8. ASSUME NEW s \in Session, Reports(s) PROVE UNCHANGED O!ownershipVars
    BY <1>8, ReportIsStutter, KeptIsStutter
  <1>9. ASSUME NEW s \in Session,
               \/ RegisterAnnounce(s) \/ Arm(s) \/ ReadFails(s) \/ HandleOther(s)
               \/ HandleFails(s) \/ (\E p \in Post : HandlePost(s, p)) \/ PostPublish(s)
               \/ ReportDisconnect(s) \/ PublishDisconnected(s)
               \/ CloseDisplaced(s) \/ CloseAtShutdown(s)
        PROVE  UNCHANGED O!ownershipVars
    BY <1>9, LoopIsStutter, KeptIsStutter
  <1> QED BY <1>1, <1>2, <1>3, <1>4, <1>5, <1>6, <1>7, <1>8, <1>9 DEF Next, Work, Hear, Reports

(* Nobody owns anything yet, and no connection is in or over.              *)
LEMMA InitImplements == Init => O!Init
  <1> SUFFICES ASSUME Init PROVE O!Init
    OBVIOUS
  <1>1. \A d \in DeviceId : Driver(d) = Nil
    <2> TAKE d \in DeviceId
    <2>1. bulbs[d] \in LoadedBulb \/ \E e \in DeviceId : bulbs[d] = NoBulb(e)
      BY DEF Init
    <2> QED BY <2>1, NoBulbType DEF LoadedBulb, Driver
  <1>2. \A s \in Session : Phase(s) = "out"
    BY Labels DEF Init, Phase
  <1> QED BY <1>1, <1>2 DEF O!Init

(* A new life begins as the old one ended, with every bulb unowned.        *)
LEMMA RestartIsStutter ==
  TypeInv /\ Safe /\ Restart => UNCHANGED O!ownershipVars
  <1> SUFFICES ASSUME TypeInv, Safe, Restart PROVE UNCHANGED O!ownershipVars
    OBVIOUS
  <1>1. DriversKept
    BY NobodyAtRestart, RestartEffect DEF DriversKept
  <1>2. PhasesKept
    BY PlacesKept DEF Restart
  <1> QED BY <1>1, <1>2, KeptIsStutter

(* The sessions, the registry, the operator, the shutdown and the restarts *)
(* implement the abstract specification of ownership: at most one          *)
(* connection owns a bulb, the one that acquired it last, and a connection *)
(* gives up nothing but its own (SetDriver, Disconnect).                   *)
THEOREM OwnershipImplemented == RestartSpec => ImplementsOwnership
  <1>1. LivesInv /\ [RestartNext]_vars => [O!Next]_O!ownershipVars
    BY StepImplements, RestartIsStutter DEF LivesInv, RestartNext
  <1> QED BY AlwaysLives, InitImplements, <1>1, PTL
          DEF RestartSpec, ImplementsOwnership, O!Spec

-----------------------------------------------------------------------------
(* What the headless server guarantees and the interactive one does not.   *)
(* Without an operator, and with Admit limited to the configured lamps,    *)
(* every bulb that registers was declared before the listener opened, so   *)
(* Upsert never creates an entry, never falls back on the device id as a   *)
(* name, and never meets a bulb that is not adopted.                       *)

(* No connection is served before every configured lamp is declared.       *)
DeclaredFirst ==
  /\ listener = "open" => undeclared = {}
  /\ \A s \in Session : pc[s] \notin {"free", "ended"} => undeclared = {}

(* A session past its handshake belongs to a configured lamp.              *)
Admitted ==
  \A s \in Session :
    pc[s] \in Serving \ {"handshake"} => dev[s] \in DOMAIN Configured

DeclaredIsKnown == \A d \in DOMAIN Configured \ undeclared : Known(d)

NothingDiscovered == \A d \in DeviceId : bulbs[d].status # "Discovered"

HeadlessInv ==
  /\ DeclaredFirst
  /\ Admitted
  /\ DeclaredIsKnown
  /\ NothingDiscovered
  /\ NamesUnique
  /\ ConnectedHasDriver

LEMMA InitHeadless == Init => HeadlessInv
  <1> SUFFICES ASSUME Init PROVE HeadlessInv
    OBVIOUS
  <1>1. \A d \in DeviceId : bulbs[d].status \in {"Absent", "Disconnected"}
    <2> TAKE d \in DeviceId
    <2>1. bulbs[d] \in LoadedBulb \/ \E e \in DeviceId : bulbs[d] = NoBulb(e)
      BY DEF Init
    <2> QED BY <2>1, NoBulbType DEF LoadedBulb
  <1>2. /\ \A s \in Session : pc[s] = "free"
        /\ listener # "open"
        /\ undeclared = DOMAIN Configured
        /\ NamesUnique
    BY DEF Init
  <1> QED BY <1>1, <1>2, Labels
      DEF HeadlessInv, DeclaredFirst, Admitted, DeclaredIsKnown, NothingDiscovered,
          ConnectedHasDriver

(* The sessions only ever move between declarations and entries that are   *)
(* there already.                                                          *)
LEMMA StepAdmitted ==
  ASSUME Headless, TypeInv, HeadlessInv, [Next]_vars
  PROVE  DeclaredFirst' /\ Admitted'
  <1> USE Labels DEF TypeInv, TypeOK, HeadlessInv, DeclaredFirst, Admitted, Goto
  <1>1. CASE \/ UNCHANGED vars \/ Terminated
             \/ Listen \/ ListenFails \/ Cancel \/ CloseListener \/ AcceptFails
    BY <1>1 DEF vars, sessionVars, Listen, ListenFails, Cancel, CloseListener,
                AcceptFails, Terminated
  <1>2. ASSUME NEW d \in DeviceId, DeclareLamp(d) \/ DeclareFails(d)
        PROVE  DeclaredFirst' /\ Admitted'
    BY <1>2 DEF DeclareLamp, DeclareFails, sessionVars
  <1>3. ASSUME NEW d \in DeviceId, NEW n \in OperatorName, OperatorRenames(d, n)
        PROVE  DeclaredFirst' /\ Admitted'
    BY <1>3 DEF OperatorRenames
  <1>4. ASSUME NEW s \in Session, Accept(s) \/ Sniff(s) \/ HandshakeFails(s)
        PROVE  DeclaredFirst' /\ Admitted'
    BY <1>4 DEF Accept, Sniff, HandshakeFails
  <1>5. ASSUME NEW s \in Session, NEW d \in DeviceId, Connect(s, d) \/ Refuse(s, d)
        PROVE  DeclaredFirst' /\ Admitted'
    BY <1>5 DEF Connect, Refuse, Admit
  <1>6. ASSUME NEW s \in Session, CloseDisplaced(s) \/ CloseAtShutdown(s)
        PROVE  DeclaredFirst' /\ Admitted'
    BY <1>6 DEF CloseDisplaced, CloseAtShutdown
  <1>7. ASSUME NEW s \in Session, Work(s) \/ Hear(s)
        PROVE  DeclaredFirst' /\ Admitted'
    <2>1. /\ pc[s] \in Serving \ {"handshake"}
          /\ UNCHANGED <<dev, listener, undeclared>>
      BY <1>7 DEF Work, Hear, RegisterUpsert, RegisterSetDriver, RegisterAnnounce, Arm,
                  OTACapabilities, PostRefine, PostSetState, PostPublish,
                  ReportDisconnect, PublishDisconnected, Unregister, ReadFails,
                  HandleOther, HandleFails, HandleOTA, HandlePost
    <2>2. \E l \in PC : pc' = [pc EXCEPT ![s] = l]
      <3>1. CASE \/ RegisterUpsert(s) \/ RegisterSetDriver(s) \/ RegisterAnnounce(s)
                 \/ Arm(s) \/ OTACapabilities(s) \/ PostRefine(s)
        BY <3>1 DEF PC, RegisterUpsert, RegisterSetDriver, RegisterAnnounce, Arm,
                    OTACapabilities, PostRefine
      <3>2. CASE PostSetState(s) \/ PostPublish(s)
        BY <3>2 DEF PC, PostSetState, PostPublish, Reply
      <3>3. CASE ReportDisconnect(s) \/ PublishDisconnected(s) \/ Unregister(s)
        BY <3>3 DEF PC, ReportDisconnect, PublishDisconnected, Unregister
      <3>4. CASE Hear(s)
        BY <3>4 DEF PC, Hear, ReadFails, HandleOther, HandleFails, HandleOTA, HandlePost
      <3> QED BY <1>7, <3>1, <3>2, <3>3, <3>4 DEF Work
    <2> QED BY <2>1, <2>2
  <1> QED BY <1>1, <1>2, <1>3, <1>4, <1>5, <1>6, <1>7 DEF Next, Handshake

(* A session that has called Upsert waits for its own SetDriver, and only  *)
(* a declaration shortens the list of lamps to declare.                    *)
LEMMA SetDriverWaits ==
  ASSUME TypeInv, [Next]_vars
  PROVE  /\ \A u \in Session : pc[u] = "setDriver" =>
              RegisterSetDriver(u) \/ (pc'[u] = "setDriver" /\ dev'[u] = dev[u])
         /\ undeclared' = undeclared \/ \E d \in DeviceId : DeclareLamp(d)
  <1> USE DEF TypeInv, TypeOK, Goto
  <1> DEFINE Waits == /\ \A u \in Session : pc[u] = "setDriver" =>
                          pc'[u] = "setDriver" /\ dev'[u] = dev[u]
                      /\ undeclared' = undeclared
  <1>1. CASE \/ UNCHANGED vars \/ Terminated
             \/ Listen \/ ListenFails \/ Cancel \/ CloseListener \/ AcceptFails
    BY <1>1 DEF vars, sessionVars, Listen, ListenFails, Cancel, CloseListener,
                AcceptFails, Terminated
  <1>2. ASSUME NEW d \in DeviceId, DeclareLamp(d)
        PROVE  UNCHANGED <<pc, dev>>
    BY <1>2 DEF DeclareLamp, sessionVars
  <1>3. ASSUME NEW d \in DeviceId, DeclareFails(d) PROVE Waits
    BY <1>3 DEF DeclareFails, sessionVars
  <1>4. ASSUME NEW d \in DeviceId, NEW n \in OperatorName, OperatorRenames(d, n)
        PROVE  Waits
    BY <1>4 DEF OperatorRenames, sessionVars
  <1>5. ASSUME NEW s \in Session,
               \/ Accept(s) \/ Sniff(s) \/ Handshake(s)
               \/ CloseDisplaced(s) \/ CloseAtShutdown(s)
        PROVE  Waits
    BY <1>5 DEF Accept, Sniff, Handshake, HandshakeFails, Connect, Refuse,
                CloseDisplaced, CloseAtShutdown
  <1>6. ASSUME NEW s \in Session, RegisterSetDriver(s)
        PROVE  /\ \A u \in Session \ {s} : pc'[u] = pc[u] /\ dev'[u] = dev[u]
               /\ undeclared' = undeclared
    BY <1>6 DEF RegisterSetDriver
  <1>7. ASSUME NEW s \in Session, Work(s), ~RegisterSetDriver(s) PROVE Waits
    <2>1. /\ pc[s] # "setDriver"
          /\ UNCHANGED <<dev, undeclared>>
          /\ \A u \in Session \ {s} : pc'[u] = pc[u]
      BY <1>7 DEF Work, RegisterUpsert, RegisterAnnounce, Arm,
                  OTACapabilities, PostRefine, PostSetState, PostPublish, Reply,
                  ReportDisconnect, PublishDisconnected, Unregister
    <2> QED BY <2>1
  <1>8. ASSUME NEW s \in Session, Hear(s) PROVE Waits
    BY <1>8 DEF Hear, ReadFails, HandleOther, HandleFails, HandleOTA, HandlePost
  <1> QED BY <1>1, <1>2, <1>3, <1>4, <1>5, <1>6, <1>7, <1>8 DEF Next

(* Names, statuses and drivers keep in step.                               *)
Entries == DeclaredIsKnown /\ NothingDiscovered /\ NamesUnique /\ ConnectedHasDriver

LEMMA StepEntries ==
  ASSUME Headless, TypeInv, TypeInv', Safe, HeadlessInv, [Next]_vars
  PROVE  Entries'
  <1> USE DEF TypeInv, TypeOK, Entries, DeclaredIsKnown, NothingDiscovered,
              NamesUnique, ConnectedHasDriver, Known, Driver
  <1>0. /\ DeclaredFirst /\ Admitted /\ DeclaredIsKnown /\ NothingDiscovered
        /\ NamesUnique /\ ConnectedHasDriver
    BY DEF HeadlessInv
  <1>1. ASSUME NEW s \in Session, RegisterSetDriver(s) PROVE Entries'
    <2>1. dev[s] \in DeviceId /\ SetDriver(dev[s], s)
      BY <1>1, Labels DEF RegisterSetDriver, Identified
    <2>2. /\ OnlyEntry(dev[s])
          /\ bulbs'[dev[s]].driver = s
          /\ bulbs'[dev[s]].name = bulbs[dev[s]].name
          /\ bulbs'[dev[s]].status = IF bulbs[dev[s]].status = "Disconnected"
                                     THEN "Connected" ELSE bulbs[dev[s]].status
      BY <2>1, SetDriverEffect DEF BulbsType
    <2>3. UNCHANGED <<dev, undeclared>> /\ \A u \in Session \ {s} : pc'[u] = pc[u]
      BY <1>1 DEF RegisterSetDriver, Goto
    <2>4. ConnectedHasDriver'
      <3> SUFFICES ASSUME NEW e \in DeviceId, bulbs'[e].status = "Connected"
                   PROVE  \/ bulbs'[e].driver # Nil
                          \/ \E u \in Session : dev'[u] = e /\ pc'[u] = "setDriver"
        OBVIOUS
      <3>1. CASE e = dev[s]
        BY <2>2, <3>1, RegistryAssumption
      <3>2. CASE e # dev[s]
        BY <1>0, <2>2, <2>3, <3>2 DEF OnlyEntry
      <3> QED BY <3>1, <3>2
    <2>5. \A e \in DeviceId : /\ bulbs'[e].name = bulbs[e].name
                              /\ bulbs'[e].status # "Discovered"
                              /\ Known(e)' <=> Known(e)
      BY <1>0, <2>1, <2>2 DEF OnlyEntry
    <2>6. DeclaredIsKnown'
      BY <1>0, <2>3, <2>5, BulbServerAssumption
    <2>7. NamesUnique' /\ NothingDiscovered'
      BY <1>0, <2>5
    <2> QED BY <2>4, <2>6, <2>7
 <1>2. ASSUME NEW s \in Session, RegisterUpsert(s) PROVE Entries'
    <2>1. dev[s] \in DeviceId /\ Upsert(dev[s], {}) /\ {} \in Capabilities
      BY <1>2, Labels DEF RegisterUpsert, Identified, Capabilities
    <2>2. Known(dev[s])
      BY <1>0, <1>2, Labels DEF RegisterUpsert, DeclaredFirst, Admitted
    <2>3. /\ OnlyEntry(dev[s])
          /\ bulbs'[dev[s]].name = bulbs[dev[s]].name
          /\ bulbs'[dev[s]].status = "Connected"
      BY <1>0, <2>1, <2>2, UpsertEffect DEF BulbsType
    <2>4. /\ UNCHANGED <<dev, undeclared>>
          /\ pc'[s] = "setDriver"
          /\ \A u \in Session \ {s} : pc'[u] = pc[u]
          /\ pc[s] = "upsert"
      BY <1>2 DEF RegisterUpsert, Goto
    <2>5. ConnectedHasDriver'
      BY <1>0, <2>1, <2>3, <2>4 DEF OnlyEntry
    <2>6. \A e \in DeviceId : /\ bulbs'[e].name = bulbs[e].name
                              /\ bulbs'[e].status # "Discovered"
                              /\ Known(e)' <=> Known(e)
      BY <1>0, <2>1, <2>2, <2>3 DEF OnlyEntry
    <2>7. DeclaredIsKnown'
      BY <1>0, <2>4, <2>6, BulbServerAssumption
    <2>8. NamesUnique' /\ NothingDiscovered'
      BY <1>0, <2>6
    <2> QED BY <2>5, <2>7, <2>8
  <1>3. ASSUME NEW s \in Session, Unregister(s) PROVE Entries'
    <2>1. dev[s] \in DeviceId /\ Disconnect(dev[s], s)
      BY <1>3, Labels DEF Unregister, Identified
    <2>2. /\ OnlyEntry(dev[s])
          /\ bulbs'[dev[s]].name = bulbs[dev[s]].name
          /\ IF bulbs[dev[s]].driver = s
             THEN /\ bulbs'[dev[s]].driver = Nil
                  /\ bulbs'[dev[s]].status = IF bulbs[dev[s]].status = "Connected"
                                             THEN "Disconnected"
                                             ELSE bulbs[dev[s]].status
             ELSE bulbs'[dev[s]] = bulbs[dev[s]]
      BY <2>1, DisconnectEffect DEF BulbsType
    <2>3. /\ UNCHANGED <<dev, undeclared>>
          /\ \A u \in Session \ {s} : pc'[u] = pc[u]
          /\ pc[s] = "unregister"
      BY <1>3 DEF Unregister, Goto
    <2>4. ConnectedHasDriver'
      BY <1>0, <2>1, <2>2, <2>3 DEF OnlyEntry
    <2>5. \A e \in DeviceId : /\ bulbs'[e].name = bulbs[e].name
                              /\ bulbs'[e].status # "Discovered"
                              /\ Known(e)' <=> Known(e)
      BY <1>0, <2>1, <2>2 DEF OnlyEntry
    <2>6. DeclaredIsKnown'
      BY <1>0, <2>3, <2>5, BulbServerAssumption
    <2>7. NamesUnique' /\ NothingDiscovered'
      BY <1>0, <2>5
    <2> QED BY <2>4, <2>6, <2>7
 <1>4. ASSUME NEW d \in DeviceId, DeclareLamp(d) PROVE Entries'
    <2>1. Configured[d] \in Name /\ Declare(d, Configured[d])
      BY <1>4, BulbServerAssumption DEF DeclareLamp
    <2>2. /\ OnlyEntry(d)
          /\ bulbs'[d].driver = IF Known(d) THEN bulbs[d].driver ELSE Nil
          /\ bulbs'[d].name = Configured[d]
          /\ ~NameInUse(d, Configured[d])
          /\ bulbs'[d].status = IF ~Known(d) THEN "Disconnected"
                                ELSE IF bulbs[d].status = "Discovered" THEN "Connected"
                                ELSE bulbs[d].status
      BY <2>1, DeclareEffect DEF BulbsType
    <2>3. UNCHANGED <<pc, dev>> /\ undeclared' = undeclared \ {d}
      BY <1>4 DEF DeclareLamp, sessionVars
    <2>4. NamesUnique'
      BY <1>0, <2>2 DEF OnlyEntry, NameInUse
    <2>5. ConnectedHasDriver'
      BY <1>0, <2>2, <2>3 DEF OnlyEntry
    <2>6. \A e \in DeviceId : /\ bulbs'[e].status # "Discovered"
                              /\ Known(e) \/ e = d => Known(e)'
      BY <1>0, <2>2 DEF OnlyEntry
    <2>7. DeclaredIsKnown'
      BY <1>0, <2>3, <2>6, BulbServerAssumption
    <2> QED BY <2>4, <2>5, <2>6, <2>7
  <1>5. CASE /\ AllPresenceKept
             /\ undeclared' = undeclared
             /\ \A s \in Session : ~RegisterSetDriver(s)
    <2>1. \A u \in Session : pc[u] = "setDriver" => pc'[u] = "setDriver" /\ dev'[u] = dev[u]
      BY <1>5, SetDriverWaits
    <2>2. ConnectedHasDriver'
      <3> SUFFICES ASSUME NEW d \in DeviceId, bulbs'[d].status = "Connected", bulbs'[d].driver = Nil
                   PROVE  \E u \in Session : dev'[u] = d /\ pc'[u] = "setDriver"
        BY DEF ConnectedHasDriver, Driver
      <3>1. bulbs[d].status = "Connected" /\ bulbs[d].driver = Nil
        BY <1>5 DEF AllPresenceKept
      <3>2. PICK u \in Session : dev[u] = d /\ pc[u] = "setDriver"
        BY <1>0, <3>1 DEF ConnectedHasDriver, Driver
      <3> QED BY <2>1, <3>2
    <2>3. DeclaredIsKnown'
      <3>1. DOMAIN Configured \subseteq DeviceId
        BY BulbServerAssumption
      <3> QED BY <1>0, <1>5, <3>1 DEF AllPresenceKept
    <2>4. \A e \in DeviceId : /\ bulbs'[e].name = bulbs[e].name
                              /\ bulbs'[e].status = bulbs[e].status
                              /\ Known(e)' <=> Known(e)
      BY <1>0, <1>5 DEF AllPresenceKept
    <2>5. NamesUnique'
      BY <1>0, <2>4
    <2>6. NothingDiscovered'
      BY <1>0, <2>4
    <2> QED BY <2>2, <2>3, <2>5, <2>6
  <1>6. ~ \E d \in DeviceId, n \in OperatorName : OperatorRenames(d, n)
    BY DEF OperatorRenames
  <1> QED BY <1>1, <1>2, <1>3, <1>4, <1>5, <1>6, FewStepsMovePresence, SetDriverWaits

(* Declared lamps, and the strangers of the file, load as they were.       *)
LEMMA RestartKeepsHeadless ==
  ASSUME LivesInv, HeadlessInv, Restart
  PROVE  HeadlessInv'
  <1> USE DEF LivesInv
  <1>1. \A s \in Session : pc'[s] \in {"free", "ended"}
    BY NobodyAtRestart DEF Restart
  <1>2. DeclaredFirst' /\ Admitted'
    BY <1>1, Labels DEF Restart, DeclaredFirst, Admitted
  <1>3. DeclaredIsKnown'
    BY DEF Restart, DeclaredIsKnown
  <1>4. NothingDiscovered' /\ ConnectedHasDriver'
    BY RestartEffect DEF NothingDiscovered, ConnectedHasDriver
  <1>5. NamesUnique'
    BY RestartEffect DEF HeadlessInv, NamesUnique, Known
  <1> QED BY <1>2, <1>3, <1>4, <1>5 DEF HeadlessInv

LEMMA AlwaysHeadlessInv == ASSUME Headless PROVE RestartSpec => []HeadlessInv
  <1>1. LivesInv /\ HeadlessInv /\ [RestartNext]_vars => HeadlessInv'
    <2> SUFFICES ASSUME LivesInv, HeadlessInv, [RestartNext]_vars
                 PROVE  HeadlessInv'
      OBVIOUS
    <2>1. CASE [Next]_vars
      <3>1. TypeInv'
        BY <2>1, StepTyped DEF LivesInv
      <3>2. DeclaredFirst' /\ Admitted'
        BY <2>1, StepAdmitted DEF LivesInv
      <3>3. Entries'
        BY <2>1, <3>1, StepEntries DEF LivesInv
      <3> QED BY <3>2, <3>3 DEF HeadlessInv, Entries
    <2>2. CASE Restart
      BY <2>2, RestartKeepsHeadless
    <2> QED BY <2>1, <2>2 DEF RestartNext
  <1> QED BY InitHeadless, AlwaysLives, <1>1, PTL DEF RestartSpec

(* In headless mode no two bulbs ever share a display name (Declare), in   *)
(* any life, so no file is written that the next one would refuse.         *)
THEOREM HeadlessNamesUnique == ASSUME Headless PROVE RestartSpec => []NamesUnique
  <1>1. HeadlessInv => NamesUnique
    BY DEF HeadlessInv
  <1> QED BY AlwaysHeadlessInv, <1>1, PTL

(* In headless mode a bulb listed as connected has a connection, or one is *)
(* being installed (Upsert, SetDriver, Disconnect).                        *)
THEOREM HeadlessConnectedHasDriver ==
  ASSUME Headless PROVE RestartSpec => []ConnectedHasDriver
  <1>1. HeadlessInv => ConnectedHasDriver
    BY DEF HeadlessInv
  <1> QED BY AlwaysHeadlessInv, <1>1, PTL

(* An entry the headless server is not configured for is as the file has   *)
(* it, so that not even a restart changes it.                              *)
StrangersAsLoaded ==
  \A d \in DeviceId \ DOMAIN Configured : Known(d) => bulbs[d] \in LoadedBulb

StrangersKept == \A d \in DeviceId \ DOMAIN Configured : bulbs'[d] = bulbs[d]

LEMMA LoadedTwice == ASSUME NEW b \in LoadedBulb PROVE Reloaded(b) = b
  BY DEF Reloaded, LoadedBulb, Bulb

LEMMA StepKeepsStrangers ==
  ASSUME Headless, TypeInv, HeadlessInv, [Next]_vars
  PROVE  StrangersKept
  <1> USE Labels DEF TypeInv, TypeOK, StrangersKept
  <1>1. CASE bulbs' = bulbs
    BY <1>1
  <1>2. ASSUME NEW d \in DeviceId, DeclareLamp(d) PROVE StrangersKept
    <2>1. d \in DOMAIN Configured /\ Configured[d] \in Name /\ Declare(d, Configured[d])
      BY <1>2, BulbServerAssumption DEF DeclareLamp
    <2> QED BY <2>1, DeclareEffect DEF BulbsType, OnlyEntry
  <1>3. ASSUME NEW s \in Session,
               RegisterUpsert(s) \/ RegisterSetDriver(s) \/ Unregister(s) \/ Reports(s)
        PROVE  StrangersKept
    <2>1. dev[s] \in DOMAIN Configured
      BY <1>3 DEF HeadlessInv, Admitted, RegisterUpsert, RegisterSetDriver, Unregister,
                  Reports, HandleOTA, OTACapabilities, PostRefine, PostSetState
    <2>2. OnlyEntry(dev[s])
      <3>1. CASE Reports(s)
        BY <3>1, ReportKeepsPresence DEF PresenceKept
      <3>2. CASE ~Reports(s)
        <4>1. /\ dev[s] \in DeviceId /\ {} \in Capabilities
              /\ \/ Upsert(dev[s], {}) \/ SetDriver(dev[s], s) \/ Disconnect(dev[s], s)
          BY <1>3, <2>1, <3>2, BulbServerAssumption
             DEF RegisterUpsert, RegisterSetDriver, Unregister, Capabilities
        <4> QED BY <4>1, UpsertEffect, SetDriverEffect, DisconnectEffect DEF BulbsType
      <3> QED BY <3>1, <3>2
    <2> QED BY <2>1, <2>2 DEF OnlyEntry
  <1>4. ~ \E d \in DeviceId, n \in OperatorName : OperatorRenames(d, n)
    BY DEF OperatorRenames
  <1> QED BY <1>1, <1>2, <1>3, <1>4, FewStepsMoveBulbs

(* A bulb that the headless server is not configured for leaves nothing    *)
(* behind, however often it connects and the server restarts (Admit).      *)
THEOREM RefusedAlwaysLeaveNothing == RestartSpec => RefusedLeaveNothing
  <1>1. CASE Headless
    <2>1. Init => StrangersAsLoaded
      <3> SUFFICES ASSUME Init, NEW d \in DeviceId, Known(d) PROVE bulbs[d] \in LoadedBulb
        BY DEF StrangersAsLoaded
      <3>1. bulbs[d] \in LoadedBulb \/ \E e \in DeviceId : bulbs[d] = NoBulb(e)
        BY DEF Init
      <3> QED BY <3>1, NoBulbType DEF Known
    <2>2. LivesInv /\ HeadlessInv /\ StrangersAsLoaded /\ [RestartNext]_vars => StrangersKept
      <3> SUFFICES ASSUME LivesInv, HeadlessInv, StrangersAsLoaded, [RestartNext]_vars
                   PROVE  StrangersKept
        OBVIOUS
      <3>1. CASE [Next]_vars
        BY <1>1, <3>1, StepKeepsStrangers DEF LivesInv
      <3>2. CASE Restart
        <4> SUFFICES ASSUME NEW d \in DeviceId \ DOMAIN Configured PROVE bulbs'[d] = bulbs[d]
          BY DEF StrangersKept
        <4> QED BY <3>2, RestartEffect, LoadedTwice DEF LivesInv, StrangersAsLoaded
      <3> QED BY <3>1, <3>2 DEF RestartNext
    <2>3. StrangersAsLoaded /\ StrangersKept => StrangersAsLoaded'
      BY DEF StrangersAsLoaded, StrangersKept, Known
    <2>4. StrangersKept => (Headless => \A d \in DeviceId \ DOMAIN Configured : bulbs'[d] = bulbs[d])
      BY DEF StrangersKept
    <2>5. RestartSpec => []HeadlessInv
      BY <1>1, AlwaysHeadlessInv
    <2> QED BY AlwaysLives, <2>1, <2>2, <2>3, <2>4, <2>5, PTL
            DEF RestartSpec, RefusedLeaveNothing
  <1>2. CASE ~Headless
    <2>1. Headless => \A d \in DeviceId \ DOMAIN Configured : bulbs'[d] = bulbs[d]
      BY <1>2
    <2> QED BY <2>1, PTL DEF RefusedLeaveNothing
  <1> QED BY <1>1, <1>2

=============================================================================
