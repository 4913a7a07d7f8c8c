------------------------------- MODULE Bridge -------------------------------
(***************************************************************************)
(* internal/hass/bridge.go: the lamps published to Home Assistant, over    *)
(* the client of module MqttClient.                                        *)
(*                                                                         *)
(* The bridge has two kinds of goroutines: the loop of Run, which follows  *)
(* the events of the bus, and one OnConnect per connection ("hook").  Each *)
(* works off a list of operations (`todo`), one atomic step per operation: *)
(* a critical section of b.mu or c.mu, or a write.  What a goroutine reads *)
(* of a lamp with Get or Snapshot is in the operations it has left.        *)
(*                                                                         *)
(* The registry and the sessions of the bulbs are in module BulbServer;    *)
(* here they are an environment that changes a lamp and offers the event.  *)
(* Discovery and state payloads are abstracted to what can disagree: the   *)
(* name, the reported state, and whether they claim warmth.                *)
(***************************************************************************)
EXTENDS MqttClient, Sequences, FiniteSets, SequencesExt

CONSTANTS
  Device,   \* bulbs
  Name,     \* names an operator or the configuration gives
  State,    \* reported states
  Hook,     \* goroutines of OnConnect
  Scope     \* bounds of a behaviour: how many events, how many of them yet to
            \* be received, how many replaced sessions at a time, how many
            \* namings, how many connections to the broker, what can show of
            \* a bulb's warmth, and whether the server is stopped

Actor == Hook \cup {"loop"}

ConfigTopic(d) == <<"config", d>>
StateTopic(d) == <<"state", d>>
AvailabilityTopic(d) == <<"availability", d>>

TopicsOf(d) == {ConfigTopic(d), StateTopic(d), AvailabilityTopic(d)}

(* What may be retained: a discovery message, a state, an availability.    *)
Payload ==
  [name : Name \cup {Nil}, warm : BOOLEAN] \cup [state : State, warm : BOOLEAN]
    \cup {"online", "offline"}

ASSUME BridgeAssumption ==
  /\ IsFiniteSet(Device)
  /\ Nil \notin Device
  /\ Nil \notin Name
  /\ Nil \notin Payload
  /\ "loop" \notin Hook
  /\ Scope \subseteq [events : Nat, lag : Nat, replaced : Nat, namings : Nat,
                       connects : Nat, warmth : SUBSET BOOLEAN, stops : BOOLEAN]
  /\ Topic = {Status} \cup UNION {TopicsOf(d) : d \in Device}
  /\ \A d \in Device : Status \notin TopicsOf(d)

VARIABLES
  lamp,       \* the registry, as Get and Snapshot show it
  session,    \* the bulb's newest session: none, new, spoken (has reported),
              \* leaving (about to say that the bulb is gone), ending
  late,       \* the number of replaced sessions about to say the same
  shadowed,   \* the number of replaced sessions that are still served
  queue,      \* the bridge's subscription to the event bus
  offered,    \* the number of events offered to it
  namings,    \* the number of namings
  scope,      \* the bounds of this behaviour
  said,       \* history: the last of "StateChanged" and "Disconnected" offered
  phase,      \* Run: "following", then "ended"
  todo,       \* what is left to do for each goroutine
  reported,   \* b.reported
  announced,  \* b.announced
  overtaken   \* two goroutines have held different names of one lamp

lampVars == <<lamp, session, late, shadowed, offered, said, namings, scope>>
bridgeVars == <<phase, todo, reported, announced, overtaken>>
vars == <<clientVars, lampVars, queue, bridgeVars>>

Kind == {"Discovered", "Connected", "Disconnected", "StateChanged", "Renamed"}

Lamp == [name   : Name \cup {Nil},
         status : {"Absent", "Discovered", "Connected", "Disconnected"},
         state  : State,
         warm   : BOOLEAN]   \* its capabilities are known and include warmth

(* The operations of the bridge's goroutines.                              *)
PublishOp(t, v) == [op |-> "publish", topic |-> t, value |-> v]
AnnounceOp(d, l) == [op |-> "announce", dev |-> d, lamp |-> l]
RecordOp(d, n) == [op |-> "record", dev |-> d, name |-> n]
SubscribeOp == [op |-> "subscribe"]
SnapshotOp == [op |-> "snapshot"]

(* Run has subscribed to the bus and is about to subscribe to commands.    *)
(* The registry is as it is loaded or declared: nothing is connected.      *)
Init ==
  /\ ClientInit
  /\ scope \in Scope
  /\ lamp \in [Device -> {l \in Lamp : /\ l.status \in {"Absent", "Disconnected"}
                                       /\ l.name = Nil <=> l.status = "Absent"
                                       /\ l.warm => l.status # "Absent" /\ TRUE \in scope.warmth}]
  /\ \A d, e \in Device : lamp[d].name = lamp[e].name => d = e \/ lamp[d].name = Nil
  /\ session = [d \in Device |-> "none"]
  /\ late = [d \in Device |-> 0]
  /\ shadowed = [d \in Device |-> 0]
  /\ queue = <<>>
  /\ offered = 0
  /\ said = [d \in Device |-> "nothing"]
  /\ namings = 0
  /\ phase = "following"
  /\ todo = [a \in Actor |-> IF a = "loop" THEN <<SubscribeOp>> ELSE <<>>]
  /\ reported = {}
  /\ announced = [d \in Device |-> Nil]
  /\ overtaken = FALSE

Adopted(l) == l.status # "Discovered"

-----------------------------------------------------------------------------
(* The environment: the sessions of the bulbs, which overlap as they do in *)
(* module BulbServer.  A registry change and the event that reports it are *)
(* one step; the owner check of a session that ends and its event are two. *)

Words == {"StateChanged", "Disconnected"}

(* Bus.Publish as the bridge sees it while it keeps up with its queue.     *)
Offer(kind, d) ==
  /\ offered < scope.events
  /\ Len(queue) < scope.lag
  /\ offered' = offered + 1
  /\ queue' = Append(queue, [kind |-> kind, dev |-> d])
  /\ said' = [said EXCEPT ![d] = IF kind \in Words THEN kind ELSE @]

Silent == UNCHANGED <<queue, offered, said>>

environmentUnchanged == <<clientVars, bridgeVars, scope>>

Served(d) == session[d] \in {"new", "spoken"}

(* A bulb connects, perhaps while the registry still has an older session, *)
(* which is replaced wherever it is.                                       *)
Connects(d) ==
  /\ session[d] \in {"none", "ending"} \/ late[d] + shadowed[d] < scope.replaced
  /\ lamp' = [lamp EXCEPT ![d].status =
                CASE @ \in {"Absent", "Discovered"} -> "Discovered"
                  [] OTHER -> "Connected"]
  /\ session' = [session EXCEPT ![d] = "new"]
  /\ late' = [late EXCEPT ![d] = IF session[d] = "leaving" THEN @ + 1 ELSE @]
  /\ shadowed' = [shadowed EXCEPT ![d] = IF Served(d) THEN @ + 1 ELSE @]
  /\ Offer(IF lamp[d].status = "Absent" THEN "Discovered" ELSE "Connected", d)
  /\ UNCHANGED <<namings, environmentUnchanged>>

(* What a report does to the registry.  It may also show that the bulb has *)
(* warmth.                                                                 *)
Report(d, v, warm) ==
  /\ warm \in scope.warmth \cup {lamp[d].warm}
  /\ lamp[d].warm => warm
  /\ lamp' = [lamp EXCEPT ![d].state = v, ![d].warm = warm]

(* A property report: the event goes out if something changed and with the *)
(* first report of a session.                                              *)
Reports(d, v, warm) ==
  /\ Served(d)
  /\ Report(d, v, warm)
  /\ session' = [session EXCEPT ![d] = "spoken"]
  /\ IF lamp[d].state # v \/ session[d] = "new" THEN Offer("StateChanged", d) ELSE Silent
  /\ UNCHANGED <<late, shadowed, namings, environmentUnchanged>>

(* The same by a session that has been replaced, for which it may be the   *)
(* first report.                                                           *)
ReportsReplaced(d, v, warm) ==
  /\ shadowed[d] > 0
  /\ Report(d, v, warm)
  /\ \/ Offer("StateChanged", d)
     \/ lamp[d].state = v /\ Silent
  /\ UNCHANGED <<session, late, shadowed, namings, environmentUnchanged>>

(* An OTA inform replaces what is known of the bulb's channels, without an *)
(* event.  (What a report with an old View makes of them comes to that.)   *)
Classifies(d, warm) ==
  /\ Served(d) \/ shadowed[d] > 0
  /\ warm \in scope.warmth
  /\ lamp' = [lamp EXCEPT ![d].warm = warm]
  /\ Silent
  /\ UNCHANGED <<session, late, shadowed, namings, environmentUnchanged>>

(* The connection ends, and reportDisconnect finds its session the driver. *)
Leaves(d) ==
  /\ Served(d)
  /\ session' = [session EXCEPT ![d] = "leaving"]
  /\ Silent
  /\ UNCHANGED <<lamp, late, shadowed, namings, environmentUnchanged>>

(* reportDisconnect publishes, whether or not the session has been         *)
(* replaced since the owner check.                                         *)
PublishesGone(d) ==
  /\ \/ session[d] = "leaving" /\ session' = [session EXCEPT ![d] = "ending"] /\ UNCHANGED late
     \/ late[d] > 0 /\ late' = [late EXCEPT ![d] = @ - 1] /\ UNCHANGED session
  /\ Offer("Disconnected", d)
  /\ UNCHANGED <<lamp, shadowed, namings, environmentUnchanged>>

(* A session ends without that event: a packet could not be handled, or it *)
(* has been replaced.                                                      *)
Aborts(d) ==
  /\ \/ Served(d) /\ session' = [session EXCEPT ![d] = "ending"] /\ UNCHANGED shadowed
     \/ shadowed[d] > 0 /\ shadowed' = [shadowed EXCEPT ![d] = @ - 1] /\ UNCHANGED session
  /\ Silent
  /\ UNCHANGED <<lamp, late, namings, environmentUnchanged>>

(* The deferred Registry.Disconnect of a session that is still the driver. *)
Unregisters(d) ==
  /\ session[d] = "ending"
  /\ session' = [session EXCEPT ![d] = "none"]
  /\ lamp' = [lamp EXCEPT ![d].status = IF @ = "Connected" THEN "Disconnected" ELSE @]
  /\ Silent
  /\ UNCHANGED <<late, shadowed, namings, environmentUnchanged>>

(* Service.Rename, from the terminal.                                      *)
Renames(d, n) ==
  /\ lamp[d].status # "Absent"
  /\ \A e \in Device \ {d} : lamp[e].name # n
  /\ lamp' = [lamp EXCEPT ![d].name = n,
                          ![d].status = IF @ = "Discovered" THEN "Connected" ELSE @]
  /\ namings < scope.namings
  /\ namings' = namings + 1
  /\ Offer("Renamed", d)
  /\ UNCHANGED <<session, late, shadowed, environmentUnchanged>>

(* SIGTERM.                                                                *)
Stop ==
  /\ ~stopping
  /\ scope.stops
  /\ stopping' = TRUE
  /\ UNCHANGED <<sess, connects, wire, handlers, brokerVars, lampVars, queue, bridgeVars>>

-----------------------------------------------------------------------------
(* The bridge.                                                             *)

(* SupportsColorTempEntity: a lamp that is not known to have warmth claims *)
(* none.                                                                   *)
ClaimsWarmth(l) == l.warm

Discovery(l) == [name |-> l.name, warm |-> ClaimsWarmth(l)]
StatePayload(l) == [state |-> l.state, warm |-> ClaimsWarmth(l)]
Availability(l) == IF l.status = "Connected" THEN "online" ELSE "offline"

PublishState(d, l) == PublishOp(StateTopic(d), StatePayload(l))
PublishAvailability(d, v) == PublishOp(AvailabilityTopic(d), v)

(* OnConnect up to its Snapshot, without the server's own device, which    *)
(* never changes.                                                          *)
OnConnect == <<PublishOp(Status, "online"), SubscribeOp, SnapshotOp>>

(* The publications that handle makes for an event, from the lamp it got.  *)
Publications(kind, d, l) ==
  CASE kind = "Discovered" -> <<>>
    [] kind = "Connected" -> <<AnnounceOp(d, l)>>
    [] kind = "Renamed" ->
         <<AnnounceOp(d, l)>> \o
         (IF d \in reported \/ l.status = "Connected"
          THEN <<PublishState(d, l), PublishAvailability(d, Availability(l))>>
          ELSE <<>>)
    [] kind = "Disconnected" -> <<PublishAvailability(d, "offline")>>
    [] kind = "StateChanged" ->
         <<AnnounceOp(d, l), PublishState(d, l)>> \o
         (IF d \notin reported THEN <<PublishAvailability(d, "online")>> ELSE <<>>)

(* handle's update of b.reported without the deletion.  A mutant.          *)
ReportedForEver(kind, d) ==
  IF kind = "StateChanged" THEN reported \cup {d} ELSE reported

(* handle's update of b.reported.                                          *)
ReportedAfter(kind, d) ==
  CASE kind = "StateChanged" -> reported \cup {d}
    [] kind = "Disconnected" -> reported \ {d}
    [] OTHER -> reported

(* The names under which a goroutine is about to announce a lamp.          *)
Holds(a, d) ==
  {todo[a][i].lamp.name : i \in {j \in DOMAIN todo[a] :
                                   todo[a][j].op = "announce" /\ todo[a][j].dev = d}}
  \cup {todo[a][i].name : i \in {j \in DOMAIN todo[a] :
                                   todo[a][j].op = "record" /\ todo[a][j].dev = d}}

(* Goroutine a takes up lamp d while another holds a different name of it. *)
Overtakes(a, d) ==
  \E b \in Actor \ {a} : \E n \in Holds(b, d) : n # lamp[d].name

Does(a, op) == todo[a] # <<>> /\ Head(todo[a]).op = op
Advance(a) == todo' = [todo EXCEPT ![a] = Tail(@)]

(* announce that looks only whether the lamp was announced.  A mutant.     *)
AnnounceOnce(a) ==
  LET d == Head(todo[a]).dev
      l == Head(todo[a]).lamp
  IN  /\ Does(a, "announce")
      /\ todo' = [todo EXCEPT ![a] =
                    IF ~Adopted(l) \/ announced[d] # Nil THEN Tail(@)
                    ELSE <<PublishOp(ConfigTopic(d), Discovery(l)), RecordOp(d, l.name)>>
                           \o Tail(@)]
      /\ UNCHANGED <<clientVars, lampVars, queue, phase, reported, announced, overtaken>>

(* announce, first critical section: nothing for a lamp that is not        *)
(* adopted or was last announced under this name.                          *)
Announce(a) ==
  LET d == Head(todo[a]).dev
      l == Head(todo[a]).lamp
  IN  /\ Does(a, "announce")
      /\ todo' = [todo EXCEPT ![a] =
                    IF ~Adopted(l) \/ announced[d] = l.name THEN Tail(@)
                    ELSE <<PublishOp(ConfigTopic(d), Discovery(l)), RecordOp(d, l.name)>>
                           \o Tail(@)]
      /\ UNCHANGED <<clientVars, lampVars, queue, phase, reported, announced, overtaken>>

(* announce, last critical section, after a write without an error.        *)
Record(a) ==
  /\ Does(a, "record")
  /\ announced' = [announced EXCEPT ![Head(todo[a]).dev] = Head(todo[a]).name]
  /\ Advance(a)
  /\ UNCHANGED <<clientVars, lampVars, queue, phase, reported, overtaken>>

(* Publish without an error; the message may have been swallowed.          *)
Publish(a) ==
  /\ Does(a, "publish")
  /\ \/ Deliver(Head(todo[a]).topic, Head(todo[a]).value)
     \/ Swallowed /\ Miss(Head(todo[a]).topic)
  /\ Advance(a)
  /\ UNCHANGED <<lampVars, queue, phase, reported, announced, overtaken>>

(* Publish with an error that is logged; announce does not record.         *)
PublishFails(a) ==
  LET rest == Tail(todo[a])
  IN  /\ Does(a, "publish")
      /\ WriteFails
      /\ Miss(Head(todo[a]).topic)
      /\ todo' = [todo EXCEPT ![a] =
                    IF rest # <<>> /\ Head(rest).op = "record" THEN Tail(rest) ELSE rest]
      /\ UNCHANGED <<lampVars, queue, phase, reported, announced, overtaken>>

(* Client.Subscribe.                                                       *)
Subscribe(a) ==
  /\ Does(a, "subscribe")
  /\ SubscribeCommands
  /\ Advance(a)
  /\ UNCHANGED <<lampVars, queue, phase, reported, announced, overtaken>>

(* OnConnect's Snapshot, and the lamps it will announce.                   *)
Snapshot(a) ==
  LET known == {d \in Device : lamp[d].status # "Absent"}
      order == SetToSeq(known)
  IN  /\ Does(a, "snapshot")
      /\ todo' = [todo EXCEPT ![a] =
                    [i \in DOMAIN order |-> AnnounceOp(order[i], lamp[order[i]])]]
      /\ overtaken' = (overtaken \/ \E d \in known : Overtakes(a, d))
      /\ UNCHANGED <<clientVars, lampVars, queue, phase, reported, announced>>

(* The client connects.  Once it has nothing to subscribe (any more) it    *)
(* starts OnConnect and reads.                                             *)
StartSession(h) ==
  /\ todo[h] = <<>>
  /\ \/ connects < scope.connects /\ Connect
     \/ Resubscribe
  /\ todo' = IF sess' = "reading" THEN [todo EXCEPT ![h] = OnConnect] ELSE todo
  /\ UNCHANGED <<lampVars, queue, phase, reported, announced, overtaken>>

(* Run receives an event; handle gets the lamp and updates b.reported.     *)
Handle ==
  LET e == Head(queue)
      d == e.dev
  IN  /\ phase = "following"
      /\ todo["loop"] = <<>>
      /\ queue # <<>>
      /\ queue' = Tail(queue)
      /\ todo' = [todo EXCEPT !["loop"] = Publications(e.kind, d, lamp[d])]
      /\ reported' = ReportedAfter(e.kind, d)
      /\ overtaken' = (overtaken \/ Overtakes("loop", d))
      /\ UNCHANGED <<clientVars, lampVars, phase, announced>>

(* Run sees the end of ctx and publishes its last message.                 *)
RunStops ==
  /\ phase = "following"
  /\ todo["loop"] = <<>>
  /\ stopping
  /\ phase' = "ended"
  /\ todo' = [todo EXCEPT !["loop"] = <<PublishOp(Status, "offline")>>]
  /\ UNCHANGED <<clientVars, lampVars, queue, reported, announced, overtaken>>

-----------------------------------------------------------------------------
Work(a) ==
  \/ Announce(a)
  \/ Record(a)
  \/ Publish(a)
  \/ PublishFails(a)
  \/ Subscribe(a)
  \/ Snapshot(a)

(* Nothing is asked of the lamps' topics once the server is stopping.      *)
LampStep(d) ==
  /\ ~stopping
  /\ \/ Connects(d)
     \/ \E v \in State, warm \in BOOLEAN : Reports(d, v, warm) \/ ReportsReplaced(d, v, warm)
     \/ \E warm \in BOOLEAN : Classifies(d, warm)
     \/ Leaves(d)
     \/ PublishesGone(d)
     \/ Aborts(d)
     \/ Unregisters(d)
     \/ \E n \in Name : Renames(d, n)

Next ==
  \/ ClientStep /\ UNCHANGED <<lampVars, queue, bridgeVars>>
  \/ \E h \in Hook : StartSession(h)
  \/ \E a \in Actor : Work(a)
  \/ Handle
  \/ RunStops
  \/ \E d \in Device : LampStep(d)
  \/ Stop

Spec == Init /\ [][Next]_vars

-----------------------------------------------------------------------------
(* Nothing is under way: every event is handled and every goroutine done.  *)
Quiet == phase = "following" /\ queue = <<>> /\ \A a \in Actor : todo[a] = <<>>

(* When nothing is under way and the client is connected, every adopted    *)
(* lamp is announced under its current name, unless the latest message of  *)
(* its topic was lost or OnConnect and Run worked on two names at once.    *)
ConfigFollows ==
  Quiet /\ sess = "reading" /\ ~overtaken =>
    \A d \in Device :
      /\ lamp[d].status \notin {"Absent", "Discovered"}
      /\ ConfigTopic(d) \notin lost
      => retained[ConfigTopic(d)] # Nil /\ retained[ConfigTopic(d)].name = lamp[d].name

(* When nothing is under way, the retained state of a lamp that has        *)
(* reported is its reported state, unless the latest message was lost.     *)
StateFollows ==
  Quiet =>
    \A d \in reported :
      StateTopic(d) \notin lost =>
        retained[StateTopic(d)] # Nil /\ retained[StateTopic(d)].state = lamp[d].state

(* When nothing is under way, a lamp is available if and only if the last  *)
(* word of its sessions was a report, and not that the bulb is gone: but   *)
(* where the latest message was lost or lamps were renamed.  (That word    *)
(* may be one of a replaced session: see PublishesGone.)                   *)
AvailabilityFollows ==
  Quiet /\ namings = 0 =>
    \A d \in Device :
      AvailabilityTopic(d) \notin lost =>
        (retained[AvailabilityTopic(d)] = "online" <=> said[d] = "StateChanged")

(* What Home Assistant is shown of a lamp follows what the lamp says.      *)
LampFollows == StateFollows /\ AvailabilityFollows

(* While the server is not stopping, the broker shows it as online only    *)
(* if it holds the will that will say otherwise.                           *)
OnlineIsBacked == retained[Status] = "online" /\ ~stopping => will

(* When nothing is under way and the client reads, the broker delivers     *)
(* commands, in whatever order Run and the connection came up.             *)
ListensForCommands ==
  /\ Quiet
  /\ sess = "reading"
  /\ wire = "up"
  => subscribed

(* After a (re)connection the retained messages of an adopted lamp that    *)
(* has reported say what the lamp is: Publish drops a message without a    *)
(* connection because they are "republished on reconnect anyway".          *)
RepublishedOnReconnect ==
  Quiet /\ sess = "reading" /\ wire = "up" /\ ~stopping =>
    \A d \in reported :
      Adopted(lamp[d]) =>
        /\ retained[StateTopic(d)] # Nil /\ retained[StateTopic(d)].state = lamp[d].state
        /\ said[d] = "StateChanged" => retained[AvailabilityTopic(d)] = "online"

(* A state message has warmth fields only for a lamp whose discovery       *)
(* message advertises warmth (state.go).                                   *)
WarmthIsAdvertised ==
  \A d \in Device :
    /\ retained[StateTopic(d)] # Nil
    /\ retained[ConfigTopic(d)] # Nil
    /\ retained[StateTopic(d)].warm
    => retained[ConfigTopic(d)].warm

=============================================================================
