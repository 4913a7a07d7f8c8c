----------------------------- MODULE BulbServer -----------------------------
(***************************************************************************)
(* internal/server: the goroutines that serve bulbs, over the registry.    *)
(*                                                                         *)
(* A session is one accepted connection and the goroutine that serves it.  *)
(* It takes a step per access to shared state: each registry call, each    *)
(* published event, each blocking read.  Sessions of one device overlap    *)
(* whenever a bulb reconnects before the server has noticed that its old   *)
(* socket is dead, so every step below may interleave with the steps of an *)
(* older or a newer session of the same device.                            *)
(*                                                                         *)
(* Of the event bus this module keeps, per device, the last event that     *)
(* says whether the bulb is there; EventBus.tla models the bus itself.     *)
(* Commands (session.Apply and the pending tables) and the rate limits on  *)
(* reports do not touch the state below and are left to other modules.     *)
(***************************************************************************)
EXTENDS Registry

CONSTANTS
  Headless,      \* -headless: no operator, and only configured lamps served
  Configured,    \* -lamps: a function from device ids to names
  OperatorName   \* the names an operator types

ASSUME BulbServerAssumption ==
  /\ Headless \in BOOLEAN
  /\ DOMAIN Configured \subseteq DeviceId
  /\ \A d \in DOMAIN Configured : Configured[d] \in Name
  /\ OperatorName \subseteq Name

VARIABLES
  undeclared,  \* configured lamps main has not declared yet
  listener,    \* "starting", "open", "closed"
  stopping,    \* ctx is cancelled
  pc,          \* where the goroutine of a session is
  dev,         \* session.identity, Nil before CONNECT
  closed,      \* session.closed: Close has run
  closers,     \* sessions for which a goroutine is on its way to Close
  isNew,       \* what Upsert answered in register
  post,        \* the property post being handled
  version,     \* the OTA version being handled
  view,        \* registry.View taken at the start of handlePropertyPost
  reported,    \* session.reported
  presence,    \* per device, the last presence event on the bus
  overtaken    \* history: the sessions, and "state" or "caps", of whose View
               \* another session has written that part since

sessionVars == <<pc, dev, closed, closers, isNew, post, version, view, reported>>
vars == <<bulbs, undeclared, listener, stopping, sessionVars, presence, overtaken>>

PC == {"free", "sniff", "handshake", "upsert", "setDriver", "announce", "arm",
       "read", "refine", "setState", "publish", "otaCaps", "report", "gone",
       "unregister", "ended"}

(* serve has started and not returned: its AfterFunc reacts to shutdown.   *)
Serving == PC \ {"free", "sniff", "ended"}

(* register has called SetDriver, and the deferred Disconnect is to come.  *)
Registered == Serving \ {"handshake", "upsert", "setDriver"}

(* A PropertyPost: a nil field leaves the state alone.                     *)
Post == [Field -> Value \cup {Nil}]
NoPost == [f \in Field |-> Nil]

View == [state : LightState, caps : Capabilities]
NoView == [state |-> [f \in Field |-> 0], caps |-> {}]

Presence == {"none", "Discovered", "Connected", "StateChanged", "Disconnected"}

TypeOK ==
  /\ bulbs \in [DeviceId -> Bulb]
  /\ undeclared \in SUBSET DOMAIN Configured
  /\ listener \in {"starting", "open", "closed"}
  /\ stopping \in BOOLEAN
  /\ pc \in [Session -> PC]
  /\ dev \in [Session -> DeviceId \cup {Nil}]
  /\ closed \in [Session -> BOOLEAN]
  /\ closers \in SUBSET Session
  /\ isNew \in [Session -> BOOLEAN]
  /\ post \in [Session -> Post]
  /\ version \in [Session -> Firmware \cup {Nil}]
  /\ view \in [Session -> View]
  /\ reported \in [Session -> BOOLEAN]
  /\ presence \in [DeviceId -> Presence]
  /\ overtaken \in SUBSET (Session \X {"state", "caps"})

(* Store.Load has run: every stored bulb is disconnected, and no two share *)
(* a name.                                                                 *)
Init ==
  /\ bulbs \in [DeviceId -> LoadedBulb \cup {NoBulb(d) : d \in DeviceId}]
  /\ \A d \in DeviceId : Known(d) \/ bulbs[d] = NoBulb(d)
  /\ NamesUnique
  /\ \A d \in DeviceId : bulbs[d].name \in OperatorName \cup {d}
  /\ undeclared = DOMAIN Configured
  /\ listener = "starting"
  /\ stopping = FALSE
  /\ pc = [s \in Session |-> "free"]
  /\ dev = [s \in Session |-> Nil]
  /\ closed = [s \in Session |-> FALSE]
  /\ closers = {}
  /\ isNew = [s \in Session |-> FALSE]
  /\ post = [s \in Session |-> NoPost]
  /\ version = [s \in Session |-> Nil]
  /\ view = [s \in Session |-> NoView]
  /\ reported = [s \in Session |-> FALSE]
  /\ presence = [d \in DeviceId |-> "none"]
  /\ overtaken = {}

Goto(s, label) == pc' = [pc EXCEPT ![s] = label]

Publish(s, kind) == presence' = [presence EXCEPT ![dev[s]] = kind]

-----------------------------------------------------------------------------
(* cmd/haigosmartd/main.go: declareLamps, then the listener opens; a lamp  *)
(* that cannot be declared stops the start.                                *)
DeclareLamp(d) ==
  /\ listener = "starting"
  /\ d \in undeclared
  /\ Declare(d, Configured[d])
  /\ undeclared' = undeclared \ {d}
  /\ UNCHANGED <<listener, stopping, sessionVars, presence, overtaken>>

DeclareFails(d) ==
  /\ listener = "starting"
  /\ d \in undeclared
  /\ NameInUse(d, Configured[d])
  /\ listener' = "closed"
  /\ stopping' = TRUE
  /\ UNCHANGED <<bulbs, undeclared, sessionVars, presence, overtaken>>

Listen ==
  /\ listener = "starting"
  /\ undeclared = {}
  /\ listener' = "open"
  /\ UNCHANGED <<bulbs, undeclared, stopping, sessionVars, presence, overtaken>>

(* The port is taken: ListenAndServe returns at once.                      *)
ListenFails ==
  /\ listener = "starting"
  /\ undeclared = {}
  /\ listener' = "closed"
  /\ UNCHANGED <<bulbs, undeclared, stopping, sessionVars, presence, overtaken>>

(* Serve has returned: the listener is closed and wg.Wait is satisfied.    *)
ServeReturned ==
  listener = "closed" /\ \A s \in Session : pc[s] \in {"free", "ended"}

(* run() returns once Serve has; the terminal, which does not look whether *)
(* it has, goes on until the operator quits.                               *)
RunReturned == ServeReturned /\ (Headless \/ stopping)

(* A signal, or the operator quitting, cancels ctx.                        *)
Cancel ==
  /\ listener # "starting"
  /\ ~stopping
  /\ ~RunReturned
  /\ stopping' = TRUE
  /\ UNCHANGED <<bulbs, undeclared, listener, sessionVars, presence, overtaken>>

(* Serve's AfterFunc.                                                      *)
CloseListener ==
  /\ stopping
  /\ listener = "open"
  /\ listener' = "closed"
  /\ UNCHANGED <<bulbs, undeclared, stopping, sessionVars, presence, overtaken>>

(* ln.Accept fails, with ctx alive: Serve then waits for the sessions it   *)
(* has, and nothing tells them to end.                                     *)
AcceptFails ==
  /\ ~stopping
  /\ listener = "open"
  /\ listener' = "closed"
  /\ UNCHANGED <<bulbs, undeclared, stopping, sessionVars, presence, overtaken>>

(* lights.Service.Rename, typed by the operator of the interactive mode.   *)
(* The Renamed event it publishes says nothing about presence.             *)
OperatorRenames(d, n) ==
  /\ ~Headless
  /\ listener # "starting"
  /\ ~RunReturned
  /\ Rename(d, n)
  /\ UNCHANGED <<undeclared, listener, stopping, sessionVars, presence, overtaken>>

-----------------------------------------------------------------------------
(* server.go, Serve: a connection is accepted and sniffed.  A peer that    *)
(* says nothing, or fails its TLS handshake, is dropped here.              *)
Accept(s) ==
  /\ listener = "open"
  /\ pc[s] = "free"
  /\ Goto(s, "sniff")
  /\ UNCHANGED <<bulbs, undeclared, listener, stopping, presence, overtaken>>
  /\ UNCHANGED <<dev, closed, closers, isNew, post, version, view, reported>>

(* sniff without its read deadline: a silent peer is waited for.  A mutant. *)
SniffForEver(s) == pc[s] = "sniff" /\ UNCHANGED vars

Sniff(s) ==
  /\ pc[s] = "sniff"
  /\ \E label \in {"handshake", "ended"} : Goto(s, label)
  /\ UNCHANGED <<bulbs, undeclared, listener, stopping, presence, overtaken>>
  /\ UNCHANGED <<dev, closed, closers, isNew, post, version, view, reported>>

(* Admission left out: every bulb is served.  A mutant.                    *)
AdmitEverything(d) == TRUE

(* Server.Admit, as main sets it.                                          *)
Admit(d) == ~Headless \/ d \in DOMAIN Configured

(* session.handshake.  CONNACK cannot be sent on a closed connection.      *)
Connect(s, d) ==
  /\ pc[s] = "handshake"
  /\ Admit(d)
  /\ ~closed[s]
  /\ dev' = [dev EXCEPT ![s] = d]
  /\ Goto(s, "upsert")
  /\ UNCHANGED <<bulbs, undeclared, listener, stopping, presence, overtaken>>
  /\ UNCHANGED <<closed, closers, isNew, post, version, view, reported>>

(* A refused bulb is told so, reported, and nothing else happens.          *)
Refuse(s, d) ==
  /\ pc[s] = "handshake"
  /\ ~Admit(d)
  /\ dev' = [dev EXCEPT ![s] = d]
  /\ Goto(s, "ended")
  /\ UNCHANGED <<bulbs, undeclared, listener, stopping, presence, overtaken>>
  /\ UNCHANGED <<closed, closers, isNew, post, version, view, reported>>

HandshakeFails(s) ==
  /\ pc[s] = "handshake"
  /\ Goto(s, "ended")
  /\ UNCHANGED <<bulbs, undeclared, listener, stopping, presence, overtaken>>
  /\ UNCHANGED <<dev, closed, closers, isNew, post, version, view, reported>>

-----------------------------------------------------------------------------
(* session.register, in three steps: Upsert, SetDriver, the announcement.  *)
RegisterUpsert(s) ==
  /\ pc[s] = "upsert"
  /\ Upsert(dev[s], {})
  /\ isNew' = [isNew EXCEPT ![s] = ~Known(dev[s])]
  /\ Goto(s, "setDriver")
  /\ UNCHANGED <<undeclared, listener, stopping, presence, overtaken>>
  /\ UNCHANGED <<dev, closed, closers, post, version, view, reported>>

(* The previous driver is left open.  A mutant.                            *)
DisplacedForgotten(s) == {}

(* The previous driver, unless there is none, is closed by a goroutine.    *)
Displaced(s) == {Driver(dev[s])} \ {Nil, s}

RegisterSetDriver(s) ==
  /\ pc[s] = "setDriver"
  /\ SetDriver(dev[s], s)
  /\ closers' = closers \cup Displaced(s)
  /\ Goto(s, "announce")
  /\ UNCHANGED <<undeclared, listener, stopping, presence, overtaken>>
  /\ UNCHANGED <<dev, closed, isNew, post, version, view, reported>>

RegisterAnnounce(s) ==
  /\ pc[s] = "announce"
  /\ Publish(s, IF isNew[s] THEN "Discovered" ELSE "Connected")
  /\ isNew' = [isNew EXCEPT ![s] = FALSE]
  /\ Goto(s, "arm")
  /\ UNCHANGED <<bulbs, undeclared, listener, stopping, overtaken>>
  /\ UNCHANGED <<dev, closed, closers, post, version, view, reported>>

-----------------------------------------------------------------------------
(* The loop of session.serve.  Arming the read deadline fails on a closed  *)
(* connection, and then the loop ends without a word.                      *)
Arm(s) ==
  /\ pc[s] = "arm"
  /\ Goto(s, IF closed[s] THEN "unregister" ELSE "read")
  /\ UNCHANGED <<bulbs, undeclared, listener, stopping, presence, overtaken>>
  /\ UNCHANGED <<dev, closed, closers, isNew, post, version, view, reported>>

(* The peer closed, the keep-alive ran out, or Close pulled the socket     *)
(* from under the read.                                                    *)
ReadFails(s) ==
  /\ pc[s] = "read"
  /\ Goto(s, "report")
  /\ UNCHANGED <<bulbs, undeclared, listener, stopping, presence, overtaken>>
  /\ UNCHANGED <<dev, closed, closers, isNew, post, version, view, reported>>

(* session.handle on a packet that leaves the registry alone but for       *)
(* LastSeen: ping, subscribe, ack, NTP, anything unknown.                  *)
HandleOther(s) ==
  /\ pc[s] = "read"
  /\ Goto(s, "arm")
  /\ UNCHANGED <<bulbs, undeclared, listener, stopping, presence, overtaken>>
  /\ UNCHANGED <<dev, closed, closers, isNew, post, version, view, reported>>

(* session.handle returns an error: a malformed packet, DISCONNECT, or an  *)
(* answer that could not be written.  The ProtocolError event that serve   *)
(* publishes then says nothing about presence.                             *)
HandleFails(s) ==
  /\ pc[s] = "read"
  /\ Goto(s, "unregister")
  /\ UNCHANGED <<bulbs, undeclared, listener, stopping, presence, overtaken>>
  /\ UNCHANGED <<dev, closed, closers, isNew, post, version, view, reported>>

(* session.handlePublish on an OTA inform that carries a version.          *)
HandleOTA(s, v) ==
  /\ pc[s] = "read"
  /\ SetFirmware(dev[s], v)
  /\ version' = [version EXCEPT ![s] = v]
  /\ Goto(s, "otaCaps")
  /\ UNCHANGED <<undeclared, listener, stopping, presence, overtaken>>
  /\ UNCHANGED <<dev, closed, closers, isNew, post, view, reported>>

(* s writes a part of the entry of its bulb: Views taken earlier by other  *)
(* sessions, and not yet written back, are out of date.                    *)
Overtakes(s, part, waiting) ==
  overtaken' = (overtaken \ {<<s, part>>}) \cup
    ({u \in Session \ {s} : dev[u] = dev[s] /\ pc[u] \in waiting} \X {part})

OTACapabilities(s) ==
  /\ pc[s] = "otaCaps"
  /\ SetCapabilities(dev[s], CapsOf[version[s]])
  /\ Overtakes(s, "caps", {"refine"})
  /\ version' = [version EXCEPT ![s] = Nil]
  /\ Goto(s, "arm")
  /\ UNCHANGED <<undeclared, listener, stopping, presence>>
  /\ UNCHANGED <<dev, closed, closers, isNew, post, view, reported>>

(* handlePropertyPost on the state a session starts with, in the place of  *)
(* the View.  A mutant.                                                    *)
HandlePostNoView(s, p) ==
  /\ pc[s] = "read"
  /\ post' = [post EXCEPT ![s] = p]
  /\ Goto(s, "refine")
  /\ UNCHANGED <<bulbs, undeclared, listener, stopping, presence, overtaken>>
  /\ UNCHANGED <<dev, closed, closers, isNew, version, view, reported>>

(* session.handlePropertyPost: View, SetCapabilities, SetState, the event, *)
(* the reply.                                                              *)
HandlePost(s, p) ==
  /\ pc[s] = "read"
  /\ post' = [post EXCEPT ![s] = p]
  /\ view' = [view EXCEPT ![s] = [state |-> bulbs[dev[s]].state,
                                  caps  |-> bulbs[dev[s]].caps]]
  /\ Goto(s, "refine")
  /\ UNCHANGED <<bulbs, undeclared, listener, stopping, presence, overtaken>>
  /\ UNCHANGED <<dev, closed, closers, isNew, version, reported>>

(* RefineFromReport that takes every bulb with a colour temperature for a  *)
(* CCT bulb.  A mutant.                                                    *)
RefineToCCT(caps, p) ==
  IF "ColorTemp" \in Field /\ p["ColorTemp"] # Nil THEN {"temp"} \cap Channel ELSE caps

(* protocol.RefineFromReport: reporting a colour temperature proves it.    *)
RefineFromReport(caps, p) ==
  IF "ColorTemp" \in Field /\ p["ColorTemp"] # Nil
  THEN caps \cup ({"temp"} \cap Channel) ELSE caps

PostRefine(s) ==
  /\ pc[s] = "refine"
  /\ SetCapabilities(dev[s], RefineFromReport(view[s].caps, post[s]))
  /\ Overtakes(s, "caps", {"refine"})
  /\ Goto(s, "setState")
  /\ UNCHANGED <<undeclared, listener, stopping, presence>>
  /\ UNCHANGED <<dev, closed, closers, isNew, post, version, view, reported>>

(* PropertyPost.Apply without its nil checks.  A mutant.                   *)
PostApplyBlind(p, prev) == [f \in Field |-> p[f]]

(* protocol.PropertyPost.Apply.                                            *)
PostApply(p, prev) == [f \in Field |-> IF p[f] = Nil THEN prev[f] ELSE p[f]]

(* The reply to a post is the end of its handling; it may not get through. *)
Reply(s) ==
  /\ post' = [post EXCEPT ![s] = NoPost]
  /\ view' = [view EXCEPT ![s] = NoView]
  /\ \E label \in {"arm", "unregister"} : Goto(s, label)

(* A report that changes nothing is not published, except for the first    *)
(* one of a connection.                                                    *)
PostSetState(s) ==
  LET next == PostApply(post[s], view[s].state)
  IN  /\ pc[s] = "setState"
      /\ SetState(dev[s], next)
      /\ reported' = [reported EXCEPT ![s] = TRUE]
      /\ IF bulbs[dev[s]].state # next \/ ~reported[s]
         THEN Goto(s, "publish") /\ UNCHANGED <<post, view>>
         ELSE Reply(s)
      /\ Overtakes(s, "state", {"refine", "setState"})
      /\ UNCHANGED <<undeclared, listener, stopping, presence>>
      /\ UNCHANGED <<dev, closed, closers, isNew, version>>

PostPublish(s) ==
  /\ pc[s] = "publish"
  /\ Publish(s, "StateChanged")
  /\ Reply(s)
  /\ UNCHANGED <<bulbs, undeclared, listener, stopping, overtaken>>
  /\ UNCHANGED <<dev, closed, closers, isNew, version, reported>>

-----------------------------------------------------------------------------
(* The owner check the wrong way round.  A mutant.                         *)
ReportDisconnectInverted(s) ==
  /\ pc[s] = "report"
  /\ Goto(s, IF Driver(dev[s]) = s THEN "unregister" ELSE "gone")
  /\ UNCHANGED <<bulbs, undeclared, listener, stopping, presence, overtaken>>
  /\ UNCHANGED <<dev, closed, closers, isNew, post, version, view, reported>>

(* session.reportDisconnect: the owner check, then the event.              *)
ReportDisconnect(s) ==
  /\ pc[s] = "report"
  /\ Goto(s, IF Driver(dev[s]) = s THEN "gone" ELSE "unregister")
  /\ UNCHANGED <<bulbs, undeclared, listener, stopping, presence, overtaken>>
  /\ UNCHANGED <<dev, closed, closers, isNew, post, version, view, reported>>

PublishDisconnected(s) ==
  /\ pc[s] = "gone"
  /\ Publish(s, "Disconnected")
  /\ Goto(s, "unregister")
  /\ UNCHANGED <<bulbs, undeclared, listener, stopping, overtaken>>
  /\ UNCHANGED <<dev, closed, closers, isNew, post, version, view, reported>>

(* The deferred calls of serve, and wg.Done; the session is garbage.       *)
Unregister(s) ==
  /\ pc[s] = "unregister"
  /\ Disconnect(dev[s], s)
  /\ reported' = [reported EXCEPT ![s] = FALSE]
  /\ Goto(s, "ended")
  /\ UNCHANGED <<undeclared, listener, stopping, presence, overtaken>>
  /\ UNCHANGED <<dev, closed, closers, isNew, post, version, view>>

(* session.Close, called by the goroutine register started for a displaced *)
(* session and by the AfterFunc of serve at shutdown.                      *)
CloseDisplaced(s) ==
  /\ s \in closers
  /\ closers' = closers \ {s}
  /\ closed' = [closed EXCEPT ![s] = TRUE]
  /\ UNCHANGED <<bulbs, undeclared, listener, stopping, presence, overtaken>>
  /\ UNCHANGED <<pc, dev, isNew, post, version, view, reported>>

(* The AfterFunc of serve left out.  A mutant.                             *)
CloseAtShutdownMissing(s) == FALSE /\ UNCHANGED vars

CloseAtShutdown(s) ==
  /\ stopping
  /\ pc[s] \in Serving
  /\ ~closed[s]
  /\ closed' = [closed EXCEPT ![s] = TRUE]
  /\ UNCHANGED <<bulbs, undeclared, listener, stopping, presence, overtaken>>
  /\ UNCHANGED <<pc, dev, closers, isNew, post, version, view, reported>>

-----------------------------------------------------------------------------
Handshake(s) ==
  HandshakeFails(s) \/ \E d \in DeviceId : Connect(s, d) \/ Refuse(s, d)

(* The steps a session's goroutine takes without waiting for its bulb.     *)
Work(s) ==
  \/ RegisterUpsert(s) \/ RegisterSetDriver(s) \/ RegisterAnnounce(s)
  \/ Arm(s) \/ OTACapabilities(s)
  \/ PostRefine(s) \/ PostSetState(s) \/ PostPublish(s)
  \/ ReportDisconnect(s) \/ PublishDisconnected(s) \/ Unregister(s)

(* What a bulb sends, or its silence.                                      *)
Hear(s) ==
  \/ ReadFails(s) \/ HandleOther(s) \/ HandleFails(s)
  \/ \E v \in Firmware : HandleOTA(s, v)
  \/ \E p \in Post : HandlePost(s, p)

(* The process has ended.                                                  *)
Terminated == RunReturned /\ UNCHANGED vars

Next ==
  \/ \E d \in DeviceId : DeclareLamp(d) \/ DeclareFails(d)
  \/ Listen \/ ListenFails \/ Cancel \/ CloseListener \/ AcceptFails
  \/ \E d \in DeviceId, n \in OperatorName : OperatorRenames(d, n)
  \/ \E s \in Session :
       \/ Accept(s) \/ Sniff(s) \/ Handshake(s) \/ Work(s) \/ Hear(s)
       \/ CloseDisplaced(s) \/ CloseAtShutdown(s)
  \/ Terminated

(* Sniffing and the handshake are bounded by 30 s read deadlines, writes   *)
(* by 10 s write deadlines, and a read on a closed connection returns; the *)
(* rest is the scheduling of runnable goroutines.  Nothing is assumed of   *)
(* the bulb: a read on an open connection may go on for ever.              *)
Fairness ==
  /\ WF_vars(CloseListener)
  /\ \A s \in Session :
       /\ WF_vars(Sniff(s))
       /\ WF_vars(Handshake(s))
       /\ WF_vars(Work(s))
       /\ WF_vars(closed[s] /\ ReadFails(s))
       /\ WF_vars(CloseDisplaced(s))
       /\ WF_vars(CloseAtShutdown(s))

Spec == Init /\ [][Next]_vars

FairSpec == Spec /\ Fairness

-----------------------------------------------------------------------------
(* The driver of a bulb is a connection of that bulb which is registered   *)
(* and has not been torn down: SetDriver and the deferred Disconnect keep  *)
(* r.bulbs free of dead sessions whatever the order in which the sessions  *)
(* of one device register and end.                                         *)
DriverIsLive ==
  \A d \in DeviceId :
    Driver(d) # Nil => /\ dev[Driver(d)] = d
                       /\ pc[Driver(d)] \in Registered

(* A registered session that is not the driver of its bulb has been, or is *)
(* about to be, closed: a takeover (session.register) leaves no connection *)
(* open that the registry has forgotten.                                   *)
SupersededIsClosing ==
  \A s \in Session :
    pc[s] \in Registered /\ Driver(dev[s]) # s => closed[s] \/ s \in closers

(* A bulb with a live connection is never listed as disconnected, so that  *)
(* lights.Service.Apply does not refuse it: Disconnect of an old session   *)
(* between Upsert and SetDriver of a new one must not win.                 *)
DriverMeansOnline ==
  \A d \in DeviceId : Driver(d) # Nil => bulbs[d].status \in {"Discovered", "Connected"}

(* A bulb listed as connected has a connection, or one is being installed. *)
ConnectedHasDriver ==
  \A d \in DeviceId :
    bulbs[d].status = "Connected" =>
      \/ Driver(d) # Nil
      \/ \E s \in Session : dev[s] = d /\ pc[s] = "setDriver"

(* A live driver is dropped by the teardown of that very session and by    *)
(* nothing else: a late teardown of a replaced connection (Disconnect)     *)
(* cannot knock out the live one.                                          *)
OnlyOwnTeardownDrops ==
  [][\A d \in DeviceId :
       LET s == Driver(d)
       IN  s # Nil /\ Driver(d)' = Nil => pc[s] = "unregister" /\ pc'[s] = "ended"
    ]_vars

(* A bulb the headless server is not configured for leaves nothing behind: *)
(* no step of any session changes its entry (handshake, Admit).            *)
RefusedLeaveNothing ==
  [][Headless => \A d \in DeviceId \ DOMAIN Configured : bulbs'[d] = bulbs[d]]_vars

(* What is known of a bulb is kept.  No step but a naming, by the operator *)
(* or by the configuration, replaces its name (Upsert).  A bulb that has   *)
(* been classified stays so (SetCapabilities), and it loses a channel only *)
(* to a firmware version that says otherwise, or to the report of a second *)
(* connection whose View is older than what was learnt since               *)
(* (handlePropertyPost, RefineFromReport).                                 *)
EntrySurvives ==
  [][\A d \in DeviceId :
       /\ Known(d) => Known(d)'
       /\ Known(d) /\ bulbs'[d].name # bulbs[d].name =>
            bulbs'[d].name \in OperatorName \cup {Configured[e] : e \in DOMAIN Configured}
       /\ bulbs[d].caps # {} => bulbs'[d].caps # {}
       /\ bulbs[d].caps \subseteq bulbs'[d].caps \/
            \E s \in Session : /\ dev[s] = d
                               /\ \/ pc[s] = "otaCaps" /\ bulbs'[d].caps = CapsOf[version[s]]
                                  \/ pc[s] = "refine" /\ <<s, "caps">> \in overtaken
    ]_vars

(* A bulb is not announced as gone while its driver is waiting for it to   *)
(* speak: reportDisconnect keeps quiet for a superseded session.           *)
NotAnnouncedGoneWhileOnline ==
  \A d \in DeviceId :
    Driver(d) # Nil /\ pc[Driver(d)] = "read" => presence[d] # "Disconnected"

(* Shutdown completes: once ctx is cancelled Serve's wg.Wait returns,      *)
(* whatever the bulbs do.                                                  *)
ShutdownCompletes == stopping ~> ServeReturned

(* Once the listener has failed or was closed, Serve returns or waits for  *)
(* a bulb whose connection is open and at rest, and for nothing else: not  *)
(* for a silent peer, a slow handshake or a displaced session.             *)
WaitsOnlyForBulbs ==
  listener = "closed" ~>
    ServeReturned \/ \E s \in Session : pc[s] = "read" /\ ~closed[s]

(* When the read of a bulb's own connection fails, followers of the stream *)
(* are told that the bulb is gone, unless a newer connection has taken it  *)
(* over meanwhile (reportDisconnect).  The other ways out of the loop of   *)
(* serve (HandleFails) say nothing.                                        *)
GoneIsAnnounced ==
  \A s \in Session, d \in DeviceId :
    pc[s] = "report" /\ dev[s] = d /\ Driver(d) = s ~>
      presence[d] = "Disconnected" \/ Driver(d) \notin {s, Nil}

=============================================================================
