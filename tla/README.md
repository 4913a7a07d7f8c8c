# A TLA+ model of haigosmart

haigosmart replaces the vendor cloud of Aigo smart bulbs: bulbs on the local
network connect to it as they would to the cloud, an operator names and switches
them in a terminal, and Home Assistant does so through an MQTT broker. This
directory holds TLA+ models of it, from the bytes of a CONNECT to the operator's
prompt, the TLC configurations that check them on small instances, and proofs checked by TLAPS. Line numbers are
those of the sources in `src/`.

## The system

| Component | State | Operations | Correct when |
|---|---|---|---|
| Registry (`internal/registry/registry.go`) | the map of known bulbs: name, status, reported and desired state, capabilities, firmware, driver | Upsert, Declare, Rename, Resolve, SetState, SetDesired, SetFirmware, SetCapabilities, SetDriver, Disconnect; each under one mutex | the driver is a live connection; names are unique; what is known of a bulb is not lost to reports or restarts |
| Registry file (`internal/registry/persist.go`) | pending flag, debounce timer, the file, a temporary file per save | schedule, Flush, save, Close, Load | the file is never torn; every change gets there |
| Sessions and listener (`internal/server`) | one goroutine per connection: identity, closed flag, tables of commands in flight; records of takeovers and refusals | accept, sniff, handshake, register, the read loop, teardown, Close, noteTakeover, noteRejection | a bulb that reconnects takes over cleanly; displaced sessions end; shutdown completes; reports are limited and tell everything |
| Lights service (`internal/lights`) | none of its own | Apply, Rename, Get | a change touches what it names and nothing else; Apply returns and tells the truth |
| Event bus (`internal/events/bus.go`) | a bounded queue per subscriber, a drop counter | Publish, Subscribe, Close | publishing never blocks; drops are counted; order is kept |
| Start and shutdown (`cmd/haigosmartd/main.go`) | the context, the order of the start and of the shutdown | declareLamps, run | headless mode serves only its lamps; nothing is lost at exit |
| Bulb protocol (`internal/protocol`) | none | MQTT packets, encoding and decoding, delta reports, capabilities | a bulb is known by what it presented, whatever is cut; a delta changes what it mentions |
| Home Assistant bridge (`internal/hass`), MQTT client (`internal/mqtt`) | what has been announced; the connection to the broker | consume events, publish, parse commands, convert units, reconnect | retained topics agree with the registry after every reconnection; conversions do not drift |
| Terminal (`internal/tui`), command language (`internal/control`) | feed and its window, history, commands in flight | Update, one goroutine per command, one that waits for events; Parse, Execute | every command is answered; events keep being shown; every lamp can be addressed |
| Configuration (`internal/config`), logging | none | parsing, formatting | sequential code, covered by unit tests |

The components meet in these places:

* every session writes to the shared registry, one method call at a time, and
  publishes to the shared bus; between two calls anything may happen;
* `register` replaces the driver of a bulb and closes the previous one in a
  goroutine of its own; the old session still has its deferred `Disconnect`
  to run;
* the registry calls `Store.schedule` under its lock; the timer's callback saves
  in a goroutine that takes the registry's lock again;
* front-ends call `Service.Apply` from their own goroutines; it hands the change to
  the driver it finds, and waits for a channel that the session's read loop fills;
* the bridge receives the events of the bus in one goroutine and asks the registry
  what the lamp is by then; each connection to the broker starts another goroutine,
  `OnConnect`, that announces the same lamps;
* every line typed in the terminal runs in a goroutine of its own, which resolves its
  target and then acts on what it found; its result, and every event, comes back to
  the one goroutine of `Update` as a message;
* `run` cancels one context, from which the listener, every session, the shutdown
  save, the bridge and its MQTT client take their cue.

What is hard about it is therefore interleaving (overlapping connections of one
bulb, overlapping saves, overlapping publishers, overlapping callers), values that
are stale when used, a timeout racing a late answer, the exit of the process
racing a save, a broker that comes and goes, and restarts. `PROJECT.json` lists these places, under "hazards",
with the property that watches each.

## The modules

| Module | Models | Extends |
|---|---|---|
| `Registry` | the methods of `Registry`, one operator each, that assign `bulbs'` | |
| `BulbServer` | the listener, sessions, declaration of lamps, the operator | `Registry` |
| `Ownership` | abstract: who owns a bulb, and what happens to connections that lose one | |
| `OwnershipMap` | the refinement mapping from `BulbServer` to `Ownership` | `BulbServer` |
| `Restart` | several lives of the process over one registry file | `BulbServer` |
| `Wire` | MQTT packets as sequences of bytes, both directions | |
| `Admission` | from the bytes of a handshake to the registry, with the limits on reports | `Registry`, `Wire` |
| `Lights` | `Service.resolve` and the choice of commands, without state | |
| `Commands` | `Service.Apply` and `session.Apply` with a lamp at the other end | `Lights` |
| `Units` | brightness and warmth between per cent, 0-255 and Kelvin | |
| `HomeAssistant` | the commands and the states of Home Assistant over `Commands` | `Commands`, `Units` |
| `Control` | the command language: what is accepted, and the change it makes | `Lights` |
| `Terminal` | `Model.Update`, the feed, the goroutines of commands, name resolution | `Registry`; instance of `Control` |
| `Store` | the debounced registry file and the shutdown | |
| `EventBus` | one subscription and its publishers | |
| `MqttClient` | the connection to the broker, and the broker as far as it matters | |
| `Bridge` | `Bridge.Run`, `OnConnect` and what they publish | `MqttClient` |
| `MCBulbServer`, `MCRestart`, `MCAdmission`, `MCCommands`, `MCTerminal`, `MCStore`, `MCEventBus`, `MCBridge` | instances for TLC | |
| `BulbServerProofs`, `RestartProofs`, `AdmissionProofs`, `CommandsProofs`, `TerminalProofs`, `StoreProofs`, `EventBusProofs`, `BridgeProofs` | theorems | the module they are about; `RestartProofs` also `OwnershipMap` and `BulbServerProofs`, `CommandsProofs` also `HomeAssistant` |

**Registry.** A method holds `r.mu` for its whole body and is one atomic step. `bulbs`
is a total function; a device without an entry has status `"Absent"` (the code never
deletes). Capabilities are the set of channels, empty when unknown. Times and
addresses are left out. The `dirty()` a method ends with only wakes the store and
is the action `Change` of `Store`.

**BulbServer.** A session moves through the labels `sniff`, `handshake`, `upsert`,
`setDriver`, `announce`, then round the read loop (`arm`, `read` and the steps of a
handler), and leaves through `report` and `gone` (`reportDisconnect`) or directly
to `unregister` (the deferred `Disconnect`). There is one label per access to
shared state, so `register` is three steps, `handlePropertyPost` is View,
SetCapabilities, SetState and the event, and `reportDisconnect` is the owner check
and the event. `closers` holds the sessions for which a goroutine is on its way to
`Close`. `presence` is the last event about a bulb that says whether it is there. `overtaken`
is history: the sessions, and the part of whose View (`"state"` or `"caps"`) another session has
written since. `ListenFails` is a port that is taken: the headless process returns, the terminal
goes on without a listener (`RunReturned`).
`AcceptFails` is a failing `Accept` with the context alive: `Serve` then waits for
its sessions and closes none.

**Ownership** says what the sessions and the registry promise together: a device has at
most one owner, the connection that acquired it last; a connection acquires once, and
releases nothing but its own; a connection that has lost its device leaves. `OwnershipMap`
reads the owner off the registry's driver, and takes a connection as "in" from its
SetDriver to its deferred Disconnect. Upsert, closing, reports, events, the operator,
the shutdown and a restart are stuttering steps.

**Restart** adds the step from a finished process to the next one through the file,
with the content that `save` writes and `Load` reads (no status, no driver, no
desired state) and Load's refusal of duplicate names.

**Wire and Admission.** `Wire` has the encoders and decoders of mqtt.go on sequences of
bytes: remaining lengths, strings, flags, CONNECT with and without will and user name,
SUBSCRIBE, SUBACK, PUBLISH, PUBACK. A session reads only its own stream, so in `Admission`
a handshake is one step, over the bytes a client sends cut after any of them, and so is
the conversation that follows. `ClientAssumption` says who the clients may be: a bulb has
any options that EncodeConnect can write (strings have 16-bit lengths) and asks any
requests (`Request`) that each fit into `MaxPacketSize`, a DISCONNECT last if at all; the
id it presents is stated over its options (`Presents`), not by the decoder; what is no
bulb begins with another packet type or with a remaining length that is too large.
The loops of the code are functions of the number of rounds: `DecodeSubscribe` over the
filters, `Conversation` over the packets, `Within` over the times that `noteTakeover`
kept. Between handshake and conversation, reading the time, Upsert, SetDriver and the
critical sections of `noteTakeover` and `noteRejection` are steps of their own, because the
time is read before the lock is taken. `taken` and `refused` are histories of what was noted,
`last` of the exchange that the latest step completed.

**Commands.** A caller resolves its change against the registry (`Call`), looks up the
driver, compares with the registry again (`View`), and sends one command per
property: enter it in the session's tables, write it, wait for an answer or the
timeout, clean up. Ids and seqs both come from the millisecond, so the two tables,
always changed together, are one. A write may also fail on a connection that still counts as open
(`WriteFails`: the deadline, or a reset). The handling of a report (View, SetState, the event,
completeBySeq) is one step here: within one connection nobody else writes the state, and a caller that sees the new
state before its own confirmation does what it would do after it. In `BulbServer` it is several steps. Only one connection of the lamp is modelled, and
it may be closed or torn down at any time, in both orders the code has (`session.Close`
then `Disconnect`; or `Disconnect` then the socket, with `closed` still false). The
lamp is external. `SetDesired` is display only and left out here (`Terminal` has it).
`stale` is history: callers under whose call the state has changed between resolve
and View. What `Apply` makes of a change is in `Lights`, of a JSON command in
`HomeAssistant` (with the conversions of `Units`), of a typed line in `Control`; the two front-ends
are the callers of `MCCommands`.

**Terminal.** `Update` handles one message at a time: keys, the size of the window, events,
results. A command entered is a job that resolves its target in one step and acts in a
second, so anything may happen to the lamp in between. `Apply` has an outcome here and its
inside in `Commands`; bulbs connect, report and leave in one step each, and their inside is
in `BulbServer`. Lines of the feed are counted; the text of the prompt is the next line
to be entered; a name is a value, and `StartsWith` says which are prefixes of which.

**Store.** The content of the registry is a version that each change increments. A
timer is one `AfterFunc` and its goroutine. Each critical section and each system
call of `save` is a step: create the temporary file, write it, sync it, rename it over the
target. A crash may come between any two; a call may fail, the write after some of its bytes.
Of a file the module keeps the version and how far it can be relied on (`partial`, `written`,
`synced`). The file system is external. A power cut may tear whatever has not been synced, and
it may undo a rename, because `save` does not sync the directory: `stored` is the file that the
path leads to on the disk itself, until the directory is written. `faulty`, chosen
once, says whether saves may outlast the debounce delay and fail, or are prompt and
succeed. `Endings` says what makes `run` return: a signal, or in headless mode the server
(main.go:176-177), after which only the deferred `Close` saves.

**EventBus.** The three selects of `offer` are three steps; publishers share the read
lock and overlap, `Subscribe` and `Close` take the write lock and do not.

**MqttClient and Bridge.** A write arrives, is swallowed by a connection whose death is
not yet known, or fails. The broker keeps retained messages, the will of the current
connection and its subscription. A dial or a handshake under way when the context ends may
still succeed; `Run` looks at the context between two tries (`RunReturns`, `AfterSession`).
`Run` and `OnConnect` each work off a list of
operations, one step per critical section or write, with the lamps as `Get` or
`Snapshot` showed them.

Registry and sessions are an environment here, and the sessions of a bulb overlap as in
`BulbServer`: `session` is the newest, `shadowed` counts the replaced ones that are still served
and may report, `late` those whose owner check has passed and whose `Disconnected` is still to
come (session.go:332-345), after the next session's `Connected` and reports if need be. A
registry change and the event that reports it are one step; the owner check and its event are two, and
so are the event and the deferred `Disconnect`. An OTA inform sets or takes back the warmth without
an event (`Classifies`); a replaced session's report with an old View may also take it back, and
comes to the same. `said` is history: the last of `StateChanged` and
`Disconnected` that the sessions of a lamp have offered. `lost` is another: the topics
whose latest message did not arrive. `overtaken` is a third: `Run` and `OnConnect`
have held different names of one lamp at the same time. Payloads are the
name, the state and the claim of warmth. Left out: events before `Run`
has subscribed to the bus and events that the bus drops (`EventBus` has those), the server's own device,
commands (they change nothing in the bridge; `Commands` has their effect).

## The runs

Passing:

* `MCRestart_takeover`: three connections of one bulb that overlap in every way, or two
  that also report state and firmware, with the operator naming it, shutdowns and
  restarts. The driver is a live connection (`DriverIsLive`), never listed as disconnected
  (`DriverMeansOnline`); a displaced session is closed (`SupersededIsClosing`); entries and
  names survive, restarts included, and a bulb loses a known channel only to a firmware version
  that says otherwise or to a report during which another connection wrote the capabilities
  (`EntrySurvives`); a report changes what it mentions unless another connection writes the state in
  between (`DeltaLeavesTheRest`). There are two channels, a version that shows one of them and a
  report that shows the other. All
  of it is a behaviour of `Ownership`, in which a bulb is dropped by its own teardown only
  (`ImplementsOwnership`). Three sessions are needed for a takeover of a takeover: the
  middle one is displaced while it displaces; two for a stale View. Sessions are symmetric; the firmware of an entry and the
  last presence event, which nothing in this run reads, are left out of the fingerprint (`Relevant`).
  550,554 states.
* `MCBulbServer_headless`: one configured lamp and one stranger, every loadable file.
  Names stay unique (`NamesUnique`), connected means connected
  (`ConnectedHasDriver`), the stranger leaves no trace (`RefusedLeaveNothing`); and,
  with fairness, the sessions implement `Ownership` with its promise that a displaced
  connection leaves (`ImplementsFairOwnership`), shutdown completes (`ShutdownCompletes`), a
  listener that has failed leaves `Serve` waiting for bulbs only (`WaitsOnlyForBulbs`), and
  a bulb whose connection breaks is announced as gone (`GoneIsAnnounced`). No
  symmetry, since it checks liveness.
* `MCAdmission_clients`: four connections of two kinds of the configured lamp, a stranger,
  a client without an identity and two that are no bulbs, every stream cut at every
  byte. A bulb is known by the id it presented and only if its CONNECT is whole
  (`IdentityIsPresented`); requests are answered in order, each with its id and its grants
  (`AnsweredAsAsked`); refusals are reported once per window, with the
  number and the first time of those in between (`RefusalsReported`); duplicates are warned
  of exactly when the takeovers are that many, or at most then if sessions reach the lock
  out of order (`WarnsOfDuplicates`). The CONNECT bodies have 127 and 128 bytes, the two
  sides of the second length byte. Four sessions are three takeovers, the threshold,
  and three refusals inside and one outside a window of two ticks.
* `MCCommands_confirm`: the terminal types `off` or asks for too much, Home Assistant sets the
  full brightness or the coldest white. Entries of the tables belong to waiting calls
  (`PendingHasWaiter`), an answer is the answer to one's own command (`AnswerIsTrue`), no
  command touches a field the caller did not mention unless the state changed under the
  call (`LeavesTheRestAlone`), Apply returns (`ApplyReturns`). For every percentage, sending back
  what Home Assistant shows sends nothing (`ShownSettles`), and for every position of the
  slider but the lowest the lamp ends up there (`SliderHonoured`). Three milliseconds are
  enough for a late answer to the first command while the second waits, and for two commands
  that share a millisecond. The run may stop (no deadlock check): the callers have
  said all they wanted.
* `MCTerminal_operator`: two bulbs, one of which has a name from before, and an operator
  who types two commands ahead, recalls, scrolls and resizes. The window stays inside the
  feed, the number of commands in flight is right and the history is not indexed
  outside (`Consistent`); every lamp answers to its name and its id after concurrent renames
  (`EveryLampAddressable`); every command is answered (`CommandsAnswered`) and events keep
  being shown (`EventsShown`) until the program stops. A feed of three lines behind a window
  of two or three and results of up to two lines make eviction happen while scrolled
  back; two commands are the smallest number that overlap; one name is a prefix of the
  other. The run may stop when the commands are used up.
* `MCStore_saves`: three timers, crashes, power cuts and restarts, on both kinds of disk, and
  both ways in which `run` returns. A
  pending change has a timer that will claim it (`PendingIsScheduled`), and the file is
  never written in part (`FileIsWhole`): the mutant that renames before it has synced breaks this in a power
  cut. With prompt saves that succeed,
  nothing pending and nothing under way means everything is saved
  (`QuietMeansSaved`), and every change is saved eventually (`EventuallySaved`). A file that
  is whole may still be refused by `Load`, for the names in it (below). 339,993 states.
* `MCEventBus_contended`: three publishers at a queue of two. Every event is accounted
  for (`Accounted`), each publisher's order is kept (`InPublisherOrder`), nothing is
  dropped for which there was room (`OnlyOverflowDropped`), and Publish returns
  though the consumer stalls (`PublishReturns`). The run may stop once each publisher
  has published `MaxEvents`.

* `MCBridge_follow`: one lamp, in four scopes: five events over one connection to the
  broker; two events, namings included, over two connections; a shutdown; and a lamp whose warmth
  comes to be known, or is taken back. In all but the shutdown one session at a time may have been
  replaced and still report, or still be about to say that the bulb is gone. Whenever
  nothing is under way, what is retained is what the registry says, unless the latest
  message was lost: `ConfigFollows` (names), `LampFollows` (state; and a lamp is available if and
  only if the last word of its sessions was a report). The
  server is shown online only if the broker holds its will (`OnlineIsBacked`), and
  commands arrive whether `Run` or the connection was first (`ListensForCommands`).
  The run may stop when a scope is used up. 3,718,766 states.

Violations, each a disagreement between the code and what the repository says of it
(quoted in `PROJECT.json` under "findings"):

* `MCBulbServer_late_event` (`NotAnnouncedGoneWhileOnline`): a bulb reconnects between the owner check and the event of
  `reportDisconnect`, and is announced as gone while it is online.
* `MCStore_shutdown_race` (`SavedAtExit`): the shutdown's `Flush` finds nothing pending because a timer
  has claimed the change, and the process exits before that timer's rename.
* `MCBridge_outage` (`RepublishedOnReconnect`): a lamp reports while the broker is not connected; the state and the
  availability that were dropped are not published when it is. `OnConnect` announces
  only lamps whose name has changed.
* `MCBridge_warmth` (`WarmthIsAdvertised`): a lamp is announced when it connects, before its capabilities are
  known, and not again when its first report shows warmth. Its state messages then
  have warmth fields that the retained discovery message does not advertise.

Met while modelling and kept out of the runs:

* A first connection takes its device id as its name without looking whether an
  operator gave that name to another bulb (registry.go:82), so in the interactive mode
  `NamesUnique` fails, and the file that is saved next is refused by the next start
  (persist.go:102-104), against "`name` defaults to `device_id` and is unique within the
  file" (specs/001-local-bulb-server/contracts/registry-file.md:46).
* handlePropertyPost reads the state with `View` and writes all of it back with
  `SetState` (session.go:440-447). If the handlers of an old and a new session of a bulb
  interleave, the later write puts back a field that its report does not mention.
  `DeltaLeavesTheRest` therefore leaves out `overtaken` sessions.
* The channels of a bulb go the same way: the refinement of an old View replaces what was
  learnt since (session.go:440-444), for `SetCapabilities` protects a known answer from an unknown
  one only (registry.go:300). A replaced session has read a bulb of unknown capabilities, the
  new one's OTA inform says that it has colour, the old one's report of a colour temperature then leaves it with
  warmth alone; against "It only ever adds information" (capabilities.go:50) and "a later connection
  that could not classify the bulb must not erase what an earlier one established"
  (registry.go:293-294). And an OTA inform replaces the channels by those of its version
  (session.go:418-420), warmth that a report had shown included. `EntrySurvives` leaves these two out.
* A `Disconnected` that comes late (`MCBulbServer_late_event`) may follow the new session's
  `StateChanged`: the bridge then publishes that the lamp is unavailable and forgets that it has
  reported (bridge.go:132-134), and the lamp, which answers, stays unavailable until its next change
  of state or its next session, though no message was lost and nothing was renamed. `LampFollows` is therefore stated over
  the last word of the sessions and not over the lamp.
* What is learnt of a lamp's warmth without a change of its state (an OTA inform, a report of
  the colour temperature that is on record) brings no event, and its state message keeps the old claim of
  warmth until the next.
* A change of the warmth alone, resolved before another caller turned the lamp on, sends
  the command that turns it off again: resolve fills in the fields the change leaves
  out from one reading of the registry (service.go:118-133), `session.Apply` compares with
  a later one (session.go:99-103), against "A nil field means 'leave this alone'"
  (service.go:90-92). `LeavesTheRestAlone` therefore leaves out `stale` callers.
* `{"state":"ON","brightness":1}` turns the lamp to 100 %: 1 of 255 becomes 0 % (convert.go:24-32),
  and resolve takes "on" at zero brightness as full brightness (service.go:195-204),
  against specs/002-homeassistant-integration/spec.md:44-45, "the physical lamp changes to that brightness".
  `SliderHonoured` starts at 2. Likewise a lit lamp that reports brightness 0 is sent 100 %
  when its own state comes back; `ShownSettles` starts at 1.
* The `DuplicateID` warning may be lost if sessions take the lock in another order than they
  read the time (session.go:280, server.go:143-156): a newer
  time drops takeovers that an older one, noted after it, would still have counted.
* Commands typed one after the other run concurrently (model.go:57-61) and may take effect
  in the other order.
* `rename` means to refuse the names of commands (execute.go:250-252), but asks whether the
  name alone is a line that parses (execute.go:236), which only `list`, `help` and `quit` are.
* A lamp may be named after another's device id (registry.go:225-230 compares names only);
  that id then finds the wrong lamp, which is why `EveryLampAddressable` excepts it. Where
  two lamps share a name (see above), `Resolve` takes the first in the order of a map
  (registry.go:181-185), against "it is never a guess" (registry.go:176).
* A line added while scrolled back shifts the view by one: `offset` counts from the newest line
  (feed.go:41-45 keeps the number, and its comment says "keeps the operator's position"). In
  a window of one line PgUp moves by half a line, that is not at all. The key up at the
  oldest line of the history clears the prompt (model.go:181-188).
* If a lamp is renamed while `OnConnect` is at work, `OnConnect` may publish the old name
  after `Run` has published the new one, and either may record its name last: the old
  name stays at the broker until the next rename (bridge.go:154-178).
* On `Renamed` the bridge publishes state and availability of a connected lamp that has
  not reported (bridge.go:127-130), against "Nothing is published, and no lamp is marked
  available, until it appears here" (bridge.go:24-25); and a rename that is handled
  between the event and the registry change of a disconnection marks a lamp available
  that is gone. `AvailabilityFollows` is therefore stated without renames.
* At shutdown the client's DISCONNECT may come before the bridge's offline message,
  or `OnConnect` may publish "online" after that message: the will is discarded and
  the broker shows the server online until it starts again (client.go:172-176,
  bridge.go:65-67). `OnlineIsBacked` is therefore stated for a server that is not
  stopping.
* `Rename` sets a discovered bulb to connected also when it has gone away
  (registry.go:231-235), so in the interactive mode `ConnectedHasDriver` fails.
* A session that ends because `handle` returned an error, a DISCONNECT packet
  included, announces no disconnection (session.go:209-213), although
  specs/001-local-bulb-server/spec.md:149 asks for one.
* A restart makes every stored bulb count as adopted (persist.go:107-113), also one that
  nobody named, against "Adoption is per-bulb and never
  automatic" (specs/001-local-bulb-server/contracts/tui-commands.md:69).
* A failed save leaves nothing pending (persist.go:146-151), so the shutdown does not
  try again; and with slow saves two saves may overlap and the older snapshot
  be renamed last, so `QuietMeansSaved` fails.
* Under contention `offer` may drop the newest event instead of the oldest, without the
  consumer's doing (bus.go:79-97).
* Two commands of one session in the same millisecond share their id and seq: the
  later takes the entry, gets the answer to either, and loses its entry when the
  earlier cleans up (alink.go:216-220, session.go:139-148).

## Bounds and fairness

Sets of devices, names, sessions, timers, publishers and callers are parameters.
`MaxVersion`, `MaxEvents`, `MaxCalls`, `MaxClock`, `MaxCommands` and, in `Bridge`, the fields of
`Scope` bound counters that are unbounded in
the code; they occur in guards only, and every behaviour the properties are about
needs one or two of what they count. `Depth`, `Capacity`, `Block` and the windows of `Admission`
are constants of the code that are smaller here. A session identifier is used once, so the
number of sessions bounds the connections of a run; in `MCRestart` either three sessions
are used, or two that report but not while the process is stopping (`Bounded`), which keeps
the run within minutes. With one
element of `Hook` a new
connection waits for the `OnConnect` of the one before (in the code at least a second
lies between them). Five events are a lamp that connects, reports, leaves, comes back
and reports, or one whose replaced session says that it is gone after the new one has reported, and
which reports once more; two connections are one outage. One replaced session at a time is the smallest number that
speaks out of turn; the proofs have any number.

Fairness is weak fairness throughout. `BulbServer`: runnable goroutines run; sniffing
and handshakes are bounded by 30 s deadlines and writes by 10 s deadlines in the code;
a read on a closed connection returns. Nothing is assumed of a bulb: a read on an
open connection may last for ever (the keep-alive deadline would end it, and is not
needed). `Commands`: callers run and the timeout of `Service.Apply` fires; nothing is
assumed of the lamp or of the read loop. `Store`: timers fire and goroutines run; no
crash and no shutdown is assumed. `EventBus`: a publisher that is inside `Publish` runs;
the consumer may stall. `Terminal`: the goroutines of commands and of the event
subscription run, `Apply` returns (which `Commands` shows), and Bubble Tea handles the messages it has; nothing is
assumed of the operator or of bulbs.

## The proofs

The theorems hold for all values of the constants that satisfy the named
assumptions (`RegistryAssumption`, `BulbServerAssumption`, `AdmissionAssumption`,
`ClientAssumption`, `LightsAssumption`, `CommandsAssumption`, `UnitsAssumption`, `HomeAssistantAssumption`,
`TerminalAssumption`, `StoreAssumption`, `EventBusAssumption`, `BridgeAssumption`), and so for any number of bulbs, sessions, callers, timers,
publishers, lamps and connections. The assumptions say that `Nil` is a value of its own,
that device ids are names, that bounds are numbers, that the sets the properties count
are finite, and what the file, the prompt and the clients may hold. Each theorem about
states rests on an inductive invariant, described below.

* `BulbServerProofs`. It begins with what each registry method does to the entry it is
  called for and to the others; the other proofs use these lemmas instead of the
  definitions. `TypeCorrect` needs `Identified` (a session past its handshake has a
  device id), without which `bulbs[dev[s]]` has no meaning. `DriverAlwaysLive`,
  `SupersededAlwaysClosing` and `DriverAlwaysOnline` are proved together as `Safe`, with
  `EnrolledIsKnown` (a session past Upsert has an entry): SetDriver makes a bulb
  online only if it has one, and whether a session is displaced depends on the
  driver being live. `OnlyOwnTeardown` follows because few steps move the driver at all
  (`FewStepsMovePresence`).
* `RestartProofs`, over any number of lives of the process. `SafeOverRestarts`: a restart
  starts without sessions and without drivers, so `Safe` holds again, and an entry
  that is unknown is blank (`UnknownIsBlank`). `DeltaAlwaysLeavesTheRest` and the part of
  `EntriesSurvive` that is about channels need `ViewIsCurrent`: a View has the
  state of its bulb, and its channels, until another session of the bulb writes that part, since
  `SetState` and `SetCapabilities` are
  the only methods that do and no session is in two handlers. The rest of `EntriesSurvive` goes
  method by method.
  `OwnershipImplemented`: every step is under the mapping a step of `Ownership` or
  changes nothing it sees. SetDriver is Acquire; a deferred Disconnect is Release, of
  the connection's own bulb only because, by `DriverIsLive`, a bulb's driver is a
  connection of that bulb; a naming keeps drivers because an unknown bulb has none.
  `HeadlessNamesUnique` and `HeadlessConnectedHasDriver`, under `Headless`: lamps are
  declared before the listener opens, only configured bulbs get past the handshake,
  they are known by then, and therefore no bulb is ever `Discovered` and Upsert
  never invents a name. In the interactive mode both fail (above).
  `RefusedAlwaysLeaveNothing`: in addition, what the file holds of a stranger is as
  loaded, so that a restart does not change it either.
* `CommandsProofs`. `PendingAlwaysHasWaiter`: `PendingHasWaiter` is inductive.
  `AlwaysLeavesTheRest` needs `ResolvedInv`: as long as a call is not `stale`, what it wants is
  what `resolve` makes of the present state. `AnswerAlwaysTrue` needs `AnswerInv`: a millisecond that
  stamped one command belongs to one caller and is in one message at a time,
  on the way down or up; a command that is not written is not answered; the answer
  on its way up says what the lamp did with the command of the caller who waits for it.
  `ChangeCarriedOut` is about `resolve` and `ChangedProps` together, for every change that
  is not refused: a lamp that carries out its commands is in the wanted state if that is
  lit, and dark and otherwise unchanged if it is not. Which fields get a command is
  the union of four parts (`NamesOfChange`); a warmth that differs is one the lamp supports, or
  the change would have been refused; a lamp that is wanted lit at zero was at zero before.
  `ShownAlwaysSettles` and `SliderAlwaysHonoured` are about the conversions, for 100 per cent:
  a brightness survives the way to 0-255 and back (`BrightnessReturns`), a position of the
  slider does to within 2 steps (`SliderReturns`), and a warmth survives the way to Kelvin
  and back (`KelvinReturns`) when the range spans at least 100 Kelvin. With a narrower
  one, which the configuration accepts, two warmths share a Kelvin, and sending back what
  is shown would move the lamp from one to the other.
* `TerminalProofs`. `AlwaysConsistent`: the window is clamped after each change of the
  feed, the position in the history before each use, and the number in flight is the
  cardinality of the set of jobs that are not over. `AlwaysAddressable` is stated under
  `PlainNames` (no lamp is named after the id of another one, in the file or at the
  prompt), without which it fails (above). The invariant is `NamesOK`: names are
  distinct and nobody's foreign id, and a lamp that is not known has no name but its
  id, so that one which connects for the first time clashes with none.
* `AdmissionProofs`. `RefusalsAlwaysReported`: what the server remembers of a device is
  its last report, the number of refusals since and the time of the first of
  these (`Kept`); no assumption is made on the order in which sessions get the lock, nor on
  what clients send. `DuplicatesAlwaysWarned`: the times that are kept are some of those noted
  (`Traces`), in their order and none twice, so that the count is never too high; if sessions took
  the lock in the order of their times, none is missing that is still within the
  window (`Noted`), so that it is not too low either.

  `IdentityAlwaysPresented` and `AnswersAlwaysAsAsked` are about bytes, for every client of
  `ClientAssumption` and every cut of its stream. Encoders and decoders are shown to fit:
  remaining lengths digit by digit (`VarintRead`), strings, CONNECT whatever its
  flags (`ConnectRead`), a packet in a stream that is cut anywhere (`PacketArrives`), PUBLISH, and the
  filters of SUBSCRIBE round by round (`FiltersRead`). A stream of requests is a sequence of
  parts put together (`Together`, `FlattenSeq` by `Flattened`); those that came through whole
  are the first m (`LastWithin`), the loop of `serve` handles one after the other and
  ends at the first that is cut, or at DISCONNECT (`RequestsHandled`, `Conversed`), and it has turns
  enough because a packet has two bytes (`Halved`). What is written is read by the client in the
  same way (`AnswersTogether`).

  Loops need induction. The library's theorem for it cannot be instantiated, so `Induction`
  over the natural numbers is derived from the pigeonhole theorem: were a number missing
  from an inductive set, adding one would map the members below it injectively into those
  of them that are not 0. `Iteration` follows from it: a loop of n rounds has a table of its
  states.
* `StoreProofs`. `PendingAlwaysScheduled` rests on `HandleIsArmed` (a timer that is
  remembered has not yet reset itself). `FileAlwaysWhole` rests on `SyncedIsRenamed`: a save that
  has come to its rename has synced its temporary file, and so the target and what the disk has of it are
  synced whenever they are looked at, for any number of saves that overlap. `QuietAlwaysSaved` rests on
  `QuietInv`: on a prompt disk one goroutine saves at a time, and when nothing is pending its
  snapshot is the registry.
* `EventBusProofs`. `AlwaysAccounted`, with `HasEvent` (a publisher inside Publish has an
  event). `AlwaysOnlyOverflowDropped`, with `RoomInv`: either the queue never was full, or
  the events in it and the publishers about to send again fill it, so that two
  evictions never make room that nobody takes. `AlwaysInPublisherOrder`, with `OrderInv`:
  what was received precedes what is queued, and that precedes what its publisher has
  in hand.
* `BridgeProofs`, for any number of lamps and of goroutines of `OnConnect`.
  `OnlineAlwaysBacked`: a connection that is up has a will until the client says goodbye.
  `AlwaysListensForCommands`: if the subscription is missing, a goroutine has it in its
  list. `ConfigAlwaysFollows` needs the shapes of the lists of operations (`Shaped`: a
  record comes right behind its publication) and `NamesInv`: unless `overtaken`, all
  goroutines hold the same name of a lamp (`Agreed`), it is the current one or the
  event of its renaming is still to come (`UpToDate`), what is recorded or about to be is
  what the broker has or was lost (`Recorded`, `ToRecord`), and a lamp in use is
  announced or will be (`Followed`). `LampAlwaysFollows` needs `FollowInv`: only `Run`'s loop tells
  states; what differs from the broker's is in its list or an event that is still queued;
  and (`Hears`) the last word of a lamp's sessions is either the last of the words the loop has
  still to hear of them, or none is left to hear and the lamp is in `b.reported` exactly if that word
  was a report. Which of the sessions, present or replaced, has said it makes no difference, and so
  nothing is assumed about their number or order.

Only model-checked:

* liveness and the fairness part of the refinement (`ShutdownCompletes`,
  `WaitsOnlyForBulbs`, `GoneIsAnnounced`, `ImplementsFairOwnership`, `ApplyReturns`,
  `CommandsAnswered`, `EventsShown`, `EventuallySaved`, `PublishReturns`): the prover has no
  ENABLED.

## Not modelled, and the plan

Left out for good: the JSON of payloads, TLS certificates, configuration and its validation,
logging, rendering, the wording of answers, and the doubles used by the tests. They are
sequential and without state of their own, and unit tests reach them. Two
things about them were met on the way: the configured range of Kelvin is validated
before its defaults are filled in, and in the interactive mode nobody looks whether the
listener has failed while the terminal runs.

Next:

* `Bridge`: an abstract specification (the retained topics follow the registry) that it
   implements as long as nothing is lost; overlapping `OnConnect`s in the run (the proofs
   have any number of them), events before the subscription and events the bus drops.
