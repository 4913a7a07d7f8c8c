------------------------------ MODULE Terminal ------------------------------
(***************************************************************************)
(* internal/tui and internal/control: the operator's prompt and feed, over *)
(* the registry.                                                           *)
(*                                                                         *)
(* Bubble Tea calls Update for one message at a time.  Every command that  *)
(* is entered runs in a goroutine of its own, which resolves its target,   *)
(* then acts on the lamp it found, and sends its result back as a message; *)
(* another goroutine waits for the next event of the bus.  Commands models *)
(* what happens inside a driver's Apply; here the call has an outcome.     *)
(*                                                                         *)
(* Of a line in the feed only its place matters, and the count of evicted  *)
(* lines, which nothing reads, is left out; so is the editing of the       *)
(* prompt, of which the next line to be entered is kept.                   *)
(***************************************************************************)
EXTENDS Registry, Integers, Sequences

CONSTANTS
  Stored,       \* the registries Load may have made of the file
  Lines,        \* the lines an operator may type, records as in Control
  StartsWith,   \* per target, the names and ids of which it is a prefix
  Capacity,     \* feedCapacity
  Block,        \* the most lines of one result
  Screen,       \* the heights of the terminal window
  Full,         \* 100 per cent
  Depth,        \* how many events the subscription holds
  MaxCommands   \* bound on the commands entered

C == INSTANCE Control

Job == 1..MaxCommands

ASSUME TerminalAssumption ==
  /\ {Capacity, Block, Depth, MaxCommands} \subseteq Nat \ {0}
  /\ Screen \subseteq Nat
  /\ Stored \subseteq [DeviceId -> Bulb]
  /\ \A r \in Stored : \A d \in DeviceId : r[d] = NoBulb(d) \/ r[d] \in LoadedBulb
  /\ Nil \notin Lines
  /\ Name \subseteq DOMAIN StartsWith
  /\ \A n \in Name : n \in StartsWith[n]
  /\ \A l \in Lines : C!WellFormed(l) /\ l.verb \notin C!Global => l.target \in DOMAIN StartsWith
  /\ \A l \in Lines : C!WellFormed(l) /\ l.verb = "name" => l.text \in Name

VARIABLES
  rows, offset,   \* feed: how many lines it holds, how far it is scrolled back
  screen,         \* Model.height
  height,         \* feed.height
  input,          \* the line at the prompt, Nil if it is empty
  past,           \* Model.history
  pastPos,        \* Model.historyPos
  inFlight,       \* Model.inFlight
  program,        \* "running", "quitting", or "stopped" once tea.Quit is handled
  listening,      \* waitForEvent: "waiting", "message" or "off"
  queue,          \* how many events the subscription holds
  entered,        \* commands there have been
  job             \* the goroutines of runCommand

feed == <<rows, offset, height>>
prompt == <<input, past, pastPos>>
events == <<listening, queue>>
vars == <<bulbs, feed, screen, prompt, inFlight, program, events, entered, job>>

Free == [step |-> "free", line |-> Nil, lamp |-> Nil]

TypeOK ==
  /\ bulbs \in [DeviceId -> Bulb]
  /\ rows \in 0..Capacity
  /\ offset \in Nat
  /\ {screen, height} \subseteq Nat
  /\ input \in Lines \cup {Nil}
  /\ past \in Seq(Lines)
  /\ inFlight \in Nat
  /\ program \in {"running", "quitting", "stopped"}
  /\ listening \in {"waiting", "message", "off"}
  /\ queue \in 0..Depth
  /\ job \in [Job -> [step : {"free", "resolve", "act", "answer", "over"},
                      line : Lines \cup {Nil}, lamp : DeviceId \cup {Nil}]]

(* tui.New; the feed's first line says that the program is ready.          *)
Init ==
  /\ bulbs \in Stored
  /\ rows = 1 /\ offset = 0
  /\ screen = 0 /\ height = 20
  /\ input = Nil /\ past = <<>> /\ pastPos = -1
  /\ inFlight = 0 /\ program = "running"
  /\ listening = "waiting" /\ queue = 0
  /\ entered = 0
  /\ job = [j \in Job |-> Free]

-----------------------------------------------------------------------------
(* feed.go.                                                                *)
Least(a, b) == IF a < b THEN a ELSE b
Most(a, b) == IF a > b THEN a ELSE b

(* feed.clampOffset, for a feed of r lines and a window of h.              *)
ClampOffset(o, r, h) == Most(Least(o, Most(r - h, 0)), 0)

(* feed.add, of n lines.                                                   *)
Add(n) ==
  /\ rows' = Least(rows + n, Capacity)
  /\ offset' = IF offset > 0 THEN ClampOffset(offset, rows', height) ELSE offset
  /\ UNCHANGED height

(* feed.scroll, back into history if delta is negative.                    *)
Scroll(delta) ==
  /\ offset' = ClampOffset(offset - delta, rows, height)
  /\ UNCHANGED <<rows, height>>

(* feed.resize without clamping.  A mutant.                                *)
ResizeOnly(h) ==
  /\ height' = Most(h, 1)
  /\ UNCHANGED <<rows, offset>>

Resize(h) ==
  /\ height' = Most(h, 1)
  /\ offset' = ClampOffset(offset, rows, height')
  /\ UNCHANGED rows

(* Model.visibleFeedLines, for a window of h lines.                        *)
VisibleFeedLines(h) == Most(h - 3, 1)

-----------------------------------------------------------------------------
(* Model.Update, one message at a time, until Bubble Tea gets to the       *)
(* message of tea.Quit.                                                    *)
Running == program # "stopped"

WindowSize(h) ==
  /\ Running
  /\ screen' = h
  /\ Resize(VisibleFeedLines(h))
  /\ UNCHANGED <<bulbs, prompt, inFlight, program, events, entered, job>>

(* An event is shown, and the next one is waited for.                      *)
(* Without the wait.  A mutant.                                            *)
ShowEventOnce ==
  /\ Running
  /\ listening = "message"
  /\ Add(1)
  /\ listening' = "off"
  /\ UNCHANGED <<bulbs, screen, prompt, inFlight, program, queue, entered, job>>

ShowEvent ==
  /\ Running
  /\ listening = "message"
  /\ Add(1)
  /\ listening' = "waiting"
  /\ UNCHANGED <<bulbs, screen, prompt, inFlight, program, queue, entered, job>>

(* Model.quit.                                                             *)
QuitNow == program' = "quitting"

(* A result is shown, unless it says to quit.                              *)
ShowResult(j) ==
  /\ Running
  /\ job[j].step = "answer"
  /\ job' = [job EXCEPT ![j] = [Free EXCEPT !.step = "over"]]
  /\ inFlight' = inFlight - 1
  /\ IF job[j].line.verb = "quit"
     THEN QuitNow /\ UNCHANGED feed
     ELSE UNCHANGED program /\ \E n \in 1..Block : Add(n)
  /\ UNCHANGED <<bulbs, screen, prompt, events, entered>>

(* The operator edits the prompt.                                          *)
Type(l) ==
  /\ Running
  /\ entered < MaxCommands
  /\ input' = l
  /\ UNCHANGED <<bulbs, feed, screen, past, pastPos, inFlight, program, events, entered, job>>

(* The enter key: the line goes to the history and to the feed, and a      *)
(* goroutine of its own.                                                   *)
Enter ==
  /\ Running
  /\ input' = Nil
  /\ IF input = Nil
     THEN UNCHANGED <<past, pastPos, feed, inFlight, entered, job>>
     ELSE /\ past' = Append(past, input)
          /\ pastPos' = -1
          /\ Add(1)
          /\ inFlight' = inFlight + 1
          /\ entered' = entered + 1
          /\ job' = [job EXCEPT ![entered'] = [step |-> "resolve", line |-> input, lamp |-> Nil]]
  /\ UNCHANGED <<bulbs, screen, program, events>>

(* Model.recall: where the keys up (1, older) and down (-1) lead.          *)
RecallPos(dir) ==
  LET moved == IF pastPos < 0 THEN (IF dir > 0 THEN Len(past) - 1 ELSE pastPos) ELSE pastPos - dir
  IN  Most(Least(moved, Len(past) - 1), -1)

Recall(dir) ==
  /\ Running
  /\ entered < MaxCommands
  /\ past # <<>>
  /\ pastPos' = RecallPos(dir)
  /\ input' = IF pastPos' < 0 THEN Nil
              ELSE IF pastPos' < Len(past) THEN past[pastPos' + 1] ELSE input
  /\ UNCHANGED <<bulbs, feed, screen, past, inFlight, program, events, entered, job>>

(* PgUp and PgDn move by half a window.                                    *)
Page(dir) ==
  /\ Running
  /\ Scroll(dir * (VisibleFeedLines(screen) \div 2))
  /\ UNCHANGED <<bulbs, screen, prompt, inFlight, program, events, entered, job>>

(* ctrl+c and esc.                                                         *)
QuitKey ==
  /\ Running
  /\ QuitNow
  /\ UNCHANGED <<bulbs, feed, screen, prompt, inFlight, events, entered, job>>

-----------------------------------------------------------------------------
(* Registry.Resolve: the lamps it may answer with, none if the target is   *)
(* unknown or ambiguous.  It stops at the first lamp of that name in a map *)
(* without an order; the prefix is compared ignoring case.                 *)
Resolve(target) ==
  LET named == {d \in DeviceId : Known(d) /\ bulbs[d].name = target}
      matches == {d \in DeviceId : Known(d) /\ {bulbs[d].name, d} \cap StartsWith[target] # {}}
  IN  CASE named # {} -> named
        [] named = {} /\ target \in DeviceId /\ Known(target) -> {target}
        [] OTHER -> IF Cardinality(matches) = 1 THEN matches ELSE {}

(* The capabilities of a lamp as Control sees them.                        *)
CapsOfLamp(d) ==
  [known |-> bulbs[d].caps # {}, color |-> "color" \in bulbs[d].caps,
   temp |-> "temp" \in bulbs[d].caps, floor |-> 1]

(* Controller.Execute and Run up to the lamp: the lines that are answered  *)
(* without touching one, and those that go on with the lamp they found.    *)
Answers(line, d) ==
  \/ line.verb = "info"
  \/ line.verb = "name" /\ C!IsCommandName(line.text)
  \/ line.verb # "name" /\ C!ChangeRefused(CapsOfLamp(d), line)

RunJob(j) ==
  LET line == job[j].line
      to(step, d) == job' = [job EXCEPT ![j].step = step, ![j].lamp = d]
  IN  /\ job[j].step = "resolve"
      /\ IF ~C!WellFormed(line) \/ line.verb \in C!Global \/ Resolve(line.target) = {}
         THEN to("answer", Nil)
         ELSE \E d \in Resolve(line.target) :
                to(IF Answers(line, d) THEN "answer" ELSE "act", d)
      /\ UNCHANGED <<bulbs, feed, screen, prompt, inFlight, program, events, entered>>

(* bus.Publish: a full subscription loses its oldest event (EventBus).     *)
Published ==
  /\ queue' = Least(queue + 1, Depth)
  /\ UNCHANGED listening

(* Without the answer that the name is taken.  A mutant.                   *)
RenameJobUnanswered(j) ==
  /\ job[j].step = "act"
  /\ job[j].line.verb = "name"
  /\ job' = [job EXCEPT ![j].step = "answer"]
  /\ Rename(job[j].lamp, job[j].line.text)
  /\ Published
  /\ UNCHANGED <<feed, screen, prompt, inFlight, program, entered>>

(* Controller.rename and Service.Rename, on the lamp that was found.       *)
RenameJob(j) ==
  /\ job[j].step = "act"
  /\ job[j].line.verb = "name"
  /\ job' = [job EXCEPT ![j].step = "answer"]
  /\ \/ Rename(job[j].lamp, job[j].line.text) /\ Published
     \/ NameInUse(job[j].lamp, job[j].line.text) /\ UNCHANGED <<bulbs, events>>
  /\ UNCHANGED <<feed, screen, prompt, inFlight, program, entered>>

(* Service.Apply reads the lamp again, and refuses one that is not         *)
(* adopted, has gone, or does not accept the change.                       *)
ApplyRefused(d, line) ==
  \/ ~Adopted(d)
  \/ bulbs[d].status # "Connected"
  \/ C!Refused(CapsOfLamp(d), C!ChangeFor(line))
  \/ Driver(d) = Nil

(* Otherwise the change is recorded and sent; an error of the driver is    *)
(* also published.  What the lamp does is reported by BulbReports.         *)
ApplyJob(j) ==
  /\ job[j].step = "act"
  /\ job[j].line.verb # "name"
  /\ job' = [job EXCEPT ![j].step = "answer"]
  /\ IF ApplyRefused(job[j].lamp, job[j].line)
     THEN UNCHANGED <<bulbs, events>>
     ELSE /\ \E want \in LightState : SetDesired(job[j].lamp, want)
          /\ UNCHANGED events \/ Published
  /\ UNCHANGED <<feed, screen, prompt, inFlight, program, entered>>

-----------------------------------------------------------------------------
(* waitForEvent receives.                                                  *)
ReceiveEvent ==
  /\ listening = "waiting"
  /\ queue > 0
  /\ queue' = queue - 1
  /\ listening' = "message"
  /\ UNCHANGED <<bulbs, feed, screen, prompt, inFlight, program, entered, job>>

(* A bulb connects, reports and leaves, as BulbServer models it in detail. *)
BulbConnects(d, s) ==
  /\ Driver(d) = Nil
  /\ \A e \in DeviceId : Driver(e) # s
  /\ bulbs' = [bulbs EXCEPT ![d].driver = s,
       ![d].status = IF @ \in {"Absent", "Discovered"} THEN "Discovered" ELSE "Connected"]
  /\ Published
  /\ UNCHANGED <<feed, screen, prompt, inFlight, program, entered, job>>

BulbReports(d) ==
  /\ Driver(d) # Nil
  /\ \E state \in LightState : SetState(d, state)
  /\ Published
  /\ UNCHANGED <<feed, screen, prompt, inFlight, program, entered, job>>

BulbLeaves(d) ==
  /\ Driver(d) # Nil
  /\ Disconnect(d, Driver(d))
  /\ Published
  /\ UNCHANGED <<feed, screen, prompt, inFlight, program, entered, job>>

(* Bubble Tea handles tea.Quit.                                            *)
Stop ==
  /\ program = "quitting"
  /\ program' = "stopped"
  /\ UNCHANGED <<bulbs, feed, screen, prompt, inFlight, events, entered, job>>

-----------------------------------------------------------------------------
Key ==
  \/ Enter \/ QuitKey
  \/ \E l \in Lines : Type(l)
  \/ \E dir \in {1, -1} : Recall(dir) \/ Page(dir)

JobStep(j) == RunJob(j) \/ RenameJob(j) \/ ApplyJob(j)

Next ==
  \/ Key
  \/ \E h \in Screen : WindowSize(h)
  \/ ShowEvent \/ ReceiveEvent \/ Stop
  \/ \E j \in Job : JobStep(j) \/ ShowResult(j)
  \/ \E d \in DeviceId : BulbReports(d) \/ BulbLeaves(d) \/ \E s \in Session : BulbConnects(d, s)

(* Goroutines run, Service.Apply returns (ApplyReturns of Commands), and   *)
(* Bubble Tea's loop handles every message it has.  Nothing is assumed of  *)
(* the operator and the bulbs.                                             *)
Fairness ==
  /\ WF_vars(ReceiveEvent)
  /\ WF_vars(ShowEvent)
  /\ \A j \in Job : WF_vars(JobStep(j)) /\ WF_vars(ShowResult(j))

Spec == Init /\ [][Next]_vars

FairSpec == Spec /\ Fairness

-----------------------------------------------------------------------------
(* The window is inside the feed and as full as it can be: whatever the    *)
(* order of scrolling, resizing, new lines and eviction, offset is at most *)
(* what clampOffset allows, so visible() never leaves lines out.           *)
WindowInFeed == offset = ClampOffset(offset, rows, height)

(* The number of commands in flight that the status bar shows is the       *)
(* number of commands entered and not yet answered.                        *)
InFlightIsTrue ==
  inFlight = Cardinality({j \in Job : job[j].step \in {"resolve", "act", "answer"}})

(* The history is recalled inside its bounds: Update indexes it with       *)
(* historyPos, and would panic otherwise.                                  *)
RecallInHistory == pastPos \in (-1)..(Len(past) - 1)

(* What Update indexes and shows is consistent, whatever the order of      *)
(* keys, resizes, events and results.                                      *)
Consistent == TypeOK /\ WindowInFeed /\ InFlightIsTrue /\ RecallInHistory

(* Every lamp answers to its name and, unless that is another one's name,  *)
(* to its id, although commands that name lamps run concurrently and what  *)
(* they find may be renamed before they act.                               *)
EveryLampAddressable ==
  \A d \in DeviceId : Known(d) =>
    /\ Resolve(bulbs[d].name) = {d}
    /\ (\A e \in DeviceId : bulbs[e].name = d => e = d) => Resolve(d) = {d}

(* No lamp is named after a device id that is not its own, in the file or  *)
(* at the prompt, and the file names no two lamps alike (which Load        *)
(* refuses).  The code does not forbid the former, and Upsert does not     *)
(* look whether the id of a new lamp is a name already.                    *)
PlainNames ==
  /\ \A l \in Lines : C!WellFormed(l) /\ l.verb = "name" => l.text \notin DeviceId
  /\ \A r \in Stored : \A d, e \in DeviceId :
       /\ r[d].name = r[e].name => d = e
       /\ r[d].name = e => d = e

(* Every command is answered, unless the program stops: also one whose     *)
(* lamp was renamed, or has left, while it ran.                            *)
CommandsAnswered ==
  \A j \in Job : job[j].step = "resolve" ~> job[j].step = "over" \/ program = "stopped"

(* Events keep coming to the feed, unless the program stops: neither keys, *)
(* nor results, nor a burst that overflows the subscription ends the       *)
(* chain in which each event's message asks for the next one.              *)
EventsShown == queue > 0 ~> listening = "message" \/ program = "stopped"

=============================================================================
