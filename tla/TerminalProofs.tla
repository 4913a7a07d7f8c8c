--------------------------- MODULE TerminalProofs ---------------------------
(***************************************************************************)
(* Proofs about the operator's prompt and feed: module Terminal.  Update   *)
(* handles one message at a time, but in any order: keys, resizes, results *)
(* of commands that ran concurrently, events.  The invariant is the one    *)
(* that TLC checks, with what is known of the commands that have not been  *)
(* entered and of those that are about to act on a lamp.                   *)
(***************************************************************************)
EXTENDS Terminal, FiniteSetTheorems, TLAPS

-----------------------------------------------------------------------------
(* The feed and its window.                                                *)
FeedOK ==
  /\ rows \in 0..Capacity
  /\ offset \in Nat
  /\ height \in Nat
  /\ WindowInFeed

(* Clamping an offset once is enough, and the bottom needs none.           *)
LEMMA Clamping ==
  ASSUME NEW o \in Int, NEW r \in Nat, NEW h \in Nat
  PROVE  /\ ClampOffset(o, r, h) \in Nat
         /\ ClampOffset(ClampOffset(o, r, h), r, h) = ClampOffset(o, r, h)
         /\ ClampOffset(0, r, h) = 0
  BY DEF ClampOffset, Least, Most

LEMMA CapacityIsNat == Capacity \in Nat /\ MaxCommands \in Nat
  BY TerminalAssumption

LEMMA FeedStep ==
  ASSUME FeedOK,
         \/ \E n \in Nat : Add(n)
         \/ \E delta \in Int : Scroll(delta)
         \/ \E h \in Int : Resize(h)
         \/ UNCHANGED feed
  PROVE  FeedOK'
  <1> USE DEF FeedOK, WindowInFeed
  <1>1. ASSUME NEW n \in Nat, Add(n) PROVE FeedOK'
    <2>1. rows' = Least(rows + n, Capacity) /\ rows' \in 0..Capacity /\ rows' \in Nat
      BY <1>1, CapacityIsNat DEF Add, Least
    <2>2. height' = height /\ offset' = IF offset > 0 THEN ClampOffset(offset, rows', height) ELSE offset
      BY <1>1 DEF Add
    <2>3. CASE offset > 0
      BY <2>1, <2>2, <2>3, Clamping
    <2>4. CASE offset = 0
      BY <2>1, <2>2, <2>4, Clamping
    <2> QED BY <2>3, <2>4
  <1>2. ASSUME NEW delta \in Int, Scroll(delta) PROVE FeedOK'
    <2>1. offset - delta \in Int /\ rows \in Nat
      OBVIOUS
    <2>2. UNCHANGED <<rows, height>> /\ offset' = ClampOffset(offset - delta, rows, height)
      BY <1>2 DEF Scroll
    <2> QED BY <2>1, <2>2, Clamping
  <1>3. ASSUME NEW h \in Int, Resize(h) PROVE FeedOK'
    <2>1. height' = Most(h, 1) /\ height' \in Nat
      BY <1>3 DEF Resize, Most
    <2>2. rows' = rows /\ offset' = ClampOffset(offset, rows, height')
      BY <1>3 DEF Resize
    <2>3. rows \in Nat /\ offset \in Int
      OBVIOUS
    <2>4. offset' \in Nat /\ offset' = ClampOffset(offset', rows', height')
      BY <2>1, <2>2, <2>3, Clamping
    <2> QED BY <2>1, <2>2, <2>4
  <1>4. CASE UNCHANGED feed
    BY <1>4 DEF feed
  <1> QED BY <1>1, <1>2, <1>3, <1>4

-----------------------------------------------------------------------------
(* The prompt and its history.                                             *)
PromptOK ==
  /\ input \in Lines \cup {Nil}
  /\ past \in Seq(Lines)
  /\ pastPos \in Int
  /\ RecallInHistory
  /\ entered \in 0..MaxCommands
  /\ input # Nil => entered < MaxCommands

(* Every key leaves historyPos inside the history.                         *)
LEMMA RecallStays ==
  ASSUME PromptOK, past # <<>>, NEW dir \in {1, -1}
  PROVE  RecallPos(dir) \in (-1)..(Len(past) - 1)
  <1>1. Len(past) \in Nat \ {0} /\ pastPos \in Int
    BY DEF PromptOK
  <1> QED BY <1>1 DEF RecallPos, Least, Most

LEMMA PromptStep ==
  ASSUME PromptOK,
         \/ \E l \in Lines : Type(l)
         \/ Enter
         \/ \E dir \in {1, -1} : Recall(dir)
         \/ UNCHANGED <<prompt, entered>>
  PROVE  PromptOK'
  <1> USE TerminalAssumption DEF PromptOK, RecallInHistory
  <1>1. ASSUME NEW l \in Lines, Type(l) PROVE PromptOK'
    BY <1>1 DEF Type
  <1>2. CASE Enter
    <2>1. CASE input = Nil
      BY <1>2, <2>1 DEF Enter
    <2>2. CASE input # Nil
      <3>1. /\ past' = Append(past, input) /\ pastPos' = -1 /\ input' = Nil
            /\ entered' = entered + 1
        BY <1>2, <2>2 DEF Enter
      <3>2. input \in Lines
        BY <2>2
      <3>3. past' \in Seq(Lines) /\ Len(past') = Len(past) + 1 /\ Len(past) \in Nat
        BY <3>1, <3>2
      <3> QED BY <2>2, <3>1, <3>3
    <2> QED BY <2>1, <2>2
  <1>3. ASSUME NEW dir \in {1, -1}, Recall(dir) PROVE PromptOK'
    <2>1. /\ past # <<>> /\ past' = past /\ entered' = entered /\ entered < MaxCommands
          /\ pastPos' = RecallPos(dir)
      BY <1>3 DEF Recall
    <2>2. pastPos' \in (-1)..(Len(past) - 1) /\ Len(past) \in Nat
      BY <2>1, RecallStays
    <2>3. input' \in Lines \cup {Nil}
      <3>1. input' = IF pastPos' < 0 THEN Nil
                     ELSE IF pastPos' < Len(past) THEN past[pastPos' + 1] ELSE input
        BY <1>3 DEF Recall
      <3>2. pastPos' >= 0 => pastPos' + 1 \in 1..Len(past)
        BY <2>2
      <3>3. \A i \in 1..Len(past) : past[i] \in Lines
        OBVIOUS
      <3> QED BY <2>2, <3>1, <3>2, <3>3
    <2> QED BY <2>1, <2>2, <2>3
  <1>4. CASE UNCHANGED <<prompt, entered>>
    BY <1>4 DEF prompt
  <1> QED BY <1>1, <1>2, <1>3, <1>4

-----------------------------------------------------------------------------
(* The commands.  Those not entered yet are free; one that is about to act *)
(* is a line that was accepted and has a lamp.                             *)
JobRecord == [step : {"free", "resolve", "act", "answer", "over"},
              line : Lines \cup {Nil}, lamp : DeviceId \cup {Nil}]

Unanswered == {"resolve", "act", "answer"}

Active == {j \in Job : job[j].step \in Unanswered}

JobsOK ==
  /\ job \in [Job -> JobRecord]
  /\ inFlight \in Nat
  /\ InFlightIsTrue
  /\ \A j \in Job : j > entered => job[j].step = "free"
  /\ \A j \in Job : job[j].step = "resolve" => job[j].line \in Lines
  /\ \A j \in Job : job[j].step = "act" =>
       job[j].line \in Lines /\ job[j].lamp \in DeviceId /\ C!WellFormed(job[j].line)

LEMMA ActiveFinite == IsFiniteSet(Active) /\ (InFlightIsTrue <=> inFlight = Cardinality(Active))
  <1>1. IsFiniteSet(Job)
    BY CapacityIsNat, FS_Interval DEF Job
  <1>2. IsFiniteSet(Active)
    BY <1>1, FS_Subset DEF Active
  <1> QED BY <1>2 DEF Active, Unanswered, InFlightIsTrue

LEMMA JobChanges ==
  ASSUME JobsOK, NEW j \in Job, NEW new \in JobRecord, job' = [job EXCEPT ![j] = new]
  PROVE  /\ job' \in [Job -> JobRecord] /\ job'[j] = new
         /\ \A i \in Job : i # j => job'[i] = job[i]
         /\ Active' = IF new.step \in Unanswered THEN Active \cup {j} ELSE Active \ {j}
  <1>1. /\ job' \in [Job -> JobRecord] /\ job'[j] = new
        /\ \A i \in Job : i # j => job'[i] = job[i]
    BY DEF JobsOK
  <1>2. \A i \in Job : i \in Active' <=> IF i = j THEN new.step \in Unanswered ELSE i \in Active
    BY <1>1 DEF Active
  <1>3. Active \subseteq Job /\ Active' \subseteq Job
    BY DEF Active
  <1> QED BY <1>1, <1>2, <1>3

(* A goroutine works on its command, which stays in flight.                *)
LEMMA JobMoves ==
  ASSUME JobsOK, NEW j \in Job, NEW new \in JobRecord, job' = [job EXCEPT ![j] = new],
         job[j].step \in Unanswered, new.step \in {"act", "answer"},
         new.step = "act" => new.line \in Lines /\ new.lamp \in DeviceId /\ C!WellFormed(new.line),
         UNCHANGED <<inFlight, entered>>
  PROVE  JobsOK'
  <1>1. /\ job' \in [Job -> JobRecord] /\ job'[j] = new
        /\ \A i \in Job : i # j => job'[i] = job[i]
        /\ Active' = Active \cup {j}
    BY JobChanges DEF Unanswered
  <1>2. Active' = Active
    BY <1>1 DEF Active
  <1>3. InFlightIsTrue' <=> inFlight' = Cardinality(Active')
    BY ActiveFinite, <1>1 DEF InFlightIsTrue, Active, Unanswered
  <1>4. InFlightIsTrue'
    BY <1>2, <1>3, ActiveFinite DEF JobsOK
  <1>5. ~(j > entered)
    BY DEF JobsOK, Unanswered
  <1> QED BY <1>1, <1>4, <1>5 DEF JobsOK

LEMMA RunJobStep ==
  ASSUME JobsOK, NEW j \in Job, RunJob(j)
  PROVE  JobsOK'
  <1>1. job[j].step = "resolve" /\ job[j].line \in Lines /\ job[j] \in JobRecord
    BY DEF RunJob, JobsOK
  <1>2. PICK step \in {"answer", "act"}, d \in DeviceId \cup {Nil} :
          /\ job' = [job EXCEPT ![j].step = step, ![j].lamp = d]
          /\ step = "act" => d \in DeviceId /\ C!WellFormed(job[j].line)
    <2>1. Resolve(job[j].line.target) \subseteq DeviceId
      BY DEF Resolve
    <2> QED BY <2>1 DEF RunJob
  <1> DEFINE new == [job[j] EXCEPT !.step = step, !.lamp = d]
  <1>3. new \in JobRecord /\ new.step = step /\ new.lamp = d /\ new.line = job[j].line
    BY <1>1 DEF JobRecord
  <1>4. job' = [job EXCEPT ![j] = new]
    BY <1>2 DEF JobsOK
  <1>5. UNCHANGED <<inFlight, entered>>
    BY DEF RunJob
  <1> HIDE DEF new
  <1> QED BY <1>1, <1>2, <1>3, <1>4, <1>5, JobMoves DEF Unanswered

LEMMA ActJobStep ==
  ASSUME JobsOK, NEW j \in Job, RenameJob(j) \/ ApplyJob(j)
  PROVE  JobsOK'
  <1>1. job[j].step = "act" /\ job[j] \in JobRecord
    BY DEF RenameJob, ApplyJob, JobsOK
  <1> DEFINE new == [job[j] EXCEPT !.step = "answer"]
  <1>2. new \in JobRecord /\ new.step = "answer"
    BY <1>1 DEF JobRecord
  <1>3. job' = [job EXCEPT ![j] = new]
    BY DEF JobsOK, RenameJob, ApplyJob
  <1>4. UNCHANGED <<inFlight, entered>>
    BY DEF RenameJob, ApplyJob
  <1> HIDE DEF new
  <1> QED BY <1>1, <1>2, <1>3, <1>4, JobMoves DEF Unanswered

LEMMA ShowResultStep ==
  ASSUME JobsOK, NEW j \in Job, ShowResult(j)
  PROVE  JobsOK'
  <1> DEFINE new == [Free EXCEPT !.step = "over"]
  <1>1. job[j].step = "answer" /\ job' = [job EXCEPT ![j] = new]
        /\ inFlight' = inFlight - 1 /\ entered' = entered
    BY DEF ShowResult
  <1>2. new \in JobRecord /\ new.step = "over"
    BY DEF JobRecord, Free
  <1> HIDE DEF new
  <1>3. /\ job' \in [Job -> JobRecord] /\ job'[j] = new
        /\ \A i \in Job : i # j => job'[i] = job[i]
        /\ Active' = Active \ {j}
    BY <1>1, <1>2, JobChanges DEF Unanswered
  <1>4. j \in Active
    BY <1>1 DEF Active, Unanswered
  <1>5. Cardinality(Active') = Cardinality(Active) - 1 /\ Cardinality(Active') \in Nat
    BY <1>3, <1>4, ActiveFinite, FS_RemoveElement, FS_CardinalityType, FS_Subset
  <1>6. inFlight' = Cardinality(Active') /\ inFlight' \in Nat
    BY <1>1, <1>5, ActiveFinite DEF JobsOK
  <1>7. InFlightIsTrue'
    BY <1>6 DEF InFlightIsTrue, Active, Unanswered
  <1> QED BY <1>1, <1>2, <1>3, <1>6, <1>7 DEF JobsOK

LEMMA EnterStep ==
  ASSUME PromptOK, JobsOK, Enter
  PROVE  JobsOK'
  <1>1. CASE input = Nil
    BY <1>1 DEF Enter, JobsOK, InFlightIsTrue
  <1>2. CASE input # Nil
    <2> DEFINE j == entered + 1
               new == [step |-> "resolve", line |-> input, lamp |-> Nil]
    <2>1. /\ entered' = j /\ inFlight' = inFlight + 1 /\ job' = [job EXCEPT ![j] = new]
      BY <1>2 DEF Enter
    <2>2. j \in Job /\ input \in Lines /\ entered \in Nat /\ j > entered
      BY <1>2, TerminalAssumption DEF PromptOK, Job
    <2>3. new \in JobRecord /\ new.step = "resolve" /\ new.line = input
      BY <2>2 DEF JobRecord
    <2>4. \A i \in Job : i > j => i # j /\ i > entered
      BY <2>2 DEF Job
    <2> HIDE DEF j, new
    <2>5. /\ job' \in [Job -> JobRecord] /\ job'[j] = new
          /\ \A i \in Job : i # j => job'[i] = job[i]
          /\ Active' = Active \cup {j}
      BY <2>1, <2>2, <2>3, JobChanges DEF Unanswered
    <2>6. j \notin Active
      BY <2>2 DEF JobsOK, Active, Unanswered
    <2>7. Cardinality(Active') = Cardinality(Active) + 1 /\ Cardinality(Active) \in Nat
      BY <2>5, <2>6, ActiveFinite, FS_AddElement, FS_CardinalityType
    <2>8. inFlight' = Cardinality(Active') /\ inFlight' \in Nat
      BY <2>1, <2>7, ActiveFinite DEF JobsOK
    <2>9. InFlightIsTrue'
      BY <2>8 DEF InFlightIsTrue, Active, Unanswered
    <2> QED BY <2>1, <2>2, <2>3, <2>4, <2>5, <2>8, <2>9 DEF JobsOK
  <1> QED BY <1>1, <1>2

-----------------------------------------------------------------------------
(* The registry, as the terminal, the commands and the bulbs change it.    *)
BulbsOK == bulbs \in [DeviceId -> Bulb]

(* Everything but a rename leaves the names alone, and nothing forgets a   *)
(* lamp.                                                                   *)
KeepsNames ==
  \A d \in DeviceId : bulbs'[d].name = bulbs[d].name /\ (Known(d) => Known(d)')

LEMMA ChangedBulb ==
  ASSUME BulbsOK, NEW d \in DeviceId, NEW b \in Bulb, bulbs' = [bulbs EXCEPT ![d] = b],
         b.name = bulbs[d].name, Known(d) => b.status # "Absent"
  PROVE  BulbsOK' /\ KeepsNames
  BY DEF BulbsOK, KeepsNames, Known

LEMMA SetStateStep ==
  ASSUME BulbsOK, NEW d \in DeviceId, NEW state \in LightState,
         SetState(d, state) \/ SetDesired(d, state)
  PROVE  BulbsOK' /\ KeepsNames
  <1>1. bulbs[d] \in Bulb /\ Nil \in LightState \cup {Nil}
    BY DEF BulbsOK
  <1>2. CASE SetState(d, state)
    <2> DEFINE b == [bulbs[d] EXCEPT !.state = state, !.desired = Nil]
    <2>1. b \in Bulb /\ b.name = bulbs[d].name /\ b.status = bulbs[d].status
      BY <1>1 DEF Bulb
    <2>2. bulbs' = [bulbs EXCEPT ![d] = b]
      BY <1>2 DEF SetState, BulbsOK
    <2> HIDE DEF b
    <2> QED BY <2>1, <2>2, ChangedBulb DEF Known
  <1>3. CASE SetDesired(d, state)
    <2> DEFINE b == [bulbs[d] EXCEPT !.desired = state]
    <2>1. b \in Bulb /\ b.name = bulbs[d].name /\ b.status = bulbs[d].status
      BY <1>1 DEF Bulb
    <2>2. bulbs' = [bulbs EXCEPT ![d] = b]
      BY <1>3 DEF SetDesired, BulbsOK
    <2> HIDE DEF b
    <2> QED BY <2>1, <2>2, ChangedBulb DEF Known
  <1> QED BY <1>2, <1>3

LEMMA ConnectStep ==
  ASSUME BulbsOK, NEW d \in DeviceId, NEW s \in Session, BulbConnects(d, s)
  PROVE  BulbsOK' /\ KeepsNames
  <1>1. bulbs[d] \in Bulb
    BY DEF BulbsOK
  <1>2. PICK st \in {"Discovered", "Connected"} :
          bulbs' = [bulbs EXCEPT ![d].driver = s, ![d].status = st]
    <2>1. PICK st : st = IF bulbs[d].status \in {"Absent", "Discovered"} THEN "Discovered" ELSE "Connected"
      OBVIOUS
    <2>2. bulbs' = [bulbs EXCEPT ![d] = [@ EXCEPT !.driver = s, !.status = st]]
      BY <1>1, <2>1 DEF BulbConnects, BulbsOK, Bulb
    <2> QED BY <1>1, <2>1, <2>2 DEF BulbsOK, Bulb
  <1> DEFINE b == [bulbs[d] EXCEPT !.driver = s, !.status = st]
  <1>3. b \in Bulb /\ b.name = bulbs[d].name /\ b.status = st
    BY <1>1 DEF Bulb, Status
  <1>4. bulbs' = [bulbs EXCEPT ![d] = b]
    BY <1>1, <1>2 DEF BulbsOK, Bulb
  <1> HIDE DEF b
  <1> QED BY <1>3, <1>4, ChangedBulb

LEMMA LeaveStep ==
  ASSUME BulbsOK, NEW d \in DeviceId, BulbLeaves(d)
  PROVE  BulbsOK' /\ KeepsNames
  <1>1. bulbs[d] \in Bulb
    BY DEF BulbsOK
  <1> DEFINE st == IF bulbs[d].status = "Connected" THEN "Disconnected" ELSE bulbs[d].status
             b == [bulbs[d] EXCEPT !.driver = Nil, !.status = st]
  <1>2. b \in Bulb /\ b.name = bulbs[d].name /\ (Known(d) => b.status # "Absent")
    BY <1>1 DEF Bulb, Status, Known
  <1>3. bulbs' = [bulbs EXCEPT ![d] = b]
    BY <1>1 DEF BulbLeaves, Disconnect, Driver, BulbsOK, Bulb
  <1> HIDE DEF b
  <1> QED BY <1>2, <1>3, ChangedBulb

LEMMA RenameStep ==
  ASSUME BulbsOK, NEW d \in DeviceId, NEW n \in Name, Rename(d, n)
  PROVE  /\ BulbsOK' /\ bulbs'[d].name = n /\ Known(d) /\ Known(d)' /\ ~NameInUse(d, n)
         /\ \A e \in DeviceId \ {d} : bulbs'[e] = bulbs[e]
  <1>1. bulbs[d] \in Bulb
    BY DEF BulbsOK
  <1> DEFINE st == IF bulbs[d].status = "Discovered" THEN "Connected" ELSE bulbs[d].status
             b == [bulbs[d] EXCEPT !.name = n, !.status = st]
  <1>2. b \in Bulb /\ b.name = n /\ (Known(d) => b.status # "Absent")
    BY <1>1 DEF Bulb, Status, Known
  <1>3. bulbs' = [bulbs EXCEPT ![d] = b] /\ Known(d) /\ ~NameInUse(d, n)
    BY <1>1 DEF Rename, BulbsOK, Bulb
  <1> HIDE DEF b
  <1> QED BY <1>2, <1>3 DEF BulbsOK, Known

-----------------------------------------------------------------------------
RestOK ==
  /\ screen \in Nat
  /\ program \in {"running", "quitting", "stopped"}
  /\ listening \in {"waiting", "message", "off"}
  /\ queue \in 0..Depth

Inv == FeedOK /\ PromptOK /\ JobsOK /\ BulbsOK /\ RestOK

LEMMA InvIsEnough == Inv => Consistent
  BY DEF Inv, FeedOK, PromptOK, JobsOK, BulbsOK, RestOK, Consistent, TypeOK, JobRecord

LEMMA InitHolds == Init => Inv
  <1> SUFFICES ASSUME Init PROVE Inv
    OBVIOUS
  <1>1. FeedOK
    BY TerminalAssumption DEF Init, FeedOK, WindowInFeed, ClampOffset, Least, Most
  <1>2. PromptOK
    <2>1. <<>> \in Seq(Lines) /\ Len(past) = 0
      BY DEF Init
    <2> QED BY <2>1, TerminalAssumption DEF Init, PromptOK, RecallInHistory
  <1>3. JobsOK
    <2>1. Free \in JobRecord /\ Free.step = "free"
      BY DEF Free, JobRecord
    <2>2. job \in [Job -> JobRecord] /\ \A j \in Job : job[j].step = "free"
      BY <2>1 DEF Init
    <2>3. Active = {}
      BY <2>2 DEF Active, Unanswered
    <2>4. InFlightIsTrue
      BY <2>3, ActiveFinite, FS_EmptySet DEF Init
    <2> QED BY <2>2, <2>4 DEF Init, JobsOK
  <1>4. BulbsOK
    BY TerminalAssumption DEF Init, BulbsOK
  <1>5. RestOK
    BY TerminalAssumption DEF Init, RestOK
  <1> QED BY <1>1, <1>2, <1>3, <1>4, <1>5 DEF Inv

(* One goroutine's step: what it does to the registry and to the events.   *)
LEMMA JobStepHolds ==
  ASSUME Inv, NEW j \in Job, JobStep(j)
  PROVE  /\ Inv'
         /\ \/ UNCHANGED bulbs \/ KeepsNames
            \/ /\ job[j].line \in Lines /\ C!WellFormed(job[j].line) /\ job[j].line.verb = "name"
               /\ job[j].lamp \in DeviceId
               /\ Rename(job[j].lamp, job[j].line.text)
  <1> USE DEF Inv
  <1>1. JobsOK'
    BY RunJobStep, ActJobStep DEF JobStep
  <1>2. UNCHANGED <<feed, prompt, entered, screen, program>>
    BY DEF JobStep, RunJob, RenameJob, ApplyJob
  <1>3. FeedOK' /\ PromptOK'
    BY <1>2, FeedStep, PromptStep
  <1>4. RestOK'
    <2>1. UNCHANGED events \/ Published
      BY DEF JobStep, RunJob, RenameJob, ApplyJob, events
    <2> QED BY <1>2, <2>1, TerminalAssumption DEF RestOK, events, Published, Least
  <1>5. CASE RunJob(j)
    BY <1>1, <1>3, <1>4, <1>5 DEF RunJob, BulbsOK
  <1>6. CASE RenameJob(j)
    <2>1. /\ job[j].line \in Lines /\ C!WellFormed(job[j].line) /\ job[j].line.verb = "name"
          /\ job[j].lamp \in DeviceId /\ job[j].line.text \in Name
      BY <1>6, TerminalAssumption DEF RenameJob, JobsOK
    <2>2. CASE UNCHANGED bulbs
      BY <1>1, <1>3, <1>4, <2>2 DEF BulbsOK
    <2>3. CASE Rename(job[j].lamp, job[j].line.text)
      BY <1>1, <1>3, <1>4, <2>1, <2>3, RenameStep
    <2> QED BY <1>6, <2>2, <2>3 DEF RenameJob
  <1>7. CASE ApplyJob(j)
    <2>1. job[j].lamp \in DeviceId
      BY <1>7 DEF ApplyJob, JobsOK
    <2>2. CASE UNCHANGED bulbs
      BY <1>1, <1>3, <1>4, <2>2 DEF BulbsOK
    <2>3. CASE \E want \in LightState : SetDesired(job[j].lamp, want)
      BY <1>1, <1>3, <1>4, <2>1, <2>3, SetStateStep
    <2> QED BY <1>7, <2>2, <2>3 DEF ApplyJob
  <1> QED BY <1>5, <1>6, <1>7 DEF JobStep

(* Update's step leaves the registry alone.                                *)
LEMMA UpdateHolds ==
  ASSUME Inv,
         \/ Key
         \/ \E h \in Screen : WindowSize(h)
         \/ ShowEvent \/ ReceiveEvent \/ Stop
         \/ \E j \in Job : ShowResult(j)
         \/ UNCHANGED vars
  PROVE  Inv' /\ UNCHANGED bulbs
  <1> USE DEF Inv
  <1>1. UNCHANGED bulbs
    BY DEF Key, Enter, QuitKey, Type, Recall, Page, WindowSize, ShowEvent, ReceiveEvent, Stop,
           ShowResult, vars
  <1>2. BulbsOK'
    BY <1>1 DEF BulbsOK
  <1>3. FeedOK'
    <2>1. \A h \in Int : VisibleFeedLines(h) \in Nat
      BY DEF VisibleFeedLines, Most
    <2>2. ASSUME NEW dir \in {1, -1}, Page(dir) PROVE \E delta \in Int : Scroll(delta)
      <3>1. VisibleFeedLines(screen) \in Nat
        BY <2>1 DEF RestOK
      <3>2. VisibleFeedLines(screen) \div 2 \in Int
        BY <3>1
      <3>3. dir * (VisibleFeedLines(screen) \div 2) \in Int
        BY <3>2
      <3> QED BY <2>2, <3>3 DEF Page
    <2>3. ASSUME NEW h \in Screen, WindowSize(h) PROVE \E g \in Int : Resize(g)
      BY <2>1, <2>3, TerminalAssumption DEF WindowSize
    <2>4. ASSUME ShowEvent \/ \E j \in Job : ShowResult(j)
          PROVE  UNCHANGED feed \/ \E n \in Nat : Add(n)
      BY <2>4, TerminalAssumption DEF ShowEvent, ShowResult
    <2>5. ASSUME Enter PROVE UNCHANGED feed \/ Add(1)
      BY <2>5 DEF Enter
    <2>6. ASSUME \/ QuitKey \/ ReceiveEvent \/ Stop \/ UNCHANGED vars
                 \/ \E l \in Lines : Type(l)
                 \/ \E dir \in {1, -1} : Recall(dir)
          PROVE  UNCHANGED feed
      BY <2>6 DEF QuitKey, ReceiveEvent, Stop, Type, Recall, vars
    <2> QED BY <2>2, <2>3, <2>4, <2>5, <2>6, FeedStep DEF Key
  <1>4. PromptOK'
    <2>1. ASSUME ~(Enter \/ (\E l \in Lines : Type(l)) \/ (\E dir \in {1, -1} : Recall(dir)))
          PROVE  UNCHANGED <<prompt, entered>>
      BY <2>1 DEF Key, QuitKey, Page, WindowSize, ShowEvent, ReceiveEvent, Stop, ShowResult, vars
    <2> QED BY <2>1, PromptStep
  <1>5. JobsOK'
    <2>1. ASSUME ~Enter, ~(\E j \in Job : ShowResult(j)) PROVE UNCHANGED <<job, inFlight, entered>>
      BY <2>1 DEF Key, QuitKey, Page, Type, Recall, WindowSize, ShowEvent, ReceiveEvent, Stop, vars
    <2>2. UNCHANGED <<job, inFlight, entered>> => JobsOK'
      BY DEF JobsOK, InFlightIsTrue
    <2> QED BY <2>1, <2>2, EnterStep, ShowResultStep
  <1>6. RestOK'
    BY TerminalAssumption
       DEF Key, Enter, QuitKey, QuitNow, Type, Recall, Page, WindowSize, ShowEvent, ReceiveEvent,
           Stop, ShowResult, vars, events, RestOK
  <1> QED BY <1>1, <1>2, <1>3, <1>4, <1>5, <1>6

(* A bulb's step changes the registry, but no name.                        *)
LEMMA BulbHolds ==
  ASSUME Inv, NEW d \in DeviceId,
         BulbReports(d) \/ BulbLeaves(d) \/ \E s \in Session : BulbConnects(d, s)
  PROVE  Inv' /\ KeepsNames
  <1> USE DEF Inv
  <1>1. BulbsOK' /\ KeepsNames
    BY SetStateStep, ConnectStep, LeaveStep DEF BulbReports
  <1>2. UNCHANGED <<feed, screen, prompt, inFlight, program, entered, job>> /\ Published
    BY DEF BulbReports, BulbLeaves, BulbConnects
  <1>3. FeedOK' /\ PromptOK'
    BY <1>2, FeedStep, PromptStep
  <1>4. JobsOK'
    BY <1>2 DEF JobsOK, InFlightIsTrue
  <1>5. RestOK'
    BY <1>2, TerminalAssumption DEF RestOK, Published, Least
  <1> QED BY <1>1, <1>3, <1>4, <1>5

LEMMA StepHolds == Inv /\ [Next]_vars => Inv'
  BY JobStepHolds, UpdateHolds, BulbHolds DEF Next

(* Whatever the order of keys, resizes, events and results: the window is  *)
(* inside the feed (feed.clampOffset), historyPos inside the history, which *)
(* Update indexes with it (Model.recall), and the status bar counts the    *)
(* commands that are not answered (Model.inFlight).                        *)
THEOREM AlwaysConsistent == Spec => []Consistent
  BY InitHolds, StepHolds, InvIsEnough, PTL DEF Spec

-----------------------------------------------------------------------------
(* The names of the lamps, those that are not known yet included: a lamp   *)
(* that connects for the first time is named after its id, and nobody may  *)
(* have that name by then.  A rename looks only at the lamps there are, so *)
(* that the others have no name but their id is part of the invariant.     *)
NamesOK ==
  /\ \A d, e \in DeviceId : bulbs[d].name = bulbs[e].name => d = e
  /\ \A d, e \in DeviceId : bulbs[d].name = e => d = e
  /\ \A d \in DeviceId : Known(d) \/ bulbs[d].name = d

LEMMA KeptNames ==
  ASSUME NamesOK, UNCHANGED bulbs \/ KeepsNames
  PROVE  NamesOK'
  <1>1. KeepsNames
    BY DEF KeepsNames, Known
  <1> QED BY <1>1 DEF NamesOK, KeepsNames

(* A rename to what is nobody's id, and the name of none of the lamps      *)
(* there are.                                                              *)
LEMMA GivenName ==
  ASSUME BulbsOK, NamesOK, NEW d \in DeviceId, NEW n \in Name, n \notin DeviceId, Rename(d, n)
  PROVE  NamesOK'
  <1>1. /\ bulbs'[d].name = n /\ Known(d)'
        /\ \A e \in DeviceId \ {d} : bulbs'[e] = bulbs[e]
    BY RenameStep
  <1>2. \A e \in DeviceId \ {d} : bulbs[e].name # n
    <2> SUFFICES ASSUME NEW e \in DeviceId \ {d}, bulbs[e].name = n PROVE FALSE
      OBVIOUS
    <2>1. CASE Known(e)
      BY <2>1, RenameStep DEF NameInUse
    <2>2. CASE bulbs[e].name = e
      BY <2>2
    <2> QED BY <2>1, <2>2 DEF NamesOK
  <1>3. \A a, b \in DeviceId : bulbs'[a].name = bulbs'[b].name => a = b
    BY <1>1, <1>2 DEF NamesOK
  <1>4. \A a, b \in DeviceId : bulbs'[a].name = b => a = b
    BY <1>1 DEF NamesOK
  <1>5. \A e \in DeviceId : Known(e)' \/ bulbs'[e].name = e
    BY <1>1 DEF NamesOK, Known
  <1> QED BY <1>3, <1>4, <1>5 DEF NamesOK

(* What Resolve answers, if names are what NamesOK says.                   *)
LEMMA Addressable == NamesOK => EveryLampAddressable
  <1> SUFFICES ASSUME NamesOK, NEW d \in DeviceId, Known(d)
               PROVE  Resolve(bulbs[d].name) = {d} /\ Resolve(d) = {d}
    BY DEF EveryLampAddressable
  <1>1. {e \in DeviceId : Known(e) /\ bulbs[e].name = bulbs[d].name} = {d}
    BY DEF NamesOK
  <1>2. Resolve(bulbs[d].name) = {d}
    BY <1>1 DEF Resolve
  <1> DEFINE named == {e \in DeviceId : Known(e) /\ bulbs[e].name = d}
  <1>3. named = {d} \/ named = {}
    BY DEF NamesOK
  <1>4. Resolve(d) = IF named # {} THEN named ELSE {d}
    BY DEF Resolve
  <1> QED BY <1>2, <1>3, <1>4

LEMMA NamesInit == PlainNames /\ Init => NamesOK
  <1> SUFFICES ASSUME PlainNames, Init PROVE NamesOK
    OBVIOUS
  <1>1. bulbs \in Stored
    BY DEF Init
  <1>2. /\ \A d, e \in DeviceId : bulbs[d].name = bulbs[e].name => d = e
        /\ \A d, e \in DeviceId : bulbs[d].name = e => d = e
    BY <1>1 DEF PlainNames
  <1>3. ASSUME NEW d \in DeviceId PROVE Known(d) \/ bulbs[d].name = d
    <2>1. CASE bulbs[d] = NoBulb(d)
      BY <2>1 DEF NoBulb
    <2>2. CASE bulbs[d] \in LoadedBulb
      BY <2>2 DEF LoadedBulb, Known
    <2>3. \A r \in Stored : \A e \in DeviceId : r[e] = NoBulb(e) \/ r[e] \in LoadedBulb
      BY TerminalAssumption
    <2> QED BY <1>1, <2>1, <2>2, <2>3
  <1> QED BY <1>2, <1>3 DEF NamesOK

LEMMA NamesStep == PlainNames /\ Inv /\ NamesOK /\ [Next]_vars => NamesOK'
  <1> SUFFICES ASSUME PlainNames, Inv, NamesOK, [Next]_vars PROVE NamesOK'
    OBVIOUS
  <1>1. ASSUME NEW j \in Job, JobStep(j) PROVE NamesOK'
    <2>1. CASE UNCHANGED bulbs \/ KeepsNames
      BY <2>1, KeptNames
    <2>2. ASSUME job[j].line \in Lines, C!WellFormed(job[j].line), job[j].line.verb = "name",
                 job[j].lamp \in DeviceId, Rename(job[j].lamp, job[j].line.text)
          PROVE  NamesOK'
      <3>1. job[j].line.text \in Name \ DeviceId
        BY <2>2, TerminalAssumption DEF PlainNames
      <3>2. PICK d \in DeviceId : d = job[j].lamp
        BY <2>2
      <3>3. PICK n \in Name \ DeviceId : n = job[j].line.text
        BY <3>1
      <3>4. Rename(d, n)
        BY <2>2, <3>2, <3>3
      <3> QED BY <3>4, GivenName DEF Inv
    <2> QED BY <1>1, <2>1, <2>2, JobStepHolds
  <1>2. ASSUME NEW d \in DeviceId,
               BulbReports(d) \/ BulbLeaves(d) \/ \E s \in Session : BulbConnects(d, s)
        PROVE  NamesOK'
    BY <1>2, BulbHolds, KeptNames
  <1>3. ASSUME \/ Key
               \/ \E h \in Screen : WindowSize(h)
               \/ ShowEvent \/ ReceiveEvent \/ Stop
               \/ \E j \in Job : ShowResult(j)
               \/ UNCHANGED vars
        PROVE  NamesOK'
    BY <1>3, UpdateHolds, KeptNames
  <1> QED BY <1>1, <1>2, <1>3 DEF Next

(* However the goroutines of the commands interleave (Model.runCommand),   *)
(* with one another and with bulbs that connect for the first time:        *)
(* Registry.Resolve finds each lamp by its name and by its id, as long as  *)
(* no lamp is named after the id of another.                               *)
THEOREM AlwaysAddressable ==
  ASSUME PlainNames
  PROVE  Spec => []EveryLampAddressable
  <1>1. Init => Inv /\ NamesOK
    BY InitHolds, NamesInit
  <1>2. Inv /\ NamesOK /\ [Next]_vars => (Inv /\ NamesOK)'
    BY StepHolds, NamesStep
  <1>3. Inv /\ NamesOK => EveryLampAddressable
    BY Addressable
  <1> QED BY <1>1, <1>2, <1>3, PTL DEF Spec

=============================================================================
