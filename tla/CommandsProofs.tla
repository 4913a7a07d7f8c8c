---------------------------- MODULE CommandsProofs ----------------------------
(***************************************************************************)
(* Proofs about Commands, for any number of callers, calls, milliseconds   *)
(* and any capabilities of the lamp, about what a lamp becomes that        *)
(* carries out the commands of a change, and about the conversions of      *)
(* HomeAssistant, its caller.                                              *)
(***************************************************************************)
EXTENDS HomeAssistant, TLAPS

Fields == {"power", "brightness", "temp"}

Stamp == 0..MaxClock

(* A property of a command or a report: the name of a field and a value.   *)
Prop == [name : {"power"}, value : BOOLEAN]
          \cup [name : {"brightness", "temp"}, value : Percent]

Command == [by : Caller, stamp : Stamp, prop : Prop]
Ack == [kind : {"ack"}, stamp : Stamp, accepted : BOOLEAN]
Report == [kind : {"report"}, stamp : Stamp, prop : Prop]

Results == {"none", "refused", "failed", "unconfirmed", "ok"}

TypeOK ==
  /\ clock \in Stamp
  /\ listed \in BOOLEAN
  /\ closed \in BOOLEAN
  /\ open \in BOOLEAN
  /\ state \in LightState
  /\ down \in Seq(Command)
  /\ up \in Seq(Ack \cup Report)
  /\ table \in [Stamp -> Caller \cup {Nil}]
  /\ calls \in [Caller -> Nat]
  /\ pc \in [Caller -> PC]
  /\ change \in [Caller -> Change]
  /\ want \in [Caller -> LightState]
  /\ props \in [Caller -> Seq(Prop)]
  /\ stamp \in [Caller -> Stamp]
  /\ done \in [Caller -> {Nil, "ok", "rejected"}]
  /\ expired \in [Caller -> BOOLEAN]
  /\ unconfirmed \in [Caller -> BOOLEAN]
  /\ result \in [Caller -> Results]
  /\ fate \in [Caller -> {"none", "accepted", "rejected"}]
  /\ sent \in [Stamp -> Nat]
  /\ stale \in SUBSET Caller

(* A call that is sending has something left to send.                      *)
HasProps == \A c \in Caller : pc[c] \in {"encode", "write", "wait"} => props[c] # <<>>

TypeInv == TypeOK /\ HasProps

-----------------------------------------------------------------------------
(* Sequences, by their indices.                                            *)
LEMMA TailOf ==
  ASSUME NEW S, NEW s \in Seq(S), s # <<>>
  PROVE  /\ Head(s) = s[1] /\ 1 \in DOMAIN s /\ Head(s) \in S
         /\ Tail(s) \in Seq(S)
         /\ DOMAIN Tail(s) = 1..(Len(s) - 1)
         /\ \A i \in DOMAIN Tail(s) : Tail(s)[i] = s[i + 1] /\ i + 1 \in DOMAIN s
         /\ Len(s) > 1 => Tail(s) # <<>>
  <1>1. Len(s) \in Nat \ {0} /\ DOMAIN s = 1..Len(s)
    OBVIOUS
  <1>2. Tail(s) \in Seq(S) /\ Len(Tail(s)) = Len(s) - 1
    BY <1>1
  <1>3. \A i \in 1..(Len(s) - 1) : Tail(s)[i] = s[i + 1]
    BY <1>1
  <1>4. Head(s) = s[1]
    OBVIOUS
  <1>5. s[1] \in S
    BY <1>1
  <1>6. DOMAIN Tail(s) = 1..(Len(s) - 1)
    BY <1>2
  <1>7. Len(s) > 1 => Tail(s) # <<>>
    <2>1. Tail(s) = <<>> => Len(Tail(s)) = Len(<<>>)
      BY Zenon
    <2>2. Len(<<>>) = 0
      OBVIOUS
    <2> QED BY <1>1, <1>2, <2>1, <2>2
  <1> QED BY <1>1, <1>2, <1>3, <1>4, <1>5, <1>6, <1>7

LEMMA AppendOf ==
  ASSUME NEW S, NEW s \in Seq(S), NEW e \in S
  PROVE  /\ Append(s, e) \in Seq(S)
         /\ DOMAIN Append(s, e) = DOMAIN s \cup {Len(s) + 1}
         /\ Len(s) + 1 \notin DOMAIN s
         /\ \A i \in DOMAIN s : Append(s, e)[i] = s[i]
         /\ Append(s, e)[Len(s) + 1] = e
  OBVIOUS

LEMMA ConcatAt ==
  ASSUME NEW S, NEW s \in Seq(S), NEW t \in Seq(S)
  PROVE  /\ s \o t \in Seq(S)
         /\ Len(s \o t) = Len(s) + Len(t)
         /\ \A i \in 1..Len(s) : (s \o t)[i] = s[i]
  OBVIOUS

LEMMA ConcatOf ==
  ASSUME NEW S, NEW s \in Seq(S), NEW t \in Seq(S)
  PROVE  /\ s \o t \in Seq(S)
         /\ \A i \in DOMAIN (s \o t) :
              \/ i \in DOMAIN s /\ (s \o t)[i] = s[i]
              \/ \E j \in DOMAIN t : (s \o t)[i] = t[j]
  OBVIOUS

-----------------------------------------------------------------------------
(* The commands of a change: each of them is for a field in which the      *)
(* wanted state differs, with the wanted value (ChangedProps).             *)
Differs(p, current, next) ==
  /\ p \in Prop
  /\ p.name \in Fields
  /\ p.value = next[p.name]
  /\ next[p.name] # current[p.name]

LEMMA ChangedPropsDiffer ==
  ASSUME NEW caps \in Capabilities, NEW current \in LightState, NEW next \in LightState
  PROVE  /\ ChangedProps(caps, current, next) \in Seq(Prop)
         /\ \A i \in DOMAIN ChangedProps(caps, current, next) :
              Differs(ChangedProps(caps, current, next)[i], current, next)
  <1> DEFINE D == {p \in Prop : Differs(p, current, next)}
             one(name, needed) ==
               IF needed THEN <<[name |-> name, value |-> next[name]]>> ELSE <<>>
             s1 == one("power", next.power /\ ~current.power)
             s2 == one("brightness", /\ next.power
                                     /\ next.brightness > 0
                                     /\ next.brightness # current.brightness)
             s3 == one("temp", next.power /\ SupportsColorTemp(caps) /\ next.temp # current.temp)
             s4 == one("power", ~next.power /\ current.power)
  <1>1. ChangedProps(caps, current, next) = s1 \o s2 \o s3 \o s4
    BY DEF ChangedProps
  <1>2. s1 \in Seq(D)
    <2>1. CASE next.power /\ ~current.power
      <3>1. [name |-> "power", value |-> next["power"]] \in D
        BY <2>1 DEF Differs, Prop, LightState, Fields
      <3> QED BY <2>1, <3>1
    <2> QED BY <2>1
  <1>3. s2 \in Seq(D)
    <2>1. CASE next.brightness # current.brightness
      <3>1. [name |-> "brightness", value |-> next["brightness"]] \in D
        BY <2>1 DEF Differs, Prop, LightState, Fields
      <3>2. <<[name |-> "brightness", value |-> next["brightness"]]>> \in Seq(D)
        BY <3>1
      <3>3. <<>> \in Seq(D)
        OBVIOUS
      <3> HIDE DEF D
      <3> QED BY <3>2, <3>3, Zenon
    <2> QED BY <2>1
  <1>4. s3 \in Seq(D)
    <2>1. CASE next.temp # current.temp
      <3>1. [name |-> "temp", value |-> next["temp"]] \in D
        BY <2>1 DEF Differs, Prop, LightState, Fields
      <3>2. <<[name |-> "temp", value |-> next["temp"]]>> \in Seq(D)
        BY <3>1
      <3>3. <<>> \in Seq(D)
        OBVIOUS
      <3> HIDE DEF D
      <3> QED BY <3>2, <3>3, Zenon
    <2> QED BY <2>1
  <1>5. s4 \in Seq(D)
    <2>1. CASE ~next.power /\ current.power
      <3>1. [name |-> "power", value |-> next["power"]] \in D
        BY <2>1 DEF Differs, Prop, LightState, Fields
      <3> QED BY <2>1, <3>1
    <2> QED BY <2>1
  <1> HIDE DEF s1, s2, s3, s4
  <1>6. s1 \o s2 \o s3 \o s4 \in Seq(D)
    <2>1. s1 \o s2 \in Seq(D)
      BY <1>2, <1>3, ConcatOf
    <2>2. s1 \o s2 \o s3 \in Seq(D)
      BY <2>1, <1>4, ConcatOf
    <2> QED BY <2>2, <1>5, ConcatOf
  <1> DEFINE s == ChangedProps(caps, current, next)
  <1>7. s \in Seq(D)
    BY <1>1, <1>6
  <1> HIDE DEF s
  <1>8. s \in Seq(Prop)
    BY <1>7
  <1>9. \A i \in DOMAIN s : s[i] \in D
    BY <1>7
  <1> QED BY <1>8, <1>9 DEF s

LEMMA ResolveType ==
  ASSUME NEW caps \in Capabilities, NEW current \in LightState, NEW ch \in Change,
         ~Refused(caps, ch)
  PROVE  Resolve(current, ch) \in LightState
  <1> DEFINE w == Resolve(current, ch)
  <1> USE LightsAssumption
  <1>1. w.power \in BOOLEAN
    <2>1. current.power \in BOOLEAN /\ ch.power \in BOOLEAN \cup {Nil}
      BY DEF LightState, Change
    <2>2. (ch.brightness > 0) \in BOOLEAN
      OBVIOUS
    <2>3. \/ w.power = current.power
          \/ w.power = (ch.brightness > 0)
          \/ ch.power # Nil /\ w.power = ch.power
      BY Zenon DEF Resolve
    <2> QED BY <2>1, <2>2, <2>3
  <1>2. w.brightness \in Percent
    BY DEF Resolve, LightState, Change, Refused, Percent
  <1>3. w.temp \in Percent
    BY DEF Resolve, LightState, Change, Refused, Percent
  <1> QED BY <1>1, <1>2, <1>3 DEF Resolve, LightState

(* A change that is resolved differs from the state only where it says so. *)
LEMMA ResolveIsAbout ==
  ASSUME NEW current \in LightState, NEW ch \in Change, NEW f \in Fields,
         Resolve(current, ch)[f] # current[f]
  PROVE  f \in About(ch, Resolve(current, ch))
  <1> USE LightsAssumption
  <1>1. CASE f = "power"
    BY <1>1 DEF Resolve, About, LightState, Change, Fields
  <1>2. CASE f = "brightness"
    BY <1>2 DEF Resolve, About, LightState, Change, Fields
  <1>3. CASE f = "temp"
    BY <1>3 DEF Resolve, About, LightState, Change, Fields
  <1> QED BY <1>1, <1>2, <1>3 DEF Fields

(* A report moves one field of the reported state.                         *)
LEMMA ReportedType ==
  ASSUME NEW st \in LightState, NEW p \in Prop
  PROVE  [st EXCEPT ![p.name] = p.value] \in LightState
  <1>1. CASE p \in [name : {"power"}, value : BOOLEAN]
    BY <1>1 DEF LightState
  <1>2. CASE p \in [name : {"brightness", "temp"}, value : Percent] /\ p.name = "brightness"
    BY <1>2 DEF LightState
  <1>3. CASE p \in [name : {"brightness", "temp"}, value : Percent] /\ p.name = "temp"
    BY <1>3 DEF LightState
  <1> QED BY <1>1, <1>2, <1>3 DEF Prop

(* What an answer of the lamp says of the command it names.                *)
Means(u) == IF u.kind = "ack" /\ ~u.accepted THEN "rejected" ELSE "accepted"

LEMMA AnswersTyped ==
  ASSUME NEW m \in Command, NEW v \in {"accepted", "rejected"}, NEW a \in Answers(m)[v]
  PROVE  /\ a \in Seq(Ack \cup Report)
         /\ \A j \in DOMAIN a : a[j].stamp = m.stamp /\ Means(a[j]) = v
  <1> DEFINE ack(ok) == [kind |-> "ack", stamp |-> m.stamp, accepted |-> ok]
             report == [kind |-> "report", stamp |-> m.stamp, prop |-> m.prop]
  <1>1. /\ ack(TRUE) \in Ack /\ ack(FALSE) \in Ack /\ report \in Report
        /\ ack(TRUE).stamp = m.stamp /\ Means(ack(TRUE)) = "accepted"
        /\ ack(FALSE).stamp = m.stamp /\ Means(ack(FALSE)) = "rejected"
        /\ report.stamp = m.stamp /\ Means(report) = "accepted"
    BY DEF Command, Ack, Report, Means
  <1>2. /\ v = "accepted" => a \in {<<>>, <<ack(TRUE)>>, <<report>>, <<ack(TRUE), report>>}
        /\ v = "rejected" => a = <<ack(FALSE)>>
    BY DEF Answers
  <1> HIDE DEF ack, report
  <1> DEFINE S == Ack \cup Report
             Good(b) == b \in Seq(S) /\ \A j \in DOMAIN b : b[j].stamp = m.stamp /\ Means(b[j]) = v
  <1>3. ASSUME NEW x \in S, x.stamp = m.stamp, Means(x) = v PROVE Good(<<x>>)
    BY <1>3
  <1>4. ASSUME NEW x \in S, x.stamp = m.stamp, Means(x) = v,
               NEW y \in S, y.stamp = m.stamp, Means(y) = v
        PROVE  Good(<<x, y>>)
    BY <1>4
  <1>5. Good(<<>>)
    OBVIOUS
  <1> HIDE DEF Good
  <1>6. ASSUME v = "accepted" PROVE Good(a)
    <2>1. Good(<<ack(TRUE)>>) /\ Good(<<report>>)
      BY <1>1, <1>3, <1>6
    <2>2. Good(<<ack(TRUE), report>>)
      BY <1>1, <1>4, <1>6
    <2> QED BY <1>2, <1>5, <1>6, <2>1, <2>2
  <1>7. ASSUME v = "rejected" PROVE Good(a)
    <2>1. Good(<<ack(FALSE)>>)
      BY <1>1, <1>3, <1>7
    <2> QED BY <1>2, <1>7, <2>1
  <1>8. Good(a)
    BY <1>6, <1>7
  <1> QED BY <1>8 DEF Good

LEMMA InitTyped == Init => TypeInv
  <1> SUFFICES ASSUME Init PROVE TypeInv
    OBVIOUS
  <1> USE LightsAssumption, CommandsAssumption
  <1>1. NoChange \in Change
    BY DEF NoChange, Change
  <1>2. Dark \in LightState
    BY DEF Dark, LightState, Percent
  <1>3. 0 \in Stamp
    BY DEF Stamp
  <1>4. <<>> \in Seq(Command) /\ <<>> \in Seq(Ack \cup Report) /\ <<>> \in Seq(Prop)
    OBVIOUS
  <1>6. /\ down \in Seq(Command) /\ up \in Seq(Ack \cup Report)
        /\ props \in [Caller -> Seq(Prop)]
    BY <1>4 DEF Init
  <1>7. /\ clock \in Stamp /\ state \in LightState
        /\ stamp \in [Caller -> Stamp] /\ sent \in [Stamp -> Nat]
        /\ table \in [Stamp -> Caller \cup {Nil}]
    BY <1>3 DEF Init, Stamp
  <1>8. /\ change \in [Caller -> Change] /\ want \in [Caller -> LightState]
        /\ pc \in [Caller -> PC] /\ result \in [Caller -> Results]
        /\ done \in [Caller -> {Nil, "ok", "rejected"}]
        /\ fate \in [Caller -> {"none", "accepted", "rejected"}]
    BY <1>1, <1>2 DEF Init, PC, Results
  <1>9. /\ listed \in BOOLEAN /\ closed \in BOOLEAN /\ open \in BOOLEAN
        /\ expired \in [Caller -> BOOLEAN] /\ unconfirmed \in [Caller -> BOOLEAN]
        /\ calls \in [Caller -> Nat] /\ stale \in SUBSET Caller
    BY DEF Init
  <1>10. TypeOK
    BY <1>6, <1>7, <1>8, <1>9 DEF TypeOK
  <1>5. HasProps
    BY DEF Init, HasProps
  <1> QED BY <1>5, <1>10 DEF TypeInv

(* What of a call a return resets.                                         *)
LEMMA ReturnTyped ==
  ASSUME TypeInv, NEW c \in Caller, NEW r \in Results, Return(c, r)
  PROVE  /\ pc' \in [Caller -> PC]
         /\ result' \in [Caller -> Results]
         /\ change' \in [Caller -> Change]
         /\ want' \in [Caller -> LightState]
         /\ props' \in [Caller -> Seq(Prop)]
         /\ expired' \in [Caller -> BOOLEAN]
         /\ unconfirmed' \in [Caller -> BOOLEAN]
         /\ stale' \in SUBSET Caller
         /\ HasProps'
  <1> USE LightsAssumption DEF TypeInv, TypeOK, Return, Goto
  <1>1. NoChange \in Change
    BY DEF NoChange, Change
  <1>2. Dark \in LightState
    BY DEF Dark, LightState, Percent
  <1>3. "idle" \in PC
    BY DEF PC
  <1>4. HasProps'
    BY DEF HasProps
  <1>5. <<>> \in Seq(Prop)
    OBVIOUS
  <1> QED BY <1>1, <1>2, <1>3, <1>4, <1>5

LEMMA NextPropTyped ==
  ASSUME TypeInv, NEW c \in Caller, NEW m \in BOOLEAN, NextProp(c, m)
  PROVE  /\ pc' \in [Caller -> PC]
         /\ result' \in [Caller -> Results]
         /\ change' \in [Caller -> Change]
         /\ want' \in [Caller -> LightState]
         /\ props' \in [Caller -> Seq(Prop)]
         /\ expired' \in [Caller -> BOOLEAN]
         /\ unconfirmed' \in [Caller -> BOOLEAN]
         /\ stale' \in SUBSET Caller
         /\ HasProps'
  <1>1. CASE Len(props[c]) > 1
    <2>1. props[c] \in Seq(Prop) /\ props[c] # <<>>
      BY <1>1 DEF TypeInv, TypeOK
    <2>2. Tail(props[c]) \in Seq(Prop) /\ Tail(props[c]) # <<>>
      BY <1>1, <2>1, TailOf
    <2>3. "encode" \in PC
      BY DEF PC
    <2>4. /\ props' = [props EXCEPT ![c] = Tail(props[c])]
          /\ unconfirmed' = [unconfirmed EXCEPT ![c] = m]
          /\ pc' = [pc EXCEPT ![c] = "encode"]
          /\ UNCHANGED <<change, want, expired, result, stale>>
      BY <1>1 DEF NextProp, Goto
    <2>5. HasProps'
      BY <2>2, <2>4 DEF TypeInv, TypeOK, HasProps
    <2> QED BY <2>2, <2>3, <2>4, <2>5 DEF TypeInv, TypeOK
  <1>2. CASE ~(Len(props[c]) > 1)
    <2>1. (IF m THEN "unconfirmed" ELSE "ok") \in Results
      BY DEF Results
    <2> QED BY <1>2, <2>1, ReturnTyped DEF NextProp
  <1> QED BY <1>1, <1>2

(* The end of a command.                                                   *)
LEMMA ForgetTyped ==
  ASSUME TypeInv, NEW c \in Caller, Cleanup(c), Forget(c)
  PROVE  /\ table' \in [Stamp -> Caller \cup {Nil}]
         /\ stamp' \in [Caller -> Stamp]
         /\ done' \in [Caller -> {Nil, "ok", "rejected"}]
         /\ fate' \in [Caller -> {"none", "accepted", "rejected"}]
  <1>1. 0 \in Stamp
    BY CommandsAssumption DEF Stamp
  <1> QED BY <1>1 DEF TypeInv, TypeOK, Cleanup, Forget

LEMMA StepTyped == TypeInv /\ [Next]_vars => TypeInv'
  <1> SUFFICES ASSUME TypeInv, [Next]_vars PROVE TypeInv'
    OBVIOUS
  <1> USE DEF TypeInv, TypeOK, HasProps
  <1>1. CASE UNCHANGED vars
    BY <1>1 DEF vars, conn, callVars, history
  <1>2. ASSUME NEW c \in Caller, NEW ch \in Requests[c], Call(c, ch) PROVE TypeInv'
    <2>1. ch \in Change
      BY CommandsAssumption
    <2>2. calls' \in [Caller -> Nat]
      BY <1>2 DEF Call
    <2>3. CASE ~listed \/ Refused(Caps, ch)
      BY <1>2, <2>2, <2>3 DEF Call, conn, history, Results
    <2>4. CASE ~(~listed \/ Refused(Caps, ch))
      <3>1. Resolve(state, ch) \in LightState
        BY <2>1, <2>4, ResolveType, CommandsAssumption
      <3>2. change' \in [Caller -> Change] /\ want' \in [Caller -> LightState]
        BY <1>2, <2>1, <2>4, <3>1 DEF Call
      <3>3. pc' \in [Caller -> PC] /\ HasProps' /\ result' = result
        BY <1>2, <2>4 DEF Call, Goto, PC
      <3> QED BY <1>2, <2>2, <3>2, <3>3 DEF Call, conn, history
    <2> QED BY <2>3, <2>4
  <1>3. ASSUME NEW c \in Caller, TakeDriver(c) PROVE TypeInv'
    <2>1. CASE ~listed
      BY <1>3, <2>1, ReturnTyped DEF TakeDriver, conn, Results
    <2>2. CASE listed
      BY <1>3, <2>2 DEF TakeDriver, conn, locals, Goto, PC
    <2> QED BY <2>1, <2>2
  <1>4. ASSUME NEW c \in Caller, View(c) PROVE TypeInv'
    <2> DEFINE todo == ChangedProps(Caps, state, want[c])
    <2>1. todo \in Seq(Prop)
      BY ChangedPropsDiffer, CommandsAssumption
    <2> HIDE DEF todo
    <2>2. CASE todo = <<>>
      <3>1. Return(c, "ok")
        BY <1>4, <2>2 DEF View, todo
      <3> QED BY <1>4, <3>1, ReturnTyped DEF View, conn, Results
    <2>3. CASE todo # <<>>
      <3>1. /\ props' = [props EXCEPT ![c] = todo]
            /\ Goto(c, "encode")
            /\ UNCHANGED <<change, want, expired, unconfirmed, result, stale>>
        BY <1>4, <2>3 DEF View, todo
      <3>2. props' \in [Caller -> Seq(Prop)]
        BY <2>1, <3>1
      <3>3. pc' \in [Caller -> PC] /\ HasProps'
        BY <2>3, <3>1 DEF Goto, PC
      <3> QED BY <1>4, <3>1, <3>2, <3>3 DEF View, conn
    <2> QED BY <2>2, <2>3
  <1>5. ASSUME NEW c \in Caller, Enter(c) PROVE TypeInv'
    <2>1. CASE closed
      BY <1>5, <2>1, ReturnTyped DEF Enter, conn, Results
    <2>2. CASE ~closed
      <3>1. /\ table' = [table EXCEPT ![clock] = c]
            /\ stamp' = [stamp EXCEPT ![c] = clock]
            /\ sent' = [sent EXCEPT ![clock] = @ + 1]
            /\ pc[c] = "encode" /\ pc' = [pc EXCEPT ![c] = "write"]
            /\ UNCHANGED <<change, want, props, expired, unconfirmed, result, stale>>
        BY <1>5, <2>2 DEF Enter, EncodeCommand, locals, Goto
      <3>2. /\ table' \in [Stamp -> Caller \cup {Nil}]
            /\ stamp' \in [Caller -> Stamp]
            /\ sent' \in [Stamp -> Nat]
            /\ pc' \in [Caller -> PC]
        BY <3>1 DEF PC
      <3> QED BY <1>5, <3>1, <3>2 DEF Enter, conn
    <2> QED BY <2>1, <2>2
  <1>6. ASSUME NEW c \in Caller, Write(c) PROVE TypeInv'
    <2>1. Head(props[c]) \in Prop
      BY <1>6, TailOf DEF Write
    <2>2. [by |-> c, stamp |-> stamp[c], prop |-> Head(props[c])] \in Command
      BY <2>1 DEF Command
    <2>3. Append(down, [by |-> c, stamp |-> stamp[c], prop |-> Head(props[c])])
            \in Seq(Command)
      BY <2>2, AppendOf
    <2>4. down' \in Seq(Command)
      BY <1>6, <2>3 DEF Write
    <2> QED BY <1>6, <2>4 DEF Write, conn, locals, Goto, PC
  <1>6f. ASSUME NEW c \in Caller, WriteFails(c) PROVE TypeInv'
    BY <1>6f, ReturnTyped, ForgetTyped DEF WriteFails, conn, Results
  <1>7. ASSUME NEW c \in Caller, Answered(c) PROVE TypeInv'
    <2>1. CASE done[c] = "rejected"
      BY <1>7, <2>1, ReturnTyped, ForgetTyped DEF Answered, conn, Results
    <2>2. CASE done[c] # "rejected"
      BY <1>7, <2>2, NextPropTyped, ForgetTyped DEF Answered, conn
    <2> QED BY <2>1, <2>2
  <1>8. ASSUME NEW c \in Caller, GiveUp(c) PROVE TypeInv'
    BY <1>8, NextPropTyped, ForgetTyped DEF GiveUp, conn
  <1>9. ASSUME NEW c \in Caller, Expire(c) PROVE TypeInv'
    BY <1>9 DEF Expire, conn, history
  <1>10. CASE HandleReply
    <2>1. up' \in Seq(Ack \cup Report)
      BY <1>10, TailOf DEF HandleReply
    <2>2. done' \in [Caller -> {Nil, "ok", "rejected"}]
      BY <1>10 DEF HandleReply, Deliver
    <2> QED BY <1>10, <2>1, <2>2 DEF HandleReply, conn, history
  <1>11. CASE HandleReport
    <2>1. up' \in Seq(Ack \cup Report) /\ Head(up) \in Ack \cup Report
      BY <1>11, TailOf DEF HandleReport
    <2>2. done' \in [Caller -> {Nil, "ok", "rejected"}]
      BY <1>11 DEF HandleReport, Deliver
    <2>3. Head(up).prop \in Prop
      BY <1>11, <2>1 DEF HandleReport, Ack, Report
    <2>4. state' \in LightState
      BY <1>11, <2>3, ReportedType DEF HandleReport
    <2>5. stale' \in SUBSET Caller
      BY <1>11 DEF HandleReport
    <2> QED BY <1>11, <2>1, <2>2, <2>4, <2>5 DEF HandleReport, conn
  <1>12. CASE Close \/ CloseSocket
    <2>1. <<>> \in Seq(Command) /\ <<>> \in Seq(Ack \cup Report)
      OBVIOUS
    <2>2. down' \in Seq(Command) /\ up' \in Seq(Ack \cup Report)
      BY <1>12, <2>1 DEF Close, CloseSocket, ShutSocket
    <2> QED BY <1>12, <2>2 DEF Close, CloseSocket, ShutSocket, callVars, history
  <1>13. CASE Disconnect
    BY <1>13 DEF Disconnect, callVars, history
  <1>14. CASE Tick
    BY <1>14, CommandsAssumption DEF Tick, Stamp, conn, callVars, history
  <1>15. CASE LampHandles
    <2>1. Head(down) \in Command /\ down' \in Seq(Command)
      BY <1>15, TailOf DEF LampHandles
    <2>2. up' \in Seq(Ack \cup Report)
      <3>1. PICK v \in {"accepted", "rejected"} :
              \E a \in Answers(Head(down))[v] : up' = up \o a
        BY <1>15 DEF LampHandles
      <3> QED BY <2>1, <3>1, AnswersTyped, ConcatOf
    <2>3. fate' \in [Caller -> {"none", "accepted", "rejected"}]
      BY <1>15, <2>1 DEF LampHandles, Command
    <2> QED BY <1>15, <2>1, <2>2, <2>3 DEF LampHandles, conn, callVars
  <1> QED BY <1>1, <1>2, <1>3, <1>4, <1>5, <1>6, <1>6f, <1>7, <1>8, <1>9, <1>10, <1>11,
             <1>12, <1>13, <1>14, <1>15
          DEF Next, CallerStep

(* The server never works on a value outside its range: what it asks of a  *)
(* lamp and what it records are percentages, whatever is asked and         *)
(* reported (resolve, handlePropertyPost).                                 *)
THEOREM TypeCorrect == Spec => []TypeOK
  <1>1. TypeInv => TypeOK
    BY DEF TypeInv
  <1> QED BY InitTyped, StepTyped, <1>1, PTL DEF Spec

-----------------------------------------------------------------------------
(* A change of a call, from resolve to the last of its commands, as long   *)
(* as the state it was resolved against stands: the wanted state is what   *)
(* resolve makes of that state, and then each command is for a field that  *)
(* the change is about.                                                    *)
ResolvedInv ==
  \A c \in Caller \ stale :
    /\ pc[c] \in {"driver", "view"} => want[c] = Resolve(state, change[c])
    /\ pc[c] \in {"encode", "write", "wait"} =>
         \A i \in DOMAIN props[c] : props[c][i].name \in About(change[c], want[c])

(* A step that resolves nothing, moves no state under a call that has      *)
(* resolved and takes no call to its commands.                             *)
LEMMA KeepsResolved ==
  ASSUME TypeInv, ResolvedInv,
         stale \subseteq stale',
         \A c \in Caller \ stale' :
           /\ pc'[c] \in {"driver", "view"} =>
                pc[c] \in {"driver", "view"} /\ state' = state
           /\ pc'[c] \in {"encode", "write", "wait"} =>
                pc[c] \in {"encode", "write", "wait"}
           /\ UNCHANGED <<change[c], want[c], props[c]>>
  PROVE  ResolvedInv'
  <1> SUFFICES ASSUME NEW c \in Caller, c \notin stale'
               PROVE  /\ pc'[c] \in {"driver", "view"} =>
                           want'[c] = Resolve(state', change'[c])
                      /\ pc'[c] \in {"encode", "write", "wait"} =>
                           \A i \in DOMAIN props'[c] :
                             props'[c][i].name \in About(change'[c], want'[c])
    BY DEF ResolvedInv
  <1>1. c \notin stale
    OBVIOUS
  <1>2. pc'[c] \in {"driver", "view"} => want'[c] = Resolve(state', change'[c])
    BY <1>1 DEF ResolvedInv
  <1>3. pc'[c] \in {"encode", "write", "wait"} =>
          \A i \in DOMAIN props'[c] : props'[c][i].name \in About(change'[c], want'[c])
    BY <1>1 DEF ResolvedInv
  <1> QED BY <1>2, <1>3

(* The same, of the caller that moves and the state that stays.            *)
CallerKeeps(c) ==
  /\ state' = state
  /\ \A e \in Caller \ {c} : UNCHANGED <<pc[e], change[e], want[e], props[e]>>
  /\ stale \ {c} \subseteq stale'

Resolved(c) ==
  /\ pc[c] \in {"driver", "view"} => want[c] = Resolve(state, change[c])
  /\ pc[c] \in {"encode", "write", "wait"} =>
       \A i \in DOMAIN props[c] : props[c][i].name \in About(change[c], want[c])

LEMMA CallerKeepsResolved ==
  ASSUME TypeInv, ResolvedInv, NEW c \in Caller, CallerKeeps(c),
         c \notin stale' => Resolved(c)'
  PROVE  ResolvedInv'
  <1> SUFFICES ASSUME NEW e \in Caller, e \notin stale' PROVE Resolved(e)'
    BY DEF ResolvedInv, Resolved
  <1>1. CASE e = c
    BY <1>1
  <1>2. CASE e # c
    <2>1. Resolved(e)
      BY <1>2 DEF CallerKeeps, ResolvedInv, Resolved
    <2>2. /\ pc'[e] = pc[e] /\ change'[e] = change[e] /\ want'[e] = want[e]
          /\ props'[e] = props[e] /\ state' = state
      BY <1>2 DEF CallerKeeps
    <2> QED BY <2>1, <2>2 DEF Resolved
  <1> QED BY <1>1, <1>2

LEMMA ReturnKeepsResolved ==
  ASSUME TypeInv, ResolvedInv, NEW c \in Caller, NEW r \in Results, Return(c, r),
         state' = state
  PROVE  ResolvedInv'
  <1>1. pc'[c] = "idle"
    BY DEF Return, Goto, TypeInv, TypeOK
  <1>2. CallerKeeps(c)
    BY DEF Return, Goto, TypeInv, TypeOK, CallerKeeps
  <1>3. Resolved(c)'
    BY <1>1 DEF Resolved
  <1> QED BY <1>2, <1>3, CallerKeepsResolved

LEMMA NextPropKeepsResolved ==
  ASSUME TypeInv, ResolvedInv, NEW c \in Caller, pc[c] = "wait", NEW m \in BOOLEAN,
         NextProp(c, m), state' = state
  PROVE  ResolvedInv'
  <1>1. CASE Len(props[c]) > 1
    <2>1. /\ props' = [props EXCEPT ![c] = Tail(@)]
          /\ pc' = [pc EXCEPT ![c] = "encode"]
          /\ UNCHANGED <<change, want, stale>>
      BY <1>1 DEF NextProp, Goto
    <2>2. props[c] \in Seq(Prop) /\ props[c] # <<>>
      BY <1>1 DEF TypeInv, TypeOK
    <2>3. \A i \in DOMAIN Tail(props[c]) :
            Tail(props[c])[i] = props[c][i + 1] /\ i + 1 \in DOMAIN props[c]
      BY <2>2, TailOf
    <2>4. /\ props'[c] = Tail(props[c]) /\ change'[c] = change[c] /\ want'[c] = want[c]
          /\ pc'[c] = "encode"
      BY <2>1 DEF TypeInv, TypeOK
    <2>5. CallerKeeps(c)
      BY <2>1 DEF TypeInv, TypeOK, CallerKeeps
    <2>6. ASSUME c \notin stale' PROVE Resolved(c)'
      <3>1. \A i \in DOMAIN props[c] : props[c][i].name \in About(change[c], want[c])
        BY <2>1, <2>6 DEF ResolvedInv
      <3> QED BY <2>3, <2>4, <3>1 DEF Resolved
    <2> QED BY <2>5, <2>6, CallerKeepsResolved
  <1>2. CASE ~(Len(props[c]) > 1)
    <2>1. (IF m THEN "unconfirmed" ELSE "ok") \in Results
      BY DEF Results
    <2> QED BY <1>2, <2>1, ReturnKeepsResolved DEF NextProp
  <1> QED BY <1>1, <1>2

LEMMA StepResolved ==
  ASSUME TypeInv, ResolvedInv, [Next]_vars
  PROVE  ResolvedInv'
  <1> USE DEF TypeInv, TypeOK
  <1>1. CASE UNCHANGED vars
    BY <1>1 DEF vars, callVars, history, ResolvedInv
  <1>2. ASSUME NEW c \in Caller, NEW ch \in Requests[c], Call(c, ch) PROVE ResolvedInv'
    <2>1. CallerKeeps(c)
      BY <1>2 DEF Call, CallerKeeps, Goto, history
    <2>2. CASE ~listed \/ Refused(Caps, ch)
      BY <1>2, <2>1, <2>2, CallerKeepsResolved DEF Call, Resolved
    <2>3. CASE ~(~listed \/ Refused(Caps, ch))
      <3>1. /\ change' = [change EXCEPT ![c] = ch]
            /\ want' = [want EXCEPT ![c] = Resolve(state, ch)]
            /\ pc' = [pc EXCEPT ![c] = "driver"]
            /\ state' = state
        BY <1>2, <2>3 DEF Call, Goto
      <3>2. Resolved(c)'
        BY <3>1 DEF Resolved
      <3> QED BY <2>1, <3>2, CallerKeepsResolved
    <2> QED BY <2>2, <2>3
  <1>3. ASSUME NEW c \in Caller, TakeDriver(c) PROVE ResolvedInv'
    <2>1. CASE ~listed
      BY <1>3, <2>1, ReturnKeepsResolved DEF TakeDriver, Results
    <2>2. CASE listed
      <3>1. pc[c] = "driver" /\ pc' = [pc EXCEPT ![c] = "view"]
            /\ UNCHANGED <<state, change, want, props, stale>>
        BY <1>3, <2>2 DEF TakeDriver, Goto, locals
      <3>2. CallerKeeps(c)
        BY <3>1 DEF CallerKeeps
      <3>3. c \notin stale' => Resolved(c)'
        BY <3>1 DEF ResolvedInv, Resolved
      <3> QED BY <3>2, <3>3, CallerKeepsResolved
    <2> QED BY <2>1, <2>2
  <1>4. ASSUME NEW c \in Caller, View(c) PROVE ResolvedInv'
    <2> DEFINE todo == ChangedProps(Caps, state, want[c])
    <2>1. CASE todo = <<>>
      BY <1>4, <2>1, ReturnKeepsResolved DEF View, Results
    <2>2. CASE todo # <<>>
      <3>1. /\ pc[c] = "view" /\ pc' = [pc EXCEPT ![c] = "encode"]
            /\ props' = [props EXCEPT ![c] = todo]
            /\ UNCHANGED <<state, change, want, stale>>
        BY <1>4, <2>2 DEF View, Goto
      <3>2. \A i \in DOMAIN todo : Differs(todo[i], state, want[c])
        BY ChangedPropsDiffer, CommandsAssumption
      <3> HIDE DEF todo
      <3>3. CallerKeeps(c)
        BY <3>1 DEF CallerKeeps
      <3>4. ASSUME c \notin stale' PROVE Resolved(c)'
        <4>1. want[c] = Resolve(state, change[c])
          BY <3>1, <3>4 DEF ResolvedInv
        <4>2. \A i \in DOMAIN todo : todo[i].name \in About(change[c], want[c])
          BY <3>2, <4>1, ResolveIsAbout DEF Differs
        <4>3. props'[c] = todo /\ change'[c] = change[c] /\ want'[c] = want[c]
              /\ pc'[c] = "encode"
          BY <3>1
        <4> QED BY <4>2, <4>3 DEF Resolved
      <3> QED BY <3>3, <3>4, CallerKeepsResolved
    <2> QED BY <2>1, <2>2
  <1>5. ASSUME NEW c \in Caller, Enter(c) PROVE ResolvedInv'
    <2>1. CASE closed
      BY <1>5, <2>1, ReturnKeepsResolved DEF Enter, Results
    <2>2. CASE ~closed
      <3>1. /\ pc[c] = "encode" /\ pc' = [pc EXCEPT ![c] = "write"]
            /\ UNCHANGED <<state, change, want, props, stale>>
        BY <1>5, <2>2 DEF Enter, Goto, locals
      <3> QED BY <3>1, KeepsResolved
    <2> QED BY <2>1, <2>2
  <1>6. ASSUME NEW c \in Caller, Write(c) PROVE ResolvedInv'
    <2>1. /\ pc[c] = "write" /\ pc' = [pc EXCEPT ![c] = "wait"]
          /\ UNCHANGED <<state, change, want, props, stale>>
      BY <1>6 DEF Write, Goto, locals
    <2> QED BY <2>1, KeepsResolved
  <1>6f. ASSUME NEW c \in Caller, WriteFails(c) PROVE ResolvedInv'
    BY <1>6f, ReturnKeepsResolved DEF WriteFails, Results
  <1>7. ASSUME NEW c \in Caller, Answered(c) PROVE ResolvedInv'
    <2>1. CASE done[c] = "rejected"
      BY <1>7, <2>1, ReturnKeepsResolved DEF Answered, Results
    <2>2. CASE done[c] # "rejected"
      BY <1>7, <2>2, NextPropKeepsResolved DEF Answered
    <2> QED BY <2>1, <2>2
  <1>8. ASSUME NEW c \in Caller, GiveUp(c) PROVE ResolvedInv'
    BY <1>8, NextPropKeepsResolved DEF GiveUp
  <1>9. CASE \/ \E c \in Caller : Expire(c)
             \/ HandleReply \/ Close \/ CloseSocket \/ Disconnect \/ Tick \/ LampHandles
    <2>1. UNCHANGED <<state, pc, change, want, props, stale>>
      BY <1>9 DEF Expire, HandleReply, Close, CloseSocket, Disconnect, Tick, LampHandles,
                  callVars, history
    <2> QED BY <2>1, KeepsResolved
  <1>10. CASE HandleReport
    <2>1. /\ UNCHANGED <<pc, change, want, props>>
          /\ IF state' = state THEN stale' = stale
             ELSE stale' = stale \cup {c \in Caller : pc[c] \in {"driver", "view"}}
      BY <1>10 DEF HandleReport
    <2> QED BY <2>1, KeepsResolved
  <1> QED BY <1>1, <1>2, <1>3, <1>4, <1>5, <1>6, <1>6f, <1>7, <1>8, <1>9, <1>10
          DEF Next, CallerStep

(* A command goes to a field that its caller asked to change, unless the   *)
(* state moved between resolve and session.Apply, for any two or more      *)
(* front-ends that interleave (Service.Apply, ChangedProps).               *)
THEOREM AlwaysLeavesTheRest == Spec => []LeavesTheRestAlone
  <1>1. Init => ResolvedInv
    BY DEF Init, ResolvedInv
  <1>2. TypeInv /\ ResolvedInv => LeavesTheRestAlone
    <2> SUFFICES ASSUME TypeInv, ResolvedInv, NEW c \in Caller, pc[c] = "write", c \notin stale
                 PROVE  Head(props[c]).name \in About(change[c], want[c])
      BY DEF LeavesTheRestAlone
    <2>1. props[c] \in Seq(Prop) /\ props[c] # <<>>
      BY DEF TypeInv, TypeOK, HasProps
    <2> QED BY <2>1, TailOf DEF ResolvedInv
  <1> QED BY InitTyped, StepTyped, StepResolved, <1>1, <1>2, PTL DEF Spec

-----------------------------------------------------------------------------
(* Commands in flight.  Every step does one of seven things to the tables, *)
(* the connection and the answers; what else it does is of no concern to   *)
(* them.                                                                   *)
InFlight(c) == pc[c] \in {"write", "wait"}

(* The calls other than c are where they were, or at least not in flight   *)
(* and not about to be.                                                    *)
OthersStay(c) == \A e \in Caller \ {c} : pc'[e] = pc[e]

Rests ==
  /\ UNCHANGED <<table, stamp, done, fate, sent, down, up>>
  /\ \A c \in Caller : \/ pc'[c] = pc[c]
                       \/ pc[c] \notin {"write", "wait"} /\ pc'[c] \notin {"write", "wait"}

Begins(c) ==
  /\ pc[c] = "encode" /\ pc'[c] = "write" /\ OthersStay(c)
  /\ table' = [table EXCEPT ![clock] = c]
  /\ stamp' = [stamp EXCEPT ![c] = clock]
  /\ sent' = [sent EXCEPT ![clock] = @ + 1]
  /\ UNCHANGED <<done, fate, down, up>>

Writes(c) ==
  /\ pc[c] = "write" /\ pc'[c] = "wait" /\ OthersStay(c)
  /\ down' = Append(down, [by |-> c, stamp |-> stamp[c], prop |-> Head(props[c])])
  /\ UNCHANGED <<table, stamp, done, fate, sent, up>>

Ends(c) ==
  /\ InFlight(c) /\ pc'[c] \notin {"write", "wait"} /\ OthersStay(c)
  /\ Cleanup(c) /\ Forget(c)
  /\ UNCHANGED <<sent, down, up>>

Hears ==
  /\ up # <<>>
  /\ up' = Tail(up)
  /\ Deliver(Head(up).stamp, IF Means(Head(up)) = "accepted" THEN "ok" ELSE "rejected")
  /\ UNCHANGED <<pc, table, stamp, fate, sent, down>>

Loses ==
  /\ down' = <<>> /\ up' = <<>>
  /\ UNCHANGED <<pc, table, stamp, done, fate, sent>>

LEMMA FlightSteps ==
  ASSUME TypeInv, [Next]_vars
  PROVE  \/ Rests \/ Hears \/ Loses \/ LampHandles
         \/ \E c \in Caller : Begins(c) \/ Writes(c) \/ Ends(c)
  <1> USE DEF TypeInv, TypeOK
  <1>1. CASE UNCHANGED vars
    BY <1>1 DEF vars, callVars, history, Rests
  <1>2. ASSUME NEW c \in Caller, NEW r \in Results, Return(c, r)
        PROVE  pc'[c] = "idle" /\ OthersStay(c)
    BY <1>2 DEF Return, Goto, OthersStay
  <1>3. ASSUME NEW c \in Caller, NEW m \in BOOLEAN, NextProp(c, m)
        PROVE  pc'[c] \in {"idle", "encode"} /\ OthersStay(c)
    <2>1. CASE Len(props[c]) > 1
      BY <1>3, <2>1 DEF NextProp, Goto, OthersStay
    <2>2. CASE ~(Len(props[c]) > 1)
      <3>1. (IF m THEN "unconfirmed" ELSE "ok") \in Results
        BY DEF Results
      <3> QED BY <1>2, <1>3, <2>2, <3>1 DEF NextProp
    <2> QED BY <2>1, <2>2
  <1>4. ASSUME NEW c \in Caller, NEW ch \in Requests[c], Call(c, ch) PROVE Rests
    <2>1. UNCHANGED <<table, stamp, done, fate, sent, down, up>>
      BY <1>4 DEF Call, history
    <2>2. pc[c] = "idle" /\ (pc' = pc \/ pc' = [pc EXCEPT ![c] = "driver"])
      BY <1>4 DEF Call, Goto
    <2> QED BY <2>1, <2>2 DEF Rests
  <1>5. ASSUME NEW c \in Caller, TakeDriver(c) PROVE Rests
    <2>1. UNCHANGED <<table, stamp, done, fate, sent, down, up>>
      BY <1>5 DEF TakeDriver
    <2>2. pc[c] = "driver" /\ pc'[c] \in {"idle", "view"} /\ OthersStay(c)
      <3>1. CASE ~listed
        BY <1>2, <1>5, <3>1 DEF TakeDriver, Results
      <3>2. CASE listed
        BY <1>5, <3>2 DEF TakeDriver, Goto, OthersStay
      <3> QED BY <3>1, <3>2
    <2> QED BY <2>1, <2>2 DEF Rests, OthersStay
  <1>6. ASSUME NEW c \in Caller, View(c) PROVE Rests
    <2>1. UNCHANGED <<table, stamp, done, fate, sent, down, up>>
      BY <1>6 DEF View
    <2>2. pc[c] = "view" /\ pc'[c] \in {"idle", "encode"} /\ OthersStay(c)
      <3>1. CASE Return(c, "ok")
        BY <1>2, <1>6, <3>1 DEF View, Results
      <3>2. CASE Goto(c, "encode")
        BY <1>6, <3>2 DEF View, Goto, OthersStay
      <3> QED BY <1>6, <3>1, <3>2 DEF View
    <2> QED BY <2>1, <2>2 DEF Rests, OthersStay
  <1>7. ASSUME NEW c \in Caller, Enter(c) PROVE Rests \/ Begins(c)
    <2>1. CASE closed
      <3>1. UNCHANGED <<table, stamp, done, fate, sent, down, up>>
        BY <1>7, <2>1 DEF Enter
      <3>2. pc[c] = "encode" /\ pc'[c] = "idle" /\ OthersStay(c)
        BY <1>2, <1>7, <2>1 DEF Enter, Results
      <3> QED BY <3>1, <3>2 DEF Rests, OthersStay
    <2>2. CASE ~closed
      BY <1>7, <2>2 DEF Enter, EncodeCommand, Goto, Begins, OthersStay
    <2> QED BY <2>1, <2>2
  <1>8. ASSUME NEW c \in Caller, Write(c) PROVE Writes(c)
    BY <1>8 DEF Write, Goto, Writes, OthersStay
  <1>8f. ASSUME NEW c \in Caller, WriteFails(c) PROVE Ends(c)
    <2>1. pc[c] = "write" /\ pc'[c] = "idle" /\ OthersStay(c)
      BY <1>2, <1>8f DEF WriteFails, Results
    <2> QED BY <1>8f, <2>1 DEF WriteFails, Ends, InFlight
  <1>9. ASSUME NEW c \in Caller, Answered(c) PROVE Ends(c)
    <2>1. pc'[c] \in {"idle", "encode"} /\ OthersStay(c)
      BY <1>2, <1>3, <1>9 DEF Answered, Results
    <2> QED BY <1>9, <2>1 DEF Answered, Ends, InFlight
  <1>10. ASSUME NEW c \in Caller, GiveUp(c) PROVE Ends(c)
    <2>1. pc'[c] \in {"idle", "encode"} /\ OthersStay(c)
      BY <1>3, <1>10 DEF GiveUp
    <2> QED BY <1>10, <2>1 DEF GiveUp, Ends, InFlight
  <1>11. CASE HandleReply
    <2>1. Head(up) \in Ack \cup Report
      BY <1>11, TailOf DEF HandleReply
    <2>2. Head(up).accepted <=> Means(Head(up)) = "accepted"
      BY <1>11, <2>1 DEF HandleReply, Means, Ack, Report
    <2> QED BY <1>11, <2>2 DEF HandleReply, Hears, history
  <1>12. CASE HandleReport
    <2>1. Means(Head(up)) = "accepted"
      BY <1>12 DEF HandleReport, Means
    <2> QED BY <1>12, <2>1 DEF HandleReport, Hears
  <1>13. CASE Close \/ CloseSocket
    BY <1>13 DEF Close, CloseSocket, ShutSocket, Loses, callVars, history
  <1>14. CASE Disconnect \/ Tick \/ \E c \in Caller : Expire(c)
    BY <1>14 DEF Disconnect, Tick, Expire, Rests, callVars, history
  <1> QED BY <1>1, <1>4, <1>5, <1>6, <1>7, <1>8, <1>8f, <1>9, <1>10, <1>11, <1>12, <1>13,
             <1>14
          DEF Next, CallerStep

(* PendingHasWaiter is inductive: an entry is made when its caller goes in *)
(* flight, overwritten only by another that does, and removed by whoever   *)
(* lands on its millisecond.                                               *)
LEMMA StepPending ==
  ASSUME TypeInv, TypeInv', PendingHasWaiter, [Next]_vars
  PROVE  PendingHasWaiter'
  <1> SUFFICES ASSUME NEW t \in Stamp, table'[t] # Nil
               PROVE  pc'[table'[t]] \in {"write", "wait"} /\ stamp'[table'[t]] = t
    BY DEF PendingHasWaiter, Stamp
  <1> USE DEF TypeInv, TypeOK, InFlight
  <1>0. PICK e \in Caller : e = table'[t]
    OBVIOUS
  <1>1. ASSUME table[t] = e PROVE pc[e] \in {"write", "wait"} /\ stamp[e] = t
    <2>1. table[t] # Nil
      BY <1>1, CommandsAssumption
    <2>2. pc[table[t]] \in {"write", "wait"} /\ stamp[table[t]] = t
      BY <2>1, Zenon DEF PendingHasWaiter, Stamp
    <2> QED BY <1>1, <2>2
  <1>2. CASE Rests
    BY <1>0, <1>1, <1>2 DEF Rests
  <1>3. CASE Hears
    BY <1>0, <1>1, <1>3 DEF Hears
  <1>4. CASE Loses
    BY <1>0, <1>1, <1>4 DEF Loses
  <1>5. CASE LampHandles
    BY <1>0, <1>1, <1>5 DEF LampHandles, callVars
  <1>6. ASSUME NEW c \in Caller, Begins(c) PROVE pc'[e] \in {"write", "wait"} /\ stamp'[e] = t
    BY <1>0, <1>1, <1>6 DEF Begins, OthersStay
  <1>7. ASSUME NEW c \in Caller, Writes(c) PROVE pc'[e] \in {"write", "wait"} /\ stamp'[e] = t
    BY <1>0, <1>1, <1>7 DEF Writes, OthersStay
  <1>8. ASSUME NEW c \in Caller, Ends(c) PROVE pc'[e] \in {"write", "wait"} /\ stamp'[e] = t
    <2>1. table' = [table EXCEPT ![stamp[c]] = Nil] /\ stamp' = [stamp EXCEPT ![c] = 0]
      BY <1>8 DEF Ends, Cleanup, Forget
    <2>2. stamp[c] # t /\ table[t] = e
      BY <1>0, <2>1, CommandsAssumption
    <2>3. e # c
      BY <1>1, <2>2
    <2> QED BY <1>1, <1>8, <2>1, <2>2, <2>3 DEF Ends, OthersStay
  <1> QED BY <1>0, <1>2, <1>3, <1>4, <1>5, <1>6, <1>7, <1>8, FlightSteps

(* No command leaves an entry in the tables behind, however its call ends  *)
(* and whoever else is sending (applyOne, deliver).                        *)
THEOREM PendingAlwaysHasWaiter == Spec => []PendingHasWaiter
  <1>1. Init => PendingHasWaiter
    BY DEF Init, PendingHasWaiter
  <1>2. TypeInv /\ PendingHasWaiter /\ [Next]_vars => PendingHasWaiter'
    BY StepTyped, StepPending
  <1> QED BY InitTyped, StepTyped, <1>1, <1>2, PTL DEF Spec

-----------------------------------------------------------------------------
(* Why an answer is true.  A millisecond that has stamped one command has  *)
(* one caller, and one message at a time: the command until the lamp has   *)
(* handled it, its answers afterwards, and they agree with what the lamp   *)
(* did.                                                                    *)
Clean ==
  \A c \in Caller : /\ done[c] # Nil => InFlight(c)
                    /\ fate[c] # "none" => pc[c] = "wait"

Stamped ==
  /\ \A c \in Caller : InFlight(c) => sent[stamp[c]] > 0
  /\ \A i \in DOMAIN down : sent[down[i].stamp] > 0
  /\ \A k \in DOMAIN up : sent[up[k].stamp] > 0

OneCall ==
  \A c, e \in Caller :
    InFlight(c) /\ InFlight(e) /\ stamp[c] = stamp[e] /\ sent[stamp[c]] = 1 => c = e

OneCommand ==
  \A i, j \in DOMAIN down :
    down[i].stamp = down[j].stamp /\ sent[down[i].stamp] = 1 => i = j

CommandFirst ==
  \A i \in DOMAIN down, k \in DOMAIN up :
    sent[down[i].stamp] = 1 => up[k].stamp # down[i].stamp

Unwritten ==
  \A c \in Caller :
    pc[c] = "write" /\ sent[stamp[c]] = 1 =>
      /\ done[c] = Nil
      /\ \A i \in DOMAIN down : down[i].stamp # stamp[c]
      /\ \A k \in DOMAIN up : up[k].stamp # stamp[c]

OwnCommand ==
  \A c \in Caller, i \in DOMAIN down :
    pc[c] = "wait" /\ sent[stamp[c]] = 1 /\ down[i].stamp = stamp[c] =>
      down[i].by = c /\ fate[c] = "none" /\ done[c] = Nil

OwnAnswer ==
  \A c \in Caller, k \in DOMAIN up :
    pc[c] = "wait" /\ sent[stamp[c]] = 1 /\ up[k].stamp = stamp[c] =>
      fate[c] = Means(up[k])

AnswerInv ==
  /\ Clean
  /\ Stamped
  /\ OneCall
  /\ OneCommand
  /\ CommandFirst
  /\ Unwritten
  /\ OwnCommand
  /\ OwnAnswer
  /\ AnswerIsTrue

LEMMA InitAnswer == Init => AnswerInv
  <1> SUFFICES ASSUME Init PROVE AnswerInv
    OBVIOUS
  <1>1. DOMAIN down = {} /\ DOMAIN up = {}
    BY DEF Init
  <1>2. \A c \in Caller : pc[c] = "idle" /\ done[c] = Nil /\ fate[c] = "none"
    BY DEF Init
  <1> QED BY <1>1, <1>2
          DEF AnswerInv, Clean, Stamped, OneCall, OneCommand, CommandFirst, Unwritten,
              OwnCommand, OwnAnswer, AnswerIsTrue, InFlight

LEMMA Ranges ==
  ASSUME TypeInv
  PROVE  /\ \A i \in DOMAIN down : down[i] \in Command /\ down[i].stamp \in Stamp
         /\ \A k \in DOMAIN up : up[k] \in Ack \cup Report /\ up[k].stamp \in Stamp
         /\ \A e \in Caller : stamp[e] \in Stamp
  <1>1. down \in Seq(Command) /\ up \in Seq(Ack \cup Report) /\ stamp \in [Caller -> Stamp]
    BY DEF TypeInv, TypeOK
  <1>2. \A i \in DOMAIN down : down[i] \in Command
    BY <1>1
  <1>3. \A k \in DOMAIN up : up[k] \in Ack \cup Report
    BY <1>1
  <1>4. \A m \in Command : m.stamp \in Stamp
    BY DEF Command
  <1>5. \A u \in Ack \cup Report : u.stamp \in Stamp
    BY DEF Ack, Report
  <1> QED BY <1>1, <1>2, <1>3, <1>4, <1>5

LEMMA RestKeepsAnswer ==
  ASSUME TypeInv, AnswerInv, Rests
  PROVE  AnswerInv'
  <1> USE DEF AnswerInv, Rests, InFlight
  <1>1. Clean'
    BY DEF Clean
  <1>2. Stamped' /\ OneCall'
    BY DEF Stamped, OneCall
  <1>3. OneCommand' /\ CommandFirst'
    BY DEF OneCommand, CommandFirst
  <1>4. Unwritten'
    BY DEF Unwritten
  <1>5. OwnCommand' /\ OwnAnswer'
    BY DEF OwnCommand, OwnAnswer
  <1>6. AnswerIsTrue'
    BY DEF AnswerIsTrue
  <1> QED BY <1>1, <1>2, <1>3, <1>4, <1>5, <1>6

(* A new command is alone in its millisecond only if nothing there was     *)
(* before it.                                                              *)
LEMMA BeginKeepsAnswer ==
  ASSUME TypeInv, AnswerInv, NEW c \in Caller, Begins(c)
  PROVE  AnswerInv'
  <1>1. PICK t \in Stamp : t = clock
    BY DEF TypeInv, TypeOK
  <1>2. /\ stamp'[c] = t /\ pc[c] = "encode" /\ pc'[c] = "write"
        /\ sent'[t] = sent[t] + 1
        /\ done[c] = Nil /\ fate[c] = "none"
        /\ UNCHANGED <<done, fate, down, up>>
    BY <1>1 DEF Begins, AnswerInv, Clean, InFlight, TypeInv, TypeOK
  <1>3. \A e \in Caller \ {c} : pc'[e] = pc[e] /\ stamp'[e] = stamp[e]
    BY DEF Begins, OthersStay, TypeInv, TypeOK
  <1>4. \A u \in Stamp : sent[u] \in Nat /\ (u # t => sent'[u] = sent[u])
    BY <1>1 DEF Begins, TypeInv, TypeOK
  <1>5. /\ \A i \in DOMAIN down : down[i].stamp \in Stamp
        /\ \A k \in DOMAIN up : up[k].stamp \in Stamp
        /\ \A e \in Caller : stamp[e] \in Stamp
    BY Ranges
  <1> HIDE DEF TypeInv
  <1>6. \A u \in Stamp : sent[u] > 0 => sent'[u] > 0 /\ (sent'[u] = 1 => u # t /\ sent[u] = 1)
    BY <1>2, <1>4
  <1>7. /\ \A e \in Caller : InFlight(e) => sent[stamp[e]] > 0
        /\ \A i \in DOMAIN down : sent[down[i].stamp] > 0
        /\ \A k \in DOMAIN up : sent[up[k].stamp] > 0
    BY DEF AnswerInv, Stamped
  <1>8. \A e \in Caller : InFlight(e)' => e = c \/ InFlight(e)
    BY <1>3 DEF InFlight
  <1>9. sent'[t] > 0
    BY <1>2, <1>4
  <1>10. Clean'
    BY <1>2, <1>3 DEF AnswerInv, Clean, InFlight
  <1>11. Stamped'
    BY <1>2, <1>3, <1>5, <1>6, <1>7, <1>8, <1>9 DEF Stamped, InFlight
  <1>12. OneCall'
    BY <1>2, <1>3, <1>5, <1>6, <1>7, <1>8 DEF AnswerInv, OneCall, InFlight
  <1>13. OneCommand'
    BY <1>2, <1>5, <1>6, <1>7 DEF AnswerInv, OneCommand
  <1>14. CommandFirst'
    BY <1>2, <1>5, <1>6, <1>7 DEF AnswerInv, CommandFirst
  <1>15. Unwritten'
    BY <1>2, <1>3, <1>5, <1>6, <1>7, <1>8 DEF AnswerInv, Unwritten, InFlight
  <1>16. OwnCommand'
    BY <1>2, <1>3, <1>5, <1>6, <1>7, <1>8 DEF AnswerInv, OwnCommand, InFlight
  <1>17. OwnAnswer'
    BY <1>2, <1>3, <1>5, <1>6, <1>7, <1>8 DEF AnswerInv, OwnAnswer, InFlight
  <1>18. AnswerIsTrue'
    BY <1>2, <1>3, <1>5, <1>6, <1>7, <1>8 DEF AnswerInv, AnswerIsTrue, InFlight
  <1> QED BY <1>10, <1>11, <1>12, <1>13, <1>14, <1>15, <1>16, <1>17, <1>18 DEF AnswerInv

(* A command is written to a millisecond's caller while nothing else is    *)
(* there.                                                                  *)
LEMMA WriteKeepsAnswer ==
  ASSUME TypeInv, AnswerInv, NEW c \in Caller, Writes(c)
  PROVE  AnswerInv'
  <1> DEFINE m == [by |-> c, stamp |-> stamp[c], prop |-> Head(props[c])]
             n == Len(down) + 1
  <1>1. /\ pc[c] = "write" /\ pc'[c] = "wait"
        /\ \A e \in Caller \ {c} : pc'[e] = pc[e]
        /\ UNCHANGED <<stamp, done, fate, sent, up>>
        /\ fate[c] = "none"
    BY DEF Writes, OthersStay, AnswerInv, Clean, InFlight
  <1>2. down \in Seq(Command) /\ m \in Command
    <2>1. props[c] \in Seq(Prop) /\ props[c] # <<>> /\ stamp[c] \in Stamp
      BY <1>1 DEF TypeInv, TypeOK, HasProps
    <2>2. Head(props[c]) \in Prop
      BY <2>1, TailOf
    <2> QED BY <2>1, <2>2 DEF TypeInv, TypeOK, Command
  <1>3. /\ DOMAIN down' = DOMAIN down \cup {n}
        /\ \A i \in DOMAIN down : down'[i] = down[i]
        /\ down'[n] = m /\ n \notin DOMAIN down
    BY <1>2, AppendOf DEF Writes
  <1>4. m.by = c /\ m.stamp = stamp[c]
    OBVIOUS
  <1> HIDE DEF m, n
  <1>5. \A e \in Caller : InFlight(e)' <=> InFlight(e)
    BY <1>1 DEF InFlight
  <1>6. Clean'
    BY <1>1 DEF AnswerInv, Clean, InFlight
  <1>7. Stamped'
    BY <1>1, <1>3, <1>4 DEF AnswerInv, Stamped, InFlight
  <1>8. OneCall'
    BY <1>1, <1>5 DEF AnswerInv, OneCall
  <1>9. OneCommand'
    BY <1>1, <1>3, <1>4 DEF AnswerInv, OneCommand, Unwritten
  <1>10. CommandFirst'
    BY <1>1, <1>3, <1>4 DEF AnswerInv, CommandFirst, Unwritten
  <1>11. Unwritten'
    BY <1>1, <1>3, <1>4 DEF AnswerInv, Unwritten, OneCall, InFlight
  <1>12. OwnCommand'
    BY <1>1, <1>3, <1>4 DEF AnswerInv, OwnCommand, Unwritten, OneCall, InFlight
  <1>13. OwnAnswer'
    BY <1>1 DEF AnswerInv, OwnAnswer, Unwritten
  <1>14. AnswerIsTrue'
    BY <1>1, CommandsAssumption DEF AnswerInv, AnswerIsTrue, Unwritten, Clean, InFlight
  <1> QED BY <1>6, <1>7, <1>8, <1>9, <1>10, <1>11, <1>12, <1>13, <1>14 DEF AnswerInv

(* What a call leaves behind on the connection stays, without a caller.    *)
LEMMA EndKeepsAnswer ==
  ASSUME TypeInv, AnswerInv, NEW c \in Caller, Ends(c)
  PROVE  AnswerInv'
  <1>1. /\ pc'[c] \notin {"write", "wait"} /\ done'[c] = Nil /\ fate'[c] = "none"
        /\ \A e \in Caller \ {c} : /\ pc'[e] = pc[e] /\ stamp'[e] = stamp[e]
                                    /\ done'[e] = done[e] /\ fate'[e] = fate[e]
        /\ UNCHANGED <<sent, down, up>>
    BY DEF Ends, OthersStay, Forget, TypeInv, TypeOK
  <1>2. Clean'
    BY <1>1 DEF AnswerInv, Clean, InFlight
  <1>3. Stamped' /\ OneCall'
    BY <1>1 DEF AnswerInv, Stamped, OneCall, InFlight
  <1>4. OneCommand' /\ CommandFirst'
    BY <1>1 DEF AnswerInv, OneCommand, CommandFirst
  <1>5. Unwritten'
    BY <1>1 DEF AnswerInv, Unwritten
  <1>6. OwnCommand'
    BY <1>1 DEF AnswerInv, OwnCommand
  <1>7. OwnAnswer'
    BY <1>1 DEF AnswerInv, OwnAnswer
  <1>8. AnswerIsTrue'
    BY <1>1 DEF AnswerInv, AnswerIsTrue
  <1> QED BY <1>2, <1>3, <1>4, <1>5, <1>6, <1>7, <1>8 DEF AnswerInv

LEMMA LossKeepsAnswer ==
  ASSUME TypeInv, AnswerInv, Loses
  PROVE  AnswerInv'
  <1>1. DOMAIN down' = {} /\ DOMAIN up' = {} /\ UNCHANGED <<pc, stamp, done, fate, sent>>
    BY DEF Loses
  <1>2. Clean' /\ OneCall'
    BY <1>1 DEF AnswerInv, Clean, OneCall, InFlight
  <1>3. Stamped'
    BY <1>1 DEF AnswerInv, Stamped, InFlight
  <1>4. OneCommand' /\ CommandFirst'
    BY <1>1 DEF OneCommand, CommandFirst
  <1>5. Unwritten'
    BY <1>1 DEF AnswerInv, Unwritten
  <1>6. OwnCommand' /\ OwnAnswer' /\ AnswerIsTrue'
    BY <1>1 DEF AnswerInv, OwnCommand, OwnAnswer, AnswerIsTrue
  <1> QED BY <1>2, <1>3, <1>4, <1>5, <1>6 DEF AnswerInv

(* An answer reaches the caller that the tables name.  If its command is   *)
(* alone in its millisecond it is the one the lamp has answered.           *)
LEMMA HearKeepsAnswer ==
  ASSUME TypeInv, PendingHasWaiter, AnswerInv, Hears
  PROVE  AnswerInv'
  <1> DEFINE answer == IF Means(Head(up)) = "accepted" THEN "ok" ELSE "rejected"
  <1>1. /\ up \in Seq(Ack \cup Report) /\ up # <<>> /\ up' = Tail(up)
        /\ UNCHANGED <<pc, stamp, fate, sent, down>>
    BY DEF Hears, TypeInv, TypeOK
  <1>2. /\ 1 \in DOMAIN up /\ Head(up) = up[1]
        /\ \A k \in DOMAIN up' : k + 1 \in DOMAIN up /\ up'[k] = up[k + 1]
    BY <1>1, TailOf
  <1>3. PICK t \in Stamp : t = up[1].stamp
    BY <1>2, Ranges
  <1>4. /\ Nil \notin {"ok", "rejected"} /\ answer \in {"ok", "rejected"}
        /\ answer = "ok" => Means(up[1]) = "accepted"
        /\ answer = "rejected" => Means(up[1]) = "rejected"
    BY <1>2, CommandsAssumption DEF Means
  <1>5. \A c \in Caller : \/ done'[c] = done[c]
                          \/ table[t] = c /\ done[c] = Nil /\ done'[c] = answer
    BY <1>2, <1>3 DEF Hears, Deliver
  <1>6. \A c \in Caller : table[t] = c => InFlight(c) /\ stamp[c] = t
    BY <1>3, CommandsAssumption DEF PendingHasWaiter, Stamp, InFlight
  <1> HIDE DEF answer
  <1>7. ASSUME NEW c \in Caller, done'[c] # done[c]
        PROVE  /\ InFlight(c) /\ stamp[c] = up[1].stamp /\ done[c] = Nil /\ done'[c] = answer
    BY <1>3, <1>5, <1>6, <1>7
  <1>8. Clean'
    BY <1>1, <1>7 DEF AnswerInv, Clean, InFlight
  <1>9. Stamped'
    BY <1>1, <1>2 DEF AnswerInv, Stamped, InFlight
  <1>10. OneCall' /\ OneCommand'
    BY <1>1 DEF AnswerInv, OneCall, OneCommand, InFlight
  <1>11. CommandFirst'
    BY <1>1, <1>2 DEF AnswerInv, CommandFirst
  <1>12. Unwritten'
    BY <1>1, <1>2, <1>7 DEF AnswerInv, Unwritten
  <1>13. OwnCommand'
    BY <1>1, <1>2, <1>7 DEF AnswerInv, OwnCommand, CommandFirst
  <1>14. OwnAnswer'
    BY <1>1, <1>2 DEF AnswerInv, OwnAnswer
  <1>15. AnswerIsTrue'
    <2> SUFFICES ASSUME NEW c \in Caller, pc'[c] = "wait", sent'[stamp'[c]] = 1
                 PROVE  /\ done'[c] = "ok" => fate'[c] = "accepted"
                        /\ done'[c] = "rejected" => fate'[c] = "rejected"
      BY DEF AnswerIsTrue
    <2>1. CASE done'[c] = done[c]
      BY <1>1, <2>1 DEF AnswerInv, AnswerIsTrue
    <2>2. CASE done'[c] # done[c]
      <3>1. fate[c] = Means(up[1])
        BY <1>1, <1>2, <1>7, <2>2 DEF AnswerInv, OwnAnswer
      <3> QED BY <1>1, <1>4, <1>7, <2>2, <3>1
    <2> QED BY <2>1, <2>2
  <1> QED BY <1>8, <1>9, <1>10, <1>11, <1>12, <1>13, <1>14, <1>15 DEF AnswerInv

(* The lamp handles the command at the head: from then on it is its        *)
(* answers that are under way, and the caller's fate says the same.        *)
LEMMA LampKeepsAnswer ==
  ASSUME TypeInv, AnswerInv, LampHandles
  PROVE  AnswerInv'
  <1>1. /\ down \in Seq(Command) /\ down # <<>> /\ down' = Tail(down)
        /\ UNCHANGED <<pc, stamp, done, sent>>
    BY DEF LampHandles, callVars, TypeInv, TypeOK
  <1>2. /\ 1 \in DOMAIN down /\ Head(down) = down[1] /\ down[1] \in Command
        /\ \A i \in DOMAIN down' : i + 1 \in DOMAIN down /\ i # 0 /\ down'[i] = down[i + 1]
    BY <1>1, TailOf
  <1>3. PICK m \in Command : m = down[1]
    BY <1>2
  <1>4. PICK v \in {"accepted", "rejected"} :
          /\ \E a \in Answers(m)[v] : up' = up \o a
          /\ fate' = IF pc[m.by] = "wait" /\ stamp[m.by] = m.stamp
                     THEN [fate EXCEPT ![m.by] = v] ELSE fate
    BY <1>2, <1>3 DEF LampHandles
  <1>5. \A k \in DOMAIN up' : \/ k \in DOMAIN up /\ up'[k] = up[k]
                              \/ up'[k].stamp = m.stamp /\ Means(up'[k]) = v
    <2> PICK a \in Answers(m)[v] : up' = up \o a
      BY <1>4
    <2>1. a \in Seq(Ack \cup Report) /\ \A j \in DOMAIN a : a[j].stamp = m.stamp /\ Means(a[j]) = v
      BY AnswersTyped
    <2>2. up \in Seq(Ack \cup Report)
      BY DEF TypeInv, TypeOK
    <2>3. \A k \in DOMAIN (up \o a) : \/ k \in DOMAIN up /\ (up \o a)[k] = up[k]
                                      \/ \E j \in DOMAIN a : (up \o a)[k] = a[j]
      BY <2>1, <2>2, ConcatOf
    <2> HIDE DEF Means
    <2> QED BY <2>1, <2>3
  <1>6. \A c \in Caller :
          \/ fate'[c] = fate[c] /\ ~(m.by = c /\ pc[c] = "wait" /\ stamp[c] = m.stamp)
          \/ m.by = c /\ pc[c] = "wait" /\ stamp[c] = m.stamp /\ fate'[c] = v
    BY <1>4 DEF TypeInv, TypeOK
  <1>7. \A i \in DOMAIN down' : i + 1 # 1
    BY <1>1, <1>2, TailOf
  <1>8. \A i \in DOMAIN down' : down'[i].stamp = m.stamp => sent[m.stamp] # 1
    BY <1>2, <1>3, <1>7 DEF AnswerInv, OneCommand
  <1>9. Clean'
    BY <1>1, <1>6 DEF AnswerInv, Clean, InFlight
  <1>10. Stamped'
    BY <1>1, <1>2, <1>3, <1>5 DEF AnswerInv, Stamped, InFlight
  <1>11. OneCall'
    BY <1>1 DEF AnswerInv, OneCall, InFlight
  <1>12. OneCommand'
    <2> SUFFICES ASSUME NEW i \in DOMAIN down', NEW j \in DOMAIN down',
                        down'[i].stamp = down'[j].stamp, sent'[down'[i].stamp] = 1
                 PROVE  i = j
      BY DEF OneCommand
    <2>1. i + 1 = j + 1
      BY <1>1, <1>2 DEF AnswerInv, OneCommand
    <2>2. i \in Nat /\ j \in Nat
      BY <1>1, TailOf
    <2> QED BY <2>1, <2>2
  <1>13. CommandFirst'
    <2> SUFFICES ASSUME NEW i \in DOMAIN down', NEW k \in DOMAIN up',
                        sent[down'[i].stamp] = 1, up'[k].stamp = down'[i].stamp
                 PROVE  FALSE
      BY <1>1 DEF CommandFirst
    <2>1. CASE k \in DOMAIN up /\ up'[k] = up[k]
      BY <1>2, <2>1 DEF AnswerInv, CommandFirst
    <2>2. CASE up'[k].stamp = m.stamp
      BY <1>8, <2>2
    <2> QED BY <1>5, <2>1, <2>2
  <1>14. Unwritten'
    BY <1>1, <1>2, <1>3, <1>5 DEF AnswerInv, Unwritten
  <1>15. OwnCommand'
    BY <1>1, <1>2, <1>6, <1>8 DEF AnswerInv, OwnCommand
  <1>16. OwnAnswer'
    <2> SUFFICES ASSUME NEW c \in Caller, NEW k \in DOMAIN up',
                        pc[c] = "wait", sent[stamp[c]] = 1, up'[k].stamp = stamp[c]
                 PROVE  fate'[c] = Means(up'[k])
      BY <1>1 DEF OwnAnswer, Means
    <2>1. CASE k \in DOMAIN up /\ up'[k] = up[k]
      <3>1. m.stamp # stamp[c]
        BY <1>2, <1>3, <2>1 DEF AnswerInv, CommandFirst
      <3> QED BY <1>6, <2>1, <3>1 DEF AnswerInv, OwnAnswer
    <2>2. CASE up'[k].stamp = m.stamp /\ Means(up'[k]) = v
      <3>1. 1 \in DOMAIN down /\ down[1].stamp = stamp[c] /\ down[1].by = m.by
        BY <1>2, <1>3, <2>2
      <3>2. m.by = c /\ stamp[c] = m.stamp
        BY <1>3, <3>1 DEF AnswerInv, OwnCommand
      <3> QED BY <1>6, <2>2, <3>2
    <2> QED BY <1>5, <2>1, <2>2
  <1>17. AnswerIsTrue'
    <2> SUFFICES ASSUME NEW c \in Caller, pc[c] = "wait", sent[stamp[c]] = 1
                 PROVE  /\ done[c] = "ok" => fate'[c] = "accepted"
                        /\ done[c] = "rejected" => fate'[c] = "rejected"
      BY <1>1 DEF AnswerIsTrue
    <2>1. CASE m.by = c /\ stamp[c] = m.stamp
      BY <1>2, <1>3, <2>1, CommandsAssumption DEF AnswerInv, OwnCommand
    <2>2. CASE ~(m.by = c /\ stamp[c] = m.stamp)
      BY <1>6, <2>2 DEF AnswerInv, AnswerIsTrue
    <2> QED BY <2>1, <2>2
  <1> QED BY <1>9, <1>10, <1>11, <1>12, <1>13, <1>14, <1>15, <1>16, <1>17 DEF AnswerInv

(* A caller is told what the lamp did with its own command: whoever else   *)
(* sends, gives up, or is answered late, as long as no two commands share  *)
(* a millisecond (EncodeCommand, completeCommand, completeBySeq).          *)
THEOREM AnswerAlwaysTrue == Spec => []AnswerIsTrue
  <1>1. ASSUME TypeInv, PendingHasWaiter, AnswerInv, [Next]_vars PROVE AnswerInv'
    BY <1>1, FlightSteps, RestKeepsAnswer, BeginKeepsAnswer, WriteKeepsAnswer, EndKeepsAnswer,
       LossKeepsAnswer, HearKeepsAnswer, LampKeepsAnswer
  <1>2. AnswerInv => AnswerIsTrue
    BY DEF AnswerInv
  <1> QED BY InitTyped, StepTyped, InitAnswer, PendingAlwaysHasWaiter, <1>1, <1>2, PTL DEF Spec

-----------------------------------------------------------------------------
(* What a lamp is like that has carried out the commands of a change.      *)
NamesOf(s) == {s[i].name : i \in DOMAIN s}

(* ChangedProps has at most a command for a field.                         *)
OneFor(name, needed, next) ==
  IF needed THEN <<[name |-> name, value |-> next[name]]>> ELSE <<>>

LEMMA NamesOfOne ==
  ASSUME NEW name \in Fields, NEW needed \in BOOLEAN, NEW next
  PROVE  /\ OneFor(name, needed, next) \in Seq([name : {name}, value : {next[name]}])
         /\ needed => NamesOf(OneFor(name, needed, next)) = {name}
         /\ ~needed => NamesOf(OneFor(name, needed, next)) = {}
  <1>1. PICK c : c = [name |-> name, value |-> next[name]]
    OBVIOUS
  <1>2. c.name = name /\ c \in [name : {name}, value : {next[name]}]
    BY <1>1
  <1>3. CASE needed
    <2>1. OneFor(name, needed, next) = <<c>>
      BY <1>1, <1>3, Zenon DEF OneFor
    <2>2. <<c>> \in Seq([name : {name}, value : {next[name]}]) /\ DOMAIN <<c>> = {1} /\ <<c>>[1] = c
      BY <1>2
    <2>3. NamesOf(<<c>>) = {name}
      BY <1>2, <2>2 DEF NamesOf
    <2> QED BY <1>3, <2>1, <2>2, <2>3, Zenon
  <1>4. CASE ~needed
    <2>1. OneFor(name, needed, next) = <<>>
      BY <1>4, Zenon DEF OneFor
    <2>2. <<>> \in Seq([name : {name}, value : {next[name]}]) /\ DOMAIN <<>> = {}
      OBVIOUS
    <2>3. NamesOf(<<>>) = {}
      BY <2>2, Zenon DEF NamesOf
    <2> QED BY <1>4, <2>1, <2>2, <2>3, Zenon
  <1> QED BY <1>3, <1>4

LEMMA NamesOfConcat ==
  ASSUME NEW S, NEW s \in Seq(S), NEW t \in Seq(S)
  PROVE  NamesOf(s \o t) = NamesOf(s) \cup NamesOf(t)
  <1>1. PICK r : r = s \o t
    OBVIOUS
  <1>2. /\ DOMAIN r = 1..(Len(s) + Len(t)) /\ DOMAIN s = 1..Len(s) /\ DOMAIN t = 1..Len(t)
        /\ Len(s) \in Nat /\ Len(t) \in Nat
        /\ \A i \in 1..Len(s) : r[i] = s[i]
        /\ \A i \in 1..Len(t) : r[Len(s) + i] = t[i]
    BY <1>1
  <1>3. \A i \in DOMAIN r : (i \in DOMAIN s /\ r[i] = s[i]) \/ \E j \in DOMAIN t : r[i] = t[j]
    <2>1. \A i \in DOMAIN (s \o t) :
            (i \in DOMAIN s /\ (s \o t)[i] = s[i]) \/ \E j \in DOMAIN t : (s \o t)[i] = t[j]
      BY ConcatOf
    <2> QED BY <1>1, <2>1, Zenon
  <1>4. \A i \in DOMAIN s : i \in DOMAIN r /\ r[i] = s[i]
    BY <1>2
  <1>5. \A j \in DOMAIN t : \E i \in DOMAIN r : r[i] = t[j]
    <2>1. ASSUME NEW j \in DOMAIN t PROVE Len(s) + j \in DOMAIN r /\ r[Len(s) + j] = t[j]
      BY <1>2
    <2> QED BY <2>1
  <1>6. NamesOf(r) = NamesOf(s) \cup NamesOf(t)
    <2> DEFINE x == NamesOf(r)
               y == NamesOf(s)
               z == NamesOf(t)
    <2>1. ASSUME NEW g \in x PROVE g \in y \/ g \in z
      <3>1. PICK i \in DOMAIN r : g = r[i].name
        BY <2>1 DEF NamesOf
      <3> QED BY <1>3, <3>1, Zenon DEF NamesOf
    <2>2. ASSUME NEW g \in y PROVE g \in x
      <3>1. PICK i \in DOMAIN s : g = s[i].name
        BY <2>2 DEF NamesOf
      <3> QED BY <1>4, <3>1, Zenon DEF NamesOf
    <2>3. ASSUME NEW g \in z PROVE g \in x
      <3>1. PICK j \in DOMAIN t : g = t[j].name
        BY <2>3 DEF NamesOf
      <3> QED BY <1>5, <3>1, Zenon DEF NamesOf
    <2> HIDE DEF x, y, z
    <2>4. x = y \cup z
      BY <2>1, <2>2, <2>3
    <2> QED BY <2>4 DEF x, y, z
  <1> QED BY <1>1, <1>6

(* The fields for which there is a command.                                *)
LEMMA NamesOfChange ==
  ASSUME NEW caps \in Capabilities, NEW current \in LightState, NEW next \in LightState
  PROVE  LET names == NamesOf(ChangedProps(caps, current, next))
         IN  /\ "power" \in names <=> next.power # current.power
             /\ "brightness" \in names <=>
                  next.power /\ next.brightness > 0 /\ next.brightness # current.brightness
             /\ "temp" \in names <=> next.power /\ SupportsColorTemp(caps) /\ next.temp # current.temp
  <1> DEFINE n1 == next.power /\ ~current.power
             n2 == next.power /\ next.brightness > 0 /\ next.brightness # current.brightness
             n3 == next.power /\ SupportsColorTemp(caps) /\ next.temp # current.temp
             n4 == ~next.power /\ current.power
             S == [name : Fields, value : {next[f] : f \in Fields}]
  <1>1. PICK s1, s2, s3, s4 : /\ s1 = OneFor("power", n1, next) /\ s2 = OneFor("brightness", n2, next)
                              /\ s3 = OneFor("temp", n3, next) /\ s4 = OneFor("power", n4, next)
    OBVIOUS
  <1>2. ChangedProps(caps, current, next) = s1 \o s2 \o s3 \o s4
    BY <1>1, Zenon DEF ChangedProps, OneFor
  <1>3. current.power \in BOOLEAN /\ next.power \in BOOLEAN
    BY DEF LightState
  <1>4. n1 \in BOOLEAN /\ n2 \in BOOLEAN /\ n3 \in BOOLEAN /\ n4 \in BOOLEAN
    BY <1>3
  <1>5. (n1 \/ n4) <=> next.power # current.power
    BY <1>3
  <1> HIDE DEF n1, n2, n3, n4
  <1>6. ASSUME NEW f \in Fields, NEW n \in BOOLEAN
        PROVE  /\ OneFor(f, n, next) \in Seq(S)
               /\ \A g : g \in NamesOf(OneFor(f, n, next)) <=> n /\ g = f
    <2>1. [name : {f}, value : {next[f]}] \subseteq S
      BY <1>6
    <2>2. PICK R : R = [name : {f}, value : {next[f]}]
      OBVIOUS
    <2>3. OneFor(f, n, next) \in Seq(R)
      BY <2>2, NamesOfOne, Zenon
    <2>4. PICK x : x = OneFor(f, n, next)
      OBVIOUS
    <2>5. x \in Seq(R) /\ R \subseteq S
      BY <2>1, <2>2, <2>3, <2>4, Zenon
    <2>6. x \in Seq(S)
      <3> HIDE DEF S
      <3> QED BY <2>5
    <2>7. (n => NamesOf(x) = {f}) /\ (~n => NamesOf(x) = {})
      BY <2>4, NamesOfOne, Zenon
    <2>8. \A g : g \in NamesOf(x) <=> n /\ g = f
      BY <2>7
    <2> QED BY <2>4, <2>6, <2>8, Zenon
  <1> HIDE DEF S
  <1>7. "power" \in Fields /\ "brightness" \in Fields /\ "temp" \in Fields
    BY DEF Fields
  <1>8. s1 \in Seq(S) /\ s2 \in Seq(S) /\ s3 \in Seq(S) /\ s4 \in Seq(S)
    BY <1>1, <1>4, <1>6, <1>7, Zenon
  <1>9. /\ \A g : g \in NamesOf(s1) <=> n1 /\ g = "power"
        /\ \A g : g \in NamesOf(s2) <=> n2 /\ g = "brightness"
        /\ \A g : g \in NamesOf(s3) <=> n3 /\ g = "temp"
        /\ \A g : g \in NamesOf(s4) <=> n4 /\ g = "power"
    BY <1>1, <1>4, <1>6, <1>7, Zenon
  <1>10. NamesOf(s1 \o s2 \o s3 \o s4) = ((NamesOf(s1) \cup NamesOf(s2)) \cup NamesOf(s3)) \cup NamesOf(s4)
    <2>1. PICK t : t = s1 \o s2
      OBVIOUS
    <2>2. t \in Seq(S) /\ NamesOf(t) = NamesOf(s1) \cup NamesOf(s2)
      BY <1>8, <2>1, ConcatOf, NamesOfConcat, Zenon
    <2>3. PICK u : u = t \o s3
      OBVIOUS
    <2>4. u \in Seq(S) /\ NamesOf(u) = NamesOf(t) \cup NamesOf(s3)
      BY <1>8, <2>2, <2>3, ConcatOf, NamesOfConcat
    <2>5. NamesOf(u \o s4) = NamesOf(u) \cup NamesOf(s4)
      BY <1>8, <2>4, NamesOfConcat
    <2> QED BY <2>1, <2>2, <2>3, <2>4, <2>5, Zenon
  <1>11. PICK names : names = NamesOf(ChangedProps(caps, current, next))
    OBVIOUS
  <1>12. \A g : g \in names <=> ((n1 \/ n4) /\ g = "power") \/ (n2 /\ g = "brightness") \/ (n3 /\ g = "temp")
    BY <1>2, <1>9, <1>10, <1>11, Zenon
  <1>13. "power" # "brightness" /\ "power" # "temp" /\ "brightness" # "temp"
    OBVIOUS
  <1>14. ("power" \in names <=> n1 \/ n4) /\ ("brightness" \in names <=> n2) /\ ("temp" \in names <=> n3)
    BY <1>12, <1>13, Zenon
  <1> QED BY <1>5, <1>11, <1>14, Zenon DEF n2, n3

(* A lamp that carries them out has what was wanted of these fields, and   *)
(* what it had of the others.                                              *)
LEMMA CarriesOut ==
  ASSUME NEW caps \in Capabilities, NEW current \in LightState, NEW next \in LightState
  PROVE  LET cs == ChangedProps(caps, current, next)
         IN  After(current, cs) = [f \in Fields |-> IF f \in NamesOf(cs) THEN next[f] ELSE current[f]]
  <1>1. PICK cs : cs = ChangedProps(caps, current, next)
    OBVIOUS
  <1>2. DOMAIN current = Fields
    BY DEF LightState, Fields
  <1>3. \A i \in DOMAIN cs : cs[i].value = next[cs[i].name]
    <2>1. \A i \in DOMAIN ChangedProps(caps, current, next) :
            Differs(ChangedProps(caps, current, next)[i], current, next)
      BY ChangedPropsDiffer
    <2> QED BY <1>1, <2>1, Zenon DEF Differs
  <1>4. ASSUME NEW f \in Fields
        PROVE  (IF \E i \in DOMAIN cs : cs[i].name = f
                THEN cs[CHOOSE i \in DOMAIN cs : cs[i].name = f].value ELSE current[f])
                 = IF f \in NamesOf(cs) THEN next[f] ELSE current[f]
    <2>1. (\E i \in DOMAIN cs : cs[i].name = f) <=> f \in NamesOf(cs)
      BY Zenon DEF NamesOf
    <2>2. CASE \E i \in DOMAIN cs : cs[i].name = f
      <3>1. PICK k : k = CHOOSE i \in DOMAIN cs : cs[i].name = f
        OBVIOUS
      <3>2. k \in DOMAIN cs /\ cs[k].name = f
        BY <2>2, <3>1, Zenon
      <3>3. cs[k].value = next[f]
        BY <1>3, <3>2, Zenon
      <3> QED BY <2>1, <2>2, <3>1, <3>3, Zenon
    <2>3. CASE ~\E i \in DOMAIN cs : cs[i].name = f
      BY <2>1, <2>3, Zenon
    <2> QED BY <2>2, <2>3
  <1>5. After(current, cs) = [f \in Fields |-> IF f \in NamesOf(cs) THEN next[f] ELSE current[f]]
    BY <1>2, <1>4, Zenon DEF After
  <1> QED BY <1>1, <1>5

(* A change that is not refused is carried out (Service.resolve and        *)
(* ChangedProps together): a lamp that does what it is sent is in the      *)
(* wanted state if that is lit, whatever it reported, and is dark and      *)
(* otherwise as it was if it is not.  No attribute of a lit lamp is lost   *)
(* to a capability it lacks or to a brightness of zero.                    *)
THEOREM ChangeCarriedOut ==
  ASSUME NEW caps \in Capabilities, NEW current \in LightState, NEW ch \in Change,
         ~Refused(caps, ch)
  PROVE  LET next == Resolve(current, ch)
             a == After(current, ChangedProps(caps, current, next))
         IN  /\ next.power => a = next
             /\ ~next.power => a = [current EXCEPT !.power = FALSE]
  <1>1. PICK next \in LightState : next = Resolve(current, ch)
    BY ResolveType
  <1>2. PICK cs : cs = ChangedProps(caps, current, next)
    OBVIOUS
  <1>3. PICK a : a = After(current, cs)
    OBVIOUS
  <1>4. a = [f \in Fields |-> IF f \in NamesOf(cs) THEN next[f] ELSE current[f]]
    <2>1. After(current, ChangedProps(caps, current, next))
            = [f \in Fields |-> IF f \in NamesOf(ChangedProps(caps, current, next))
                                THEN next[f] ELSE current[f]]
      BY CarriesOut
    <2> QED BY <1>2, <1>3, <2>1, Zenon
  <1>5. /\ "power" \in NamesOf(cs) <=> next.power # current.power
        /\ "brightness" \in NamesOf(cs) <=>
             next.power /\ next.brightness > 0 /\ next.brightness # current.brightness
        /\ "temp" \in NamesOf(cs) <=> next.power /\ SupportsColorTemp(caps) /\ next.temp # current.temp
    BY <1>2, NamesOfChange, Zenon
  <1>6. /\ a["power"] = next["power"]
        /\ a["brightness"] = IF /\ next.power /\ next.brightness > 0
                                /\ next.brightness # current.brightness
                             THEN next["brightness"] ELSE current["brightness"]
        /\ a["temp"] = IF next.power /\ SupportsColorTemp(caps) /\ next.temp # current.temp
                       THEN next["temp"] ELSE current["temp"]
    BY <1>4, <1>5, SMT DEF Fields
  <1>7. /\ next.power \in BOOLEAN /\ next.brightness \in Nat /\ next.temp \in Nat
        /\ current.power \in BOOLEAN /\ current.brightness \in Nat /\ current.temp \in Nat
    BY LightsAssumption DEF LightState, Percent
  <1>8. next.temp # current.temp => SupportsColorTemp(caps)
    BY <1>1 DEF Resolve, Refused
  <1>9. next.power /\ next.brightness = 0 => current.brightness = 0
    <2>1. ASSUME next.power, next.brightness = 0 PROVE current.brightness = 0
      <3> USE LightsAssumption
      <3>1. ch.power # TRUE
        BY <1>1, <2>1 DEF Resolve
      <3>2. ch.power = Nil
        <4>1. ch.power \in {TRUE, FALSE, Nil}
          BY DEF Change
        <4>2. ch.power # Nil => next.power = ch.power
          BY <1>1 DEF Resolve
        <4> QED BY <2>1, <3>1, <4>1, <4>2, Zenon
      <3>3. ch.brightness = Nil
        <4>1. ASSUME ch.brightness # Nil PROVE FALSE
          <5>1. next.power = (ch.brightness > 0) /\ ch.brightness \in Nat
            BY <1>1, <3>2, <4>1 DEF Resolve, Change
          <5>2. next.brightness = ch.brightness
            BY <1>1, <3>1, <4>1 DEF Resolve
          <5>3. ch.brightness > 0
            BY <2>1, <5>1, Zenon
          <5>4. ch.brightness = 0
            BY <2>1, <5>2, Zenon
          <5> QED BY <5>3, <5>4
        <4> QED BY <4>1
      <3> QED BY <1>1, <2>1, <3>1, <3>3 DEF Resolve
    <2> QED BY <2>1
  <1>10. next = [f \in Fields |-> next[f]] /\ current = [f \in Fields |-> current[f]]
    BY DEF LightState, Fields
  <1>11. ASSUME next.power PROVE a = next
    <2>1. \A f \in Fields : a[f] = next[f]
      BY <1>6, <1>7, <1>8, <1>9, <1>11 DEF Fields
    <2> QED BY <1>4, <1>10, <2>1
  <1>12. ASSUME ~next.power PROVE a = [current EXCEPT !.power = FALSE]
    <2>1. a["power"] = FALSE /\ a["brightness"] = current["brightness"] /\ a["temp"] = current["temp"]
      BY <1>6, <1>7, <1>12
    <2> QED BY <1>4, <1>10, <2>1 DEF Fields
  <1> QED BY <1>1, <1>2, <1>3, <1>11, <1>12

-----------------------------------------------------------------------------

(* Home Assistant's scale of brightness is finer than the lamp's: a per    *)
(* cent survives the way there and back, and a position comes back to      *)
(* within the rounding.                                                    *)
LEMMA BrightnessReturns ==
  ASSUME NEW pct \in 1..100
  PROVE  BrightnessFromHA(BrightnessToHA(pct)) = pct
  BY DEF BrightnessFromHA, BrightnessToHA, HABrightnessMax

LEMMA SliderReturns ==
  ASSUME NEW v \in 2..HABrightnessMax
  PROVE  /\ BrightnessFromHA(v) \in 1..100
         /\ BrightnessToHA(BrightnessFromHA(v)) \in (v - 2)..(v + 2)
  BY DEF BrightnessFromHA, BrightnessToHA, HABrightnessMax

(* The quotient of what lies between p and p + 1 times s.                  *)
LEMMA Quotient ==
  ASSUME NEW s \in Nat \ {0}, NEW p \in Nat, NEW x \in Nat, p * s <= x, x < p * s + s
  PROVE  x \div s = p
  <1>1. PICK q \in Nat : q = x \div s
    OBVIOUS
  <1>2. q * s <= x /\ x < q * s + s
    BY <1>1
  <1>3. ~(q < p)
    <2> SUFFICES ASSUME q < p PROVE FALSE
      OBVIOUS
    <2>1. q * s + s <= p * s
      <3>1. PICK k \in Nat : p = q + 1 + k
        OBVIOUS
      <3> QED BY <3>1
    <2> QED BY <1>2, <2>1
  <1>4. ~(p < q)
    <2> SUFFICES ASSUME p < q PROVE FALSE
      OBVIOUS
    <2>1. p * s + s <= q * s
      <3>1. PICK k \in Nat : q = p + 1 + k
        OBVIOUS
      <3> QED BY <3>1
    <2> QED BY <1>2, <2>1
  <1> QED BY <1>1, <1>3, <1>4

LEMMA SpanType == Span \in Nat \ {0} /\ MinKelvin \in Nat /\ MaxKelvin = MinKelvin + Span
  BY UnitsAssumption DEF Span

LEMMA KelvinReturns ==
  ASSUME Span >= 100, NEW pct \in 0..100
  PROVE  PercentFromKelvin(KelvinFromPercent(pct)) = pct
  <1> DEFINE m == pct * Span
             k == (m + 50) \div 100
  <1>1. /\ m \in Nat
        /\ pct = 0 => m = 0
        /\ pct = 100 => m = 100 * Span
        /\ pct \in 1..99 => Span <= m /\ m <= 99 * Span
        /\ Span = 100 => m = 100 * pct
    <2>1. /\ m \in Nat
          /\ pct = 0 => m = 0
          /\ pct = 100 => m = 100 * Span
          /\ Span = 100 => m = 100 * pct
      BY SpanType
    <2>2. ASSUME pct \in 1..99 PROVE Span <= m /\ m <= 99 * Span
      <3>1. PICK i \in Nat : pct = 1 + i
        BY <2>2
      <3>2. PICK j \in Nat : 99 = pct + j
        BY <2>2
      <3>3. m = Span + i * Span /\ 99 * Span = m + j * Span
        BY <3>1, <3>2, SpanType
      <3>4. i * Span \in Nat /\ j * Span \in Nat
        BY <3>1, <3>2, SpanType
      <3> QED BY <2>1, <3>3, <3>4, SpanType
    <2> QED BY <2>1, <2>2
  <1>2. KelvinFromPercent(pct) = MinKelvin + k
    BY DEF KelvinFromPercent
  <1> HIDE DEF m
  <1>3. k \in Nat /\ 100 * k <= m + 50 /\ m + 50 < 100 * k + 100
    BY <1>1
  <1> HIDE DEF k
  <1>4. CASE pct = 0
    <2>1. k = 0
      BY <1>1, <1>3, <1>4
    <2> QED BY <1>2, <1>4, <2>1, SpanType DEF PercentFromKelvin
  <1>5. CASE pct = 100
    BY <1>1, <1>2, <1>3, <1>5, SpanType DEF PercentFromKelvin
  <1>6. CASE pct \in 1..99
    <2>1. 1 <= k /\ k < Span
      BY <1>1, <1>3, <1>6, SpanType
    <2> DEFINE x == k * 100 + Span \div 2
    <2>2. x \in Nat /\ m <= x /\ x < m + Span
      BY <1>1, <1>3, SpanType
    <2>3. PercentFromKelvin(MinKelvin + k) = x \div Span
      BY <2>1, SpanType, <1>3 DEF PercentFromKelvin
    <2> HIDE DEF x
    <2>4. x \div Span = pct
      BY <2>2, SpanType, Quotient DEF m
    <2> QED BY <1>2, <2>3, <2>4
  <1> QED BY <1>4, <1>5, <1>6

(* What resolve makes of the state that is shown is that state, and there  *)
(* is nothing to send.                                                     *)
LEMMA NothingToSend ==
  ASSUME Full = 100, Span >= 100, NEW st \in LightState, st.brightness # 0
  PROVE  Sends(st, StatePayload(st)) = <<>>
  <1> DEFINE p == StatePayload(st)
             ch == ParseCommand(p)
  <1>1. st.power \in BOOLEAN /\ st.brightness \in 1..100 /\ st.temp \in 0..100
    BY DEF LightState, Percent
  <1>2. p.state \in {"ON", "OFF"} /\ (p.state = "ON" <=> st.power) /\ p.mired = Nil
    BY <1>1 DEF StatePayload
  <1>3. ch.power = st.power
    <2>1. ch.power = (p.state = "ON")
      BY <1>2, HomeAssistantAssumption DEF ParseCommand
    <2> QED BY <1>1, <1>2, <2>1
  <1>4. ch.brightness = st.brightness
    <2>1. p.brightness = BrightnessToHA(st.brightness) /\ p.brightness # Nil
      BY <1>1, LightsAssumption DEF StatePayload, BrightnessToHA, HABrightnessMax
    <2> QED BY <1>1, <2>1, BrightnessReturns DEF ParseCommand
  <1>5. ch.temp = Nil \/ ch.temp = st.temp
    <2>1. CASE SupportsColorTempEntity
      <3>1. p.kelvin = KelvinFromPercent(st.temp)
        BY <2>1 DEF StatePayload
      <3>2. p.kelvin # Nil
        BY <1>1, <3>1, LightsAssumption, SpanType DEF KelvinFromPercent
      <3>3. ch.temp = PercentFromKelvin(p.kelvin)
        BY <3>2 DEF ParseCommand
      <3> QED BY <1>1, <3>1, <3>3, KelvinReturns
    <2>2. CASE ~SupportsColorTempEntity
      BY <1>2, <2>2 DEF StatePayload, ParseCommand
    <2> QED BY <2>1, <2>2
  <1> HIDE DEF ch
  <1> DEFINE next == Resolve(st, ch)
  <1>6. next.power = st.power /\ next.brightness = st.brightness /\ next.temp = st.temp
    BY <1>1, <1>3, <1>4, <1>5, LightsAssumption DEF Resolve
  <1> HIDE DEF next
  <1>7. ChangedProps(Caps, st, next) = <<>>
    BY <1>1, <1>6 DEF ChangedProps
  <1> QED BY <1>7 DEF Sends, ch, next

(* A lamp that carries out what the position of a slider sends it is lit   *)
(* and has that brightness.                                                *)
LEMMA SliderTaken ==
  ASSUME Full = 100, NEW st \in LightState, NEW v \in 2..HABrightnessMax,
         NEW p, p = [Nothing EXCEPT !.state = "ON", !.brightness = v], ~Refused(Caps, ParseCommand(p))
  PROVE  After(st, Sends(st, p)).power /\ After(st, Sends(st, p)).brightness = BrightnessFromHA(v)
  <1>1. PICK b \in 1..100 : b = BrightnessFromHA(v)
    BY SliderReturns
  <1>2. /\ p.state = "ON" /\ p.brightness = v /\ p.kelvin = Nil /\ p.mired = Nil
        /\ v # Nil /\ "ON" # Nil
    <2>1. v # Nil
      BY LightsAssumption, SMT DEF HABrightnessMax
    <2>2. "ON" # Nil
      BY HomeAssistantAssumption, Zenon
    <2>3. p.state = "ON" /\ p.brightness = v /\ p.kelvin = Nil /\ p.mired = Nil
      BY SMT DEF Nothing
    <2> QED BY <2>1, <2>2, <2>3, Zenon
  <1>3. PICK ch : ch = ParseCommand(p)
    OBVIOUS
  <1>4. ch = [power |-> p.state = "ON", brightness |-> b, temp |-> Nil]
    BY <1>1, <1>2, <1>3, SMT DEF ParseCommand
  <1>5. ch = [power |-> TRUE, brightness |-> b, temp |-> Nil]
    BY <1>2, <1>4
  <1>6. ch \in Change /\ b # Nil /\ b # 0 /\ TRUE # Nil
    <2>1. TRUE # Nil
      BY LightsAssumption, Zenon
    <2>2. b # Nil /\ b # 0 /\ b \in 0..(Full + 1)
      BY LightsAssumption
    <2>3. TRUE \in BOOLEAN \cup {Nil}
      OBVIOUS
    <2>4. ch \in Change
      BY <1>5, <2>2, <2>3, Zenon DEF Change
    <2> QED BY <2>1, <2>2, <2>4, Zenon
  <1>7. PICK next : next = Resolve(st, ch)
    OBVIOUS
  <1>8. next.power = TRUE /\ next.brightness = b
    BY <1>5, <1>6, <1>7 DEF Resolve
  <1>9. After(st, ChangedProps(Caps, st, next)) = next
    <2>1. Caps \in Capabilities
      BY CommandsAssumption
    <2>2. next.power => After(st, ChangedProps(Caps, st, next)) = next
      BY <1>3, <1>6, <1>7, <2>1, ChangeCarriedOut
    <2> QED BY <1>8, <2>2, Zenon
  <1>10. After(st, Sends(st, p)) = next
    BY <1>3, <1>7, <1>9, Zenon DEF Sends
  <1> QED BY <1>1, <1>8, <1>10, Zenon

(* Conversion is round-trip stable (StatePayload, ParseCommand): for every *)
(* brightness and warmth, sending back what Home Assistant shows sends the *)
(* lamp nothing, as long as a per cent of the range is a Kelvin or more.   *)
THEOREM ShownAlwaysSettles ==
  ASSUME Full = 100, Span >= 100
  PROVE  Spec => []ShownSettles
  <1>1. ASSUME TypeOK PROVE ShownSettles
    <2> SUFFICES ASSUME NEW pct \in 1..Full
                 PROVE  LET st == [state EXCEPT !.brightness = pct, !.temp = Full - pct]
                        IN  Sends(st, StatePayload(st)) = <<>>
      BY DEF ShownSettles
    <2>1. PICK st : st = [state EXCEPT !.brightness = pct, !.temp = Full - pct]
      OBVIOUS
    <2>2. pct \in Percent /\ Full - pct \in Percent /\ pct # 0
      BY LightsAssumption DEF Percent
    <2>3. st \in LightState /\ st.brightness # 0
      BY <1>1, <2>1, <2>2 DEF TypeOK, LightState
    <2>4. Sends(st, StatePayload(st)) = <<>>
      BY <2>3, NothingToSend
    <2> QED BY <2>1, <2>4
  <1> QED BY <1>1, TypeCorrect, PTL

(* The slider is honoured (ParseCommand, ChangedProps): a lamp that does   *)
(* what it is sent is lit and shows the position, to within the rounding,  *)
(* whatever it reported before.                                            *)
THEOREM SliderAlwaysHonoured ==
  ASSUME Full = 100
  PROVE  Spec => []SliderHonoured
  <1>1. ASSUME TypeOK PROVE SliderHonoured
    <2> SUFFICES ASSUME NEW v \in 2..HABrightnessMax
                 PROVE  LET p == [Nothing EXCEPT !.state = "ON", !.brightness = v]
                            st == After(state, Sends(state, p))
                        IN  ~Refused(Caps, ParseCommand(p)) =>
                              st.power /\ BrightnessToHA(st.brightness) \in (v - 2)..(v + 2)
      BY DEF SliderHonoured
    <2>1. state \in LightState
      BY <1>1 DEF TypeOK
    <2>2. PICK p : p = [Nothing EXCEPT !.state = "ON", !.brightness = v]
      OBVIOUS
    <2>3. ASSUME ~Refused(Caps, ParseCommand(p))
          PROVE  /\ After(state, Sends(state, p)).power
                 /\ After(state, Sends(state, p)).brightness = BrightnessFromHA(v)
      BY <2>1, <2>2, <2>3, SliderTaken
    <2> QED BY <2>2, <2>3, SliderReturns, Zenon
  <1> QED BY <1>1, TypeCorrect, PTL

=============================================================================
