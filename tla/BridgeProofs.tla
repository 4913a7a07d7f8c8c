---------------------------- MODULE BridgeProofs ----------------------------
(***************************************************************************)
(* Proofs about Bridge, for any number of lamps, names, states, OnConnect  *)
(* goroutines, events and connections.                                     *)
(***************************************************************************)
EXTENDS Bridge, FiniteSetTheorems, TLAPS

-----------------------------------------------------------------------------
(* Sequences and their elements.                                           *)
LEMMA SetOfTail ==
  ASSUME NEW S, NEW s \in Seq(S), s # <<>>
  PROVE  /\ Head(s) \in S /\ Tail(s) \in Seq(S)
         /\ ToSet(s) = {Head(s)} \cup ToSet(Tail(s))
  <1>1. Len(s) \in Nat \ {0} /\ DOMAIN s = 1..Len(s) /\ Head(s) = s[1]
    OBVIOUS
  <1>2. Tail(s) \in Seq(S) /\ Len(Tail(s)) = Len(s) - 1 /\ DOMAIN Tail(s) = 1..(Len(s) - 1)
    BY <1>1
  <1>3. \A i \in 1..(Len(s) - 1) : Tail(s)[i] = s[i + 1] /\ i + 1 \in 1..Len(s)
    BY <1>1
  <1>4. \A i \in 1..Len(s) : s[i] \in S
    BY <1>1
  <1>5. ASSUME NEW x \in ToSet(s) PROVE x = Head(s) \/ x \in ToSet(Tail(s))
    <2>1. PICK i \in 1..Len(s) : x = s[i]
      BY <1>1 DEF ToSet
    <2>2. CASE i = 1
      BY <1>1, <2>1, <2>2
    <2>3. CASE i # 1
      <3>1. i - 1 \in 1..(Len(s) - 1) /\ (i - 1) + 1 = i
        BY <1>1, <2>3
      <3>2. x = Tail(s)[i - 1] 
        BY <1>3, <2>1, <3>1
      <3> QED BY <1>2, <3>1, <3>2 DEF ToSet
    <2> QED BY <2>2, <2>3
  <1>6. Head(s) \in ToSet(s)
    BY <1>1 DEF ToSet
  <1>7. ASSUME NEW x \in ToSet(Tail(s)) PROVE x \in ToSet(s)
    BY <1>1, <1>2, <1>3 DEF ToSet
  <1> QED BY <1>1, <1>2, <1>4, <1>5, <1>6, <1>7

LEMMA SameSequence ==
  ASSUME NEW S, NEW s \in Seq(S), NEW t \in Seq(S), Len(s) = Len(t),
         \A i \in 1..Len(t) : s[i] = t[i]
  PROVE  s = t
  OBVIOUS

LEMMA SetOfPair ==
  ASSUME NEW S, NEW x \in S, NEW y \in S, NEW t \in Seq(S)
  PROVE  LET u == <<x, y>> \o t
         IN  /\ u \in Seq(S) /\ u # <<>> /\ Head(u) = x
             /\ Tail(u) # <<>> /\ Head(Tail(u)) = y /\ Tail(Tail(u)) = t
  <1> DEFINE u == <<x, y>> \o t
  <1>1. u \in Seq(S) /\ Len(u) = Len(t) + 2 /\ u[1] = x /\ u[2] = y
        /\ \A i \in 1..Len(t) : u[i + 2] = t[i]
    OBVIOUS
  <1> HIDE DEF u
  <1>2. Len(t) \in Nat
    OBVIOUS
  <1>3. Tail(u) \in Seq(S) /\ Len(Tail(u)) = Len(t) + 1 /\ Tail(u)[1] = y
        /\ \A i \in 1..Len(t) : Tail(u)[i + 1] = t[i]
    BY <1>1, <1>2
  <1>4. Tail(Tail(u)) \in Seq(S) /\ Len(Tail(Tail(u))) = Len(t)
        /\ \A i \in 1..Len(t) : Tail(Tail(u))[i] = t[i]
    <2> DEFINE v == Tail(u)
    <2>1. v \in Seq(S) /\ Len(v) = Len(t) + 1 /\ \A i \in 1..Len(t) : v[i + 1] = t[i]
      BY <1>3
    <2> HIDE DEF v
    <2>2. Tail(v) \in Seq(S) /\ Len(Tail(v)) = Len(t)
      BY <1>2, <2>1
    <2>3. \A i \in 1..Len(t) : Tail(v)[i] = v[i + 1]
      BY <1>2, <2>1
    <2> QED BY <2>1, <2>2, <2>3 DEF v
  <1>5. Tail(Tail(u)) = t
    BY <1>4, SameSequence
  <1>6. u # <<>> /\ Tail(u) # <<>>
    <2>1. u = <<>> => Len(u) = Len(<<>>)
      BY Zenon
    <2>2. Tail(u) = <<>> => Len(Tail(u)) = Len(<<>>)
      BY Zenon
    <2>3. Len(<<>>) = 0
      OBVIOUS
    <2> QED BY <1>1, <1>2, <1>3, <2>1, <2>2, <2>3
  <1> QED BY <1>1, <1>3, <1>5, <1>6 DEF u

LEMMA SetOfConcat ==
  ASSUME NEW S, NEW s \in Seq(S), NEW t \in Seq(S)
  PROVE  s \o t \in Seq(S) /\ ToSet(s \o t) = ToSet(s) \cup ToSet(t)
  <1>1. s \o t \in Seq(S) /\ DOMAIN (s \o t) = 1..(Len(s) + Len(t))
    OBVIOUS
  <1>2. Len(s) \in Nat /\ Len(t) \in Nat /\ DOMAIN s = 1..Len(s) /\ DOMAIN t = 1..Len(t)
    OBVIOUS
  <1>3. \A i \in 1..Len(s) : (s \o t)[i] = s[i] /\ i \in 1..(Len(s) + Len(t))
    BY <1>2
  <1>4. \A i \in 1..Len(t) : (s \o t)[Len(s) + i] = t[i] /\ Len(s) + i \in 1..(Len(s) + Len(t))
    BY <1>2
  <1>5. ASSUME NEW x \in ToSet(s \o t) PROVE x \in ToSet(s) \cup ToSet(t)
    <2>1. PICK i \in 1..(Len(s) + Len(t)) : x = (s \o t)[i]
      BY <1>1 DEF ToSet
    <2>2. CASE i <= Len(s)
      BY <1>2, <1>3, <2>1, <2>2 DEF ToSet
    <2>3. CASE ~(i <= Len(s))
      <3>1. i - Len(s) \in 1..Len(t) /\ Len(s) + (i - Len(s)) = i
        BY <1>2, <2>3
      <3>2. x = t[i - Len(s)]
        BY <1>4, <2>1, <3>1
      <3> QED BY <1>2, <3>1, <3>2 DEF ToSet
    <2> QED BY <2>2, <2>3
  <1>6. ASSUME NEW x \in ToSet(s) PROVE x \in ToSet(s \o t)
    BY <1>1, <1>2, <1>3 DEF ToSet
  <1>7. ASSUME NEW x \in ToSet(t) PROVE x \in ToSet(s \o t)
    BY <1>1, <1>2, <1>4 DEF ToSet
  <1> QED BY <1>1, <1>5, <1>6, <1>7

LEMMA SetsOfShort ==
  /\ ToSet(<<>>) = {}
  /\ \A x : ToSet(<<x>>) = {x}
  /\ \A x, y : ToSet(<<x, y>>) = {x, y}
  /\ \A x, y, z : ToSet(<<x, y, z>>) = {x, y, z}
  <1>1. ToSet(<<>>) = {}
    BY DEF ToSet
  <1>2. ASSUME NEW x PROVE ToSet(<<x>>) = {x}
    BY DEF ToSet
  <1>3. ASSUME NEW x, NEW y PROVE ToSet(<<x, y>>) = {x, y}
    BY DEF ToSet
  <1>4. ASSUME NEW x, NEW y, NEW z PROVE ToSet(<<x, y, z>>) = {x, y, z}
    BY DEF ToSet
  <1> QED BY <1>1, <1>2, <1>3, <1>4

(* SetToSeq lists a finite set.                                            *)
LEMMA SetToSeqLists ==
  ASSUME NEW S, IsFiniteSet(S)
  PROVE  /\ SetToSeq(S) \in Seq(S)
         /\ ToSet(SetToSeq(S)) = S
  <1> DEFINE N == Cardinality(S)
             f == SetToSeq(S)
  <1>1. N \in Nat /\ ExistsBijection(1..N, S)
    BY FS_CardinalityType
  <1>2. \E g \in [1..N -> S] : IsInjective(g)
    BY <1>1 DEF ExistsBijection, Bijection, Injection, IsInjective
  <1>3. f \in [1..N -> S] /\ IsInjective(f)
    BY <1>2 DEF SetToSeq
  <1>4. f \in Injection(1..N, S)
    BY <1>3 DEF Injection
  <1>5. IsFiniteSet(1..N) /\ Cardinality(1..N) = N
    BY <1>1, FS_Interval
  <1>6. f \in Surjection(1..N, S)
    BY <1>4, <1>5, FS_Injection
  <1>7. \A x \in S : \E i \in 1..N : f[i] = x
    BY <1>6 DEF Surjection
  <1>8. f \in Seq(S) /\ DOMAIN f = 1..N
    BY <1>1, <1>3
  <1> QED BY <1>3, <1>7, <1>8 DEF ToSet
-----------------------------------------------------------------------------
(* Types.                                                                  *)
PublishOps == [op : {"publish"}, topic : Topic, value : Payload]
AnnounceOps == [op : {"announce"}, dev : Device, lamp : Lamp]
RecordOps == [op : {"record"}, dev : Device, name : Name \cup {Nil}]

Op == PublishOps \cup AnnounceOps \cup RecordOps \cup {SubscribeOp, SnapshotOp}

Event == [kind : Kind, dev : Device]

ClientTypeOK ==
  /\ sess \in {"down", "resub", "reading", "ended"}
  /\ connects \in Nat
  /\ wire \in {"none", "up", "dead"}
  /\ will \in BOOLEAN
  /\ handlers \in BOOLEAN
  /\ subscribed \in BOOLEAN
  /\ retained \in [Topic -> Payload \cup {Nil}]
  /\ lost \in SUBSET Topic
  /\ stopping \in BOOLEAN

LampTypeOK ==
  /\ lamp \in [Device -> Lamp]
  /\ session \in [Device -> {"none", "new", "spoken", "leaving", "ending"}]
  /\ late \in [Device -> Nat]
  /\ shadowed \in [Device -> Nat]
  /\ queue \in Seq(Event)
  /\ offered \in Nat
  /\ said \in [Device -> Words \cup {"nothing"}]
  /\ namings \in Nat
  /\ scope \in Scope

LoopTypeOK ==
  /\ phase \in {"following", "ended"}
  /\ todo \in [Actor -> Seq(Op)]
  /\ reported \in SUBSET Device
  /\ announced \in [Device -> Name \cup {Nil}]
  /\ overtaken \in BOOLEAN

TypeOK == ClientTypeOK /\ LampTypeOK /\ LoopTypeOK

LEMMA Topics ==
  /\ Status \in Topic
  /\ \A d \in Device : /\ ConfigTopic(d) \in Topic /\ ConfigTopic(d) # Status
                       /\ StateTopic(d) \in Topic /\ StateTopic(d) # Status
                       /\ AvailabilityTopic(d) \in Topic /\ AvailabilityTopic(d) # Status
  /\ \A d, e : /\ ConfigTopic(d) = ConfigTopic(e) => d = e
               /\ StateTopic(d) = StateTopic(e) => d = e
               /\ AvailabilityTopic(d) = AvailabilityTopic(e) => d = e
               /\ ConfigTopic(d) # StateTopic(e) /\ ConfigTopic(d) # AvailabilityTopic(e)
               /\ StateTopic(d) # AvailabilityTopic(e)
  <1>1. \A d \in Device : TopicsOf(d) \subseteq Topic /\ Status \notin TopicsOf(d)
    BY BridgeAssumption
  <1>2. \A d \in Device : /\ ConfigTopic(d) \in Topic /\ ConfigTopic(d) # Status
                          /\ StateTopic(d) \in Topic /\ StateTopic(d) # Status
                          /\ AvailabilityTopic(d) \in Topic /\ AvailabilityTopic(d) # Status
    BY <1>1 DEF TopicsOf
  <1>3. \A d, e : /\ ConfigTopic(d) = ConfigTopic(e) => d = e
                  /\ StateTopic(d) = StateTopic(e) => d = e
                  /\ AvailabilityTopic(d) = AvailabilityTopic(e) => d = e
                  /\ ConfigTopic(d) # StateTopic(e) /\ ConfigTopic(d) # AvailabilityTopic(e)
                  /\ StateTopic(d) # AvailabilityTopic(e)
    BY DEF ConfigTopic, StateTopic, AvailabilityTopic
  <1>4. Status \in Topic
    BY BridgeAssumption
  <1> QED BY <1>2, <1>3, <1>4

(* The operations a goroutine may be given.                                *)
LEMMA OpsTyped ==
  /\ SubscribeOp \in Op /\ SnapshotOp \in Op
  /\ \A t \in Topic, v \in Payload : PublishOp(t, v) \in Op
  /\ \A d \in Device, l \in Lamp : /\ AnnounceOp(d, l) \in Op
                                   /\ RecordOp(d, l.name) \in Op
                                   /\ Discovery(l) \in Payload
                                   /\ StatePayload(l) \in Payload
                                   /\ Availability(l) \in Payload
  /\ {"online", "offline"} \subseteq Payload
  <1>1. \A t \in Topic, v \in Payload : PublishOp(t, v) \in Op
    BY DEF PublishOp, Op, PublishOps
  <1>2. ASSUME NEW d \in Device, NEW l \in Lamp
        PROVE  AnnounceOp(d, l) \in Op /\ RecordOp(d, l.name) \in Op
    BY DEF AnnounceOp, RecordOp, Op, AnnounceOps, RecordOps, Lamp
  <1>3. ASSUME NEW l \in Lamp
        PROVE  Discovery(l) \in Payload /\ StatePayload(l) \in Payload
    BY DEF Discovery, StatePayload, ClaimsWarmth, Payload, Lamp
  <1>4. \A l \in Lamp : Availability(l) \in Payload
    BY DEF Availability, Payload
  <1>5. {"online", "offline"} \subseteq Payload /\ SubscribeOp \in Op /\ SnapshotOp \in Op
    BY DEF Payload, Op
  <1> QED BY <1>1, <1>2, <1>3, <1>4, <1>5

LEMMA OpsByKind ==
  ASSUME NEW o \in Op
  PROVE  /\ o.op = "publish" => o.topic \in Topic /\ o.value \in Payload
         /\ o.op = "announce" => o.dev \in Device /\ o.lamp \in Lamp
         /\ o.op = "record" => o.dev \in Device /\ o.name \in Name \cup {Nil}
         /\ o.op = "subscribe" <=> o = SubscribeOp
         /\ o.op = "snapshot" <=> o = SnapshotOp
         /\ o.op \in {"publish", "announce", "record", "subscribe", "snapshot"}
  BY DEF Op, PublishOps, AnnounceOps, RecordOps, SubscribeOp, SnapshotOp

LEMMA LampTyped ==
  ASSUME NEW l \in Lamp
  PROVE  /\ \A n \in Name : [l EXCEPT !.name = n] \in Lamp
         /\ \A n \in {"Absent", "Discovered", "Connected", "Disconnected"} :
              [l EXCEPT !.status = n] \in Lamp
         /\ \A v \in State, w \in BOOLEAN : [l EXCEPT !.state = v, !.warm = w] \in Lamp
  BY DEF Lamp

(* What Run makes of an event.                                             *)
LEMMA PublicationsTyped ==
  ASSUME TypeOK, NEW k \in Kind, NEW d \in Device, NEW l \in Lamp
  PROVE  Publications(k, d, l) \in Seq(Op)
  <1>1. /\ AnnounceOp(d, l) \in Op /\ PublishState(d, l) \in Op
        /\ \A v \in {"online", "offline", Availability(l)} : PublishAvailability(d, v) \in Op
    BY OpsTyped, Topics DEF PublishState, PublishAvailability
  <1> QED BY <1>1 DEF Publications, Kind

LEMMA InitTyped == Init => TypeOK
  <1> SUFFICES ASSUME Init PROVE TypeOK
    OBVIOUS
  <1>1. ClientTypeOK
    BY DEF Init, ClientInit, ClientTypeOK
  <1>2. <<SubscribeOp>> \in Seq(Op) /\ <<>> \in Seq(Op) /\ <<>> \in Seq(Event)
    BY OpsTyped
  <1>3. LampTypeOK
    BY <1>2 DEF Init, LampTypeOK, Words
  <1>4. LoopTypeOK
    BY <1>2 DEF Init, LoopTypeOK
  <1> QED BY <1>1, <1>3, <1>4 DEF TypeOK

(* A goroutine takes up the operation at the head of its list.             *)
LEMMA Takes ==
  ASSUME TypeOK, NEW a \in Actor, todo[a] # <<>>
  PROVE  \E h \in Op, r \in Seq(Op) : /\ h = Head(todo[a]) /\ r = Tail(todo[a])
                                     /\ ToSet(todo[a]) = {h} \cup ToSet(r)
  <1>1. todo[a] \in Seq(Op)
    BY DEF TypeOK, LoopTypeOK
  <1>2. /\ Head(todo[a]) \in Op /\ Tail(todo[a]) \in Seq(Op)
        /\ ToSet(todo[a]) = {Head(todo[a])} \cup ToSet(Tail(todo[a]))
    BY <1>1, SetOfTail
  <1> QED BY <1>2, Zenon

LEMMA ReportedTyped ==
  ASSUME TypeOK, NEW k \in Kind, NEW d \in Device
  PROVE  ReportedAfter(k, d) \in SUBSET Device
  BY DEF TypeOK, LoopTypeOK, ReportedAfter, Kind

(* What Snapshot gives to OnConnect.                                       *)
Known == {d \in Device : lamp[d].status # "Absent"}

Announcements == [i \in DOMAIN SetToSeq(Known) |->
                    AnnounceOp(SetToSeq(Known)[i], lamp[SetToSeq(Known)[i]])]

LEMMA AnnouncementsAre ==
  ASSUME TypeOK
  PROVE  /\ Announcements \in Seq(Op)
         /\ ToSet(Announcements) = {AnnounceOp(d, lamp[d]) : d \in Known}
  <1>1. IsFiniteSet(Known)
    BY BridgeAssumption, FS_Subset DEF Known
  <1> DEFINE q == SetToSeq(Known)
  <1>2. q \in Seq(Known) /\ ToSet(q) = Known
    BY <1>1, SetToSeqLists
  <1> HIDE DEF q
  <1>3. DOMAIN q = 1..Len(q) /\ Len(q) \in Nat /\ \A i \in DOMAIN q : q[i] \in Known
    BY <1>2
  <1>4. \A d \in Known : AnnounceOp(d, lamp[d]) \in Op
    BY OpsTyped DEF TypeOK, LampTypeOK, Known
  <1>5. Announcements = [i \in 1..Len(q) |-> AnnounceOp(q[i], lamp[q[i]])]
    BY <1>3 DEF Announcements, q
  <1>6. Announcements \in Seq(Op)
    BY <1>3, <1>4, <1>5
  <1>7. \A x : x \in ToSet(Announcements) <=> \E i \in 1..Len(q) : x = AnnounceOp(q[i], lamp[q[i]])
    BY <1>5 DEF ToSet
  <1>8. \A d : d \in Known <=> \E i \in 1..Len(q) : d = q[i]
    BY <1>2, <1>3 DEF ToSet
  <1>9. ToSet(Announcements) = {AnnounceOp(d, lamp[d]) : d \in Known}
    BY <1>7, <1>8
  <1> QED BY <1>6, <1>9

(* The client and the broker.                                              *)
LEMMA ClientTyped ==
  ASSUME TypeOK,
         \/ UNCHANGED clientVars
         \/ ClientStep \/ Connect \/ Resubscribe \/ SubscribeCommands
         \/ \E t \in Topic, v \in Payload : Deliver(t, v) \/ Miss(t)
         \/ stopping' = TRUE /\ UNCHANGED <<sess, connects, wire, handlers, brokerVars>>
  PROVE  ClientTypeOK'
  <1> USE Topics, OpsTyped DEF TypeOK, ClientTypeOK, sessionVars, brokerVars
  <1>1. CASE UNCHANGED clientVars
    BY <1>1 DEF clientVars
  <1>2. CASE ClientStep
    BY <1>2 DEF ClientStep, ResubscribeFails, SessionEnds, RunReturns, AfterSession,
                Depart, LinkDies, WillFires
  <1>3. CASE Connect
    <2>1. retained' \in [Topic -> Payload \cup {Nil}]
      BY <1>3 DEF Connect, Handshake
    <2>2. connects' \in Nat
      BY <1>3 DEF Connect
    <2>3. sess' \in {"down", "resub", "reading"}
      BY <1>3 DEF Connect
    <2> QED BY <1>3, <2>1, <2>2, <2>3 DEF Connect, Handshake
  <1>4. CASE Resubscribe \/ SubscribeCommands
    BY <1>4 DEF Resubscribe, SubscribeCommands, SendsItself, Arrives, HasConn
  <1>5. ASSUME NEW t \in Topic, NEW v \in Payload, Deliver(t, v) \/ Miss(t)
        PROVE  ClientTypeOK'
    BY <1>5 DEF Deliver, Miss
  <1>6. CASE stopping' = TRUE /\ UNCHANGED <<sess, connects, wire, handlers, brokerVars>>
    BY <1>6
  <1> QED BY <1>1, <1>2, <1>3, <1>4, <1>5, <1>6

(* The lamps.                                                              *)
LEMMA OfferTyped ==
  ASSUME TypeOK, NEW k \in Kind, NEW d \in Device, Offer(k, d) \/ Silent
  PROVE  queue' \in Seq(Event) /\ offered' \in Nat /\ said' \in [Device -> Words \cup {"nothing"}]
  <1>1. CASE Offer(k, d)
    BY <1>1 DEF Offer, Event, TypeOK, LampTypeOK
  <1>2. CASE Silent
    BY <1>2 DEF Silent, TypeOK, LampTypeOK
  <1> QED BY <1>1, <1>2

LEMMA LampTypedStep ==
  ASSUME TypeOK, NEW d \in Device, LampStep(d)
  PROVE  LampTypeOK' /\ UNCHANGED <<clientVars, bridgeVars>>
  <1> USE DEF TypeOK, LampTypeOK
  <1>1. /\ lamp[d] \in Lamp
        /\ {"Discovered", "Connected", "Disconnected", "StateChanged", "Renamed"} \subseteq Kind
    BY DEF Kind
  <1>2. ASSUME NEW s \in {"Absent", "Discovered", "Connected", "Disconnected"},
               lamp' = [lamp EXCEPT ![d] = [lamp[d] EXCEPT !.status = s]]
        PROVE  lamp' \in [Device -> Lamp]
    <2>1. [lamp[d] EXCEPT !.status = s] \in Lamp
      BY <1>1, LampTyped
    <2> QED BY <1>2, <2>1
  <1>3. UNCHANGED <<clientVars, bridgeVars, scope>>
    BY DEF LampStep, Connects, Reports, ReportsReplaced, Classifies, Leaves, PublishesGone,
           Aborts, Unregisters, Renames, environmentUnchanged
  <1>4. CASE Connects(d)
    <2>1. PICK s \in {"Discovered", "Connected"} :
            lamp' = [lamp EXCEPT ![d] = [lamp[d] EXCEPT !.status = s]]
      BY <1>1, <1>4 DEF Connects, Lamp
    <2>2. lamp' \in [Device -> Lamp]
      BY <1>2, <2>1
    <2>3. queue' \in Seq(Event) /\ offered' \in Nat /\ said' \in [Device -> Words \cup {"nothing"}]
      BY <1>1, <1>4, OfferTyped DEF Connects
    <2>4. late' \in [Device -> Nat] /\ shadowed' \in [Device -> Nat]
      BY <1>4 DEF Connects
    <2>5. /\ session' \in [Device -> {"none", "new", "spoken", "leaving", "ending"}]
          /\ namings' \in Nat
      BY <1>4 DEF Connects
    <2> QED BY <1>3, <2>2, <2>3, <2>4, <2>5
  <1>5. ASSUME NEW v \in State, NEW w \in BOOLEAN, Report(d, v, w)
        PROVE  lamp' \in [Device -> Lamp]
    <2>1. lamp' = [lamp EXCEPT ![d] = [@ EXCEPT !.state = v, !.warm = w]]
      BY <1>1, <1>5 DEF Report, Lamp
    <2>2. [lamp[d] EXCEPT !.state = v, !.warm = w] \in Lamp
      BY <1>1, LampTyped
    <2> QED BY <2>1, <2>2
  <1>6. ASSUME NEW v \in State, NEW w \in BOOLEAN, Reports(d, v, w) \/ ReportsReplaced(d, v, w)
        PROVE  LampTypeOK'
    <2>1. /\ lamp' \in [Device -> Lamp]
          /\ Offer("StateChanged", d) \/ Silent
          /\ session' \in [Device -> {"none", "new", "spoken", "leaving", "ending"}]
          /\ UNCHANGED <<late, shadowed, namings>>
      BY <1>5, <1>6 DEF Reports, ReportsReplaced
    <2> QED BY <1>1, <1>3, <2>1, OfferTyped
  <1>7. ASSUME NEW w \in BOOLEAN, Classifies(d, w) PROVE LampTypeOK'
    <2>1. lamp' = [lamp EXCEPT ![d] = [@ EXCEPT !.warm = w]]
      BY <1>1, <1>7 DEF Classifies, Lamp
    <2>2. [lamp[d] EXCEPT !.warm = w] \in Lamp
      BY <1>1 DEF Lamp
    <2>3. lamp' \in [Device -> Lamp]
      BY <2>1, <2>2
    <2> QED BY <1>3, <1>7, <2>3 DEF Classifies, Silent
  <1>8. CASE Leaves(d)
    BY <1>3, <1>8 DEF Leaves, Silent
  <1>9. CASE PublishesGone(d)
    <2>1. queue' \in Seq(Event) /\ offered' \in Nat /\ said' \in [Device -> Words \cup {"nothing"}]
      BY <1>1, <1>9, OfferTyped DEF PublishesGone
    <2>2. /\ session' = session \/ session' = [session EXCEPT ![d] = "ending"]
          /\ late' = late \/ (late[d] > 0 /\ late' = [late EXCEPT ![d] = late[d] - 1])
          /\ UNCHANGED <<lamp, shadowed, namings>>
      BY <1>9 DEF PublishesGone
    <2>3. session' \in [Device -> {"none", "new", "spoken", "leaving", "ending"}]
      BY <2>2
    <2>4. late' \in [Device -> Nat]
      BY <2>2
    <2> QED BY <1>3, <2>1, <2>2, <2>3, <2>4
  <1>10. CASE Aborts(d)
    <2>1. /\ session' = session \/ session' = [session EXCEPT ![d] = "ending"]
          /\ \/ shadowed' = shadowed
             \/ shadowed[d] > 0 /\ shadowed' = [shadowed EXCEPT ![d] = shadowed[d] - 1]
          /\ UNCHANGED <<lamp, late, namings, queue, offered, said>>
      BY <1>10 DEF Aborts, Silent
    <2>2. session' \in [Device -> {"none", "new", "spoken", "leaving", "ending"}]
      BY <2>1
    <2>3. shadowed' \in [Device -> Nat]
      BY <2>1
    <2> QED BY <1>3, <2>1, <2>2, <2>3
  <1>11. CASE Unregisters(d)
    <2>1. PICK s \in {"Absent", "Discovered", "Connected", "Disconnected"} :
            lamp' = [lamp EXCEPT ![d] = [lamp[d] EXCEPT !.status = s]]
      BY <1>1, <1>11 DEF Unregisters, Lamp
    <2>2. lamp' \in [Device -> Lamp]
      BY <1>2, <2>1
    <2> QED BY <1>3, <1>11, <2>2 DEF Unregisters, Silent
  <1>12. ASSUME NEW n \in Name, Renames(d, n) PROVE LampTypeOK'
    <2>1. PICK s \in {"Absent", "Discovered", "Connected", "Disconnected"} :
            lamp' = [lamp EXCEPT ![d] = [lamp[d] EXCEPT !.name = n, !.status = s]]
      BY <1>1, <1>12 DEF Renames, Lamp
    <2>2. [lamp[d] EXCEPT !.name = n, !.status = s] \in Lamp
      BY <1>1 DEF Lamp
    <2>3. lamp' \in [Device -> Lamp]
      BY <2>1, <2>2
    <2>4. queue' \in Seq(Event) /\ offered' \in Nat /\ said' \in [Device -> Words \cup {"nothing"}]
      BY <1>1, <1>12, OfferTyped DEF Renames
    <2> QED BY <1>3, <1>12, <2>3, <2>4 DEF Renames
  <1> QED BY <1>3, <1>4, <1>6, <1>7, <1>8, <1>9, <1>10, <1>11, <1>12 DEF LampStep

(* What the environment's step does to a lamp and to the subscription.     *)
Offers(k, d) == queue' = Append(queue, [kind |-> k, dev |-> d])

LEMMA OfferSets ==
  ASSUME TypeOK, NEW k \in Kind, NEW d \in Device, Offers(k, d)
  PROVE  /\ ToSet(queue') = ToSet(queue) \cup {[kind |-> k, dev |-> d]}
         /\ Len(queue') = Len(queue) + 1 /\ Len(queue) \in Nat
         /\ queue'[Len(queue) + 1] = [kind |-> k, dev |-> d]
         /\ \A i \in 1..Len(queue) : queue'[i] = queue[i]
  <1> DEFINE e == [kind |-> k, dev |-> d]
  <1>1. queue \in Seq(Event) /\ e \in Event /\ queue' = Append(queue, e)
    BY DEF TypeOK, LampTypeOK, Event, Offers
  <1> HIDE DEF e
  <1>2. /\ Len(queue') = Len(queue) + 1 /\ Len(queue) \in Nat
        /\ queue'[Len(queue) + 1] = e
        /\ \A i \in 1..Len(queue) : queue'[i] = queue[i]
    BY <1>1
  <1>3. DOMAIN queue' = 1..(Len(queue) + 1) /\ DOMAIN queue = 1..Len(queue)
    BY <1>1
  <1>4. \A i \in 1..(Len(queue) + 1) : i \in 1..Len(queue) \/ i = Len(queue) + 1
    BY <1>2
  <1>5. Len(queue) + 1 \in 1..(Len(queue) + 1) /\ 1..Len(queue) \subseteq 1..(Len(queue) + 1)
    BY <1>2
  <1>6. ToSet(queue') \subseteq ToSet(queue) \cup {e}
    BY <1>2, <1>3, <1>4 DEF ToSet
  <1>7. ToSet(queue) \cup {e} \subseteq ToSet(queue')
    BY <1>2, <1>3, <1>5 DEF ToSet
  <1>8. ToSet(queue') = ToSet(queue) \cup {e}
    BY <1>6, <1>7
  <1> QED BY <1>2, <1>8 DEF e

(* The last word of d's sessions, after the event k or after none.         *)
SaysWord(k, d) ==
  /\ Offers(k, d)
  /\ said' = [said EXCEPT ![d] = IF k \in Words THEN k ELSE @]

LEMMA LampSteps ==
  ASSUME TypeOK, NEW d \in Device, LampStep(d)
  PROVE  /\ \A x \in Device \ {d} : lamp'[x] = lamp[x]
         /\ \/ queue' = queue /\ said' = said
            \/ \E k \in Kind : SaysWord(k, d)
         /\ \/ Offers("Renamed", d) /\ namings' # 0 /\ lamp'[d].name \in Name
            \/ /\ lamp'[d].name = lamp[d].name
               /\ lamp'[d].status \notin {"Absent", "Discovered"} =>
                    lamp[d].status \notin {"Absent", "Discovered"}
         /\ lamp'[d].state = lamp[d].state \/ Offers("StateChanged", d)
         /\ namings' = 0 => /\ namings = 0
                            /\ queue' = queue \/ \E k \in Kind \ {"Renamed"} : Offers(k, d)
  <1> USE DEF TypeOK, LampTypeOK
  <1>1. lamp[d] \in Lamp /\ lamp \in [Device -> Lamp] /\ namings \in Nat
    OBVIOUS
  <1>2. /\ \A k : Offer(k, d) => SaysWord(k, d)
        /\ \A k : SaysWord(k, d) => Offers(k, d)
        /\ Silent => queue' = queue /\ said' = said
    BY DEF Offer, SaysWord, Offers, Silent
  <1>3. /\ Kind \ {"Renamed"} = {"Discovered", "Connected", "Disconnected", "StateChanged"}
        /\ "Renamed" \in Kind
    BY DEF Kind
  <1>4. CASE Connects(d)
    <2>1. PICK s \in {"Discovered", "Connected"} :
            /\ lamp' = [lamp EXCEPT ![d] = [lamp[d] EXCEPT !.status = s]]
            /\ s = "Connected" => lamp[d].status \notin {"Absent", "Discovered"}
      BY <1>1, <1>4 DEF Connects, Lamp
    <2>2. /\ lamp'[d].name = lamp[d].name /\ lamp'[d].state = lamp[d].state
          /\ lamp'[d].status = s
          /\ \A x \in Device \ {d} : lamp'[x] = lamp[x]
      BY <1>1, <2>1 DEF Lamp
    <2>3. namings' = namings /\ \E k \in Kind \ {"Renamed"} : SaysWord(k, d)
      BY <1>2, <1>3, <1>4 DEF Connects
    <2> QED BY <1>2, <2>1, <2>2, <2>3
  <1>5. ASSUME NEW v \in State, NEW w \in BOOLEAN, Report(d, v, w)
        PROVE  /\ lamp'[d].name = lamp[d].name /\ lamp'[d].status = lamp[d].status
               /\ lamp'[d].state = v
               /\ \A x \in Device \ {d} : lamp'[x] = lamp[x]
    <2>1. lamp' = [lamp EXCEPT ![d] = [@ EXCEPT !.state = v, !.warm = w]]
      BY <1>1, <1>5 DEF Report, Lamp
    <2> QED BY <1>1, <2>1 DEF Lamp
  <1>6. ASSUME NEW v \in State, NEW w \in BOOLEAN, Reports(d, v, w) \/ ReportsReplaced(d, v, w)
        PROVE  /\ Report(d, v, w) /\ namings' = namings
               /\ \/ SaysWord("StateChanged", d)
                  \/ queue' = queue /\ said' = said /\ lamp[d].state = v
    BY <1>2, <1>6 DEF Reports, ReportsReplaced
  <1>7. CASE \E v \in State, w \in BOOLEAN : Reports(d, v, w) \/ ReportsReplaced(d, v, w)
    BY <1>2, <1>3, <1>5, <1>6, <1>7
  <1>8. CASE \E w \in BOOLEAN : Classifies(d, w)
    <2>1. PICK w \in BOOLEAN : lamp' = [lamp EXCEPT ![d] = [@ EXCEPT !.warm = w]]
      BY <1>1, <1>8 DEF Classifies, Lamp
    <2>2. /\ lamp'[d].name = lamp[d].name /\ lamp'[d].state = lamp[d].state
          /\ lamp'[d].status = lamp[d].status
          /\ \A x \in Device \ {d} : lamp'[x] = lamp[x]
      BY <1>1, <2>1 DEF Lamp
    <2>3. namings' = namings /\ queue' = queue /\ said' = said
      BY <1>2, <1>8 DEF Classifies
    <2> QED BY <2>2, <2>3
  <1>9. CASE Leaves(d) \/ PublishesGone(d) \/ Aborts(d)
    <2>1. /\ lamp' = lamp /\ namings' = namings
          /\ \/ queue' = queue /\ said' = said
             \/ SaysWord("Disconnected", d)
      BY <1>2, <1>9 DEF Leaves, PublishesGone, Aborts
    <2> QED BY <1>2, <1>3, <2>1
  <1>10. CASE Unregisters(d)
    <2>1. PICK s \in {"Absent", "Discovered", "Connected", "Disconnected"} :
            /\ lamp' = [lamp EXCEPT ![d] = [lamp[d] EXCEPT !.status = s]]
            /\ s = lamp[d].status \/ (s = "Disconnected" /\ lamp[d].status = "Connected")
      BY <1>1, <1>10 DEF Unregisters, Lamp
    <2>2. /\ lamp'[d].name = lamp[d].name /\ lamp'[d].state = lamp[d].state
          /\ lamp'[d].status = s
          /\ \A x \in Device \ {d} : lamp'[x] = lamp[x]
      BY <1>1, <2>1 DEF Lamp
    <2>3. namings' = namings /\ queue' = queue /\ said' = said
      BY <1>2, <1>10 DEF Unregisters
    <2> QED BY <2>1, <2>2, <2>3
  <1>11. ASSUME NEW n \in Name, Renames(d, n)
         PROVE  /\ SaysWord("Renamed", d) /\ lamp'[d].name = n
                /\ lamp'[d].state = lamp[d].state /\ namings' = namings + 1
                /\ \A x \in Device \ {d} : lamp'[x] = lamp[x]
    <2>1. PICK s \in {"Absent", "Discovered", "Connected", "Disconnected"} :
            lamp' = [lamp EXCEPT ![d] = [lamp[d] EXCEPT !.name = n, !.status = s]]
      BY <1>1, <1>11 DEF Renames, Lamp
    <2>2. /\ lamp'[d].name = n /\ lamp'[d].state = lamp[d].state
          /\ \A x \in Device \ {d} : lamp'[x] = lamp[x]
      BY <1>1, <2>1 DEF Lamp
    <2> QED BY <1>2, <1>11, <2>2 DEF Renames
  <1>12. CASE \E n \in Name : Renames(d, n)
    <2>1. namings + 1 # 0
      BY <1>1
    <2> QED BY <1>2, <1>3, <1>11, <1>12, <2>1
  <1> QED BY <1>4, <1>7, <1>8, <1>9, <1>10, <1>12 DEF LampStep

(* A goroutine's step changes its own list and leaves the lamps alone.     *)
OnlyTodo(a) ==
  /\ todo' \in [Actor -> Seq(Op)]
  /\ \A b \in Actor \ {a} : todo'[b] = todo[b]

LEMMA TodoSet ==
  ASSUME TypeOK, NEW a \in Actor, NEW s \in Seq(Op), todo' = [todo EXCEPT ![a] = s]
  PROVE  OnlyTodo(a) /\ todo'[a] = s
  BY DEF OnlyTodo, TypeOK, LoopTypeOK

LEMMA WorkTyped ==
  ASSUME TypeOK, NEW a \in Actor, Work(a)
  PROVE  /\ TypeOK' /\ OnlyTodo(a) /\ todo[a] # <<>>
         /\ UNCHANGED <<lampVars, queue, phase, reported>>
  <1>1. todo[a] # <<>>
    BY DEF Work, Announce, Record, Publish, PublishFails, Subscribe, Snapshot, Does
  <1>2. PICK h \in Op, r \in Seq(Op) : h = Head(todo[a]) /\ r = Tail(todo[a])
    BY <1>1, Takes
  <1>3. UNCHANGED <<lampVars, queue, phase, reported>>
    BY DEF Work, Announce, Record, Publish, PublishFails, Subscribe, Snapshot
  <1>4. LampTypeOK'
    BY <1>3 DEF TypeOK, LampTypeOK, lampVars
  <1>5. ASSUME Advance(a) PROVE OnlyTodo(a)
    BY <1>2, <1>5, TodoSet DEF Advance, TypeOK, LoopTypeOK
  <1> USE DEF TypeOK
  <1>6. CASE Announce(a)
    <2>1. UNCHANGED clientVars /\ UNCHANGED <<announced, overtaken>> /\ h.op = "announce"
      BY <1>2, <1>6 DEF Announce, Does
    <2>2. h.dev \in Device /\ h.lamp \in Lamp
      BY <2>1, OpsByKind
    <2>3. CASE ~Adopted(h.lamp) \/ announced[h.dev] = h.lamp.name
      <3>1. todo' = [todo EXCEPT ![a] = r]
        BY <1>2, <1>6, <2>3 DEF Announce, LoopTypeOK
      <3>2. OnlyTodo(a)
        BY <3>1, TodoSet
      <3> QED BY <1>1, <1>3, <1>4, <2>1, <3>2, ClientTyped DEF LoopTypeOK, OnlyTodo
    <2>4. CASE ~(~Adopted(h.lamp) \/ announced[h.dev] = h.lamp.name)
      <3> DEFINE s == <<PublishOp(ConfigTopic(h.dev), Discovery(h.lamp)),
                        RecordOp(h.dev, h.lamp.name)>> \o r
      <3>1. todo' = [todo EXCEPT ![a] = s]
        BY <1>2, <1>6, <2>4 DEF Announce, LoopTypeOK
      <3>2. s \in Seq(Op)
        BY <2>2, OpsTyped, Topics, SetOfPair
      <3> HIDE DEF s
      <3>3. OnlyTodo(a)
        BY <3>1, <3>2, TodoSet
      <3> QED BY <1>1, <1>3, <1>4, <2>1, <3>3, ClientTyped DEF LoopTypeOK, OnlyTodo
    <2> QED BY <2>3, <2>4
  <1>7. CASE Record(a)
    <2>1. UNCHANGED clientVars /\ UNCHANGED <<overtaken>> /\ h.op = "record"
      BY <1>2, <1>7 DEF Record, Does
    <2>2. announced' = [announced EXCEPT ![h.dev] = h.name]
      BY <1>2, <1>7 DEF Record
    <2>3. announced' \in [Device -> Name \cup {Nil}]
      BY <2>1, <2>2, OpsByKind DEF LoopTypeOK
    <2>4. OnlyTodo(a)
      BY <1>5, <1>7 DEF Record
    <2> QED BY <1>1, <1>3, <1>4, <2>1, <2>3, <2>4, ClientTyped DEF LoopTypeOK, OnlyTodo
  <1>8. CASE Publish(a)
    <2>1. UNCHANGED <<announced, overtaken>> /\ h.op = "publish"
      BY <1>2, <1>8 DEF Publish, Does
    <2>2. h.topic \in Topic /\ h.value \in Payload /\ (Deliver(h.topic, h.value) \/ Miss(h.topic))
      BY <1>2, <1>8, <2>1, OpsByKind DEF Publish
    <2>3. ClientTypeOK'
      BY <2>2, ClientTyped
    <2>4. OnlyTodo(a)
      BY <1>5, <1>8 DEF Publish
    <2> QED BY <1>1, <1>3, <1>4, <2>1, <2>3, <2>4 DEF LoopTypeOK, OnlyTodo
  <1>9. CASE PublishFails(a)
    <2>1. UNCHANGED <<announced, overtaken>> /\ h.op = "publish"
      BY <1>2, <1>9 DEF PublishFails, Does
    <2>2. h.topic \in Topic /\ h.value \in Payload /\ Miss(h.topic)
      BY <1>2, <1>9, <2>1, OpsByKind DEF PublishFails
    <2>3. ClientTypeOK'
      BY <2>2, ClientTyped
    <2>4. todo' = [todo EXCEPT ![a] = IF r # <<>> /\ Head(r).op = "record" THEN Tail(r) ELSE r]
      BY <1>2, <1>9 DEF PublishFails
    <2>5. (IF r # <<>> /\ Head(r).op = "record" THEN Tail(r) ELSE r) \in Seq(Op)
      <3>1. CASE r # <<>>
        BY <3>1, SetOfTail
      <3>2. CASE r = <<>>
        BY <3>2
      <3> QED BY <3>1, <3>2
    <2>6. OnlyTodo(a)
      BY <2>4, <2>5, TodoSet
    <2> QED BY <1>1, <1>3, <1>4, <2>1, <2>3, <2>6 DEF LoopTypeOK, OnlyTodo
  <1>10. CASE Subscribe(a)
    <2>1. ClientTypeOK' /\ UNCHANGED <<announced, overtaken>>
      BY <1>10, ClientTyped DEF Subscribe
    <2>2. OnlyTodo(a)
      BY <1>5, <1>10 DEF Subscribe
    <2> QED BY <1>1, <1>3, <1>4, <2>1, <2>2 DEF LoopTypeOK, OnlyTodo
  <1>11. CASE Snapshot(a)
    <2>1. UNCHANGED clientVars /\ UNCHANGED announced
      BY <1>11 DEF Snapshot
    <2>2. todo' = [todo EXCEPT ![a] = Announcements]
      BY <1>11 DEF Snapshot, Announcements, Known
    <2>3. OnlyTodo(a)
      BY <2>2, TodoSet, AnnouncementsAre
    <2>4. overtaken' \in BOOLEAN
      BY <1>11 DEF Snapshot
    <2> QED BY <1>1, <1>3, <1>4, <2>1, <2>3, <2>4, ClientTyped DEF LoopTypeOK, OnlyTodo
  <1> QED BY <1>6, <1>7, <1>8, <1>9, <1>10, <1>11 DEF Work

LEMMA OnConnectTyped == OnConnect \in Seq(Op)
  <1>1. PublishOp(Status, "online") \in Op
    BY OpsTyped, Topics
  <1> QED BY <1>1, OpsTyped DEF OnConnect

LEMMA StartSessionTyped ==
  ASSUME TypeOK, NEW a \in Hook, StartSession(a)
  PROVE  /\ TypeOK' /\ OnlyTodo(a) /\ todo[a] = <<>>
         /\ UNCHANGED <<lampVars, queue, phase, reported, announced, overtaken>>
         /\ (Connect \/ Resubscribe)
         /\ todo'[a] = IF sess' = "reading" THEN OnConnect ELSE <<>>
  <1>1. /\ UNCHANGED <<lampVars, queue, phase, reported, announced, overtaken>>
        /\ (Connect \/ Resubscribe) /\ todo[a] = <<>>
    BY DEF StartSession
  <1>2. LampTypeOK' /\ ClientTypeOK'
    BY <1>1, ClientTyped DEF TypeOK, LampTypeOK, lampVars
  <1>3. OnlyTodo(a) /\ todo'[a] = IF sess' = "reading" THEN OnConnect ELSE <<>>
    <2>1. todo \in [Actor -> Seq(Op)] /\ a \in Actor
      BY DEF TypeOK, LoopTypeOK, Actor
    <2>2. CASE sess' = "reading"
      <3>1. todo' = [todo EXCEPT ![a] = OnConnect]
        BY <2>2 DEF StartSession
      <3> QED BY <2>1, <2>2, <3>1, TodoSet, OnConnectTyped
    <2>3. CASE sess' # "reading"
      BY <1>1, <2>1, <2>3 DEF StartSession, OnlyTodo
    <2> QED BY <2>2, <2>3
  <1> QED BY <1>1, <1>2, <1>3 DEF TypeOK, LoopTypeOK, OnlyTodo

LEMMA HandleTyped ==
  ASSUME TypeOK, Handle
  PROVE  /\ TypeOK' /\ OnlyTodo("loop") /\ todo["loop"] = <<>>
         /\ UNCHANGED <<clientVars, lampVars, phase, announced>>
         /\ \E e \in Event :
              /\ e = Head(queue) /\ queue' = Tail(queue)
              /\ ToSet(queue) = {e} \cup ToSet(queue')
              /\ todo'["loop"] = Publications(e.kind, e.dev, lamp[e.dev])
              /\ reported' = ReportedAfter(e.kind, e.dev)
              /\ overtaken' = (overtaken \/ Overtakes("loop", e.dev))
  <1>1. queue \in Seq(Event) /\ queue # <<>>
    BY DEF Handle, TypeOK, LampTypeOK
  <1>2. /\ Head(queue) \in Event /\ Tail(queue) \in Seq(Event)
        /\ ToSet(queue) = {Head(queue)} \cup ToSet(Tail(queue))
    BY <1>1, SetOfTail
  <1>3. PICK e \in Event : e = Head(queue)
    BY <1>2
  <1>4. /\ UNCHANGED <<clientVars, lampVars, phase, announced>>
        /\ todo["loop"] = <<>> /\ queue' = Tail(queue)
        /\ todo' = [todo EXCEPT !["loop"] = Publications(e.kind, e.dev, lamp[e.dev])]
        /\ reported' = ReportedAfter(e.kind, e.dev)
        /\ overtaken' = (overtaken \/ Overtakes("loop", e.dev))
    BY <1>3 DEF Handle
  <1>5. e.kind \in Kind /\ e.dev \in Device /\ lamp[e.dev] \in Lamp
    BY DEF Event, TypeOK, LampTypeOK
  <1>6. OnlyTodo("loop") /\ todo'["loop"] = Publications(e.kind, e.dev, lamp[e.dev])
    BY <1>4, <1>5, PublicationsTyped, TodoSet DEF Actor
  <1>7. reported' \in SUBSET Device /\ overtaken' \in BOOLEAN
    BY <1>4, <1>5, ReportedTyped DEF TypeOK, LoopTypeOK
  <1>8. ClientTypeOK' /\ LampTypeOK'
    BY <1>2, <1>4, ClientTyped DEF TypeOK, LampTypeOK, lampVars
  <1>9. LoopTypeOK'
    BY <1>4, <1>6, <1>7 DEF TypeOK, LoopTypeOK, OnlyTodo
  <1> QED BY <1>2, <1>3, <1>4, <1>6, <1>8, <1>9, Zenon DEF TypeOK

LEMMA RunStopsTyped ==
  ASSUME TypeOK, RunStops
  PROVE  /\ TypeOK' /\ OnlyTodo("loop") /\ todo["loop"] = <<>>
         /\ UNCHANGED <<clientVars, lampVars, queue, reported, announced, overtaken>>
         /\ todo'["loop"] = <<PublishOp(Status, "offline")>> /\ phase' = "ended"
  <1>1. /\ UNCHANGED <<clientVars, lampVars, queue, reported, announced, overtaken>>
        /\ todo["loop"] = <<>> /\ phase' = "ended"
        /\ todo' = [todo EXCEPT !["loop"] = <<PublishOp(Status, "offline")>>]
    BY DEF RunStops
  <1>2. PublishOp(Status, "offline") \in Op
    BY OpsTyped, Topics
  <1>3. OnlyTodo("loop") /\ todo'["loop"] = <<PublishOp(Status, "offline")>>
    <2>1. <<PublishOp(Status, "offline")>> \in Seq(Op)
      BY <1>2
    <2> QED BY <1>1, <2>1, TodoSet DEF Actor
  <1>4. ClientTypeOK' /\ LampTypeOK'
    BY <1>1, ClientTyped DEF TypeOK, LampTypeOK, lampVars
  <1> QED BY <1>1, <1>3, <1>4 DEF TypeOK, LoopTypeOK, OnlyTodo

LEMMA StepTyped ==
  ASSUME TypeOK, [Next]_vars
  PROVE  TypeOK'
  <1>1. CASE UNCHANGED vars
    BY <1>1 DEF vars, clientVars, lampVars, bridgeVars, TypeOK, ClientTypeOK, LampTypeOK, LoopTypeOK
  <1>2. CASE ClientStep /\ UNCHANGED <<lampVars, queue, bridgeVars>>
    BY <1>2, ClientTyped DEF lampVars, bridgeVars, TypeOK, LampTypeOK, LoopTypeOK
  <1>3. CASE Stop
    BY <1>3, ClientTyped DEF Stop, lampVars, bridgeVars, TypeOK, LampTypeOK, LoopTypeOK
  <1>4. ASSUME NEW d \in Device, LampStep(d) PROVE TypeOK'
    BY <1>4, LampTypedStep, ClientTyped DEF bridgeVars, TypeOK, LoopTypeOK
  <1> QED BY <1>1, <1>2, <1>3, <1>4, StartSessionTyped, WorkTyped, HandleTyped, RunStopsTyped
          DEF Next

(* Types, over all behaviours.                                             *)
THEOREM TypeCorrect == Spec => []TypeOK
  BY InitTyped, StepTyped, PTL DEF Spec

-----------------------------------------------------------------------------
(* The server's own availability.                                          *)
Backed == wire = "up" /\ ~stopping => will

(* The broker shows the server as online only with a will to the contrary: *)
(* through broken connections, takeovers and shutdowns (Client.session,    *)
(* Bridge.Run).                                                            *)
THEOREM OnlineAlwaysBacked == Spec => []OnlineIsBacked
  <1> DEFINE Inv == Backed /\ OnlineIsBacked
  <1>1. Init => Inv
    BY BridgeAssumption, Topics DEF Init, ClientInit, Backed, OnlineIsBacked, Payload
  <1>2. TypeOK /\ Inv /\ [Next]_vars => Inv'
    <2> SUFFICES ASSUME TypeOK, Inv, [Next]_vars PROVE Inv'
      OBVIOUS
    <2> USE DEF Backed, OnlineIsBacked
    <2>1. CASE UNCHANGED <<wire, stopping, will, retained>>
      BY <2>1
    <2>2. CASE ClientStep
      BY <2>2, Topics DEF ClientStep, ResubscribeFails, SessionEnds, RunReturns, AfterSession,
                          Depart, LinkDies, WillFires, brokerVars, sessionVars, TypeOK, ClientTypeOK
    <2>3. CASE Connect
      BY <2>3 DEF Connect, Handshake
    <2>4. CASE Resubscribe \/ SubscribeCommands
      BY <2>4 DEF Resubscribe, SubscribeCommands
    <2>5. ASSUME NEW t, NEW v, Deliver(t, v) PROVE Inv'
      BY <2>5 DEF Deliver, Arrives, sessionVars
    <2>6. ASSUME NEW t, Miss(t) PROVE Inv'
      BY <2>6 DEF Miss, sessionVars
    <2>7. CASE Stop
      BY <2>7 DEF Stop
    <2>8. ASSUME NEW a \in Actor, Work(a) PROVE Inv'
      <3>1. CASE Announce(a) \/ Record(a) \/ Snapshot(a)
        BY <2>1, <3>1 DEF Announce, Record, Snapshot, clientVars
      <3>2. CASE Publish(a) \/ PublishFails(a) \/ Subscribe(a)
        BY <2>4, <2>5, <2>6, <3>2 DEF Publish, PublishFails, Subscribe
      <3> QED BY <2>8, <3>1, <3>2 DEF Work
    <2>9. ASSUME NEW h \in Hook, StartSession(h) PROVE Inv'
      BY <2>3, <2>4, <2>9 DEF StartSession
    <2>10. CASE Handle \/ RunStops \/ UNCHANGED vars
      BY <2>1, <2>10 DEF Handle, RunStops, vars, clientVars
    <2>11. ASSUME NEW d \in Device, LampStep(d) PROVE Inv'
      BY <2>1, <2>11, LampTypedStep DEF clientVars
    <2> QED BY <2>2, <2>7, <2>8, <2>9, <2>10, <2>11 DEF Next
  <1>3. Inv => OnlineIsBacked
    OBVIOUS
  <1> QED BY TypeCorrect, <1>1, <1>2, <1>3, PTL DEF Spec

-----------------------------------------------------------------------------
(* What a goroutine's list looks like: the beginning of OnConnect, or      *)
(* announcements and publications, before which the write and the record   *)
(* of one announcement may be left.                                        *)
Plain(s) ==
  \A o \in ToSet(s) : /\ o.op \in {"publish", "announce", "subscribe"}
                      /\ o.op = "publish" => \A d \in Device : o.topic # ConfigTopic(d)

Startup == {OnConnect, <<SubscribeOp, SnapshotOp>>, <<SnapshotOp>>}

Recording(s) == s # <<>> /\ Head(s).op = "record" /\ Plain(Tail(s))

Configuring(s) ==
  /\ s # <<>> /\ Tail(s) # <<>>
  /\ Head(s).op = "publish"
  /\ Head(s).topic = ConfigTopic(Head(Tail(s)).dev)
  /\ Head(s).value.name = Head(Tail(s)).name
  /\ Recording(Tail(s))

Shape(s) == s \in Startup \/ Plain(s) \/ Recording(s) \/ Configuring(s)

Shaped == \A a \in Actor : Shape(todo[a])

(* The steps of a goroutine, by what they do to the first operation h and  *)
(* the rest r of its list.                                                 *)
Skips(a, h, r) ==
  /\ h.op = "announce" /\ Plain(r)
  /\ ~Adopted(h.lamp) \/ announced[h.dev] = h.lamp.name
  /\ todo'[a] = r
  /\ UNCHANGED <<clientVars, announced, overtaken>>

Prepares(a, h, r) ==
  /\ h.op = "announce" /\ Plain(r)
  /\ Adopted(h.lamp)
  /\ todo'[a] = <<PublishOp(ConfigTopic(h.dev), Discovery(h.lamp)),
                  RecordOp(h.dev, h.lamp.name)>> \o r
  /\ ToSet(todo'[a]) = {PublishOp(ConfigTopic(h.dev), Discovery(h.lamp)),
                        RecordOp(h.dev, h.lamp.name)} \cup ToSet(r)
  /\ UNCHANGED <<clientVars, announced, overtaken>>

Records(a, h, r) ==
  /\ h.op = "record" /\ Plain(r)
  /\ todo'[a] = r
  /\ announced' = [announced EXCEPT ![h.dev] = h.name]
  /\ UNCHANGED <<clientVars, overtaken>>

Configures(a, h, r) ==
  /\ h.op = "publish" /\ Recording(r)
  /\ h.topic = ConfigTopic(Head(r).dev) /\ h.value.name = Head(r).name
  /\ \/ todo'[a] = r /\ (Deliver(h.topic, h.value) \/ Miss(h.topic))
     \/ todo'[a] = Tail(r) /\ Miss(h.topic)
  /\ UNCHANGED <<announced, overtaken>>

Tells(a, h, r) ==
  /\ h.op = "publish" /\ \A d \in Device : h.topic # ConfigTopic(d)
  /\ todo'[a] = r /\ ~Recording(r)
  /\ Deliver(h.topic, h.value) \/ Miss(h.topic)
  /\ UNCHANGED <<announced, overtaken>>

Subscribes(a, h, r) ==
  /\ h = SubscribeOp
  /\ todo'[a] = r /\ ~Recording(r)
  /\ SubscribeCommands
  /\ UNCHANGED <<announced, overtaken>>

Surveys(a, h, r) ==
  /\ h = SnapshotOp /\ r = <<>>
  /\ ToSet(todo'[a]) = {AnnounceOp(d, lamp[d]) : d \in Known}
  /\ overtaken' = (overtaken \/ \E d \in Known : Overtakes(a, d))
  /\ UNCHANGED <<clientVars, announced>>

LEMMA StartupShapes ==
  /\ \A s \in Startup : s # <<>> /\ Head(s).op \in {"publish", "subscribe", "snapshot"}
  /\ \A s \in Startup : Head(s).op = "snapshot" <=> s = <<SnapshotOp>>
  /\ \A s \in Startup : s # <<SnapshotOp>> => Tail(s) \in Startup /\ Head(Tail(s)).op # "record"
  /\ \A s \in Startup : Head(s).op = "publish" => Head(s).topic = Status
  <1> USE DEF Startup, OnConnect, SubscribeOp, SnapshotOp, PublishOp
  <1>1. \A s \in Startup : s # <<>> /\ Head(s).op \in {"publish", "subscribe", "snapshot"}
    OBVIOUS
  <1>2. \A s \in Startup : Head(s).op = "publish" => Head(s).topic = Status
    OBVIOUS
  <1>3. \A s \in Startup : Head(s).op = "snapshot" <=> s = <<SnapshotOp>>
    OBVIOUS
  <1>4. \A s \in Startup : s # <<SnapshotOp>> => Tail(s) \in Startup /\ Head(Tail(s)).op # "record"
    <2>1. \A x, y, z : Tail(<<x, y, z>>) = <<y, z>>
      BY SameSequence
    <2>2. \A y, z : Tail(<<y, z>>) = <<z>>
      BY SameSequence
    <2>3. \A y, z : Head(<<y, z>>) = y /\ Head(<<z>>) = z
      OBVIOUS
    <2> HIDE DEF SubscribeOp, SnapshotOp
    <2>4. SubscribeOp.op # "record" /\ SnapshotOp.op # "record"
      BY DEF SubscribeOp, SnapshotOp
    <2>5. Tail(OnConnect) = <<SubscribeOp, SnapshotOp>>
          /\ Tail(<<SubscribeOp, SnapshotOp>>) = <<SnapshotOp>>
      BY <2>1, <2>2
    <2>6. Head(<<SubscribeOp, SnapshotOp>>) = SubscribeOp /\ Head(<<SnapshotOp>>) = SnapshotOp
      BY <2>3
    <2> HIDE DEF OnConnect
    <2>7. ASSUME NEW s \in Startup, s # <<SnapshotOp>>
          PROVE  Tail(s) \in Startup /\ Head(Tail(s)).op # "record"
      <3>1. CASE s = OnConnect
        BY <2>4, <2>5, <2>6, <3>1
      <3>2. CASE s = <<SubscribeOp, SnapshotOp>>
        BY <2>4, <2>5, <2>6, <3>2
      <3> QED BY <2>7, <3>1, <3>2
    <2> QED BY <2>7
  <1> QED BY <1>1, <1>2, <1>3, <1>4, Zenon

WorksOn(a, h, r) ==
  \/ Skips(a, h, r) \/ Prepares(a, h, r) \/ Records(a, h, r) \/ Configures(a, h, r)
  \/ Tells(a, h, r) \/ Subscribes(a, h, r) \/ Surveys(a, h, r)

LEMMA PlainParts ==
  ASSUME NEW s \in Seq(Op), s # <<>>, Plain(s)
  PROVE  /\ Plain(Tail(s))
         /\ Head(s).op \in {"publish", "announce", "subscribe"}
         /\ Head(s).op = "publish" => \A d \in Device : Head(s).topic # ConfigTopic(d)
  <1>1. ToSet(s) = {Head(s)} \cup ToSet(Tail(s))
    BY SetOfTail
  <1> QED BY <1>1 DEF Plain

LEMMA WorkSteps ==
  ASSUME TypeOK, Shaped, NEW a \in Actor, Work(a)
  PROVE  \E h \in Op, r \in Seq(Op) :
           /\ h = Head(todo[a]) /\ r = Tail(todo[a])
           /\ ToSet(todo[a]) = {h} \cup ToSet(r)
           /\ WorksOn(a, h, r)
  <1>1. todo[a] # <<>> /\ todo[a] \in Seq(Op) /\ todo \in [Actor -> Seq(Op)]
    BY WorkTyped DEF TypeOK, LoopTypeOK
  <1>2. PICK h \in Op, r \in Seq(Op) : /\ h = Head(todo[a]) /\ r = Tail(todo[a])
                                       /\ ToSet(todo[a]) = {h} \cup ToSet(r)
    BY <1>1, Takes
  <1>3. /\ todo[a] \in Startup => h.op \in {"publish", "subscribe", "snapshot"}
        /\ Plain(todo[a]) => /\ Plain(r) /\ h.op \in {"publish", "announce", "subscribe"}
                             /\ h.op = "publish" => \A d \in Device : h.topic # ConfigTopic(d)
        /\ Recording(todo[a]) => h.op = "record" /\ Plain(r)
        /\ Configuring(todo[a]) => /\ h.op = "publish" /\ r # <<>> /\ Recording(r)
                                   /\ h.topic = ConfigTopic(Head(r).dev)
                                   /\ h.value.name = Head(r).name
    BY <1>1, <1>2, PlainParts, StartupShapes DEF Recording, Configuring
  <1>4. Shape(todo[a])
    BY DEF Shaped
  <1>5. ASSUME Advance(a) PROVE todo'[a] = r
    BY <1>1, <1>2, <1>5 DEF Advance
  <1>6. CASE Announce(a)
    <2>1. UNCHANGED <<clientVars, announced, overtaken>> /\ h.op = "announce"
      BY <1>2, <1>6 DEF Announce, Does
    <2>2. Plain(r)
      BY <1>3, <1>4, <2>1 DEF Shape
    <2>3. CASE ~Adopted(h.lamp) \/ announced[h.dev] = h.lamp.name
      <3>1. todo'[a] = r
        BY <1>1, <1>2, <1>6, <2>3 DEF Announce
      <3> QED BY <1>2, <2>1, <2>2, <2>3, <3>1 DEF WorksOn, Skips
    <2>4. CASE ~(~Adopted(h.lamp) \/ announced[h.dev] = h.lamp.name)
      <3> DEFINE P == PublishOp(ConfigTopic(h.dev), Discovery(h.lamp))
                 R == RecordOp(h.dev, h.lamp.name)
      <3>1. todo'[a] = <<P, R>> \o r
        BY <1>1, <1>2, <1>6, <2>4 DEF Announce
      <3>2. P \in Op /\ R \in Op
        BY <2>1, OpsByKind, OpsTyped, Topics
      <3> HIDE DEF P, R
      <3>3. ToSet(todo'[a]) = {P, R} \cup ToSet(r)
        <4>1. <<P, R>> \in Seq(Op)
          BY <3>2
        <4>2. ToSet(<<P, R>> \o r) = ToSet(<<P, R>>) \cup ToSet(r)
          BY <4>1, SetOfConcat
        <4>3. ToSet(<<P, R>>) = {P, R}
          BY SetsOfShort
        <4> QED BY <3>1, <4>2, <4>3
      <3>4. Prepares(a, h, r)
        BY <2>1, <2>2, <2>4, <3>1, <3>3 DEF Prepares, P, R
      <3> QED BY <1>2, <3>4 DEF WorksOn
    <2> QED BY <2>3, <2>4
  <1>7. CASE Record(a)
    <2>1. h.op = "record"
      BY <1>2, <1>7 DEF Record, Does
    <2>2. Plain(r)
      BY <1>3, <1>4, <2>1 DEF Shape
    <2>3. Records(a, h, r)
      BY <1>2, <1>5, <1>7, <2>1, <2>2 DEF Record, Records
    <2> QED BY <1>2, <2>3 DEF WorksOn
  <1>8. CASE Publish(a) \/ PublishFails(a)
    <2>1. h.op = "publish" /\ UNCHANGED <<announced, overtaken>>
      BY <1>2, <1>8 DEF Publish, PublishFails, Does
    <2>2. \/ todo'[a] = r /\ (Deliver(h.topic, h.value) \/ Miss(h.topic))
          \/ /\ todo'[a] = (IF r # <<>> /\ Head(r).op = "record" THEN Tail(r) ELSE r)
             /\ Miss(h.topic)
      <3>1. CASE Publish(a)
        BY <1>2, <1>5, <3>1 DEF Publish
      <3>2. CASE PublishFails(a)
        BY <1>1, <1>2, <3>2 DEF PublishFails
      <3> QED BY <1>8, <3>1, <3>2
    <2>3. CASE Configuring(todo[a])
      <3>1. Configures(a, h, r)
        BY <1>3, <2>1, <2>2, <2>3 DEF Configures, Recording
      <3> QED BY <1>2, <3>1 DEF WorksOn
    <2>4. CASE ~Configuring(todo[a])
      <3>1. todo[a] \in Startup \/ Plain(todo[a])
        BY <1>3, <1>4, <2>1, <2>4 DEF Shape
      <3>2. \A d \in Device : h.topic # ConfigTopic(d)
        BY <1>2, <1>3, <2>1, <3>1, StartupShapes, Topics
      <3>3. r = <<>> \/ Head(r).op # "record"
        <4>1. CASE todo[a] \in Startup
          <5>1. todo[a] # <<SnapshotOp>>
            BY <1>2, <2>1, <4>1, StartupShapes
          <5> QED BY <1>2, <4>1, <5>1, StartupShapes
        <4>2. CASE Plain(todo[a]) /\ r # <<>>
          BY <1>3, <4>2, PlainParts
        <4> QED BY <3>1, <4>1, <4>2
      <3>4. Tells(a, h, r)
        BY <2>1, <2>2, <3>2, <3>3 DEF Tells, Recording
      <3> QED BY <1>2, <3>4 DEF WorksOn
    <2> QED BY <2>3, <2>4
  <1>9. CASE Subscribe(a)
    <2>1. h = SubscribeOp
      BY <1>2, <1>9, OpsByKind DEF Subscribe, Does
    <2>3. ~Recording(r)
      <3>1. h.op = "subscribe"
        BY <2>1 DEF SubscribeOp
      <3>2. todo[a] \in Startup \/ Plain(todo[a])
        BY <1>3, <1>4, <3>1 DEF Shape
      <3>3. CASE todo[a] \in Startup
        <4>1. todo[a] # <<SnapshotOp>>
          BY <1>2, <3>1, <3>3, StartupShapes
        <4> QED BY <1>2, <3>3, <4>1, StartupShapes DEF Recording
      <3>4. CASE Plain(todo[a])
        BY <1>3, <3>4, PlainParts DEF Recording
      <3> QED BY <3>2, <3>3, <3>4
    <2>2. Subscribes(a, h, r)
      BY <1>5, <1>9, <2>1, <2>3 DEF Subscribe, Subscribes
    <2> QED BY <1>2, <2>2 DEF WorksOn
  <1>10. CASE Snapshot(a)
    <2>1. h = SnapshotOp /\ h.op = "snapshot"
      BY <1>2, <1>10, OpsByKind DEF Snapshot, Does
    <2>2. todo[a] = <<SnapshotOp>>
      BY <1>2, <1>3, <1>4, <2>1, StartupShapes DEF Shape
    <2>3. r = <<>>
      BY <1>2, <2>2
    <2>4. todo'[a] = Announcements
      BY <1>1, <1>10 DEF Snapshot, Announcements, Known
    <2>5. Surveys(a, h, r)
      BY <1>10, <2>1, <2>3, <2>4, AnnouncementsAre DEF Surveys, Snapshot, Known
    <2> QED BY <1>2, <2>5 DEF WorksOn
  <1> QED BY <1>6, <1>7, <1>8, <1>9, <1>10 DEF Work

(* What Run does for an event, as a set.                                   *)
LEMMA PublicationsAre ==
  ASSUME TypeOK, NEW k \in Kind, NEW d \in Device, NEW l \in Lamp
  PROVE  LET p == ToSet(Publications(k, d, l))
         IN  /\ k = "Discovered" => p = {}
             /\ k = "Connected" => p = {AnnounceOp(d, l)}
             /\ k = "Renamed" =>
                  p = {AnnounceOp(d, l)} \cup
                      (IF d \in reported \/ l.status = "Connected"
                       THEN {PublishState(d, l), PublishAvailability(d, Availability(l))}
                       ELSE {})
             /\ k = "Disconnected" => p = {PublishAvailability(d, "offline")}
             /\ k = "StateChanged" =>
                  p = {AnnounceOp(d, l), PublishState(d, l)} \cup
                      (IF d \notin reported THEN {PublishAvailability(d, "online")} ELSE {})
  <1> DEFINE A == AnnounceOp(d, l)
             S == PublishState(d, l)
             V == PublishAvailability(d, Availability(l))
             On == PublishAvailability(d, "online")
             Off == PublishAvailability(d, "offline")
  <1>1. A \in Op /\ S \in Op /\ V \in Op /\ On \in Op /\ Off \in Op
    BY OpsTyped, Topics DEF PublishState, PublishAvailability
  <1>2. /\ k = "Discovered" => Publications(k, d, l) = <<>>
        /\ k = "Connected" => Publications(k, d, l) = <<A>>
        /\ k = "Renamed" =>
             Publications(k, d, l) =
               <<A>> \o (IF d \in reported \/ l.status = "Connected" THEN <<S, V>> ELSE <<>>)
        /\ k = "Disconnected" => Publications(k, d, l) = <<Off>>
        /\ k = "StateChanged" =>
             Publications(k, d, l) = <<A, S>> \o (IF d \notin reported THEN <<On>> ELSE <<>>)
    BY DEF Publications
  <1> HIDE DEF A, S, V, On, Off
  <1>3. <<A>> \in Seq(Op) /\ <<S, V>> \in Seq(Op) /\ <<>> \in Seq(Op)
        /\ <<A, S>> \in Seq(Op) /\ <<On>> \in Seq(Op)
    BY <1>1
  <1>4. /\ ToSet(<<A>> \o <<S, V>>) = ToSet(<<A>>) \cup ToSet(<<S, V>>)
        /\ ToSet(<<A>> \o <<>>) = ToSet(<<A>>) \cup ToSet(<<>>)
        /\ ToSet(<<A, S>> \o <<On>>) = ToSet(<<A, S>>) \cup ToSet(<<On>>)
        /\ ToSet(<<A, S>> \o <<>>) = ToSet(<<A, S>>) \cup ToSet(<<>>)
    <2>1. \A s, t \in Seq(Op) : ToSet(s \o t) = ToSet(s) \cup ToSet(t)
      BY SetOfConcat
    <2> QED BY <1>3, <2>1, Zenon
  <1>5. /\ ToSet(<<>>) = {} /\ ToSet(<<A>>) = {A} /\ ToSet(<<S, V>>) = {S, V}
        /\ ToSet(<<A, S>>) = {A, S} /\ ToSet(<<On>>) = {On} /\ ToSet(<<Off>>) = {Off}
    BY SetsOfShort
  <1>6. k = "Renamed" =>
          ToSet(Publications(k, d, l)) =
            {A} \cup (IF d \in reported \/ l.status = "Connected" THEN {S, V} ELSE {})
    BY <1>2, <1>4, <1>5
  <1>7. k = "StateChanged" =>
          ToSet(Publications(k, d, l)) = {A, S} \cup (IF d \notin reported THEN {On} ELSE {})
    BY <1>2, <1>4, <1>5
  <1>8. /\ k = "Discovered" => ToSet(Publications(k, d, l)) = {}
        /\ k = "Connected" => ToSet(Publications(k, d, l)) = {A}
        /\ k = "Disconnected" => ToSet(Publications(k, d, l)) = {Off}
    BY <1>2, <1>5
  <1> QED BY <1>6, <1>7, <1>8 DEF A, S, V, On, Off

LEMMA PublicationsPlain ==
  ASSUME TypeOK, NEW k \in Kind, NEW d \in Device, NEW l \in Lamp
  PROVE  Plain(Publications(k, d, l))
  <1>1. /\ AnnounceOp(d, l).op = "announce"
        /\ PublishState(d, l).op = "publish" /\ PublishState(d, l).topic = StateTopic(d)
        /\ \A v : /\ PublishAvailability(d, v).op = "publish"
                  /\ PublishAvailability(d, v).topic = AvailabilityTopic(d)
    BY DEF AnnounceOp, PublishState, PublishAvailability, PublishOp
  <1>2. \A e \in Device : StateTopic(d) # ConfigTopic(e) /\ AvailabilityTopic(d) # ConfigTopic(e)
    BY Topics
  <1>3. k \in {"Discovered", "Connected", "Disconnected", "StateChanged", "Renamed"}
    BY DEF Kind
  <1> QED BY <1>1, <1>2, <1>3, PublicationsAre DEF Plain

LEMMA InitShaped == Init => Shaped
  <1> SUFFICES ASSUME Init, NEW a \in Actor PROVE Shape(todo[a])
    BY DEF Shaped
  <1>1. todo[a] = <<SubscribeOp>> \/ todo[a] = <<>>
    BY DEF Init
  <1>2. ToSet(todo[a]) \subseteq {SubscribeOp}
    BY <1>1, SetsOfShort
  <1> QED BY <1>2 DEF Shape, Plain, SubscribeOp

LEMMA StepShaped ==
  ASSUME TypeOK, Shaped, [Next]_vars
  PROVE  Shaped'
  <1>1. ASSUME NEW a \in Actor, OnlyTodo(a), Shape(todo'[a]) PROVE Shaped'
    BY <1>1 DEF Shaped, OnlyTodo
  <1>2. ASSUME NEW a \in Actor, Work(a) PROVE Shape(todo'[a])
    <2>1. PICK h \in Op, r \in Seq(Op) : /\ h = Head(todo[a]) /\ r = Tail(todo[a])
                                         /\ WorksOn(a, h, r)
      BY <1>2, WorkSteps
    <2>2. CASE Skips(a, h, r) \/ Records(a, h, r)
      BY <2>2 DEF Skips, Records, Shape
    <2>3. CASE Prepares(a, h, r)
      <3> DEFINE P == PublishOp(ConfigTopic(h.dev), Discovery(h.lamp))
                 R == RecordOp(h.dev, h.lamp.name)
                 s == <<P, R>> \o r
      <3>1. P \in Op /\ R \in Op
        BY <2>3, OpsByKind, OpsTyped, Topics DEF Prepares
      <3>2. /\ P.op = "publish" /\ R.op = "record" /\ P.topic = ConfigTopic(R.dev)
            /\ P.value.name = R.name
        BY DEF PublishOp, RecordOp, Discovery
      <3> HIDE DEF P, R
      <3>3. s # <<>> /\ Head(s) = P /\ Tail(s) # <<>> /\ Head(Tail(s)) = R /\ Tail(Tail(s)) = r
        BY <3>1, SetOfPair
      <3>4. Configuring(s)
        BY <2>3, <3>2, <3>3 DEF Configuring, Recording, Prepares
      <3>5. todo'[a] = s
        BY <2>3 DEF Prepares, P, R
      <3> QED BY <3>4, <3>5 DEF Shape
    <2>4. CASE Configures(a, h, r)
      BY <2>4 DEF Configures, Recording, Shape
    <2>5. CASE Tells(a, h, r) \/ Subscribes(a, h, r)
      <3>1. todo'[a] = r /\ h.op \in {"publish", "subscribe"}
            /\ (h.op = "publish" => \A d \in Device : h.topic # ConfigTopic(d))
        BY <2>5 DEF Tells, Subscribes, SubscribeOp
      <3>2. todo[a] # <<>> /\ todo[a] \in Seq(Op)
        BY <1>2, WorkTyped DEF TypeOK, LoopTypeOK
      <3>3. CASE todo[a] \in Startup
        <4>1. todo[a] # <<SnapshotOp>>
          BY <2>1, <3>1, <3>3, StartupShapes
        <4> QED BY <2>1, <3>1, <3>3, <4>1, StartupShapes DEF Shape
      <3>4. CASE Plain(todo[a])
        BY <2>1, <3>1, <3>2, <3>4, PlainParts DEF Shape
      <3>5. CASE Recording(todo[a])
        BY <2>1, <3>1, <3>5 DEF Recording
      <3>6. CASE Configuring(todo[a])
        <4>1. h.topic = ConfigTopic(Head(r).dev) /\ Head(r).op = "record" /\ r # <<>> /\ h.op = "publish"
          BY <2>1, <3>6 DEF Configuring, Recording
        <4>2. Head(r).dev \in Device
          BY <4>1, SetOfTail, OpsByKind
        <4> QED BY <3>1, <4>1, <4>2
      <3> QED BY <3>3, <3>4, <3>5, <3>6 DEF Shaped, Shape
    <2>6. CASE Surveys(a, h, r)
      BY <2>6 DEF Surveys, Shape, Plain, AnnounceOp
    <2> QED BY <2>1, <2>2, <2>3, <2>4, <2>5, <2>6 DEF WorksOn
  <1>3. ASSUME NEW a \in Hook, StartSession(a) PROVE a \in Actor /\ OnlyTodo(a) /\ Shape(todo'[a])
    <2>1. OnConnect \in Startup /\ ToSet(<<>>) = {}
      BY SetsOfShort DEF Startup
    <2> QED BY <1>3, <2>1, StartSessionTyped DEF Shape, Plain, Actor
  <1>4. CASE Handle
    <2>1. PICK e \in Event : todo'["loop"] = Publications(e.kind, e.dev, lamp[e.dev])
      BY <1>4, HandleTyped
    <2>2. e.kind \in Kind /\ e.dev \in Device /\ lamp[e.dev] \in Lamp
      BY DEF Event, TypeOK, LampTypeOK
    <2>3. Shape(todo'["loop"])
      BY <2>1, <2>2, PublicationsPlain DEF Shape
    <2> QED BY <1>1, <1>4, <2>3, HandleTyped DEF Actor
  <1>5. CASE RunStops
    <2>1. ToSet(todo'["loop"]) = {PublishOp(Status, "offline")}
      BY <1>5, RunStopsTyped, SetsOfShort
    <2>2. Shape(todo'["loop"])
      BY <2>1, Topics DEF Shape, Plain, PublishOp
    <2> QED BY <1>1, <1>5, <2>2, RunStopsTyped DEF Actor
  <1>6. CASE todo' = todo
    BY <1>6 DEF Shaped
  <1>7. ASSUME NEW d \in Device, LampStep(d) PROVE todo' = todo
    BY <1>7, LampTypedStep DEF bridgeVars
  <1> QED BY <1>1, <1>2, <1>3, <1>4, <1>5, <1>6, <1>7, WorkTyped
          DEF Next, vars, bridgeVars, Stop

(* What a goroutine has left to do stays with it, unless it is the record  *)
(* of a write that failed.                                                 *)
LEMMA OpsStay ==
  ASSUME TypeOK, Shaped, NEW a \in Actor,
         NEW h \in Op, NEW r \in Seq(Op), WorksOn(a, h, r),
         NEW o \in ToSet(r), o.op # "record"
  PROVE  o \in ToSet(todo'[a])
  <1>1. CASE Configures(a, h, r) /\ todo'[a] = Tail(r)
    <2>1. r # <<>> /\ Head(r).op = "record"
      BY <1>1 DEF Configures, Recording
    <2>2. ToSet(r) = {Head(r)} \cup ToSet(Tail(r))
      BY <2>1, SetOfTail
    <2> QED BY <1>1, <2>1, <2>2
  <1>2. CASE Surveys(a, h, r)
    BY <1>2, SetsOfShort DEF Surveys
  <1> QED BY <1>1, <1>2 DEF WorksOn, Skips, Prepares, Records, Configures, Tells, Subscribes

-----------------------------------------------------------------------------
(* A connection that is read and does not deliver commands has a goroutine *)
(* that will subscribe.                                                    *)
WillSubscribe ==
  sess = "reading" /\ wire = "up" /\ ~subscribed =>
    \E a \in Actor : SubscribeOp \in ToSet(todo[a])

LEMMA StepWillSubscribe ==
  ASSUME TypeOK, Shaped, WillSubscribe, [Next]_vars
  PROVE  WillSubscribe'
  <1> USE DEF WillSubscribe
  <1>1. ASSUME NEW a \in Actor, Work(a) PROVE WillSubscribe'
    <2>1. PICK h \in Op, r \in Seq(Op) : ToSet(todo[a]) = {h} \cup ToSet(r) /\ WorksOn(a, h, r)
      BY <1>1, WorkSteps
    <2>2. UNCHANGED <<sess, wire>>
      BY <1>1 DEF Work, Announce, Record, Publish, PublishFails, Subscribe, Snapshot, clientVars,
                  Deliver, Miss, SubscribeCommands, sessionVars
    <2>3. OnlyTodo(a)
      BY <1>1, WorkTyped
    <2>4. CASE h = SubscribeOp
      <3>1. Subscribes(a, h, r)
        BY <2>1, <2>4 DEF WorksOn, Skips, Prepares, Records, Configures, Tells, Surveys,
                          SubscribeOp, SnapshotOp
      <3> QED BY <2>2, <3>1 DEF Subscribes, SubscribeCommands, SendsItself, Arrives, HasConn
    <2>5. CASE h # SubscribeOp
      <3>1. subscribed' = subscribed
        BY <2>1, <2>5 DEF WorksOn, Skips, Prepares, Records, Configures, Tells, Surveys,
                          Subscribes, clientVars, Deliver, Miss
      <3>2. SubscribeOp \in ToSet(todo[a]) => SubscribeOp \in ToSet(todo'[a])
        BY <2>1, <2>5, OpsStay DEF SubscribeOp
      <3> QED BY <2>2, <2>3, <3>1, <3>2 DEF OnlyTodo
    <2> QED BY <2>4, <2>5
  <1>2. ASSUME NEW h \in Hook, StartSession(h) PROVE WillSubscribe'
    <2>1. SubscribeOp \in ToSet(OnConnect)
      BY SetsOfShort DEF OnConnect
    <2>2. sess' = "reading" => \E a \in Actor : SubscribeOp \in ToSet(todo'[a])
      BY <1>2, <2>1, StartSessionTyped DEF Actor
    <2> QED BY <2>2
  <1>3. CASE ClientStep /\ todo' = todo
    BY <1>3 DEF ClientStep, ResubscribeFails, SessionEnds, RunReturns, AfterSession,
                Depart, LinkDies, WillFires, brokerVars, sessionVars
  <1>4. CASE Handle \/ RunStops
    <2>1. todo["loop"] = <<>> /\ OnlyTodo("loop") /\ UNCHANGED clientVars
      BY <1>4, HandleTyped, RunStopsTyped
    <2>2. SubscribeOp \notin ToSet(todo["loop"])
      BY <2>1, SetsOfShort
    <2> QED BY <2>1, <2>2 DEF OnlyTodo, clientVars
  <1>5. CASE UNCHANGED <<sess, wire, subscribed, todo>>
    BY <1>5
  <1>6. ASSUME NEW d \in Device, LampStep(d) PROVE WillSubscribe'
    BY <1>5, <1>6, LampTypedStep DEF bridgeVars, clientVars
  <1> QED BY <1>1, <1>2, <1>3, <1>4, <1>5, <1>6
          DEF Next, vars, bridgeVars, clientVars, Stop, brokerVars

(* Once everything has come to rest the broker delivers the commands of    *)
(* Home Assistant, whichever of Run and the connection came first, and     *)
(* however often it was made anew (Client.Subscribe, Client.session).      *)
THEOREM AlwaysListensForCommands == Spec => []ListensForCommands
  <1>1. Init => WillSubscribe
    BY DEF Init, ClientInit, WillSubscribe
  <1>2. WillSubscribe => ListensForCommands
    <2>1. ToSet(<<>>) = {}
      BY SetsOfShort
    <2> QED BY <2>1 DEF WillSubscribe, ListensForCommands, Quiet
  <1> QED BY TypeCorrect, InitShaped, StepShaped, StepWillSubscribe, <1>1, <1>2, PTL DEF Spec

-----------------------------------------------------------------------------
(* Discovery follows the names.  Goroutine a is about to announce lamp d   *)
(* as n, or to record that it did.                                         *)
Names(o, d, n) ==
  \/ o.op = "announce" /\ o.dev = d /\ o.lamp.name = n
  \/ o.op = "record" /\ o.dev = d /\ o.name = n

HoldsName(a, d, n) == \E o \in ToSet(todo[a]) : Names(o, d, n)

(* ... and nothing but a lost message can keep it from doing so.           *)
WillName(a, d, n) ==
  \E o \in ToSet(todo[a]) : Names(o, d, n) /\ (o.op = "announce" => Adopted(o.lamp))

Says(d, n) == retained[ConfigTopic(d)] # Nil /\ retained[ConfigTopic(d)].name = n

Lost(d) == ConfigTopic(d) \in lost

RenamePending(d) == \E e \in ToSet(queue) : e.kind = "Renamed" /\ e.dev = d

SnapshotPending == \E a \in Actor : SnapshotOp \in ToSet(todo[a])

(* Goroutine a has announced lamp d as n and is about to record it.         *)
Recorder(a, d, n) ==
  Recording(todo[a]) /\ Head(todo[a]).dev = d /\ Head(todo[a]).name = n

InUse(d) == lamp[d].status \notin {"Absent", "Discovered"}

(* A lamp in use has a name.                                               *)
Named == \A d \in Device : InUse(d) => lamp[d].name # Nil

(* All goroutines mean the same name, the current one unless Run is still  *)
(* to hear of another.                                                     *)
Agreed ==
  \A a, b \in Actor, d \in Device, n, m \in Name \cup {Nil} :
    HoldsName(a, d, n) /\ HoldsName(b, d, m) => n = m

UpToDate ==
  \A a \in Actor, d \in Device, n \in Name \cup {Nil} :
    HoldsName(a, d, n) => n = lamp[d].name \/ RenamePending(d)

(* What is to be recorded, or was, is what the broker retains.             *)
ToRecord ==
  \A a \in Actor, d \in Device, n \in Name \cup {Nil} :
    Recorder(a, d, n) => Lost(d) \/ Says(d, n)

Recorded ==
  \A d \in Device : announced[d] # Nil =>
    \/ Lost(d) \/ Says(d, announced[d])
    \/ \E a \in Actor, n \in Name \cup {Nil} : Recorder(a, d, n)

(* A lamp in use is announced, or will be.                                 *)
Followed ==
  sess = "reading" =>
    \A d \in Device : InUse(d) =>
      \/ SnapshotPending \/ RenamePending(d)
      \/ Lost(d) \/ Says(d, lamp[d].name)
      \/ \E a \in Actor : WillName(a, d, lamp[d].name)

NamesInv ==
  /\ Named
  /\ ~overtaken => Agreed /\ UpToDate /\ ToRecord /\ Recorded /\ Followed

(* Holds, by the elements of the list.                                     *)
LEMMA HoldsAre ==
  ASSUME TypeOK, NEW a \in Actor, NEW d \in Device
  PROVE  \A n : n \in Holds(a, d) <=> HoldsName(a, d, n)
  <1> SUFFICES ASSUME NEW n PROVE n \in Holds(a, d) <=> HoldsName(a, d, n)
    OBVIOUS
  <1>1. ASSUME n \in Holds(a, d) PROVE HoldsName(a, d, n)
    BY <1>1 DEF Holds, HoldsName, Names, ToSet
  <1>2. ASSUME HoldsName(a, d, n) PROVE n \in Holds(a, d)
    <2>1. PICK i \in DOMAIN todo[a] : Names(todo[a][i], d, n)
      BY <1>2 DEF HoldsName, ToSet
    <2> QED BY <2>1 DEF Holds, Names
  <1> QED BY <1>1, <1>2

LEMMA NotRecording ==
  /\ \A s : Plain(s) /\ s # <<>> /\ s \in Seq(Op) => ~Recording(s)
  /\ \A s \in Startup : ~Recording(s)
  /\ ~Recording(<<>>)
  BY PlainParts, StartupShapes DEF Recording

(* The first operation is a record exactly in a list that is Recording.    *)
LEMMA RecordFirst ==
  ASSUME TypeOK, Shaped, NEW a \in Actor, todo[a] # <<>>
  PROVE  Recording(todo[a]) <=> Head(todo[a]).op = "record"
  <1>1. todo[a] \in Seq(Op) /\ Shape(todo[a])
    BY DEF TypeOK, LoopTypeOK, Shaped
  <1> QED BY <1>1, PlainParts, StartupShapes DEF Shape, Recording, Configuring

(* A goroutine at work comes to hold names only by a snapshot.             *)
LEMMA NamesStay ==
  ASSUME TypeOK, Shaped, NEW a \in Actor, NEW h \in Op, NEW r \in Seq(Op),
         ToSet(todo[a]) = {h} \cup ToSet(r), WorksOn(a, h, r), ~Surveys(a, h, r),
         NEW d, NEW n, HoldsName(a, d, n)'
  PROVE  HoldsName(a, d, n)
  <1>1. PICK o \in ToSet(todo'[a]) : Names(o, d, n)
    BY DEF HoldsName
  <1>2. CASE o \in ToSet(todo[a])
    BY <1>1, <1>2 DEF HoldsName
  <1>3. CASE o \notin ToSet(todo[a])
    <2>1. ~(Configures(a, h, r) /\ todo'[a] = Tail(r))
      <3>1. ASSUME Configures(a, h, r) /\ todo'[a] = Tail(r) PROVE FALSE
        <4>1. r # <<>>
          BY <3>1 DEF Configures, Recording
        <4>2. ToSet(r) = {Head(r)} \cup ToSet(Tail(r))
          BY <4>1, SetOfTail
        <4> QED BY <1>3, <3>1, <4>2
      <3> QED BY <3>1
    <2>2. Prepares(a, h, r)
      BY <1>1, <1>3, <2>1 DEF WorksOn, Skips, Records, Configures, Tells, Subscribes
    <2>3. /\ PublishOp(ConfigTopic(h.dev), Discovery(h.lamp)).op = "publish"
          /\ RecordOp(h.dev, h.lamp.name).op = "record"
          /\ RecordOp(h.dev, h.lamp.name).dev = h.dev
          /\ RecordOp(h.dev, h.lamp.name).name = h.lamp.name
      BY DEF PublishOp, RecordOp
    <2>4. o = RecordOp(h.dev, h.lamp.name)
      BY <1>1, <1>3, <2>2, <2>3 DEF Prepares, Names
    <2>5. Names(h, d, n)
      BY <1>1, <2>2, <2>3, <2>4 DEF Prepares, Names
    <2> QED BY <2>5 DEF HoldsName
  <1> QED BY <1>2, <1>3

(* A message on one topic, delivered or lost, leaves the others alone.     *)
LEMMA OtherTopics ==
  ASSUME TypeOK, NEW t, NEW v, Deliver(t, v) \/ Miss(t), NEW u \in Topic, u # t
  PROVE  /\ retained'[u] = retained[u]
         /\ u \in lost' <=> u \in lost
  <1>1. CASE Deliver(t, v)
    <2>1. retained'[u] = retained[u]
      BY <1>1 DEF Deliver, TypeOK, ClientTypeOK
    <2>2. u \in lost' <=> u \in lost
      BY <1>1 DEF Deliver
    <2> QED BY <2>1, <2>2
  <1>2. CASE Miss(t)
    BY <1>2 DEF Miss
  <1> QED BY <1>1, <1>2

(* A write that was not answered with an error leaves the name with the    *)
(* broker, or is lost.                                                     *)
LEMMA Configured ==
  ASSUME TypeOK, NEW a \in Actor, NEW h \in Op, NEW r \in Seq(Op),
         Configures(a, h, r), NEW d \in Device, NEW n \in Name \cup {Nil},
         r # <<>>, Head(r).dev = d, Head(r).name = n
  PROVE  Lost(d)' \/ Says(d, n)'
  <1>1. /\ h.topic = ConfigTopic(d) /\ h.value.name = n
        /\ h.topic \in Topic /\ h.value \in Payload
    BY OpsByKind DEF Configures
  <1>2. CASE Miss(h.topic)
    BY <1>1, <1>2, Topics DEF Miss, Lost
  <1>3. CASE Deliver(h.topic, h.value)
    <2>1. retained'[ConfigTopic(d)] = h.value
      BY <1>1, <1>3 DEF Deliver, TypeOK, ClientTypeOK
    <2>2. h.value # Nil
      BY <1>1, BridgeAssumption
    <2> QED BY <1>1, <2>1, <2>2 DEF Says
  <1> QED BY <1>2, <1>3 DEF Configures

(* What a goroutine's step does to the discovery message of lamp d:        *)
(* nothing, or it loses it, or it writes the name that it will record.     *)
LEMMA MessageSteps ==
  ASSUME TypeOK, Shaped, NEW a \in Actor, NEW h \in Op, NEW r \in Seq(Op),
         ToSet(todo[a]) = {h} \cup ToSet(r), WorksOn(a, h, r), NEW d \in Device
  PROVE  \/ Lost(d)'
         \/ /\ Lost(d)' <=> Lost(d)
            /\ \A n : Says(d, n)' <=> Says(d, n)
         \/ \E n \in Name \cup {Nil} : HoldsName(a, d, n) /\ Recorder(a, d, n)' /\ Says(d, n)'
  <1> DEFINE Same == (Lost(d)' <=> Lost(d)) /\ (\A n : Says(d, n)' <=> Says(d, n))
  <1>1. CASE UNCHANGED <<retained, lost>>
    <2>1. Same
      BY <1>1 DEF Lost, Says
    <2> QED BY <2>1
  <1>2. CASE Tells(a, h, r)
    <2>1. h.topic # ConfigTopic(d) /\ h.topic \in Topic
      BY <1>2, OpsByKind DEF Tells
    <2>2. /\ retained'[ConfigTopic(d)] = retained[ConfigTopic(d)]
          /\ ConfigTopic(d) \in lost' <=> ConfigTopic(d) \in lost
      BY <1>2, <2>1, Topics, OtherTopics DEF Tells
    <2>3. Same
      BY <2>2 DEF Lost, Says
    <2> QED BY <2>3
  <1>3. CASE Configures(a, h, r)
    <2>1. /\ r # <<>> /\ Head(r).op = "record" /\ Head(r) \in ToSet(r) /\ Head(r) \in Op
          /\ h.topic = ConfigTopic(Head(r).dev) /\ h.topic \in Topic
      BY <1>3, SetOfTail, OpsByKind DEF Configures, Recording
    <2>2. Head(r).dev \in Device /\ Head(r).name \in Name \cup {Nil}
      BY <2>1, OpsByKind
    <2>3. CASE Head(r).dev # d
      <3>1. h.topic # ConfigTopic(d)
        BY <2>1, <2>3, Topics
      <3>2. /\ retained'[ConfigTopic(d)] = retained[ConfigTopic(d)]
            /\ ConfigTopic(d) \in lost' <=> ConfigTopic(d) \in lost
        BY <1>3, <3>1, Topics, OtherTopics DEF Configures
      <3>3. Same
        BY <3>2 DEF Lost, Says
      <3> QED BY <3>3
    <2>4. CASE Head(r).dev = d
      <3>1. PICK n \in Name \cup {Nil} : n = Head(r).name
        BY <2>2
      <3>2. Lost(d)' \/ Says(d, n)'
        BY <1>3, <2>1, <2>4, <3>1, Configured
      <3>3. HoldsName(a, d, n)
        BY <2>1, <2>4, <3>1 DEF HoldsName, Names
      <3>4. CASE Miss(h.topic)
        BY <2>1, <2>4, <3>4, Topics DEF Miss, Lost
      <3>5. CASE todo'[a] = r
        BY <1>3, <2>4, <3>1, <3>2, <3>3, <3>5 DEF Recorder, Configures
      <3> QED BY <1>3, <3>4, <3>5 DEF Configures
    <2> QED BY <2>3, <2>4
  <1>4. CASE Subscribes(a, h, r)
    BY <1>1, <1>4 DEF Subscribes, SubscribeCommands
  <1> QED BY <1>1, <1>2, <1>3, <1>4 DEF WorksOn, Skips, Prepares, Records, Surveys, clientVars

(* The list of a goroutine at work begins with a record only after the     *)
(* write of its announcement.                                              *)
LEMMA RecordingAfter ==
  ASSUME TypeOK, Shaped, NEW a \in Actor, NEW h \in Op, NEW r \in Seq(Op),
         WorksOn(a, h, r), OnlyTodo(a), Recording(todo'[a])
  PROVE  Configures(a, h, r) /\ todo'[a] = r
  <1>1. ~Skips(a, h, r) /\ ~Records(a, h, r) /\ ~Tells(a, h, r) /\ ~Subscribes(a, h, r)
    BY NotRecording DEF Skips, Records, Tells, Subscribes
  <1>2. ASSUME Prepares(a, h, r) PROVE FALSE
    <2> DEFINE P == PublishOp(ConfigTopic(h.dev), Discovery(h.lamp))
               R == RecordOp(h.dev, h.lamp.name)
    <2>1. P \in Op /\ R \in Op /\ P.op = "publish"
      BY <1>2, OpsByKind, OpsTyped, Topics DEF Prepares, PublishOp
    <2> HIDE DEF P, R
    <2>2. Head(<<P, R>> \o r) = P
      BY <2>1, SetOfPair
    <2>3. todo'[a] = <<P, R>> \o r
      BY <1>2 DEF Prepares, P, R
    <2> QED BY <2>1, <2>2, <2>3 DEF Recording
  <1>3. ~Surveys(a, h, r)
    <2>1. ASSUME Surveys(a, h, r) PROVE FALSE
      <3>1. Head(todo'[a]) \in ToSet(todo'[a])
        BY SetOfTail DEF OnlyTodo, Recording
      <3> QED BY <2>1, <3>1 DEF Surveys, AnnounceOp, Recording
    <2> QED BY <2>1
  <1>4. ASSUME Configures(a, h, r), todo'[a] = Tail(r) PROVE FALSE
    <2>1. Tail(r) \in Seq(Op) /\ Plain(Tail(r))
      BY <1>4, SetOfTail DEF Configures, Recording
    <2> QED BY <1>4, <2>1, NotRecording
  <1> QED BY <1>1, <1>2, <1>3, <1>4 DEF WorksOn, Configures

LEMMA NamesTyped ==
  ASSUME TypeOK, NEW a \in Actor, NEW o \in ToSet(todo[a]), NEW d, NEW n, Names(o, d, n)
  PROVE  d \in Device /\ n \in Name \cup {Nil} /\ HoldsName(a, d, n)
  <1>1. o \in Op
    BY DEF TypeOK, LoopTypeOK, ToSet
  <1> QED BY <1>1, OpsByKind DEF Names, Lamp, HoldsName

LEMMA RecorderHolds ==
  ASSUME TypeOK, NEW a \in Actor, NEW d, NEW n, Recorder(a, d, n)
  PROVE  HoldsName(a, d, n)
  <1>1. todo[a] # <<>> /\ todo[a] \in Seq(Op)
    BY DEF Recorder, Recording, TypeOK, LoopTypeOK
  <1>2. Head(todo[a]) \in ToSet(todo[a])
    BY <1>1, SetOfTail
  <1> QED BY <1>2 DEF Recorder, Recording, HoldsName, Names

(* A record is among the operations only while its announcement is written. *)
LEMMA RecordLeft ==
  ASSUME TypeOK, Shaped, NEW a \in Actor, NEW h \in Op, NEW r \in Seq(Op),
         todo[a] # <<>>, h = Head(todo[a]), r = Tail(todo[a]), WorksOn(a, h, r),
         NEW o \in ToSet(r), o.op = "record"
  PROVE  Configures(a, h, r) /\ r # <<>> /\ o = Head(r)
  <1>1. ~Plain(r)
    BY DEF Plain
  <1>2. todo[a] \in Seq(Op)
    BY DEF TypeOK, LoopTypeOK
  <1>3. ~Plain(todo[a])
    BY <1>1, <1>2, PlainParts
  <1>4. todo[a] \notin Startup
    <2>1. \A s \in Startup : \A x \in ToSet(s) : x.op # "record"
      BY SetsOfShort DEF Startup, OnConnect, PublishOp, SubscribeOp, SnapshotOp
    <2>2. ToSet(todo[a]) = {h} \cup ToSet(r)
      BY <1>2, SetOfTail
    <2> QED BY <2>1, <2>2
  <1>5. Configuring(todo[a])
    BY <1>1, <1>3, <1>4 DEF Shaped, Shape, Recording
  <1>6. /\ h.op = "publish" /\ h.topic = ConfigTopic(Head(r).dev)
        /\ r # <<>> /\ Head(r).op = "record" /\ Plain(Tail(r))
    BY <1>5 DEF Configuring, Recording
  <1>7. Head(r).dev \in Device /\ ToSet(r) = {Head(r)} \cup ToSet(Tail(r))
    BY <1>6, SetOfTail, OpsByKind
  <1>8. o = Head(r)
    BY <1>6, <1>7 DEF Plain
  <1> QED BY <1>1, <1>6, <1>7, <1>8
          DEF WorksOn, Skips, Prepares, Records, Tells, Subscribes, Surveys, SubscribeOp, SnapshotOp

(* Writing, recording, passing over: none of it parts what is retained     *)
(* from what the goroutines mean.                                          *)
LEMMA WorkKeepsNames ==
  ASSUME TypeOK, Shaped, NamesInv, NEW a \in Actor, Work(a),
         NEW h \in Op, NEW r \in Seq(Op), h = Head(todo[a]), r = Tail(todo[a]),
         ToSet(todo[a]) = {h} \cup ToSet(r), WorksOn(a, h, r), ~Surveys(a, h, r),
         ~overtaken
  PROVE  Agreed' /\ UpToDate' /\ ToRecord' /\ Recorded' /\ Followed'
  <1>1. /\ Named /\ Agreed /\ UpToDate /\ ToRecord /\ Recorded /\ Followed
        /\ OnlyTodo(a) /\ todo[a] # <<>>
        /\ lamp' = lamp /\ queue' = queue
    BY WorkTyped DEF NamesInv, lampVars
  <1>2. sess' = sess
    BY DEF Work, Announce, Record, Publish, PublishFails, Subscribe, Snapshot, clientVars,
           Deliver, Miss, SubscribeCommands, sessionVars
  <1>3. \A b \in Actor : \A d, n : HoldsName(b, d, n)' => HoldsName(b, d, n)
    <2>1. \A d, n : HoldsName(a, d, n)' => HoldsName(a, d, n)
      BY NamesStay
    <2>2. \A b \in Actor \ {a} : \A d, n : HoldsName(b, d, n)' => HoldsName(b, d, n)
      BY <1>1 DEF OnlyTodo, HoldsName
    <2> QED BY <2>1, <2>2
  <1>4. Agreed'
    BY <1>1, <1>3 DEF Agreed
  <1>5. UpToDate'
    BY <1>1, <1>3 DEF UpToDate, RenamePending
  <1>6. \A d \in Device :
          \/ Lost(d)'
          \/ /\ Lost(d)' <=> Lost(d)
             /\ \A n : Says(d, n)' <=> Says(d, n)
          \/ \E n \in Name \cup {Nil} : HoldsName(a, d, n) /\ Recorder(a, d, n)' /\ Says(d, n)'
    BY MessageSteps
  <1>7. \A b \in Actor, d \in Device, n \in Name \cup {Nil} :
          HoldsName(b, d, n) /\ (Lost(d) \/ Says(d, n)) => Lost(d)' \/ Says(d, n)'
    BY <1>1, <1>6 DEF Agreed
  <1>8. \A b \in Actor, d \in Device, n \in Name \cup {Nil} :
          Recorder(b, d, n) => HoldsName(b, d, n) /\ (Lost(d) \/ Says(d, n))
    BY <1>1, RecorderHolds DEF ToRecord
  <1>9. \A b \in Actor \ {a} : \A d, n : Recorder(b, d, n)' <=> Recorder(b, d, n)
    BY <1>1 DEF OnlyTodo, Recorder
  <1>10. ASSUME NEW d, NEW n, Recorder(a, d, n)
         PROVE  Records(a, h, r) /\ h.dev = d /\ h.name = n
    <2>1. h.op = "record" /\ h.dev = d /\ h.name = n
      BY <1>10 DEF Recorder, Recording
    <2> QED BY <2>1 DEF WorksOn, Skips, Prepares, Configures, Tells, Subscribes, Surveys,
                        SubscribeOp, SnapshotOp
  <1>11. ToRecord'
    <2> SUFFICES ASSUME NEW b \in Actor, NEW d \in Device, NEW n \in Name \cup {Nil},
                        Recorder(b, d, n)'
                 PROVE  Lost(d)' \/ Says(d, n)'
      BY DEF ToRecord
    <2>1. CASE b # a
      BY <1>7, <1>8, <1>9, <2>1
    <2>2. CASE b = a
      <3>1. Configures(a, h, r) /\ todo'[a] = r
        BY <1>1, <2>2, RecordingAfter DEF Recorder
      <3>2. r # <<>> /\ Head(r).dev = d /\ Head(r).name = n
        BY <2>2, <3>1 DEF Recorder, Recording
      <3> QED BY <3>1, <3>2, Configured
    <2> QED BY <2>1, <2>2
  <1>12. Recorded'
    <2> SUFFICES ASSUME NEW d \in Device, announced'[d] # Nil
                 PROVE  \/ Lost(d)' \/ Says(d, announced[d])'
                        \/ \E b \in Actor, m \in Name \cup {Nil} : Recorder(b, d, m)'
      BY DEF Recorded
    <2>1. PICK n \in Name \cup {Nil} : n = announced'[d]
      BY WorkTyped DEF TypeOK, LoopTypeOK
    <2>2. Says(d, n)' => Says(d, announced[d])'
      BY <2>1 DEF Says
    <2>3. CASE Records(a, h, r) /\ h.dev = d
      <3>1. h.name = n
        BY <2>1, <2>3 DEF Records, TypeOK, LoopTypeOK
      <3>2. Recorder(a, d, n)
        BY <1>1, <2>3, <3>1, RecordFirst DEF Recorder, Records
      <3> QED BY <1>7, <1>8, <2>2, <3>2
    <2>4. CASE ~(Records(a, h, r) /\ h.dev = d)
      <3>1. announced'[d] = announced[d]
        BY <2>4 DEF WorksOn, Skips, Prepares, Records, Configures, Tells, Subscribes, Surveys,
                    TypeOK, LoopTypeOK
      <3>2. \/ Lost(d) \/ Says(d, n)
            \/ \E b \in Actor, m \in Name \cup {Nil} : Recorder(b, d, m)
        BY <1>1, <2>1, <3>1 DEF Recorded
      <3>3. ASSUME NEW b \in Actor, NEW m \in Name \cup {Nil}, Recorder(b, d, m)
            PROVE  Recorder(b, d, m)'
        BY <1>9, <1>10, <2>4, <3>3
      <3> QED BY <1>6, <2>2, <3>2, <3>3
    <2> QED BY <2>3, <2>4
  <1>13. Followed'
    <2> SUFFICES ASSUME sess = "reading", NEW d \in Device, InUse(d)
                 PROVE  \/ SnapshotPending' \/ RenamePending(d)'
                        \/ Lost(d)' \/ Says(d, lamp[d].name)'
                        \/ \E b \in Actor : WillName(b, d, lamp[d].name)'
      BY <1>1, <1>2 DEF Followed, InUse
    <2>1. PICK n \in Name : n = lamp[d].name
      BY <1>1 DEF Named, TypeOK, LampTypeOK, Lamp
    <2> DEFINE Goal == \/ SnapshotPending' \/ RenamePending(d)'
                       \/ Lost(d)' \/ Says(d, n)'
                       \/ \E b \in Actor : WillName(b, d, n)'
    <2>2. SUFFICES Goal
      BY <1>1, <2>1 DEF Says, WillName
    <2>3. RenamePending(d)' <=> RenamePending(d)
      BY <1>1 DEF RenamePending
    <2>4. Lost(d) \/ Says(d, n) => Goal
      BY <1>1, <1>6, <2>1, <2>3 DEF UpToDate
    <2>5. SnapshotPending => Goal
      <3> SUFFICES ASSUME NEW b \in Actor, SnapshotOp \in ToSet(todo[b])
                   PROVE  SnapshotPending'
        BY DEF SnapshotPending
      <3>1. CASE b # a
        BY <1>1, <3>1 DEF SnapshotPending, OnlyTodo
      <3>2. CASE b = a
        <4>1. h # SnapshotOp
          BY DEF WorksOn, Skips, Prepares, Records, Configures, Tells, Subscribes,
                 SubscribeOp, SnapshotOp
        <4>2. SnapshotOp \in ToSet(todo'[a])
          BY <3>2, <4>1, OpsStay DEF SnapshotOp
        <4> QED BY <4>2 DEF SnapshotPending
      <3> QED BY <3>1, <3>2
    <2>6. ASSUME NEW b \in Actor, WillName(b, d, n) PROVE Goal
      <3>1. PICK o \in ToSet(todo[b]) : Names(o, d, n) /\ (o.op = "announce" => Adopted(o.lamp))
        BY <2>6 DEF WillName
      <3>2. ASSUME NEW c \in Actor, o \in ToSet(todo'[c]) PROVE Goal
        BY <3>1, <3>2 DEF WillName
      <3>3. CASE b # a
        BY <1>1, <3>2, <3>3 DEF OnlyTodo
      <3>4. CASE b = a /\ o \in ToSet(r) /\ o.op # "record"
        BY <3>2, <3>4, OpsStay
      <3>5. CASE b = a /\ o \in ToSet(r) /\ o.op = "record"
        <4>1. Configures(a, h, r) /\ r # <<>> /\ o = Head(r)
          BY <1>1, <3>5, RecordLeft
        <4>2. Head(r).dev = d /\ Head(r).name = n
          BY <3>1, <3>5, <4>1 DEF Names
        <4>3. Lost(d)' \/ Says(d, n)'
          BY <4>1, <4>2, Configured
        <4> QED BY <4>3
      <3>6. CASE b = a /\ o = h /\ o.op = "record"
        <4>1. Recorder(a, d, n)
          BY <1>1, <3>1, <3>6, RecordFirst DEF Recorder, Names
        <4> QED BY <1>7, <1>8, <4>1
      <3>7. CASE b = a /\ o = h /\ o.op = "announce"
        <4>1. h.dev = d /\ h.lamp.name = n /\ Adopted(h.lamp) /\ h.op = "announce"
          BY <3>1, <3>7 DEF Names
        <4>2. CASE Prepares(a, h, r)
          <5>1. RecordOp(d, n) \in ToSet(todo'[a]) /\ Names(RecordOp(d, n), d, n)
                /\ RecordOp(d, n).op # "announce"
            BY <4>1, <4>2 DEF Prepares, Names, RecordOp
          <5>2. WillName(a, d, n)'
            BY <5>1 DEF WillName
          <5> QED BY <5>2
        <4>3. CASE Skips(a, h, r)
          <5>1. announced[d] = n /\ n # Nil
            BY <4>1, <4>3, BridgeAssumption DEF Skips
          <5>2. \/ Lost(d) \/ Says(d, n)
                \/ \E c \in Actor, m \in Name \cup {Nil} : Recorder(c, d, m)
            BY <1>1, <5>1 DEF Recorded
          <5>3. ASSUME NEW c \in Actor, NEW m \in Name \cup {Nil}, Recorder(c, d, m) PROVE Goal
            <6>1. HoldsName(a, d, n)
              BY <3>1, <3>7 DEF HoldsName
            <6>2. m = n
              BY <1>1, <1>8, <5>3, <6>1 DEF Agreed
            <6> QED BY <1>7, <1>8, <5>3, <6>2
          <5> QED BY <2>4, <5>2, <5>3
        <4> QED BY <4>1, <4>2, <4>3
                DEF WorksOn, Records, Configures, Tells, Subscribes, SubscribeOp
      <3> QED BY <3>1, <3>3, <3>4, <3>5, <3>6, <3>7 DEF Names
    <2> QED BY <1>1, <2>1, <2>3, <2>4, <2>5, <2>6 DEF Followed
  <1> QED BY <1>4, <1>5, <1>11, <1>12, <1>13

LEMMA InitNames == Init => NamesInv
  <1> SUFFICES ASSUME Init PROVE NamesInv
    OBVIOUS
  <1>1. Named
    BY DEF Init, Named, InUse
  <1>2. \A a \in Actor : ToSet(todo[a]) \subseteq {SubscribeOp} /\ ~Recording(todo[a])
    <2> SUFFICES ASSUME NEW a \in Actor
                 PROVE  ToSet(todo[a]) \subseteq {SubscribeOp} /\ ~Recording(todo[a])
      OBVIOUS
    <2>1. todo[a] = <<SubscribeOp>> \/ todo[a] = <<>>
      BY DEF Init
    <2>2. Head(<<SubscribeOp>>).op # "record"
      BY DEF SubscribeOp
    <2> QED BY <2>1, <2>2, SetsOfShort DEF Recording
  <1>3. \A a \in Actor : \A d, n : ~HoldsName(a, d, n) /\ ~Recorder(a, d, n)
    BY <1>2 DEF HoldsName, Names, SubscribeOp, Recorder
  <1>4. Agreed /\ UpToDate /\ ToRecord
    BY <1>3 DEF Agreed, UpToDate, ToRecord
  <1>5. Recorded
    BY DEF Init, Recorded
  <1>6. Followed
    BY DEF Init, ClientInit, Followed
  <1> QED BY <1>1, <1>4, <1>5, <1>6 DEF NamesInv

(* The retained discovery messages, what was recorded, and the lamps, as a *)
(* step of the client or of Run's loop leaves them.                        *)
LEMMA NamesKept ==
  ASSUME UNCHANGED <<lamp, announced>>,
         \A d \in Device : retained'[ConfigTopic(d)] = retained[ConfigTopic(d)],
         lost' = lost
  PROVE  /\ \A d \in Device : /\ Lost(d)' <=> Lost(d)
                              /\ \A n : Says(d, n)' <=> Says(d, n)
                              /\ InUse(d)' <=> InUse(d)
         /\ Named => Named'
  <1>1. \A d \in Device : /\ Lost(d)' <=> Lost(d)
                          /\ InUse(d)' <=> InUse(d)
    BY DEF Lost, InUse
  <1>2. \A d \in Device : \A n : Says(d, n)' <=> Says(d, n)
    BY DEF Says
  <1>3. Named => Named'
    BY <1>1 DEF Named
  <1> QED BY <1>1, <1>2, <1>3

(* OnConnect takes up the lamps.                                           *)
LEMMA SurveyKeepsNames ==
  ASSUME TypeOK, Shaped, NamesInv, NEW a \in Actor, Work(a),
         NEW h \in Op, NEW r \in Seq(Op), h = Head(todo[a]),
         ToSet(todo[a]) = {h} \cup ToSet(r), Surveys(a, h, r), ~overtaken'
  PROVE  Agreed' /\ UpToDate' /\ ToRecord' /\ Recorded' /\ Followed'
  <1>1. /\ OnlyTodo(a) /\ lamp' = lamp /\ queue' = queue
        /\ UNCHANGED <<retained, lost, sess, announced>>
    BY WorkTyped DEF lampVars, Surveys, clientVars
  <1>2. /\ ~overtaken /\ \A d \in Known : ~Overtakes(a, d)
    BY DEF Surveys
  <1>3. Named /\ Agreed /\ UpToDate /\ ToRecord /\ Recorded /\ Followed
    BY <1>2 DEF NamesInv
  <1>4. /\ \A d \in Device : /\ Lost(d)' <=> Lost(d)
                             /\ \A n : Says(d, n)' <=> Says(d, n)
                             /\ InUse(d)' <=> InUse(d)
        /\ \A d \in Device : RenamePending(d)' <=> RenamePending(d)
    BY <1>1, NamesKept DEF RenamePending
  <1>5. \A d, n : HoldsName(a, d, n)' => d \in Known /\ n = lamp[d].name
    BY DEF Surveys, HoldsName, Names, AnnounceOp
  <1>6. \A b \in Actor \ {a} : \A d, n : /\ HoldsName(b, d, n)' <=> HoldsName(b, d, n)
                                         /\ Recorder(b, d, n)' <=> Recorder(b, d, n)
                                         /\ WillName(b, d, n)' <=> WillName(b, d, n)
    BY <1>1 DEF OnlyTodo, HoldsName, Recorder, WillName
  <1>7. \A b \in Actor \ {a} : \A d, n : HoldsName(b, d, n) /\ d \in Known => n = lamp[d].name
    <2> SUFFICES ASSUME NEW b \in Actor \ {a}, NEW d \in Known, NEW n, HoldsName(b, d, n)
                 PROVE  n = lamp[d].name
      OBVIOUS
    <2>1. n \in Holds(b, d)
      BY HoldsAre DEF Known
    <2> QED BY <1>2, <2>1 DEF Overtakes
  <1>8. \A d, n : ~Recorder(a, d, n) /\ ~Recorder(a, d, n)'
    <2>1. \A d, n : ~Recorder(a, d, n)
      BY DEF Surveys, SnapshotOp, Recorder, Recording
    <2>2. ASSUME Recording(todo'[a]) PROVE FALSE
      <3>1. Head(todo'[a]) \in ToSet(todo'[a])
        BY <1>1, <2>2, SetOfTail DEF OnlyTodo, Recording
      <3> QED BY <2>2, <3>1 DEF Surveys, AnnounceOp, Recording
    <2> QED BY <2>1, <2>2 DEF Recorder
  <1>9. Agreed'
    BY <1>3, <1>5, <1>6, <1>7 DEF Agreed
  <1>10. UpToDate'
    BY <1>1, <1>3, <1>4, <1>5, <1>6 DEF UpToDate
  <1>11. ToRecord'
    BY <1>3, <1>4, <1>6, <1>8 DEF ToRecord
  <1>12. Recorded'
    <2> SUFFICES ASSUME NEW d \in Device, announced[d] # Nil
                 PROVE  \/ Lost(d)' \/ Says(d, announced[d])'
                        \/ \E b \in Actor, n \in Name \cup {Nil} : Recorder(b, d, n)'
      BY <1>1 DEF Recorded
    <2>1. \/ Lost(d) \/ Says(d, announced[d])
          \/ \E b \in Actor, n \in Name \cup {Nil} : Recorder(b, d, n)
      BY <1>3 DEF Recorded
    <2>2. Says(d, announced[d]) => Says(d, announced[d])'
      BY <1>1 DEF Says
    <2> QED BY <1>4, <1>6, <1>8, <2>1, <2>2
  <1>13. Followed'
    <2> SUFFICES ASSUME NEW d \in Device, InUse(d)
                 PROVE  WillName(a, d, lamp[d].name)'
      BY <1>1, <1>4 DEF Followed
    <2>1. d \in Known /\ Adopted(lamp[d])
      BY DEF InUse, Known, Adopted
    <2>2. AnnounceOp(d, lamp[d]) \in ToSet(todo'[a])
      BY <2>1 DEF Surveys
    <2>3. Names(AnnounceOp(d, lamp[d]), d, lamp[d].name) /\ AnnounceOp(d, lamp[d]).lamp = lamp[d]
      BY DEF Names, AnnounceOp
    <2>4. PICK o \in ToSet(todo'[a]) : Names(o, d, lamp'[d].name) /\ Adopted(o.lamp)
      BY <1>1, <2>1, <2>2, <2>3
    <2> QED BY <2>4 DEF WillName
  <1> QED BY <1>9, <1>10, <1>11, <1>12, <1>13

(* A connection is made; OnConnect is about to take up the lamps.          *)
LEMMA StartKeepsNames ==
  ASSUME TypeOK, Shaped, NamesInv, NEW h \in Hook, StartSession(h), ~overtaken
  PROVE  Agreed' /\ UpToDate' /\ ToRecord' /\ Recorded' /\ Followed'
  <1>1. /\ h \in Actor /\ OnlyTodo(h) /\ todo[h] = <<>>
        /\ lamp' = lamp /\ queue' = queue /\ announced' = announced
        /\ todo'[h] = IF sess' = "reading" THEN OnConnect ELSE <<>>
    BY StartSessionTyped DEF lampVars, Actor
  <1>2. /\ \A d \in Device : retained'[ConfigTopic(d)] = retained[ConfigTopic(d)]
        /\ lost' = lost
    <2>1. retained' = retained \/ retained' = [retained EXCEPT ![Status] = "offline"]
      BY StartSessionTyped DEF Connect, Handshake, Resubscribe
    <2>2. lost' = lost
      BY StartSessionTyped DEF Connect, Resubscribe
    <2> QED BY <2>1, <2>2, Topics DEF TypeOK, ClientTypeOK
  <1>3. Agreed /\ UpToDate /\ ToRecord /\ Recorded
    BY DEF NamesInv
  <1>4. /\ \A d \in Device : /\ Lost(d)' <=> Lost(d)
                             /\ \A n : Says(d, n)' <=> Says(d, n)
        /\ \A d \in Device : RenamePending(d)' <=> RenamePending(d)
    BY <1>1, <1>2, NamesKept DEF RenamePending
  <1>5. \A d, n : ~HoldsName(h, d, n)' /\ ~Recorder(h, d, n)' /\ ~Recorder(h, d, n)
    <2>1. \A o \in ToSet(OnConnect) : o.op \in {"publish", "subscribe", "snapshot"}
      BY SetsOfShort DEF OnConnect, PublishOp, SubscribeOp, SnapshotOp
    <2>2. OnConnect \in Startup /\ ToSet(<<>>) = {}
      BY SetsOfShort DEF Startup
    <2>3. ~Recording(OnConnect) /\ ~Recording(<<>>)
      BY <2>2, NotRecording
    <2>4. \A d, n : ~Recorder(h, d, n)' /\ ~Recorder(h, d, n)
      BY <1>1, <2>3 DEF Recorder
    <2>5. \A d, n : ~HoldsName(h, d, n)'
      BY <1>1, <2>1, <2>2 DEF HoldsName, Names
    <2> QED BY <2>4, <2>5
  <1>6. \A b \in Actor \ {h} : \A d, n : /\ HoldsName(b, d, n)' <=> HoldsName(b, d, n)
                                         /\ Recorder(b, d, n)' <=> Recorder(b, d, n)
    BY <1>1 DEF OnlyTodo, HoldsName, Recorder
  <1>7. Agreed'
    BY <1>3, <1>5, <1>6 DEF Agreed
  <1>8. UpToDate'
    BY <1>1, <1>3, <1>4, <1>5, <1>6 DEF UpToDate
  <1>9. ToRecord'
    BY <1>3, <1>4, <1>5, <1>6 DEF ToRecord
  <1>10. Recorded'
    <2> SUFFICES ASSUME NEW d \in Device, announced[d] # Nil
                 PROVE  \/ Lost(d)' \/ Says(d, announced[d])'
                        \/ \E b \in Actor, n \in Name \cup {Nil} : Recorder(b, d, n)'
      BY <1>1 DEF Recorded
    <2>1. \/ Lost(d) \/ Says(d, announced[d])
          \/ \E b \in Actor, n \in Name \cup {Nil} : Recorder(b, d, n)
      BY <1>3 DEF Recorded
    <2>2. Says(d, announced[d]) => Says(d, announced[d])'
      BY <1>1, <1>2 DEF Says
    <2> QED BY <1>4, <1>5, <1>6, <2>1, <2>2
  <1>11. Followed'
    <2>1. SnapshotOp \in ToSet(OnConnect)
      BY SetsOfShort DEF OnConnect
    <2>2. sess' = "reading" => SnapshotPending'
      BY <1>1, <2>1 DEF SnapshotPending
    <2> QED BY <2>2 DEF Followed
  <1> QED BY <1>7, <1>8, <1>9, <1>10, <1>11

(* The connection breaks, the will fires, the server stops.                *)
LEMMA ClientKeepsNames ==
  ASSUME TypeOK, NamesInv, ~overtaken, ClientStep \/ Stop,
         UNCHANGED <<lampVars, queue, bridgeVars>>
  PROVE  Agreed' /\ UpToDate' /\ ToRecord' /\ Recorded' /\ Followed'
  <1>1. /\ lamp' = lamp /\ queue' = queue /\ announced' = announced /\ todo' = todo
    BY DEF lampVars, bridgeVars
  <1>2. /\ \A d \in Device : retained'[ConfigTopic(d)] = retained[ConfigTopic(d)]
        /\ lost' = lost
        /\ sess' = "reading" => sess = "reading"
    <2>1. /\ retained' = retained \/ retained' = [retained EXCEPT ![Status] = "offline"]
          /\ lost' = lost
          /\ sess' = "reading" => sess = "reading"
      BY DEF ClientStep, ResubscribeFails, SessionEnds, RunReturns, AfterSession,
             Depart, LinkDies, WillFires, brokerVars, sessionVars, Stop
    <2> QED BY <2>1, Topics DEF TypeOK, ClientTypeOK
  <1>3. Agreed /\ UpToDate /\ ToRecord /\ Recorded /\ Followed
    BY DEF NamesInv
  <1>4. /\ \A d \in Device : /\ Lost(d)' <=> Lost(d)
                             /\ \A n : Says(d, n)' <=> Says(d, n)
                             /\ InUse(d)' <=> InUse(d)
        /\ \A d \in Device : RenamePending(d)' <=> RenamePending(d)
    BY <1>1, <1>2, NamesKept DEF RenamePending
  <1>5. \A b \in Actor : \A d, n : /\ HoldsName(b, d, n)' <=> HoldsName(b, d, n)
                                   /\ Recorder(b, d, n)' <=> Recorder(b, d, n)
                                   /\ WillName(b, d, n)' <=> WillName(b, d, n)
    BY <1>1 DEF HoldsName, Recorder, WillName
  <1>6. SnapshotPending' <=> SnapshotPending
    BY <1>1 DEF SnapshotPending
  <1>7. Agreed' /\ ToRecord'
    BY <1>3, <1>4, <1>5 DEF Agreed, ToRecord
  <1>8. UpToDate'
    BY <1>1, <1>3, <1>4, <1>5 DEF UpToDate
  <1>9. Recorded'
    <2> SUFFICES ASSUME NEW d \in Device, announced[d] # Nil
                 PROVE  \/ Lost(d)' \/ Says(d, announced[d])'
                        \/ \E b \in Actor, n \in Name \cup {Nil} : Recorder(b, d, n)'
      BY <1>1 DEF Recorded
    <2>1. Says(d, announced[d]) => Says(d, announced[d])'
      BY <1>1, <1>2 DEF Says
    <2> QED BY <1>3, <1>4, <1>5, <2>1 DEF Recorded
  <1>10. Followed'
    <2> SUFFICES ASSUME sess = "reading", NEW d \in Device, InUse(d)
                 PROVE  \/ SnapshotPending \/ RenamePending(d)
                        \/ Lost(d) \/ Says(d, lamp[d].name)'
                        \/ \E b \in Actor : WillName(b, d, lamp[d].name)'
      BY <1>1, <1>2, <1>4, <1>6 DEF Followed
    <2>1. Says(d, lamp[d].name) => Says(d, lamp[d].name)'
      BY <1>1, <1>2 DEF Says
    <2>2. \A b \in Actor : WillName(b, d, lamp[d].name) => WillName(b, d, lamp[d].name)'
      BY <1>1 DEF WillName
    <2> QED BY <1>3, <2>1, <2>2 DEF Followed
  <1> QED BY <1>7, <1>8, <1>9, <1>10

(* Run takes up an event, or stops.                                        *)
LEMMA LoopKeepsNames ==
  ASSUME TypeOK, Shaped, NamesInv, ~overtaken',
         \/ Handle
         \/ RunStops
  PROVE  Agreed' /\ UpToDate' /\ ToRecord' /\ Recorded' /\ Followed'
  <1>1. /\ OnlyTodo("loop") /\ todo["loop"] = <<>> /\ "loop" \in Actor
        /\ UNCHANGED <<lamp, retained, lost, sess, announced>>
        /\ ~overtaken
    <2>1. CASE Handle
      <3>1. PICK e \in Event : overtaken' = (overtaken \/ Overtakes("loop", e.dev))
        BY <2>1, HandleTyped
      <3>2. ~overtaken
        BY <3>1
      <3> QED BY <2>1, <3>2, HandleTyped DEF lampVars, clientVars, Actor
    <2>2. CASE RunStops
      BY <2>2, RunStopsTyped DEF lampVars, clientVars, Actor
    <2> QED BY <2>1, <2>2
  <1>2. Named /\ Agreed /\ UpToDate /\ ToRecord /\ Recorded /\ Followed
    BY <1>1 DEF NamesInv
  <1>3. \A d \in Device : /\ Lost(d)' <=> Lost(d)
                          /\ \A n : Says(d, n)' <=> Says(d, n)
                          /\ InUse(d)' <=> InUse(d)
    BY <1>1, NamesKept
  <1>4. \A b \in Actor \ {"loop"} : \A d, n : /\ HoldsName(b, d, n)' <=> HoldsName(b, d, n)
                                              /\ Recorder(b, d, n)' <=> Recorder(b, d, n)
                                              /\ WillName(b, d, n)' <=> WillName(b, d, n)
    BY <1>1 DEF OnlyTodo, HoldsName, Recorder, WillName
  <1>5. ToSet(todo["loop"]) = {}
    BY <1>1, SetsOfShort
  <1>6. Plain(todo'["loop"])
    <2>1. CASE Handle
      <3>1. PICK e \in Event : todo'["loop"] = Publications(e.kind, e.dev, lamp[e.dev])
        BY <2>1, HandleTyped
      <3>2. e.kind \in Kind /\ e.dev \in Device /\ lamp[e.dev] \in Lamp
        BY DEF Event, TypeOK, LampTypeOK
      <3> QED BY <3>1, <3>2, PublicationsPlain
    <2>2. CASE RunStops
      <3>1. ToSet(todo'["loop"]) = {PublishOp(Status, "offline")}
        BY <2>2, RunStopsTyped, SetsOfShort
      <3> QED BY <3>1, Topics DEF Plain, PublishOp
    <2> QED BY <2>1, <2>2
  <1>7. \A d, n : ~Recorder("loop", d, n) /\ ~Recorder("loop", d, n)'
    <2>1. ~Recording(todo'["loop"]) /\ ~Recording(todo["loop"])
      <3>1. todo'["loop"] \in Seq(Op)
        BY <1>1 DEF OnlyTodo
      <3> QED BY <1>1, <1>6, <3>1, NotRecording DEF Recording
    <2> QED BY <2>1 DEF Recorder
  <1>8. ToRecord'
    BY <1>2, <1>3, <1>4, <1>7 DEF ToRecord
  <1>9. Recorded'
    <2> SUFFICES ASSUME NEW d \in Device, announced[d] # Nil
                 PROVE  \/ Lost(d)' \/ Says(d, announced[d])'
                        \/ \E b \in Actor, n \in Name \cup {Nil} : Recorder(b, d, n)'
      BY <1>1 DEF Recorded
    <2>1. Says(d, announced[d]) => Says(d, announced[d])'
      BY <1>1 DEF Says
    <2> QED BY <1>2, <1>3, <1>4, <1>7, <2>1 DEF Recorded
  <1>10. CASE RunStops
    <2>1. ToSet(todo'["loop"]) = {PublishOp(Status, "offline")} /\ queue' = queue
      BY <1>10, RunStopsTyped, SetsOfShort
    <2>2. \A d, n : /\ ~HoldsName("loop", d, n)'
                    /\ ~WillName("loop", d, n)
      BY <1>5, <2>1 DEF HoldsName, WillName, Names, PublishOp
    <2>3. \A d \in Device : RenamePending(d)' <=> RenamePending(d)
      BY <2>1 DEF RenamePending
    <2>4. Agreed'
      BY <1>2, <1>4, <2>2 DEF Agreed
    <2>5. UpToDate'
      BY <1>1, <1>2, <1>4, <2>2, <2>3 DEF UpToDate
    <2>6. SnapshotPending => SnapshotPending'
      BY <1>1, <1>5 DEF SnapshotPending, OnlyTodo
    <2>7. Followed'
      <3> SUFFICES ASSUME sess = "reading", NEW d \in Device, InUse(d)
                   PROVE  \/ SnapshotPending' \/ RenamePending(d)'
                          \/ Lost(d)' \/ Says(d, lamp[d].name)'
                          \/ \E b \in Actor : WillName(b, d, lamp[d].name)'
        BY <1>1, <1>3 DEF Followed
      <3>1. Says(d, lamp[d].name) => Says(d, lamp[d].name)'
        BY <1>1 DEF Says
      <3>2. \A b \in Actor : WillName(b, d, lamp[d].name) => WillName(b, d, lamp[d].name)'
        BY <1>1, <2>2 DEF WillName, OnlyTodo
      <3> QED BY <1>2, <1>3, <2>3, <2>6, <3>1, <3>2 DEF Followed
    <2> QED BY <1>8, <1>9, <2>4, <2>5, <2>7
  <1>11. CASE Handle
    <2>1. PICK e \in Event :
            /\ ToSet(queue) = {e} \cup ToSet(queue')
            /\ todo'["loop"] = Publications(e.kind, e.dev, lamp[e.dev])
            /\ overtaken' = (overtaken \/ Overtakes("loop", e.dev))
      BY <1>11, HandleTyped
    <2>2. PICK d \in Device : d = e.dev
      BY DEF Event
    <2>3. e.kind \in Kind /\ lamp[d] \in Lamp
      BY DEF Event, TypeOK, LampTypeOK
    <2>4. /\ \A o \in ToSet(todo'["loop"]) : o.op # "publish" => o = AnnounceOp(d, lamp[d])
          /\ e.kind = "Renamed" => AnnounceOp(d, lamp[d]) \in ToSet(todo'["loop"])
      <3>1. /\ PublishState(d, lamp[d]).op = "publish"
            /\ \A v : PublishAvailability(d, v).op = "publish"
        BY DEF PublishState, PublishAvailability, PublishOp
      <3>2. e.kind \in {"Discovered", "Connected", "Disconnected", "StateChanged", "Renamed"}
        BY <2>3 DEF Kind
      <3> QED BY <2>1, <2>2, <2>3, <3>1, <3>2, PublicationsAre
    <2>5. \A x, n : HoldsName("loop", x, n)' => x = d /\ n = lamp[d].name
      BY <2>4 DEF HoldsName, Names, AnnounceOp
    <2>6. \A b \in Actor \ {"loop"} : \A n : HoldsName(b, d, n) => n = lamp[d].name
      <3> SUFFICES ASSUME NEW b \in Actor \ {"loop"}, NEW n, HoldsName(b, d, n)
                   PROVE  n = lamp[d].name
        OBVIOUS
      <3>1. n \in Holds(b, d)
        BY HoldsAre
      <3>2. ~Overtakes("loop", d)
        BY <2>1, <2>2
      <3> QED BY <3>1, <3>2 DEF Overtakes
    <2>7. Agreed'
      BY <1>2, <1>4, <2>5, <2>6 DEF Agreed
    <2>8. \A x \in Device \ {d} : RenamePending(x) => RenamePending(x)'
      BY <2>1, <2>2 DEF RenamePending
    <2>9. UpToDate'
      <3> SUFFICES ASSUME NEW b \in Actor, NEW x \in Device, NEW n \in Name \cup {Nil},
                          HoldsName(b, x, n)'
                   PROVE  n = lamp[x].name \/ RenamePending(x)'
        BY <1>1 DEF UpToDate
      <3> QED BY <1>2, <1>4, <2>5, <2>6, <2>8 DEF UpToDate
    <2>10. SnapshotPending => SnapshotPending'
      BY <1>1, <1>5 DEF SnapshotPending, OnlyTodo
    <2>11. Followed'
      <3> SUFFICES ASSUME sess = "reading", NEW x \in Device, InUse(x)
                   PROVE  \/ SnapshotPending' \/ RenamePending(x)'
                          \/ Lost(x)' \/ Says(x, lamp[x].name)'
                          \/ \E b \in Actor : WillName(b, x, lamp[x].name)'
        BY <1>1, <1>3 DEF Followed
      <3>1. Says(x, lamp[x].name) => Says(x, lamp[x].name)'
        BY <1>1 DEF Says
      <3>2. \A b \in Actor : WillName(b, x, lamp[x].name) => WillName(b, x, lamp[x].name)'
        BY <1>1, <1>5 DEF WillName, OnlyTodo
      <3>3. RenamePending(x) =>
              RenamePending(x)' \/ \E b \in Actor : WillName(b, x, lamp[x].name)'
        <4>1. CASE x # d
          BY <2>8, <4>1
        <4>2. CASE x = d /\ e.kind # "Renamed"
          BY <2>1, <4>2 DEF RenamePending
        <4>3. CASE x = d /\ e.kind = "Renamed"
          <5>1. AnnounceOp(d, lamp[d]) \in ToSet(todo'["loop"])
            BY <2>4, <4>3
          <5>2. /\ Names(AnnounceOp(d, lamp[d]), d, lamp[d].name)
                /\ AnnounceOp(d, lamp[d]).lamp = lamp[d] /\ Adopted(lamp[d])
            BY <4>3 DEF Names, AnnounceOp, Adopted, InUse
          <5>3. PICK o \in ToSet(todo'["loop"]) : Names(o, d, lamp'[d].name) /\ Adopted(o.lamp)
            BY <1>1, <5>1, <5>2
          <5>4. WillName("loop", x, lamp[x].name)'
            BY <4>3, <5>3 DEF WillName
          <5> QED BY <1>1, <5>4
        <4> QED BY <4>1, <4>2, <4>3
      <3> QED BY <1>2, <1>3, <2>10, <3>1, <3>2, <3>3 DEF Followed
    <2> QED BY <1>8, <1>9, <2>7, <2>9, <2>11
  <1> QED BY <1>10, <1>11

(* A lamp's life goes on.                                                  *)
LEMMA LampKeepsNames ==
  ASSUME TypeOK, NamesInv, NEW d \in Device, LampStep(d), ~overtaken
  PROVE  Agreed' /\ UpToDate' /\ ToRecord' /\ Recorded' /\ Followed'
  <1>1. UNCHANGED <<retained, lost, sess, announced, todo>>
    BY LampTypedStep DEF clientVars, bridgeVars
  <1>2. Named /\ Agreed /\ UpToDate /\ ToRecord /\ Recorded /\ Followed
    BY DEF NamesInv
  <1>3. \A x \in Device : RenamePending(x) => RenamePending(x)'
    <2>1. ToSet(queue) \subseteq ToSet(queue')
      BY LampSteps, OfferSets DEF SaysWord
    <2> QED BY <2>1 DEF RenamePending
  <1>4. \A x \in Device : \/ RenamePending(x)'
                          \/ lamp'[x].name = lamp[x].name /\ (InUse(x)' => InUse(x))
    <2>1. CASE Offers("Renamed", d)
      <3>1. [kind |-> "Renamed", dev |-> d] \in ToSet(queue')
        BY <2>1, OfferSets DEF Kind
      <3>2. RenamePending(d)'
        BY <3>1 DEF RenamePending
      <3> QED BY <3>2, LampSteps DEF InUse
    <2>2. CASE ~Offers("Renamed", d)
      BY <2>2, LampSteps DEF InUse
    <2> QED BY <2>1, <2>2
  <1>5. \A b \in Actor : \A x, n : /\ HoldsName(b, x, n)' <=> HoldsName(b, x, n)
                                   /\ Recorder(b, x, n)' <=> Recorder(b, x, n)
                                   /\ WillName(b, x, n)' <=> WillName(b, x, n)
    BY <1>1 DEF HoldsName, Recorder, WillName
  <1>6. \A x \in Device : /\ Lost(x)' <=> Lost(x)
                          /\ \A n : Says(x, n)' <=> Says(x, n)
    BY <1>1 DEF Lost, Says
  <1>7. Agreed' /\ ToRecord'
    BY <1>2, <1>5, <1>6 DEF Agreed, ToRecord
  <1>8. UpToDate'
    BY <1>2, <1>3, <1>4, <1>5 DEF UpToDate
  <1>9. Recorded'
    <2> SUFFICES ASSUME NEW x \in Device, announced[x] # Nil
                 PROVE  \/ Lost(x)' \/ Says(x, announced[x])'
                        \/ \E b \in Actor, n \in Name \cup {Nil} : Recorder(b, x, n)'
      BY <1>1 DEF Recorded
    <2>1. Says(x, announced[x]) => Says(x, announced[x])'
      BY <1>1 DEF Says
    <2> QED BY <1>2, <1>5, <1>6, <2>1 DEF Recorded
  <1>10. Followed'
    <2> SUFFICES ASSUME sess = "reading", NEW x \in Device, InUse(x)'
                 PROVE  \/ SnapshotPending' \/ RenamePending(x)'
                        \/ Lost(x)' \/ Says(x, lamp[x].name)'
                        \/ \E b \in Actor : WillName(b, x, lamp[x].name)'
      BY <1>1 DEF Followed
    <2>1. CASE RenamePending(x)'
      BY <2>1
    <2>2. CASE lamp'[x].name = lamp[x].name /\ InUse(x)
      <3>1. SnapshotPending => SnapshotPending'
        BY <1>1 DEF SnapshotPending
      <3>2. Says(x, lamp[x].name) => Says(x, lamp[x].name)'
        BY <1>1, <2>2 DEF Says
      <3>3. \A b \in Actor : WillName(b, x, lamp[x].name) => WillName(b, x, lamp[x].name)'
        BY <1>1, <2>2 DEF WillName
      <3> QED BY <1>2, <1>3, <1>6, <2>2, <3>1, <3>2, <3>3 DEF Followed
    <2> QED BY <1>4, <2>1, <2>2
  <1> QED BY <1>7, <1>8, <1>9, <1>10

LEMMA StepNames ==
  ASSUME TypeOK, Shaped, NamesInv, [Next]_vars
  PROVE  NamesInv'
  <1> DEFINE Goal == Agreed' /\ UpToDate' /\ ToRecord' /\ Recorded' /\ Followed'
  <1>1. Named /\ TypeOK'
    BY StepTyped DEF NamesInv
  <1>2. ASSUME lamp' = lamp PROVE Named'
    BY <1>1, <1>2 DEF Named, InUse
  <1>3. SUFFICES Named' /\ (~overtaken' => Goal)
    BY DEF NamesInv
  <1>4. ASSUME NEW a \in Actor, Work(a) PROVE Named' /\ (~overtaken' => Goal)
    <2>1. PICK h \in Op, r \in Seq(Op) :
            /\ h = Head(todo[a]) /\ r = Tail(todo[a])
            /\ ToSet(todo[a]) = {h} \cup ToSet(r)
            /\ WorksOn(a, h, r)
      BY <1>4, WorkSteps
    <2>2. Named'
      BY <1>2, <1>4, WorkTyped DEF lampVars
    <2>3. CASE Surveys(a, h, r)
      BY <1>4, <2>1, <2>2, <2>3, SurveyKeepsNames
    <2>4. CASE ~Surveys(a, h, r)
      <3>1. overtaken' = overtaken
        BY <2>1, <2>4 DEF WorksOn, Skips, Prepares, Records, Configures, Tells, Subscribes
      <3> QED BY <1>4, <2>1, <2>2, <2>4, <3>1, WorkKeepsNames
    <2> QED BY <2>3, <2>4
  <1>5. ASSUME NEW h \in Hook, StartSession(h) PROVE Named' /\ (~overtaken' => Goal)
    <2>1. lamp' = lamp /\ overtaken' = overtaken
      BY <1>5, StartSessionTyped DEF lampVars
    <2> QED BY <1>2, <1>5, <2>1, StartKeepsNames
  <1>6. CASE (ClientStep \/ Stop) /\ UNCHANGED <<lampVars, queue, bridgeVars>>
    <2>1. lamp' = lamp /\ overtaken' = overtaken
      BY <1>6 DEF lampVars, bridgeVars
    <2> QED BY <1>2, <1>6, <2>1, ClientKeepsNames
  <1>7. CASE Handle \/ RunStops
    <2>1. lamp' = lamp
      BY <1>7, HandleTyped, RunStopsTyped DEF lampVars
    <2> QED BY <1>2, <1>7, <2>1, LoopKeepsNames
  <1>8. ASSUME NEW d \in Device, LampStep(d) PROVE Named' /\ (~overtaken' => Goal)
    <2>1. overtaken' = overtaken
      BY <1>8, LampTypedStep DEF bridgeVars
    <2>2. \A x \in Device : \/ lamp'[x].name \in Name
                            \/ lamp'[x].name = lamp[x].name /\ (InUse(x)' => InUse(x))
      BY <1>8, LampSteps DEF InUse
    <2>3. Named'
      BY <1>1, <2>2, BridgeAssumption DEF Named
    <2> QED BY <1>8, <2>1, <2>3, LampKeepsNames
  <1>9. CASE UNCHANGED vars
    <2>1. UNCHANGED <<lamp, queue, todo, retained, lost, sess, announced, overtaken>>
      BY <1>9 DEF vars, lampVars, clientVars, bridgeVars
    <2> QED BY <2>1 DEF NamesInv, Named, InUse, Agreed, UpToDate, ToRecord, Recorded, Followed,
                        HoldsName, RenamePending, Recorder, Lost, Says, SnapshotPending, WillName
  <1> QED BY <1>4, <1>5, <1>6, <1>7, <1>8, <1>9 DEF Next, Stop

(* When everything has come to rest, Home Assistant has every lamp in use  *)
(* under its current name, over any number of connections, renamings and   *)
(* failed writes: but where the last message of the topic never arrived,   *)
(* or OnConnect and the loop were at work on two names of it at once       *)
(* (bridge.announce, which records a name only after its write).           *)
THEOREM ConfigAlwaysFollows == Spec => []ConfigFollows
  <1> DEFINE Inv == TypeOK /\ Shaped /\ NamesInv
  <1>1. Init => Inv
    BY InitTyped, InitShaped, InitNames
  <1>2. Inv /\ [Next]_vars => Inv'
    BY StepTyped, StepShaped, StepNames
  <1>3. Inv => ConfigFollows
    <2> SUFFICES ASSUME Inv, Quiet, sess = "reading", ~overtaken, NEW d \in Device,
                        lamp[d].status \notin {"Absent", "Discovered"},
                        ConfigTopic(d) \notin lost
                 PROVE  retained[ConfigTopic(d)] # Nil
                        /\ retained[ConfigTopic(d)].name = lamp[d].name
      BY DEF ConfigFollows
    <2>1. \A a \in Actor : ToSet(todo[a]) = {}
      BY SetsOfShort DEF Quiet
    <2>2. ToSet(queue) = {}
      BY SetsOfShort DEF Quiet
    <2>3. ~SnapshotPending /\ ~RenamePending(d) /\ \A a \in Actor : ~WillName(a, d, lamp[d].name)
      BY <2>1, <2>2 DEF SnapshotPending, RenamePending, WillName
    <2>4. Says(d, lamp[d].name)
      BY <2>3 DEF NamesInv, Followed, InUse, Lost
    <2> QED BY <2>4 DEF Says
  <1> QED BY <1>1, <1>2, <1>3, PTL DEF Spec

-----------------------------------------------------------------------------
(* What is said of a lamp follows the lamp.  Its topics but the discovery  *)
(* message are the loop's: goroutine a is about to publish v on t.         *)
Pending(a, t, v) == PublishOp(t, v) \in ToSet(todo[a])

LampTopic(t) == \E d \in Device : t \in {StateTopic(d), AvailabilityTopic(d)}

OnlyLoopTells == \A a \in Hook : \A t, v : LampTopic(t) => ~Pending(a, t, v)

LEMMA LampTopics ==
  \A t : LampTopic(t) => t \in Topic /\ t # Status /\ \A d \in Device : t # ConfigTopic(d)
  BY Topics DEF LampTopic

(* A goroutine's step adds no such publication.                            *)
LEMMA NothingAdded ==
  ASSUME TypeOK, NEW a \in Actor, NEW h \in Op, NEW r \in Seq(Op),
         ToSet(todo[a]) = {h} \cup ToSet(r), WorksOn(a, h, r), OnlyTodo(a),
         NEW t, LampTopic(t), NEW v, NEW b \in Actor, Pending(b, t, v)'
  PROVE  Pending(b, t, v)
  <1> DEFINE o == PublishOp(t, v)
  <1>1. o.op = "publish" /\ o.topic = t /\ o \in ToSet(todo'[b])
    BY DEF PublishOp, Pending
  <1> HIDE DEF o
  <1>2. CASE b # a
    BY <1>1, <1>2 DEF OnlyTodo, Pending, o
  <1>3. CASE b = a
    <2>1. CASE Prepares(a, h, r)
      <3>1. h.dev \in Device
        BY <2>1, OpsByKind DEF Prepares
      <3>2. /\ o # PublishOp(ConfigTopic(h.dev), Discovery(h.lamp))
            /\ o # RecordOp(h.dev, h.lamp.name)
        BY <1>1, <3>1, LampTopics DEF PublishOp, RecordOp
      <3> QED BY <1>1, <1>3, <2>1, <3>2 DEF Prepares, Pending, o
    <2>2. CASE Surveys(a, h, r)
      BY <1>1, <1>3, <2>2 DEF Surveys, AnnounceOp
    <2>3. CASE Configures(a, h, r)
      <3>1. r # <<>> /\ ToSet(r) = {Head(r)} \cup ToSet(Tail(r))
        BY <2>3, SetOfTail DEF Configures, Recording
      <3> QED BY <1>1, <1>3, <2>3, <3>1 DEF Configures, Pending, o
    <2> QED BY <1>1, <1>3, <2>1, <2>2, <2>3
            DEF WorksOn, Skips, Records, Tells, Subscribes, Pending, o
  <1> QED BY <1>2, <1>3

(* ... and carries one out, loses it, or leaves everything as it is.       *)
LEMMA WorkTells ==
  ASSUME TypeOK, Shaped, OnlyLoopTells, NEW a \in Actor, NEW h \in Op, NEW r \in Seq(Op),
         ToSet(todo[a]) = {h} \cup ToSet(r), WorksOn(a, h, r), OnlyTodo(a),
         NEW t, LampTopic(t)
  PROVE  \/ t \in lost'
         \/ /\ retained'[t] = retained[t]
            /\ t \in lost' <=> t \in lost
            /\ \A v : Pending("loop", t, v) => Pending("loop", t, v)'
         \/ \E v \in Payload : Pending("loop", t, v) /\ retained'[t] = v
  <1> DEFINE Same == /\ retained'[t] = retained[t]
                     /\ t \in lost' <=> t \in lost
             Stays == \A v : Pending("loop", t, v) => Pending("loop", t, v)'
  <1>1. t \in Topic /\ t # Status /\ \A d \in Device : t # ConfigTopic(d)
    BY LampTopics
  <1>2. ASSUME h.op # "publish" \/ h.topic # t PROVE Stays
    <2> SUFFICES ASSUME NEW v, Pending("loop", t, v) PROVE Pending("loop", t, v)'
      OBVIOUS
    <2>1. CASE a # "loop"
      BY <2>1 DEF OnlyTodo, Pending, Actor
    <2>2. CASE a = "loop"
      <3>1. PublishOp(t, v).op = "publish" /\ PublishOp(t, v).topic = t
        BY DEF PublishOp
      <3>2. PublishOp(t, v) \in ToSet(r)
        BY <1>2, <2>2, <3>1 DEF Pending
      <3> QED BY <2>2, <3>1, <3>2, OpsStay DEF Pending
    <2> QED BY <2>1, <2>2
  <1>3. CASE h.op = "publish" /\ h.topic = t
    <2>1. Tells(a, h, r)
      <3>1. ~Configures(a, h, r)
        <4>1. ASSUME Configures(a, h, r) PROVE FALSE
          <5>1. Head(r).dev \in Device
            BY <4>1, SetOfTail, OpsByKind DEF Configures, Recording
          <5> QED BY <1>1, <1>3, <4>1, <5>1 DEF Configures
        <4> QED BY <4>1
      <3> QED BY <1>3, <3>1 DEF WorksOn, Skips, Prepares, Records, Subscribes, Surveys,
                                SubscribeOp, SnapshotOp
    <2>2. h.value \in Payload /\ h = PublishOp(t, h.value)
      BY <1>3, OpsByKind DEF Op, PublishOps, AnnounceOps, RecordOps, SubscribeOp, SnapshotOp, PublishOp
    <2>3. a = "loop"
      <3>1. Pending(a, t, h.value)
        BY <2>2 DEF Pending
      <3> QED BY <3>1 DEF OnlyLoopTells, Actor
    <2>4. CASE Miss(t)
      BY <1>1, <2>4 DEF Miss
    <2>5. CASE Deliver(t, h.value)
      <3>1. retained'[t] = h.value
        BY <1>1, <2>5 DEF Deliver, TypeOK, ClientTypeOK
      <3> QED BY <2>2, <2>3, <3>1 DEF Pending
    <2> QED BY <1>3, <2>1, <2>4, <2>5 DEF Tells
  <1>4. CASE h.op # "publish" \/ h.topic # t
    <2>1. ASSUME NEW u, NEW v, Deliver(u, v) \/ Miss(u), u # t PROVE Same
      BY <1>1, <2>1, OtherTopics
    <2>2. Same
      <3>1. CASE Configures(a, h, r) \/ Tells(a, h, r)
        BY <1>4, <2>1, <3>1 DEF Configures, Tells
      <3>2. CASE Subscribes(a, h, r)
        BY <3>2 DEF Subscribes, SubscribeCommands
      <3> QED BY <3>1, <3>2 DEF WorksOn, Skips, Prepares, Records, Surveys, clientVars
    <2> QED BY <1>2, <1>4, <2>2
  <1> QED BY <1>3, <1>4

(* The steps of the client, of the connection and of a stop touch neither. *)
Calm ==
  /\ UNCHANGED <<lamp, said, queue, namings, reported, lost>>
  /\ \A t : LampTopic(t) => /\ retained'[t] = retained[t]
                            /\ \A a \in Actor : \A v : Pending(a, t, v)' <=> Pending(a, t, v)

LEMMA CalmSteps ==
  ASSUME TypeOK,
         \/ (ClientStep \/ Stop) /\ UNCHANGED <<lampVars, queue, bridgeVars>>
         \/ \E h \in Hook : StartSession(h)
         \/ RunStops
         \/ UNCHANGED vars
  PROVE  Calm
  <1>1. ASSUME retained' = retained \/ retained' = [retained EXCEPT ![Status] = "offline"]
        PROVE  \A t : LampTopic(t) => retained'[t] = retained[t]
    BY <1>1, LampTopics DEF TypeOK, ClientTypeOK
  <1>2. CASE (ClientStep \/ Stop) /\ UNCHANGED <<lampVars, queue, bridgeVars>>
    <2>1. /\ retained' = retained \/ retained' = [retained EXCEPT ![Status] = "offline"]
          /\ lost' = lost
      BY <1>2 DEF ClientStep, ResubscribeFails, SessionEnds, RunReturns, AfterSession,
                  Depart, LinkDies, WillFires, brokerVars, sessionVars, Stop
    <2> QED BY <1>1, <1>2, <2>1 DEF Calm, Pending, lampVars, bridgeVars
  <1>3. ASSUME NEW a \in Actor, OnlyTodo(a), todo[a] = <<>>,
               \A o \in ToSet(todo'[a]) : o.op = "publish" => o.topic = Status
        PROVE  \A t : LampTopic(t) =>
                 \A b \in Actor : \A v : Pending(b, t, v)' <=> Pending(b, t, v)
    <2> SUFFICES ASSUME NEW t, LampTopic(t), NEW b \in Actor, NEW v
                 PROVE  Pending(b, t, v)' <=> Pending(b, t, v)
      OBVIOUS
    <2>1. CASE b # a
      BY <1>3, <2>1 DEF OnlyTodo, Pending
    <2>2. CASE b = a
      <3>1. /\ PublishOp(t, v).op = "publish" /\ PublishOp(t, v).topic = t
            /\ ToSet(todo[a]) = {}
        BY <1>3, SetsOfShort DEF PublishOp
      <3> QED BY <1>3, <2>2, <3>1, LampTopics DEF Pending
    <2> QED BY <2>1, <2>2
  <1>4. ASSUME NEW h \in Hook, StartSession(h) PROVE Calm
    <2>1. /\ h \in Actor /\ OnlyTodo(h) /\ todo[h] = <<>>
          /\ UNCHANGED <<lampVars, queue, reported>>
          /\ todo'[h] = IF sess' = "reading" THEN OnConnect ELSE <<>>
          /\ Connect \/ Resubscribe
      BY <1>4, StartSessionTyped DEF Actor
    <2>2. \A o \in ToSet(OnConnect) : o.op = "publish" => o.topic = Status
      BY SetsOfShort DEF OnConnect, PublishOp, SubscribeOp, SnapshotOp
    <2>3. \A o \in ToSet(todo'[h]) : o.op = "publish" => o.topic = Status
      BY <2>1, <2>2, SetsOfShort
    <2>4. /\ retained' = retained \/ retained' = [retained EXCEPT ![Status] = "offline"]
          /\ lost' = lost
      BY <2>1 DEF Connect, Handshake, Resubscribe
    <2> QED BY <1>1, <1>3, <2>1, <2>3, <2>4 DEF Calm, lampVars
  <1>5. CASE RunStops
    <2>1. /\ "loop" \in Actor /\ OnlyTodo("loop") /\ todo["loop"] = <<>>
          /\ UNCHANGED <<clientVars, lampVars, queue, reported>>
          /\ todo'["loop"] = <<PublishOp(Status, "offline")>>
      BY <1>5, RunStopsTyped DEF Actor
    <2>2. \A o \in ToSet(todo'["loop"]) : o.op = "publish" => o.topic = Status
      BY <2>1, SetsOfShort DEF PublishOp
    <2> QED BY <1>1, <1>3, <2>1, <2>2 DEF Calm, lampVars, clientVars
  <1>6. CASE UNCHANGED vars
    BY <1>6 DEF vars, lampVars, clientVars, bridgeVars, Calm, Pending
  <1> QED BY <1>2, <1>4, <1>5, <1>6

(* What the loop is about to say of the lamps after it took up an event.   *)
LEMMA HandleTells ==
  ASSUME TypeOK, Handle
  PROVE  \E k \in Kind, d \in Device :
           /\ queue # <<>> /\ Head(queue) = [kind |-> k, dev |-> d] /\ queue' = Tail(queue)
           /\ ToSet(queue) = {[kind |-> k, dev |-> d]} \cup ToSet(queue')
           /\ UNCHANGED <<lamp, said, namings, retained, lost>>
           /\ reported' = ReportedAfter(k, d)
           /\ \A a \in Hook : \A t, v : Pending(a, t, v)' <=> Pending(a, t, v)
           /\ \A t, v : ~Pending("loop", t, v)
           /\ \A e : \A v : Pending("loop", StateTopic(e), v)' =>
                              e = d /\ v = StatePayload(lamp[d])
           /\ k = "StateChanged" => Pending("loop", StateTopic(d), StatePayload(lamp[d]))'
           /\ k # "Renamed" =>
                \A e : \A v : Pending("loop", AvailabilityTopic(e), v)' =>
                  /\ e = d
                  /\ \/ k = "StateChanged" /\ v = "online"
                     \/ k = "Disconnected" /\ v = "offline"
           /\ k = "StateChanged" /\ d \notin reported =>
                Pending("loop", AvailabilityTopic(d), "online")'
           /\ k = "Disconnected" => Pending("loop", AvailabilityTopic(d), "offline")'
  <1>1. PICK e \in Event :
          /\ e = Head(queue) /\ queue' = Tail(queue)
          /\ ToSet(queue) = {e} \cup ToSet(queue')
          /\ todo'["loop"] = Publications(e.kind, e.dev, lamp[e.dev])
          /\ reported' = ReportedAfter(e.kind, e.dev)
    BY HandleTyped
  <1>2. PICK k \in Kind, d \in Device : e = [kind |-> k, dev |-> d]
    BY DEF Event
  <1> DEFINE l == lamp[d]
  <1>3. l \in Lamp /\ e.kind = k /\ e.dev = d
    BY <1>2 DEF TypeOK, LampTypeOK
  <1>4. ToSet(todo'["loop"]) = ToSet(Publications(k, d, l))
    BY <1>1, <1>3
  <1>5. /\ \A v : /\ PublishOp(StateTopic(d), v) # AnnounceOp(d, l)
                  /\ PublishOp(AvailabilityTopic(d), v) # AnnounceOp(d, l)
        /\ \A t, v, u, w : PublishOp(t, v) = PublishOp(u, w) <=> t = u /\ v = w
        /\ \A t, v : PublishOp(t, v) # AnnounceOp(d, l)
    BY DEF PublishOp, AnnounceOp
  <1>6. k \in {"Discovered", "Connected", "Disconnected", "StateChanged", "Renamed"}
    BY DEF Kind
  <1>7. \A v : v \in ToSet(todo'["loop"]) =>
          \/ v = AnnounceOp(d, l)
          \/ v = PublishState(d, l) /\ k \in {"StateChanged", "Renamed"}
          \/ v = PublishAvailability(d, "online") /\ k = "StateChanged"
          \/ v = PublishAvailability(d, "offline") /\ k = "Disconnected"
          \/ v = PublishAvailability(d, Availability(l)) /\ k = "Renamed"
    BY <1>3, <1>4, <1>6, PublicationsAre
  <1>8. /\ k = "StateChanged" => PublishState(d, l) \in ToSet(todo'["loop"])
        /\ k = "StateChanged" /\ d \notin reported =>
             PublishAvailability(d, "online") \in ToSet(todo'["loop"])
        /\ k = "Disconnected" => PublishAvailability(d, "offline") \in ToSet(todo'["loop"])
    BY <1>3, <1>4, PublicationsAre
  <1>9. \A e1, e2 : /\ StateTopic(e1) = StateTopic(e2) => e1 = e2
                    /\ AvailabilityTopic(e1) = AvailabilityTopic(e2) => e1 = e2
                    /\ StateTopic(e1) # AvailabilityTopic(e2)
    BY Topics
  <1> HIDE DEF l
  <1>10. ASSUME NEW x, NEW v, PublishOp(StateTopic(x), v) \in ToSet(todo'["loop"])
         PROVE  x = d /\ v = StatePayload(l)
    BY <1>5, <1>7, <1>9, <1>10 DEF PublishState, PublishAvailability
  <1>11. ASSUME k # "Renamed", NEW x, NEW v,
                PublishOp(AvailabilityTopic(x), v) \in ToSet(todo'["loop"])
         PROVE  /\ x = d
                /\ \/ k = "StateChanged" /\ v = "online"
                   \/ k = "Disconnected" /\ v = "offline"
    BY <1>5, <1>7, <1>9, <1>11 DEF PublishState, PublishAvailability
  <1>12. /\ UNCHANGED <<lamp, said, namings, retained, lost>>
         /\ OnlyTodo("loop") /\ todo["loop"] = <<>> /\ queue # <<>>
    BY HandleTyped DEF lampVars, clientVars, Handle
  <1>13. /\ \A a \in Hook : \A t, v : Pending(a, t, v)' <=> Pending(a, t, v)
         /\ \A t, v : ~Pending("loop", t, v)
    BY <1>12, SetsOfShort, BridgeAssumption DEF OnlyTodo, Pending, Actor
  <1>14. StatePayload(l) = StatePayload(lamp[d])
    BY DEF l
  <1>15. /\ queue # <<>> /\ Head(queue) = [kind |-> k, dev |-> d] /\ queue' = Tail(queue)
         /\ ToSet(queue) = {[kind |-> k, dev |-> d]} \cup ToSet(queue')
         /\ reported' = ReportedAfter(k, d)
    BY <1>1, <1>2, <1>3, <1>12
  <1>16. \A x : \A v : Pending("loop", StateTopic(x), v)' => x = d /\ v = StatePayload(lamp[d])
    BY <1>10, <1>14 DEF Pending
  <1>17. k # "Renamed" =>
           \A x : \A v : Pending("loop", AvailabilityTopic(x), v)' =>
             /\ x = d
             /\ \/ k = "StateChanged" /\ v = "online"
                \/ k = "Disconnected" /\ v = "offline"
    BY <1>11 DEF Pending
  <1>18. k = "StateChanged" => Pending("loop", StateTopic(d), StatePayload(lamp[d]))'
    <2> SUFFICES ASSUME k = "StateChanged"
                 PROVE  Pending("loop", StateTopic(d), StatePayload(lamp[d]))'
      OBVIOUS
    <2>1. PICK v : v = StatePayload(lamp[d])
      OBVIOUS
    <2>2. v = StatePayload(lamp[d])'
      BY <1>12, <2>1 DEF StatePayload, ClaimsWarmth
    <2>3. PublishOp(StateTopic(d), v) \in ToSet(todo'["loop"])
      BY <1>8, <1>14, <2>1 DEF PublishState
    <2> QED BY <2>2, <2>3 DEF Pending
  <1>19. /\ k = "StateChanged" /\ d \notin reported =>
              Pending("loop", AvailabilityTopic(d), "online")'
         /\ k = "Disconnected" => Pending("loop", AvailabilityTopic(d), "offline")'
    BY <1>8 DEF Pending, PublishAvailability
  <1> QED BY <1>12, <1>13, <1>15, <1>16, <1>17, <1>18, <1>19, Zenon

Queued(k, d) == [kind |-> k, dev |-> d] \in ToSet(queue)

(* What the loop is about to say of a lamp's state is the state, unless it *)
(* is still to hear of a change, and what the broker retains is the state  *)
(* unless the loop is still to say it or its message was lost.             *)
TellsState(d) ==
  /\ \A v \in Payload : Pending("loop", StateTopic(d), v) =>
       v.state = lamp[d].state \/ Queued("StateChanged", d)
  /\ d \in reported =>
       \/ Queued("StateChanged", d)
       \/ \E v \in Payload : Pending("loop", StateTopic(d), v)
       \/ StateTopic(d) \in lost
       \/ retained[StateTopic(d)] # Nil /\ retained[StateTopic(d)].state = lamp[d].state

(* As long as no lamp is renamed its availability is whether it reported.  *)
Available(d) == IF d \in reported THEN "online" ELSE "offline"

TellsAvailability(d) ==
  /\ \A v \in Payload : Pending("loop", AvailabilityTopic(d), v) => v = Available(d)
  /\ \/ \E v \in Payload : Pending("loop", AvailabilityTopic(d), v)
     \/ AvailabilityTopic(d) \in lost
     \/ retained[AvailabilityTopic(d)] = "online" <=> d \in reported

(* The last word of a lamp's sessions is the last that the loop is to hear *)
(* of them, or it has heard it.                                            *)
WillHear(d) ==
  /\ said[d] \in Words
  /\ \E i \in 1..Len(queue) :
       /\ queue[i] = [kind |-> said[d], dev |-> d]
       /\ \A j \in 1..Len(queue) : j > i => \A w \in Words : queue[j] # [kind |-> w, dev |-> d]

HasHeard(d) ==
  /\ \A w \in Words : ~Queued(w, d)
  /\ d \in reported <=> said[d] = "StateChanged"

Hears(d) == WillHear(d) \/ HasHeard(d)

FollowInv ==
  /\ OnlyLoopTells
  /\ \A d \in Device : TellsState(d) /\ Hears(d)
  /\ namings = 0 => /\ \A d \in Device : TellsAvailability(d)
                    /\ \A d \in Device : ~Queued("Renamed", d)

LEMMA InitFollows == Init => FollowInv
  <1> SUFFICES ASSUME Init PROVE FollowInv
    OBVIOUS
  <1>1. \A a \in Actor : \A t, v : ~Pending(a, t, v)
    <2> SUFFICES ASSUME NEW a \in Actor, NEW t, NEW v PROVE ~Pending(a, t, v)
      OBVIOUS
    <2>1. todo[a] = <<SubscribeOp>> \/ todo[a] = <<>>
      BY DEF Init
    <2>2. ToSet(todo[a]) \subseteq {SubscribeOp}
      BY <2>1, SetsOfShort
    <2>3. PublishOp(t, v) # SubscribeOp
      BY DEF PublishOp, SubscribeOp
    <2> QED BY <2>2, <2>3 DEF Pending
  <1>2. "loop" \in Actor /\ Hook \subseteq Actor
    BY DEF Actor
  <1>3. OnlyLoopTells
    BY <1>1, <1>2 DEF OnlyLoopTells
  <1>4. \A k, d : ~Queued(k, d)
    BY SetsOfShort DEF Init, Queued
  <1>5. \A d \in Device : said[d] = "nothing" /\ d \notin reported
    BY DEF Init
  <1>6. \A d \in Device : TellsState(d) /\ Hears(d)
    BY <1>1, <1>2, <1>4, <1>5 DEF TellsState, Hears, HasHeard
  <1>7. \A d \in Device : TellsAvailability(d)
    <2>1. \A d \in Device : retained[AvailabilityTopic(d)] = Nil
      BY Topics DEF Init, ClientInit
    <2>2. Nil # "online"
      BY BridgeAssumption DEF Payload
    <2> QED BY <1>1, <1>2, <1>5, <2>1, <2>2 DEF TellsAvailability
  <1> QED BY <1>3, <1>4, <1>6, <1>7 DEF FollowInv

LEMMA CalmFollows ==
  ASSUME Calm, FollowInv
  PROVE  FollowInv'
  <1>1. /\ UNCHANGED <<lamp, said, queue, namings, reported, lost>>
        /\ \A t : LampTopic(t) => /\ retained'[t] = retained[t]
                                  /\ \A a \in Actor : \A v : Pending(a, t, v)' <=> Pending(a, t, v)
    BY DEF Calm
  <1>2. "loop" \in Actor /\ Hook \subseteq Actor
    BY DEF Actor
  <1>3. OnlyLoopTells'
    BY <1>1, <1>2 DEF FollowInv, OnlyLoopTells, LampTopic
  <1>4. \A k, d : Queued(k, d)' <=> Queued(k, d)
    BY <1>1 DEF Queued
  <1>5. \A d \in Device : /\ LampTopic(StateTopic(d)) /\ LampTopic(AvailabilityTopic(d))
    BY DEF LampTopic
  <1>6. ASSUME NEW d \in Device PROVE TellsState(d)' /\ Hears(d)'
    <2>1. WillHear(d)' <=> WillHear(d)
      BY <1>1 DEF WillHear
    <2>2. Hears(d)'
      BY <1>1, <1>4, <2>1 DEF FollowInv, Hears, HasHeard
    <2>3. TellsState(d)
      BY DEF FollowInv
    <2>4. /\ retained'[StateTopic(d)] = retained[StateTopic(d)]
          /\ \A v : Pending("loop", StateTopic(d), v)' <=> Pending("loop", StateTopic(d), v)
      BY <1>1, <1>2, <1>5
    <2>5. TellsState(d)'
      BY <1>1, <1>4, <2>3, <2>4 DEF TellsState
    <2> QED BY <2>2, <2>5
  <1>7. ASSUME namings = 0, NEW d \in Device PROVE TellsAvailability(d)'
    <2>1. TellsAvailability(d)
      BY <1>7 DEF FollowInv
    <2>2. /\ retained'[AvailabilityTopic(d)] = retained[AvailabilityTopic(d)]
          /\ \A v : Pending("loop", AvailabilityTopic(d), v)' <=> Pending("loop", AvailabilityTopic(d), v)
      BY <1>1, <1>2, <1>5
    <2> QED BY <1>1, <2>1, <2>2 DEF TellsAvailability, Available
  <1> QED BY <1>1, <1>3, <1>4, <1>6, <1>7 DEF FollowInv

LEMMA WorkFollows ==
  ASSUME TypeOK, Shaped, FollowInv, NEW a \in Actor, Work(a)
  PROVE  FollowInv'
  <1>1. PICK h \in Op, r \in Seq(Op) : ToSet(todo[a]) = {h} \cup ToSet(r) /\ WorksOn(a, h, r)
    BY WorkSteps
  <1>2. OnlyTodo(a) /\ UNCHANGED <<lamp, said, namings, queue, reported>>
    BY WorkTyped DEF lampVars
  <1>3. /\ OnlyLoopTells
        /\ \A d \in Device : TellsState(d) /\ Hears(d)
        /\ "loop" \in Actor /\ Hook \subseteq Actor
    BY DEF FollowInv, Actor
  <1>4. \A t : LampTopic(t) => \A b \in Actor : \A v : Pending(b, t, v)' => Pending(b, t, v)
    BY <1>1, <1>2, NothingAdded
  <1>5. \A t : LampTopic(t) =>
          \/ t \in lost'
          \/ /\ retained'[t] = retained[t]
             /\ t \in lost' <=> t \in lost
             /\ \A v : Pending("loop", t, v) => Pending("loop", t, v)'
          \/ \E v \in Payload : Pending("loop", t, v) /\ retained'[t] = v
    BY <1>1, <1>2, <1>3, WorkTells
  <1>6. OnlyLoopTells'
    BY <1>3, <1>4 DEF OnlyLoopTells, LampTopic
  <1>7. \A k, d : Queued(k, d)' <=> Queued(k, d)
    BY <1>2 DEF Queued
  <1>8. ASSUME NEW d \in Device PROVE TellsState(d)' /\ Hears(d)'
    <2>1. WillHear(d)' <=> WillHear(d)
      BY <1>2 DEF WillHear
    <2>2. Hears(d)'
      BY <1>2, <1>3, <1>7, <2>1 DEF Hears, HasHeard
    <2>3. TellsState(d) /\ LampTopic(StateTopic(d)) /\ Nil \notin Payload
      BY <1>3, BridgeAssumption DEF LampTopic
    <2> DEFINE t == StateTopic(d)
    <2>4. \A v : Pending("loop", t, v)' => Pending("loop", t, v)
      BY <1>3, <1>4, <2>3
    <2>5. \/ t \in lost'
          \/ /\ retained'[t] = retained[t]
             /\ t \in lost' <=> t \in lost
             /\ \A v : Pending("loop", t, v) => Pending("loop", t, v)'
          \/ \E v \in Payload : Pending("loop", t, v) /\ retained'[t] = v
      BY <1>5, <2>3
    <2>6. TellsState(d)'
      BY <1>2, <1>7, <2>3, <2>4, <2>5 DEF TellsState
    <2> QED BY <2>2, <2>6
  <1>9. ASSUME namings = 0, NEW d \in Device PROVE TellsAvailability(d)'
    <2>1. TellsAvailability(d) /\ LampTopic(AvailabilityTopic(d))
      BY <1>9 DEF FollowInv, LampTopic
    <2> DEFINE t == AvailabilityTopic(d)
    <2>2. \A v : Pending("loop", t, v)' => Pending("loop", t, v)
      BY <1>3, <1>4, <2>1
    <2>3. \/ t \in lost'
          \/ /\ retained'[t] = retained[t]
             /\ t \in lost' <=> t \in lost
             /\ \A v : Pending("loop", t, v) => Pending("loop", t, v)'
          \/ \E v \in Payload : Pending("loop", t, v) /\ retained'[t] = v
      BY <1>5, <2>1
    <2> QED BY <1>2, <2>1, <2>2, <2>3 DEF TellsAvailability, Available
  <1> QED BY <1>2, <1>6, <1>7, <1>8, <1>9 DEF FollowInv

(* The head of the subscription is taken.                                  *)
LEMMA WordHeard ==
  ASSUME TypeOK, queue # <<>>, queue' = Tail(queue), said' = said, NEW d \in Device, WillHear(d)
  PROVE  \/ /\ Head(queue) = [kind |-> said[d], dev |-> d] /\ said[d] \in Words
            /\ \A w \in Words : ~Queued(w, d)'
         \/ WillHear(d)'
  <1> DEFINE n == Len(queue)
             Word(e) == \E w \in Words : e = [kind |-> w, dev |-> d]
  <1>1. queue \in Seq(Event)
    BY DEF TypeOK, LampTypeOK
  <1>2. /\ n \in Nat \ {0} /\ Len(queue') = n - 1 /\ DOMAIN queue' = 1..(n - 1)
        /\ \A i \in 1..(n - 1) : queue'[i] = queue[i + 1]
        /\ Head(queue) = queue[1]
    BY <1>1
  <1>3. PICK i \in 1..n : /\ queue[i] = [kind |-> said[d], dev |-> d]
                          /\ \A j \in 1..n : j > i => ~Word(queue[j])
    BY DEF WillHear
  <1>4. said[d] \in Words
    BY DEF WillHear
  <1> HIDE DEF n, Word
  <1>5. CASE i = 1
    <2>1. \A j \in 1..(n - 1) : ~Word(queue'[j])
      <3> SUFFICES ASSUME NEW j \in 1..(n - 1) PROVE ~Word(queue'[j])
        OBVIOUS
      <3>1. j + 1 \in 1..n /\ j + 1 > i
        BY <1>2, <1>5
      <3> QED BY <1>2, <1>3, <3>1
    <2>2. \A e \in ToSet(queue') : ~Word(e)
      BY <1>2, <2>1 DEF ToSet
    <2> QED BY <1>2, <1>3, <1>4, <1>5, <2>2 DEF Queued, Word
  <1>6. CASE i # 1
    <2>1. i - 1 \in 1..(n - 1) /\ (i - 1) + 1 = i
      BY <1>2, <1>6
    <2>2. queue'[i - 1] = [kind |-> said[d], dev |-> d]
      BY <1>2, <1>3, <2>1
    <2>3. \A j \in 1..(n - 1) : j > i - 1 => ~Word(queue'[j])
      <3> SUFFICES ASSUME NEW j \in 1..(n - 1), j > i - 1 PROVE ~Word(queue'[j])
        OBVIOUS
      <3>1. j + 1 \in 1..n /\ j + 1 > i
        BY <1>2, <2>1
      <3> QED BY <1>2, <1>3, <3>1
    <2> QED BY <1>2, <1>4, <2>1, <2>2, <2>3 DEF WillHear, Word
  <1> QED BY <1>5, <1>6

(* An event is offered.                                                    *)
LEMMA WordSaid ==
  ASSUME TypeOK, NEW k \in Kind, NEW e \in Device, SaysWord(k, e), NEW d \in Device
  PROVE  IF k \in Words /\ e = d THEN WillHear(d)'
                                 ELSE said'[d] = said[d] /\ (WillHear(d) => WillHear(d)')
  <1> DEFINE n == Len(queue)
             Word(x) == \E w \in Words : x = [kind |-> w, dev |-> d]
             new == [kind |-> k, dev |-> e]
  <1>1. /\ Len(queue') = n + 1 /\ n \in Nat /\ queue'[n + 1] = new
        /\ \A i \in 1..n : queue'[i] = queue[i]
    BY OfferSets DEF SaysWord
  <1>2. said'[d] = IF k \in Words /\ e = d THEN k ELSE said[d]
    BY DEF SaysWord, TypeOK, LampTypeOK
  <1>3. \A j \in 1..(n + 1) : j \in 1..n \/ j = n + 1
    BY <1>1
  <1>4. /\ n + 1 \in 1..(n + 1) /\ \A j \in 1..(n + 1) : ~(j > n + 1)
        /\ 1..n \subseteq 1..(n + 1)
    BY <1>1
  <1>5. CASE k \in Words /\ e = d
    <2>1. queue'[n + 1] = [kind |-> said'[d], dev |-> d] /\ said'[d] \in Words
      BY <1>1, <1>2, <1>5
    <2> QED BY <1>1, <1>4, <1>5, <2>1 DEF WillHear
  <1>6. ASSUME ~(k \in Words /\ e = d), WillHear(d) PROVE WillHear(d)'
    <2>1. PICK i \in 1..n : /\ queue[i] = [kind |-> said[d], dev |-> d]
                            /\ \A j \in 1..n : j > i => ~Word(queue[j])
      BY <1>6 DEF WillHear
    <2>2. ~Word(new) /\ said'[d] = said[d] /\ said[d] \in Words
      BY <1>2, <1>6 DEF WillHear
    <2> HIDE DEF n, Word, new
    <2>3. \A j \in 1..(n + 1) : j > i => ~Word(queue'[j])
      BY <1>1, <1>3, <2>1, <2>2
    <2>4. i \in 1..(n + 1) /\ queue'[i] = [kind |-> said'[d], dev |-> d]
      BY <1>1, <1>4, <2>1, <2>2
    <2> QED BY <1>1, <2>2, <2>3, <2>4 DEF WillHear, Word
  <1> QED BY <1>2, <1>5, <1>6

LEMMA HandleFollows ==
  ASSUME TypeOK, FollowInv, Handle
  PROVE  FollowInv'
  <1>1. PICK k \in Kind, d \in Device :
          /\ queue # <<>> /\ Head(queue) = [kind |-> k, dev |-> d] /\ queue' = Tail(queue)
          /\ ToSet(queue) = {[kind |-> k, dev |-> d]} \cup ToSet(queue')
          /\ UNCHANGED <<lamp, said, namings, retained, lost>>
          /\ reported' = ReportedAfter(k, d)
          /\ \A a \in Hook : \A t, v : Pending(a, t, v)' <=> Pending(a, t, v)
          /\ \A t, v : ~Pending("loop", t, v)
          /\ \A e : \A v : Pending("loop", StateTopic(e), v)' =>
                             e = d /\ v = StatePayload(lamp[d])
          /\ k = "StateChanged" => Pending("loop", StateTopic(d), StatePayload(lamp[d]))'
          /\ k # "Renamed" =>
               \A e : \A v : Pending("loop", AvailabilityTopic(e), v)' =>
                 /\ e = d
                 /\ \/ k = "StateChanged" /\ v = "online"
                    \/ k = "Disconnected" /\ v = "offline"
          /\ k = "StateChanged" /\ d \notin reported =>
               Pending("loop", AvailabilityTopic(d), "online")'
          /\ k = "Disconnected" => Pending("loop", AvailabilityTopic(d), "offline")'
    BY HandleTells
  <1>2. \A j, e : /\ Queued(j, e)' => Queued(j, e)
                  /\ Queued(j, e) => Queued(j, e)' \/ (j = k /\ e = d)
    <2> SUFFICES ASSUME NEW j, NEW e
                 PROVE  /\ Queued(j, e)' => Queued(j, e)
                        /\ Queued(j, e) => Queued(j, e)' \/ (j = k /\ e = d)
      OBVIOUS
    <2>1. [kind |-> j, dev |-> e] = [kind |-> k, dev |-> d] => j = k /\ e = d
      OBVIOUS
    <2> QED BY <1>1, <2>1 DEF Queued
  <1>3. Queued(k, d)
    BY <1>1 DEF Queued
  <1>4. \A e \in Device : /\ e # d => (e \in reported' <=> e \in reported)
                          /\ k = "StateChanged" => d \in reported'
                          /\ k = "Disconnected" => d \notin reported'
                          /\ k \notin {"StateChanged", "Disconnected"} =>
                               (d \in reported' <=> d \in reported)
    BY <1>1 DEF ReportedAfter
  <1>5. OnlyLoopTells'
    BY <1>1 DEF FollowInv, OnlyLoopTells, LampTopic
  <1>6. /\ StatePayload(lamp[d]) \in Payload /\ StatePayload(lamp[d]).state = lamp[d].state
        /\ {"online", "offline"} \subseteq Payload
    <2>1. lamp[d] \in Lamp
      BY DEF TypeOK, LampTypeOK
    <2> QED BY <2>1 DEF StatePayload, ClaimsWarmth, Lamp, Payload
  <1>7. ASSUME NEW e \in Device PROVE TellsState(e)'
    <2>1. TellsState(e)
      BY DEF FollowInv
    <2>2. \A v \in Payload : Pending("loop", StateTopic(e), v)' => v.state = lamp[e].state
      BY <1>1, <1>6
    <2>3. CASE e = d /\ k = "StateChanged"
      <3>1. Pending("loop", StateTopic(e), StatePayload(lamp[d]))'
        BY <1>1, <2>3
      <3>2. \E v \in Payload : Pending("loop", StateTopic(e), v)'
        BY <1>1, <1>6, <3>1 DEF Pending, StatePayload, ClaimsWarmth
      <3> QED BY <1>1, <2>2, <3>2 DEF TellsState
    <2>4. CASE ~(e = d /\ k = "StateChanged")
      <3>1. Queued("StateChanged", e) => Queued("StateChanged", e)'
        BY <1>2, <2>4
      <3>2. e \in reported' => e \in reported
        BY <1>4, <2>4
      <3> QED BY <1>1, <2>1, <2>2, <3>1, <3>2 DEF TellsState
    <2> QED BY <2>3, <2>4
  <1>8. ASSUME NEW e \in Device PROVE Hears(e)'
    <2>1. Hears(e)
      BY DEF FollowInv
    <2>2. CASE WillHear(e)
      <3>1. CASE WillHear(e)'
        BY <3>1 DEF Hears
      <3>2. CASE /\ Head(queue) = [kind |-> said[e], dev |-> e] /\ said[e] \in Words
                 /\ \A w \in Words : ~Queued(w, e)'
        <4>1. k = said[e] /\ d = e
          BY <1>1, <3>2
        <4>2. e \in reported' <=> said[e] = "StateChanged"
          BY <1>4, <3>2, <4>1 DEF Words
        <4> QED BY <1>1, <3>2, <4>2 DEF Hears, HasHeard
      <3> QED BY <1>1, <2>2, <3>1, <3>2, WordHeard
    <2>3. CASE HasHeard(e)
      <3>1. ~(k \in Words /\ d = e)
        BY <1>3, <2>3 DEF HasHeard
      <3>2. e \in reported' <=> e \in reported
        BY <1>4, <3>1 DEF Words
      <3> QED BY <1>1, <1>2, <2>3, <3>2 DEF Hears, HasHeard
    <2> QED BY <2>1, <2>2, <2>3 DEF Hears
  <1>9. ASSUME namings = 0 PROVE k # "Renamed" /\ \A e \in Device : ~Queued("Renamed", e)'
    BY <1>2, <1>3, <1>9 DEF FollowInv
  <1>10. ASSUME namings = 0, NEW e \in Device PROVE TellsAvailability(e)'
    <2>1. TellsAvailability(e)
      BY <1>10 DEF FollowInv
    <2>2. \A v : Pending("loop", AvailabilityTopic(e), v)' =>
                   /\ e = d
                   /\ \/ k = "StateChanged" /\ v = "online"
                      \/ k = "Disconnected" /\ v = "offline"
      BY <1>1, <1>9, <1>10
    <2>3. \A v \in Payload : Pending("loop", AvailabilityTopic(e), v)' =>
            v = (IF e \in reported' THEN "online" ELSE "offline")
      BY <1>4, <2>2
    <2>4. CASE e = d /\ (k = "Disconnected" \/ (k = "StateChanged" /\ d \notin reported))
      <3>1. \E v \in Payload : Pending("loop", AvailabilityTopic(e), v)'
        BY <1>1, <1>6, <2>4
      <3> QED BY <2>3, <3>1 DEF TellsAvailability, Available
    <2>5. CASE ~(e = d /\ (k = "Disconnected" \/ (k = "StateChanged" /\ d \notin reported)))
      <3>1. e \in reported' <=> e \in reported
        BY <1>4, <2>5
      <3> QED BY <1>1, <2>1, <2>3, <3>1 DEF TellsAvailability, Available
    <2> QED BY <2>4, <2>5
  <1> QED BY <1>1, <1>5, <1>7, <1>8, <1>9, <1>10 DEF FollowInv

LEMMA LifeFollows ==
  ASSUME TypeOK, FollowInv, NEW x \in Device, LampStep(x)
  PROVE  FollowInv'
  <1>1. UNCHANGED <<retained, lost, todo, reported>>
    BY LampTypedStep DEF clientVars, bridgeVars
  <1>2. \A a, t, v : Pending(a, t, v)' <=> Pending(a, t, v)
    BY <1>1 DEF Pending
  <1>3. OnlyLoopTells'
    BY <1>2 DEF FollowInv, OnlyLoopTells, LampTopic
  <1>4. ASSUME NEW k \in Kind, Offers(k, x)
        PROVE  \A j, d : Queued(j, d)' <=> (Queued(j, d) \/ (j = k /\ d = x))
    <2> SUFFICES ASSUME NEW j, NEW d PROVE Queued(j, d)' <=> (Queued(j, d) \/ (j = k /\ d = x))
      OBVIOUS
    <2>1. [kind |-> j, dev |-> d] = [kind |-> k, dev |-> x] <=> j = k /\ d = x
      OBVIOUS
    <2> QED BY <1>4, <2>1, OfferSets DEF Queued
  <1>5. ASSUME queue' = queue
        PROVE  \A j, d : Queued(j, d)' <=> Queued(j, d)
    BY <1>5 DEF Queued
  <1>6. queue' = queue \/ \E k \in Kind : Offers(k, x)
    BY LampSteps DEF SaysWord
  <1>7. \A j, d : Queued(j, d) => Queued(j, d)'
    BY <1>4, <1>5, <1>6
  <1>8. "StateChanged" \in Kind /\ "Renamed" \in Kind
    BY DEF Kind
  <1>9. ASSUME NEW d \in Device PROVE TellsState(d)'
    <2>1. TellsState(d)
      BY DEF FollowInv
    <2>2. lamp'[d].state = lamp[d].state \/ Queued("StateChanged", d)'
      <3>1. CASE d # x
        BY <3>1, LampSteps
      <3>2. CASE d = x
        BY <1>4, <1>8, <3>2, LampSteps
      <3> QED BY <3>1, <3>2
    <2>3. CASE Queued("StateChanged", d)'
      BY <2>3 DEF TellsState
    <2>4. CASE lamp'[d].state = lamp[d].state /\ ~Queued("StateChanged", d)'
      BY <1>1, <1>2, <1>7, <2>1, <2>4 DEF TellsState
    <2> QED BY <2>2, <2>3, <2>4
  <1>10. ASSUME NEW d \in Device PROVE Hears(d)'
    <2>1. Hears(d)
      BY DEF FollowInv
    <2>2. CASE queue' = queue /\ said' = said
      <3>1. WillHear(d)' <=> WillHear(d)
        BY <2>2 DEF WillHear
      <3> QED BY <1>1, <1>5, <2>1, <2>2, <3>1 DEF Hears, HasHeard
    <2>3. ASSUME NEW k \in Kind, SaysWord(k, x) PROVE Hears(d)'
      <3>1. CASE k \in Words /\ x = d
        BY <2>3, <3>1, WordSaid DEF Hears
      <3>2. CASE ~(k \in Words /\ x = d)
        <4>1. said'[d] = said[d] /\ (WillHear(d) => WillHear(d)')
          BY <2>3, <3>2, WordSaid
        <4>2. \A w \in Words : Queued(w, d)' => Queued(w, d)
          BY <1>4, <2>3, <3>2 DEF SaysWord
        <4> QED BY <1>1, <2>1, <4>1, <4>2 DEF Hears, HasHeard
      <3> QED BY <3>1, <3>2
    <2> QED BY <2>2, <2>3, LampSteps
  <1>11. ASSUME namings' = 0
         PROVE  /\ \A d \in Device : TellsAvailability(d)'
                /\ \A d \in Device : ~Queued("Renamed", d)'
    <2>1. namings = 0 /\ (queue' = queue \/ \E k \in Kind \ {"Renamed"} : Offers(k, x))
      BY <1>11, LampSteps
    <2>2. /\ \A d \in Device : TellsAvailability(d)
          /\ \A d \in Device : ~Queued("Renamed", d)
      BY <2>1 DEF FollowInv
    <2>3. \A d \in Device : TellsAvailability(d)'
      BY <1>1, <1>2, <2>2 DEF TellsAvailability, Available
    <2>4. \A d \in Device : ~Queued("Renamed", d)'
      BY <1>4, <1>5, <2>1, <2>2
    <2> QED BY <2>3, <2>4
  <1> QED BY <1>3, <1>9, <1>10, <1>11 DEF FollowInv

LEMMA StepFollows ==
  ASSUME TypeOK, Shaped, FollowInv, [Next]_vars
  PROVE  FollowInv'
  <1>1. CASE Calm
    BY <1>1, CalmFollows
  <1>2. CASE \/ (ClientStep \/ Stop) /\ UNCHANGED <<lampVars, queue, bridgeVars>>
             \/ \E h \in Hook : StartSession(h)
             \/ RunStops
             \/ UNCHANGED vars
    BY <1>1, <1>2, CalmSteps
  <1>3. CASE \E a \in Actor : Work(a)
    BY <1>3, WorkFollows
  <1>4. CASE Handle
    BY <1>4, HandleFollows
  <1>5. CASE \E d \in Device : LampStep(d)
    BY <1>5, LifeFollows
  <1> QED BY <1>2, <1>3, <1>4, <1>5 DEF Next, Stop

(* When everything has come to rest, the retained state of a lamp that has *)
(* reported is its state, and (while no lamp is renamed) it is available   *)
(* if and only if the last word of its sessions, be it a replaced one, was *)
(* a report and not its end (bridge.handle): but where the last message of *)
(* the topic never arrived.                                                *)
THEOREM LampAlwaysFollows == Spec => []LampFollows
  <1> DEFINE Inv == TypeOK /\ Shaped /\ FollowInv
  <1>1. Init => Inv
    BY InitTyped, InitShaped, InitFollows
  <1>2. Inv /\ [Next]_vars => Inv'
    BY StepTyped, StepShaped, StepFollows
  <1>3. Inv => LampFollows
    <2> SUFFICES ASSUME Inv PROVE LampFollows
      OBVIOUS
    <2>1. Quiet => /\ \A d, t, v : ~Pending("loop", t, v)
                   /\ \A k, d : ~Queued(k, d)
                   /\ \A d : ~WillHear(d)
      <3> SUFFICES ASSUME Quiet
                   PROVE  /\ \A d, t, v : ~Pending("loop", t, v)
                          /\ \A k, d : ~Queued(k, d)
                          /\ \A d : ~WillHear(d)
        OBVIOUS
      <3>1. todo["loop"] = <<>> /\ queue = <<>>
        BY DEF Quiet, Actor
      <3>2. Len(queue) = 0
        BY <3>1
      <3> QED BY <3>1, <3>2, SetsOfShort DEF Pending, Queued, WillHear
    <2>2. StateFollows
      BY <2>1 DEF StateFollows, FollowInv, TellsState, TypeOK, LoopTypeOK
    <2>3. Quiet => \A d \in Device : d \in reported <=> said[d] = "StateChanged"
      BY <2>1 DEF FollowInv, Hears, HasHeard
    <2>4. AvailabilityFollows
      BY <2>1, <2>3 DEF AvailabilityFollows, FollowInv, TellsAvailability
    <2> QED BY <2>2, <2>4 DEF LampFollows
  <1> QED BY <1>1, <1>2, <1>3, PTL DEF Spec

=============================================================================
