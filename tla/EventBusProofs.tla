---------------------------- MODULE EventBusProofs ----------------------------
(***************************************************************************)
(* Proofs about EventBus, for any number of publishers, any depth of the   *)
(* queue and any number of events.                                         *)
(***************************************************************************)
EXTENDS EventBus, FiniteSetTheorems, TLAPS

(* A publisher inside Publish has an event to publish.                     *)
HasEvent == \A p \in Publisher : pc[p] # "idle" => count[p] > 0

BusInv == TypeOK /\ HasEvent /\ Accounted

LEMMA HoldingFinite == IsFiniteSet(Holding)
  BY EventBusAssumption, FS_Subset DEF Holding

(* How the number of publishers with an event in hand moves.               *)
LEMMA HoldingGrows ==
  ASSUME NEW p \in Publisher, p \notin Holding, Holding' = Holding \cup {p}
  PROVE  Cardinality(Holding') = Cardinality(Holding) + 1
  BY HoldingFinite, FS_AddElement

LEMMA HoldingShrinks ==
  ASSUME NEW p \in Publisher, p \in Holding, Holding' = Holding \ {p}
  PROVE  Cardinality(Holding') = Cardinality(Holding) - 1
  BY HoldingFinite, FS_RemoveElement

LEMMA InitBus == Init => BusInv
  <1> SUFFICES ASSUME Init PROVE BusInv
    OBVIOUS
  <1>1. TypeOK /\ HasEvent
    BY EventBusAssumption DEF Init, TypeOK, HasEvent
  <1>2. Holding = {}
    BY DEF Init, Holding
  <1>3. Accounted
    BY <1>2, FS_EmptySet DEF Init, Accounted
  <1> QED BY <1>1, <1>3 DEF BusInv

LEMMA StepBus == BusInv /\ [Next]_vars => BusInv'
  <1> SUFFICES ASSUME BusInv, [Next]_vars PROVE BusInv'
    OBVIOUS
  <1> USE EventBusAssumption DEF BusInv, TypeOK, HasEvent, Goto
  <1>0. Cardinality(Holding) \in Nat
    BY HoldingFinite, FS_CardinalityType
  <1>1. CASE UNCHANGED vars \/ Subscribe \/ Close
    <2>1. UNCHANGED <<queue, dropped, received, offered, pc, count>>
      BY <1>1 DEF vars, Subscribe, Close
    <2>2. Holding' = Holding
      BY <2>1 DEF Holding
    <2> QED BY <1>1, <2>1, <2>2 DEF vars, Subscribe, Close, Accounted
  <1>2. CASE Receive
    <2>1. Holding' = Holding
      BY <1>2 DEF Receive, Holding
    <2>2. /\ queue' \in Seq(Event) /\ received' \in Seq(Event)
          /\ Len(queue') = Len(queue) - 1
          /\ Len(received') = Len(received) + 1
      BY <1>2 DEF Receive
    <2> QED BY <1>0, <1>2, <2>1, <2>2 DEF Receive, Accounted
  <1>3. ASSUME NEW p \in Publisher, Publish(p) PROVE BusInv'
    <2>1. Holding' = Holding
      BY <1>3 DEF Publish, Holding
    <2>2. TypeOK' /\ HasEvent'
      BY <1>3 DEF Publish
    <2> QED BY <1>3, <2>1, <2>2 DEF Publish, Accounted
  <1>4. ASSUME NEW p \in Publisher, Visit(p) PROVE BusInv'
    <2>1. TypeOK' /\ HasEvent'
      BY <1>4 DEF Visit
    <2>2. CASE sub = "listed"
      <3>1. p \notin Holding /\ Holding' = Holding \cup {p}
        BY <1>4, <2>2 DEF Visit, Holding
      <3>2. Cardinality(Holding') = Cardinality(Holding) + 1
        BY <3>1, HoldingGrows
      <3>3. offered' = offered + 1 /\ UNCHANGED <<queue, dropped, received>>
        BY <1>4, <2>2 DEF Visit
      <3>4. Accounted'
        BY <1>0, <3>2, <3>3 DEF Accounted
      <3> QED BY <2>1, <3>4
    <2>3. CASE sub # "listed"
      <3>1. Holding' = Holding
        BY <1>4, <2>3 DEF Visit, Holding
      <3> QED BY <1>4, <2>1, <2>3, <3>1 DEF Visit, Accounted
    <2> QED BY <2>2, <2>3
  <1>5. ASSUME NEW p \in Publisher, Current(p) \in Event,
               queue' = Append(queue, Current(p)), pc' = [pc EXCEPT ![p] = "idle"],
               pc[p] \in {"send", "resend"},
               UNCHANGED <<sub, dropped, received, offered, count>>
        PROVE  BusInv'
    <2>1. p \in Holding /\ Holding' = Holding \ {p}
      BY <1>5 DEF Holding
    <2>2. queue' \in Seq(Event) /\ Len(queue') = Len(queue) + 1
      BY <1>5
    <2>3. TypeOK' /\ HasEvent'
      BY <1>5, <2>2
    <2>4. Cardinality(Holding') = Cardinality(Holding) - 1
      BY <2>1, HoldingShrinks
    <2>5. Accounted'
      BY <1>0, <1>5, <2>2, <2>4 DEF Accounted
    <2> QED BY <2>3, <2>5
  <1>6. ASSUME NEW p \in Publisher, pc[p] # "idle" PROVE Current(p) \in Event
    BY <1>6 DEF Current, Event
  <1>7. ASSUME NEW p \in Publisher, Send(p) PROVE BusInv'
    <2>1. CASE Len(queue) < Capacity
      BY <1>5, <1>6, <1>7, <2>1 DEF Send
    <2>2. CASE ~(Len(queue) < Capacity)
      <3>1. Holding' = Holding
        BY <1>7, <2>2 DEF Send, Holding
      <3> QED BY <1>7, <2>2, <3>1 DEF Send, Accounted
    <2> QED BY <2>1, <2>2
  <1>8. ASSUME NEW p \in Publisher, Evict(p) PROVE BusInv'
    <2>1. Holding' = Holding
      BY <1>8 DEF Evict, Holding
    <2>2. CASE queue # <<>>
      <3>0. queue' = Tail(queue)
        BY <1>8, <2>2 DEF Evict
      <3>1. queue' \in Seq(Event) /\ Len(queue') = Len(queue) - 1
        BY <2>2, <3>0
      <3> QED BY <1>0, <1>8, <2>1, <2>2, <3>1 DEF Evict, Accounted
    <2>3. CASE queue = <<>>
      BY <1>8, <2>1, <2>3 DEF Evict, Accounted
    <2> QED BY <2>2, <2>3
  <1>9. ASSUME NEW p \in Publisher, Resend(p) PROVE BusInv'
    <2>1. CASE Len(queue) < Capacity
      BY <1>5, <1>6, <1>9, <2>1 DEF Resend
    <2>2. CASE ~(Len(queue) < Capacity)
      <3>1. p \in Holding /\ Holding' = Holding \ {p}
        BY <1>9, <2>2 DEF Resend, Holding
      <3>2. Cardinality(Holding') = Cardinality(Holding) - 1
        BY <3>1, HoldingShrinks
      <3>3. dropped' = dropped + 1 /\ UNCHANGED <<queue, received, offered>>
        BY <1>9, <2>2 DEF Resend
      <3>4. Accounted'
        BY <1>0, <3>2, <3>3 DEF Accounted
      <3>5. TypeOK' /\ HasEvent'
        BY <1>9, <3>3 DEF Resend
      <3> QED BY <3>4, <3>5
    <2> QED BY <2>1, <2>2
  <1> QED BY <1>1, <1>2, <1>3, <1>4, <1>7, <1>8, <1>9 DEF Next, Offer

(* No event that reached a subscription disappears without being received, *)
(* queued or counted as dropped, whatever publishers and consumer do.      *)
THEOREM AlwaysAccounted == Spec => []Accounted
  <1>1. BusInv => Accounted
    BY DEF BusInv
  <1> QED BY InitBus, StepBus, <1>1, PTL DEF Spec

-----------------------------------------------------------------------------
(* OnlyOverflowDropped rests on what a full queue leads to.  Until a       *)
(* publisher has found the queue full, every event offered is queued or in *)
(* hand.  From then on the places that evictions have made are claimed:    *)
(* each belongs to a publisher that is about to fill it.                   *)
Resending == {p \in Publisher : pc[p] = "resend"}

NeverFull ==
  /\ dropped = 0
  /\ \A p \in Publisher : pc[p] \notin {"evict", "resend"}

Claimed == Len(queue) + Cardinality(Resending) >= Capacity

RoomInv ==
  /\ Len(queue) <= Capacity
  /\ received = <<>> => NeverFull \/ Claimed

LEMMA CapacityType == Capacity \in Nat \ {0}
  BY EventBusAssumption DEF Capacity

LEMMA ResendingFinite == IsFiniteSet(Resending) /\ Cardinality(Resending) \in Nat
  BY EventBusAssumption, FS_Subset, FS_CardinalityType DEF Resending

LEMMA ResendingGrows ==
  ASSUME NEW p \in Publisher, p \notin Resending, Resending' = Resending \cup {p}
  PROVE  Cardinality(Resending') = Cardinality(Resending) + 1
  BY ResendingFinite, FS_AddElement

LEMMA ResendingShrinks ==
  ASSUME NEW p \in Publisher, p \in Resending, Resending' = Resending \ {p}
  PROVE  Cardinality(Resending') = Cardinality(Resending) - 1
  BY ResendingFinite, FS_RemoveElement

LEMMA InitRoom == Init => RoomInv
  BY CapacityType DEF Init, RoomInv, NeverFull

LEMMA StepRoom == BusInv /\ RoomInv /\ [Next]_vars => RoomInv'
  <1> SUFFICES ASSUME BusInv, RoomInv, [Next]_vars PROVE RoomInv'
    OBVIOUS
  <1> USE CapacityType, ResendingFinite DEF BusInv, TypeOK, Goto
  <1>1. CASE UNCHANGED vars \/ Subscribe \/ Close
    <2>1. UNCHANGED <<queue, dropped, received, pc>> /\ Resending' = Resending
      BY <1>1 DEF vars, Subscribe, Close, Resending
    <2> QED BY <2>1 DEF RoomInv, NeverFull, Claimed
  <1>2. CASE Receive
    <2>1. received' # <<>> /\ queue' \in Seq(Event) /\ Len(queue') = Len(queue) - 1
      BY <1>2 DEF Receive
    <2> QED BY <2>1 DEF RoomInv
  <1>3. ASSUME NEW p \in Publisher, Publish(p) \/ Visit(p) PROVE RoomInv'
    <2>1. /\ UNCHANGED <<queue, dropped, received>>
          /\ pc[p] \notin {"evict", "resend"} /\ pc'[p] \notin {"evict", "resend"}
          /\ \A q \in Publisher \ {p} : pc'[q] = pc[q]
      BY <1>3 DEF Publish, Visit
    <2>2. Resending' = Resending
      BY <2>1 DEF Resending
    <2> QED BY <2>1, <2>2 DEF RoomInv, NeverFull, Claimed
  <1>4. ASSUME NEW p \in Publisher, Send(p) PROVE RoomInv'
    <2>1. Resending' = Resending
      BY <1>4 DEF Send, Resending
    <2>2. CASE Len(queue) < Capacity
      <3>1. /\ queue' = Append(queue, Current(p)) /\ UNCHANGED <<dropped, received>>
            /\ pc' = [pc EXCEPT ![p] = "idle"]
        BY <1>4, <2>2 DEF Send
      <3>2. Len(queue') = Len(queue) + 1
        BY <3>1
      <3> QED BY <2>1, <2>2, <3>1, <3>2 DEF RoomInv, NeverFull, Claimed
    <2>3. CASE ~(Len(queue) < Capacity)
      BY <1>4, <2>1, <2>3 DEF Send, RoomInv, Claimed
    <2> QED BY <2>2, <2>3
  <1>5. ASSUME NEW p \in Publisher, Evict(p) PROVE RoomInv'
    <2>1. p \notin Resending /\ Resending' = Resending \cup {p}
      BY <1>5 DEF Evict, Resending
    <2>2. Cardinality(Resending') = Cardinality(Resending) + 1
      BY <2>1, ResendingGrows
    <2>3. Len(queue') \in {Len(queue), Len(queue) - 1} /\ received' = received
      BY <1>5 DEF Evict
    <2>4. received = <<>> => Claimed
      BY <1>5 DEF Evict, RoomInv, NeverFull
    <2> QED BY <2>2, <2>3, <2>4 DEF RoomInv, Claimed
  <1>6. ASSUME NEW p \in Publisher, Resend(p) PROVE RoomInv'
    <2>1. p \in Resending /\ Resending' = Resending \ {p}
      BY <1>6 DEF Resend, Resending
    <2>2. Cardinality(Resending') = Cardinality(Resending) - 1
      BY <2>1, ResendingShrinks
    <2>3. received = <<>> => Claimed
      BY <1>6 DEF Resend, RoomInv, NeverFull
    <2>4. CASE Len(queue) < Capacity
      <3>1. queue' = Append(queue, Current(p)) /\ received' = received
        BY <1>6, <2>4 DEF Resend
      <3>2. Len(queue') = Len(queue) + 1
        BY <3>1
      <3> QED BY <2>2, <2>3, <2>4, <3>1, <3>2 DEF RoomInv, Claimed
    <2>5. CASE ~(Len(queue) < Capacity)
      <3>1. UNCHANGED <<queue, received>>
        BY <1>6, <2>5 DEF Resend
      <3>2. Cardinality(Resending') \in Nat
        BY <2>1, ResendingFinite, FS_RemoveElement, FS_CardinalityType
      <3> QED BY <2>5, <3>1, <3>2 DEF RoomInv, Claimed
    <2> QED BY <2>4, <2>5
  <1> QED BY <1>1, <1>2, <1>3, <1>4, <1>5, <1>6 DEF Next, Offer

(* A subscription that nobody reads loses events only once it is full, and *)
(* stays full: the evictions of publishers that overlap do not add up.     *)
THEOREM AlwaysOnlyOverflowDropped == Spec => []OnlyOverflowDropped
  <1>1. BusInv /\ RoomInv => OnlyOverflowDropped
    <2> SUFFICES ASSUME BusInv, RoomInv, received = <<>>, Holding = {}
                 PROVE  Len(queue) = IF offered < Capacity THEN offered ELSE Capacity
      BY DEF OnlyOverflowDropped
    <2>1. offered = Len(queue) + dropped
      BY FS_EmptySet DEF BusInv, TypeOK, Accounted
    <2>2. Cardinality(Resending) = 0
      BY FS_EmptySet DEF Holding, Resending
    <2> QED BY CapacityType, <2>1, <2>2 DEF BusInv, TypeOK, RoomInv, NeverFull, Claimed
  <1> QED BY InitBus, StepBus, InitRoom, StepRoom, <1>1, PTL DEF Spec

-----------------------------------------------------------------------------
(* InPublisherOrder, over the two sequences apart.  An event is followed   *)
(* by later ones of its publisher only; what has come through is older     *)
(* than what the publisher still has in hand.                              *)
Precedes(e, f) == e[1] = f[1] => e[2] < f[2]

Ordered(seq) == \A i, j \in 1..Len(seq) : i < j => Precedes(seq[i], seq[j])

Past(e) == IF pc[e[1]] = "idle" THEN e[2] <= count[e[1]] ELSE e[2] < count[e[1]]

AllPast(seq) == \A i \in 1..Len(seq) : Past(seq[i])

ReceivedFirst ==
  \A i \in 1..Len(received), j \in 1..Len(queue) : Precedes(received[i], queue[j])

OrderInv ==
  /\ Ordered(received) /\ Ordered(queue)
  /\ ReceivedFirst
  /\ AllPast(received) /\ AllPast(queue)

LEMMA EventType == \A e \in Event : e[1] \in Publisher /\ e[2] \in Nat
  BY EventBusAssumption DEF Event

LEMMA ElementType ==
  ASSUME NEW seq \in Seq(Event)
  PROVE  \A i \in 1..Len(seq) : seq[i] \in Event
  OBVIOUS

LEMMA OrderedAppend ==
  ASSUME NEW seq \in Seq(Event), NEW e \in Event, Ordered(seq),
         \A i \in 1..Len(seq) : Precedes(seq[i], e)
  PROVE  Ordered(Append(seq, e))
  BY DEF Ordered

LEMMA OrderedTail ==
  ASSUME NEW seq \in Seq(Event), seq # <<>>, Ordered(seq)
  PROVE  Ordered(Tail(seq))
  BY DEF Ordered

LEMMA OrderedConcat ==
  ASSUME NEW s \in Seq(Event), NEW t \in Seq(Event), Ordered(s), Ordered(t),
         \A i \in 1..Len(s), j \in 1..Len(t) : Precedes(s[i], t[j])
  PROVE  Ordered(s \o t)
  <1> SUFFICES ASSUME NEW i \in 1..Len(s \o t), NEW j \in 1..Len(s \o t), i < j
               PROVE  Precedes((s \o t)[i], (s \o t)[j])
    BY DEF Ordered
  <1>1. /\ Len(s) \in Nat /\ Len(t) \in Nat /\ Len(s \o t) = Len(s) + Len(t)
        /\ \A k \in 1..Len(s \o t) :
             (s \o t)[k] = IF k <= Len(s) THEN s[k] ELSE t[k - Len(s)]
    OBVIOUS
  <1>2. CASE j <= Len(s)
    BY <1>1, <1>2 DEF Ordered
  <1>3. CASE i <= Len(s) /\ Len(s) < j
    <2>1. j - Len(s) \in 1..Len(t) /\ i \in 1..Len(s)
      BY <1>1, <1>3
    <2> QED BY <1>1, <1>3, <2>1
  <1>4. CASE Len(s) < i
    <2>1. i - Len(s) \in 1..Len(t) /\ j - Len(s) \in 1..Len(t) /\ i - Len(s) < j - Len(s)
      BY <1>1, <1>4
    <2> QED BY <1>1, <1>4, <2>1 DEF Ordered
  <1> QED BY <1>1, <1>2, <1>3, <1>4

LEMMA InitOrder == Init => OrderInv
  BY DEF Init, OrderInv, Ordered, ReceivedFirst, AllPast

(* A publisher that leaves, or that takes up its next event, leaves what   *)
(* it has published in the past.                                           *)
LEMMA PastIsPast ==
  ASSUME BusInv, NEW p \in Publisher,
         \A q \in Publisher \ {p} : pc'[q] = pc[q] /\ count'[q] = count[q],
         \/ count'[p] = count[p] /\ (pc'[p] = "idle" \/ pc[p] # "idle")
         \/ count'[p] = count[p] + 1
  PROVE  \A e \in Event : Past(e) => Past(e)'
  BY EventType DEF BusInv, TypeOK, Past

LEMMA StepOrder == BusInv /\ OrderInv /\ [Next]_vars => OrderInv'
  <1> SUFFICES ASSUME BusInv, OrderInv, [Next]_vars PROVE OrderInv'
    OBVIOUS
  <1> USE DEF BusInv, TypeOK, Goto
  <1>1. CASE UNCHANGED vars \/ Subscribe \/ Close
    BY <1>1 DEF vars, Subscribe, Close, OrderInv, Ordered, ReceivedFirst, AllPast, Past
  <1>2. CASE Receive
    <2>1. /\ queue \in Seq(Event) /\ queue # <<>> /\ Head(queue) \in Event
          /\ received' = Append(received, Head(queue)) /\ queue' = Tail(queue)
          /\ UNCHANGED <<pc, count>>
      BY <1>2 DEF Receive
    <2>2. /\ Len(received') = Len(received) + 1
          /\ \A k \in 1..Len(received') :
               received'[k] = IF k <= Len(received) THEN received[k] ELSE queue[1]
          /\ Len(queue') = Len(queue) - 1
          /\ \A k \in 1..Len(queue') : queue'[k] = queue[k + 1] /\ k + 1 \in 1..Len(queue)
          /\ 1 \in 1..Len(queue) /\ Head(queue) = queue[1]
      BY <2>1
    <2>3. Ordered(queue')
      BY <2>1, OrderedTail DEF OrderInv
    <2>4. Ordered(received')
      BY <2>1, <2>2, OrderedAppend DEF OrderInv, ReceivedFirst
    <2>5. ReceivedFirst'
      BY <2>2 DEF OrderInv, ReceivedFirst, Ordered
    <2>6. AllPast(received)' /\ AllPast(queue)'
      BY <2>1, <2>2 DEF OrderInv, AllPast, Past
    <2> QED BY <2>3, <2>4, <2>5, <2>6 DEF OrderInv, Ordered
  <1>3. ASSUME UNCHANGED <<queue, received>>, \A e \in Event : Past(e) => Past(e)'
        PROVE  OrderInv'
    <2>1. AllPast(received)' /\ AllPast(queue)'
      BY <1>3, ElementType DEF OrderInv, AllPast
    <2> QED BY <1>3, <2>1 DEF OrderInv, Ordered, ReceivedFirst
  <1>4. ASSUME NEW p \in Publisher, Publish(p) \/ Visit(p) PROVE OrderInv'
    <2>1. \A e \in Event : Past(e) => Past(e)'
      BY <1>4, PastIsPast DEF Publish, Visit
    <2> QED BY <1>3, <1>4, <2>1 DEF Publish, Visit
  <1>5. ASSUME NEW p \in Publisher, pc[p] # "idle", pc' = [pc EXCEPT ![p] = "idle"],
               queue' = Append(queue, Current(p)), UNCHANGED <<received, count>>
        PROVE  OrderInv'
    <2>1. /\ Current(p) \in Event
          /\ Current(p)[1] = p /\ Current(p)[2] = count[p]
      BY <1>5 DEF Current, Event, HasEvent
    <2>2. \A e \in Event : Past(e) => Past(e)' /\ Precedes(e, Current(p))
      BY <1>5, <2>1, EventType DEF Past, Precedes
    <2>3. \A e \in Event : e = Current(p) => Past(e)'
      BY <1>5, <2>1 DEF Past
    <2>4. /\ Len(queue') = Len(queue) + 1
          /\ \A k \in 1..Len(queue') :
               queue'[k] = IF k <= Len(queue) THEN queue[k] ELSE Current(p)
      BY <1>5, <2>1
    <2>5. Ordered(queue')
      BY <1>5, <2>1, <2>2, ElementType, OrderedAppend DEF OrderInv, AllPast
    <2>6. ReceivedFirst'
      BY <1>5, <2>2, <2>4, ElementType DEF OrderInv, ReceivedFirst, AllPast
    <2>7. AllPast(received)'
      BY <1>5, <2>2, ElementType DEF OrderInv, AllPast
    <2>8. AllPast(queue)'
      <3> SUFFICES ASSUME NEW i \in 1..Len(queue') PROVE Past(queue[i])'
        BY DEF AllPast
      <3>1. CASE i <= Len(queue)
        <4>1. PICK e \in Event : e = queue[i] /\ Past(e)
          BY <3>1, ElementType DEF OrderInv, AllPast
        <4>2. Past(e)' /\ queue'[i] = e
          BY <2>2, <2>4, <3>1, <4>1
        <4> QED BY <4>2
      <3>2. CASE ~(i <= Len(queue))
        <4>1. PICK e \in Event : e = Current(p)
          BY <2>1
        <4>2. Past(e)' /\ queue'[i] = e
          BY <2>3, <2>4, <3>2, <4>1
        <4> QED BY <4>2
      <3> QED BY <3>1, <3>2
    <2> QED BY <1>5, <2>5, <2>6, <2>7, <2>8 DEF OrderInv, Ordered
  <1>6. ASSUME NEW p \in Publisher, Send(p) \/ Resend(p) PROVE OrderInv'
    <2>1. CASE Len(queue) < Capacity
      BY <1>5, <1>6, <2>1 DEF Send, Resend
    <2>2. CASE ~(Len(queue) < Capacity)
      <3>1. \A e \in Event : Past(e) => Past(e)'
        BY <1>6, <2>2, PastIsPast DEF Send, Resend
      <3> QED BY <1>3, <1>6, <2>2, <3>1 DEF Send, Resend
    <2> QED BY <2>1, <2>2
  <1>7. ASSUME NEW p \in Publisher, Evict(p) PROVE OrderInv'
    <2>1. \A e \in Event : Past(e) => Past(e)'
      BY <1>7, PastIsPast DEF Evict
    <2>2. CASE queue = <<>>
      BY <1>3, <1>7, <2>1, <2>2 DEF Evict
    <2>3. CASE queue # <<>>
      <3>1. queue' = Tail(queue) /\ received' = received
        BY <1>7, <2>3 DEF Evict
      <3>2. \A k \in 1..Len(queue') : queue'[k] = queue[k + 1] /\ k + 1 \in 1..Len(queue)
        BY <2>3, <3>1
      <3>3. Ordered(queue')
        BY <2>3, <3>1, OrderedTail DEF OrderInv
      <3>4. ReceivedFirst'
        BY <3>1, <3>2 DEF OrderInv, ReceivedFirst
      <3>5. AllPast(received)' /\ AllPast(queue)'
        BY <2>1, <3>1, <3>2, ElementType DEF OrderInv, AllPast
      <3> QED BY <3>1, <3>3, <3>4, <3>5 DEF OrderInv, Ordered
    <2> QED BY <2>2, <2>3
  <1> QED BY <1>1, <1>2, <1>4, <1>6, <1>7 DEF Next, Offer

(* The consumer sees each publisher's events in the order in which they    *)
(* were published, whatever is dropped in between (offer).                 *)
THEOREM AlwaysInPublisherOrder == Spec => []InPublisherOrder
  <1>1. BusInv /\ OrderInv => InPublisherOrder
    <2> SUFFICES ASSUME BusInv, OrderInv PROVE InPublisherOrder
      OBVIOUS
    <2>1. received \in Seq(Event) /\ queue \in Seq(Event)
      BY DEF BusInv, TypeOK
    <2>2. Ordered(received \o queue)
      BY <2>1, OrderedConcat DEF OrderInv, ReceivedFirst
    <2> QED BY <2>2 DEF InPublisherOrder, Ordered, Precedes
  <1> QED BY InitBus, StepBus, InitOrder, StepOrder, <1>1, PTL DEF Spec

=============================================================================
