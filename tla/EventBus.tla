------------------------------ MODULE EventBus ------------------------------
(***************************************************************************)
(* internal/events/bus.go: one subscription of the bus and the goroutines  *)
(* that publish to it.                                                     *)
(*                                                                         *)
(* Publish holds b.mu for reading, so publishers overlap, and offer is     *)
(* three selects with a default: each is a step of its own.  The counter   *)
(* is incremented right after the receive that evicts, and is taken        *)
(* together with it.  Subscriptions share nothing but the list that        *)
(* Subscribe and Close change under the write lock, so one of them, which  *)
(* comes and goes, stands for all.                                         *)
(*                                                                         *)
(* An event is the pair of its publisher and its place among that          *)
(* publisher's events.                                                     *)
(***************************************************************************)
EXTENDS Naturals, Sequences, FiniteSets

CONSTANTS
  Publisher,  \* goroutines that call Publish
  Depth,      \* the depth given to Subscribe
  MaxEvents   \* bound on the events of one publisher

ASSUME EventBusAssumption ==
  /\ IsFiniteSet(Publisher)
  /\ Depth \in Nat
  /\ MaxEvents \in Nat

VARIABLES
  sub,         \* "new", then "listed" in b.subs, then "closed"
  queue,       \* s.ch
  dropped,     \* s.dropped
  received,    \* history: what the consumer has taken, oldest first
  offered,     \* history: how many events have been offered
  pc,          \* where a publisher is in Publish and offer
  count        \* history: how many events a publisher has published

vars == <<sub, queue, dropped, received, offered, pc, count>>

Event == Publisher \X (1..MaxEvents)

(* The publishers inside Publish, which hold the read lock.                *)
Readers == {p \in Publisher : pc[p] # "idle"}

(* The publishers that hold an event they have not got rid of.             *)
Holding == {p \in Publisher : pc[p] \in {"send", "evict", "resend"}}

(* Subscribe raises a depth below one.                                     *)
Capacity == IF Depth < 1 THEN 1 ELSE Depth

TypeOK ==
  /\ sub \in {"new", "listed", "closed"}
  /\ queue \in Seq(Event)
  /\ dropped \in Nat
  /\ received \in Seq(Event)
  /\ offered \in Nat
  /\ pc \in [Publisher -> {"idle", "locked", "send", "evict", "resend"}]
  /\ count \in [Publisher -> 0..MaxEvents]

Init ==
  /\ sub = "new"
  /\ queue = <<>>
  /\ dropped = 0
  /\ received = <<>>
  /\ offered = 0
  /\ pc = [p \in Publisher |-> "idle"]
  /\ count = [p \in Publisher |-> 0]

Goto(p, label) == pc' = [pc EXCEPT ![p] = label]

(* The event publisher p is publishing.                                    *)
Current(p) == <<p, count[p]>>

-----------------------------------------------------------------------------
(* Subscribe and Close take the write lock, so no publisher is inside.     *)
Subscribe ==
  /\ sub = "new"
  /\ Readers = {}
  /\ sub' = "listed"
  /\ UNCHANGED <<queue, dropped, received, offered, pc, count>>

Close ==
  /\ sub = "listed"
  /\ Readers = {}
  /\ sub' = "closed"
  /\ UNCHANGED <<queue, dropped, received, offered, pc, count>>

(* Publish logs the event and takes the read lock.                         *)
Publish(p) ==
  /\ pc[p] = "idle"
  /\ count[p] < MaxEvents
  /\ count' = [count EXCEPT ![p] = @ + 1]
  /\ Goto(p, "locked")
  /\ UNCHANGED <<sub, queue, dropped, received, offered>>

(* The loop over b.subs finds the subscription, or nothing.                *)
Visit(p) ==
  /\ pc[p] = "locked"
  /\ offered' = IF sub = "listed" THEN offered + 1 ELSE offered
  /\ Goto(p, IF sub = "listed" THEN "send" ELSE "idle")
  /\ UNCHANGED <<sub, queue, dropped, received, count>>

(* offer, first select: enqueue if there is room.                          *)
Send(p) ==
  /\ pc[p] = "send"
  /\ IF Len(queue) < Capacity
     THEN queue' = Append(queue, Current(p)) /\ Goto(p, "idle")
     ELSE Goto(p, "evict") /\ UNCHANGED queue
  /\ UNCHANGED <<sub, dropped, received, offered, count>>

(* offer, second select, without the count.  A mutant.                     *)
EvictUncounted(p) ==
  /\ pc[p] = "evict"
  /\ IF queue # <<>> THEN queue' = Tail(queue) ELSE UNCHANGED queue
  /\ Goto(p, "resend")
  /\ UNCHANGED <<sub, dropped, received, offered, count>>

(* offer, second select, as a loop that drains the queue.  A mutant.       *)
EvictDrains(p) ==
  /\ pc[p] = "evict"
  /\ queue' = <<>>
  /\ dropped' = dropped + Len(queue)
  /\ Goto(p, "resend")
  /\ UNCHANGED <<sub, received, offered, count>>

(* offer, second select: drop the oldest, unless the consumer emptied the  *)
(* queue meanwhile.                                                        *)
Evict(p) ==
  /\ pc[p] = "evict"
  /\ IF queue # <<>>
     THEN queue' = Tail(queue) /\ dropped' = dropped + 1
     ELSE UNCHANGED <<queue, dropped>>
  /\ Goto(p, "resend")
  /\ UNCHANGED <<sub, received, offered, count>>

(* offer, third select, as a send that waits for room.  A mutant.          *)
ResendBlocks(p) ==
  /\ pc[p] = "resend"
  /\ Len(queue) < Capacity
  /\ queue' = Append(queue, Current(p))
  /\ Goto(p, "idle")
  /\ UNCHANGED <<sub, dropped, received, offered, count>>

(* offer, third select, that puts the event in front.  A mutant.           *)
ResendInFront(p) ==
  /\ pc[p] = "resend"
  /\ IF Len(queue) < Capacity
     THEN queue' = <<Current(p)>> \o queue /\ UNCHANGED dropped
     ELSE dropped' = dropped + 1 /\ UNCHANGED queue
  /\ Goto(p, "idle")
  /\ UNCHANGED <<sub, received, offered, count>>

(* offer, third select: enqueue, or give this event up.                    *)
Resend(p) ==
  /\ pc[p] = "resend"
  /\ IF Len(queue) < Capacity
     THEN queue' = Append(queue, Current(p)) /\ UNCHANGED dropped
     ELSE dropped' = dropped + 1 /\ UNCHANGED queue
  /\ Goto(p, "idle")
  /\ UNCHANGED <<sub, received, offered, count>>

(* The consumer receives, also what was queued before it unsubscribed.     *)
Receive ==
  /\ queue # <<>>
  /\ received' = Append(received, Head(queue))
  /\ queue' = Tail(queue)
  /\ UNCHANGED <<sub, dropped, offered, pc, count>>

-----------------------------------------------------------------------------
Offer(p) == Send(p) \/ Evict(p) \/ Resend(p)

Next ==
  \/ Subscribe \/ Close \/ Receive
  \/ \E p \in Publisher : Publish(p) \/ Visit(p) \/ Offer(p)

(* A publisher inside Publish keeps running.  Nothing is assumed of the    *)
(* consumer, which may have stalled.                                       *)
Fairness == \A p \in Publisher : WF_vars(Visit(p) \/ Offer(p))

Spec == Init /\ [][Next]_vars

FairSpec == Spec /\ Fairness

-----------------------------------------------------------------------------
(* No event offered to a subscription disappears without a trace: it was   *)
(* received, is queued, was counted as dropped, or a publisher still has   *)
(* it in hand (offer; "the drop is counted rather than hidden").           *)
Accounted ==
  offered = Len(received) + Len(queue) + dropped + Cardinality(Holding)

(* The consumer sees the events of one publisher in the order in which     *)
(* they were published, however publishers and drops interleave: a bulb's  *)
(* session never appears to disconnect before it connected.                *)
InPublisherOrder ==
  LET seen == received \o queue
  IN  \A i, j \in 1..Len(seen) :
        i < j /\ seen[i][1] = seen[j][1] => seen[i][2] < seen[j][2]

(* An event is dropped only for want of room: while the consumer takes     *)
(* nothing, a queue that no publisher is busy with is as full as it can    *)
(* be, however the evictions of several publishers overlapped (offer).     *)
OnlyOverflowDropped ==
  received = <<>> /\ Holding = {} =>
    Len(queue) = (IF offered < Capacity THEN offered ELSE Capacity)

(* Publish returns although the consumer may have stalled for good: a      *)
(* stalled terminal never stalls a bulb's read loop.                       *)
PublishReturns == \A p \in Publisher : pc[p] # "idle" ~> pc[p] = "idle"

=============================================================================
