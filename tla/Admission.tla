----------------------------- MODULE Admission -----------------------------
(***************************************************************************)
(* internal/server: what bulbs say on the wire and what the server makes   *)
(* of it, from the bytes of CONNECT to the registry, with the limits on    *)
(* how often refusals and takeovers are reported.                          *)
(*                                                                         *)
(* A session reads its own stream, so a handshake is one step, over a      *)
(* stream that may be cut after any byte; so is what follows it.  The time *)
(* that noteRejection and noteTakeover are given was read before they take *)
(* their locks, and sessions may get to the lock in another order.         *)
(* BulbServer models the steps of a session in more detail.                *)
(***************************************************************************)
EXTENDS Registry, Integers, Wire

CONSTANTS
  Configured,        \* device ids that are admitted
  Client,            \* a function to what may connect: a record of its
                     \* options, Nil if it is no bulb, the bytes it begins
                     \* with, connect, the id it presents, device, and the
                     \* requests that follow, asks
  TakeoverWindow, TakeoverThreshold, RejectionWindow,
  MaxClock           \* bound on the clock

(* The rejection of server.go; its times count from the start.             *)
Refusal == [reportedAt : Nat, suppressed : Nat, firstAt : Nat \cup {Nil}]

ASSUME AdmissionAssumption ==
  /\ Configured \subseteq DeviceId
  /\ {TakeoverWindow, TakeoverThreshold, RejectionWindow} \subseteq Nat \ {0}
  /\ MaxClock \in Nat
  /\ Nil \notin Refusal

(* The byte c is in s, and first at n.                                     *)
FirstAt(s, c, n) == n \in DOMAIN s /\ s[n] = c /\ \A m \in 1..(n - 1) : s[m] # c

(* Where the & of a user name "name&key" is, and the . and the end of a    *)
(* client id "key.name|...".                                               *)
InUsername(o) == {n \in 2..(Len(o.username) - 1) : FirstAt(o.username, 38, n)}
InClientID(o) ==
  {p \in (2..Len(o.clientID)) \X (1..(Len(o.clientID) + 1)) :
     /\ FirstAt(o.clientID, 46, p[1]) /\ p[1] + 1 < p[2]
     /\ FirstAt(Append(o.clientID, 124), 124, p[2])}

(* The options o present the id d: in the user name, else in the client id.*)
Presents(o, d) ==
  IF InUsername(o) # {} THEN \E n \in InUsername(o) : d = SubSeq(o.username, 1, n - 1)
  ELSE IF InClientID(o) # {} THEN \E p \in InClientID(o) : d = SubSeq(o.clientID, p[1] + 1, p[2] - 1)
  ELSE d = Nil

Endless(bytes) ==
  \E n \in (MaxPacketSize + 1)..MaxVarint : IsPrefix(<<bytes[1]>> \o AppendVarint(n), bytes)

(* The requests of a bulb: a log is a publication of QoS 0.                *)
Request == [kind : {"subscribe", "publish", "log", "ping", "bye"}, id : 0..MaxUint16,
            topics : Seq(String), qos : 0..2, payload : Seq(Byte), retain : BOOLEAN]

Bytes(r) ==
  CASE r.kind = "subscribe" -> EncodeSubscribe(r.id, r.qos, r.topics)
    [] r.kind = "publish"   -> EncodePublishQoS1(r.topics[1], r.payload, r.id, r.retain)
    [] r.kind = "log"       -> EncodePublishQoS0(r.topics[1], r.payload, r.retain)
    [] r.kind = "ping"      -> Encode(TypePingreq, 0, <<>>)
    [] r.kind = "bye"       -> EncodeDisconnect

(* A request has the topics it needs and fits into a packet.               *)
Proper(r) ==
  /\ r \in Request
  /\ r.kind \in {"subscribe", "publish", "log"} => r.topics # <<>>
  /\ Len(Bytes(r)) <= MaxPacketSize

(* A bulb with any options and requests, a DISCONNECT at most at the end;  *)
(* what is no bulb begins with another packet or with one that is too long,*)
(* and what follows is never read.                                         *)
ASSUME ClientAssumption ==
  \A c \in DOMAIN Client :
    /\ Client[c].asks \in Seq(Request)
    /\ \A i \in DOMAIN Client[c].asks :
         /\ Proper(Client[c].asks[i])
         /\ Client[c].asks[i].kind = "bye" => i = Len(Client[c].asks)
    /\ Client[c].connect \in Seq(Byte) /\ Client[c].connect # <<>>
    /\ \/ /\ Client[c].options \in ConnectOptions
          /\ Client[c].connect = EncodeConnect(Client[c].options)
          /\ Presents(Client[c].options, Client[c].device)
       \/ /\ Client[c].options = Nil
          /\ Client[c].connect[1] \div 16 # TypeConnect \/ Endless(Client[c].connect)
          /\ Client[c].device = Nil /\ Client[c].asks = <<>>

VARIABLES
  clock,      \* Server.now
  pc,         \* where the goroutine of a session is
  client,     \* who is at the other end
  dev,        \* session.identity
  at,         \* the time a session has read
  takeovers,  \* Server.takeovers
  rejects,    \* Server.rejects
  taken,      \* history: per device, the takeovers noted and the warnings
  refused,    \* history: per device, the refusals noted and the reports
  last        \* history: the exchange the last step completed, if it did

vars == <<bulbs, clock, pc, client, dev, at, takeovers, rejects, taken, refused, last>>

Init ==
  /\ bulbs = [d \in DeviceId |-> NoBulb(d)]
  /\ clock = 0
  /\ pc = [s \in Session |-> "free"]
  /\ client = [s \in Session |-> Nil]
  /\ dev = [s \in Session |-> Nil]
  /\ at = [s \in Session |-> 0]
  /\ takeovers = [d \in DeviceId |-> <<>>]
  /\ rejects = [d \in DeviceId |-> Nil]
  /\ taken = [d \in DeviceId |-> <<>>]
  /\ refused = [d \in DeviceId |-> <<>>]
  /\ last = Nil

Goto(s, label) == pc' = [pc EXCEPT ![s] = label]

(* The goroutine returns, and what it knew goes with it.                   *)
End(s) ==
  /\ Goto(s, "over")
  /\ client' = [client EXCEPT ![s] = Nil]
  /\ dev' = [dev EXCEPT ![s] = Nil]
  /\ at' = [at EXCEPT ![s] = 0]

-----------------------------------------------------------------------------
(* strings.Cut at the first byte c.                                        *)
Cut(s, c) ==
  LET i == SelectInSeq(s, LAMBDA b : b = c)
  IN  IF i = 0 THEN [before |-> s, after |-> <<>>, found |-> FALSE]
      ELSE [before |-> SubSeq(s, 1, i - 1), after |-> SubSeq(s, i + 1, Len(s)), found |-> TRUE]

(* protocol.IdentityFromConnect: the name in the user name "name&key" or   *)
(* in the client id "key.name|...", Nil if there is none.                  *)
IdentityFromConnect(c) ==
  LET user == Cut(c.username, 38)
      id == Cut(Cut(c.clientID, 124).before, 46)
      whole(parts) == parts.found /\ parts.before # <<>> /\ parts.after # <<>>
  IN  IF whole(user) THEN user.before ELSE IF whole(id) THEN id.after ELSE Nil

(* session.handshake up to the admission: the identity, Nil if it fails,   *)
(* and what has not been read.                                             *)
HandshakeOf(bytes) ==
  LET pkt == ReadPacket(bytes)
      connect == DecodeConnect(pkt.payload)
  IN  IF ~pkt.ok THEN [identity |-> Nil, rest |-> <<>>]
      ELSE IF pkt.type # TypeConnect \/ ~connect.ok THEN [identity |-> Nil, rest |-> <<>>]
      ELSE [identity |-> IdentityFromConnect(connect), rest |-> pkt.rest]

(* session.handle: what is written in answer to a packet; handlePublish is *)
(* left to BulbServer and Commands.                                        *)
Handle(pkt) ==
  LET sub == DecodeSubscribe(pkt.payload)
      pub == DecodePublish(pkt.payload, QoS(pkt))
      answer(bytes) == [ok |-> TRUE, written |-> bytes]
  IN  CASE pkt.type = TypePingreq -> answer(Pingresp)
        [] pkt.type = TypeSubscribe ->
             IF sub.ok THEN answer(EncodeSuback(sub.id, Len(sub.topics))) ELSE Failed
        [] pkt.type = TypeDisconnect -> Failed
        [] pkt.type = TypePublish ->
             IF ~pub.ok THEN Failed
             ELSE answer(IF QoS(pkt) = 1 THEN EncodePuback(pub.id) ELSE <<>>)
        [] OTHER -> answer(<<>>)

(* The loop of session.serve, as what it writes.                           *)
Conversation(bytes) ==
  LET turn[n \in 0..(Len(bytes) \div 2 + 1)] ==   \* after n packets
        LET pkt == ReadPacket(turn[n - 1].rest)
            done == [rest |-> turn[n - 1].rest, written |-> turn[n - 1].written, over |-> TRUE]
        IN  IF n = 0 THEN [rest |-> bytes, written |-> <<>>, over |-> FALSE]
            ELSE IF turn[n - 1].over THEN turn[n - 1]
            ELSE IF ~pkt.ok THEN done
            ELSE IF ~Handle(pkt).ok THEN done
            ELSE [rest |-> pkt.rest, written |-> turn[n - 1].written \o Handle(pkt).written,
                  over |-> FALSE]
  IN  turn[Len(bytes) \div 2 + 1].written

(* What a client sends, and what comes through if it is cut.               *)
Sent(c) == Client[c].connect \o FlattenSeq([i \in DOMAIN Client[c].asks |-> Bytes(Client[c].asks[i])])
CutAfter(c, k) == SubSeq(Sent(c), 1, k)

(* The handshakes there can be: who was there, whether the whole of        *)
(* CONNECT came through, and the identity that was understood.             *)
Handshakes ==
  UNION {{[client |-> c, whole |-> k >= Len(Client[c].connect),
           identity |-> HandshakeOf(CutAfter(c, k)).identity] : k \in 0..Len(Sent(c))} :
         c \in DOMAIN Client}

(* The conversations there can be after a handshake: how many requests     *)
(* came through whole, and what was written in answer.                     *)
Conversations ==
  LET ends(c, n) == Len(Client[c].connect) + Len(FlattenSeq([i \in 1..n |-> Bytes(Client[c].asks[i])]))
      heard(c, k) == Cardinality({n \in DOMAIN Client[c].asks : ends(c, n) <= k})
  IN  UNION {{[client |-> c, heard |-> heard(c, k),
               written |-> Conversation(HandshakeOf(CutAfter(c, k)).rest)] :
              k \in Len(Client[c].connect)..Len(Sent(c))} : c \in DOMAIN Client}

-----------------------------------------------------------------------------
(* A client connects, and its stream may be cut.  The handshake fails, or  *)
(* the bulb is admitted or refused.                                        *)
Handshake(s, h) ==
  /\ pc[s] = "free"
  /\ last' = h
  /\ client' = [client EXCEPT ![s] = IF h.identity \in Configured THEN h.client ELSE Nil]
  /\ dev' = [dev EXCEPT ![s] = h.identity]
  /\ Goto(s, IF h.identity = Nil THEN "over"
             ELSE IF h.identity \in Configured THEN "register" ELSE "reject")
  /\ UNCHANGED <<bulbs, clock, at, takeovers, rejects, taken, refused>>

(* An admitted bulb is gone before CONNACK can be written.                 *)
ConnackFails(s) ==
  /\ pc[s] = "register"
  /\ End(s)
  /\ last' = Nil
  /\ UNCHANGED <<bulbs, clock, takeovers, rejects, taken, refused>>

(* register and reportRejection begin with the time.                       *)
ReadTime(s) ==
  /\ pc[s] \in {"register", "reject"}
  /\ at' = [at EXCEPT ![s] = clock]
  /\ Goto(s, IF pc[s] = "register" THEN "upsert" ELSE "noteRejection")
  /\ last' = Nil
  /\ UNCHANGED <<bulbs, clock, client, dev, takeovers, rejects, taken, refused>>

(* register: Upsert and SetDriver; only a displaced driver is noted.       *)
RegisterUpsert(s) ==
  /\ pc[s] = "upsert"
  /\ Upsert(dev[s], {})
  /\ Goto(s, "setDriver")
  /\ last' = Nil
  /\ UNCHANGED <<clock, client, dev, at, takeovers, rejects, taken, refused>>

RegisterSetDriver(s) ==
  /\ pc[s] = "setDriver"
  /\ SetDriver(dev[s], s)
  /\ Goto(s, IF Driver(dev[s]) = Nil THEN "serve" ELSE "noteTakeover")
  /\ at' = [at EXCEPT ![s] = IF Driver(dev[s]) = Nil THEN 0 ELSE @]
  /\ last' = Nil
  /\ UNCHANGED <<clock, client, dev, takeovers, rejects, taken, refused>>

(* noteTakeover that forgets nothing.  A mutant.                           *)
RecentTakeoversEver(d, now) == Append(takeovers[d], now)

(* The loop of noteTakeover, over the times that were kept before.         *)
Within(times, now) ==
  LET kept[i \in 0..Len(times)] ==   \* of the first i
        IF i = 0 THEN <<>>
        ELSE IF now - times[i] < TakeoverWindow THEN Append(kept[i - 1], times[i])
        ELSE kept[i - 1]
  IN  kept[Len(times)]

(* noteTakeover: the takeovers that are kept, this one included.           *)
RecentTakeovers(d, now) == Append(Within(takeovers[d], now), now)

NoteTakeover(s) ==
  LET d == dev[s]
      kept == RecentTakeovers(d, at[s])
  IN  /\ pc[s] = "noteTakeover"
      /\ takeovers' = [takeovers EXCEPT ![d] = kept]
      /\ taken' = [taken EXCEPT ![d] = Append(@, [at |-> at[s], warned |-> Len(kept) >= TakeoverThreshold])]
      /\ at' = [at EXCEPT ![s] = 0]
      /\ Goto(s, "serve")
      /\ last' = Nil
      /\ UNCHANGED <<bulbs, clock, client, dev, rejects, refused>>

(* The counting of a suppressed refusal that moves the start of the count. *)
(* A mutant.                                                               *)
SuppressedMoved(r, now) == [r EXCEPT !.suppressed = @ + 1, !.firstAt = now]

(* noteRejection: a refusal within the window is counted.                  *)
Suppressed(r, now) ==
  [r EXCEPT !.suppressed = @ + 1, !.firstAt = IF r.suppressed = 0 THEN now ELSE @]

(* noteRejection: a report starts a new window.                            *)
Reported(r, now) == [reportedAt |-> now, suppressed |-> 0, firstAt |-> Nil]

NoteRejection(s) ==
  LET d == dev[s]
      r == rejects[d]
      report == r = Nil \/ at[s] - r.reportedAt >= RejectionWindow
      carries(field, none) == IF report /\ r # Nil THEN r[field] ELSE none
  IN  /\ pc[s] = "noteRejection"
      /\ rejects' = [rejects EXCEPT ![d] = IF report THEN Reported(r, at[s]) ELSE Suppressed(r, at[s])]
      /\ refused' = [refused EXCEPT ![d] =
           Append(@, [at |-> at[s], report |-> report,
                      suppressed |-> carries("suppressed", 0), since |-> carries("firstAt", Nil)])]
      /\ End(s)
      /\ last' = Nil
      /\ UNCHANGED <<bulbs, clock, takeovers, taken>>

(* The read loop, to the end of the stream, and the deferred Disconnect.   *)
Serve(s, v) ==
  /\ pc[s] = "serve"
  /\ v.client = client[s]
  /\ last' = v
  /\ Disconnect(dev[s], s)
  /\ End(s)
  /\ UNCHANGED <<clock, takeovers, rejects, taken, refused>>

Tick ==
  /\ clock < MaxClock
  /\ clock' = clock + 1
  /\ last' = Nil
  /\ UNCHANGED <<bulbs, pc, client, dev, at, takeovers, rejects, taken, refused>>

Next ==
  \/ Tick
  \/ \E s \in Session :
       \/ \E h \in Handshakes : Handshake(s, h)
       \/ ConnackFails(s)
       \/ ReadTime(s)
       \/ RegisterUpsert(s)
       \/ RegisterSetDriver(s)
       \/ NoteTakeover(s)
       \/ NoteRejection(s)
       \/ \E v \in Conversations : Serve(s, v)

Spec == Init /\ [][Next]_vars

-----------------------------------------------------------------------------
(* A bulb is known by the id it presented, and only if its CONNECT came    *)
(* through whole: no cut, no will, no missing user name, no length of the  *)
(* packet and no other traffic makes the server take it for another one.   *)
IdentityIsPresented ==
  last \in Handshakes =>
    last.identity = IF last.whole THEN Client[last.client].device ELSE Nil

(* What a client makes of an answer, in the terms of its requests.         *)
Hears(pkt) ==
  CASE pkt.type = TypeSuback -> LET a == DecodeSuback(pkt.payload)
                                IN  [kind |-> "subscribe", id |-> a.id, count |-> Len(a.granted)]
    [] pkt.type = TypePuback -> [kind |-> "publish", id |-> Uint16(pkt.payload, 0), count |-> 1]
    [] pkt.type = TypePingresp -> [kind |-> "ping", id |-> 0, count |-> 1]

(* What it is waiting for after a request that wants an answer.            *)
WantsAnswer(r) == r.kind \in {"subscribe", "publish", "ping"}

Wanted(r) ==
  [kind |-> r.kind, id |-> IF r.kind = "ping" THEN 0 ELSE r.id,
   count |-> IF r.kind = "subscribe" THEN Len(r.topics) ELSE 1]

(* What is written, read as MQTT, is what was wanted in answer to the first*)
(* m requests that were asked, in their order, and no more.                *)
Answered(asks, m, written) ==
  LET left[n \in 0..m] ==   \* of what is written, after the answers to n requests
        IF n = 0 THEN written
        ELSE IF WantsAnswer(asks[n]) THEN ReadPacket(left[n - 1]).rest
        ELSE left[n - 1]
  IN  /\ left[m] = <<>>
      /\ \A n \in 1..m : WantsAnswer(asks[n]) =>
           LET pkt == ReadPacket(left[n - 1])
           IN  pkt.ok /\ Hears(pkt) = Wanted(asks[n])

(* The server answers the requests that came through whole and no others,  *)
(* in their order, each with its packet id and a grant per filter.         *)
AnsweredAsAsked ==
  last \in Conversations => Answered(Client[last.client].asks, last.heard, last.written)

(* "At most once per window per device id": two reports of refusals of a   *)
(* device are a window apart, although sessions read the time before they  *)
(* take the lock.                                                          *)
OneReportPerWindow ==
  \A d \in DeviceId : \A i, j \in DOMAIN refused[d] :
    i < j /\ refused[d][i].report /\ refused[d][j].report =>
      refused[d][j].at - refused[d][i].at >= RejectionWindow

(* "The count is carried in the record so the suppression is visible": a   *)
(* report carries how many refusals went unreported before it and the time *)
(* of the first of them, so that none is lost from the record.             *)
ReportsTellAll ==
  \A d \in DeviceId : \A i \in DOMAIN refused[d] :
    refused[d][i].report =>
      LET previous == SelectLastInSubSeq(refused[d], 1, i - 1, LAMBDA r : r.report)
          unreported == SubSeq(refused[d], previous + 1, i - 1)
      IN  /\ refused[d][i].suppressed = Len(unreported)
          /\ refused[d][i].since = IF unreported = <<>> THEN Nil ELSE unreported[1].at

(* The record of refusals is limited and loses none.                       *)
RefusalsReported == OneReportPerWindow /\ ReportsTellAll

(* A duplicate id is warned of only if that many takeovers of the device   *)
(* did happen within the window, and always then, as long as sessions take *)
(* the lock in the order in which they read the time.                      *)
WarnsOfDuplicates ==
  \A d \in DeviceId : \A i \in DOMAIN taken[d] :
    LET recent == {j \in 1..i : taken[d][i].at - taken[d][j].at < TakeoverWindow}
        inOrder == \A j, k \in 1..i : j < k => taken[d][j].at <= taken[d][k].at
        often == Cardinality(recent) >= TakeoverThreshold
    IN  /\ taken[d][i].warned => often
        /\ inOrder /\ often => taken[d][i].warned

=============================================================================
