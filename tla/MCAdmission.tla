---------------------------- MODULE MCAdmission ----------------------------
(***************************************************************************)
(* Clients of the server: the configured lamp "a", without and with a      *)
(* will, the stranger "b", which has no user name, one without an          *)
(* identity, and two that are no bulbs.  The bodies of the CONNECT of the  *)
(* first lamp and of the stranger have 127 and 128 bytes.                  *)
(***************************************************************************)
EXTENDS Admission

CONSTANTS s1, s2, s3, s4

a == 97
b == 98
k == 107
Amp == 38
Dot == 46
Bar == 124

LampA == <<a>>
StrangerB == <<b>>
Ids == {LampA, StrangerB}
OnlyA == {LampA}
NoVersions == [f \in {} |-> {}]

Options == [cleanSession |-> TRUE, keepAlive |-> 300, willTopic |-> <<>>, willPayload |-> <<>>,
            willQoS |-> 1, willRetain |-> TRUE, clientID |-> <<k>>, username |-> <<>>, password |-> <<>>]

SomeBytes(n) == [i \in 1..n |-> a]

Ping == [kind |-> "ping", id |-> 0, topics |-> <<>>, qos |-> 0, payload |-> <<>>, retain |-> FALSE]
Bye == [Ping EXCEPT !.kind = "bye"]
Subscribe(id, topics) == [Ping EXCEPT !.kind = "subscribe", !.id = id, !.topics = topics]
Report(id) == [Ping EXCEPT !.kind = "publish", !.id = id, !.topics = <<<<b>>>>, !.payload = <<a, a>>]
Log == [Ping EXCEPT !.kind = "log", !.topics = <<<<b>>>>, !.payload = <<a>>, !.retain = TRUE]

Speaks(options, device, asks) ==
  [options |-> options, connect |-> EncodeConnect(options), device |-> device, asks |-> asks]

NoBulbSays(bytes) == [options |-> Nil, connect |-> bytes, device |-> Nil, asks |-> <<>>]

Named(n, password) ==
  [Options EXCEPT !.username = <<n, Amp, k>>, !.clientID = <<k, Dot, n, Bar>>, !.password = SomeBytes(password)]

Clients ==
  [ lamp     |-> Speaks(Named(a, 104), LampA, <<Subscribe(258, <<<<a>>, <<a, b>>>>), Log, Ping>>),
    willed   |-> Speaks([Named(a, 1) EXCEPT !.willTopic = <<b, Amp, k>>, !.willPayload = <<b>>], LampA, <<Report(513), Bye>>),
    stranger |-> Speaks([Named(b, 110) EXCEPT !.username = <<>>], StrangerB, <<>>),
    nameless |-> Speaks([Options EXCEPT !.username = <<Amp, k>>], Nil, <<>>),
    other    |-> NoBulbSays(EncodeSubscribe(1, 0, <<<<a>>>>)),
    endless  |-> NoBulbSays(<<16, 129, 128, 64>> \o SomeBytes(4)) ]

Alike == Permutations(Session)

=============================================================================
