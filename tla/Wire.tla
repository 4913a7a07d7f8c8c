-------------------------------- MODULE Wire --------------------------------
(***************************************************************************)
(* internal/protocol/mqtt.go: the packets of MQTT 3.1.1, as sequences of   *)
(* bytes.  A decoder answers with a record whose field ok is FALSE where   *)
(* the code returns an error; which error it is does not matter.           *)
(***************************************************************************)
EXTENDS Naturals, Sequences, SequencesExt

TypeConnect     == 1
TypePublish     == 3
TypePuback      == 4
TypeSubscribe   == 8
TypeSuback      == 9
TypePingreq     == 12
TypePingresp    == 13
TypeDisconnect  == 14

MaxPacketSize == 1048576   \* 1 << 20

Byte == 0..255

Failed == [ok |-> FALSE]

(* b & n # 0, for a power of two n.                                        *)
Bit(b, n) == (b \div n) % 2 = 1

(* binary.BigEndian: a uint16 wraps; it is read after the first i bytes.   *)
AppendUint16(n) == <<(n \div 256) % 256, n % 256>>
Uint16(b, i) == 256 * b[i + 1] + b[i + 2]

-----------------------------------------------------------------------------
(* appendVarint: digits to the base 128, the lowest first, each but the    *)
(* last with its highest bit set.  Digit number i counts Weight[i].        *)
Weight == <<1, 128, 16384, 2097152, 268435456>>

AppendVarint(n) ==
  LET digits == CHOOSE k \in 1..5 : /\ k = 5 \/ n < Weight[k + 1]
                                    /\ k = 1 \/ n >= Weight[k]
  IN  [i \in 1..digits |-> ((n \div Weight[i]) % 128) + IF i < digits THEN 128 ELSE 0]

(* readVarint after the first byte: at most four digits.                   *)
MaxVarint == 268435455   \* 128^4 - 1

ReadVarint(b) ==
  LET ends == {i \in 1..4 : /\ i + 1 <= Len(b)
                            /\ b[i + 1] < 128
                            /\ \A j \in 1..(i - 1) : b[j + 1] >= 128}
      digits == CHOOSE i \in ends : TRUE
      term(i) == IF i <= digits THEN (b[i + 1] % 128) * Weight[i] ELSE 0
  IN  IF ends = {} THEN Failed
      ELSE [ok |-> TRUE, value |-> term(1) + term(2) + term(3) + term(4), next |-> digits + 1]

Encode(type, flags, payload) == <<16 * type + flags>> \o AppendVarint(Len(payload)) \o payload

(* ReadPacket on what has come of a stream that is then cut.               *)
ReadPacket(b) ==
  LET length == ReadVarint(b)
      end == length.next + length.value
  IN  IF \/ b = <<>> \/ ~length.ok
         \/ length.value > MaxPacketSize
         \/ end > Len(b)
      THEN Failed
      ELSE [ok      |-> TRUE,
            type    |-> b[1] \div 16,
            flags   |-> b[1] % 16,
            payload |-> SubSeq(b, length.next + 1, end),
            rest    |-> SubSeq(b, end + 1, Len(b))]

QoS(pkt) == (pkt.flags \div 2) % 4

-----------------------------------------------------------------------------
AppendString(s) == AppendUint16(Len(s)) \o s

(* readString after the first i bytes.                                     *)
ReadString(b, i) ==
  IF i + 2 > Len(b) \/ i + 2 + Uint16(b, i) > Len(b) THEN Failed
  ELSE LET next == i + 2 + Uint16(b, i)
       IN  [ok |-> TRUE, value |-> SubSeq(b, i + 3, next), next |-> next]

(* The string after the one that was read, if it is there to be read.      *)
ThenString(b, previous, present) ==
  IF ~previous.ok THEN Failed
  ELSE IF present THEN ReadString(b, previous.next)
  ELSE [ok |-> TRUE, value |-> <<>>, next |-> previous.next]

(* ConnectOptions; a string has a length of 16 bits.                       *)
MaxUint16 == 65535

String == {s \in Seq(Byte) : Len(s) <= MaxUint16}

ConnectOptions ==
  [cleanSession : BOOLEAN, keepAlive : 0..MaxUint16,
   willTopic : String, willPayload : String, willQoS : Byte, willRetain : BOOLEAN,
   clientID : String, username : String, password : String]

(* EncodeConnect: an empty field is not sent.                              *)
ConnectFlags(o) ==
  (IF o.cleanSession THEN 2 ELSE 0)
    + (IF o.willTopic # <<>> THEN 4 + 8 * (o.willQoS % 4) + (IF o.willRetain THEN 32 ELSE 0) ELSE 0)
    + (IF o.password # <<>> THEN 64 ELSE 0)
    + (IF o.username # <<>> THEN 128 ELSE 0)

Given(present, s) == IF present THEN AppendString(s) ELSE <<>>

ConnectBody(o) ==
  AppendString(<<77, 81, 84, 84>>) \o <<4, ConnectFlags(o)>> \o AppendUint16(o.keepAlive)
    \o AppendString(o.clientID)
    \o Given(o.willTopic # <<>>, o.willTopic)
    \o Given(o.willTopic # <<>>, o.willPayload)
    \o Given(o.username # <<>>, o.username)
    \o Given(o.password # <<>>, o.password)

EncodeConnect(o) == Encode(TypeConnect, 0, ConnectBody(o))

(* DecodeConnect that takes the will for the user name.  A mutant.         *)
DecodeConnectNoWill(b) ==
  LET name     == ReadString(b, 0)
      header   == name.ok /\ name.next + 4 <= Len(b)
      flags    == b[name.next + 2]
      clientID == IF header THEN ReadString(b, name.next + 4) ELSE Failed
      username == ThenString(b, clientID, header /\ Bit(flags, 128))
      password == ThenString(b, username, header /\ Bit(flags, 64))
  IN  IF ~password.ok THEN Failed
      ELSE [ok |-> TRUE, keepAlive |-> Uint16(b, name.next + 2), clientID |-> clientID.value,
            username |-> username.value, password |-> password.value]

(* DecodeConnect; the will is skipped.                                     *)
DecodeConnect(b) ==
  LET name     == ReadString(b, 0)
      header   == name.ok /\ name.next + 4 <= Len(b)
      flags    == b[name.next + 2]
      clientID == IF header THEN ReadString(b, name.next + 4) ELSE Failed
      topic    == ThenString(b, clientID, header /\ Bit(flags, 4))
      message  == ThenString(b, topic, header /\ Bit(flags, 4))
      username == ThenString(b, message, header /\ Bit(flags, 128))
      password == ThenString(b, username, header /\ Bit(flags, 64))
  IN  IF ~password.ok THEN Failed
      ELSE [ok |-> TRUE, keepAlive |-> Uint16(b, name.next + 2), clientID |-> clientID.value,
            username |-> username.value, password |-> password.value]

-----------------------------------------------------------------------------
EncodeSubscribe(id, qos, topics) ==
  Encode(TypeSubscribe, 2,
    AppendUint16(id) \o FlattenSeq([i \in DOMAIN topics |-> AppendString(topics[i]) \o <<qos>>]))

(* DecodeSubscribe: after the packet id, filters with a byte each.         *)
DecodeSubscribe(b) ==
  LET after[n \in 0..Len(b)] ==   \* n rounds of the loop
        LET before == after[n - 1]
            topic == ReadString(b, before.next)
        IN  IF n = 0 THEN [ok |-> TRUE, topics |-> <<>>, next |-> 2]
            ELSE IF ~before.ok \/ before.next >= Len(b) THEN before
            ELSE IF ~topic.ok THEN Failed
            ELSE IF topic.next >= Len(b) THEN Failed
            ELSE [ok |-> TRUE, topics |-> Append(before.topics, topic.value), next |-> topic.next + 1]
  IN  IF Len(b) < 2 \/ ~after[Len(b)].ok THEN Failed
      ELSE [ok |-> TRUE, id |-> Uint16(b, 0), topics |-> after[Len(b)].topics]

(* EncodeSuback that grants once whatever was asked.  A mutant.            *)
EncodeSubackOnce(id, n) == Encode(TypeSuback, 0, AppendUint16(id) \o <<0>>)

EncodeSuback(id, n) == Encode(TypeSuback, 0, AppendUint16(id) \o [i \in 1..n |-> 0])

DecodeSuback(b) ==
  IF Len(b) < 3 THEN Failed ELSE [ok |-> TRUE, id |-> Uint16(b, 0), granted |-> SubSeq(b, 3, Len(b))]

EncodePublishQoS1(topic, payload, id, retain) ==
  Encode(TypePublish, IF retain THEN 3 ELSE 2, AppendString(topic) \o AppendUint16(id) \o payload)

(* EncodePublish and EncodePublishRetained.                                *)
EncodePublishQoS0(topic, payload, retain) ==
  Encode(TypePublish, IF retain THEN 1 ELSE 0, AppendString(topic) \o payload)

DecodePublish(b, qos) ==
  LET topic == ReadString(b, 0)
      i == topic.next + IF qos > 0 THEN 2 ELSE 0
  IN  IF ~topic.ok THEN Failed
      ELSE IF i > Len(b) THEN Failed
      ELSE [ok |-> TRUE, topic |-> topic.value, payload |-> SubSeq(b, i + 1, Len(b)),
            id |-> IF qos > 0 THEN Uint16(b, topic.next) ELSE 0]

EncodePuback(id) == Encode(TypePuback, 0, AppendUint16(id))

EncodeDisconnect == Encode(TypeDisconnect, 0, <<>>)

Pingresp == <<16 * TypePingresp, 0>>

=============================================================================
