----------------------------- MODULE MqttClient -----------------------------
(***************************************************************************)
(* internal/mqtt/client.go: the connection to the household's broker, and  *)
(* the broker (external) as far as the client depends on it: retained      *)
(* messages, the subscription of the current connection and the last will. *)
(*                                                                         *)
(* The client's session goroutine is one process (`sess`).  The other      *)
(* goroutines that write to the connection are in module Bridge.  Packet   *)
(* encodings, packet identifiers, keep-alive pings and the lengths of the  *)
(* back-off are left out: a ping only makes the death of a connection      *)
(* known sooner.                                                           *)
(***************************************************************************)
EXTENDS Naturals

CONSTANTS
  Topic,        \* the retained topics
  Status,       \* the topic of the server's own availability, and of the will
  Nil           \* no retained message

VARIABLES
  sess,         \* where Client.Run is: no session, one that subscribes, one
                \* that reads, or returned; c.conn is set in a session
  connects,     \* the number of connections made
  wire,         \* the connection: "none", "up", or "dead" (broken or closed)
  will,         \* the broker holds a will that no DISCONNECT has discarded
  handlers,     \* c.handlers has the command filter
  subscribed,   \* the broker delivers commands on the current connection
  retained,     \* the broker's retained messages
  lost,         \* topics (but Status) whose latest message never arrived
  stopping      \* ctx is cancelled

sessionVars == <<sess, connects, wire, handlers, stopping>>
brokerVars == <<will, subscribed, retained, lost>>
clientVars == <<sess, connects, wire, will, handlers, subscribed, retained, lost, stopping>>

ClientInit ==
  /\ sess = "down"
  /\ connects = 0
  /\ wire = "none"
  /\ will = FALSE
  /\ handlers = FALSE
  /\ subscribed = FALSE
  /\ retained = [t \in Topic |-> Nil]
  /\ lost = {}
  /\ stopping = FALSE

(* c.conn # nil *)
HasConn == sess \in {"resub", "reading"}

-----------------------------------------------------------------------------
(* writeRaw: a message reaches the broker, or is swallowed by a connection *)
(* whose death the client has not noticed, or the caller gets an error:    *)
(* ErrNotConnected, or the failure or deadline of the write.  A connection *)
(* that the broker has stopped reading is dead.                            *)
Arrives == HasConn /\ wire = "up"
Swallowed == HasConn /\ wire = "dead"
WriteFails == ~Arrives

(* Publish of a retained message v on t.                                   *)
Deliver(t, v) ==
  /\ Arrives
  /\ retained' = [retained EXCEPT ![t] = v]
  /\ lost' = lost \ {t}
  /\ UNCHANGED <<will, subscribed, sessionVars>>

Miss(t) ==
  /\ lost' = lost \cup ({t} \ {Status})
  /\ UNCHANGED <<will, subscribed, retained, sessionVars>>

(* Subscribe that leaves the sending to the next connection.  A mutant.    *)
SendsItselfNever == FALSE

(* Subscribe enters the handler and reads c.conn in one critical section;  *)
(* with a connection it sends the subscription itself, without one the     *)
(* next connection does.  (A connection that is replaced before the write  *)
(* makes no difference: the next one reads the handlers anew.)             *)
SendsItself == HasConn

SubscribeCommands ==
  /\ handlers' = TRUE
  /\ subscribed' = (subscribed \/ (SendsItself /\ Arrives))
  /\ UNCHANGED <<sess, connects, wire, stopping, will, retained, lost>>

-----------------------------------------------------------------------------
(* handshake without a will in CONNECT.  A mutant.                         *)
HandshakeWithoutWill ==
  /\ retained' = IF will THEN [retained EXCEPT ![Status] = "offline"] ELSE retained
  /\ will' = FALSE

(* What CONNECT does at the broker: a connection of the same client id     *)
(* that it still holds is closed, which fires its will, and the new will   *)
(* is stored.                                                              *)
Handshake ==
  /\ retained' = IF will THEN [retained EXCEPT ![Status] = "offline"] ELSE retained
  /\ will' = TRUE

(* Run tries again for as long as ctx lives, and a try under way when ctx  *)
(* ends may still succeed; a dial or a handshake that fails is a try that  *)
(* has not succeeded yet.                                                  *)
Retries == sess = "down"

(* Run finds ctx cancelled: between two tries, or after a failed one.      *)
RunReturns ==
  /\ sess = "down"
  /\ stopping
  /\ sess' = "ended"
  /\ UNCHANGED <<connects, wire, handlers, stopping, brokerVars>>

(* session has returned, and Run looks at ctx before anything else.        *)
AfterSession == IF stopping THEN "ended" ELSE "down"

(* The dial and the handshake succeed; c.conn is set and c.handlers read   *)
(* in one critical section.  The session is clean: nothing is subscribed.  *)
Connect ==
  /\ Retries
  /\ Handshake
  /\ connects' = connects + 1
  /\ wire' = "up"
  /\ sess' = IF handlers THEN "resub" ELSE "reading"
  /\ subscribed' = FALSE
  /\ UNCHANGED <<handlers, stopping, lost>>

(* The subscriptions of an earlier connection are sent again.              *)
Resubscribe ==
  /\ sess = "resub"
  /\ \/ Arrives /\ subscribed' = TRUE
     \/ Swallowed /\ UNCHANGED subscribed
  /\ sess' = "reading"
  /\ UNCHANGED <<connects, wire, handlers, stopping, will, retained, lost>>

(* ... or not, which ends the session.                                     *)
ResubscribeFails ==
  /\ sess = "resub"
  /\ WriteFails
  /\ sess' = AfterSession
  /\ wire' = "none"
  /\ UNCHANGED <<connects, handlers, stopping, brokerVars>>

(* readLoop notices the end of the connection, which takes as long as the  *)
(* handler of a command that it has called; session returns.  Commands are *)
(* the subject of module Commands and change nothing here.                 *)
SessionEnds ==
  /\ sess = "reading"
  /\ wire = "dead"
  /\ sess' = AfterSession
  /\ wire' = "none"
  /\ UNCHANGED <<connects, handlers, stopping, brokerVars>>

(* The AfterFunc of session: DISCONNECT, which discards the will, and the  *)
(* end of the connection.                                                  *)
Depart ==
  /\ stopping
  /\ sess = "reading"
  /\ wire = "up"
  /\ will' = FALSE
  /\ wire' = "dead"
  /\ UNCHANGED <<sess, connects, handlers, stopping, subscribed, retained, lost>>

(* The network or the broker drops the connection.  External.              *)
LinkDies ==
  /\ wire = "up"
  /\ wire' = "dead"
  /\ UNCHANGED <<sess, connects, handlers, stopping, brokerVars>>

(* The broker notices that a connection has ended without DISCONNECT.      *)
(* External.                                                               *)
WillFires ==
  /\ will
  /\ wire # "up"
  /\ retained' = [retained EXCEPT ![Status] = "offline"]
  /\ will' = FALSE
  /\ UNCHANGED <<sessionVars, subscribed, lost>>

(* The steps of the client and the broker that touch nothing else; Connect *)
(* and Resubscribe may start OnConnect.                                    *)
ClientStep ==
  \/ ResubscribeFails
  \/ SessionEnds
  \/ RunReturns
  \/ Depart
  \/ LinkDies
  \/ WillFires

=============================================================================
