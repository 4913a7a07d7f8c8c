------------------------------ MODULE Commands ------------------------------
(***************************************************************************)
(* lights.Service.Apply and session.Apply: several front-ends move one     *)
(* adopted lamp, over one connection, and wait for it to confirm.          *)
(*                                                                         *)
(* A caller takes a step per access to shared state.  A command's id and   *)
(* seq are both made from the millisecond in which it is encoded, so the   *)
(* two tables of a session, always changed together, are one table from    *)
(* milliseconds to callers.  completeCommand and completeBySeq look up the *)
(* waiting command and fill its channel in one step: between the two the   *)
(* caller can only have given up, and then its channel has no reader.      *)
(*                                                                         *)
(* The lamp is external: it handles commands in the order in which they    *)
(* were written, accepts or rejects each, and acknowledges it, reports the *)
(* new value, does both, or says nothing.                                  *)
(***************************************************************************)
EXTENDS Lights

CONSTANTS
  Caller,       \* goroutines that call Service.Apply: terminal, bridge
  Caps,         \* Bulb.Capabilities of the lamp
  Requests,     \* the changes each caller may ask for
  Reported,     \* the states the registry may start from
  MaxCalls,     \* bound on the calls of one caller
  MaxClock      \* bound on the milliseconds that pass

ASSUME CommandsAssumption ==
  /\ Nil \notin Caller
  /\ Nil \notin {"ok", "rejected"}
  /\ Caps \in Capabilities
  /\ Requests \in [Caller -> SUBSET Change]
  /\ Reported \subseteq LightState
  /\ {MaxCalls, MaxClock} \subseteq Nat

VARIABLES
  clock,       \* milliseconds
  listed,      \* the registry has the lamp connected, with this driver
  closed,      \* session.closed
  open,        \* the socket
  state,       \* Bulb.State, the reported state in the registry
  down, up,    \* the two directions of the connection
  table,       \* session.pending and pendingSeq
  calls,       \* calls a caller has made
  pc,          \* where a caller is
  change,      \* what it was asked for
  want,        \* what resolve made of it
  props,       \* the properties still to be sent, the current one first
  stamp,       \* the millisecond of its current command
  done,        \* pendingCommand.done, a channel of one place
  expired,     \* its context is done
  unconfirmed, \* some property was not confirmed
  result,      \* what its last call returned
  fate,        \* history: what the lamp did with its current command
  sent,        \* history: how many commands each millisecond has stamped
  stale        \* history: calls resolved against a state that has changed

callVars == <<calls, pc, change, want, props, stamp, done, expired, unconfirmed, result>>
conn == <<listed, closed, open>>
history == <<fate, sent, stale>>
vars == <<clock, conn, state, down, table, callVars, up, history>>

PC == {"idle", "driver", "view", "encode", "write", "wait"}

Dark == [power |-> FALSE, brightness |-> 0, temp |-> 0]

Init ==
  /\ clock = 0
  /\ listed = TRUE
  /\ closed = FALSE
  /\ open = TRUE
  /\ state \in Reported
  /\ down = <<>>
  /\ up = <<>>
  /\ table = [t \in 0..MaxClock |-> Nil]
  /\ calls = [c \in Caller |-> 0]
  /\ pc = [c \in Caller |-> "idle"]
  /\ change = [c \in Caller |-> NoChange]
  /\ want = [c \in Caller |-> Dark]
  /\ props = [c \in Caller |-> <<>>]
  /\ stamp = [c \in Caller |-> 0]
  /\ done = [c \in Caller |-> Nil]
  /\ expired = [c \in Caller |-> FALSE]
  /\ unconfirmed = [c \in Caller |-> FALSE]
  /\ result = [c \in Caller |-> "none"]
  /\ fate = [c \in Caller |-> "none"]
  /\ sent = [t \in 0..MaxClock |-> 0]
  /\ stale = {}

Goto(c, label) == pc' = [pc EXCEPT ![c] = label]

-----------------------------------------------------------------------------
(* The call returns r, and its locals are gone.                            *)
Return(c, r) ==
  /\ Goto(c, "idle")
  /\ result' = [result EXCEPT ![c] = r]
  /\ change' = [change EXCEPT ![c] = NoChange]
  /\ want' = [want EXCEPT ![c] = Dark]
  /\ props' = [props EXCEPT ![c] = <<>>]
  /\ expired' = [expired EXCEPT ![c] = FALSE]
  /\ unconfirmed' = [unconfirmed EXCEPT ![c] = FALSE]
  /\ stale' = stale \ {c}

(* The variables Return changes besides pc.                                *)
locals == <<change, want, props, expired, unconfirmed, result, stale>>

(* Service.Apply: the lamp must be connected, and resolve must accept.     *)
Call(c, ch) ==
  /\ pc[c] = "idle"
  /\ calls[c] < MaxCalls
  /\ calls' = [calls EXCEPT ![c] = @ + 1]
  /\ IF ~listed \/ Refused(Caps, ch)
     THEN /\ result' = [result EXCEPT ![c] = "refused"]
          /\ UNCHANGED <<pc, change, want>>
     ELSE /\ change' = [change EXCEPT ![c] = ch]
          /\ want' = [want EXCEPT ![c] = Resolve(state, ch)]
          /\ Goto(c, "driver")
          /\ UNCHANGED result
  /\ UNCHANGED <<clock, conn, state, down, table, up, history>>
  /\ UNCHANGED <<props, stamp, done, expired, unconfirmed>>

(* Service.Apply looks the driver up in a second call of the registry.     *)
(* What it records with SetDesired is for display only and left out.       *)
TakeDriver(c) ==
  /\ pc[c] = "driver"
  /\ IF ~listed
     THEN Return(c, "refused")
     ELSE Goto(c, "view") /\ UNCHANGED locals
  /\ UNCHANGED <<clock, conn, state, down, table, up, fate, sent>>
  /\ UNCHANGED <<calls, stamp, done>>

(* session.Apply compares the wanted state with the state as it is now.    *)
View(c) ==
  /\ pc[c] = "view"
  /\ LET todo == ChangedProps(Caps, state, want[c])
     IN  IF todo = <<>>
         THEN Return(c, "ok")
         ELSE /\ props' = [props EXCEPT ![c] = todo]
              /\ Goto(c, "encode")
              /\ UNCHANGED <<change, want, expired, unconfirmed, result, stale>>
  /\ UNCHANGED <<clock, conn, state, down, table, up, fate, sent>>
  /\ UNCHANGED <<calls, stamp, done>>

(* protocol.EncodeCommand makes the id and the seq of a command from the   *)
(* time alone.                                                             *)
EncodeCommand == clock

(* session.applyOne: encode, and enter the command in the tables unless    *)
(* the connection has been closed.                                         *)
Enter(c) ==
  /\ pc[c] = "encode"
  /\ IF ~closed
     THEN /\ table' = [table EXCEPT ![EncodeCommand] = c]
          /\ stamp' = [stamp EXCEPT ![c] = EncodeCommand]
          /\ sent' = [sent EXCEPT ![EncodeCommand] = @ + 1]
          /\ Goto(c, "write")
          /\ UNCHANGED locals
     ELSE Return(c, "failed") /\ UNCHANGED <<table, stamp, sent>>
  /\ UNCHANGED <<clock, conn, state, down, up, calls, done, fate>>

(* The deferred cleanup that keeps an entry whose caller gave up.  A       *)
(* mutant.                                                                 *)
CleanupOnAnswer(c) ==
  table' = IF done[c] = Nil THEN table ELSE [table EXCEPT ![stamp[c]] = Nil]

(* The deferred cleanup deletes by key, whoever owns the entry by now.     *)
Cleanup(c) == table' = [table EXCEPT ![stamp[c]] = Nil]

(* The pendingCommand of the command is garbage.                           *)
Forget(c) ==
  /\ stamp' = [stamp EXCEPT ![c] = 0]
  /\ done' = [done EXCEPT ![c] = Nil]
  /\ fate' = [fate EXCEPT ![c] = "none"]

(* The command goes on the wire, and the caller waits.                     *)
Write(c) ==
  /\ pc[c] = "write"
  /\ open
  /\ down' = Append(down, [by |-> c, stamp |-> stamp[c], prop |-> Head(props[c])])
  /\ Goto(c, "wait")
  /\ UNCHANGED <<clock, conn, state, up, calls, sent>>
  /\ UNCHANGED <<table, stamp, done, fate, locals>>

(* A write fails on a closed connection, and by its deadline or a reset on *)
(* one that still counts as open; it ends the call, and nothing arrives.   *)
WriteFails(c) ==
  /\ pc[c] = "write"
  /\ Cleanup(c)
  /\ Forget(c)
  /\ Return(c, "failed")
  /\ UNCHANGED <<clock, conn, state, down, up, calls, sent>>

(* On to the next property, or back to the caller.                         *)
NextProp(c, missed) ==
  IF Len(props[c]) > 1
  THEN /\ props' = [props EXCEPT ![c] = Tail(@)]
       /\ unconfirmed' = [unconfirmed EXCEPT ![c] = missed]
       /\ Goto(c, "encode")
       /\ UNCHANGED <<change, want, expired, result, stale>>
  ELSE Return(c, IF missed THEN "unconfirmed" ELSE "ok")

(* The select of applyOne, with an answer in the channel.                  *)
Answered(c) ==
  /\ pc[c] = "wait"
  /\ done[c] # Nil
  /\ Cleanup(c)
  /\ Forget(c)
  /\ IF done[c] = "rejected" THEN Return(c, "failed") ELSE NextProp(c, unconfirmed[c])
  /\ UNCHANGED <<clock, conn, state, down, up, calls, sent>>

(* The select of applyOne without its ctx.Done case.  A mutant.            *)
GiveUpNever(c) == FALSE /\ UNCHANGED vars

(* The select of applyOne, with the context done.                          *)
GiveUp(c) ==
  /\ pc[c] = "wait"
  /\ expired[c]
  /\ Cleanup(c)
  /\ Forget(c)
  /\ NextProp(c, TRUE)
  /\ UNCHANGED <<clock, conn, state, down, up, calls, sent>>

(* The timeout of Service.Apply.  Nothing but the select looks at it, and  *)
(* it stays expired for the properties that follow.                        *)
Expire(c) ==
  /\ pc[c] = "wait"
  /\ ~expired[c]
  /\ expired' = [expired EXCEPT ![c] = TRUE]
  /\ UNCHANGED <<clock, conn, state, down, table, up, history>>
  /\ UNCHANGED <<calls, pc, change, want, props, stamp, done, unconfirmed, result>>

-----------------------------------------------------------------------------
(* The answer to whatever waits for it.  A mutant.                         *)
DeliverAnyone(t, answer) ==
  done' = [c \in Caller |-> IF \E u \in DOMAIN table : table[u] = c THEN answer ELSE done[c]]

(* completeCommand, completeBySeq and deliver: the command that waits for  *)
(* this answer, if there is one, gets it, unless it has one already.       *)
Deliver(t, answer) ==
  done' = [c \in Caller |-> IF table[t] = c /\ done[c] = Nil THEN answer ELSE done[c]]

(* The read loop handles an acknowledgement.                               *)
HandleReply ==
  /\ listed /\ open
  /\ up # <<>>
  /\ Head(up).kind = "ack"
  /\ Deliver(Head(up).stamp, IF Head(up).accepted THEN "ok" ELSE "rejected")
  /\ up' = Tail(up)
  /\ UNCHANGED <<clock, conn, state, down, table, history>>
  /\ UNCHANGED <<calls, pc, change, want, props, stamp, expired, unconfirmed, result>>

(* The read loop handles a report: SetState, then completeBySeq.           *)
HandleReport ==
  /\ listed /\ open
  /\ up # <<>>
  /\ Head(up).kind = "report"
  /\ state' = [state EXCEPT ![Head(up).prop.name] = Head(up).prop.value]
  /\ Deliver(Head(up).stamp, "ok")
  /\ stale' = IF state' = state THEN stale
              ELSE stale \cup {c \in Caller : pc[c] \in {"driver", "view"}}
  /\ up' = Tail(up)
  /\ UNCHANGED <<clock, conn, down, table, fate, sent>>
  /\ UNCHANGED <<calls, pc, change, want, props, stamp, expired, unconfirmed, result>>

-----------------------------------------------------------------------------
(* What is under way on a socket is lost with it.                          *)
ShutSocket ==
  /\ open' = FALSE
  /\ down' = <<>>
  /\ up' = <<>>

(* session.Close, by a takeover or at shutdown.                            *)
Close ==
  /\ ~closed
  /\ closed' = TRUE
  /\ ShutSocket
  /\ UNCHANGED <<clock, listed, state, table, callVars, history>>

(* serve returns: Disconnect, then conn.Close.                             *)
Disconnect ==
  /\ listed
  /\ listed' = FALSE
  /\ UNCHANGED <<clock, closed, open, state, down, table, callVars, up, history>>

CloseSocket ==
  /\ ~listed
  /\ open
  /\ ShutSocket
  /\ UNCHANGED <<clock, listed, closed, state, table, callVars, history>>

(* Time passes; a millisecond that stamps no command makes no difference.  *)
Tick ==
  /\ clock < MaxClock
  /\ sent[clock] > 0
  /\ clock' = clock + 1
  /\ UNCHANGED <<conn, state, down, table, callVars, up, history>>

-----------------------------------------------------------------------------
(* What the lamp may say about a command it has handled.                   *)
Answers(m) ==
  LET ack(ok) == [kind |-> "ack", stamp |-> m.stamp, accepted |-> ok]
      report == [kind |-> "report", stamp |-> m.stamp, prop |-> m.prop]
  IN  [accepted |-> {<<>>, <<ack(TRUE)>>, <<report>>, <<ack(TRUE), report>>},
       rejected |-> {<<ack(FALSE)>>}]

(* External: the lamp handles the next command.                            *)
LampHandles ==
  /\ open
  /\ down # <<>>
  /\ LET m == Head(down)
     IN  \E verdict \in {"accepted", "rejected"} :
           /\ \E a \in Answers(m)[verdict] : up' = up \o a
           /\ fate' = IF pc[m.by] = "wait" /\ stamp[m.by] = m.stamp
                      THEN [fate EXCEPT ![m.by] = verdict] ELSE fate
  /\ down' = Tail(down)
  /\ UNCHANGED <<clock, conn, state, table, callVars, sent, stale>>

-----------------------------------------------------------------------------
CallerStep(c) ==
  \/ TakeDriver(c) \/ View(c) \/ Enter(c)
  \/ Write(c) \/ WriteFails(c) \/ Answered(c) \/ GiveUp(c)

Next ==
  \/ \E c \in Caller : \/ \E ch \in Requests[c] : Call(c, ch)
                      \/ CallerStep(c) \/ Expire(c)
  \/ HandleReply \/ HandleReport
  \/ Close \/ Disconnect \/ CloseSocket \/ Tick
  \/ LampHandles

(* A runnable goroutine runs, a write ends by its 10 s deadline, and the   *)
(* timeout of a call fires.  Nothing is assumed of the lamp.               *)
Fairness ==
  \A c \in Caller : WF_vars(CallerStep(c)) /\ WF_vars(Expire(c))

Spec == Init /\ [][Next]_vars

FairSpec == Spec /\ Fairness

-----------------------------------------------------------------------------
(* An entry of the tables belongs to a call that is waiting for it: none   *)
(* is left behind by an answer, a timeout or a failed write (applyOne), so *)
(* no late answer finds a command that is over.                            *)
PendingHasWaiter ==
  \A t \in 0..MaxClock : table[t] # Nil =>
    pc[table[t]] \in {"write", "wait"} /\ stamp[table[t]] = t

(* A caller is told what the lamp did with its own command, as long as no  *)
(* other command of the session was encoded in the same millisecond: late, *)
(* duplicate and foreign confirmations are not mistaken for it.            *)
AnswerIsTrue ==
  \A c \in Caller :
    pc[c] = "wait" /\ sent[stamp[c]] = 1 =>
      /\ done[c] = "ok" => fate[c] = "accepted"
      /\ done[c] = "rejected" => fate[c] = "rejected"

(* Apply returns, whether the lamp answers, is silent, or goes away.       *)
ApplyReturns == \A c \in Caller : pc[c] # "idle" ~> pc[c] = "idle"

(* The properties a change is about: what it names, the power that its     *)
(* brightness implies, and the brightness of a lamp turned on at zero.     *)
About(ch, w) ==
  {f \in {"power", "brightness", "temp"} : ch[f] # Nil}
    \cup (IF ch.brightness # Nil THEN {"power"} ELSE {})
    \cup (IF ch.power = TRUE /\ w.brightness = Full THEN {"brightness"} ELSE {})

(* A caller sends no command for a field its change leaves alone, as long  *)
(* as the state its change was resolved against (Service.resolve) is still *)
(* the state that session.Apply compares the result with.                  *)
LeavesTheRestAlone ==
  \A c \in Caller :
    pc[c] = "write" /\ c \notin stale => Head(props[c]).name \in About(change[c], want[c])

=============================================================================
