------------------------------- MODULE Control -------------------------------
(***************************************************************************)
(* internal/control: the vocabulary of the terminal.  A typed line is      *)
(* reduced to its verb (aliases folded), how many arguments follow it, the *)
(* target, the number its second argument spells, Nil if none, and the     *)
(* text it would otherwise be.                                             *)
(***************************************************************************)
EXTENDS Lights, Integers

Verbs == {"list", "on", "off", "bri", "color", "temp", "name", "info", "help", "quit"}

(* Commands that say nothing of a lamp.                                    *)
Global == {"list", "help", "quit"}

(* Parse: the lines it accepts.                                            *)
WellFormed(line) ==
  \/ line.verb \in Global
  \/ line.verb \in {"on", "off", "info"} /\ line.args = 1
  \/ line.verb \in {"bri", "temp"} /\ line.args = 2 /\ line.number # Nil
  \/ line.verb \in {"color", "name"} /\ line.args = 2

(* Controller.rename: a name is refused if it is a line Parse accepts and  *)
(* a verb.                                                                 *)
IsCommandName(n) == n \in Verbs /\ WellFormed([verb |-> n, args |-> 0])

(* changeFor: what the terminal refuses by itself.  A colour is refused in *)
(* any case: malformed, not supported, or not implemented.                 *)
ChangeRefused(caps, line) ==
  \/ line.verb \in {"bri", "temp"} /\ line.number \notin 0..Full
  \/ line.verb = "temp" /\ ~SupportsColorTemp(caps)
  \/ line.verb = "color"

(* changeFor, otherwise.                                                   *)
ChangeFor(line) ==
  CASE line.verb = "on"   -> [NoChange EXCEPT !.power = TRUE]
    [] line.verb = "off"  -> [NoChange EXCEPT !.power = FALSE]
    [] line.verb = "bri"  -> [NoChange EXCEPT !.brightness = line.number]
    [] line.verb = "temp" -> [NoChange EXCEPT !.temp = line.number]

=============================================================================
