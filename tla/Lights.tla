------------------------------- MODULE Lights -------------------------------
(***************************************************************************)
(* What a change asks of a lamp: lights.Service.resolve turns a partial    *)
(* change into a full state, and protocol.ChangedProps turns a full state  *)
(* into the commands to send.  Both are pure; Commands and Terminal use    *)
(* them at the points where the code calls them.                           *)
(***************************************************************************)
EXTENDS Naturals, Sequences

CONSTANTS
  Nil,   \* a nil field
  Full   \* 100 per cent

ASSUME LightsAssumption ==
  /\ Full \in Nat \ {0}
  /\ Nil \notin Nat
  /\ Nil \notin BOOLEAN

Percent == 0..Full
LightState == [power : BOOLEAN, brightness : Percent, temp : Percent]

(* bulb.Capabilities; floor is MinBrightness.                              *)
Capabilities == [known : BOOLEAN, color : BOOLEAN, temp : BOOLEAN, floor : Percent]

(* An undetermined lamp is given the benefit of the doubt.                 *)
SupportsColorTemp(caps) == ~caps.known \/ caps.temp
SupportsColor(caps) == ~caps.known \/ caps.color

(* lights.Change; a value above 100 can be asked for.                      *)
Change == [power      : BOOLEAN \cup {Nil},
           brightness : 0..(Full + 1) \cup {Nil},
           temp       : 0..(Full + 1) \cup {Nil}]

NoChange == [power |-> Nil, brightness |-> Nil, temp |-> Nil]

(* Service.resolve: the changes it refuses, and the full state it asks for *)
(* otherwise.  Brightness implies power; an explicit power wins; a lamp is *)
(* not turned on at zero.                                                  *)
Refused(caps, ch) ==
  \/ /\ ch.brightness # Nil
     /\ ch.brightness > Full \/ ch.brightness \in 1..(caps.floor - 1)
  \/ /\ ch.temp # Nil
     /\ ch.temp > Full \/ ~SupportsColorTemp(caps)

(* The fields of the change on a dark state.  A mutant.                    *)
ResolveFromDark(current, ch) ==
  [power      |-> ch.power = TRUE \/ (ch.power = Nil /\ ch.brightness \notin {Nil, 0}),
   brightness |-> IF ch.brightness = Nil THEN current.brightness ELSE ch.brightness,
   temp       |-> IF ch.temp = Nil THEN 0 ELSE ch.temp]

Resolve(current, ch) ==
  LET bright == IF ch.brightness = Nil THEN current.brightness ELSE ch.brightness
      implied == IF ch.brightness = Nil THEN current.power ELSE ch.brightness > 0
  IN  [power      |-> IF ch.power = Nil THEN implied ELSE ch.power,
       brightness |-> IF ch.power = TRUE /\ bright = 0 THEN Full ELSE bright,
       temp       |-> IF ch.temp = Nil THEN current.temp ELSE ch.temp]

(* Attributes for a lamp that is on already only.  A mutant.               *)
ChangedPropsIfLit(caps, current, next) ==
  CASE next.power /\ ~current.power -> <<[name |-> "power", value |-> TRUE]>>
    [] next.power /\ next.brightness # current.brightness ->
         <<[name |-> "brightness", value |-> next.brightness]>>
    [] ~next.power /\ current.power -> <<[name |-> "power", value |-> FALSE]>>
    [] OTHER -> <<>>

(* protocol.ChangedProps: what differs, on first, off last and alone.      *)
ChangedProps(caps, current, next) ==
  LET prop(name, needed) == IF needed THEN <<[name |-> name, value |-> next[name]]>> ELSE <<>>
      on == next.power
  IN  prop("power", on /\ ~current.power)
        \o prop("brightness", /\ on
                              /\ next.brightness > 0
                              /\ next.brightness # current.brightness)
        \o prop("temp", on /\ SupportsColorTemp(caps) /\ next.temp # current.temp)
        \o prop("power", ~on /\ current.power)

(* The state of a lamp that has carried out these commands.                *)
After(current, props) ==
  [f \in DOMAIN current |->
     IF \E i \in DOMAIN props : props[i].name = f
     THEN props[CHOOSE i \in DOMAIN props : props[i].name = f].value
     ELSE current[f]]

=============================================================================
