---------------------------- MODULE HomeAssistant ----------------------------
(***************************************************************************)
(* internal/hass/command.go and state.go: Home Assistant's entity of the   *)
(* lamp of Commands.  What it shows is made from the reported state, and   *)
(* what it sends becomes a change that Bridge.onCommand passes to          *)
(* Service.Apply: the bridge is one of the callers of Commands.            *)
(***************************************************************************)
EXTENDS Commands, Units

(* The value of a missing field is none of the words a payload may hold.   *)
ASSUME HomeAssistantAssumption == Nil \notin {"ON", "OFF"}

(* commandPayload; a missing field is Nil.                                 *)
Nothing == [state |-> Nil, brightness |-> Nil, kelvin |-> Nil, mired |-> Nil]

(* Config.ParseCommand.  A command that asks for nothing gives NoChange.   *)
ParseCommand(p) ==
  [power      |-> IF p.state = Nil THEN Nil ELSE p.state = "ON",
   brightness |-> IF p.brightness = Nil THEN Nil ELSE BrightnessFromHA(p.brightness),
   temp       |-> CASE p.kelvin # Nil -> PercentFromKelvin(p.kelvin)
                    [] p.kelvin = Nil /\ p.mired # Nil /\ p.mired > 0 ->
                         PercentFromKelvin(1000000 \div p.mired)
                    [] OTHER -> Nil]

(* Bridge.onCommand: the changes that reach Service.Apply.                 *)
OnCommand(payloads) == {ParseCommand(p) : p \in payloads} \ {NoChange}

(* ColorModes: only a lamp that is known to have warmth claims it.         *)
SupportsColorTempEntity == Caps.known /\ Caps.temp

(* Config.State, as the command that asks for what is shown.               *)
StatePayload(st) ==
  [state      |-> IF st.power THEN "ON" ELSE "OFF",
   brightness |-> BrightnessToHA(st.brightness),
   kelvin     |-> IF SupportsColorTempEntity THEN KelvinFromPercent(st.temp) ELSE Nil,
   mired      |-> Nil]

-----------------------------------------------------------------------------
AtRest == listed /\ down = <<>> /\ up = <<>> /\ \A c \in Caller : pc[c] = "idle"

(* The commands that a payload makes the server send to a lamp at rest.    *)
Sends(st, p) == ChangedProps(Caps, st, Resolve(st, ParseCommand(p)))

(* "Conversion is round-trip stable": for every brightness and warmth a    *)
(* lamp may report, lit or not, sending back what Home Assistant shows     *)
(* sends the lamp nothing, so the entity settles and does not drift.  A    *)
(* lit lamp that reports brightness zero is left out: resolve lights it.   *)
ShownSettles ==
  AtRest =>
    \A pct \in 1..Full :
      LET st == [state EXCEPT !.brightness = pct, !.temp = Full - pct]
      IN  Sends(st, StatePayload(st)) = <<>>

(* Whatever the slider is set to, a lamp that carries out what it is sent  *)
(* is lit and shows that brightness, to within the rounding of 255 steps   *)
(* to 100, whether it was lit before or not.  The lowest step of all is    *)
(* left out: it becomes zero, and with "ON" resolve turns zero into 100.   *)
SliderHonoured ==
  AtRest =>
    \A v \in 2..HABrightnessMax :
      LET p == [Nothing EXCEPT !.state = "ON", !.brightness = v]
          st == After(state, Sends(state, p))
      IN  ~Refused(Caps, ParseCommand(p)) =>
            st.power /\ BrightnessToHA(st.brightness) \in (v - 2)..(v + 2)

=============================================================================
