-------------------------------- MODULE Units --------------------------------
(***************************************************************************)
(* internal/hass/convert.go: the lamps count brightness and warmth in per  *)
(* cent, Home Assistant in 0-255 and in Kelvin.  Go's integer division     *)
(* truncates; every dividend below is a natural number, so it is \div.     *)
(***************************************************************************)
EXTENDS Integers

CONSTANTS
  MinKelvin,  \* -ct-min-kelvin, the lamp's warmest setting
  MaxKelvin   \* -ct-max-kelvin, its coolest

(* config.Validate.                                                        *)
ASSUME UnitsAssumption ==
  /\ {MinKelvin, MaxKelvin} \subseteq Nat
  /\ 0 < MinKelvin /\ MinKelvin < MaxKelvin

HABrightnessMax == 255

BrightnessToHA(pct) ==
  IF pct > 100 THEN HABrightnessMax ELSE (pct * HABrightnessMax) \div 100

(* Truncating.  A mutant.                                                  *)
BrightnessFromHATruncated(v) ==
  CASE v <= 0 -> 0
    [] v >= HABrightnessMax -> 100
    [] OTHER -> (v * 100) \div HABrightnessMax

BrightnessFromHA(v) ==
  CASE v <= 0 -> 0
    [] v >= HABrightnessMax -> 100
    [] OTHER -> (v * 100 + HABrightnessMax \div 2) \div HABrightnessMax

Span == MaxKelvin - MinKelvin

KelvinFromPercent(pct) ==
  IF pct > 100 THEN MaxKelvin ELSE MinKelvin + (pct * Span + 50) \div 100

PercentFromKelvin(k) ==
  CASE k <= MinKelvin -> 0
    [] k >= MaxKelvin -> 100
    [] OTHER -> ((k - MinKelvin) * 100 + Span \div 2) \div Span

=============================================================================
