----------------------------- MODULE MCCommands -----------------------------
(***************************************************************************)
(* An instance of Commands with the callers of the program: the terminal,  *)
(* whose changes Control makes of typed commands, and the bridge.          *)
(***************************************************************************)
EXTENDS HomeAssistant, Control, TLC

CONSTANTS terminal, bridge

CCT == [known |-> TRUE, color |-> FALSE, temp |-> TRUE, floor |-> 1]

Lit == [power |-> TRUE, brightness |-> 50, temp |-> 0]

Bright == [Nothing EXCEPT !.state = "ON", !.brightness = 255]
Cool == [Nothing EXCEPT !.mired = 153]

(* The typed lines `off kitchen` and `bri kitchen 101`.                    *)
Typed == {[verb |-> "off", args |-> 1, number |-> Nil], [verb |-> "bri", args |-> 2, number |-> 101]}
Sent == {ChangeFor(l) : l \in {t \in Typed : ~ChangeRefused(CCT, t)}}

TwoFrontEnds == bridge :> OnCommand({Bright, Cool, Nothing}) @@ terminal :> Sent

OnlyLit == {Lit}

=============================================================================
