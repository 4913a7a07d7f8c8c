----------------------------- MODULE MCTerminal -----------------------------
(***************************************************************************)
(* An instance of Terminal: two bulbs, two names of which one is a prefix  *)
(* of the other, and an operator who types every kind of line.             *)
(***************************************************************************)
EXTENDS Terminal, TLC

Line(verb, target, number, text) ==
  [verb |-> verb, args |-> IF number = Nil /\ text = Nil THEN 1 ELSE 2,
   target |-> target, number |-> number, text |-> text]

OperatorLines ==
  { Line("name", "a2", Nil, "kit"), Line("name", "a2", Nil, "kitchen"),
    Line("name", "kit", Nil, "kitchen"),
    Line("bri", "ki", 50, Nil),
    [Line("off", "kit", Nil, Nil) EXCEPT !.args = 3],
    Line("quit", "kit", Nil, Nil) }

(* One lamp has been named in an earlier run of the program.               *)
OneNamed ==
  {[d \in DeviceId |-> IF d = "a1" THEN [NoBulb(d) EXCEPT !.name = "kit", !.status = "Disconnected"]
                       ELSE NoBulb(d)]}

Prefixes ==
  [t \in {"a1", "a2", "kit", "kitchen", "ki"} |->
     {t} \cup IF t \in {"ki", "kit"} THEN {"kit", "kitchen"} ELSE {}]

NoChannels == [f \in {} |-> {}]

ASSUME PlainNames

=============================================================================
