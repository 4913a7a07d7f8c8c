------------------------------ MODULE MCBridge ------------------------------
(* Instances of Bridge for TLC. *)
EXTENDS Bridge, TLC

CONSTANTS lampA, h1, one, two, on, off

MCStatus == <<"status", Nil>>
MCTopic == {MCStatus} \cup ({"config", "state", "availability"} \X Device)
MCSymmetry == Permutations(Name) \cup Permutations(State)

(* Long lives of a lamp, namings around two connections, shutdowns, and    *)
(* what is known of a lamp's warmth.                                       *)
MCScope == {[events |-> 5, lag |-> 1, replaced |-> 1, namings |-> 0, connects |-> 1,
             warmth |-> {FALSE}, stops |-> FALSE],
            [events |-> 2, lag |-> 2, replaced |-> 1, namings |-> 2, connects |-> 2,
             warmth |-> {FALSE}, stops |-> FALSE],
            [events |-> 1, lag |-> 1, replaced |-> 0, namings |-> 0, connects |-> 2,
             warmth |-> {FALSE}, stops |-> TRUE],
            [events |-> 2, lag |-> 1, replaced |-> 1, namings |-> 0, connects |-> 1,
             warmth |-> BOOLEAN, stops |-> FALSE]}

=============================================================================
