-------------------------------- MODULE Loop --------------------------------
(* The loops of the library that look at one place after the other. *)
EXTENDS Integers

(* How many rounds such a loop makes until it comes to a place in stop.    *)
Until(stop) ==
    LET from[k \in Nat] == IF k \in stop THEN k ELSE from[k + 1] IN from[0]
=============================================================================
