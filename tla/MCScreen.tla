--------------------------- MODULE MCScreen ---------------------------
(* Two programs on a screen of three rows. *)
EXTENDS Screen, TLC

CONSTANTS a, b
SecondAndThird == a :> 1 @@ b :> 2
=======================================================================
