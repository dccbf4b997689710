------------------------ MODULE MCIosSimCapacityGate ------------------------
(* A small instance: a plain boot of x1, a reset of x2 and the replacement of x3 by x4. *)
EXTENDS IosSimCapacityGate, TLC

CONSTANTS x1, x2, x3, x4, b1, b2, b3

AllTarget   == b1 :> x1 @@ b2 :> x2 @@ b3 :> x4
AllReplaces == b1 :> None @@ b2 :> x2 @@ b3 :> x3
=============================================================================
