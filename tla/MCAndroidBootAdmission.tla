----------------------- MODULE MCAndroidBootAdmission -----------------------
(* A small instance: two boots and a capacity report of d1, and a boot of d2 that replaces r. *)
EXTENDS AndroidBootAdmission, TLC

CONSTANTS d1, d2, b1, b2, b3, p1, r

TwoDaemons == b1 :> d1 @@ b3 :> d1 @@ p1 :> d1 @@ b2 :> d2
Second     == b1 :> None @@ b3 :> None @@ b2 :> r

\* b1 and b3 are boots of one daemon and alike in everything
Alike == Permutations({b1, b3})
=============================================================================
