----------------------------- MODULE DeviceLock -----------------------------
(* What the daemons of one host promise about a device: sessions, of whatever daemon, take *)
(* turns driving it, and it is free between two turns.                                      *)

CONSTANTS Sessions, None
VARIABLE owner

Init == owner = None
Take(s) == owner = None /\ owner' = s
Give == owner # None /\ owner' = None
Next == Give \/ \E s \in Sessions : Take(s)
Spec == Init /\ [][Next]_owner
=============================================================================
