---------------------- MODULE MCForeignDeviceOwnership ----------------------
(* Instances of ForeignDeviceOwnership for TLC: two daemons on one host. *)
EXTENDS ForeignDeviceOwnership, TLC

CONSTANTS d1, d2, s1, s2, s3

\* one session on each side
OneEach == s1 :> d1 @@ s2 :> d2
\* d1 gives the device to a second session once the first let go of it
TwoOne  == s1 :> d1 @@ s2 :> d2 @@ s3 :> d1
=============================================================================
