--------------------------- MODULE MCProxyBinding ---------------------------
(***************************************************************************)
(* ProxyBinding for TLC.  Sessions, and calls in flight, are told apart by *)
(* nothing but their names, and no liveness property is checked, so states *)
(* that differ by a renaming of them are one.                              *)
(***************************************************************************)
EXTENDS ProxyBinding, TLC

RenamingSymmetry == Permutations(Sessions) \cup Permutations(Calls)
=============================================================================
