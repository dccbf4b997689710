-------------------------- MODULE MCSessionLiveness --------------------------
(***************************************************************************)
(* SessionLiveness for TLC: the tokens of the proxies are interchangeable, *)
(* so a safety run may identify states that differ by swapping them.       *)
(***************************************************************************)
EXTENDS SessionLiveness, TLC

TokenSymmetry == Permutations(Tokens)
=============================================================================
