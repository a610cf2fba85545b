-------------------------- MODULE MCAuthorization --------------------------
(***************************************************************************)
(* TLC instance of Authorization: windows of one unit, so that a proof     *)
(* becomes fresh, is used, and goes stale within the bound on the clock.   *)
(***************************************************************************)
EXTENDS Authorization, TLC

Symmetries ==
  Permutations(Capability) \cup Permutations(Proof) \cup Permutations(Request)
=============================================================================
