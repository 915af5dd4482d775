---------------------------- MODULE MCRateLimit ----------------------------
(***************************************************************************)
(* A small instance of RateLimit for TLC: clients are interchangeable.     *)
(***************************************************************************)
EXTENDS RateLimit, TLC

Symmetry == Permutations(Keys)
=============================================================================
