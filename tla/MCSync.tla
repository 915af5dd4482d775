------------------------------- MODULE MCSync -------------------------------
(***************************************************************************)
(* Small instances of Sync for TLC.                                        *)
(***************************************************************************)
EXTENDS Sync, TLC

Symmetry == Permutations(Lists) \cup Permutations(Items) \cup Permutations(Goods)
            \cup Permutations(Writers)

\* Once a write was committed behind a sync's back nothing is claimed any more of
\* what the device has, and TLC need not go on.
Undisturbed == ~late
=============================================================================
