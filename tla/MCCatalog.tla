----------------------------- MODULE MCCatalog -----------------------------
(***************************************************************************)
(* Small instances of Catalog for TLC.                                     *)
(***************************************************************************)
EXTENDS Catalog, TLC

CONSTANT o1

\* All the goods are of one owner; another may offer and price them.
OneCatalogue == [g \in Goods |-> o1]

AllHandlers == {"merge", "offer", "price", "identity"}
Merges      == {"merge"}
Pricing     == {"merge", "offer", "price"}

Symmetry == Permutations(Goods) \cup Permutations(Stores) \cup Permutations(Offers)
            \cup Permutations(Prices) \cup Permutations(Codes) \cup Permutations(Reqs)
=============================================================================
