----------------------------- MODULE PriceBook -----------------------------
(***************************************************************************)
(* What the catalogue promises, with no offers in it: a good has one       *)
(* representative, merging two goods gives all they stand for to one of    *)
(* them, and a recorded price stays under its good and store for good,     *)
(* moving only with a merge.  Catalog implements this specification when   *)
(* the requests of a family come one at a time.                            *)
(***************************************************************************)
CONSTANTS Goods, Stores, Prices, Null

VARIABLES
  rep,    \* the good that stands for each good
  spot    \* the good and the store of each price; Null before it is recorded

vars == <<rep, spot>>

Init ==
  /\ rep = [g \in Goods |-> g]
  /\ spot = [p \in Prices |-> Null]

Moved(at, a, b) == IF at[1] = a THEN <<b, at[2]>> ELSE at

Merge(a, b) ==
  /\ a # b /\ rep[a] = a /\ rep[b] = b
  /\ rep' = [g \in Goods |-> IF rep[g] = a THEN b ELSE rep[g]]
  /\ spot' = [p \in Prices |-> IF spot[p] = Null THEN Null ELSE Moved(spot[p], a, b)]

Record(p, g, s) ==
  /\ spot[p] = Null
  /\ spot' = [spot EXCEPT ![p] = <<rep[g], s>>]
  /\ UNCHANGED rep

Next ==
  \/ \E a, b \in Goods : Merge(a, b)
  \/ \E p \in Prices, g \in Goods, s \in Stores : Record(p, g, s)

Spec == Init /\ [][Next]_vars
=============================================================================
