SPECIFICATION Spec
CONSTANTS
  o1 = o1
  Owners = {o1}
  Goods = {g1, g2, g3}
  GoodOwner <- OneCatalogue
  Stores = {s1}
  Offers = {i1, i2, i3}
  Prices = {p1}
  Codes = {c1}
  Reqs = {r1, r2}
  Null = Null
  MaxDepth = 3
  Ops <- AllHandlers
SYMMETRY Symmetry
INVARIANTS TypeOK TombstonesOnMerged MergedGoodIsEmpty OneOfferPerPair
PROPERTIES MergedOnce PricesMoveWithMerge ImplementsPriceBook
CHECK_DEADLOCK FALSE
