SPECIFICATION Spec
CONSTANTS
  o1 = o1
  Owners = {o1}
  Goods = {g1, g2, g3}
  GoodOwner <- OneCatalogue
  Stores = {s1}
  Offers = {i1}
  Prices = {}
  Codes = {}
  Reqs = {r1, r2}
  Null = Null
  MaxDepth = 3
  Ops <- Merges
SYMMETRY Symmetry
INVARIANT ChainsEnd
CHECK_DEADLOCK FALSE
