SPECIFICATION Spec
CONSTANTS
  o1 = o1
  Owners = {o1, o2}
  Goods = {g1, g2}
  GoodOwner <- OneCatalogue
  Stores = {s1}
  Offers = {i1, i2}
  Prices = {p1}
  Codes = {}
  Reqs = {r1}
  Null = Null
  MaxDepth = 2
  Ops <- Pricing
SYMMETRY Symmetry
INVARIANT EveryRecordListed
