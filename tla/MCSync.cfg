SPECIFICATION Spec
CONSTANTS
  Lists = {l1}
  Items = {i1}
  Goods = {g1, g2}
  Writers = {w1}
  Null = Null
  MaxTime = 8
SYMMETRY Symmetry
INVARIANTS TypeOK ListsCatchUp ItemsCatchUp GoodsCatchUp
CONSTRAINT Undisturbed
CHECK_DEADLOCK FALSE
