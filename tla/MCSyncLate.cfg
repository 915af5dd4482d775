SPECIFICATION Spec
CONSTANTS
  Lists = {l1}
  Items = {i1}
  Goods = {g1}
  Writers = {w1}
  Null = Null
  MaxTime = 7
SYMMETRY Symmetry
INVARIANT DeviceCatchesUp
CHECK_DEADLOCK FALSE
