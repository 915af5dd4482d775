SPECIFICATION Spec
CONSTANTS
  Owners = {o1, o2}
  Lists = {l1}
  Items = {i1}
  Tokens = {t1}
  Reqs = {r1, r2}
  Fields = {f1, f2}
  Values = {v1, v2}
  Default = v1
  Null = Null
  InvitationTTL = 1
  TombstoneRetention = 3
  MaxRequestAge = 1
  MaxTime = 1
  Ops <- ItemOps
SYMMETRY Symmetry
INVARIANT NoPatchIsLost
PROPERTY EditsWereAuthorised
