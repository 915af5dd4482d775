SPECIFICATION Spec
CONSTANTS
  Owners = {o1, o2}
  Lists = {l1}
  Items = {i1}
  Tokens = {t1}
  Reqs = {r1, r2}
  Fields = {}
  Values = {v1}
  Default = v1
  Null = Null
  InvitationTTL = 1
  TombstoneRetention = 3
  MaxRequestAge = 1
  MaxTime = 4
  Ops <- TimedOps
SYMMETRY Symmetry
INVARIANTS SharingInv StandingInv RowsBelongToAuthor UsedLinkMadeMember PrunerMeetsNoOpenAccept
PROPERTIES EditsWereAuthorised TombstonesKept
