SPECIFICATION FairSpec
CONSTANTS
  Owners = {o1, o2}
  Lists = {l1}
  Items = {}
  Tokens = {t1, t2}
  Reqs = {r1, r2}
  Fields = {}
  Values = {v1}
  Default = v1
  Null = Null
  InvitationTTL = 1
  TombstoneRetention = 3
  MaxRequestAge = 1
  MaxTime = 0
  Ops <- MemberOps
INVARIANTS TypeOK AuthorIsNoMember
PROPERTIES ImplementsMembership RequestsEnd
