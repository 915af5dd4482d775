SPECIFICATION Spec
CONSTANTS
  Clients = {o1, o2}
  Bodies = {b1, b2}
  Copies = {k1, k2}
  MaxWrites = 2
  Null = Null
SYMMETRY Perms
INVARIANTS TypeOK LastWordStands ConflictIsOwnCopy
PROPERTY ImplementsRegister
CHECK_DEADLOCK FALSE
