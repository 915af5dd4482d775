SPECIFICATION FairSpec
CONSTANTS
  Reqs = {r1, r2}
  MaxConns = 1
  MaxStatements = 2
INVARIANTS TypeOK ShutdownOrder CountedAsSent
PROPERTIES StatusSentOnce SignalEnds RequestsAnswered ProbesAnswered
CHECK_DEADLOCK FALSE
