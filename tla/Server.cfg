\* Four clients, a pool of three. A knot stops the server, so deadlock is not
\* checked.
SPECIFICATION FairSpec
CONSTANTS
  w1 = w1 w2 = w2 w3 = w3 w4 = w4
  Worker <- MCFour
  Sends <- MCSends
  Nobody = Nobody
  PoolSize = 3
CHECK_DEADLOCK FALSE
INVARIANTS
  TypeOK StopsOnlyInKnot
PROPERTIES
  EndsUnlessKnotted KnotIsForever OutageEnds
