\* docs/quickstart.md:52: a reload without downtime.
SPECIFICATION FairSpec
CONSTANTS
  w1 = w1 w2 = w2 w3 = w3 w4 = w4
  Worker <- MCThree
  Sends <- MCSendsThree
  Nobody = Nobody
  PoolSize = 3
CHECK_DEADLOCK FALSE
PROPERTY RequestsEnd
