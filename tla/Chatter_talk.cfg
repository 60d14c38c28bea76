\* Two agents that may name each other in everything they post, without end.
SPECIFICATION FairSpec
CONSTANTS
  Roles = {orch, hr}
  MaxQueue = 3
PROPERTY HumansHeard
