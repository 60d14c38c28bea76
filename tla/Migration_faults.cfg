\* Two PCs, backups that overlap, failing commands and a power failure.
SPECIFICATION Spec
SYMMETRY Symmetry
CONSTRAINT Explored
CONSTANTS
  PC = {old, new}
  Job = {timer, hand}
  RETAIN = 1
  MaxPosts = 2
  MaxBackups = 4
  MaxStarts = 2
  MaxCrashes = 1
INVARIANTS NothingDangles PointsAtNewest
PROPERTIES NothingVanishesLive RetentionKeepsGood
CHECK_DEADLOCK FALSE
