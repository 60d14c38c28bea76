SPECIFICATION FairSpec
CONSTANTS
  none = none
  NoAccount = none
  Browser = {"b"}
  Thread = {"t1", "t2"}
  User = {"boss", "staff"}
  Channel = {"dev"}
  Files <- MCFiles
  MMRole <- MCMMRole
  SessionTTL = 1
  StatusTTL = 1
INVARIANTS
  DashTypeOK
  Entitled
  StatusFresh
PROPERTIES
  StatusSettles
  NamesSettle
