\* The default settings on a PC with one private network.
CONSTANTS
  Roles = {orchestrator}
  Nics = {"loop", "lan"}
  MaxStarts = 1
  MaxFaults = 0
  MaxEvents = 0
SPECIFICATION Spec
CHECK_DEADLOCK FALSE
INVARIANT BotsReach
