\* Three starts with two failures and one event of any kind.
CONSTANTS
  Roles = {orchestrator, hr}
  Nics = {"loop", "lan", "multi"}
  MaxStarts = 3
  MaxFaults = 2
  MaxEvents = 1
SPECIFICATION Spec
SYMMETRY Symmetry
CHECK_DEADLOCK FALSE
INVARIANTS CompleteMeansUp RerunCompletes
PROPERTY ValidTokensKept
