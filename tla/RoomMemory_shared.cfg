\* Two agents, overlapping saves and process deaths.
SPECIFICATION Spec
CONSTANTS
  hr = hr
  dev = dev
  Team = Team
  Line = Line
  Roles <- SmallRoles
  Rooms <- SmallRooms
  Subs <- SmallSubs
  KEEP = 2
  MaxMemos = 4
  MaxCrashes = 2
INVARIANT InOrder
PROPERTY ImplementsLog
CHECK_DEADLOCK FALSE
