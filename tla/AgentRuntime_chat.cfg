\* Two agents, two rooms, a frozen clock: chatter, lost calls, broken sockets.
SPECIFICATION Spec
CONSTANTS
  orch = orch
  hr = hr
  Team = Team
  Line = Line
  Study = Study
  Human = Human
  NoRoom = NoRoom
  Roles <- PairRoles
  Rooms <- PairRooms
  Subs <- PairSubs
  Members <- PairMembers
  LearnRoom <- PairLearn
  Decisions <- PairDecisions
  Speech <- PairSpeech
  BACKSTOP_WINDOW = 2
  BACKSTOP_MAX = 2
  KEEP = 1
  MaxPosts = 3
  MaxTime = 0
  MaxRestarts = 0
PROPERTY Contract
PROPERTY ImplementsChatter
CHECK_DEADLOCK FALSE
