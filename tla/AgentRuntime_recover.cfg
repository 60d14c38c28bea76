\* One agent, a moving clock, a restart and fair scheduling: the sliding window
\* of the backstop, and coming back from whatever happens.
SPECIFICATION FairSpec
CONSTANTS
  orch = orch
  hr = hr
  Team = Team
  Line = Line
  Study = Study
  Human = Human
  NoRoom = NoRoom
  Roles <- SoloRoles
  Rooms <- SoloRooms
  Subs <- SoloSubs
  Members <- SoloMembers
  LearnRoom <- SoloLearn
  Decisions <- BurstDecisions
  Speech <- TalkSpeech
  BACKSTOP_WINDOW = 2
  BACKSTOP_MAX = 2
  KEEP = 1
  MaxPosts = 3
  MaxTime = 3
  MaxRestarts = 1
INVARIANT CreditsPerWindow
PROPERTY HandlerReturns
PROPERTY ComesBack
CHECK_DEADLOCK FALSE
