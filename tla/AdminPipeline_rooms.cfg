\* Two rooms, Linux and macOS, failing steps, a death of the bot.
SPECIFICATION Spec
CONSTANTS
  Roles = {hr, dev}
  Texts = {t0, t1, bad}
  First = t0
  Bad = {bad}
  Empty = Empty
  None = None
  MaxMsgs = 6
  MaxCrashes = 1
INVARIANT ApprovedOnly
PROPERTY DoneMeansCommitted
CHECK_DEADLOCK FALSE
