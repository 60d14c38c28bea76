\* Three messages, failing calls, a death of the process, a cleared session list; and
\* seven lines for a note of four, two of them corrections, and a crash.
SPECIFICATION MCSpec
CONSTANTS
  MaxTurns = 3
  MaxDeaths = 1
  MaxPrunes = 1
  REACT_MAX_STEPS = 3
  g1 = g1
  g2 = g2
  g3 = g3
  g4 = g4
  k1 = k1
  k2 = k2
  k3 = k3
  Lines <- SmallLines
  Corrections <- SmallCorrections
  LEARN_MAX_LINES = 4
  LEARN_MAX_CORRECTIONS = 2
  MaxCrashes = 1
INVARIANTS AskedTwiceAtMost CallsBounded ReturnsValid LastSaidKept
PROPERTIES StaysInSession Decides ForgetsOldestFirst
CHECK_DEADLOCK FALSE
