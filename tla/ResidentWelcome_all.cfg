SPECIFICATION Spec
CONSTANTS
  WWorkers = {w1, w2}
  DWorkers = {w1, w2}
  MaxChanges = 1
  MaxClaims = 2
  MaxReads = 2
  PageSize = 2
  Variants = {0, 1}
  Nil = Nil
  Targets = {1, 2}
  MaxVersion = 3
  MaxRule = 2
  MaxFence = 2
  People = {p1, p2}
  Subjects = {s1}
  Nobody = Nobody
  MaxFacts = 1
  MaxItem = 5
  MaxSettings = 2
  MaxLink = 3
INVARIANTS NoEventLost WelcomedOnce ReleasedAsReviewed
SYMMETRY Symmetric
CHECK_DEADLOCK FALSE
