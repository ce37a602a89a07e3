SPECIFICATION AllSpec
CONSTANTS
  Turns = {1, 2}
  Calls = {c1, c2}
  Capabilities = {k1}
  Handoff = Handoff
  Outputs = {o1, o2}
  MaxCapabilityCalls = 1
  MaxInvalid = 1
  ExpiredBatch = 1
  Talks = {"t", "g"}
  Known = {"u"}
  Mail <- Posted
  Decrees <- Rulings
  MaxPast = 1
  MaxAhead = 1
  NonceLife = 1
  PruneAfter = 1
  MaxNonces = 2
  MaxDecrees = 2
  MaxWall = 3
  Askers = {"u", "w"}
  MaxAsks = 2
  Bulletins <- Published_
  Embedders = {1, 2}
  MaxPub = 2
  MaxDeliver = 2
  Batch = 2
  MaxAttempts = 2
  OldMessages <- Backlog
  TargetChats = {"c", "d"}
  Runners = {1, 2}
  ArchiveLimit = 2
  MaxSecond = 1
  MaxFiles = 2
  Tasks = {1, 2, 3}
  GroupMessages = {3}
  Unsafe_ = {2}
  MaxDepth = 2
  MaxRefs = 1
  Mirrors = {1, 2}
  TaskStates <- Standings
  MaxMoves = 1
  MaxItems = 3
  MaxRuleDepth = 2
  MaxRules = 8
  MaxTransforms = 4
  MaxExpanded = 6
  MaxOperations = 4
  MaxSubjects = 3
  MaxId = 3
  MaxText = 8
  MaxSources = 3
  DataLimits <- Limits
  RestrictedLimits <- Limits
  EnvelopeLimits <- Limits
  Spellings <- SpelledKeys
  Instants = {"7"}
  Unsafe = {"ctl"}
  Envelopes <- Sent
  Registries <- Embedded
  Definitions <- Proposed
  Stored <- StoredForms
  Admitted <- AdmittedOnes
  Interpreted <- MadeOf
  Secrets = {"secret"}
  Rooms = {"r"}
  Consumers = {1}
  MaxDeliveries = 3
  MaxMaps = 2
  MaxAutos = 2
CHECK_DEADLOCK FALSE
INVARIANTS
  OneOutcomePerTurn
  ResultMatchesReceipts
  TakenOnce
PROPERTIES
  WritesUnderLiveAuthority
  EveryTurnEnds
