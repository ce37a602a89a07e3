SPECIFICATION FairSpec
CONSTANTS
    Automations = {greet, remind}
    Scheduled = {greet, remind}
    AgentTurns = {remind}
    Addressed = {}
    MaxVersion = 2
    MaxPolicy = 1
    Horizon = 1
    Crons <- EveryMinute
    Events = {}
    BatchSize = 1
    Executors = {x1}
    NoKey = NoKey
INVARIANTS
    CursorAhead
PROPERTIES
    DueDispatched
    ProcessingResolves
