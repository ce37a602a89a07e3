SPECIFICATION Spec
CONSTANTS
    Automations = {welcome}
    Scheduled = {}
    AgentTurns = {}
    Addressed = {welcome}
    MaxVersion = 2
    MaxPolicy = 2
    Horizon = 1
    Crons <- NoCron
    Events = {e1}
    BatchSize = 1
    Executors = {x1, x2}
    NoKey = NoKey
INVARIANTS
    TypeOK
    NotRetroactive
    
    RunHonest
PROPERTIES
    RunsAreFinal
    ImplementsOnceGate
    WithdrawnNeverActs
