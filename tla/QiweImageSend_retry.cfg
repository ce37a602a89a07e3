SPECIFICATION Spec
CONSTANTS
    WorkItems = {w1}
    MaxAttempts = 3
    Workers = {u1, u2}
    Handlers = {h1, h2}
    Payloads = {good, dup, bad}
    Matching = {good, dup}
    IntroItems = {w1}
    Allowed = {w1}
    NoItem = NoItem
    NoPayload = NoPayload
SYMMETRY Symmetry
INVARIANTS
    TypeOK
    AtMostOnceImage
    OutcomeHonest
    QueuedIsClean
    ActiveOwned
    RetryOnlyKnownUpload
    IntroBeforeImage
PROPERTIES
    OutcomesAreFinal
    ImplementsOnceGate
