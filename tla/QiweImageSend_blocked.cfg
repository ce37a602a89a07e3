SPECIFICATION StrongFairSpec
CONSTANTS
    WorkItems = {w1, w2}
    MaxAttempts = 1
    Workers = {u1}
    Handlers = {h1}
    Payloads = {good, bad}
    Matching = {good}
    IntroItems = {}
    Allowed = {w1}
    NoItem = NoItem
    NoPayload = NoPayload
PROPERTIES
    StaleSendingReconciled
