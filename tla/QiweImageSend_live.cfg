SPECIFICATION FairSpec
CONSTANTS
    WorkItems = {w1, w2}
    MaxAttempts = 1
    Workers = {u1}
    Handlers = {h1}
    Payloads = {good, bad}
    Matching = {good}
    IntroItems = {w1}
    Allowed = {w1, w2}
    NoItem = NoItem
    NoPayload = NoPayload
PROPERTIES
    ProcessingResolves
