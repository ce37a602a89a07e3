CONSTANTS
    Spaces = {s1, s2}
    Proposals = {p1, p2, p3}
    Intents <- Shared
    Persons = {owner}
    Globals = {owner}
    MaxVersion = 3
    MaxAttempts = 1
    None = None
SPECIFICATION Spec
SYMMETRY Symmetry
CHECK_DEADLOCK FALSE
INVARIANT
    MappingOfAutomationAlive
