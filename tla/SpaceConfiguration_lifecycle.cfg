CONSTANTS
    Spaces = {s1}
    Proposals = {p1, p2, p3, p4}
    Intents <- Lifecycle
    Persons = {owner}
    Globals = {owner}
    MaxVersion = 5
    MaxAttempts = 1
    None = None
SPECIFICATION Spec
SYMMETRY Symmetry
CHECK_DEADLOCK FALSE
INVARIANTS
    BusinessOfAutomationAlive
    MappingOfAutomationAlive
    
    GuessesBounded
PROPERTIES
    PublishesWhatWasShown
