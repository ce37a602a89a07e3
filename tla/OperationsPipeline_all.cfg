SPECIFICATION Spec
CONSTANTS
  Origins = {"signal", "direct", "text", "daily", "brief"}
  MaxActs = 3
  MaxDirectActs = 2
  MaxAttempts = 2
INVARIANTS HumanGate HonestOutcomes
PROPERTIES ClaimsSettle
CHECK_DEADLOCK FALSE
