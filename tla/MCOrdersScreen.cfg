CONSTANTS
    Scale = 100
    RoundErr = 3

SPECIFICATION Spec
INVARIANT OrderTotalIncludesFee
CHECK_DEADLOCK FALSE
