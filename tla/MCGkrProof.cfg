SPECIFICATION Spec
CONSTANTS
    Prime = 97
    Z = 1
    ROUNDS = 2
    Runs <- MCRuns
INVARIANTS
    ClaimsAreEvaluations
    AcceptedIffSatisfied
CHECK_DEADLOCK FALSE
