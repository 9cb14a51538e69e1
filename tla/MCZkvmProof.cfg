SPECIFICATION Spec
CONSTANTS
    Prime = 257
    Instances <- MCInstances
INVARIANTS
    AcceptedIffValid
    MockForetells
    VerifierFollowsProver
    OutputsSummarize
    OpeningClaims
    BackendSumsConstraints
CHECK_DEADLOCK FALSE
