SPECIFICATION Spec
CONSTANTS
    Prime = 97
    RateLog = 1
    BasecodeMsgSizeLog = 1
    MinVarsPerThread = 1
    NumQueries = 1
    Challenges = {5, 41}
    Instances <- MCInstances
    Seeds = {1, 4}
    Pools = {1, 2, 5}
INVARIANTS
    OracleEncodesFold
    MessageIsRestriction
    OpeningVerifies
