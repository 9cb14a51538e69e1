SPECIFICATION FairSpec
CONSTANTS
    NumThreads = 4
    Log2Threads = 2
    NumVars = 3
    MaxDegree = 2
    MaxPool = 5
INVARIANTS
    TypeOK
    ChallengeAgreement
    RoundSums
    NoSummandTwice
    OneRoundPerChannel
    SendsNeverBlock
    DrainedAtReturn
PROPERTIES
    Refinement
    Termination
