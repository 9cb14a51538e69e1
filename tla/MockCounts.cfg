SPECIFICATION Spec
CONSTANTS
    Byte = 4
    RKYV_ALIGNMENT = 8
    StackEnd = 224
    PublicIoStart = 40
    Hints <- MCHints
    IoExtension = 16
    Limb = 16
    REG_COUNT = 3
    Hosts <- MCHosts
    Layouts <- MCLayouts
    Messages <- MCMessages
    Depths <- MCDepths
    MaxCalls = 3
    Workers = {w1, w2}
    Caller = main
    Threshold = 3
INVARIANTS
    MockKeepsCounts
