SPECIFICATION Spec
CONSTANTS
    Modulus = 128
    Regs <- MCRegs
    RomStart = 4
    Programs <- MCPrograms
    Image <- MCImage
    Heap <- MCHeap
    Stack <- MCStack
    Hints <- MCHints
    PublicIO <- MCPublicIO
    IoInit <- MCIoInit
    HintInit <- MCHintInit
    UnaryCode = 8
    BinaryCode = 12
    SyscallWords = 2
    SyscallResults <- MCResults
    MaxSteps = 7
INVARIANTS
    TypeOK
    AccessChain
    TraceExplainsMachine
    StepsChain
    ExitCodeOfHalt
    BoundsAreSpan
    UnhandledOnlyBySyscalls
    MemoryBalances
PROPERTY
    ImplementsMachine
