SPECIFICATION Spec
CONSTANTS
    WordBits = 4
    ShiftBits = 2
    P = 241
    Operands <- MCOperands
    Bases <- MCBases
    Previous <- MCPrevious
    Imms <- MCImms
    Pcs <- MCPcs
    Cycle = 12
    SyscallCode = 9
    UnknownCode = 7
    Lasts <- MCLasts
INVARIANTS
    RowSatisfiesCircuit
    LookupsCounted
    RecordsMatchStep
