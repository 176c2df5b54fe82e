SPECIFICATION Spec
CONSTANTS
    Procs = {0, 1, 2, 3, 4, 5}
    init = 0
    sh = 1
    INPUT_BUF_SIZE = 2
    UART_TX_BUF_SIZE = 1
    UintRange = 4
    Keys <- MCKeys
    MAXARGS = 3
    NBUF = 9
    NPIPE = 2
    Lines <- MCLines
    MaxKeys = 4
    MaxLength = 3
CHECK_DEADLOCK FALSE
INVARIANTS
    ParsesGrammar
    ExecFds
    Sequenced
PROPERTIES
    IsLineInput
    ReturnsToInput
