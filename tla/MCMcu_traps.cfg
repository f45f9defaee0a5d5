SPECIFICATION Spec
CONSTANTS
    XLEN <- MCXLEN
    WordSize <- MCWordSize
    Bits <- MCBits
    WordOf <- MCWordOf
    Devices <- MCDevices
    NRegs = 2
    OtherCsrs = {}
    ClintSize = 2
    DataWords <- MCDataWords
    Code <- TrapCode
    EntryPc = 16
INVARIANTS TypeOK NextPcFollowsPc TimerPendingIsComparator
PROPERTIES PreciseExceptions InterruptsExact EnabledOnlyByGuest
