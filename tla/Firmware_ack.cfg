SPECIFICATION FairSpec
CONSTANTS
    XLEN <- MCXLEN
    WordSize <- MCWordSize
    Bits <- MCBits
    WordOf <- MCWordOf
    Devices <- FirmwareDevices
    NRegs = 7
    OtherCsrs = {"misa"}
    ClintSize = 4
    DataWords <- MCDataWords
    Code <- FirmwareCode
    EntryPc = 0
    TimerHandler <- AckHandler
    GuestAddresses <- ProgramAddresses
    TrapAddresses <- HandlerAddresses
    TrapVector <- VECTOR_TABLE
    RESERVED <- RESERVED_HANDLER
    GuestRegs = {1, 2, 3, 4, 5}
    StartAddresses <- CrtAddresses
    SetVectorPc <- CsrwPc
    StartRegs <- RegsAt
    SpinAddresses <- SpinHandlers
INVARIANTS ReservedNeverReached ReturnsInside
PROPERTIES GuestUndisturbed GuestProceeds
