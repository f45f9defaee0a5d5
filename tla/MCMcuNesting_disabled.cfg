SPECIFICATION NestingSpec
CONSTANTS
    XLEN <- MCXLEN
    WordSize <- MCWordSize
    Bits <- MCBits
    WordOf <- MCWordOf
    Devices <- MCDevices
    NRegs = 2
    OtherCsrs = {}
    ClintSize = 2
    DataWords <- MCDataWords
    Code <- NestingCode
    EntryPc = 4
    MaxDepth = 3
PROPERTY DisabledIsRestored
