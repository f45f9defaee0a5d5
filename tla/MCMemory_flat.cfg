SPECIFICATION Spec
CONSTANTS
    XLEN = 5
    WordSize <- MCWordSize
    Bits <- MCBits
    WordOf <- MCWordOf
    Devices <- MCDevices
    ByteValues = {0, 1}
    StoreValues <- MCStoreValues
    Flash <- MCFlash
PROPERTY BusIsFlatMemory
