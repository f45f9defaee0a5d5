SPECIFICATION Spec
CONSTANTS
    XLEN <- MCXLEN
    WordSize <- MCWordSize
    Bits <- MCBits
    WordOf <- MCWordOf
    SampledInstructions <- MCSampledInstructions
    SampledNumbers <- MCSampledNumbers
    SectionSizes = {0, 1, 3, 4, 5, 8}
    SampledLines <- MCSampledLines
    SampledSymtabs <- MCSampledSymtabs
    SampledCalls <- MCSampledCalls
    SampledAttributes <- MCSampledAttributes
    SampledTables <- MCSampledTables
    SampledMissing <- MCSampledMissing
    SampledPixels = {0, 511, 36863, 36864, 146944, 147455}
INVARIANT PixelsAreShown
