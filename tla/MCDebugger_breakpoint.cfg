SPECIFICATION FairSpec
CONSTANTS
    Pcs <- LoopPcs
    EntryPc = 0
    Flow <- LoopFlow
    Traps <- LoopTraps
    SourceOf <- LoopSource
    UserAddresses = {2, 5, 7}
    UserRuns = TRUE
    INSTRUCTIONS_PER_FRAME = 4
INVARIANT TypeOK
PROPERTIES RunHaltsAtBreakpoints RemovedIsGone RunReturnsToGui SteppedIsShown OnlyRunLosesTheLine HighlightedStepIsOneLine
