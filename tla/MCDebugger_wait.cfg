SPECIFICATION FairSpec
CONSTANTS
    Pcs <- WaitPcs
    EntryPc = 0
    Flow <- WaitFlow
    Traps <- WaitTraps
    SourceOf <- WaitSource
    UserAddresses = {2}
    UserRuns = FALSE
    INSTRUCTIONS_PER_FRAME = 4
PROPERTY StepReturnsToGui
