SPECIFICATION FairSpec
CONSTANTS
    Absent = Absent
    codeAlignmentFactor = 1
    Programs <- MCPrograms
    EntryPc = 2
    Pcs <- MCPcs
    EntryLine = 1
    Lines = {1, 2}
    RegisterFiles <- MCRegisterFiles
INVARIANTS ListsAreRight NeverExits
PROPERTIES TreeIsStream LocationsAreDwarf ParsingEnds
CHECK_DEADLOCK FALSE
