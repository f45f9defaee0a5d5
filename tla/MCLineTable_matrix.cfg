SPECIFICATION Spec
CONSTANTS
    minimumInstructionLength = 2
    maximumOperationsPerInstruction = 2
    defaultIsStmt = TRUE
    lineBase <- MCLineBase
    lineRange = 3
    opcodeBase = 250
    UIntSize = 64
    Operands <- MCOperands
    MaxProgram = 4
INVARIANT MatrixIsProgram
CHECK_DEADLOCK FALSE
