CONSTANTS
    Id <- MCId
    Stm <- MCStm
    FuncDef <- MCFuncDef
    Program <- MCProgram
    Height <- MCHeight
    Width = 2
SPECIFICATION ExecSpec
INVARIANTS
    OpenBlocksAccounted
    WellFormedIR
    AllReachable
    UnwoundStack
    BodyCopies
    IInv
PROPERTIES
    FrozenBlocks
    BuildsCurrentFunction
    Terminates
    Refines
