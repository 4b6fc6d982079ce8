CONSTANTS
    IdLen = 3
    TableSize = 3
    LowerLen = 6
    Identifiers <- MCIdentifiers
    Reals <- MCReals
    Characters <- MCCharacters
    Strings <- MCStrings
SPECIFICATION Spec
INVARIANTS
    TypeOK
    ReadBack
    OneEntryEach
