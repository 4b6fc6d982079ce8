CONSTANTS
    Name <- MCName
    Program <- MCProgram
SPECIFICATION Spec
INVARIANTS
    ResolvesAsChecked
    LocalToFunction
    LocalsBindRight
