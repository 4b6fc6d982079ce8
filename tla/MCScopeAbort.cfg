CONSTANTS
    Name <- MCName
    Program <- Ordinary
SPECIFICATION Spec
INVARIANT
    UndeclaredMeansUndeclared
