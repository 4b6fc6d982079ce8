CONSTANTS
    Forms = {"unary", "binary", "callexp", "assign", "call", "goto", "labelled", "if", "ifelse", "repeat", "while", "for", "compound", "label", "constdef", "vardef", "func", "proc"}
    MaxArgs = 1
    MaxGroups = 2
    MaxNodes = 9
SPECIFICATION Spec
INVARIANTS
    FathersHold
    TreeSaysSource
    WalkFindsScope
