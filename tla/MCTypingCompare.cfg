CONSTANT
    Depth = 2
SPECIFICATION Spec
PROPERTY
    ComparesAsNamed
