CONSTANT
    N = 8
SPECIFICATION Spec
INVARIANTS
    RunsInOrder
    RunsToTheEnd
    RangeInv
PROPERTY
    Ends
