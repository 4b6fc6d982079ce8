CONSTANT
    Depth = 2
SPECIFICATION Spec
INVARIANTS
    Agreement
    AcceptedCompiles
    ErrorsStop
    CrashNeedsError
    ErrorShows
