CONSTANTS
    a = a
    b = b
    p = p
    q = q
    Var = {x}
    Arr = {a, b}
    Lo <- MCLo
    Hi <- MCHi
    Proc = {p, q}
    Formals <- MCFormals
    Value = {zero, one}
    Zero = zero
    Undef = undef
    MaxDepth = 2
SPECIFICATION Spec
INVARIANTS
    TypeOK
    PointersLive
    OverrunNeedsStart
PROPERTY
    Refines
CHECK_DEADLOCK FALSE
