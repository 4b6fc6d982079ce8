CONSTANTS
    Name = {t, u}
    Base = {"int", "char"}
    Subranges <- MCSubranges
    MaxObjects = 3
    MaxLength = 4
    MaxScopes = 2
    MaxBuild = 2
    Wide = 16
SYMMETRY MCSymmetry
SPECIFICATION TypesSpec
INVARIANTS
    MeansWhatItSays
    RoomAsDeclared
    SameIsSameLayout
PROPERTY
    FinishedStays
