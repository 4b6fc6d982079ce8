CONSTANTS
    Cases <- MCCases
    MaxVersion = 2
SPECIFICATION Spec
INVARIANTS
    CleanTestIsExact
    TreeWithCode
PROPERTY
    DerivedTogether
