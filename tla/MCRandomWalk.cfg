SPECIFICATION Spec
CONSTANTS
    N = 12
    MinCycles = 2
    Near = 4
    Far = 9
INVARIANTS
    TypeOK
    WritesInSlice
    CycleIsStretch
    EveryCycleInOneRow
    ExcursionTestsAgree
    ExcursionsOfTheWalk
    TermsAreThoseInside
