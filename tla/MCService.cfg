SPECIFICATION Spec
CONSTANTS
    call1 = call1
    call2 = call2
    Calls <- MCCalls
    Sizes <- MCSizes
    Outcomes <- AnyOutcome
    NumTests = 2
    MinBits = 16
    MaxBits = 16
    AuthEnabled = TRUE
    MayError = TRUE
    UniformityMin = 2
INVARIANTS
    TypeOK
    CountersConserved
    GaugesAreMeasured
    AnswersMatchResults
    UniformityIsPearson
PROPERTIES
    ImplementsLedger
