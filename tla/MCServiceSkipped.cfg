SPECIFICATION Spec
CONSTANTS
    call1 = call1
    call2 = call2
    Calls <- MCCalls
    Sizes <- MCSizes
    Outcomes <- SuiteOutcome
    NumTests = 2
    MinBits = 16
    MaxBits = 16
    AuthEnabled = TRUE
    MayError = FALSE
    UniformityMin = 2
INVARIANT SkippedAreReported
