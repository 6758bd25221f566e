SPECIFICATION Spec
CONSTANTS
    call1 = call1
    call2 = call2
    watch = watch
    Unary <- MCUnary
    Streams <- MCStreams
    MaxSignals <- MCMaxSignals
INVARIANTS
    TypeOK
    NoSilentLoss
    MetricsOutliveRpcs
    OkOnlyWhenAsked
    AskedExitStatus
PROPERTIES
    SignalLeadsToExit
    ErrorLeadsToExit
