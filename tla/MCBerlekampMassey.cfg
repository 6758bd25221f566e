SPECIFICATION Spec
CONSTANTS
    M <- MCBlockLength
    NumBlocks <- MCNumBlocks
INVARIANTS
    TypeOK
    PanicExactlyOnLateOne
    RegisterGeneratesPrefix
    RegisterIsShortest
PROPERTY ClassifiedByDistance
