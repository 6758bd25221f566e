SPECIFICATION Spec
CONSTANTS
    ByteValues <- MCBytes
    NumBytes = 3
    BlockSize = 7
    RunM = 5
    V <- MCV
    TemplateLen = 3
    Templates <- MCTemplates
    NumBlocks = 2
    OnesM = 11
    MostOnes = 5
    L = 2
    InitBlocks = 4
    ApEnM = 2
    SerialM = 4
    Sizes <- MCSizes
INVARIANTS
    TypeOK
    ParametersFit
    BlocksClassified
    ScanLosesNothing
    DistancesToLast
    WindowsAgree
    SerialNonNegative
