SPECIFICATION Spec
CONSTANTS
    Words <- MCWords
    Envs <- MCEnvs
    Files <- MCFiles
    MaxBits = 100000000
INVARIANTS
    TypeOK
    RulesDecide
    ServedAsSpelled
    RequiredAsListed
    NothingLeftToGuess
