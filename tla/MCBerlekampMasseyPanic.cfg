SPECIFICATION Spec
CONSTANTS
    M <- MCBlockLength
    NumBlocks <- MCNumBlocks
INVARIANT AlwaysReturns
