SPECIFICATION Spec
CONSTANT
    Q = 4
INVARIANTS
    TypeOK
    ClearBelow
    RankIsDimension
