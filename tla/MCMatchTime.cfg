CONSTANTS
    NumPeriods = 3
    Duration <- MCDuration
    Kickoff <- MCKickoff
    Stamps <- MCStamps
    Deltas <- MCDeltas
SPECIFICATION FairSpec
INVARIANTS
    TypeOK
    LoopConserves
    ResultExact
    BoundaryRepresentation
PROPERTY
    LoopEnds
