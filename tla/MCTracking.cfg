CONSTANTS
    Half = 3
    Ticks = 2
    Inputs <- MCInputs
SPECIFICATION Spec
INVARIANTS
    InPeriod
    InOrder
    RosterClosed
    OnlySelects
    BallFollowsEvents
