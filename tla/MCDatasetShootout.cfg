CONSTANTS
    None = None
    Garbled = Garbled
    ax1 = ax1
    ax2 = ax2
    dim1 = dim1
    dim2 = dim2
    Sources <- MCSources
    Feeds <- MCShootoutFeeds
    PeriodOf <- MCPeriodOf
    OwnerOf <- MCOwnerOf
    TeamOf <- MCTeamOf
    HasFreezeFrame <- MCHasFreezeFrame
    Orientations <- MCFewOrientations
    Axes <- MCAxes
    Dims <- MCDims
    MaxDatasets = 2
SPECIFICATION Spec
CHECK_DEADLOCK FALSE
SYMMETRY MCSymmetry
INVARIANT
    ShootoutIgnored
