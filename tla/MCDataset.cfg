CONSTANTS
    None = None
    Garbled = Garbled
    ax1 = ax1
    ax2 = ax2
    dim1 = dim1
    dim2 = dim2
    Sources <- MCSources
    Feeds <- MCFeeds
    PeriodOf <- MCPeriodOf
    OwnerOf <- MCOwnerOf
    TeamOf <- MCTeamOf
    HasFreezeFrame <- MCHasFreezeFrame
    Orientations <- MCOrientations
    Axes <- MCAxes
    Dims <- MCDims
    MaxDatasets = 3
SPECIFICATION Spec
CHECK_DEADLOCK FALSE
SYMMETRY MCSymmetry
INVARIANTS
    TypeOK
    DatasetCoherent
    RefDirection
    OwnChain
    LinksAdvance
    FreezeFrameCoherent
PROPERTY
    RecordsImmutable
