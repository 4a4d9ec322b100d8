CONSTANTS
    NumPeriods = 2
    Duration <- MCDuration
    Kickoff <- MCKickoff
    home = home
    away = away
    ann = ann
    bea = bea
    cat = cat
    left = left
    right = right
    Unknown = Unknown
    None = None
    NotFound = NotFound
    Players <- MCPlayers
    Teams <- MCTeams
    TeamOf <- MCTeamOf
    Starters <- MCStarters
    PositionTypes <- MCPositionTypes
    StartingPosition <- MCStartingPosition
    FormationTypes <- MCFormationTypes
    StartingFormation <- MCStartingFormation
    GivenPositions <- MCGivenPositions
    Leeway = 2
    EventTimes <- MCEventTimes
    MaxEvents = 1
SPECIFICATION Spec
CHECK_DEADLOCK FALSE
INVARIANT
    FilterLeavesLoaded
