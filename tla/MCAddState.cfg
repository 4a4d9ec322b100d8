CONSTANTS
    None = None
    Teams = {home, away}
    MaxEvents = 4
    MaxFilter = 3
SPECIFICATION Spec
CHECK_DEADLOCK FALSE
SYMMETRY MCSymmetry
INVARIANTS
    ScoreExact
    PossessionExact
    SequenceSplit
    SequencesNumbered
