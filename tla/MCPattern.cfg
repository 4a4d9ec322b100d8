\* Patterns whose captures hold at least one event.
SPECIFICATION Spec
CONSTANTS
    Expressions <- MCExpressions
    Datasets <- MCDatasets
    MaxEvents = 3
    Shapes = "solid"
INVARIANTS
    StopsInnermost
    CapturesAreAReading
PROPERTIES
    SearchesThePattern
    Progress
