CONSTANTS
    Inputs <- MCInputs
    Types <- MCTypes
    Selectors <- MCSelectors
SPECIFICATION Spec
INVARIANTS
    TypeOK
    OutOnce
    EachOnce
    MatchOrder
    RowsAgree
    CodesInPlace
