SPECIFICATION Spec
CONSTANTS
    Element <- All
    Rows <- AllRows
    Columns <- Labels
    Pinned <- Lengths
    Tape = 16
    Gap = 1
    Padding = 1
    MinAuto = 12
    MaxAuto = 40
INVARIANTS
    TypeOK
    FillsBudget
    OverrunsByRounding
    ElasticFirst
    AutoIsEnough
    DrawnInBox
    ColumnIsWhole
    ModulesFill
CHECK_DEADLOCK FALSE
