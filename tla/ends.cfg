SPECIFICATION Spec
CONSTANTS
    Parts = {"farm", "move", "ttw"}
    d1 = d1
    d2 = d2
    d3 = d3
    d4 = d4
    None = None
INVARIANTS
    OutputKept
PROPERTIES
    OperationsEnd
    MoveFinishes
    CancelEnds
CHECK_DEADLOCK FALSE
