CONSTANTS
    i1 = i1
    i2 = i2
    i3 = i3
    NoNbr = NoNbr
    IfOrder <- MCIfOrder
    Nbrs <- MCNbrs
    MaxChanges = 3
SPECIFICATION Spec
CHECK_DEADLOCK FALSE
INVARIANT DisplayInBounds
