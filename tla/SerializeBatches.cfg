SPECIFICATION SerializeSpec
CONSTANTS
    MaxTableRows = 7
    MaxRows = 5
    MaxBytes = 2
    Sizes = {1, 3}
INVARIANTS
    RowsInOrderOnce
    BatchesWithinTargets
PROPERTY
    Terminates
