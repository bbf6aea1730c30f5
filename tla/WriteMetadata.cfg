SPECIFICATION Spec
CONSTANTS
    Error = Error
    Tables <- MCTables
    Styles <- MCStyles
    Blocks <- MCBlocks
    Refusals <- MCRefusals
    MaxChanges = 1
INVARIANTS
    AcceptedIsStored
    ErrorsSayWhy
