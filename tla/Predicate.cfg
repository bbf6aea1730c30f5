SPECIFICATION Spec
CONSTANTS
    Filters <- MCFilters
    Leaves <- MCLeaves
    MaxNodes = 5
    MaxDepth = 2
    BitWidth = 2
    MaxPredicates = 2
    Null = Null
INVARIANTS
    DorisKeepsRaysRows
    
