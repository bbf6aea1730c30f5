SPECIFICATION Spec
CONSTANTS
    Configs <- ConfigType
    MaxRows = 3
    BatchSize = 2
INVARIANTS
    DeliversOneResult
    FallbackIsClean
    ResourcesReleased

    
    
