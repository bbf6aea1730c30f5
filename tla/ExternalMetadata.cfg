SPECIFICATION Spec
CONSTANTS
    Errors <- MCErrors
    MaxIssues = 2
INVARIANTS
    TypeOK
    AlternateOnlyWhereLacking
PROPERTIES
    ImplementsSourceSelection
    NothingAskedAfterRefusal
    
