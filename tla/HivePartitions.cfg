SPECIFICATION Spec
CONSTANTS
    Names = {1, 2, 3, 4}
    ValueOf <- MCValueOf
    MaxPartitions = 3
    BatchSize = 2
    MaxVersions = 2
    MaxChanges = 2
INVARIANTS
    ResultIsTheListing
    ScopeIsDoris
    NoFalseAlarm
PROPERTY
    Terminates
