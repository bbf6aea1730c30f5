SPECIFICATION GroupsSpec
CONSTANTS
    MaxTablets = 13
    MaxTabletSize = 4
    MaxParallelism = 6
INVARIANTS
    EveryTabletOnce
    WithinHint
