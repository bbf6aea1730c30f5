SPECIFICATION Spec
CONSTANTS
    Tables <- MCTables
    Dirs <- MCDirs
    Files <- MCFiles
    Contents <- MCContents
    Published <- MCPublished
    Readers = {"legacy", "v1", "v2", "v2 with data column path", "unknown"}
    MaxFiles = 2
    MaxChanges = 1
    None = None
INVARIANTS
    
    NothingListedIsOmitted
PROPERTY
    ImplementsSourceSelection
