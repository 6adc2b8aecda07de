SPECIFICATION MCSpec
CONSTANTS
    BootTasks = 1
    MaxTasks = 2
    MaxFile = 5
    Paths <- MCPaths
    FsType <- MCFsType
    Lookup <- MCLookup
    Files <- MCFiles
    Size <- MCSize
    NoFile = "none"
    Lens = {1}
    FdArgs = {0, 1, 3, 4, 5}
    Sectors = {1, 2}
    NoPartition = 0
INVARIANTS
    OpenServesPath
    NullCallsOnlyUnopened
    VolumeFromItsBootSector
PROPERTIES
    OpenSlotsStable
    ProgramRuns
