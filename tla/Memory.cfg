SPECIFICATION MCSpec
CONSTANTS
    PageSize = 4
    UserEnd = 16
    ImageSize = 16
    StoreAddrs = {8}
    MaxTasks = 2
    Layouts <- MCLayouts
    Depth = 3
    Reserved = 1
    Requests = {1, 2, 3}
    MaxRef = 2
INVARIANTS
    SegmentsLoadedApart
    ListsSound
    LargestFree
    BlocksSound
PROPERTIES
    StoresKept
    PageFramesSpec
