CONSTANTS
    SectorSize = 2
    SecPerCluster = 2
    Clusters = {2, 3, 4, 5}
    Fat <- MCFat
    EndOfChain = EndOfChain
    TableEntries = 3
    Dir <- MCDir
    NeverUsed = NeverUsed
    Names = {"long", "short", "empty", "behind"}
    Handles = {h1}
    NoFile = NoFile
    Bytes = {1, 2}
    NoByte = NoByte
    Lengths = {0, 1, 3, 5}
    MaxLength = 5
    Offsets <- MCOffsets
    Patterns <- MCPatterns
    Disks <- MCDisks
SPECIFICATION Spec
PROPERTIES ChainFollowed
