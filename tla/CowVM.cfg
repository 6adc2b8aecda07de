CONSTANTS
    BootTasks = 2
    MaxTasks = 4
    Pages <- MCPages
    Vmas <- MCVmas
    Region <- MCRegion
    Gig <- MCRegion
    Frames = {1,2,3,4,5,6,7,8,9,10,11,12,13,14,15,16,17,18,19,20,21,22,23}
    NoFrame = NoFrame
    Values = {0, 1}
    Zero = 0
    FileData <- MCFileData
SPECIFICATION Spec
INVARIANTS TypeOK RefCountExact TablesSound WritableUnshared TlbCoherent
PROPERTIES FaultResolves PrivateMemorySpec
