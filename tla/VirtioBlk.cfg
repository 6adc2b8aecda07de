CONSTANTS
    Sectors = {s0, s1}
    Buffers = {b0, b1}
    Contents = {c1, c2}
    BootSector = s0
    BootBuffer = b0
    Signed = {c1}
    QueueSize = 2
    IdxValues = 4
SPECIFICATION Spec
PROPERTIES DescriptorsStable BlockDeviceSpec RequestsComplete
