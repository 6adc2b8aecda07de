SPECIFICATION Spec
CONSTANTS
    Fan = 8
    PageBytes = 2
    Ram = 32
    VmStart = 512
    Sections <- MCSections
    Device <- MCDevice
    Firmware = {0}
    Image <- MCImage
    EarlyDir = 5
    Swapper = 6
    Vma <- MCVma
    Orders <- MCOrders
    Tasks = {1, 2, 3}
    UserWords <- ValidWords
    None = None
INVARIANTS
    TablesSound
    KernelStaysMapped
PROPERTIES
    MapsUnlessExhausted
    AddressSpacesSpec
