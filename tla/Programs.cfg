SPECIFICATION MCSpec
CONSTANTS
    IntBits = 4
    LongBits = 7
    BufferSize = 24
    MaxTasks = 2
    ProgramSize = 2
    MaxDepth = 1
    Values = {0, 1}
    Chunks <- MCChunks
    MaxChunks = 5
    MaxLine = 16
    CatSize = 2
    Ascii <- MCAscii
    Present <- MCPresent
    Names <- MCNames
    Offsets <- MCOffsets
    Strings <- MCStrings
    Directives <- MCDirectives
    Words = {0, 7, 8, 64, 127}
    Texts <- MCTexts
    Formats <- MCFormats
    Writes <- MCWrites
INVARIANTS
    LineSound
    FormatsConform
    CallsConform
    StacksSound
PROPERTIES
    CommandLineSpec
    UserContextsSpec
CHECK_DEADLOCK FALSE
