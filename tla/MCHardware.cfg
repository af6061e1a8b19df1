CONSTANTS
    Width = 14
    Samples <- MCSamples
    Amounts = {0, 1, 7, 13}
    Offsets = {0, 1, 5}
    Bytes <- MCBytes
    Decimals <- MCDecimals
    Modes <- MCModes
    Statuses <- MCStatuses
    Values = {40}
    StackOf <- MCStackOf
    MaxSteps = 4
    Kinds <- MCKinds
    Selections = {0, 1, 8, 12, 32, 255}
    Cells = {17}
    PerMinute = 2
    PerHour = 2
    PerDay = 2
    Days = 4
    ClockBytes = {0, 1, 7, 64, 193}
    Wait = {1, 40}
    MaxCartSteps = 5
    Colors = {TRUE, FALSE}
    Addresses <- MCAddresses
    Stored = {7, 200}
    Targets = {256, 8176}
    IoStores <- MCIoStores
    MaxStores = 2
    Channels = {1, 3, 4}
    Notes <- MCNotes
    Spans = {4096, 65536}
    NoiseRegisters = {128, 32767}
    MaxBeats = 5
    Line = 5
    Drawn = 4
    Lines = 4
    VblankStart = 3
    DmaChannels = {0, 3}
    Setups <- MCSetups
    RoundCycles = {1, 3, 7, 23}
    Retargets = {0, 1, 2}
    MaxRounds = 4
    Waitcnts <- MCWaitcnts
    CodeAt = {134217728, 167772158, 234881018, 33554432}
    DataAt = {134217731, 134217730, 234881030, 50331648}
    OwnCycles = {1, 4, 19}
    MaxAccesses = 6
    Watched <- MCWatched
    Places <- MCPlaces
    Contents = {3, 129}
    RomLength = 3
    BusStores = 2
    WordBits = 8
    Operands <- MCOperands
    Top = 250
    Blocks <- MCBlocks
    MaxOutput = 40
    Streams <- MCStreams
SPECIFICATION Spec
CHECK_DEADLOCK FALSE
INVARIANTS
    InstructionsExact
    FramesBalance
    SoundExact
    VideoExact
    PrefetchPaid
    BusReadsBack
    BiosExact
PROPERTIES
    ImplementsRegisterFile
    CartridgeKeeps
    MemoryExact
