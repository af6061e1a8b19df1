CONSTANTS
    Banks <- MCBanks
    Offsets <- MCOffsets
    Values <- MCValues
    Cells <- MCCells
    AddrBits = 2
    UsedBits = 1
    DataBits = 2
SPECIFICATION Spec
INVARIANTS
    InFrame
    AnswersTheBlock
PROPERTIES
    ImplementsChip
    StoresExactly
