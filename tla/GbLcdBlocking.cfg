CONSTANTS
    Dots = 10
    OamEnd = 3
    TransferEnd = 6
    Visible = 2
    Lines = 4
    Steps <- MCSteps
    Lycs <- MCLycs
    MaxBlocks = 2
SPECIFICATION Spec
PROPERTY StatBlocking
