CONSTANTS
    N = 2
    Modulus = 3
    Prescale <- MCPrescale
    Controls <- MCControls
    Data <- MCData
    Cycles <- MCCycles
    MaxWrites = 1
    MaxLoads = 0
SPECIFICATION Spec
PROPERTY WritesBecomeReloads
