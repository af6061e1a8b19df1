CONSTANTS
    N = 2
    Modulus = 3
    Prescale <- MCPrescale
    Controls <- MCControls
    Data <- MCData
    Cycles <- MCCycles
    MaxWrites = 1
    MaxLoads = 1
SPECIFICATION Spec
INVARIANT TypeOK
PROPERTIES
    BatchExact
    MirrorNotReload
