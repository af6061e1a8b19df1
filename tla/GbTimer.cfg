CONSTANTS
    DivModulus <- MCDivModulus
    TimaMax <- MCTimaMax
    InstrCycles <- MCInstrCycles
SPECIFICATION Spec
INVARIANTS
    TypeOK
    ReloadWindow
PROPERTIES
    NoTickDropped
    ExactPeriod
