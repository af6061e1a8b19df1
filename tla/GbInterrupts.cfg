CONSTANT Sources <- MCSources
SPECIFICATION Spec
INVARIANT TypeOK
PROPERTIES
    EiDelay
    NoLostWakeup
    WakesUp
CHECK_DEADLOCK FALSE
