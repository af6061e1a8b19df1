SPECIFICATION FairSpec
CONSTANT Sources <- MCSources
INVARIANT TypeOK
PROPERTIES NeverSleepsThrough WakeUp
