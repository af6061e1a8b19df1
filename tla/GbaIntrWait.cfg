SPECIFICATION FairSpec
CONSTANT Sources <- MCSources
PROPERTY WaitsForItsMask
