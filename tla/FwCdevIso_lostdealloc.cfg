SPECIFICATION CdevIsoFairSpec
CONSTANTS
    Res = {r1}
    Channel = {0, 1, 2}
    Initial = 8
    Units = 2
    MaxGenerations = 4
    MaxOther = 0
    MaxOnce = 0
    Environments <- OnlyCareless
PROPERTY DeallocationEnds
CHECK_DEADLOCK FALSE
