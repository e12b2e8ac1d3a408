\* A host and two other nodes, one with its link off; a client that is careful across
\* four bus resets, or any client with a contended IRM.
SPECIFICATION ResetsSpec
CONSTANTS
    h1 = h1  p1 = p1  p2 = p2
    Host = {h1}
    Passive = {p1, p2}
    PhyId <- PhyIds
    Cmc = {h1}
    NoRom = {}
    LinkOff = {p2}
    OldIrm = {}
    ExpectedGap = 5
    Phys = "obedient"
    Prompt = TRUE
    MaxRetries = 5
    MaxResets = 20
    MaxExternal = 1
    Abdicate = {TRUE, FALSE}
    LockFailures = {"other"}
    Res = {r1}
    Channel = {0, 1, 2}
    Initial = 5
    Units = 2
    MaxGenerations = 4
    MaxOther = 1
    MaxOnce = 2
    Environments <- CarefulOrAny
INVARIANTS  KrefCounts
PROPERTIES BusComesToRest CarefulClientServed
CHECK_DEADLOCK FALSE
