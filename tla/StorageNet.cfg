\* A logical unit with two ORBs and one bus reset; three datagrams, of which two fit at
\* a time, with fragments lost, doubled and out of order; two initiators of the target,
\* and one with three ORBs.
SPECIFICATION StorageSpec
CONSTANTS
    LU = {l1}
    NOrb = 2
    SbpMaxGen = 1
    SbpRetryLimit = 1
    DgSize <- DatagramSizes
    MaxPartial = 2
    RxMaxGen = 1
    RxMaxTwice = 1
    RxMaxNoMem = 1
    NInit = 2
    MaxConfig = 4
    MaxMgt = 3
    TgtMaxGen = 1
    NTag = 2
    MaxOrb = 3
    AgMaxGen = 1
INVARIANTS OrbReferencesExact ReassemblyExact 
PROPERTY HostUnblocked
CHECK_DEADLOCK FALSE
