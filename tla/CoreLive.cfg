\* Overlapping requests to the local and to a remote node with one bus reset; a request to memory or
\* to the FCP registers while handlers come and go.
SPECIFICATION CoreLiveSpec
CONSTANTS
    Txn = {t1, t2}
    NoTxn = NoTxn
    NodeId = {n1, local}
    LocalId = local
    NLabels = 2
    MaxGen = 1
    HwStatus = {"complete", "pending"}
    Cancellable = {}
    CanRemove = FALSE
    d2 = d2  c1 = c1  c2 = c2
    Handler = {c1, d2, c2}
    Client = {c1, c2}
    Region <- MemoryAndFcp
    FcpStart = 4
    FcpEnd = 6
    Request = {r1}
    Offset = {0, 4}
    BufferSize = 1
    NoMemory = TRUE
    BadAnswer = FALSE
PROPERTIES CompletesUnlessAtWorkLost RequestsAndRemovalsEnd
CHECK_DEADLOCK FALSE
