\* Three bus resets, one of them with bad self IDs, and two updates of the configuration
\* ROM; packets of three lengths in four pages; contexts of all three kinds with two pages
\* of descriptors; one context that transmits and three that receive.
SPECIFICATION OhciSpec
CONSTANTS
    NoRom = NoRom
    SelfIds = 2
    Rom = {b1, b2, b3}
    MaxGen = 3
    MaxRom = 2
    Broken = {2}
    ArBuffers = 4
    ArPage = 3
    ArLengths = {1, 2, 5}
    ArMaxPackets = 7
    IsoKinds = {"it", "ir", "mc"}
    IsoPages = 2
    IsoUnits = 2
    IsoSizes = {1, 2}
    IsoHeaders = 1
    IsoFill = 2
    Flusher = {f1}
    IsoMaxBlocks = 3
    ItContexts = {i1}
    IrContexts = {r1, r2, r3}
    IsoChannels = {1, 2}
INVARIANTS  ArInOrder IsoInOrder ContextsExact
PROPERTIES ResetSettles ReceivedIsHandled IsoReported
CHECK_DEADLOCK FALSE
