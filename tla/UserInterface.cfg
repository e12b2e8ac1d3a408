\* All drivers with duplex streams (the latter Fireface models take the steps of ff400)
\* and all kinds of hwdep devices; a client with two threads.
SPECIFICATION UserSpec
CONSTANTS
    DupDrivers = {"efw", "bebob", "oxfw", "ff400", "ff800", "dg00x", "dice", "motu", "tascam"}
    DupMaxGen = 2
    DupMaxFault = 1
    DupMaxBusy = 2
    HwKinds = {"bebob", "dice", "dg00x", "motu", "motu dsp", "ff400", "tascam", "efw"}
    HwQueue = 4
    HwMaxEvents = 6
    HwMaxLock = 2
    HwRooms = {1, 2, 3}
    CdevThread = {c1, c2}
    Outbound = {o1}
    CdevHandle = {h1}
    CdevMaxGen = 1
    CdevMaxArrival = 1
    CdevMaxNoMem = 1
    CdevUses = {{"iso"}, {"phy"}, {"requests", "handles"}}
INVARIANTS DuplexExact HwdepTellsTruth ClientExact
CHECK_DEADLOCK FALSE
