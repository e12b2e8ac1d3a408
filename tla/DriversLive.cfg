\* Two datagrams at a time to two peers; two FCP transactions, one of which can be deferred,
\* and one bus reset; a connection with two bus resets while another node changes the
\* plug; MIDI texts with one failed request.
SPECIFICATION DriversSpec
CONSTANTS
    Task = {t1, t2}
    Peer = {p1, p2}
    MaxFragments = 2
    MaxQueued = 2
    MinQueued = 1
    MaxOpen = 2
    Call = {c1, c2}
    Command = {k1, k2}
    Deferrable = {k1}
    FcpTries = 2
    FcpMaxFrames = 1
    FcpMaxGen = 1
    Chan = {1, 2}
    CmpMaxGen = 2
    CmpMaxLost = 1
    CmpMaxOther = 2
    Texts <- MidiTexts
    MidiMaxFail = 1
    MidiMaxOpen = 2
    FormerQuads = 4
    ScsPacket = 6
INVARIANTS TasksCounted ResponseFromUnit PlugFollowsConnection MidiInOrder
PROPERTIES QueueWoken UndisturbedReturns
CHECK_DEADLOCK FALSE
