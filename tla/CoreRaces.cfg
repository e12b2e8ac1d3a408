\* Two hosts that both want to be bus manager; requests to memory and to the FCP
\* registers; four PHYs with one to three ports.
SPECIFICATION RacesSpec
CONSTANTS
    h1 = h1  h2 = h2
    Host = {h1, h2}
    Passive = {}
    PhyId <- PhyIds
    Cmc = {h1, h2}
    NoRom = {}
    LinkOff = {}
    OldIrm = {}
    ExpectedGap = 63
    Phys = "any"
    Prompt = FALSE
    MaxRetries = 1
    MaxResets = 2
    MaxExternal = 0
    Abdicate = {FALSE}
    LockFailures = {"send_error"}
    d1 = d1  d2 = d2  c1 = c1  c2 = c2
    Handler = {d1, c1, d2, c2}
    Client = {c1, c2}
    Region <- MemoryAndFcp
    FcpStart = 4
    FcpEnd = 6
    Request = {r1}
    Offset = {0, 4}
    BufferSize = 1
    NoMemory = TRUE
    BadAnswer = FALSE
    p0 = p0  p1 = p1  p2 = p2  p3 = p3
    Phy = {p0, p1, p2, p3}
    Local = p0
    Contenders = {p0, p2}
    Switchable = {p1}
    NPorts = 3
    PortsOf <- Mixed
    Garbled = FALSE
    MaxMissed = 1
    Unconnected = Unconnected
INVARIANTS BusManagerExact HandlersAndRequestsExact TopologyExact
CHECK_DEADLOCK FALSE
