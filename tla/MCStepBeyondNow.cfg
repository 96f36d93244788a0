\* Two clients that ask one device at the same time.
SPECIFICATION Spec
CONSTANTS
    c1 = c1
    c2 = c2
    d1 = d1
    d2 = d2
    d3 = d3
    n1 = n1
    n2 = n2
    n3 = n3
    n4 = n4
    shared = shared
    NoPeer = NoPeer
    NoName = NoName
    NoDataPeer = NoDataPeer
    NoFmu = NoFmu
    Nodes = {n1, n2, n3, n4}
    IdSpace = 20
    MinRttStart = 1000
    MaxTime = 4
    MaxDelay = 0
    Lossy = TRUE
    Clients <- TwoClients
    ClientNode <- OneNode
    RequestPeer <- OneDevice
    Interval = 2
    ClientDelays = {0, 2}
    StoppingClients = {}
    Devices <- TwoDevices
    DeviceNode <- TwoNodes
    SharedName <- OwnFmus
    SharedNames = {shared}
    DataPeer <- NoData
    SendInterval = 2
    Writers = {}
    WritePeriod = 2
    DeviceDelays = {0, 1}
    CommStep = 1
    FmuStart = 0
    FmuMayFail = FALSE
    StoppingDevices = {}
INVARIANTS
    StopsAtCurrentTime
