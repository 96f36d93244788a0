\* Two listen-only clients, and a device that sends its data to the second one.
SPECIFICATION Spec
CONSTANTS
    c1 = c1
    c2 = c2
    d1 = d1
    d2 = d2
    d3 = d3
    n1 = n1
    n2 = n2
    n3 = n3
    n4 = n4
    shared = shared
    NoPeer = NoPeer
    NoName = NoName
    NoDataPeer = NoDataPeer
    NoFmu = NoFmu
    Nodes = {n1, n2, n3, n4}
    IdSpace = 20
    MinRttStart = 1000
    MaxTime = 4
    MaxDelay = 0
    Lossy = FALSE
    Clients <- TwoClients
    ClientNode <- OnTwoNodes
    RequestPeer <- ListenOnly
    Interval = 2
    ClientDelays = {0, 2}
    StoppingClients = {}
    Devices <- JustOneDevice
    DeviceNode <- DeviceOnN3
    SharedName <- OwnFmu
    SharedNames = {shared}
    DataPeer <- DataToN2
    SendInterval = 2
    Writers = {}
    WritePeriod = 2
    DeviceDelays = {0, 1}
    CommStep = 1
    FmuStart = 0
    FmuMayFail = FALSE
    StoppingDevices = {}
INVARIANTS
    DataReachesClient
