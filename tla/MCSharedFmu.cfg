\* A client, and two devices that share an FMU: one answers the client and writes
\* results, the other sends data to it; FMUs may fail, applications may stop.
SPECIFICATION Spec
CONSTANTS
    c1 = c1
    c2 = c2
    d1 = d1
    d2 = d2
    d3 = d3
    n1 = n1
    n2 = n2
    n3 = n3
    n4 = n4
    shared = shared
    NoPeer = NoPeer
    NoName = NoName
    NoDataPeer = NoDataPeer
    NoFmu = NoFmu
    Nodes = {n1, n2, n3, n4}
    IdSpace = 20
    MinRttStart = 1000
    MaxTime = 4
    MaxDelay = 0
    Lossy = FALSE
    Clients <- OneClient
    ClientNode <- ClientOnN1
    RequestPeer <- ClientOfN2
    Interval = 2
    ClientDelays = {2}
    StoppingClients = {c1}
    Devices <- ThreeDevices
    DeviceNode <- ThreeNodes
    SharedName <- OneSharedFmu
    SharedNames = {shared}
    DataPeer <- DataFromN3
    SendInterval = 2
    Writers = {d1, d3}
    WritePeriod = 2
    DeviceDelays = {0, 1}
    CommStep = 1
    FmuStart = 0
    FmuMayFail = TRUE
    StoppingDevices = {d2}
INVARIANTS
    TypeOK
    OneFmuPerName
    FmuReachesNow
PROPERTIES
    FmuTimeNeverBack
