SPECIFICATION FairSpec
CONSTANTS
    net = net
    gate = gate
    data = data
    http = http
    r1 = r1
    Service <- ChainServices
    DependsOn <- ChainDepends
    Loaded <- ChainLoaded
    Installed = {net, gate, data}
    Slow = {gate, data}
    Faulty = {}
    Single = {data}
    Restart = {}
    MaxRequests = 2
INVARIANTS NothingForgotten
PROPERTY SwitchingEnds
CHECK_DEADLOCK FALSE
