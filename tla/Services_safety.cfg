SPECIFICATION Spec
CONSTANTS
    net = net
    gate = gate
    data = data
    http = http
    r1 = r1
    Service <- TreeServices
    DependsOn <- TreeDepends
    Loaded <- TreeLoaded
    Installed = {net, gate, data}
    Slow = {gate, data}
    Faulty = {gate, data}
    Single = {data}
    Restart = {r1}
    MaxRequests = 2
INVARIANTS TypeOK ServicesSound
CHECK_DEADLOCK FALSE
