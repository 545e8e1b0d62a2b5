\* One node that connects twice and one command, with every failure of the hub.
CONSTANTS
    Node = {n1}
    Cmd = {c1}
    MaxConn = 2
    Authorized = {n1}
    Matching = {n1}
    NoCmd = NoCmd
    NoNode = NoNode
    Interval = 1
    CommandMax = 4
    StaleInterval = 4
    MaxDelay = 1
    MaxAge = 19
    MaxLost = 1
    MaxOutage = 3
SPECIFICATION ClusterSpec
INVARIANTS ViewsAgree SteadyIsOnline
