\* One node that connects twice, and two commands.
CONSTANTS
    Node = {n1}
    Cmd = {c1, c2}
    MaxConn = 2
    Authorized = {n1}
    Matching = {n1}
    NoCmd = NoCmd
    NoNode = NoNode
SPECIFICATION LiveSpec
INVARIANTS RoutesToNewest PendingIsInFlight ResponseLag
PROPERTIES ImplementsService EveryCallEnds CycleEnds DeliveredIsRead
CHECK_DEADLOCK FALSE
