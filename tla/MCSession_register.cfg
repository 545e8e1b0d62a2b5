CONSTANTS
    Node = {n1}
    Cmd = {c1}
    MaxConn = 2
    Authorized = {n1}
    Matching = {n1}
    NoCmd = NoCmd
    NoNode = NoNode
SPECIFICATION Spec
INVARIANT ConnectedIsRegistered
CHECK_DEADLOCK FALSE
