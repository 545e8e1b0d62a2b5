\* One healthy connection and three requests.
CONSTANTS
    Node = {n1}
    Cmd = {c1, c2, c3}
    MaxConn = 1
    Authorized = {n1}
    Matching = {n1}
    NoCmd = NoCmd
    NoNode = NoNode
    Patience = 3
SPECIFICATION TimedSpec
PROPERTY HealthyAgentAnswers
CHECK_DEADLOCK FALSE
