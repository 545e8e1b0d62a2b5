\* A normal node, one that never sends its own node_id, one whose token does not verify.
CONSTANTS
    Node = {n1, n2, n3}
    Cmd = {c1, c2}
    MaxConn = 1
    Authorized = {n1, n2}
    Matching = {n1}
    NoCmd = NoCmd
    NoNode = NoNode
SPECIFICATION Spec
SYMMETRY Symmetry
INVARIANTS TypeOK AtMostOnce AnswersAreTrue
CHECK_DEADLOCK FALSE
