SPECIFICATION Spec
CONSTANTS
    Peer = {p1}
    Timeout = 2
    StatusMax = 1
    Interval = 5
    Secret = TRUE
    Swallows = TRUE
    MaxVersion = 2
    MaxProbes = 2
INVARIANTS
    QuietWhenStopped
PROPERTIES
    AnswersInOrder
    StopEnds
