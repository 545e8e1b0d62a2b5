\* One node with an old and a new connection, failing statements, and up to two
\* sweeps in a row that fail or are cut off by an outage of the hub, up to three
\* times as long as the timeout.
CONSTANTS
    n1 = n1
    Node = {n1}
    Handler <- TwoOfOne
    NodeOf <- FirstOf
    StaleInterval = 3
    MaxDelay = 1
    MaxAge = 26
    Faults = TRUE
    MaxLost = 2
    MaxOutage = 9
SPECIFICATION LiveSpec
INVARIANTS EstablishedIsListed OnlineIsRecent
PROPERTIES MarkedIsOverdueOrJustHeard ImplementsNodeTable OverdueEnds StaleRecovers
