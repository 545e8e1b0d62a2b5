\* A peer with two tasks and one that only connects by itself.
CONSTANTS
    Peer = {p1, p2}
    Listed = {p1}
    MaxTask = 2
    MaxIn = 1
    MaxDelay = 2
SPECIFICATION LiveSpec
INVARIANTS TypeOK OneTaskPerPeer EntryIsOwned BroadcastReachesStable
PROPERTIES EndsOnlyWhenTold TriesAgain StopReturns
CHECK_DEADLOCK FALSE
