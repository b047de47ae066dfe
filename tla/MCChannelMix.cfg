SPECIFICATION Spec
CONSTANTS
    Workers = {w1, w2}
    Nobody = Nobody
    Modes = {"parallel", "bootstrap"}
    Planned = 2
    PeerOf <- OnePeer
    Peers = 2
    MaxConnects = 1
    MaxDrains = 2
    MaxEvents = 1
    Swaps = {1, 2}
INVARIANTS TypeOK OpenedOnce DrainedOnce OneRoundAtATime RealizedIsEarned OneActiveRun
PROPERTIES CancelSticks EveryRunEnds
CHECK_DEADLOCK FALSE
