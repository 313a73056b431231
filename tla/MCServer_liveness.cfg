SPECIFICATION FairSpec
CONSTANTS
    c1 = c1
    c2 = c2
    c3 = c3
    n1 = n1
    n2 = n2
    Null = Null
    Call <- TwoCalls
    CgPn = {n1}
    cg_pn <- TwoCallsCgPn
    Addr = {a1, a2}
    capacity = 1
PROPERTIES
    EveryPeerServed
    EverySessionEnds
    EveryCallRecorded
CHECK_DEADLOCK FALSE
