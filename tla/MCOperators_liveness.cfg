SPECIFICATION PatientFairSpec
CONSTANTS
    c1 = c1
    c2 = c2
    c3 = c3
    n1 = n1
    n2 = n2
    Null = Null
    Call <- ThreeCalls
    CgPn = {n1, n2}
    cg_pn <- ThreeCallsCgPn
    Addr = {a1}
    capacity = 1
    count_op = 2
INVARIANT SoundUntilAwake
PROPERTIES
    EveryCallRecorded
    SleeperIsWoken
    ImplementsCallCentre
CHECK_DEADLOCK FALSE
