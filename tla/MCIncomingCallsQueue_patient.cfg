SPECIFICATION PatientFairSpec
CONSTANTS
    c1 = c1
    c2 = c2
    c3 = c3
    c4 = c4
    c5 = c5
    n1 = n1
    n2 = n2
    n3 = n3
    n4 = n4
    Null = Null
    Call <- FourCalls
    CgPn = {n1, n2, n3}
    cg_pn <- FourCallsCgPn
    Addr = {a1, a2, a3}
    capacity = 2
INVARIANT
    NeverBroken
PROPERTY
    EveryCallLeaves
CHECK_DEADLOCK FALSE
