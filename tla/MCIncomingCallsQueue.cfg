SPECIFICATION Spec
CONSTANTS
    c1 = c1
    c2 = c2
    c3 = c3
    c4 = c4
    c5 = c5
    n1 = n1
    n2 = n2
    n3 = n3
    n4 = n4
    Null = Null
    Call <- FiveCalls
    CgPn = {n1, n2, n3, n4}
    cg_pn <- FiveCallsCgPn
    Addr = {a1, a2, a3}
    capacity = 2
SYMMETRY Symmetry
INVARIANTS
    TypeOK
    ListMatchesMap
    TimersConserved
    TimersMatchQueue
    HandlersMatchQueue
    OneFate
PROPERTY
    OnlyRedialBreaks
CHECK_DEADLOCK FALSE
