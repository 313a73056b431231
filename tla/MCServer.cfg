SPECIFICATION Spec
CONSTANTS
    c1 = c1
    c2 = c2
    c3 = c3
    n1 = n1
    n2 = n2
    Null = Null
    Call <- ThreeCalls
    CgPn = {n1, n2}
    cg_pn <- ThreeCallsCgPn
    Addr = {a1, a2}
    capacity = 1
SYMMETRY Symmetry
INVARIANTS
    TypeOK
    OneRecord
    AnswerIsTrue
CHECK_DEADLOCK FALSE
