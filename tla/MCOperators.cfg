SPECIFICATION Spec
CONSTANTS
    c1 = c1
    c2 = c2
    c3 = c3
    n1 = n1
    n2 = n2
    Null = Null
    Call <- ThreeCalls
    CgPn = {n1, n2}
    cg_pn <- ThreeCallsCgPn
    Addr = {a1, a2, a3}
    capacity = 2
    count_op = 2
SYMMETRY Symmetry
INVARIANTS
    TypeOK
    OperatorsConserved
    OneFate
    OperatorStaysFree
PROPERTIES
    OnlyTheseBreak
    ImplementsCallCentre
CHECK_DEADLOCK FALSE
