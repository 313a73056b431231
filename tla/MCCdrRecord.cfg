SPECIFICATION Spec
CONSTANTS
    t1 = t1
    t2 = t2
    c1 = c1
    c2 = c2
    Null = Null
    Thread <- TwoThreads
    Call <- TwoCalls
    OkCall <- OneOkCall
    TimeoutCall <- OneTimeoutCall
INVARIANT RecordShowsItsCall
CHECK_DEADLOCK FALSE
