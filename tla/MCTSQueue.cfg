SPECIFICATION FairSpec
CONSTANTS
    p1 = p1
    p2 = p2
    w1 = w1
    w2 = w2
    Pusher <- TwoPushers
    Waiter <- TwoWaiters
    Nobody = Nobody
    MaxItems = 3
INVARIANT LockDiscipline
PROPERTIES
    ImplementsWaitQueue
    EveryPushReturns
