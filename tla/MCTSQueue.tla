----------------------------- MODULE MCTSQueue -----------------------------
(* A small instance of TSQueue: two pushers and two waiters.                 *)
EXTENDS TSQueue

CONSTANTS p1, p2, w1, w2

TwoPushers == {p1, p2}
TwoWaiters == {w1, w2}
=============================================================================
