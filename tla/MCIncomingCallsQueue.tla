------------------------ MODULE MCIncomingCallsQueue ------------------------
(* Small instances of IncomingCallsQueue.  The first two calls come from one  *)
(* caller, so its number can be queued, taken and queued again.               *)
EXTENDS IncomingCallsQueue

CONSTANTS c1, c2, c3, c4, c5, n1, n2, n3, n4

ThreeCalls == {c1, c2, c3}
ThreeCallsCgPn == (c1 :> n1) @@ (c2 :> n1) @@ (c3 :> n2)

FourCalls == {c1, c2, c3, c4}
FourCallsCgPn == (c1 :> n1) @@ (c2 :> n1) @@ (c3 :> n2) @@ (c4 :> n3)

FiveCalls == {c1, c2, c3, c4, c5}
FiveCallsCgPn == (c1 :> n1) @@ (c2 :> n1) @@ (c3 :> n2) @@ (c4 :> n3) @@ (c5 :> n4)

\* Node addresses are interchangeable, and so are the two calls of one caller.
Symmetry == Permutations(Addr) \cup Permutations({c1, c2})
=============================================================================
