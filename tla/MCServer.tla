------------------------------ MODULE MCServer ------------------------------
(* Small instances of Server: the first two connections come from one caller. *)
EXTENDS Server, TLC

CONSTANTS c1, c2, c3, n1, n2

TwoCalls == {c1, c2}
TwoCallsCgPn == (c1 :> n1) @@ (c2 :> n1)

ThreeCalls == {c1, c2, c3}
ThreeCallsCgPn == (c1 :> n1) @@ (c2 :> n1) @@ (c3 :> n2)

\* Node addresses are interchangeable, and so are the two connections of one caller.
Symmetry == Permutations(Addr) \cup Permutations({c1, c2})
=============================================================================
