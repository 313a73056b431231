---------------------------- MODULE MCOperators ----------------------------
(* Small instances of Operators: c1 and c2 come from one caller.             *)
EXTENDS Operators, TLC

CONSTANTS c1, c2, c3, n1, n2

TwoCalls == {c1, c3}
TwoCallsCgPn == (c1 :> n1) @@ (c3 :> n2)

ThreeCalls == {c1, c2, c3}
ThreeCallsCgPn == (c1 :> n1) @@ (c2 :> n1) @@ (c3 :> n2)

\* Node addresses are interchangeable, and so are the two calls of one caller.
Symmetry == Permutations(Addr) \cup Permutations({c1, c2})
=============================================================================
