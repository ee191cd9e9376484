----------------------------- MODULE MCListener -----------------------------
(* Instances of Listener.                                                    *)
EXTENDS Listener, TLC

CONSTANTS u, n, e, c1, c2, r1, r2

Anything == [x \in Urls |-> Contents \ {Empty}]
Stable == [x \in Urls |-> {c1}]
MCSymmetry == Permutations(Handlers)
=============================================================================
