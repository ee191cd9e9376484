------------------------------ MODULE MCVerify ------------------------------
(* Two URLs of one repository, so that the second may be fetched with the    *)
(* cached token of the first, and one that is of none and may be excluded    *)
(* from caching.                                                             *)
EXTENDS Verify, TLC

CONSTANTS u1, u2, u3, k

MCKeyOf == (u1 :> k) @@ (u2 :> k) @@ (u3 :> None)
MCSymmetry == Permutations({u1, u2}) \cup Permutations(Contents)
=============================================================================
