----------------------------- MODULE MCLockFile -----------------------------
(* Every sequence of calls on a manifest of two URLs and two bodies.         *)
EXTENDS LockFile, TLC

MCSymmetry == Permutations(Urls) \cup Permutations(Contents)
=============================================================================
