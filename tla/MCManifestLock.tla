--------------------------- MODULE MCManifestLock ---------------------------
(* Three processes, the fewest for a lock file to be taken from under one    *)
(* and made anew by another, and an inode for each and one more.             *)
EXTENDS ManifestLock, TLC

MCSymmetry == Permutations(Procs) \cup Permutations(Inodes)
=============================================================================
