--------------------------- MODULE MCBlobBackends ---------------------------
(* Two handles (of one process or of two) writing bodies of up to two bytes, *)
(* in one call of Write or in two.                                           *)
EXTENDS BlobBackends, TLC

CONSTANT a

MCBytes == {a}
MCPayloads == {<<a>>, <<a, a>>}
MCSymmetry ==
  Permutations(Writers) \cup Permutations(TempNames) \cup Permutations(Sessions)
=============================================================================
