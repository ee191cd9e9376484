------------------------------ MODULE MCExport ------------------------------
(* Two blobs; the empty one is also what a source that has lost the bytes of *)
(* the other may hold in its place.                                          *)
EXTENDS Export

CONSTANTS a, b

MCBytes == {a, b}
MCHashes == {<<>>, <<a, b>>}
=============================================================================
