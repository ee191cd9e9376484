--------------------------- MODULE StoreConstants ---------------------------
(***************************************************************************)
(* The parameters the three blob stores share.                             *)
(***************************************************************************)
EXTENDS Naturals, Sequences

CONSTANTS
  Bytes, Writers, Payloads,   \* as in BlobStore
  None,                       \* no file, no session
  TempNames,                  \* the names os.CreateTemp may pick
  Sessions,                   \* the upload sessions a registry may hand out
  MaxLen                      \* bound on the length of a body

ASSUME StoreAssumption ==
  /\ Payloads \subseteq Seq(Bytes) \ {<<>>}
  /\ None \notin Seq(Bytes)
  /\ None \notin TempNames \cup Sessions
  /\ MaxLen \in Nat
=============================================================================
