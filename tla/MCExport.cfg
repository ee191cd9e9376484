SPECIFICATION FairSpec
CONSTANTS
  a = a
  b = b
  None = None
  Bytes <- MCBytes
  Hashes <- MCHashes
INVARIANTS ExportComplete ErrorHasReason CollectsAll
PROPERTY ExportEnds
