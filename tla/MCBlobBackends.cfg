SPECIFICATION BackendSpec
CONSTANTS
  a = a
  None = None
  Bytes <- MCBytes
  Payloads <- MCPayloads
  Writers = {w1, w2}
  TempNames = {t1, t2}
  Sessions = {s1, s2}
  MaxLen = 2
SYMMETRY MCSymmetry
INVARIANTS
  TypeOK ContentAddressed TempsOwned
  RegistrySessionMatchesDigest RegistrySessionsOwned
  S3ContentAddressed S3TempsOwned
PROPERTIES
  ImplementsBlobStore RegistryImplementsBlobStore S3ImplementsBlobStore
