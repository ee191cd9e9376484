SPECIFICATION FairSpec
CONSTANTS
  Procs = {p, q}
  Proxy = p
  CAs = {c1, c2, c3}
  NoFile = NoFile
  Torn = Torn
INVARIANTS NothingLeft ChildTrustsProxy PairMatches
PROPERTY TunnelEnds
