SPECIFICATION Spec
CONSTANTS
  Urls = {u1, u2}
  Contents = {c1, c2}
  None = None
  NoFile = NoFile
  Torn = Torn
SYMMETRY MCSymmetry
INVARIANTS TypeOK CleanMeansSaved
PROPERTY EntryNeverChanges
