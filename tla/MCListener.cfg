SPECIFICATION Spec
CONSTANTS
  u = u
  n = n
  c1 = c1
  c2 = c2
  r1 = r1
  r2 = r2
  e = e
  Urls = {u, n}
  Contents = {c1, e}
  None = None
  NoFile = NoFile
  Torn = Torn
  Empty = e
  Handlers = {r1, r2}
  Methods = {"HEAD", "POST"}
  Upstream <- Anything
  NoCacheUrls = {n}
  DummyUrls = {n}
SYMMETRY MCSymmetry
INVARIANTS TypeOK Backed Pinned HonestSuccess SuccessLeavesManifest
PROPERTIES FinishedIsSaved OfflineIsHermetic AnswerIsStable
