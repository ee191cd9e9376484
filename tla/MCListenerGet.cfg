SPECIFICATION FairSpec
CONSTANTS
  u = u
  n = n
  c1 = c1
  c2 = c2
  r1 = r1
  r2 = r2
  e = e
  Urls = {u}
  Contents = {c1, c2, e}
  None = None
  NoFile = NoFile
  Torn = Torn
  Empty = e
  Handlers = {r1, r2}
  Methods = {"GET"}
  Upstream <- Anything
  NoCacheUrls = {}
  DummyUrls = {}
INVARIANT SameContentServed
PROPERTIES StopLeadsToExit HitIsAnswered
