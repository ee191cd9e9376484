SPECIFICATION Spec
CONSTANTS
  u1 = u1
  u2 = u2
  u3 = u3
  k = k
  Urls = {u1, u2, u3}
  Contents = {c1, c2}
  None = None
  NoFile = NoFile
  Torn = Torn
  Keys = {k}
  Life = 3
  Margin = 2
  MaxDelay = 1
  KeyOf <- MCKeyOf
  NoCacheUrls = {u3}
SYMMETRY MCSymmetry
INVARIANT VerifyConfirms
CHECK_DEADLOCK FALSE
