SPECIFICATION FairSpec
CONSTANTS
  k1 = k1
  c1 = c1
  c2 = c2
  w1 = w1
  e1 = e1
  e2 = e2
  Key = {k1}
  Caller = {c1, c2}
  Writer = {w1}
  Entry = {e1, e2}
  None = None
  TTL = 1
  MaxNow = 2
  MaxVersion = 1
INVARIANTS CacheIsSound StoredNeverGoesBack
PROPERTIES NotServedPastExpiry ReadsSeeInvalidations ReturnsTouchOnlyTheirOwnEntry ReadThroughSpec EveryReadReturns
