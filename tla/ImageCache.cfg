\* Two requests and the janitor on three URLs and a cache for two, while the
\* clock runs through three sweeps.
SPECIFICATION Spec
CONSTANTS
  Keys = {k1, k2, k3}
  Requests = {r1, r2}
  MaxItems = 2
  TTL = 2
  FetchTimeout = 1
  Period = 2
  MaxTime = 6
  None = None
SYMMETRY CacheSymmetry
INVARIANTS WithinLimit ExpiredAreSwept CacheInv
PROPERTIES HitsAreRecent
