\* Two clients ask for one image, which may move to an address, while its name
\* gains a forbidden one: one tick, one cached item.
SPECIFICATION Spec
CONSTANTS
  n = n
  good = good
  bad = bad
  Names = {n}
  BlockedNames = {}
  Addresses = {good, bad}
  Forbidden = {bad}
  Ports = {80}
  WebPorts = {80}
  Lookups <- MCLookups
  Asked <- MCAsked
  Requests = {r1, r2}
  MaxRedirects = 2
  MaxItems = 1
  TTL = 0
  FetchTimeout = 1
  Period = 1
  MaxTime = 1
  None = None
INVARIANTS ProxyInv
PROPERTIES ImplementsCache ImplementsFetch
