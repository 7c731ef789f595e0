\* Two requests for two names or two addresses, one of each excluded, share
\* connections and follow redirects while the names change.
SPECIFICATION FairSpec
CONSTANTS
  Names = {n, localhost}
  BlockedNames = {localhost}
  Addresses = {good, bad}
  Forbidden = {bad}
  Ports = {80, 22}
  WebPorts = {80}
  Requests = {r1, r2}
  MaxRedirects = 2
  None = None
INVARIANTS ReachesPermitted FewRequests FetchInv
PROPERTIES Answered
