\* Two instances start at once, on a database at any point of its migration,
\* with every kind of environment and as many faults as the platform retries.
SPECIFICATION FairSpec
CONSTANTS
  Instances = {i1, i2}
  Retries = 2
  MaxFaults = 2
  Environments <- MCEnvironments
  Passwords = {plain, special}
  Plain = {plain}
  OpenIds = {o1}
  Unset = Unset
  Malformed = Malformed
INVARIANTS ServesWholeSchema OpenIdsApart StartInv
PROPERTIES Settles
CHECK_DEADLOCK FALSE
