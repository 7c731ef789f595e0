\* A URL with a password of which a character is escaped in URLs.
SPECIFICATION Spec
CONSTANTS
  Instances = {i1, i2}
  Retries = 2
  MaxFaults = 2
  Environments <- URLEnvironments
  Passwords = {plain, special}
  Plain = {plain}
  OpenIds = {o1}
  Unset = Unset
  Malformed = Malformed
INVARIANT PasswordKept
CHECK_DEADLOCK FALSE
