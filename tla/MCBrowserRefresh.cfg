\* One login and one page request are enough to see whether a refresh succeeds.
SPECIFICATION FairSpec
CONSTANTS
  Logins = {l1}
  Fetches = {f1}
  None = None
  Privileged = TRUE
  ApiMax = 3
PROPERTY RefreshedAutomatically
CHECK_DEADLOCK FALSE
