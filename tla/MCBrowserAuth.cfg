\* Two sign-ins, an administrator, two requests side by side on the admin page;
\* the limiter lets three requests through in a window.
SPECIFICATION FairSpec
CONSTANTS
  Logins = {l1, l2}
  Fetches = {f1, f2}
  None = None
  Privileged = TRUE
  ApiMax = 3
INVARIANTS
  DeniedNeverRests
  CodePostedOnce
PROPERTY ReloadsEnd
CHECK_DEADLOCK FALSE
