\* Four requests: the statistics, the two of the opened audit tab, and one for
\* another page or filter, which may overtake them.  Two pages of two logs, and a
\* fifth log that appears meanwhile, before, among or behind the others.
SPECIFICATION FairSpec
CONSTANTS
  e1 = e1
  e2 = e2
  Events = {e1, e2}
  Choices = {e1}
  All = All
  Times = {1, 2, 3, 4}
  Before <- FourLogs
  Pages = {1, 2}
  Limit = 2
  Inactive = 1
  MaxRequests = 4
  MaxLogs = 5
  MaxStaff = 2
INVARIANTS
  EmptyIsExplained
  InactiveOffByJoins
  ShownAsChosen
PROPERTIES
  NoLogSkipped
  SpinnerStops
CHECK_DEADLOCK FALSE
