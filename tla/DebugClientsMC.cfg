SPECIFICATION FairSpec
CONSTANTS
  first = first
  second = second
  blink = blink
  third = third
  Launch = {first, second, third}
  Backed = {second}
  Request = {blink}
  Capacity = 2
  Nobody = Nobody
INVARIANTS LeasesOutliveGroups Reachable CleanCloseIsClean
CHECK_DEADLOCK FALSE
PROPERTY CloseReturns
