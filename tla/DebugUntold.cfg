SPECIFICATION Spec
CONSTANTS
  first = first
  second = second
  blink = blink
  third = third
  Launch = {first}
  Backed = {first}
  Request = {blink}
  Capacity = 2
  Nobody = Nobody
CHECK_DEADLOCK FALSE
PROPERTY FailedStopHasAsked
