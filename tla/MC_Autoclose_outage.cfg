SPECIFICATION ClosureSpec
CONSTANTS
  Issues = {i1, i2}
  Happenings = {"outages"}
PROPERTIES ClaimsAreResolved
CHECK_DEADLOCK FALSE
