SPECIFICATION PolicySpec
CONSTANTS
  Absent = Absent
  Checks = {c1, c2}
  Editors = {e1}
  Ttl = 2
  MaxTime = 2
  MaxChanges = 2
  MaxAsked = 3
  MaxFailures = 1
INVARIANTS InvalidateIsSeen
CHECK_DEADLOCK FALSE
