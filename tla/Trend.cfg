SPECIFICATION Spec
CONSTANTS
  Updates = {u1}
  Conns = {c1}
  QueueMax = 2
  BatchMax = 2
  MaxTime = 3
  MaxLate = 0
  MaxRejects = 0
  MaxForbidden = 0
INVARIANT AppearedIsOpen
CHECK_DEADLOCK FALSE
