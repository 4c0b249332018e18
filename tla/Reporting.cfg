SPECIFICATION LiveSpec
CONSTANTS
  Updates = {u1}
  Conns = {c1, c2}
  QueueMax = 2
  BatchMax = 2
  MaxTime = 3
  MaxLate = 1
  MaxRejects = 1
  MaxForbidden = 1
INVARIANTS NothingLost NewestWins SupersededWasWithdrawn TimelineAlternates
CHECK_DEADLOCK FALSE
PROPERTY QueueDrains
