SPECIFICATION Spec
CONSTANTS
  Devices = {d1, d2}
  Updates = {u1, u2}
INVARIANT NothingGoodThrownAway
CHECK_DEADLOCK FALSE
