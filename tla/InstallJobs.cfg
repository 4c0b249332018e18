\* One device, two installations, two overlapping requests of each kind.
CONSTANTS
  Devices = {d1}
  Installations = {i1, i2}
  Updates = {u1}
  Admins = {a1, a2}
  Requests = {r1, r2}
SPECIFICATION Spec
SYMMETRY Symmetry
INVARIANTS
  OneOpenJobPerDevice
  NothingBeforeItsTime
PROPERTY
  ClosedChangesOnlyByClaim ImplementsSlot
