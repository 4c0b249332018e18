SPECIFICATION Spec
CONSTANTS
  Scopes = {"a", "b"}
  Patches <- MCPatches
  Seeds <- MCSeeds
  Minutes = {5, 60}
  None = None
  Unsent = Unsent
  Savers = {s1, s2}
  Syncs = {y1, y2}
  MaxSaves = 2
  MaxCrashes = 1
  MaxFaults = 1
INVARIANTS OneRun SettledTimer
PROPERTY TableFollowsScope
