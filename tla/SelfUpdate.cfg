CONSTANTS
  Versions = {v0, v1, v2, v3}
  Installed = v0
  Broken = {v2}
  Dead = {v3}
  Jobs = {j1}
  MaxAttempts = 4
  StuckObservations = 2
  Refusable = {"stop", "config", "start", "undo"}
  MaxFaults = 2
  MaxCrashes = 1
SPECIFICATION FairSpec
INVARIANTS
  ExeInPlace
  WayBack
  RolledBackUnraced
PROPERTIES
  DoneMeansInstalled
  MarkerGoes
  ServiceWorks
