\* The driver is killed while it publishes: is a volume it calls ready filled?
CONSTANTS
  Volumes = {v1}
  Contexts = {k1}
  Calls = {c1}
  NoLink = NoLink
  Left = Left
  NoCall = NoCall
  InvalidVolumes = {}
  Faults = {}
  MaxFaults = 0
  MaxTimeouts = 0
  MaxCrashes = 1
  MaxSignals = 0
  Deletes = FALSE
  KillBusy = TRUE
SPECIFICATION FairSpec
CHECK_DEADLOCK FALSE
INVARIANTS ReadyMeansCerts
