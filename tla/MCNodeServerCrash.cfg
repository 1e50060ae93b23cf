\* One call at a time; the driver is killed and the node reboots at any moment.
CONSTANTS
  Volumes = {v1}
  Contexts = {k1, k2}
  Calls = {c1}
  NoLink = NoLink
  Left = Left
  NoCall = NoCall
  InvalidVolumes = {}
  Faults = {"register", "fetch", "write", "mountpoint", "mount", "remove"}
  MaxFaults = 2
  MaxTimeouts = 0
  MaxCrashes = 2
  MaxSignals = 2
  Deletes = TRUE
  KillBusy = TRUE
SPECIFICATION FairSpec
CHECK_DEADLOCK FALSE
INVARIANTS NoStaleMount NoStackedMounts
PROPERTIES ServedWhileUp
