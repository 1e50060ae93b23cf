\* The kubelet gives up on slow calls and calls again; an unmount may fail.
CONSTANTS
  Volumes = {v1}
  Contexts = {k1}
  Calls = {c1, c2}
  NoLink = NoLink
  Left = Left
  NoCall = NoCall
  InvalidVolumes = {}
  Faults = {"fetch", "unmount"}
  MaxFaults = 2
  MaxTimeouts = 2
  MaxCrashes = 0
  MaxSignals = 0
  Deletes = TRUE
  KillBusy = FALSE
SPECIFICATION FairSpec
CHECK_DEADLOCK FALSE
INVARIANTS MountsBounded
PROPERTIES Served
