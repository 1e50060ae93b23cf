\* One call at a time per volume; operations fail; the idle driver is killed, stopped, restarted.
CONSTANTS
  Volumes = {v1, v2}
  Contexts = {k1, k2}
  Calls = {c1, c2}
  NoLink = NoLink
  Left = Left
  NoCall = NoCall
  InvalidVolumes = {v2}
  Faults = {"boot", "register", "fetch", "write", "mountpoint", "mount"}
  MaxFaults = 2
  MaxTimeouts = 0
  MaxCrashes = 1
  MaxSignals = 1
  Deletes = TRUE
  KillBusy = FALSE
SPECIFICATION FairSpec
CHECK_DEADLOCK FALSE
INVARIANTS TypeOK PublishedSound NoResidue QuietRestartable ManagedOnDisk
PROPERTIES Served Unpublished DriverRecovers StopEnds ImplementsContract
