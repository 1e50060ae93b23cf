\* The kubelet gives up on a publish, which then fails; the retry has succeeded.
CONSTANTS
  Volumes = {v1}
  Contexts = {k1}
  Calls = {c1, c2}
  NoLink = NoLink
  Left = Left
  NoCall = NoCall
  InvalidVolumes = {}
  Faults = {"fetch"}
  MaxFaults = 1
  MaxTimeouts = 1
  MaxCrashes = 0
  MaxSignals = 0
  Deletes = FALSE
  KillBusy = FALSE
SPECIFICATION FairSpec
CHECK_DEADLOCK FALSE
INVARIANTS PublishedServed
