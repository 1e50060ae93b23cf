\* From every kind of source, which changes all the time, to the volume.
CONSTANTS
  Certs <- MCCerts
  Separator = "sep"
  Bundle = "bundle"
  HashName <- MCHashName
  Configs <- MCConfigs
  Objects <- MCObjects
  NoObject = NoObject
  MaxVersions = 2
  TestFiles <- MCTestFiles
  Attributes <- MCAttributes
  NoAttr = NoAttr
  BadAttr = BadAttr
  FixedFSGroup = Nil
  KeyDefined = TRUE
  Nil = Nil
  Invalid = Invalid
  GidWidth = 3
  DotNames = {"..x", "..tmp", ".."}
  DotDot = ".."
  TmpLink = "..tmp"
  Faults = {"fetch", "write"}
SPECIFICATION Spec
INVARIANTS TypeOK VolumeOfOneVersion OwnedByGroup
