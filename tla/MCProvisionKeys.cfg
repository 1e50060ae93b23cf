\* Nothing fails: is every key of a config map a file?
CONSTANTS
  Certs <- MCCerts
  Separator = "sep"
  Bundle = "bundle"
  HashName <- MCHashName
  Configs <- MCConfigs
  Objects <- MCObjects
  NoObject = NoObject
  MaxVersions = 2
  TestFiles <- MCTestFiles
  Attributes <- MCAttributes
  NoAttr = NoAttr
  BadAttr = BadAttr
  FixedFSGroup = Nil
  KeyDefined = TRUE
  Nil = Nil
  Invalid = Invalid
  GidWidth = 3
  DotNames = {"..x", "..tmp", ".."}
  DotDot = ".."
  TmpLink = "..tmp"
  Faults = {}
SPECIFICATION Spec
INVARIANTS EveryKeyWritten
