\* A file cannot be copied into the bundle.
CONSTANTS
  Certs <- MCCerts
  Separator = "sep"
  Bundle = "bundle"
  HashName <- MCHashName
  Configs <- MCConfigs
  Objects <- MCObjects
  NoObject = NoObject
  MaxVersions = 2
  TestFiles <- MCTestFiles
  Attributes <- MCAttributes
  NoAttr = NoAttr
  BadAttr = BadAttr
  FixedFSGroup = Nil
  KeyDefined = TRUE
  Nil = Nil
  Invalid = Invalid
  GidWidth = 3
  DotNames = {"..x", "..tmp", ".."}
  DotDot = ".."
  TmpLink = "..tmp"
  Faults = {"read"}
SPECIFICATION Spec
INVARIANTS BundleComplete
