\* Two volumes, a good and a bad context, payloads that are taken and payloads that are not.
CONSTANTS
  Certs <- MCCerts
  v1 = v1
  v2 = v2
  c1 = c1
  c2 = c2
  Separator = sep
  Bundle = "bundle"
  HashName <- MCHashName
  NoAttr = NoAttr
  BadAttr = BadAttr
  FixedFSGroup = Nil
  KeyDefined = TRUE
  Nil = Nil
  Invalid = Invalid
  GidWidth = 3
  DotNames = {"..x", "..tmp", ".."}
  DotDot = ".."
  TmpLink = "..tmp"
  Volumes = {v1, v2}
  Contexts <- MCContexts
  Requests <- MCRequests
  MetadataFile <- MCMetadataFile
  NoMetadata = NoMetadata
  NotFound = NotFound
  InvalidJSON = InvalidJSON
  Refused = Refused
  NoVolume = NoVolume
SPECIFICATION Spec
INVARIANTS SameAnswers SameContents MemoryLenient
