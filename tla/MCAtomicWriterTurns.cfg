\* Callers take turns; crashes and I/O errors everywhere.
CONSTANTS
  Writers = {w1}
  TsIds = {d1, d2, d3}
  NoTs = NoTs
  Names <- MCNames
  DotNames = {"..x", ".."}
  DotDot = ".."
  Contents <- FileContents
  Empty = {}
  Payloads <- MCPayloads
  NoPayload = NoPayload
  NoContent = NoContent
  NewFiles <- DirFuncsForVolume
  Synchronized = TRUE
  Crashes = TRUE
  IOErrors = TRUE
  Certs <- MCCerts
  Separator = "sep"
  Bundle <- MCBundle
  HashName <- MCHashName
SPECIFICATION Spec
SYMMETRY IdSymmetry
INVARIANTS TypeOK LinkIntact VisibleCovers VisibleExact LeftoversBare
PROPERTIES ImplementsProjection
