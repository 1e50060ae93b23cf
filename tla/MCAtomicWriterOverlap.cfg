\* Two callers overlap; the process may crash.
CONSTANTS
  Writers = {w1, w2}
  TsIds = {d1, d2, d3}
  NoTs = NoTs
  Names <- MCNames
  DotNames = {"..x", ".."}
  DotDot = ".."
  Contents <- FileContents
  Empty = {}
  Payloads <- MCPayloadsOverlap
  NoPayload = NoPayload
  NoContent = NoContent
  NewFiles <- DirFuncsForVolume
  Synchronized = FALSE
  Crashes = TRUE
  IOErrors = TRUE
  Certs <- MCCerts
  Separator = "sep"
  Bundle <- MCBundle
  HashName <- MCHashName
SPECIFICATION Spec
SYMMETRY OverlapSymmetry
INVARIANTS LinkIntact
PROPERTIES ImplementsProjection
