CONSTANTS
  Families = {"oceanic", "predator", "suunto", "pointer", "petrel", "logbook", "ostc3", "dump", "stream"}
  Corrupt = FALSE
  DeletedAnywhere = FALSE
  AllLayouts = FALSE
SPECIFICATION Spec
INVARIANTS
  TypeOK
  OwnBytes
  ProgressComplete
  ShutdownSent
PROPERTIES
  DownloadSpec
