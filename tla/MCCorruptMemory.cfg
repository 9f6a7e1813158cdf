CONSTANTS
  Families = {"predator", "suunto", "pointer"}
  Corrupt = TRUE
  DeletedAnywhere = FALSE
  AllLayouts = FALSE
SPECIFICATION Spec
INVARIANTS
  OwnBytes
  ProgressComplete
PROPERTIES
  Returns
