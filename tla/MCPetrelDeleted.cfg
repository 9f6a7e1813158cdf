CONSTANTS
  Families = {"petrel"}
  Corrupt = FALSE
  DeletedAnywhere = TRUE
  AllLayouts = FALSE
SPECIFICATION Spec
INVARIANTS
  DeletedSkipped
