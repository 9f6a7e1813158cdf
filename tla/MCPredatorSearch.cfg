CONSTANTS
  Families = {"predator"}
  Corrupt = FALSE
  DeletedAnywhere = FALSE
  AllLayouts = TRUE
SPECIFICATION Spec
PROPERTIES
  Returns
