CONSTANT
  Kinds = {"command", "shearwater", "eonsteel", "pages"}
SPECIFICATION Spec
INVARIANTS
  TypeOK
  DataIntact
  Recovers
