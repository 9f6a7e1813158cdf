CONSTANT
  Kinds = {"command"}
SPECIFICATION Spec
INVARIANT
  CorruptDiscarded
