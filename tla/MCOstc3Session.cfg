SPECIFICATION Spec
CONSTANTS
  Blocks = 2
  MaxFaults = 2
  MaxCalls = 3
INVARIANTS TypeOK FirmwareComplete SuccessMeansUpdated StateAgrees InStep
