CONSTANTS
  Bytes = {z, x, y}
  Zero = z
  Junk = junk
  Ops <- BufferOps
  MaxCapacity = 5
  x = x
  y = y
  END = END
  ESC = ESC
  XEND = XEND
  XESC = XESC
  PlainBytes = {plain}
  WriteSizes = {1, 2, 3}
  FrameSizes = {1, 2}
  MaxFrames = 2
  Payloads <- LayerPayloads
  ISizes = {0, 2, 3}
  OSizes = {0, 2}
  PacketLens = {0, 1, 3}
  PacketSizes = {1, 3}
  MaxArrived = 4
  MaxWritten = 3
  MaxEmpty = 1
  Timeouts <- LayerTimeouts
  CallSizes = {1, 3}
  MaxLine = 4
  MaxSignals = 2
SPECIFICATION LayersSpec
INVARIANTS
  TypeOK
  BufferInv
  BytesInOrder
  PacketsFit
  FramesArrive
PROPERTIES
  StringSpec
  CallsReturn
