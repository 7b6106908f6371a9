SPECIFICATION Spec
CONSTANTS
  b1 = b1  b2 = b2  b3 = b3  b4 = b4  b5 = b5
  h1 = h1  h2 = h2  x = x  y = y
  Threads = {h1}
  Devices = {"d0", "d1"}
  Tensors = {x, y}
  Buffers = {b1, b2}
  NumValues = 2
  MaxInputs = 1
  MaxOutputs = 1
  Result <- MCResult
SYMMETRY MCSymmetry
INVARIANTS D2DOnSameDevice
