\* A move of whole pages needs more than four bytes.
SPECIFICATION Spec
CONSTANTS
  Buffers = {x, y}
  PageSize = 2
  MaxPool = 0
  Inputs <- MCInputs
  Sizes = {1, 3, 5}
  MaxBytes = 6
  Junk = junk
INVARIANTS PagesOwnedOnce WithinPages
PROPERTIES IsByteBuffers
