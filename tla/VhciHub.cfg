SPECIFICATION Spec
CONSTANTS
  Ports = {p1, p2}
  Endps <- MCEndps
  None = None
  MaxUdevs = 3
  MaxDevices = 2
  MaxRequests = 2
SYMMETRY MCSymmetry
INVARIANT EventFindsOwnQueue
INVARIANT UrbFindsOwnQueue
CHECK_DEADLOCK FALSE
