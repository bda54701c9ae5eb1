SPECIFICATION WaylandSpec
CONSTANTS
  seat0 = seat0
  seat1 = seat1
  address0 = address0
  address1 = address1
  output0 = output0
  output1 = output1
  Seats <- MCSeatSet
  Addresses <- MCAddresses
  MaxKeyboards = 2
  Outputs <- MCOutputs
  OutputScales = {2}
  Factors = {1}
  Sizes <- MCSizes
  ScreenSizes <- MCScreenSizes
SYMMETRY MCSymmetry
INVARIANTS
  OneInhibitor
  InhibitedOnceConfigured
  AbortsForEarlySeats
  PictureFits
  PointerOnTarget
\* An assertion may fail, and libwayland may end the connection.
CHECK_DEADLOCK FALSE
