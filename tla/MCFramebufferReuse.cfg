SPECIFICATION Spec
CONSTANTS
  Pixels <- MCPixels
  Sizes <- MCSizes
  Area <- MCArea
  Rects <- MCRects
  Extent <- MCExtent
  None = None
  FirstSize = "large"
  Setups <- MCPromptSetups
PROPERTIES
  BackBufferReleased
\* The client exits when a read fails.
CHECK_DEADLOCK FALSE
