SPECIFICATION FairSpec
CONSTANTS
  Sizes <- MCSizes
  Area <- MCArea
  FirstSize = "small"
  Ways = {"desktop", "extended", "resize"}
  ScreenIds = TRUE
  MaxChanges = 2
  MaxResizes = 2
INVARIANTS
  RequestsConserved
  RectsFit
  NothingForgotten
PROPERTIES
  Converges
\* The picture stops changing.
CHECK_DEADLOCK FALSE
