SPECIFICATION Spec
CONSTANTS
  Buttons = {"left_button", "side_button"}
  Mapped = {"left_button"}
  StepSize = 3
  Distances <- MCDistances
  MaxDistance = 7
  Positions = {"here", "there"}
INVARIANTS
  ButtonsAgree
  ScrollConserved
PROPERTIES
  PressedInPlace
