SPECIFICATION Spec
CONSTANTS
  Width = 4
  Height = 2
  MaxColour = 3
  TileSize = 3
  Full = 2
  SubrectMax = 6
  TightMin = 4
  TightBuffer = 5
  LengthBase = 2
  MaxContexts = 2
  TightStreams = {"tight0", "tight1"}
  RawLines = 1
  MaxCursor = 4
  Names <- MCDefault
  Setups <- MCUltraSetups
  Rects <- MCRects
  Patterns <- MCPatterns
  Sources <- MCSources
  CursorSizes <- MCCursorSizes
  Resets <- MCResets
  Splits <- MCSplits
  MaxRects = 2
INVARIANT EveryChangeReported
