SPECIFICATION Spec
CONSTANTS
  One = 1000
  Detections <- MCDetections
  Creations <- MCCreations
  Times = {1, 2, 4}
  Rooms = {0, 1, 3}
  MaxPerCall = 2
  MaxCalls = 3
  Frames <- MCFrames
  Reports <- MCReports
  Colour <- MCColour
  Steps = {150, 300}
  Paddings <- MCPaddings
  MaxFrames = 3
  Canvas = 16
  FrameSizes <- MCFrameSizes
  Proposals <- MCProposals
  MaxProposals = 3
INVARIANTS
  VisionTypeOK
  MergeIsComplete
  DetectionsAreFaithful
  CutUncovers
PROPERTIES
  ImplementsHysteresis
  LoneDetectionIsHidden
  StillPictureIsHeld
