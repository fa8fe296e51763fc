SPECIFICATION Spec
CONSTANTS
  One = 1000
  Requests <- MCRequests
  Configures <- MCConfigures
  Default <- MCDefault
  MaxUnread = 2
  MaxRenders = 5
  WindowRequests <- MCRequests
  Metrics <- MCSmall
  PixelsCovered <- PictureOf
  MaxWindowRenders = 3
  Sizes <- MCSmall
  MaxStarts = 3
  Media <- MCMedia
  Toggles = {"enabled", "blurImages"}
  MaxPage = 2
  MaxEvents = 2
  MaxClicks = 4
  MaxIntents = 3
  MaxDeaths = 2
INVARIANTS
  CaptureIsSafe
  ExtensionKeepsUp
  AndroidStopsClean
PROPERTIES
  OverlaysImplementScreen
CHECK_DEADLOCK FALSE
