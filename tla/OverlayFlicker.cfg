SPECIFICATION Spec
CONSTANTS
  One = 1000
  Requests <- MCRequests
  Configures <- MCConfigures
  Default <- MCDefault
  MaxUnread = 2
  MaxRenders = 4
  WindowRequests <- MCRequests
  Metrics <- MCSmall
  PixelsCovered <- PictureOf
  MaxWindowRenders = 1
  Sizes <- MCSmall
  MaxStarts = 1
  Media <- MCMedia
  Toggles = {"enabled"}
  MaxPage = 1
  MaxEvents = 2
  MaxClicks = 1
  MaxIntents = 1
  MaxDeaths = 0
PROPERTIES
  NothingFlickers
CHECK_DEADLOCK FALSE
