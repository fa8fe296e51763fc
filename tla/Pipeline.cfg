SPECIFICATION FairSpec
CONSTANTS
  Regions = {r1}
  Sizes = {1}
  MaxPublish = 3
INVARIANTS
  TypeOK
  NoLostPublish
  PausedScreenIsClear
  ShownIsCounted
  StoppedIsQuiet
PROPERTIES
  ShutdownCompletes
  ClientAnswered
  PublishedIsShown
  PauseDrains
