SPECIFICATION DaemonSpec
CONSTANTS
  Regions = {r1}
  Sizes = {1}
  MaxPublish = 1
PROPERTY
  ShutdownCompletes
