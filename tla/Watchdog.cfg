SPECIFICATION FairSpec
CONSTANTS
  Limits <- MCLimits
  MaxForks = 4
INVARIANTS
  TypeOK
  OneWorker
  LimitKept
PROPERTIES
  CrashIsRestarted
  StopEnds
