SPECIFICATION FairSpec
CONSTANTS
  Queries <- MCQueries
  Kind <- MCKind
  NoQuery = NoQuery
INVARIANTS
  TypeOK
  SocketsOutliveWorker
  CountersAddUp
  RepliesAreSound
PROPERTIES
  StopReturns
  BlockedIsSinkholed
