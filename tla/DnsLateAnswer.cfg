SPECIFICATION Spec
CONSTANTS
  Queries <- MCQueries
  Kind <- MCKind
  NoQuery = NoQuery
INVARIANT
  OwnAnswer
