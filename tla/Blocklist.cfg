SPECIFICATION Spec
CONSTANTS
  Labels <- MCLabels
  Names <- MCNames
  Keys = {"k1", "k2"}
  Hash1 <- MCHash1
  Hash2 <- MCHash2
  Word = 256
  Shapes <- MCShapes
  Datagrams <- MCDatagrams
  MaxHops = 3
INVARIANTS
  TreeTypeOK
  TreeShape
  SizeCoversRules
  NoFalseNegatives
  AnswersMatchQuestions
PROPERTY
  ImplementsDomainRules
CHECK_DEADLOCK FALSE
