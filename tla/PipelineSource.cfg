SPECIFICATION Spec
CONSTANTS
  Regions = {r1}
  Sizes = {1, 2}
  MaxPublish = 2
INVARIANT
  SourceStaysMapped
