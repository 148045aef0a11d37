CONSTANTS
  Missing = Missing
  d1 = d1
  Contracts <- WithHistory
  Documents <- OneDocument
  RemovesTypes = FALSE
  RollsBack = FALSE
SPECIFICATION Spec
PROPERTIES ReadonlyNeverReplaced
