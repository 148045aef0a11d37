CONSTANTS
  Missing = Missing
  d1 = d1
  Contracts <- WithoutHistory
  Documents <- OneDocument
  RemovesTypes = FALSE
  RollsBack = TRUE
SPECIFICATION Spec
INVARIANTS TypeOK TreesOfContract TypeSettingsNeverChange
PROPERTIES CachedTreesExist DocumentsKept ReadonlyNeverReplaced
