CONSTANTS
  HalfWord = 8
  Infinity = 5
  Missing = Missing
  Null = Null
  Zero = Zero
  id1 = id1
  id2 = id2
  id3 = id3
  owner = owner
  label = label
  note = note
  o1 = o1
  o2 = o2
  l1 = l1
  l2 = l2
  n1 = n1
  l3 = l3
  docId = docId
  Properties <- ThreeProperties
  Values <- AllValues
  Mutable = TRUE
  Ids <- TwoIds
  Documents <- OneLabel
  Indices <- UniqueOwner
  KeepsHistory = TRUE
  Times <- TwoTimes
  Operations <- WithoutDelete
  IdField <- docId
  Rank <- RankOfKey
  Successor <- Incremented
  MaxQueryLimit = 3
  MaxIndexDifference = 2
  Requests <- ByOwner
  Supported <- ByOwner
  Paged <- NoRequests
  Conversations <- NoRequests
SPECIFICATION QuerySpec
INVARIANTS IndexMatchesDocuments QueriesSelectMatching
PROPERTIES EarlierVersionsKept ImplementsDocumentMap PastAnswersKept
