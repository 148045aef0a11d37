CONSTANTS
  Missing = Missing
  Null = Null
  Zero = Zero
  id1 = id1
  id2 = id2
  id3 = id3
  owner = owner
  label = label
  note = note
  o1 = o1
  o2 = o2
  l1 = l1
  l2 = l2
  n1 = n1
  Properties <- ThreeProperties
  Values <- AllValues
  Mutable = TRUE
  Ids <- TwoIds
  Documents <- OwnerOrNote
  Indices <- UniquePair
  KeepsHistory = FALSE
  Times <- NoTime
  Operations <- AddAndDelete
SPECIFICATION Spec
INVARIANTS ReferencesResolve
