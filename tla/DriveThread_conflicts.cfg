CONSTANTS
  Missing = Missing
  t = t
  a = a
  v1 = v1
  block = block
  reader = reader
  writer = writer
  Keys <- TreeAndAux
  AuxKeys <- OnlyAux
  Values <- OneValue
  Callers <- TwoCallers
  Owner <- block
  DirectKinds <- AllDirectCalls
  OwnerKinds <- OwnerNeverCloses
SPECIFICATION FairSpec
INVARIANTS TransactionFound
PROPERTIES CallsAnswered
CHECK_DEADLOCK FALSE
