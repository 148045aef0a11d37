CONSTANTS
  Missing = Missing
  t = t
  a = a
  v1 = v1
  block = block
  reader = reader
  writer = writer
  Keys <- TreeAndAux
  AuxKeys <- OnlyAux
  Values <- OneValue
  Callers <- ThreeCallers
  Owner <- block
  DirectKinds <- GuardedCalls
  OwnerKinds <- OwnerCalls
SPECIFICATION Spec
SYMMETRY Symmetry
INVARIANTS TypeOK TransactionKept
PROPERTIES ImplementsTxStore
CHECK_DEADLOCK FALSE
