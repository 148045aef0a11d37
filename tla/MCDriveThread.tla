---------------------------- MODULE MCDriveThread ----------------------------
(* Values of DriveThread's constants for its TLC runs. *)
EXTENDS DriveThread, TLC

CONSTANTS t, a, v1, block, reader, writer

TreeAndAux == {t, a}
OnlyAux == {a}
OneValue == {v1}
ThreeCallers == {block, reader, writer}
TwoCallers == {block, writer}
OwnerCalls == DataKinds \cup TransactionCalls
OwnerNeverCloses == OwnerCalls \ {"close"}
OwnerWrites == {"start", "commit", "rollback", "putAux", "insert"}
GuardedCalls == Guarded \cup Reads \cup {"isStarted", "flush"}
AllDirectCalls == DataKinds
Symmetry == Permutations({reader, writer})
=============================================================================
