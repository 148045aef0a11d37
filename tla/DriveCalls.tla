----------------------------- MODULE DriveCalls -----------------------------
(***************************************************************************)
(* The calls of the node binding (node/src/lib.rs, node/GroveDB.js) as     *)
(* data: what JavaScript tasks ask of the database thread, and what they   *)
(* are answered.  One task, the Owner, drives transactions; the others     *)
(* work on the database without one.                                       *)
(***************************************************************************)
EXTENDS Naturals

CONSTANTS Keys, Values,
          AuxKeys,     \* the keys of auxiliary data; the others are in the tree
          Callers, Owner,
          DirectKinds, \* what the tasks without a transaction call
          OwnerKinds,  \* what the owner calls
          Missing      \* Rust's None, and a key that is not in the store

ASSUME CallersAssumption == Owner \in Callers
ASSUME KeysAssumption == AuxKeys \subseteq Keys /\ Missing \notin Values

Stores == [Keys -> Values \cup {Missing}]
TreeKeys == Keys \ AuxKeys

(* The kinds of call.  "apply" is any of the platform's own operations that *)
(* is answered with its error: a contract, a document, an identity, a block. *)
TreeWrites == {"insert", "insertIfNotExists"}
Reads == {"get", "query", "getAux", "proveQueryMany"}
TransactionCalls == {"start", "commit", "rollback", "abort", "isStarted", "flush", "close"}
DataKinds == TreeWrites \cup Reads \cup {"delete", "putAux", "deleteAux", "apply", "createStructure"}

(* The kinds that look at READONLY_MSG's condition.                        *)
Guarded == TreeWrites \cup {"delete", "deleteAux"}

(* An error of GroveDB in these is not an answer: the thread unwraps it.   *)
UnwrapErrors == {"createStructure", "flush", "commit", "rollback"}

(* These panic on some arguments: a query for documents when the id of the  *)
(* contract has not 32 bytes, the deletion of a document of a type with     *)
(* history, the platform's operations on a document shorter than its version. *)
UnwrapArguments == {"query", "delete", "apply"}

(* A request: what it works on, whether it asks for the transaction, and    *)
(* whether its arguments are such that the code behind it does not panic.   *)
KeysOf(kind) ==
  CASE kind \in {"insert", "insertIfNotExists", "delete", "get"} -> TreeKeys
    [] kind \in {"putAux", "deleteAux", "getAux"} -> AuxKeys
    [] OTHER -> {Missing}

ValuesOf(kind) ==
  IF kind \in {"insert", "insertIfNotExists", "putAux", "apply", "createStructure"}
  THEN Values ELSE {Missing}

Requests ==
  {r \in [kind : DataKinds \cup TransactionCalls, key : Keys \cup {Missing},
          value : Values \cup {Missing}, useTx : BOOLEAN, fits : BOOLEAN] :
     /\ r.key \in KeysOf(r.kind)
     /\ r.value \in ValuesOf(r.kind)
     /\ r.kind \in TransactionCalls => ~r.useTx
     /\ ~r.fits => r.kind \in UnwrapArguments}

(* A task is idle, waits for the answer to its request, or has it.         *)
Asked(r) == [phase |-> "asked", request |-> r, code |-> "none", seen |-> Missing]
Answered(r, code, seen) == [phase |-> "answered", request |-> r, code |-> code, seen |-> seen]

Pending == [phase : {"asked", "answered"}, request : Requests,
            code : {"none", "ok", "yes", "no", "error"},
            seen : Values \cup {Missing} \cup [TreeKeys -> Values \cup {Missing}]]

(* What the owner calls given what it was answered so far: it uses,        *)
(* commits and rolls back only a transaction it started.                   *)
OwnerMayCall(r, inTransaction) ==
  /\ r.kind \in OwnerKinds
  /\ r.kind \in DataKinds => r.useTx
  /\ r.kind \in DataKinds \cup {"commit", "rollback"} => inTransaction

MayCall(c, r, inTransaction) ==
  IF c = Owner THEN OwnerMayCall(r, inTransaction) ELSE r.kind \in DirectKinds /\ ~r.useTx

(* What the owner knows of its transaction after an answer.                *)
InTransactionAfter(r, inTransaction) ==
  CASE r.kind = "start" -> TRUE
    [] r.kind \in {"commit", "rollback", "abort", "close"} -> FALSE
    [] OTHER -> inTransaction
=============================================================================
