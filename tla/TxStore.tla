------------------------------- MODULE TxStore -------------------------------
(***************************************************************************)
(* What the node binding promises its callers: a store with at most one    *)
(* transaction, read-only for everybody else while it is open.  A call     *)
(* takes effect at one instant between being made and being answered.  The *)
(* service may end: the transaction is gone, what was committed stays, and *)
(* the calls that wait have had no effect and never have one.              *)
(***************************************************************************)
EXTENDS DriveCalls

VARIABLES committed, \* the store
          working,   \* the store as the transaction sees it, or Missing
          calls,     \* [Callers -> Missing, Asked(...) or Answered(...)]
          ended      \* whether the service has ended

storeVars == <<committed, working, calls, ended>>

StoreInit ==
  /\ committed = [k \in Keys |-> Missing]
  /\ working = Missing
  /\ calls = [c \in Callers |-> Missing]
  /\ ended = FALSE

(* The store after a write. *)
After(r, store) ==
  CASE r.kind \in {"insert", "putAux"} -> [store EXCEPT ![r.key] = r.value]
    [] r.kind = "insertIfNotExists" -> [store EXCEPT ![r.key] = IF @ = Missing THEN r.value ELSE @]
    [] r.kind \in {"delete", "deleteAux"} -> [store EXCEPT ![r.key] = Missing]
    [] r.kind \in {"apply", "createStructure"} ->
         [k \in Keys |-> IF k \in TreeKeys THEN r.value ELSE store[k]]
    [] OTHER -> store

(* What a read sees of a store, and the code of an answer. *)
SeenIn(r, store) ==
  CASE r.kind \in {"get", "getAux"} -> store[r.key]
    [] r.kind \in {"query", "proveQueryMany"} -> [k \in TreeKeys |-> store[k]]
    [] OTHER -> Missing

CodeIn(r, store) ==
  CASE r.kind = "insertIfNotExists" -> IF store[r.key] = Missing THEN "yes" ELSE "no"
    [] r.kind = "isStarted" -> IF working = Missing THEN "no" ELSE "yes"
    [] OTHER -> "ok"

Answer(c, code, seen) ==
  calls' = [calls EXCEPT ![c] = Answered(calls[c].request, code, seen)]

Call(c) ==
  /\ ~ended
  /\ calls[c] = Missing
  /\ \E r \in Requests : calls' = [calls EXCEPT ![c] = Asked(r)]
  /\ UNCHANGED <<committed, working, ended>>

Return(c) ==
  /\ calls[c] # Missing
  /\ calls[c].phase = "answered"
  /\ calls' = [calls EXCEPT ![c] = Missing]
  /\ UNCHANGED <<committed, working, ended>>

(* Data: in the transaction if the call asks for it, otherwise in the      *)
(* store, where a write is refused while a transaction is open.            *)
Access(c, r) ==
  /\ r.kind \in DataKinds
  /\ r.fits
  /\ r.kind = "proveQueryMany" => ~r.useTx
  /\ \/ /\ r.useTx /\ working # Missing
        /\ working' = After(r, working)
        /\ committed' = committed
        /\ Answer(c, CodeIn(r, working), SeenIn(r, working))
     \/ /\ ~(r.useTx /\ working # Missing)
        /\ r.kind \in Reads \/ working = Missing
        /\ committed' = After(r, committed)
        /\ working' = working
        /\ Answer(c, CodeIn(r, committed), SeenIn(r, committed))
  /\ UNCHANGED ended

(* A call on data may be answered with an error, and then does nothing.    *)
Refuse(c, r) ==
  /\ r.kind \in DataKinds \ UnwrapErrors
  /\ Answer(c, "error", Missing)
  /\ UNCHANGED <<committed, working, ended>>

(* The calls on the transaction itself.                                    *)
Transact(c, r) ==
  /\ r.kind \in TransactionCalls
  /\ committed' = IF r.kind = "commit" THEN working ELSE committed
  /\ r.kind \in {"commit", "rollback"} => working # Missing
  /\ working' = CASE r.kind = "start" -> committed
                  [] r.kind \in {"commit", "rollback", "abort", "close"} -> Missing
                  [] OTHER -> working
  /\ ended' = (r.kind = "close")
  /\ Answer(c, CodeIn(r, committed), Missing)

TakeEffect(c) ==
  /\ ~ended
  /\ calls[c] # Missing
  /\ calls[c].phase = "asked"
  /\ LET r == calls[c].request IN Access(c, r) \/ Refuse(c, r) \/ Transact(c, r)

End ==
  /\ ~ended
  /\ ended' = TRUE
  /\ working' = Missing
  /\ UNCHANGED <<committed, calls>>

StoreNext ==
  \/ End
  \/ \E c \in Callers : Call(c) \/ Return(c) \/ TakeEffect(c)

StoreSpec == StoreInit /\ [][StoreNext]_storeVars
=============================================================================
