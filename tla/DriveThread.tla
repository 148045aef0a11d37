----------------------------- MODULE DriveThread -----------------------------
(***************************************************************************)
(* The database thread of the node binding (node/src/lib.rs): JavaScript   *)
(* tasks put messages into its queue, it handles one at a time and sends   *)
(* the answer back.  The transaction is kept as what it has written over   *)
(* the store; reads fall through to the store.                             *)
(***************************************************************************)
EXTENDS DriveCalls, Sequences

VARIABLES queue,        \* messages not handled yet: [from, request]
          thread,       \* "opening", "running", "closed", "panicked"
          store,        \* the database without the open transaction
          tx,           \* the open transaction, or Missing
          calls,        \* [Callers -> Missing, Asked(...) or Answered(...)]
          inTransaction \* what the owner knows of its transaction

driveVars == <<queue, thread, store, tx, calls, inTransaction>>

Transactions == [written : SUBSET Keys, value : Stores, conflict : BOOLEAN]
Messages == [from : Callers, request : Requests]

ASSUME NoneAssumption ==
  Missing \notin Pending /\ Missing \notin Transactions /\ Missing \notin Stores

Init ==
  /\ queue = <<>>
  /\ thread = "opening"
  /\ store = [k \in Keys |-> Missing]
  /\ tx = Missing
  /\ calls = [c \in Callers |-> Missing]
  /\ inTransaction = FALSE
-----------------------------------------------------------------------------
(* GroveDB, over an optimistic transaction. *)

NewTransaction == [written |-> {}, value |-> [k \in Keys |-> Missing], conflict |-> FALSE]

OverStore == [k \in Keys |-> IF k \in tx.written THEN tx.value[k] ELSE store[k]]

(* using_transaction.then(|| transaction).flatten(): without an open       *)
(* transaction a call that asks for it works on the store.                 *)
InTx(r) == r.useTx /\ tx # Missing

\* Fault: a read in the transaction does not see what it wrote.
ViewOfStore(r) == store

View(r) == IF InTx(r) THEN OverStore ELSE store

(* A write outside the transaction collides with one inside when both      *)
(* write the same key, or the tree, whose root hash they both change.      *)
Collides(K) ==
  \/ K \cap tx.written # {}
  \/ K \cap TreeKeys # {} /\ tx.written \cap TreeKeys # {}

(* Write `value` to the keys K, where the request says. *)
Write(r, K, value) ==
  LET Written(f) == [k \in Keys |-> IF k \in K THEN value ELSE f[k]]
  IN  IF InTx(r)
      THEN /\ tx' = [tx EXCEPT !.written = @ \cup K, !.value = Written(@)]
           /\ store' = store
      ELSE /\ store' = Written(store)
           /\ tx' = IF tx = Missing THEN tx ELSE [tx EXCEPT !.conflict = @ \/ Collides(K)]

GroveDbCommit == store' = OverStore /\ tx' = Missing
-----------------------------------------------------------------------------
Ended == thread \in {"closed", "panicked"}

(* The thread opens the database, or panics on the error.  Messages may    *)
(* come before: js_open does not wait.                                     *)
Open ==
  /\ thread = "opening"
  /\ thread' \in {"running", "panicked"}
  /\ UNCHANGED <<queue, store, tx, calls, inTransaction>>

(* A task sends a message; once the thread has ended, sending throws. *)
Send(c) ==
  /\ ~Ended
  /\ calls[c] = Missing
  /\ \E r \in Requests :
       /\ MayCall(c, r, inTransaction)
       /\ calls' = [calls EXCEPT ![c] = Asked(r)]
       /\ queue' = Append(queue, [from |-> c, request |-> r])
  /\ UNCHANGED <<thread, store, tx, inTransaction>>

(* The task's callback runs. *)
Receive(c) ==
  /\ calls[c] # Missing
  /\ calls[c].phase = "answered"
  /\ calls' = [calls EXCEPT ![c] = Missing]
  /\ inTransaction' = IF c = Owner THEN InTransactionAfter(calls[c].request, inTransaction)
                      ELSE inTransaction
  /\ UNCHANGED <<queue, thread, store, tx>>

\* Fault: the message stays in the queue.
HandlesAndKeeps(kinds) ==
  /\ thread = "running"
  /\ queue # <<>>
  /\ Head(queue).request.kind \in kinds
  /\ queue' = queue
  /\ UNCHANGED inTransaction

(* The thread takes the first message. *)
Handles(kinds) ==
  /\ thread = "running"
  /\ queue # <<>>
  /\ Head(queue).request.kind \in kinds
  /\ queue' = Tail(queue)
  /\ UNCHANGED inTransaction

Handled == Head(queue).request

Reply(code, seen) ==
  calls' = [calls EXCEPT ![Head(queue).from] = Answered(Handled, code, seen)]

\* Fault: only a call that asks for the transaction is refused.
ReadOnlyReversed(r) == tx # Missing /\ r.useTx

(* The guard: READONLY_MSG. *)
ReadOnly(r) == tx # Missing /\ ~r.useTx

\* Fault: a call that is refused gets no callback.
RefuseSilently ==
  /\ Handles(Guarded)
  /\ ReadOnly(Handled)
  /\ UNCHANGED <<thread, store, tx, calls>>

RefuseReadOnly ==
  /\ Handles(Guarded)
  /\ ReadOnly(Handled)
  /\ Reply("error", Missing)
  /\ UNCHANGED <<thread, store, tx>>

(* The message cannot be handled: there is no transaction to unwrap, the   *)
(* commit collides with other writes, or the arguments are ones the code   *)
(* panics on.                                                              *)
MustPanic(r) ==
  \/ r.kind \in {"commit", "rollback"} /\ tx = Missing
  \/ r.kind = "commit" /\ tx # Missing /\ tx.conflict
  \/ ~r.fits

Insert ==
  /\ Handles({"insert"})
  /\ ~ReadOnly(Handled)
  /\ Write(Handled, {Handled.key}, Handled.value)
  /\ Reply("ok", Missing)
  /\ UNCHANGED thread

InsertIfNotExists ==
  /\ Handles({"insertIfNotExists"})
  /\ ~ReadOnly(Handled)
  /\ IF View(Handled)[Handled.key] = Missing
     THEN Write(Handled, {Handled.key}, Handled.value) /\ Reply("yes", Missing)
     ELSE UNCHANGED <<store, tx>> /\ Reply("no", Missing)
  /\ UNCHANGED thread

Delete ==
  /\ Handles({"delete", "deleteAux"})
  /\ ~ReadOnly(Handled)
  /\ ~MustPanic(Handled)
  /\ Write(Handled, {Handled.key}, Missing)
  /\ Reply("ok", Missing)
  /\ UNCHANGED thread

PutAux ==
  /\ Handles({"putAux"})
  /\ Write(Handled, {Handled.key}, Handled.value)
  /\ Reply("ok", Missing)
  /\ UNCHANGED thread

(* Contracts, documents, identities, blocks, the initial structure: one    *)
(* batch, without the guard.                                               *)
Apply ==
  /\ Handles({"apply", "createStructure"})
  /\ ~MustPanic(Handled)
  /\ Write(Handled, TreeKeys, Handled.value)
  /\ Reply("ok", Missing)
  /\ UNCHANGED thread

Get ==
  /\ Handles({"get", "getAux"})
  /\ Reply("ok", View(Handled)[Handled.key])
  /\ UNCHANGED <<thread, store, tx>>

Query ==
  /\ Handles({"query"})
  /\ ~MustPanic(Handled)
  /\ Reply("ok", [k \in TreeKeys |-> View(Handled)[k]])
  /\ UNCHANGED <<thread, store, tx>>

(* Proofs of several queries are made of the store, whatever was asked. *)
ProveQueryMany ==
  /\ Handles({"proveQueryMany"})
  /\ IF Handled.useTx THEN Reply("error", Missing)
     ELSE Reply("ok", [k \in TreeKeys |-> store[k]])
  /\ UNCHANGED <<thread, store, tx>>

\* Fault: an error ends the transaction.
GroveDbErrorAborts ==
  /\ Handles(DataKinds \ UnwrapErrors)
  /\ Reply("error", Missing)
  /\ tx' = IF Handled.useTx THEN Missing ELSE tx
  /\ UNCHANGED <<thread, store>>

(* GroveDB answers a call on data with an error, also one whose arguments  *)
(* the code would panic on later; a query unwraps them first.              *)
GroveDbError ==
  /\ Handles(DataKinds \ UnwrapErrors)
  /\ Handled.kind = "query" => Handled.fits
  /\ Reply("error", Missing)
  /\ UNCHANGED <<thread, store, tx>>

IsTransactionStarted ==
  /\ Handles({"isStarted"})
  /\ Reply(IF tx # Missing THEN "yes" ELSE "no", Missing)
  /\ UNCHANGED <<thread, store, tx>>

Flush ==
  /\ Handles({"flush"})
  /\ Reply("ok", Missing)
  /\ UNCHANGED <<thread, store, tx>>

(* An open transaction is replaced, and what it wrote is dropped. *)
StartTransaction ==
  /\ Handles({"start"})
  /\ tx' = NewTransaction
  /\ Reply("ok", Missing)
  /\ UNCHANGED <<thread, store>>

(* The thread panics: it has to, or GroveDB fails where the code unwraps   *)
(* the error.  Unwinding drops the transaction; nobody is answered any more. *)
Panic ==
  /\ Handles(UnwrapErrors \cup UnwrapArguments)
  /\ MustPanic(Handled) \/ Handled.kind \in UnwrapErrors
  /\ Handled.kind \in Guarded => ~ReadOnly(Handled)
  /\ thread' = "panicked"
  /\ tx' = Missing
  /\ UNCHANGED <<store, calls>>

Commit ==
  /\ Handles({"commit"})
  /\ ~MustPanic(Handled)
  /\ GroveDbCommit
  /\ Reply("ok", Missing)
  /\ UNCHANGED thread

(* Rolling back takes the transaction away, as aborting does. *)
Discard ==
  /\ Handles({"rollback", "abort"})
  /\ ~MustPanic(Handled)
  /\ tx' = Missing
  /\ Reply("ok", Missing)
  /\ UNCHANGED <<thread, store>>

(* The messages after it are dropped. *)
Close ==
  /\ Handles({"close"})
  /\ thread' = "closed"
  /\ tx' = Missing
  /\ Reply("ok", Missing)
  /\ UNCHANGED store

HandleMessage ==
  \/ RefuseReadOnly \/ Insert \/ InsertIfNotExists \/ Delete \/ PutAux \/ Apply
  \/ Get \/ Query \/ ProveQueryMany \/ GroveDbError
  \/ IsTransactionStarted \/ Flush \/ StartTransaction \/ Commit \/ Discard \/ Close
  \/ Panic

Next == \/ Open
        \/ HandleMessage
        \/ \E c \in Callers : Send(c) \/ Receive(c)

Spec == Init /\ [][Next]_driveVars

(* The thread is scheduled, and the event loop runs callbacks. *)
FairSpec == /\ Spec
            /\ WF_driveVars(Open)
            /\ WF_driveVars(HandleMessage)
            /\ \A c \in Callers : WF_driveVars(Receive(c))
-----------------------------------------------------------------------------
(* Until the thread ends, the tasks that wait are those with a message in  *)
(* the queue, and have one message in it.                                  *)
QueueHoldsCalls ==
  /\ \A i, j \in 1 .. Len(queue) : queue[i].from = queue[j].from => i = j
  /\ \A i \in 1 .. Len(queue) : calls[queue[i].from] = Asked(queue[i].request)
  /\ ~Ended =>
       \A c \in Callers : calls[c] # Missing /\ calls[c].phase = "asked"
                            => \E i \in 1 .. Len(queue) : queue[i].from = c
(* Every variable holds a value of its type, and the queue has exactly one  *)
(* message of each task that waits for a thread that has not ended.         *)
TypeOK ==
  /\ queue \in Seq(Messages)
  /\ QueueHoldsCalls
  /\ thread \in {"opening", "running", "closed", "panicked"}
  /\ store \in Stores
  /\ tx \in Transactions \cup {Missing}
  /\ calls \in [Callers -> Pending \cup {Missing}]
  /\ inTransaction \in BOOLEAN

(* The owner can rely on its transaction as long as the thread lives: when  *)
(* it has no call out, a transaction is open exactly if it was told so,     *)
(* through errors, refusals and the calls of the others, and nothing was    *)
(* written beside it that makes its commit collide.                         *)
TransactionKept ==
  ~Ended =>
    /\ calls[Owner] = Missing => (inTransaction <=> tx # Missing)
    /\ tx # Missing => ~tx.conflict

(* "Write operations will be allowed only for the transaction until it's    *)
(* committed" (GroveDB.js): while it is open, nothing else changes the      *)
(* store.                                                                   *)
ReadOnlyDuringTransaction ==
  [][tx # Missing /\ tx' # Missing => store' = store]_driveVars

(* Whatever the others call: a message that needs the owner's transaction   *)
(* finds it open, however long it waits in the queue.  Without it a commit  *)
(* or a rollback would panic the thread (transaction.take().unwrap()), and  *)
(* a call on data would work on the store itself, and not say so.           *)
TransactionFound ==
  ~Ended =>
    \A i \in 1 .. Len(queue) :
      queue[i].request.useTx \/ queue[i].request.kind \in {"commit", "rollback"} => tx # Missing

(* Every call is answered, also one that is refused, and whatever came      *)
(* before it in the queue, unless the thread ends: then those that wait,    *)
(* wait for ever.                                                           *)
CallsAnswered ==
  \A c \in Callers : (calls[c] # Missing) ~> (calls[c] = Missing \/ Ended)

(* The thread implements a store with one isolated transaction: every       *)
(* answer is the one of a single instant, reads outside see only what was   *)
(* committed, and a commit adds exactly what its transaction wrote.  When a *)
(* panic ends the thread, no call takes a part of its effect, and of the    *)
(* open transaction nothing is left.                                        *)
Promise == INSTANCE TxStore
             WITH committed <- store,
                  ended <- Ended,
                  working <- IF tx = Missing THEN Missing ELSE OverStore

ImplementsTxStore == Promise!StoreSpec
=============================================================================
