-------------------------- MODULE DriveThreadProofs --------------------------
(***************************************************************************)
(* Theorems about the database thread: its types for all callers; that a   *)
(* message finds the transaction it needs, when the tasks without one      *)
(* write as they like; and, when they make only calls that look at         *)
(* READONLY_MSG's condition or read, that the owner can rely on its        *)
(* transaction and that the thread implements TxStore.                     *)
(***************************************************************************)
EXTENDS DriveThread, TLAPS, SequenceTheorems

(* The calls that open a transaction or end it.                            *)
TransactionChanges == {"start", "commit", "rollback", "abort", "close"}

(* The tasks without a transaction leave that of the owner alone,          *)
DirectCallsKeepTransaction == DirectKinds \cap TransactionChanges = {}

(* and make only calls that look at READONLY_MSG's condition, or read.     *)
GuardedDirectCalls == DirectKinds \subseteq Guarded \cup Reads \cup {"isStarted", "flush"}

(* What the owner knows agrees with the thread, call by call. *)
OwnerCoherent ==
  /\ calls[Owner] = Missing => (inTransaction <=> tx # Missing)
  /\ calls[Owner] # Missing /\ calls[Owner].phase = "asked" =>
       /\ inTransaction <=> tx # Missing
       /\ OwnerMayCall(calls[Owner].request, inTransaction)
  /\ calls[Owner] # Missing /\ calls[Owner].phase = "answered" =>
       (InTransactionAfter(calls[Owner].request, inTransaction) <=> tx # Missing)

(* The others have not asked for the transaction. *)
OthersDirect ==
  \A c \in Callers \ {Owner} : calls[c] # Missing =>
    calls[c].request.kind \in DirectKinds /\ ~calls[c].request.useTx

(* Whatever the others write: the owner knows its transaction until a      *)
(* panic ends the thread.                                                  *)
OwnerInv ==
  /\ TypeOK
  /\ OthersDirect
  /\ thread # "panicked" => OwnerCoherent

NoConflict == tx # Missing => tx.conflict = FALSE

(* No message is handled before the database is open. *)
NothingBegun == thread = "opening" => tx = Missing

(* Behind the guard: nothing was written beside the transaction.           *)
DriveInv == OwnerInv /\ NoConflict /\ NothingBegun
-----------------------------------------------------------------------------
(* A request says what it is, and whether it asks for the transaction. *)
LEMMA RequestType ==
  ASSUME NEW r \in Requests
  PROVE  /\ r.kind \in DataKinds \cup TransactionCalls
         /\ r.useTx \in BOOLEAN
         /\ r.kind \in TreeWrites \cup {"putAux", "delete", "deleteAux"} => r.key \in Keys
         /\ r.kind \in {"get", "getAux"} => r.key \in Keys
         /\ r.kind \in TreeWrites \cup {"putAux", "apply", "createStructure"} => r.value \in Values
         /\ ~r.fits => r.kind \in UnwrapArguments
  BY KeysAssumption
     DEF Requests, KeysOf, ValuesOf, DataKinds, TransactionCalls, TreeWrites, Reads, TreeKeys

(* The states of a call are calls, and none of them is Missing. *)
LEMMA CallStates ==
  ASSUME NEW r \in Requests
  PROVE  /\ Asked(r) \in Pending
         /\ \A code \in {"ok", "yes", "no", "error"},
               seen \in Values \cup {Missing} \cup [TreeKeys -> Values \cup {Missing}] :
              Answered(r, code, seen) \in Pending
  BY DEF Asked, Answered, Pending

(* The initial state satisfies the invariant. *)
LEMMA InitDriveInv == Init => DriveInv
  <1> SUFFICES ASSUME Init PROVE DriveInv
    OBVIOUS
  <1>1. TypeOK
    <2>1. queue \in Seq(Messages)
      BY DEF Init
    <2>2. QueueHoldsCalls
      BY DEF Init, QueueHoldsCalls
    <2> QED
      BY <2>1, <2>2 DEF Init, TypeOK, Stores
  <1>2. OwnerCoherent /\ OthersDirect /\ NoConflict /\ NothingBegun
    BY CallersAssumption DEF Init, OwnerCoherent, OthersDirect, NoConflict, NothingBegun
  <1> QED
    BY <1>1, <1>2 DEF DriveInv, OwnerInv

(* The head of the queue is a call that waits, of its sender. *)
LEMMA HeadOfQueue ==
  ASSUME TypeOK, queue # <<>>
  PROVE  /\ Head(queue) \in Messages
         /\ Head(queue).from \in Callers
         /\ Handled \in Requests
         /\ calls[Head(queue).from] = Asked(Handled)
         /\ Asked(Handled) # Missing
         /\ calls[Head(queue).from].phase = "asked"
         /\ calls[Head(queue).from].request = Handled
  <1>1. queue \in Seq(Messages) /\ QueueHoldsCalls
    BY DEF TypeOK
  <1>2. Head(queue) = queue[1] /\ 1 \in 1 .. Len(queue)
    BY <1>1
  <1>3. Head(queue) \in Messages
    BY <1>1, <1>2
  <1>4. Head(queue).from \in Callers /\ Handled \in Requests
    BY <1>3 DEF Messages, Handled
  <1>5. calls[Head(queue).from] = Asked(Handled)
    BY <1>1, <1>2 DEF QueueHoldsCalls, Handled
  <1>6. Asked(Handled) # Missing
    BY <1>4, CallStates, NoneAssumption
  <1> QED
    BY <1>3, <1>4, <1>5, <1>6 DEF Asked

(* Handling the head of the queue and answering its sender keeps the queue *)
(* and the calls in step.                                                  *)
LEMMA ReplyType ==
  ASSUME TypeOK, queue # <<>>, queue' = Tail(queue),
         NEW code \in {"ok", "yes", "no", "error"},
         NEW seen \in Values \cup {Missing} \cup [TreeKeys -> Values \cup {Missing}],
         Reply(code, seen),
         ~Ended' => ~Ended
  PROVE  /\ queue' \in Seq(Messages)
         /\ calls' \in [Callers -> Pending \cup {Missing}]
         /\ QueueHoldsCalls'
         /\ calls'[Head(queue).from] = Answered(Handled, code, seen)
         /\ \A c \in Callers : c # Head(queue).from => calls'[c] = calls[c]
         /\ Answered(Handled, code, seen) # Missing
  <1> DEFINE c0 == Head(queue).from
             n == Len(queue)
  <1>1. queue \in Seq(Messages) /\ QueueHoldsCalls
        /\ calls \in [Callers -> Pending \cup {Missing}]
    BY DEF TypeOK
  <1>2. c0 \in Callers /\ Handled \in Requests /\ calls[c0] = Asked(Handled)
    BY HeadOfQueue
  <1>3. queue' \in Seq(Messages) /\ Len(queue') = n - 1 /\ n \in Nat \ {0}
        /\ \A i \in 1 .. n - 1 : queue'[i] = queue[i + 1]
    BY <1>1
  <1>4. Answered(Handled, code, seen) \in Pending /\ Answered(Handled, code, seen) # Missing
    BY <1>2, CallStates, NoneAssumption
  <1>5. calls' \in [Callers -> Pending \cup {Missing}]
        /\ calls'[c0] = Answered(Handled, code, seen)
        /\ \A c \in Callers : c # c0 => calls'[c] = calls[c]
    BY <1>1, <1>2, <1>4 DEF Reply
  <1>6. Head(queue) = queue[1]
    BY <1>1, <1>3
  <1>7. \A i, j \in 1 .. Len(queue') : queue'[i].from = queue'[j].from => i = j
    BY <1>1, <1>3 DEF QueueHoldsCalls
  <1>8. \A i \in 1 .. Len(queue') : calls'[queue'[i].from] = Asked(queue'[i].request)
    <2> TAKE i \in 1 .. Len(queue')
    <2>1. queue'[i] = queue[i + 1] /\ i + 1 \in 1 .. n /\ i + 1 # 1
      BY <1>3
    <2>2. queue[i + 1] \in Messages /\ queue[i + 1].from # c0
      BY <2>1, <1>1, <1>3, <1>6 DEF QueueHoldsCalls
    <2>3. queue[i + 1].from \in Callers
      BY <2>2 DEF Messages
    <2> QED
      BY <2>1, <2>2, <2>3, <1>1, <1>5 DEF QueueHoldsCalls
  <1>9. ASSUME ~Ended', NEW c \in Callers, calls'[c] # Missing, calls'[c].phase = "asked"
        PROVE  \E i \in 1 .. Len(queue') : queue'[i].from = c
    <2>1. c # c0
      BY <1>5, <1>9 DEF Answered
    <2>2. PICK i \in 1 .. n : queue[i].from = c
      BY <2>1, <1>1, <1>5, <1>9 DEF QueueHoldsCalls
    <2>3. i # 1 /\ i - 1 \in 1 .. Len(queue') /\ queue'[i - 1] = queue[i]
      BY <2>1, <2>2, <1>3, <1>6
    <2> QED
      BY <2>2, <2>3
  <1> QED
    BY <1>3, <1>4, <1>5, <1>7, <1>8, <1>9 DEF QueueHoldsCalls

(* What a call sees is a value, or one for each key of the tree.           *)
LEMMA ViewType ==
  ASSUME TypeOK, NEW r
  PROVE  View(r) \in Stores
  BY DEF TypeOK, View, InTx, OverStore, Stores, Transactions

(* A write keeps the types, and opens and ends no transaction.             *)
LEMMA WriteType ==
  ASSUME TypeOK, NEW r, NEW K \in SUBSET Keys, NEW value \in Values \cup {Missing},
         Write(r, K, value)
  PROVE  /\ store' \in Stores
         /\ tx' \in Transactions \cup {Missing}
         /\ tx' # Missing <=> tx # Missing
  <1>1. store \in Stores /\ tx \in Transactions \cup {Missing}
    BY DEF TypeOK
  <1>2. CASE InTx(r)
    <2>1. tx # Missing /\ tx \in Transactions
      BY <1>1, <1>2 DEF InTx
    <2>2. /\ tx' = [tx EXCEPT !.written = @ \cup K,
                             !.value = [k \in Keys |-> IF k \in K THEN value ELSE @[k]]]
          /\ store' = store
      BY <1>2 DEF Write
    <2>3. tx' \in Transactions
      BY <2>1, <2>2 DEF Transactions, Stores
    <2> QED
      BY <1>1, <2>1, <2>2, <2>3, NoneAssumption
  <1>3. CASE ~InTx(r)
    <2>1. store' = [k \in Keys |-> IF k \in K THEN value ELSE store[k]]
      BY <1>3 DEF Write
    <2>2. store' \in Stores
      BY <1>1, <2>1 DEF Stores
    <2>3. CASE tx = Missing
      BY <1>3, <2>2, <2>3 DEF Write
    <2>4. CASE tx # Missing
      <3>1. tx \in Transactions /\ tx' = [tx EXCEPT !.conflict = @ \/ Collides(K)]
        BY <1>1, <1>3, <2>4 DEF Write
      <3>2. Collides(K) \in BOOLEAN
        BY DEF Collides
      <3>3. (tx.conflict \/ Collides(K)) \in BOOLEAN
        BY <3>1, <3>2 DEF Transactions
      <3>4. tx' \in Transactions
        BY <3>1, <3>3 DEF Transactions
      <3> QED
        BY <2>2, <2>4, <3>4, NoneAssumption
    <2> QED
      BY <2>3, <2>4
  <1> QED
    BY <1>2, <1>3
-----------------------------------------------------------------------------
Codes == {"ok", "yes", "no", "error"}
Sights == Values \cup {Missing} \cup [TreeKeys -> Values \cup {Missing}]

(* The three forms a handler that answers has: it writes, it leaves the    *)
(* data alone, or it opens or ends the transaction.                        *)
Writes ==
  /\ Handled.kind \in DataKinds \ Reads
  /\ ReadOnly(Handled) => Handled.kind \notin Guarded
  /\ \E K \in SUBSET Keys, value \in Values \cup {Missing} : Write(Handled, K, value)
  /\ UNCHANGED thread

Leaves ==
  /\ Handled.kind \in DataKinds \cup {"isStarted", "flush"}
  /\ UNCHANGED <<thread, store, tx>>

Changes ==
  /\ Handled.kind \in TransactionChanges
  /\ \/ Handled.kind = "start" /\ tx' = NewTransaction /\ store' = store
     \/ Handled.kind # "start" /\ tx' = Missing /\ store' = store
     \/ Handled.kind = "commit" /\ tx # Missing /\ tx' = Missing /\ store' = OverStore
  /\ thread' \in {thread, "closed"}

Answers ==
  /\ thread = "running"
  /\ queue # <<>>
  /\ queue' = Tail(queue)
  /\ inTransaction' = inTransaction
  /\ \E code \in Codes, seen \in Sights : Reply(code, seen)

(* Every handler but the one that panics is one of the three.              *)
LEMMA HandlerForms ==
  ASSUME TypeOK, HandleMessage, ~Panic
  PROVE  Answers /\ (Writes \/ Leaves \/ Changes)
  <1> USE DEF TreeWrites, Reads, DataKinds, Guarded
  <1>0. /\ thread = "running" /\ queue # <<>> /\ queue' = Tail(queue)
        /\ inTransaction' = inTransaction
    BY DEF HandleMessage, Handles, RefuseReadOnly, Insert, InsertIfNotExists, Delete, PutAux, Apply,
           Get, Query, ProveQueryMany, GroveDbError, IsTransactionStarted, Flush,
           StartTransaction, Commit, Discard, Close
  <1>a. Handled \in Requests
    BY <1>0, HeadOfQueue
  <1>b. {"ok", "yes", "no", "error"} \subseteq Codes /\ Missing \in Sights
    BY DEF Codes, Sights
  <1>1. CASE RefuseReadOnly
    BY <1>0, <1>1, <1>b DEF RefuseReadOnly, Handles, Handled, Answers, Leaves
  <1>2. CASE Insert
    <2>1. Handled.kind = "insert" /\ ~ReadOnly(Handled)
      BY <1>2 DEF Insert, Handles, Handled
    <2>2. {Handled.key} \in SUBSET Keys /\ Handled.value \in Values
      BY <2>1, <1>a, RequestType
    <2>3. Write(Handled, {Handled.key}, Handled.value) /\ Reply("ok", Missing) /\ UNCHANGED thread
      BY <1>2 DEF Insert
    <2> QED
      BY <1>0, <2>1, <2>2, <2>3, <1>b DEF Answers, Writes
  <1>3. CASE InsertIfNotExists
    <2>1. Handled.kind = "insertIfNotExists" /\ ~ReadOnly(Handled) /\ UNCHANGED thread
      BY <1>3 DEF InsertIfNotExists, Handles, Handled
    <2>2. {Handled.key} \in SUBSET Keys /\ Handled.value \in Values
      BY <2>1, <1>a, RequestType
    <2>3. CASE View(Handled)[Handled.key] = Missing
      <3>1. Write(Handled, {Handled.key}, Handled.value) /\ Reply("yes", Missing)
        BY <1>3, <2>3 DEF InsertIfNotExists
      <3> QED
        BY <1>0, <2>1, <2>2, <3>1, <1>b DEF Answers, Writes
    <2>4. CASE View(Handled)[Handled.key] # Missing
      BY <1>0, <1>3, <2>1, <2>4, <1>b DEF InsertIfNotExists, Answers, Leaves
    <2> QED
      BY <2>3, <2>4
  <1>4. CASE Delete
    <2>1. Handled.kind \in {"delete", "deleteAux"} /\ ~ReadOnly(Handled)
      BY <1>4 DEF Delete, Handles, Handled
    <2>2. {Handled.key} \in SUBSET Keys
      BY <2>1, <1>a, RequestType
    <2>3. Write(Handled, {Handled.key}, Missing) /\ Reply("ok", Missing) /\ UNCHANGED thread
      BY <1>4 DEF Delete
    <2> QED
      BY <1>0, <2>1, <2>2, <2>3, <1>b DEF Answers, Writes
  <1>5. CASE PutAux
    <2>1. Handled.kind = "putAux"
      BY <1>5 DEF PutAux, Handles, Handled
    <2>2. {Handled.key} \in SUBSET Keys /\ Handled.value \in Values
      BY <2>1, <1>a, RequestType
    <2>3. Write(Handled, {Handled.key}, Handled.value) /\ Reply("ok", Missing) /\ UNCHANGED thread
      BY <1>5 DEF PutAux
    <2> QED
      BY <1>0, <2>1, <2>2, <2>3, <1>b DEF Answers, Writes
  <1>6. CASE Apply
    <2>1. Handled.kind \in {"apply", "createStructure"}
      BY <1>6 DEF Apply, Handles, Handled
    <2>2. TreeKeys \in SUBSET Keys /\ Handled.value \in Values
      BY <2>1, <1>a, RequestType DEF TreeKeys
    <2>3. Write(Handled, TreeKeys, Handled.value) /\ Reply("ok", Missing) /\ UNCHANGED thread
      BY <1>6 DEF Apply
    <2> QED
      BY <1>0, <2>1, <2>2, <2>3, <1>b DEF Answers, Writes
  <1>7. CASE Get
    <2>1. Handled.kind \in {"get", "getAux"}
      BY <1>7 DEF Get, Handles, Handled
    <2>2. View(Handled)[Handled.key] \in Sights
      BY <2>1, <1>a, RequestType, ViewType DEF Stores, Sights
    <2> QED
      BY <1>0, <1>7, <2>1, <2>2, <1>b DEF Get, Answers, Leaves
  <1>8. CASE Query
    <2>1. Handled.kind = "query"
      BY <1>8 DEF Query, Handles, Handled
    <2>2. [k \in TreeKeys |-> View(Handled)[k]] \in Sights
      BY ViewType DEF Stores, TreeKeys, Sights
    <2> QED
      BY <1>0, <1>8, <2>1, <2>2, <1>b DEF Query, Answers, Leaves
  <1>9. CASE ProveQueryMany
    <2>1. Handled.kind = "proveQueryMany"
      BY <1>9 DEF ProveQueryMany, Handles, Handled
    <2>2. [k \in TreeKeys |-> store[k]] \in Sights
      BY DEF TypeOK, Stores, TreeKeys, Sights
    <2> QED
      BY <1>0, <1>9, <2>1, <2>2, <1>b DEF ProveQueryMany, Answers, Leaves
  <1>10. CASE GroveDbError
    BY <1>0, <1>10, <1>b DEF GroveDbError, Handles, Handled, Answers, Leaves
  <1>11. CASE IsTransactionStarted
    BY <1>0, <1>11, <1>b DEF IsTransactionStarted, Handles, Handled, Answers, Leaves
  <1>12. CASE Flush
    BY <1>0, <1>12, <1>b DEF Flush, Handles, Handled, Answers, Leaves
  <1>13. CASE StartTransaction
    BY <1>0, <1>13, <1>b DEF StartTransaction, Handles, Handled, Answers, Changes, TransactionChanges
  <1>14. CASE Commit
    BY <1>0, <1>14, <1>b
       DEF Commit, GroveDbCommit, MustPanic, Handles, Handled, Answers, Changes, TransactionChanges
  <1>15. CASE Discard
    BY <1>0, <1>15, <1>b DEF Discard, Handles, Handled, Answers, Changes, TransactionChanges
  <1>16. CASE Close
    BY <1>0, <1>16, <1>b DEF Close, Handles, Handled, Answers, Changes, TransactionChanges
  <1> QED
    BY <1>1, <1>2, <1>3, <1>4, <1>5, <1>6, <1>7, <1>8, <1>9, <1>10, <1>11, <1>12, <1>13,
       <1>14, <1>15, <1>16 DEF HandleMessage

(* What a handler that answers does to the types of the data, and when a   *)
(* transaction is open after it.                                           *)
LEMMA HandlerEffect ==
  ASSUME TypeOK, HandleMessage, ~Panic
  PROVE  /\ Answers
         /\ store' \in Stores
         /\ tx' \in Transactions \cup {Missing}
         /\ thread' \in {"running", "closed"}
         /\ tx' # Missing <=> InTransactionAfter(Handled, tx # Missing)
         /\ Handled.kind \notin TransactionChanges => (tx' # Missing <=> tx # Missing)
  <1> USE DEF TreeWrites, Reads, DataKinds, TransactionChanges, InTransactionAfter
  <1>1. Answers /\ (Writes \/ Leaves \/ Changes)
    BY HandlerForms
  <1>2. thread = "running" /\ store \in Stores /\ tx \in Transactions \cup {Missing}
    BY <1>1 DEF Answers, TypeOK
  <1>3. CASE Writes
    <2>1. PICK K \in SUBSET Keys, value \in Values \cup {Missing} : Write(Handled, K, value)
      BY <1>3 DEF Writes
    <2>2. /\ store' \in Stores /\ tx' \in Transactions \cup {Missing}
          /\ tx' # Missing <=> tx # Missing
      BY <2>1, WriteType
    <2> QED
      BY <1>1, <1>2, <1>3, <2>2 DEF Writes
  <1>4. CASE Leaves
    BY <1>1, <1>2, <1>4 DEF Leaves
  <1>5. CASE Changes
    <2>1. NewTransaction \in Transactions
      BY DEF NewTransaction, Transactions, Stores
    <2>2. tx # Missing => OverStore \in Stores
      BY <1>2 DEF OverStore, Stores, Transactions
    <2> QED
      BY <1>1, <1>2, <1>5, <2>1, <2>2, NoneAssumption DEF Changes
  <1> QED
    BY <1>1, <1>3, <1>4, <1>5

(* A message handler keeps the types. *)
LEMMA HandlerKeepsTypes ==
  ASSUME TypeOK, HandleMessage
  PROVE  TypeOK'
  <1>1. CASE Panic
    <2>1. /\ queue # <<>> /\ queue' = Tail(queue) /\ thread' = "panicked" /\ tx' = Missing
          /\ store' = store /\ calls' = calls /\ inTransaction' = inTransaction
      BY <1>1 DEF Panic, Handles
    <2>2. queue \in Seq(Messages) /\ QueueHoldsCalls
      BY DEF TypeOK
    <2>3. /\ queue' \in Seq(Messages) /\ Len(queue') = Len(queue) - 1 /\ Len(queue) \in Nat
          /\ \A i \in 1 .. Len(queue) - 1 : queue'[i] = queue[i + 1]
      BY <2>1, <2>2
    <2>4. QueueHoldsCalls'
      BY <2>1, <2>2, <2>3 DEF QueueHoldsCalls, Ended
    <2> QED
      BY <2>1, <2>3, <2>4 DEF TypeOK
  <1>2. CASE ~Panic
    <2>1. /\ Answers
          /\ store' \in Stores /\ tx' \in Transactions \cup {Missing}
          /\ thread' \in {"running", "closed"}
      BY <1>2, HandlerEffect
    <2>2. PICK code \in Codes, seen \in Sights : Reply(code, seen)
      BY <2>1 DEF Answers
    <2>3. /\ queue' \in Seq(Messages) /\ calls' \in [Callers -> Pending \cup {Missing}]
          /\ QueueHoldsCalls'
      BY <2>1, <2>2, ReplyType DEF Answers, Codes, Sights, Ended
    <2> QED
      BY <2>1, <2>3 DEF Answers, TypeOK
  <1> QED
    BY <1>1, <1>2

(* The call of the message that is handled: the owner's is one it may make. *)
LEMMA HandledCall ==
  ASSUME OwnerInv, thread = "running", queue # <<>>
  PROVE  /\ Handled \in Requests
         /\ Head(queue).from \in Callers
         /\ inTransaction \in BOOLEAN
         /\ Head(queue).from = Owner =>
              (inTransaction <=> tx # Missing) /\ OwnerMayCall(Handled, inTransaction)
         /\ Head(queue).from # Owner => Handled.kind \in DirectKinds /\ ~Handled.useTx
  <1>1. TypeOK /\ inTransaction \in BOOLEAN /\ OwnerCoherent
    BY DEF OwnerInv, TypeOK
  <1>2. /\ Handled \in Requests
        /\ Head(queue).from \in Callers
        /\ calls[Head(queue).from] # Missing
        /\ calls[Head(queue).from].phase = "asked"
        /\ calls[Head(queue).from].request = Handled
    BY <1>1, HeadOfQueue
  <1> QED
    BY <1>1, <1>2 DEF OwnerInv, OwnerCoherent, OthersDirect

(* A message handler keeps what the owner knows true, since only the       *)
(* owner's calls open or end the transaction, and as the owner thinks.     *)
LEMMA HandlerKeepsOwner ==
  ASSUME DirectCallsKeepTransaction, OwnerInv, HandleMessage
  PROVE  OwnerInv'
  <1>0. TypeOK /\ OthersDirect
    BY DEF OwnerInv
  <1>1. TypeOK'
    BY <1>0, HandlerKeepsTypes
  <1>2. CASE Panic
    BY <1>0, <1>1, <1>2 DEF Panic, OwnerInv, OthersDirect
  <1>3. CASE ~Panic
    <2>1. /\ Answers
          /\ thread' \in {"running", "closed"}
          /\ tx' # Missing <=> InTransactionAfter(Handled, tx # Missing)
          /\ Handled.kind \notin TransactionChanges => (tx' # Missing <=> tx # Missing)
      BY <1>0, <1>3, HandlerEffect
    <2>2. PICK code \in Codes, seen \in Sights : Reply(code, seen)
      BY <2>1 DEF Answers
    <2>3. /\ calls'[Head(queue).from] = Answered(Handled, code, seen)
          /\ \A c \in Callers : c # Head(queue).from => calls'[c] = calls[c]
          /\ Answered(Handled, code, seen) # Missing
      <3>1. queue # <<>> /\ queue' = Tail(queue) /\ ~Ended
        BY <2>1 DEF Answers, Ended
      <3> QED
        BY <1>0, <2>2, <3>1, ReplyType DEF Codes, Sights
    <2>4. /\ Head(queue).from \in Callers /\ inTransaction \in BOOLEAN
          /\ Head(queue).from = Owner => (inTransaction <=> tx # Missing)
          /\ Head(queue).from # Owner => Handled.kind \in DirectKinds /\ ~Handled.useTx
      BY <2>1, HandledCall DEF Answers
    <2>5. inTransaction' = inTransaction /\ OwnerCoherent
      BY <2>1 DEF Answers, OwnerInv
    <2>6. OwnerCoherent'
      <3>1. CASE Head(queue).from = Owner
        <4>1. inTransaction = (tx # Missing)
          BY <3>1, <2>4
        <4>2. InTransactionAfter(Handled, inTransaction) <=> tx' # Missing
          BY <4>1, <2>1
        <4> QED
          BY <3>1, <4>2, <2>3, <2>5 DEF OwnerCoherent, Answered
      <3>2. CASE Head(queue).from # Owner
        <4>1. calls'[Owner] = calls[Owner]
          BY <3>2, <2>3, CallersAssumption
        <4>2. tx' # Missing <=> tx # Missing
          BY <3>2, <2>1, <2>4 DEF DirectCallsKeepTransaction
        <4> QED
          BY <4>1, <4>2, <2>5 DEF OwnerCoherent
      <3> QED
        BY <3>1, <3>2
    <2>7. OthersDirect'
      BY <1>0, <2>3, <2>4 DEF OthersDirect, Answered
    <2> QED
      BY <1>1, <2>6, <2>7 DEF OwnerInv
  <1> QED
    BY <1>2, <1>3

(* A task that sends a message waits, and its message is the last.         *)
LEMMA SendKeepsInv ==
  ASSUME TypeOK, NEW c \in Callers, Send(c)
  PROVE  TypeOK' /\ (OwnerInv => OwnerInv')
  <1> DEFINE n == Len(queue)
  <1>1. PICK r \in Requests :
          /\ MayCall(c, r, inTransaction)
          /\ calls' = [calls EXCEPT ![c] = Asked(r)]
          /\ queue' = Append(queue, [from |-> c, request |-> r])
    BY DEF Send
  <1>2. /\ thread' = thread /\ store' = store /\ tx' = tx /\ inTransaction' = inTransaction
        /\ calls[c] = Missing
    BY DEF Send
  <1>3. /\ queue \in Seq(Messages) /\ QueueHoldsCalls
        /\ calls \in [Callers -> Pending \cup {Missing}]
    BY DEF TypeOK
  <1>4. Asked(r) \in Pending /\ Asked(r) # Missing
    BY CallStates, NoneAssumption
  <1>5. /\ calls' \in [Callers -> Pending \cup {Missing}]
        /\ calls'[c] = Asked(r)
        /\ \A d \in Callers : d # c => calls'[d] = calls[d]
    BY <1>1, <1>3, <1>4
  <1>6. /\ [from |-> c, request |-> r] \in Messages
        /\ queue' \in Seq(Messages)
        /\ Len(queue') = n + 1 /\ n \in Nat
        /\ queue'[n + 1] = [from |-> c, request |-> r]
        /\ \A i \in 1 .. n : queue'[i] = queue[i]
    BY <1>1, <1>3 DEF Messages
  <1>7. \A i \in 1 .. n : queue[i].from # c /\ queue[i].from \in Callers
    <2> TAKE i \in 1 .. n
    <2>1. queue[i] \in Messages /\ calls[queue[i].from] = Asked(queue[i].request)
      BY <1>3 DEF QueueHoldsCalls
    <2>2. queue[i].request \in Requests /\ queue[i].from \in Callers
      BY <2>1 DEF Messages
    <2>3. Asked(queue[i].request) # Missing
      BY <2>2, CallStates, NoneAssumption
    <2> QED
      BY <2>1, <2>2, <2>3, <1>2
  <1>8. QueueHoldsCalls'
    <2>1. \A i, j \in 1 .. Len(queue') : queue'[i].from = queue'[j].from => i = j
      <3> TAKE i, j \in 1 .. Len(queue')
      <3>1. \A k \in 1 .. n : queue'[k].from # c /\ queue'[k].from = queue[k].from
        BY <1>6, <1>7
      <3>2. queue'[n + 1].from = c
        BY <1>6
      <3>3. \A k, l \in 1 .. n : queue[k].from = queue[l].from => k = l
        BY <1>3 DEF QueueHoldsCalls
      <3>4. i \in 1 .. n \/ i = n + 1
        BY <1>6
      <3>5. j \in 1 .. n \/ j = n + 1
        BY <1>6
      <3> QED
        BY <3>1, <3>2, <3>3, <3>4, <3>5, Zenon
    <2>2. \A i \in 1 .. Len(queue') : calls'[queue'[i].from] = Asked(queue'[i].request)
      BY <1>3, <1>5, <1>6, <1>7 DEF QueueHoldsCalls
    <2>3. ASSUME ~Ended', NEW d \in Callers, calls'[d] # Missing, calls'[d].phase = "asked"
          PROVE  \E i \in 1 .. Len(queue') : queue'[i].from = d
      <3>1. CASE d = c
        BY <3>1, <1>6
      <3>2. CASE d # c
        <4>1. PICK i \in 1 .. n : queue[i].from = d
          BY <3>2, <2>3, <1>2, <1>3, <1>5 DEF QueueHoldsCalls, Ended
        <4> QED
          BY <4>1, <1>6
      <3> QED
        BY <3>1, <3>2
    <2> QED
      BY <2>1, <2>2, <2>3 DEF QueueHoldsCalls
  <1>9. TypeOK'
    BY <1>2, <1>5, <1>6, <1>8 DEF TypeOK
  <1>10. OwnerInv => OwnerCoherent'
    <2> HAVE OwnerInv
    <2>0. OwnerCoherent
      BY DEF OwnerInv, Send, Ended
    <2>1. CASE c = Owner
      BY <2>0, <2>1, <1>1, <1>2, <1>5 DEF OwnerCoherent, MayCall, Asked
    <2>2. CASE c # Owner
      <3>1. calls'[Owner] = calls[Owner]
        BY <2>2, <1>5, CallersAssumption
      <3> QED
        BY <2>0, <3>1, <1>2 DEF OwnerCoherent
    <2> QED
      BY <2>1, <2>2
  <1>11. OwnerInv => OthersDirect'
    BY <1>1, <1>5 DEF OwnerInv, OthersDirect, MayCall, Asked
  <1> QED
    BY <1>9, <1>10, <1>11 DEF OwnerInv

(* A task that takes its answer is idle, and the owner knows what it did.   *)
LEMMA ReceiveKeepsInv ==
  ASSUME TypeOK, NEW c \in Callers, Receive(c)
  PROVE  TypeOK' /\ (OwnerInv => OwnerInv')
  <1>1. /\ calls[c] # Missing /\ calls[c].phase = "answered"
        /\ calls' = [calls EXCEPT ![c] = Missing]
        /\ inTransaction' = IF c = Owner
                            THEN InTransactionAfter(calls[c].request, inTransaction)
                            ELSE inTransaction
        /\ queue' = queue /\ thread' = thread /\ store' = store /\ tx' = tx
    BY DEF Receive
  <1>2. /\ queue \in Seq(Messages) /\ QueueHoldsCalls
        /\ calls \in [Callers -> Pending \cup {Missing}]
    BY DEF TypeOK
  <1>3. /\ calls' \in [Callers -> Pending \cup {Missing}]
        /\ calls'[c] = Missing
        /\ \A d \in Callers : d # c => calls'[d] = calls[d]
    BY <1>1, <1>2
  <1>4. \A i \in 1 .. Len(queue) : queue[i].from # c /\ queue[i].from \in Callers
    <2> TAKE i \in 1 .. Len(queue)
    <2>1. queue[i] \in Messages /\ calls[queue[i].from] = Asked(queue[i].request)
      BY <1>2 DEF QueueHoldsCalls
    <2> QED
      BY <2>1, <1>1 DEF Messages, Asked
  <1>5. QueueHoldsCalls'
    BY <1>1, <1>2, <1>3, <1>4 DEF QueueHoldsCalls, Ended
  <1>6. inTransaction' \in BOOLEAN
    BY <1>1 DEF TypeOK, InTransactionAfter
  <1>7. TypeOK'
    BY <1>1, <1>3, <1>5, <1>6 DEF TypeOK
  <1>8. ASSUME OwnerInv, thread' # "panicked" PROVE OwnerCoherent'
    <2>0. OwnerCoherent
      BY <1>1, <1>8 DEF OwnerInv
    <2>1. CASE c = Owner
      BY <2>0, <2>1, <1>1, <1>3 DEF OwnerCoherent
    <2>2. CASE c # Owner
      <3>1. calls'[Owner] = calls[Owner]
        BY <2>2, <1>3, CallersAssumption
      <3> QED
        BY <2>0, <3>1, <2>2, <1>1 DEF OwnerCoherent
    <2> QED
      BY <2>1, <2>2
  <1>9. OwnerInv => OthersDirect'
    BY <1>1, <1>3 DEF OwnerInv, OthersDirect
  <1> QED
    BY <1>7, <1>8, <1>9 DEF OwnerInv

(* Opening the database leaves everything else as it is.                   *)
LEMMA OpenKeepsInv ==
  ASSUME TypeOK, Open
  PROVE  /\ TypeOK'
         /\ OwnerInv => OwnerInv'
         /\ ~Ended /\ (thread' = "running" => ~Ended')
         /\ UNCHANGED <<queue, store, tx, calls, inTransaction>>
  <1>1. /\ queue' = queue /\ store' = store /\ tx' = tx /\ calls' = calls
        /\ inTransaction' = inTransaction
        /\ thread = "opening" /\ thread' \in {"running", "panicked"}
    BY DEF Open
  <1>2. QueueHoldsCalls'
    BY <1>1 DEF TypeOK, QueueHoldsCalls, Ended
  <1>3. TypeOK'
    BY <1>1, <1>2 DEF TypeOK
  <1> QED
    BY <1>1, <1>3 DEF OwnerInv, OwnerCoherent, OthersDirect, Ended
-----------------------------------------------------------------------------
(* Types are kept by every step,                                           *)
LEMMA StepTypes ==
  ASSUME TypeOK, [Next]_driveVars
  PROVE  TypeOK'
  <1>1. CASE HandleMessage
    BY <1>1, HandlerKeepsTypes
  <1>2. ASSUME NEW c \in Callers, Send(c) \/ Receive(c) PROVE TypeOK'
    BY <1>2, SendKeepsInv, ReceiveKeepsInv
  <1>3. CASE UNCHANGED driveVars
    BY <1>3 DEF driveVars, TypeOK, QueueHoldsCalls, Ended
  <1>4. CASE Open
    BY <1>4, OpenKeepsInv
  <1> QED
    BY <1>1, <1>2, <1>3, <1>4 DEF Next

(* what the owner knows if the others leave its transaction alone,         *)
LEMMA StepOwnerInv ==
  ASSUME DirectCallsKeepTransaction, OwnerInv, [Next]_driveVars
  PROVE  OwnerInv'
  <1>0. TypeOK
    BY DEF OwnerInv
  <1>1. CASE HandleMessage
    BY <1>1, HandlerKeepsOwner
  <1>2. ASSUME NEW c \in Callers, Send(c) \/ Receive(c) PROVE OwnerInv'
    BY <1>0, <1>2, SendKeepsInv, ReceiveKeepsInv
  <1>3. CASE UNCHANGED driveVars
    BY <1>3 DEF driveVars, OwnerInv, TypeOK, QueueHoldsCalls, Ended, OwnerCoherent, OthersDirect
  <1>4. CASE Open
    BY <1>0, <1>4, OpenKeepsInv
  <1> QED
    BY <1>1, <1>2, <1>3, <1>4 DEF Next

(* and so a message that needs the transaction finds it.                   *)
LEMMA TransactionIsThere ==
  ASSUME DirectCallsKeepTransaction, OwnerInv, ~Ended, NEW i \in 1 .. Len(queue),
         queue[i].request.useTx \/ queue[i].request.kind \in {"commit", "rollback"}
  PROVE  tx # Missing
  <1> DEFINE c == queue[i].from
             r == queue[i].request
  <1>1. /\ queue \in Seq(Messages) /\ QueueHoldsCalls /\ inTransaction \in BOOLEAN
        /\ OwnerCoherent /\ OthersDirect
    BY DEF OwnerInv, TypeOK, Ended
  <1>2. queue[i] \in Messages /\ calls[c] = Asked(r)
    BY <1>1 DEF QueueHoldsCalls
  <1>3. c \in Callers /\ r \in Requests
    BY <1>2 DEF Messages
  <1>4. /\ calls[c] # Missing /\ calls[c].phase = "asked" /\ calls[c].request = r
        /\ r.useTx => r.kind \in DataKinds
    BY <1>2, <1>3, CallStates, NoneAssumption, RequestType DEF Asked, Requests
  <1> HIDE DEF c, r
  <1>5. r.useTx \/ r.kind \in {"commit", "rollback"}
    BY DEF r
  <1>6. c = Owner
    BY <1>1, <1>3, <1>4, <1>5 DEF OthersDirect, DirectCallsKeepTransaction, TransactionChanges
  <1> QED
    BY <1>1, <1>4, <1>5, <1>6 DEF OwnerCoherent, OwnerMayCall

(* A write behind the guard is in the open transaction, or there is none.  *)
LEMMA GuardedWrite ==
  ASSUME DriveInv, GuardedDirectCalls, Answers, Writes
  PROVE  InTx(Handled) \/ tx = Missing
  <1>1. thread = "running" /\ queue # <<>> /\ OwnerInv
    BY DEF Answers, DriveInv
  <1>2. /\ inTransaction \in BOOLEAN
        /\ Head(queue).from = Owner =>
              (inTransaction <=> tx # Missing) /\ OwnerMayCall(Handled, inTransaction)
        /\ Head(queue).from # Owner => Handled.kind \in DirectKinds /\ ~Handled.useTx
    BY <1>1, HandledCall
  <1> QED
    BY <1>2 DEF Writes, GuardedDirectCalls, InTx, ReadOnly, OwnerMayCall, DataKinds, TreeWrites, Reads

(* The thread opens once, and handles messages only after that.            *)
LEMMA StepNothingBegun ==
  ASSUME TypeOK, NothingBegun, [Next]_driveVars
  PROVE  NothingBegun'
  <1>1. CASE HandleMessage
    <2>1. CASE Panic
      BY <2>1 DEF Panic, NothingBegun
    <2>2. CASE ~Panic
      BY <1>1, <2>2, HandlerEffect DEF NothingBegun
    <2> QED
      BY <2>1, <2>2
  <1>2. CASE ~HandleMessage
    BY <1>2 DEF Next, Send, Receive, Open, driveVars, NothingBegun
  <1> QED
    BY <1>1, <1>2

LEMMA GuardedKeepTransaction ==
  ASSUME GuardedDirectCalls
  PROVE  DirectCallsKeepTransaction
  BY DEF GuardedDirectCalls, DirectCallsKeepTransaction, TransactionChanges, Guarded, TreeWrites, Reads

(* Behind the guard the invariant is inductive.                            *)
LEMMA StepDriveInv ==
  ASSUME GuardedDirectCalls, DriveInv, [Next]_driveVars
  PROVE  DriveInv'
  <1>1. OwnerInv /\ TypeOK /\ DirectCallsKeepTransaction
    BY GuardedKeepTransaction DEF DriveInv, OwnerInv
  <1>2. OwnerInv' /\ NothingBegun'
    BY <1>1, StepOwnerInv, StepNothingBegun DEF DriveInv
  <1>3. CASE HandleMessage
    <2>1. CASE Panic
      BY <1>2, <2>1 DEF Panic, DriveInv, NoConflict
    <2>2. ASSUME ~Panic PROVE Answers /\ (Writes \/ Leaves \/ Changes)
      BY <1>1, <1>3, <2>2, HandlerForms
    <2>3. CASE Answers /\ Writes
      <3>1. PICK K \in SUBSET Keys, value \in Values \cup {Missing} : Write(Handled, K, value)
        BY <2>3 DEF Writes
      <3>2. NoConflict'
        <4>1. CASE tx = Missing
          BY <3>1, <4>1 DEF Write, InTx, NoConflict
        <4>2. CASE tx # Missing
          <5>1. InTx(Handled)
            BY <2>3, <4>2, GuardedWrite
          <5>2. tx \in Transactions /\ tx.conflict = FALSE
            BY <1>1, <4>2 DEF TypeOK, DriveInv, NoConflict
          <5>3. tx'.conflict = tx.conflict
            BY <3>1, <5>1, <5>2 DEF Write, Transactions
          <5> QED
            BY <5>2, <5>3 DEF NoConflict
        <4> QED
          BY <4>1, <4>2
      <3> QED
        BY <1>2, <3>2 DEF DriveInv
    <2>4. CASE Leaves
      <3>1. NoConflict'
        BY <2>4 DEF Leaves, DriveInv, NoConflict
      <3> QED
        BY <1>2, <3>1 DEF DriveInv
    <2>5. CASE Changes
      <3>1. NewTransaction.conflict = FALSE
        BY DEF NewTransaction
      <3>2. NoConflict'
        BY <2>5, <3>1 DEF Changes, NoConflict
      <3> QED
        BY <1>2, <3>2 DEF DriveInv
    <2> QED
      BY <2>1, <2>2, <2>3, <2>4, <2>5
  <1>4. CASE ~HandleMessage
    <2>1. tx' = tx
      BY <1>4 DEF Next, Send, Receive, Open, driveVars
    <2> QED
      BY <1>2, <2>1 DEF DriveInv, NoConflict
  <1> QED
    BY <1>3, <1>4
-----------------------------------------------------------------------------
(* Every variable holds a value of its type, and the queue of a thread that *)
(* has not ended has exactly one message of each task that waits, whatever *)
(* the tasks call.                                                         *)
THEOREM DriveTypeCorrect == Spec => []TypeOK
  <1>1. Init => TypeOK
    BY InitDriveInv DEF DriveInv, OwnerInv
  <1>2. TypeOK /\ [Next]_driveVars => TypeOK'
    BY StepTypes
  <1> QED
    BY <1>1, <1>2, PTL DEF Spec

(* As long as the tasks without a transaction leave that of the owner      *)
(* alone, whatever they write, each message that needs the transaction     *)
(* finds it open: no commit and no rollback panics for want of one, and no *)
(* call that asks for the transaction works on the store instead.          *)
THEOREM TransactionIsFound ==
  ASSUME DirectCallsKeepTransaction
  PROVE  Spec => []TransactionFound
  <1>1. Init => OwnerInv
    BY InitDriveInv DEF DriveInv
  <1>2. OwnerInv /\ [Next]_driveVars => OwnerInv'
    BY StepOwnerInv
  <1>3. OwnerInv => TransactionFound
    BY TransactionIsThere DEF TransactionFound
  <1> QED
    BY <1>1, <1>2, <1>3, PTL DEF Spec

(* When the tasks without a transaction make only guarded calls, the owner  *)
(* is never wrong about its transaction and nothing collides with it, for   *)
(* any number of tasks, keys and values, with any arguments and whatever    *)
(* fails, until the thread ends.                                            *)
THEOREM TransactionIsKept ==
  ASSUME GuardedDirectCalls
  PROVE  Spec => []TransactionKept
  <1>1. DriveInv => TransactionKept
    BY DEF DriveInv, OwnerInv, OwnerCoherent, NoConflict, TransactionKept, Ended
  <1>2. DriveInv /\ [Next]_driveVars => DriveInv'
    BY StepDriveInv
  <1> QED
    BY <1>1, <1>2, InitDriveInv, PTL DEF Spec
-----------------------------------------------------------------------------
(* The store as the transaction sees it.                                   *)
Working == IF tx = Missing THEN Missing ELSE OverStore

(* TxStore with this mapping, as DriveThread has it: what the thread keeps  *)
(* as a set of written keys is a whole store.                              *)
LEMMA WorkingType ==
  ASSUME TypeOK
  PROVE  /\ store \in Stores
         /\ tx # Missing => OverStore \in Stores /\ OverStore # Missing
         /\ Working # Missing <=> tx # Missing
  <1>1. store \in Stores /\ (tx # Missing => OverStore \in Stores)
    BY DEF TypeOK, OverStore, Stores, Transactions
  <1> QED
    BY <1>1, NoneAssumption DEF Working

(* A write in the transaction changes the store as the transaction sees it *)
(* as it would change the store.                                           *)
LEMMA WriteOverStore ==
  ASSUME TypeOK, NEW r, NEW K \in SUBSET Keys, NEW value \in Values \cup {Missing},
         Write(r, K, value)
  PROVE  /\ InTx(r) => /\ store' = store /\ tx' # Missing
                       /\ OverStore' = [k \in Keys |-> IF k \in K THEN value ELSE OverStore[k]]
         /\ tx = Missing => /\ store' = [k \in Keys |-> IF k \in K THEN value ELSE store[k]]
                            /\ tx' = Missing
  <1>1. ASSUME InTx(r)
        PROVE  /\ store' = store /\ tx' # Missing
               /\ OverStore' = [k \in Keys |-> IF k \in K THEN value ELSE OverStore[k]]
    <2>1. tx # Missing /\ tx \in Transactions
      BY <1>1 DEF InTx, TypeOK
    <2>2. /\ tx' = [tx EXCEPT !.written = @ \cup K,
                             !.value = [k \in Keys |-> IF k \in K THEN value ELSE @[k]]]
          /\ store' = store
      BY <1>1 DEF Write
    <2>3. /\ tx'.written = tx.written \cup K
          /\ tx'.value = [k \in Keys |-> IF k \in K THEN value ELSE tx.value[k]]
      BY <2>1, <2>2 DEF Transactions
    <2>4. OverStore' = [k \in Keys |-> IF k \in tx'.written THEN tx'.value[k] ELSE store'[k]]
      BY DEF OverStore
    <2>5. \A k \in Keys : (IF k \in tx'.written THEN tx'.value[k] ELSE store'[k])
                            = IF k \in K THEN value ELSE OverStore[k]
      BY <2>2, <2>3 DEF OverStore
    <2>6. tx' # Missing
      BY <2>1, <1>1, WriteType DEF InTx
    <2> QED
      BY <2>2, <2>4, <2>5, <2>6
  <1>2. ASSUME tx = Missing
        PROVE  /\ store' = [k \in Keys |-> IF k \in K THEN value ELSE store[k]]
               /\ tx' = Missing
    BY <1>2 DEF Write, InTx
  <1> QED
    BY <1>1, <1>2

(* TxStore's calls are the thread's.                                       *)
LEMMA SameCalls ==
  /\ Promise!DataKinds = DataKinds /\ Promise!Reads = Reads
  /\ Promise!TransactionCalls = TransactionCalls /\ Promise!TreeKeys = TreeKeys
  /\ Promise!UnwrapErrors = UnwrapErrors /\ Promise!Requests = Requests
  /\ \A r : Promise!Asked(r) = Asked(r)
  /\ \A r, code, seen : Promise!Answered(r, code, seen) = Answered(r, code, seen)
  <1>1. /\ Promise!DataKinds = DataKinds /\ Promise!Reads = Reads
        /\ Promise!TransactionCalls = TransactionCalls /\ Promise!TreeKeys = TreeKeys
        /\ Promise!UnwrapErrors = UnwrapErrors /\ Promise!UnwrapArguments = UnwrapArguments
        /\ \A kind : Promise!KeysOf(kind) = KeysOf(kind) /\ Promise!ValuesOf(kind) = ValuesOf(kind)
    BY DEF Promise!DataKinds, DataKinds, Promise!Reads, Reads, Promise!TreeWrites, TreeWrites,
           Promise!TransactionCalls, TransactionCalls, Promise!TreeKeys, TreeKeys,
           Promise!KeysOf, KeysOf, Promise!ValuesOf, ValuesOf, Promise!UnwrapErrors, UnwrapErrors,
           Promise!UnwrapArguments, UnwrapArguments
  <1>2. Promise!Requests = Requests
    BY <1>1 DEF Promise!Requests, Requests
  <1> QED
    BY <1>1, <1>2 DEF Promise!Asked, Asked, Promise!Answered, Answered

(* A handler that answers a call on data from what the call sees, and      *)
(* writes there, has the effect of the call.                               *)
LEMMA DataTakesEffect ==
  ASSUME OwnerInv, Answers, UNCHANGED thread, Handled.kind \in DataKinds, Handled.fits,
         Handled.kind = "proveQueryMany" => ~Handled.useTx,
         NEW code, NEW seen, Reply(code, seen),
         code = Promise!CodeIn(Handled, View(Handled)),
         seen = Promise!SeenIn(Handled, View(Handled)),
         InTx(Handled) => /\ store' = store /\ tx' # Missing
                          /\ OverStore' = Promise!After(Handled, OverStore),
         ~InTx(Handled) => /\ store' = Promise!After(Handled, store)
                           /\ Working' = Working
                           /\ Handled.kind \in Reads \/ tx = Missing
  PROVE  Promise!TakeEffect(Head(queue).from)
  <1>1. /\ calls[Head(queue).from] # Missing
        /\ calls[Head(queue).from].phase = "asked"
        /\ calls[Head(queue).from].request = Handled
        /\ ~Ended
    BY HeadOfQueue DEF OwnerInv, Answers, Ended
  <1>2. Promise!Answer(Head(queue).from, code, seen)
    BY <1>1, SameCalls DEF Promise!Answer, Reply
  <1>3. (Working # Missing <=> tx # Missing) /\ Ended' = Ended
    BY WorkingType DEF OwnerInv, Ended
  <1>4. CASE InTx(Handled)
    <2>1. Handled.useTx /\ tx # Missing /\ View(Handled) = OverStore
      BY <1>4 DEF InTx, View
    <2>2. Promise!Access(Head(queue).from, Handled)
      BY SameCalls, <1>2, <1>3, <1>4, <2>1 DEF Promise!Access, Working
    <2> QED
      BY <1>1, <2>2 DEF Promise!TakeEffect
  <1>5. CASE ~InTx(Handled)
    <2>1. ~(Handled.useTx /\ tx # Missing) /\ View(Handled) = store
      BY <1>5 DEF InTx, View
    <2>2. Promise!Access(Head(queue).from, Handled)
      BY SameCalls, <1>2, <1>3, <1>5, <2>1 DEF Promise!Access, Working
    <2> QED
      BY <1>1, <2>2 DEF Promise!TakeEffect
  <1> QED
    BY <1>4, <1>5

(* A handler that writes through a guard, or for the owner.                *)
LEMMA WriteTakesEffect ==
  ASSUME DriveInv, GuardedDirectCalls, Answers, Writes,
         NEW K \in SUBSET Keys, NEW value \in Values \cup {Missing},
         Write(Handled, K, value), NEW code, Reply(code, Missing), Handled.fits,
         \A f \in Stores : f = View(Handled) =>
           /\ Promise!After(Handled, f) = [k \in Keys |-> IF k \in K THEN value ELSE f[k]]
           /\ code = Promise!CodeIn(Handled, f)
  PROVE  Promise!TakeEffect(Head(queue).from)
  <1>1. OwnerInv /\ TypeOK
    BY DEF DriveInv, OwnerInv
  <1>2. View(Handled) \in Stores /\ store \in Stores
    BY <1>1, ViewType, WorkingType
  <1>3. code = Promise!CodeIn(Handled, View(Handled))
    BY <1>2
  <1>4. Handled.kind \in DataKinds \ Reads /\ Handled.kind # "proveQueryMany"
    BY DEF Writes, Reads
  <1>5. Promise!SeenIn(Handled, View(Handled)) = Missing
    BY <1>4 DEF Promise!SeenIn, Reads
  <1>6. ASSUME InTx(Handled)
        PROVE  store' = store /\ tx' # Missing /\ OverStore' = Promise!After(Handled, OverStore)
    <2>1. View(Handled) = OverStore
      BY <1>6 DEF View
    <2> QED
      BY <1>1, <1>2, <1>6, <2>1, WriteOverStore
  <1>7. ASSUME ~InTx(Handled)
        PROVE  store' = Promise!After(Handled, store) /\ Working' = Working /\ tx = Missing
    <2>1. View(Handled) = store /\ tx = Missing
      BY <1>7, GuardedWrite DEF View
    <2>2. store' = [k \in Keys |-> IF k \in K THEN value ELSE store[k]] /\ tx' = Missing
      BY <1>1, <2>1, WriteOverStore
    <2> QED
      BY <1>2, <2>1, <2>2 DEF Working
  <1> QED
    BY <1>1, <1>3, <1>4, <1>5, <1>6, <1>7, DataTakesEffect DEF Writes

(* A handler that reads and writes nothing.                                *)
LEMMA ReadTakesEffect ==
  ASSUME OwnerInv, Answers, UNCHANGED <<thread, store, tx>>,
         Handled.kind \in DataKinds, Handled.fits,
         Handled.kind = "proveQueryMany" => ~Handled.useTx,
         NEW code, NEW seen, Reply(code, seen),
         code = Promise!CodeIn(Handled, View(Handled)),
         seen = Promise!SeenIn(Handled, View(Handled)),
         Handled.kind \in Reads \/ tx = Missing \/ InTx(Handled),
         Promise!After(Handled, View(Handled)) = View(Handled)
  PROVE  Promise!TakeEffect(Head(queue).from)
  <1>1. OverStore' = OverStore /\ Working' = Working
    BY DEF OverStore, Working
  <1>2. InTx(Handled) => tx' # Missing /\ View(Handled) = OverStore
    BY DEF InTx, View
  <1>3. ~InTx(Handled) => View(Handled) = store
    BY DEF View
  <1> QED
    BY <1>1, <1>2, <1>3, DataTakesEffect

(* A handler that answers a call on data with an error.                    *)
LEMMA ErrorTakesEffect ==
  ASSUME OwnerInv, Answers, UNCHANGED <<thread, store, tx>>,
         Handled.kind \in DataKinds \ UnwrapErrors, Reply("error", Missing)
  PROVE  Promise!TakeEffect(Head(queue).from)
  <1>1. /\ calls[Head(queue).from] # Missing
        /\ calls[Head(queue).from].phase = "asked"
        /\ calls[Head(queue).from].request = Handled
        /\ ~Ended
    BY HeadOfQueue DEF OwnerInv, Answers, Ended
  <1>2. Promise!Answer(Head(queue).from, "error", Missing)
    BY <1>1, SameCalls DEF Promise!Answer, Reply
  <1>3. Promise!Refuse(Head(queue).from, Handled)
    BY <1>2, SameCalls DEF Promise!Refuse, OverStore, Ended
  <1> QED
    BY <1>1, <1>3 DEF Promise!TakeEffect

(* A handler of a call on the transaction, or on the database as a whole.  *)
LEMMA TransactionTakesEffect ==
  ASSUME OwnerInv, Answers, Handled.kind \in TransactionCalls,
         NEW code, Reply(code, Missing), code = Promise!CodeIn(Handled, store),
         store' = IF Handled.kind = "commit" THEN Working ELSE store,
         Handled.kind \in {"commit", "rollback"} => Working # Missing,
         Ended' = (Handled.kind = "close"),
         Working' = CASE Handled.kind = "start" -> store
                      [] Handled.kind \in {"commit", "rollback", "abort", "close"} -> Missing
                      [] OTHER -> Working
  PROVE  Promise!TakeEffect(Head(queue).from)
  <1>1. /\ calls[Head(queue).from] # Missing
        /\ calls[Head(queue).from].phase = "asked"
        /\ calls[Head(queue).from].request = Handled
        /\ ~Ended
    BY HeadOfQueue DEF OwnerInv, Answers, Ended
  <1>2. Promise!Answer(Head(queue).from, code, Missing)
    BY <1>1, SameCalls DEF Promise!Answer, Reply
  <1>3. Promise!Transact(Head(queue).from, Handled)
    BY <1>2, SameCalls DEF Promise!Transact, Working
  <1> QED
    BY <1>1, <1>3 DEF Promise!TakeEffect

(* Every message that is answered is a call that takes effect.             *)
LEMMA HandlerTakesEffect ==
  ASSUME DriveInv, GuardedDirectCalls, HandleMessage, ~Panic
  PROVE  Promise!TakeEffect(Head(queue).from)
  <1> USE DEF TreeWrites, Reads, DataKinds, Guarded
  <1>0. OwnerInv /\ TypeOK
    BY DEF DriveInv, OwnerInv
  <1>a. Ended = FALSE /\ (UNCHANGED thread => Ended' = Ended)
    BY <1>0, HandlerForms DEF Answers, Ended
  <1>b. Answers /\ (Writes \/ Leaves \/ Changes) /\ Handled \in Requests
    BY <1>0, HandlerForms, HeadOfQueue DEF Answers
  <1>d. Handled.kind \notin UnwrapArguments \/ ~MustPanic(Handled) => Handled.fits
    BY <1>b, RequestType DEF MustPanic
  <1>c. /\ store \in Stores /\ View(Handled) \in Stores
        /\ Working # Missing <=> tx # Missing
    BY <1>0, WorkingType, ViewType
  <1>1. CASE RefuseReadOnly
    BY <1>0, <1>1, <1>b, ErrorTakesEffect DEF RefuseReadOnly, Handles, Handled, UnwrapErrors
  <1>2. CASE Insert
    <2>1. Handled.kind = "insert" /\ ~ReadOnly(Handled)
      BY <1>2 DEF Insert, Handles, Handled
    <2>2. Handled.key \in Keys /\ Handled.value \in Values /\ Handled.fits
      BY <2>1, <1>b, <1>d, RequestType DEF UnwrapArguments
    <2>3. Write(Handled, {Handled.key}, Handled.value) /\ Reply("ok", Missing) /\ UNCHANGED thread
      BY <1>2 DEF Insert
    <2>4. \A f \in Stores :
            /\ Promise!After(Handled, f)
                 = [k \in Keys |-> IF k \in {Handled.key} THEN Handled.value ELSE f[k]]
            /\ "ok" = Promise!CodeIn(Handled, f)
      BY <2>1, <2>2 DEF Promise!After, Promise!CodeIn, Stores
    <2>5. Writes
      BY <2>1, <2>2, <2>3 DEF Writes
    <2> QED
      BY <1>b, <2>2, <2>3, <2>4, <2>5, WriteTakesEffect
  <1>3. CASE InsertIfNotExists
    <2>1. Handled.kind = "insertIfNotExists" /\ ~ReadOnly(Handled) /\ UNCHANGED thread
      BY <1>3 DEF InsertIfNotExists, Handles, Handled
    <2>2. Handled.key \in Keys /\ Handled.value \in Values /\ Handled.fits
      BY <2>1, <1>b, <1>d, RequestType DEF UnwrapArguments
    <2>3. CASE View(Handled)[Handled.key] = Missing
      <3>1. Write(Handled, {Handled.key}, Handled.value) /\ Reply("yes", Missing)
        BY <1>3, <2>3 DEF InsertIfNotExists
      <3>2. \A f \in Stores : f = View(Handled) =>
              /\ Promise!After(Handled, f)
                   = [k \in Keys |-> IF k \in {Handled.key} THEN Handled.value ELSE f[k]]
              /\ "yes" = Promise!CodeIn(Handled, f)
        BY <2>1, <2>2, <2>3 DEF Promise!After, Promise!CodeIn, Stores
      <3>3. Writes
        BY <2>1, <2>2, <3>1 DEF Writes
      <3> QED
        BY <1>b, <2>2, <3>1, <3>2, <3>3, WriteTakesEffect
    <2>4. CASE View(Handled)[Handled.key] # Missing
      <3>1. UNCHANGED <<store, tx>> /\ Reply("no", Missing)
        BY <1>3, <2>4 DEF InsertIfNotExists
      <3>2. /\ Promise!After(Handled, View(Handled)) = View(Handled)
            /\ "no" = Promise!CodeIn(Handled, View(Handled))
            /\ Missing = Promise!SeenIn(Handled, View(Handled))
        <4>1. \A f \in Stores : f[Handled.key] # Missing =>
                /\ Promise!After(Handled, f) = f
                /\ "no" = Promise!CodeIn(Handled, f)
                /\ Missing = Promise!SeenIn(Handled, f)
          BY <2>1, <2>2 DEF Promise!After, Promise!CodeIn, Promise!SeenIn, Stores
        <4> QED
          BY <2>4, <1>c, <4>1
      <3>3. tx = Missing \/ InTx(Handled)
        BY <2>1 DEF ReadOnly, InTx
      <3> QED
        BY <1>0, <1>b, <2>1, <2>2, <3>1, <3>2, <3>3, ReadTakesEffect
    <2> QED
      BY <2>3, <2>4
  <1>4. CASE Delete
    <2>1. Handled.kind \in {"delete", "deleteAux"} /\ ~ReadOnly(Handled)
      BY <1>4 DEF Delete, Handles, Handled
    <2>2. Handled.key \in Keys /\ Handled.fits
      BY <1>4, <2>1, <1>b, <1>d, RequestType DEF Delete
    <2>3. Write(Handled, {Handled.key}, Missing) /\ Reply("ok", Missing) /\ UNCHANGED thread
      BY <1>4 DEF Delete
    <2>4. \A f \in Stores :
            /\ Promise!After(Handled, f)
                 = [k \in Keys |-> IF k \in {Handled.key} THEN Missing ELSE f[k]]
            /\ "ok" = Promise!CodeIn(Handled, f)
      BY <2>1, <2>2 DEF Promise!After, Promise!CodeIn, Stores
    <2>5. Writes
      BY <2>1, <2>2, <2>3 DEF Writes
    <2> QED
      BY <1>b, <2>2, <2>3, <2>4, <2>5, WriteTakesEffect
  <1>5. CASE PutAux
    <2>1. Handled.kind = "putAux"
      BY <1>5 DEF PutAux, Handles, Handled
    <2>2. Handled.key \in Keys /\ Handled.value \in Values /\ Handled.fits
      BY <2>1, <1>b, <1>d, RequestType DEF UnwrapArguments
    <2>3. Write(Handled, {Handled.key}, Handled.value) /\ Reply("ok", Missing) /\ UNCHANGED thread
      BY <1>5 DEF PutAux
    <2>4. \A f \in Stores :
            /\ Promise!After(Handled, f)
                 = [k \in Keys |-> IF k \in {Handled.key} THEN Handled.value ELSE f[k]]
            /\ "ok" = Promise!CodeIn(Handled, f)
      BY <2>1, <2>2 DEF Promise!After, Promise!CodeIn, Stores
    <2>5. Writes
      BY <2>1, <2>2, <2>3 DEF Writes
    <2> QED
      BY <1>b, <2>2, <2>3, <2>4, <2>5, WriteTakesEffect
  <1>6. CASE Apply
    <2>1. Handled.kind \in {"apply", "createStructure"}
      BY <1>6 DEF Apply, Handles, Handled
    <2>2. TreeKeys \in SUBSET Keys /\ Handled.value \in Values /\ Handled.fits
      BY <1>6, <2>1, <1>b, <1>d, RequestType DEF TreeKeys, Apply
    <2>3. Write(Handled, TreeKeys, Handled.value) /\ Reply("ok", Missing) /\ UNCHANGED thread
      BY <1>6 DEF Apply
    <2>4. \A f \in Stores :
            /\ Promise!After(Handled, f)
                 = [k \in Keys |-> IF k \in TreeKeys THEN Handled.value ELSE f[k]]
            /\ "ok" = Promise!CodeIn(Handled, f)
      BY <2>1, SameCalls DEF Promise!After, Promise!CodeIn
    <2>5. Writes
      BY <2>1, <2>2, <2>3 DEF Writes
    <2> QED
      BY <1>b, <2>2, <2>3, <2>4, <2>5, WriteTakesEffect
  <1>7. CASE Get
    <2>1. /\ Handled.kind \in {"get", "getAux"} /\ UNCHANGED <<thread, store, tx>>
          /\ Reply("ok", View(Handled)[Handled.key]) /\ Handled.fits
      BY <1>7, <1>d DEF Get, Handles, Handled, UnwrapArguments
    <2>2. /\ Promise!After(Handled, View(Handled)) = View(Handled)
          /\ "ok" = Promise!CodeIn(Handled, View(Handled))
          /\ View(Handled)[Handled.key] = Promise!SeenIn(Handled, View(Handled))
      BY <2>1 DEF Promise!After, Promise!CodeIn, Promise!SeenIn
    <2> QED
      BY <1>0, <1>b, <2>1, <2>2, ReadTakesEffect
  <1>8. CASE Query
    <2>1. /\ Handled.kind = "query" /\ UNCHANGED <<thread, store, tx>>
          /\ Reply("ok", [k \in TreeKeys |-> View(Handled)[k]]) /\ Handled.fits
      BY <1>8, <1>d DEF Query, Handles, Handled
    <2>2. /\ Promise!After(Handled, View(Handled)) = View(Handled)
          /\ "ok" = Promise!CodeIn(Handled, View(Handled))
          /\ [k \in TreeKeys |-> View(Handled)[k]] = Promise!SeenIn(Handled, View(Handled))
      BY <2>1, SameCalls DEF Promise!After, Promise!CodeIn, Promise!SeenIn
    <2> QED
      BY <1>0, <1>b, <2>1, <2>2, ReadTakesEffect
  <1>9. CASE ProveQueryMany
    <2>1. Handled.kind = "proveQueryMany" /\ UNCHANGED <<thread, store, tx>> /\ Handled.fits
      BY <1>9, <1>d DEF ProveQueryMany, Handles, Handled, UnwrapArguments
    <2>2. CASE Handled.useTx
      BY <1>0, <1>9, <1>b, <2>1, <2>2, ErrorTakesEffect DEF ProveQueryMany, UnwrapErrors
    <2>3. CASE ~Handled.useTx
      <3>1. View(Handled) = store /\ Reply("ok", [k \in TreeKeys |-> store[k]])
        BY <1>9, <2>3 DEF ProveQueryMany, View, InTx
      <3>2. /\ Promise!After(Handled, store) = store
            /\ "ok" = Promise!CodeIn(Handled, store)
            /\ [k \in TreeKeys |-> store[k]] = Promise!SeenIn(Handled, store)
        BY <2>1, SameCalls DEF Promise!After, Promise!CodeIn, Promise!SeenIn
      <3> QED
        BY <1>0, <1>b, <2>1, <2>3, <3>1, <3>2, ReadTakesEffect
    <2> QED
      BY <2>2, <2>3
  <1>10. CASE GroveDbError
    BY <1>0, <1>10, <1>b, ErrorTakesEffect DEF GroveDbError, Handles, Handled
  <1>11. ASSUME IsTransactionStarted \/ Flush PROVE Promise!TakeEffect(Head(queue).from)
    <2>1. /\ Handled.kind \in {"isStarted", "flush"} /\ UNCHANGED <<thread, store, tx>>
          /\ Reply(Promise!CodeIn(Handled, store), Missing)
      BY <1>11, <1>c DEF IsTransactionStarted, Flush, Handles, Handled, Promise!CodeIn, Working
    <2>2. Working' = Working /\ Handled.kind \in TransactionCalls
      BY <2>1 DEF Working, OverStore, TransactionCalls
    <2> QED
      BY <1>0, <1>a, <1>b, <2>1, <2>2, TransactionTakesEffect
  <1>12. CASE StartTransaction
    <2>1. /\ Handled.kind = "start" /\ store' = store /\ tx' = NewTransaction /\ UNCHANGED thread
          /\ Reply("ok", Missing)
      BY <1>12 DEF StartTransaction, Handles, Handled
    <2>2. "ok" = Promise!CodeIn(Handled, store) /\ Handled.kind \in TransactionCalls
      BY <2>1 DEF Promise!CodeIn, TransactionCalls
    <2>3. NewTransaction.written = {}
      BY DEF NewTransaction
    <2>4. OverStore' = [k \in Keys |-> store[k]]
      BY <2>1, <2>3 DEF OverStore
    <2>5. OverStore' = store
      <3>1. store = [k \in Keys |-> store[k]]
        BY <1>c DEF Stores
      <3> QED
        BY <2>4, <3>1
    <2>6. tx' # Missing
      BY <1>0, <2>1, HandlerEffect DEF InTransactionAfter
    <2>7. Working' = store
      BY <2>5, <2>6 DEF Working
    <2> QED
      BY <1>0, <1>a, <1>b, <2>1, <2>2, <2>7, TransactionTakesEffect
  <1>13. CASE Commit
    <2>1. /\ Handled.kind = "commit" /\ store' = OverStore /\ tx' = Missing /\ tx # Missing
          /\ Reply("ok", Missing) /\ UNCHANGED thread
      BY <1>13 DEF Commit, GroveDbCommit, MustPanic, Handles, Handled
    <2>2. "ok" = Promise!CodeIn(Handled, store) /\ Handled.kind \in TransactionCalls
      BY <2>1 DEF Promise!CodeIn, TransactionCalls
    <2>3. Working' = Missing /\ Working = OverStore /\ Working # Missing
      BY <1>c, <2>1 DEF Working
    <2> QED
      BY <1>0, <1>a, <1>b, <2>1, <2>2, <2>3, TransactionTakesEffect
  <1>14. ASSUME Discard \/ Close PROVE Promise!TakeEffect(Head(queue).from)
    <2>1. /\ Handled.kind \in {"rollback", "abort", "close"} /\ store' = store /\ tx' = Missing
          /\ Handled.kind = "rollback" => tx # Missing
          /\ Reply("ok", Missing)
          /\ IF Handled.kind = "close" THEN thread' = "closed" ELSE UNCHANGED thread
      BY <1>14 DEF Discard, Close, MustPanic, Handles, Handled
    <2>2. "ok" = Promise!CodeIn(Handled, store) /\ Handled.kind \in TransactionCalls
      BY <2>1 DEF Promise!CodeIn, TransactionCalls
    <2>3. Working' = Missing /\ (Handled.kind = "rollback" => Working # Missing)
      BY <1>c, <2>1 DEF Working
    <2>4. Ended' = (Handled.kind = "close")
      BY <1>a, <2>1 DEF Ended
    <2> QED
      BY <1>0, <1>b, <2>1, <2>2, <2>3, <2>4, TransactionTakesEffect
  <1> HIDE DEF TreeWrites, Reads, DataKinds, Guarded
  <1> QED
    BY <1>1, <1>2, <1>3, <1>4, <1>5, <1>6, <1>7, <1>8, <1>9, <1>10, <1>11, <1>12, <1>13,
       <1>14 DEF HandleMessage

(* Every step of the thread and its callers is one of the store with one   *)
(* transaction, or changes nothing of it.                                  *)
LEMMA StepIsStoreStep ==
  ASSUME DriveInv, GuardedDirectCalls, [Next]_driveVars
  PROVE  [Promise!StoreNext]_(Promise!storeVars)
  <1>1. CASE HandleMessage /\ ~Panic
    <2>1. Head(queue).from \in Callers
      BY <1>1, HandlerForms, HeadOfQueue DEF Answers, DriveInv, OwnerInv
    <2> QED
      BY <1>1, <2>1, HandlerTakesEffect DEF Promise!StoreNext
  <1>5. CASE Panic
    <2>1. Promise!End
      BY <1>5 DEF Panic, Handles, Ended, Promise!End
    <2> QED
      BY <2>1 DEF Promise!StoreNext
  <1>6. CASE Open
    <2>1. /\ UNCHANGED <<store, tx, calls>> /\ OverStore' = OverStore /\ tx = Missing
          /\ Ended = FALSE
      BY <1>6 DEF Open, OverStore, Ended, DriveInv, NothingBegun
    <2>2. CASE thread' = "running"
      BY <1>6, <2>1, <2>2 DEF Promise!storeVars, Ended
    <2>3. CASE thread' = "panicked"
      <3>1. Promise!End
        BY <1>6, <2>1, <2>3 DEF Promise!End, Ended
      <3> QED
        BY <3>1 DEF Promise!StoreNext
    <2> QED
      BY <1>6, <2>2, <2>3 DEF Open
  <1>2. ASSUME NEW c \in Callers, Send(c) PROVE Promise!Call(c)
    <2>1. UNCHANGED <<store, tx>> /\ OverStore' = OverStore /\ Ended' = Ended
      BY <1>2 DEF Send, OverStore, Ended
    <2> QED
      BY <1>2, <2>1, SameCalls DEF Send, Promise!Call
  <1>3. ASSUME NEW c \in Callers, Receive(c) PROVE Promise!Return(c)
    <2>1. UNCHANGED <<store, tx>> /\ OverStore' = OverStore /\ Ended' = Ended
      BY <1>3 DEF Receive, OverStore, Ended
    <2> QED
      BY <1>3, <2>1 DEF Receive, Promise!Return
  <1>4. CASE UNCHANGED driveVars
    BY <1>4 DEF driveVars, Promise!storeVars, OverStore, Ended
  <1> QED
    BY <1>1, <1>2, <1>3, <1>4, <1>5, <1>6 DEF Next, Promise!StoreNext
-----------------------------------------------------------------------------
(* Behind the guard the thread implements the store with one isolated      *)
(* transaction: every answer is that of one instant, reads outside see only *)
(* what was committed, and a commit adds what its transaction wrote.        *)
THEOREM ThreadImplementsStore ==
  ASSUME GuardedDirectCalls
  PROVE  Spec => ImplementsTxStore
  <1>1. Init => Promise!StoreInit
    BY DEF Init, Promise!StoreInit, Ended
  <1>2. DriveInv /\ [Next]_driveVars => DriveInv'
    BY StepDriveInv
  <1>3. DriveInv /\ [Next]_driveVars => [Promise!StoreNext]_(Promise!storeVars)
    BY StepIsStoreStep
  <1> QED
    BY <1>1, <1>2, <1>3, InitDriveInv, PTL DEF Spec, ImplementsTxStore, Promise!StoreSpec
=============================================================================
