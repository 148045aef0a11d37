---------------------------- MODULE ContractStore ----------------------------
(***************************************************************************)
(* One data contract (drive/src/drive/contract/mod.rs): its element, the   *)
(* trees of its document types, and the cache of parsed contracts, which   *)
(* is in memory and knows no transactions.                                 *)
(***************************************************************************)
EXTENDS Naturals, FiniteSets, TLC

CONSTANTS Contracts, \* [readonly, keepsHistory, defaults, types]
          Documents,
          Missing,
          RemovesTypes, \* callers apply contracts that lack earlier types
          RollsBack     \* callers roll transactions back

ASSUME ContractsAssumption ==
  /\ Missing \notin Contracts
  /\ \A c \in Contracts :
       /\ c.readonly \in BOOLEAN /\ c.keepsHistory \in BOOLEAN
       /\ \A t \in DOMAIN c.types : DOMAIN c.types[t] = {"indices", "settings"}
ASSUME CallersAssumption == RemovesTypes \in BOOLEAN /\ RollsBack \in BOOLEAN

VARIABLES db,        \* in the open transaction: [contract, trees]
          committed, \* without it
          open,      \* a transaction is open
          cache      \* cached_contracts: a contract or Missing

contractVars == <<db, committed, open, cache>>

Types == UNION {DOMAIN c.types : c \in Contracts}
Stored(d) == d.contract # Missing
TypesOf(c) == DOMAIN c.types

(* The tree of a document type: its top level indices, its documents, and, *)
(* for the record, with which settings it was made first.                  *)
NewTree(type) == [indices |-> type.indices, documents |-> {}, settings |-> type.settings]

Init ==
  /\ db = [contract |-> Missing, trees |-> <<>>]
  /\ committed = db
  /\ open = FALSE
  /\ cache = Missing
-----------------------------------------------------------------------------
(* The contract at key 0 is an item; if it keeps history there is a tree,  *)
(* and apply_contract takes it for a contract that does not exist.         *)
AlreadyExists == Stored(db) /\ ~db.contract.keepsHistory

\* Fault: settings of a document type may change.
UpdateFailsOnContract(old, c) ==
  \/ old.readonly \/ c.readonly
  \/ old.keepsHistory # c.keepsHistory
  \/ old.defaults # c.defaults

\* Fault: a contract becomes final only when it changes to readonly.
UpdateFailsOnNew(old, c) ==
  \/ c.readonly /\ ~old.readonly
  \/ old.keepsHistory # c.keepsHistory
  \/ old.defaults # c.defaults
  \/ \E t \in TypesOf(old) \cap TypesOf(c) : old.types[t].settings # c.types[t].settings

UpdateFails(old, c) ==
  \/ old.readonly \/ c.readonly
  \/ old.keepsHistory # c.keepsHistory
  \/ old.defaults # c.defaults
  \/ \E t \in TypesOf(old) \cap TypesOf(c) : old.types[t].settings # c.types[t].settings

(* Inserted: all trees are new, whatever was there. *)
InsertedTrees(c) == [t \in TypesOf(c) |-> NewTree(c.types[t])]

\* Fault: the trees are those of the new contract only.
ReplacedTrees(old, c) ==
  [t \in TypesOf(c) |->
     IF t \in TypesOf(old) THEN [db.trees[t] EXCEPT !.indices = c.types[t].indices]
     ELSE NewTree(c.types[t])]

\* Fault: the trees of a type that is there get no new indices.
IndicesKept(old, c) ==
  [t \in TypesOf(c) \ TypesOf(old) |-> NewTree(c.types[t])] @@ db.trees

\* Fault: the trees of a type that is there are inserted again.
TypesInserted(old, c) == InsertedTrees(c) @@ db.trees

(* A tree inserted where there may be one: it is empty, but keeps for the  *)
(* record the settings of the first.                                       *)
InsertedAgain(t, type) ==
  IF t \in DOMAIN db.trees THEN [NewTree(type) EXCEPT !.settings = db.trees[t].settings]
  ELSE NewTree(type)

(* Updated: index trees are added to types of the old contract, the others *)
(* are inserted, and those the new contract does not have stay.            *)
UpdatedTrees(old, c) ==
  [t \in TypesOf(c) \cup DOMAIN db.trees |->
     IF t \notin TypesOf(c) THEN db.trees[t]
     ELSE IF t \in TypesOf(old)
     THEN [db.trees[t] EXCEPT !.indices = @ \cup c.types[t].indices]
     ELSE InsertedAgain(t, c.types[t])]

Write(d) == db' = d /\ committed' = IF open THEN committed ELSE d

InsertContract(c) ==
  /\ ~AlreadyExists
  /\ Write([contract |-> c, trees |-> InsertedTrees(c)])
  /\ UNCHANGED <<open, cache>>

(* The same bytes again change nothing. *)
UpdateContract(c) ==
  /\ AlreadyExists
  /\ c # db.contract
  /\ RemovesTypes \/ TypesOf(db.contract) \subseteq TypesOf(c)
  /\ ~UpdateFails(db.contract, c)
  /\ Write([contract |-> c, trees |-> UpdatedTrees(db.contract, c)])
  /\ UNCHANGED <<open, cache>>

(* get_contract when the cache does not answer: fetched and put there.     *)
(* Without a contract, and for one that keeps history, it returns an error.*)
GetContract(inTransaction) ==
  LET view == IF inTransaction THEN db ELSE committed
  IN  /\ inTransaction => open
      /\ cache = Missing
      /\ Stored(view) /\ ~view.contract.keepsHistory
      /\ cache' = view.contract
      /\ UNCHANGED <<db, committed, open>>

(* The cache holds 200 contracts, and others push this one out. *)
Evict ==
  /\ cache # Missing
  /\ cache' = Missing
  /\ UNCHANGED <<db, committed, open>>

(* A document of a type the contract has. *)
AddDocument(t, d) ==
  /\ Stored(db)
  /\ t \in TypesOf(db.contract)
  /\ Write([db EXCEPT !.trees[t].documents = @ \cup {d}])
  /\ UNCHANGED <<open, cache>>
-----------------------------------------------------------------------------
StartTransaction == ~open /\ open' = TRUE /\ UNCHANGED <<db, committed, cache>>

\* Fault: the transaction is closed without its writes.
CommitNothing == open /\ open' = FALSE /\ UNCHANGED <<db, committed, cache>>

CommitTransaction ==
  /\ open
  /\ open' = FALSE
  /\ committed' = db
  /\ UNCHANGED <<db, cache>>

RollbackTransaction ==
  /\ open /\ RollsBack
  /\ open' = FALSE
  /\ db' = committed
  /\ UNCHANGED <<committed, cache>>

(* The process ends: the memory is lost, and the transaction too. *)
Restart ==
  /\ open => RollsBack
  /\ open' = FALSE
  /\ db' = committed
  /\ cache' = Missing
  /\ UNCHANGED committed

ApplyContract(c) == InsertContract(c) \/ UpdateContract(c)

Next ==
  \/ \E c \in Contracts : ApplyContract(c)
  \/ \E t \in Types, d \in Documents : AddDocument(t, d)
  \/ \E inTransaction \in BOOLEAN : GetContract(inTransaction)
  \/ Evict \/ StartTransaction \/ CommitTransaction \/ RollbackTransaction \/ Restart

Spec == Init /\ [][Next]_contractVars
-----------------------------------------------------------------------------
(* Every variable holds a value of its type, and where no transaction is    *)
(* open there is one view.                                                  *)
TypeOK ==
  /\ \A d \in {db, committed} :
       /\ d.contract \in Contracts \cup {Missing}
       /\ DOMAIN d.trees \subseteq Types
       /\ \A t \in DOMAIN d.trees : d.trees[t].documents \subseteq Documents
  /\ ~open => db = committed
  /\ cache \in Contracts \cup {Missing}

(* What documents and queries rely on: each type of the stored contract has *)
(* its tree and a tree for each of its top level indices, through any       *)
(* number of updates.                                                       *)
TreesOfContract ==
  \A d \in {db, committed} : Stored(d) =>
    \A t \in TypesOf(d.contract) :
      t \in DOMAIN d.trees /\ d.contract.types[t].indices \subseteq d.trees[t].indices

(* "contract can not change whether a specific document type is mutable",   *)
(* or keeps history: a type has the settings it was made with, through any  *)
(* number of updates.                                                       *)
TypeSettingsNeverChange ==
  Stored(db) => \A t \in TypesOf(db.contract) \cap DOMAIN db.trees :
                  db.contract.types[t].settings = db.trees[t].settings

(* Applying a contract never takes documents away.                          *)
DocumentsKept ==
  [][(open' = open /\ Stored(db)) =>
       \A t \in DOMAIN db.trees : /\ t \in DOMAIN db'.trees
                                  /\ db.trees[t].documents \subseteq db'.trees[t].documents
    ]_contractVars

(* "if the contract is not mutable update_contract will return an error"    *)
(* (contract/mod.rs): a readonly contract is never replaced, and no         *)
(* contract becomes readonly, except that its first insertion is undone.    *)
ReadonlyNeverReplaced ==
  [][(open' = open /\ Stored(db)) =>
       /\ db.contract.readonly => db'.contract = db.contract
       /\ db'.contract.readonly => db'.contract = db.contract]_contractVars

(* The cache may be behind the database, but every tree that a cached       *)
(* contract leads a query into is there, unless the transaction that made   *)
(* the tree was rolled back: nothing else, neither an update nor a fetch    *)
(* outside the transaction, brings a contract and trees that do not match.  *)
CacheLeads ==
  cache # Missing =>
    \A t \in TypesOf(cache) :
      t \in DOMAIN db.trees /\ cache.types[t].indices \subseteq db.trees[t].indices

RolledBack == open /\ ~open' /\ committed' = committed

CachedTreesExist == [][CacheLeads => CacheLeads' \/ RolledBack]_contractVars
=============================================================================
