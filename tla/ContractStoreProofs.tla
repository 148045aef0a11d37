------------------------- MODULE ContractStoreProofs -------------------------
(***************************************************************************)
(* Theorems about ContractStore: its types and trees for all callers, and  *)
(* what holds only when contracts have no history, types stay, or nothing  *)
(* is rolled back.                                                         *)
(***************************************************************************)
EXTENDS ContractStore, TLAPS

NoHistory == \A c \in Contracts : ~c.keepsHistory

IsTree(r) == DOMAIN r = {"indices", "documents", "settings"}

(* The trees lead wherever a contract says. *)
Leads(c, d) ==
  \A t \in TypesOf(c) : t \in DOMAIN d.trees /\ c.types[t].indices \subseteq d.trees[t].indices

(* One view of the database. *)
ViewInv(d) ==
  /\ DOMAIN d = {"contract", "trees"}
  /\ d.contract \in Contracts \cup {Missing}
  /\ DOMAIN d.trees \subseteq Types
  /\ \A t \in DOMAIN d.trees : IsTree(d.trees[t]) /\ d.trees[t].documents \subseteq Documents
  /\ Stored(d) => Leads(d.contract, d)

(* The parts that do not depend on the callers. *)
ContractInv ==
  /\ TypeOK
  /\ ViewInv(db)
  /\ ViewInv(committed)

(* While types stay, the trees are those of the contract. *)
SettledView(d) ==
  /\ DOMAIN d.trees = IF Stored(d) THEN TypesOf(d.contract) ELSE {}
  /\ \A t \in DOMAIN d.trees : d.contract.types[t].settings = d.trees[t].settings

(* Trees and their indices become more. *)
Grown(e, d) ==
  \A t \in DOMAIN e.trees : t \in DOMAIN d.trees /\ e.trees[t].indices \subseteq d.trees[t].indices
-----------------------------------------------------------------------------
(* The initial state satisfies the invariants. *)
LEMMA InitContractInv ==
  Init => ContractInv /\ SettledView(db) /\ SettledView(committed) /\ Grown(committed, db)
  <1> SUFFICES ASSUME Init
               PROVE  ContractInv /\ SettledView(db) /\ SettledView(committed)
                      /\ Grown(committed, db)
    OBVIOUS
  <1>1. db.trees = <<>> /\ DOMAIN db.trees = {} /\ ~Stored(db)
    BY DEF Init, Stored
  <1>2. DOMAIN db = {"contract", "trees"}
    BY DEF Init
  <1> QED
    BY <1>1, <1>2 DEF Init, ContractInv, TypeOK, ViewInv, SettledView, Grown, Stored

(* A contract that is written is not Missing. *)
LEMMA ContractIsNotMissing ==
  ASSUME NEW c \in Contracts
  PROVE  /\ c # Missing
         /\ TypesOf(c) \subseteq Types
  BY ContractsAssumption DEF Types, TypesOf

(* Insertion makes a view in order. *)
LEMMA InsertMakesView ==
  ASSUME NEW c \in Contracts, InsertContract(c)
  PROVE  ViewInv(db') /\ SettledView(db')
  <1>1. db' = [contract |-> c, trees |-> InsertedTrees(c)]
    BY DEF InsertContract, Write
  <1>2. DOMAIN db'.trees = TypesOf(c) /\ db'.contract = c
    BY <1>1 DEF InsertedTrees
  <1>3. ASSUME NEW t \in TypesOf(c)
        PROVE  db'.trees[t] = [indices |-> c.types[t].indices, documents |-> {},
                               settings |-> c.types[t].settings]
    BY <1>1 DEF InsertedTrees, NewTree
  <1> QED
    BY <1>1, <1>2, <1>3, ContractIsNotMissing
       DEF ViewInv, SettledView, IsTree, Leads, Stored

(* What an update makes of each tree. *)
LEMMA UpdatedTree ==
  ASSUME ViewInv(db), NEW c \in Contracts, UpdateContract(c)
  PROVE  /\ DOMAIN db' = {"contract", "trees"}
         /\ db'.contract = c
         /\ DOMAIN db'.trees = TypesOf(c) \cup DOMAIN db.trees
         /\ \A t \in DOMAIN db.trees \ TypesOf(c) : db'.trees[t] = db.trees[t]
         /\ \A t \in TypesOf(c) :
              /\ IsTree(db'.trees[t])
              /\ IF t \in TypesOf(db.contract)
                 THEN /\ db'.trees[t].indices = db.trees[t].indices \cup c.types[t].indices
                      /\ db'.trees[t].documents = db.trees[t].documents
                      /\ db'.trees[t].settings = db.trees[t].settings
                 ELSE /\ db'.trees[t].indices = c.types[t].indices
                      /\ db'.trees[t].documents = {}
                      /\ t \notin DOMAIN db.trees =>
                           db'.trees[t].settings = c.types[t].settings
  <1>1. db' = [contract |-> c, trees |-> UpdatedTrees(db.contract, c)]
    BY DEF UpdateContract, Write
  <1>2. \A t \in TypesOf(db.contract) : t \in DOMAIN db.trees /\ IsTree(db.trees[t])
    BY DEF ViewInv, Leads, UpdateContract, AlreadyExists
  <1>3. ASSUME NEW t \in TypesOf(c), t \in TypesOf(db.contract)
        PROVE  /\ IsTree(db'.trees[t])
               /\ db'.trees[t].indices = db.trees[t].indices \cup c.types[t].indices
               /\ db'.trees[t].documents = db.trees[t].documents
               /\ db'.trees[t].settings = db.trees[t].settings
    BY <1>1, <1>2, <1>3 DEF UpdatedTrees, IsTree
  <1>4. ASSUME NEW t \in TypesOf(c), t \notin TypesOf(db.contract)
        PROVE  /\ IsTree(db'.trees[t])
               /\ db'.trees[t].indices = c.types[t].indices
               /\ db'.trees[t].documents = {}
               /\ t \notin DOMAIN db.trees => db'.trees[t].settings = c.types[t].settings
    BY <1>1, <1>4 DEF UpdatedTrees, InsertedAgain, NewTree, IsTree
  <1>5. \A t \in DOMAIN db.trees \ TypesOf(c) : db'.trees[t] = db.trees[t]
    BY <1>1 DEF UpdatedTrees
  <1>6. DOMAIN db'.trees = TypesOf(c) \cup DOMAIN db.trees
        /\ DOMAIN db' = {"contract", "trees"}
        /\ db'.contract = c
    BY <1>1 DEF UpdatedTrees
  <1> QED
    BY <1>3, <1>4, <1>5, <1>6

(* An update makes a view in order. *)
LEMMA UpdateMakesView ==
  ASSUME ViewInv(db), NEW c \in Contracts, UpdateContract(c)
  PROVE  ViewInv(db')
  <1>1. DOMAIN db'.trees = TypesOf(c) \cup DOMAIN db.trees /\ db'.contract = c
    BY UpdatedTree
  <1>2. ASSUME NEW t \in DOMAIN db'.trees
        PROVE  /\ IsTree(db'.trees[t])
               /\ db'.trees[t].documents \subseteq Documents
               /\ t \in TypesOf(c) => c.types[t].indices \subseteq db'.trees[t].indices
    <2>1. CASE t \in TypesOf(c) \cap TypesOf(db.contract)
      <3>1. t \in DOMAIN db.trees /\ db.trees[t].documents \subseteq Documents
        BY <2>1 DEF ViewInv, Leads, UpdateContract, AlreadyExists
      <3> QED
        BY <2>1, <3>1, UpdatedTree DEF IsTree
    <2>2. CASE t \in TypesOf(c) \ TypesOf(db.contract)
      BY <2>2, UpdatedTree DEF IsTree
    <2>3. CASE t \notin TypesOf(c)
      BY <2>3, <1>1, UpdatedTree DEF ViewInv
    <2> QED
      BY <2>1, <2>2, <2>3
  <1> QED
    BY <1>1, <1>2, UpdatedTree, ContractIsNotMissing DEF ViewInv, Leads

(* While types stay, an update adds to the trees, keeps their documents and *)
(* the settings.                                                            *)
LEMMA UpdateKeepsTrees ==
  ASSUME ~RemovesTypes, ViewInv(db), SettledView(db), NEW c \in Contracts, UpdateContract(c)
  PROVE  /\ SettledView(db')
         /\ \A t \in DOMAIN db.trees : /\ t \in DOMAIN db'.trees
                                       /\ db.trees[t].indices \subseteq db'.trees[t].indices
                                       /\ db.trees[t].documents \subseteq db'.trees[t].documents
  <1>1. Stored(db) /\ TypesOf(db.contract) \subseteq TypesOf(c)
        /\ DOMAIN db.trees = TypesOf(db.contract)
    BY DEF UpdateContract, AlreadyExists, SettledView
  <1>2. DOMAIN db'.trees = TypesOf(c) /\ db'.contract = c
    BY <1>1, UpdatedTree
  <1>3. \A t \in TypesOf(db.contract) : c.types[t].settings = db.trees[t].settings
    BY <1>1 DEF UpdateContract, UpdateFails, SettledView
  <1>4. SettledView(db')
    <2>1. ASSUME NEW t \in TypesOf(c)
          PROVE  c.types[t].settings = db'.trees[t].settings
      <3>1. CASE t \in TypesOf(db.contract)
        BY <3>1, <1>3, UpdatedTree
      <3>2. CASE t \notin TypesOf(db.contract)
        BY <3>2, <1>1, UpdatedTree
      <3> QED
        BY <3>1, <3>2
    <2> QED
      BY <2>1, <1>2, ContractIsNotMissing DEF SettledView, Stored
  <1>5. ASSUME NEW t \in DOMAIN db.trees
        PROVE  /\ t \in DOMAIN db'.trees
               /\ db.trees[t].indices \subseteq db'.trees[t].indices
               /\ db.trees[t].documents \subseteq db'.trees[t].documents
    <2>1. t \in TypesOf(c) \cap TypesOf(db.contract)
      BY <1>1
    <2> QED
      BY <1>2, <2>1, UpdatedTree
  <1> QED
    BY <1>4, <1>5
-----------------------------------------------------------------------------
(* A document that is added only adds to the trees. *)
LEMMA DocumentKeepsTrees ==
  ASSUME ViewInv(db), NEW t \in Types, NEW d \in Documents, AddDocument(t, d)
  PROVE  /\ ViewInv(db')
         /\ db'.contract = db.contract
         /\ DOMAIN db'.trees = DOMAIN db.trees
         /\ \A u \in DOMAIN db.trees : /\ db'.trees[u].indices = db.trees[u].indices
                                       /\ db'.trees[u].settings = db.trees[u].settings
                                       /\ db.trees[u].documents \subseteq db'.trees[u].documents
  <1>1. db' = [db EXCEPT !.trees[t].documents = @ \cup {d}]
    BY DEF AddDocument, Write
  <1>2. t \in DOMAIN db.trees
    BY DEF AddDocument, ViewInv, Leads
  <1>3. DOMAIN db' = {"contract", "trees"} /\ db'.contract = db.contract
        /\ DOMAIN db'.trees = DOMAIN db.trees
    BY <1>1 DEF ViewInv
  <1>4. ASSUME NEW u \in DOMAIN db.trees
        PROVE  /\ IsTree(db'.trees[u])
               /\ db'.trees[u].indices = db.trees[u].indices
               /\ db'.trees[u].settings = db.trees[u].settings
               /\ db.trees[u].documents \subseteq db'.trees[u].documents
               /\ db'.trees[u].documents \subseteq Documents
    <2>1. IsTree(db.trees[u]) /\ db.trees[u].documents \subseteq Documents
      BY DEF ViewInv
    <2>2. CASE u = t
      <3>1. db'.trees[u] = [db.trees[u] EXCEPT !.documents = @ \cup {d}]
        BY <1>1, <1>2, <2>2 DEF ViewInv
      <3> QED
        BY <2>1, <3>1 DEF IsTree
    <2>3. CASE u # t
      <3>1. db'.trees[u] = db.trees[u]
        BY <1>1, <2>3 DEF ViewInv
      <3> QED
        BY <2>1, <3>1
    <2> QED
      BY <2>2, <2>3
  <1> QED
    BY <1>3, <1>4 DEF ViewInv, Leads, Stored

(* The actions that write, whose view the transaction holds, or both views. *)
Writes ==
  \/ \E c \in Contracts : ApplyContract(c)
  \/ \E t \in Types, d \in Documents : AddDocument(t, d)

(* A write makes a view in order, in the transaction or in both views. *)
LEMMA WriteMakesView ==
  ASSUME ContractInv, Writes
  PROVE  /\ ViewInv(db')
         /\ committed' = IF open THEN committed ELSE db'
         /\ UNCHANGED <<open, cache>>
  <1>1. ASSUME NEW c \in Contracts, InsertContract(c) PROVE ViewInv(db')
    BY <1>1, InsertMakesView
  <1>2. ASSUME NEW c \in Contracts, UpdateContract(c) PROVE ViewInv(db')
    BY <1>2, UpdateMakesView DEF ContractInv
  <1>3. ASSUME NEW t \in Types, NEW d \in Documents, AddDocument(t, d) PROVE ViewInv(db')
    BY <1>3, DocumentKeepsTrees DEF ContractInv
  <1>4. committed' = IF open THEN committed ELSE db'
    BY DEF Writes, ApplyContract, InsertContract, UpdateContract, AddDocument, Write
  <1>5. UNCHANGED <<open, cache>>
    BY DEF Writes, ApplyContract, InsertContract, UpdateContract, AddDocument, Write
  <1> QED
    BY <1>1, <1>2, <1>3, <1>4, <1>5 DEF Writes, ApplyContract

(* A view in order is what the type invariant says of it. *)
LEMMA ViewIsTyped ==
  ASSUME NEW d, ViewInv(d)
  PROVE  /\ d.contract \in Contracts \cup {Missing}
         /\ DOMAIN d.trees \subseteq Types
         /\ \A t \in DOMAIN d.trees : d.trees[t].documents \subseteq Documents
  BY DEF ViewInv

(* The other steps leave both views alone, or make one of them the other.   *)
LEMMA OtherSteps ==
  ASSUME ContractInv, [Next]_contractVars, ~Writes
  PROVE  /\ \/ UNCHANGED <<db, committed>>
            \/ db' = committed' /\ db' \in {db, committed}
         /\ ~open' => db' = committed'
         /\ cache' \in {cache, Missing, db.contract, committed.contract}
  <1>1. CASE \E inTransaction \in BOOLEAN : GetContract(inTransaction)
    BY <1>1 DEF ContractInv, TypeOK, GetContract
  <1>2. CASE Evict \/ StartTransaction \/ CommitTransaction \/ RollbackTransaction \/ Restart
                \/ UNCHANGED contractVars
    BY <1>2 DEF ContractInv, TypeOK, contractVars, Evict, StartTransaction, CommitTransaction,
                RollbackTransaction, Restart
  <1> QED
    BY <1>1, <1>2 DEF Next, Writes

(* The invariant is inductive. *)
LEMMA StepContractInv ==
  ASSUME ContractInv, [Next]_contractVars
  PROVE  ContractInv'
  <1>1. CASE Writes
    <2>1. ViewInv(db') /\ ViewInv(committed')
      BY <1>1, WriteMakesView DEF ContractInv
    <2>2. ~open' => db' = committed'
      BY <1>1, WriteMakesView
    <2>3. UNCHANGED cache
      BY <1>1, WriteMakesView
    <2> QED
      BY <2>1, <2>2, <2>3, ViewIsTyped DEF ContractInv, TypeOK
  <1>2. CASE ~Writes
    <2>1. ViewInv(db') /\ ViewInv(committed')
      BY <1>2, OtherSteps DEF ContractInv
    <2>2. cache' \in Contracts \cup {Missing}
      BY <1>2, OtherSteps DEF ContractInv, TypeOK, ViewInv
    <2>3. ~open' => db' = committed'
      BY <1>2, OtherSteps
    <2> QED
      BY <2>1, <2>2, <2>3, ViewIsTyped DEF ContractInv, TypeOK
  <1> QED
    BY <1>1, <1>2

(* Whatever callers do, every variable has its type.                        *)
THEOREM ContractTypeCorrect == Spec => []TypeOK
  <1>1. ContractInv => TypeOK
    BY DEF ContractInv
  <1>2. ContractInv /\ [Next]_contractVars => ContractInv'
    BY StepContractInv
  <1> QED
    BY <1>1, <1>2, InitContractInv, PTL DEF Spec

(* Whatever callers do, each type of a stored contract has its tree and the *)
(* trees of its top level indices.                                          *)
THEOREM ContractHasTrees == Spec => []TreesOfContract
  <1>1. ContractInv => TreesOfContract
    BY DEF ContractInv, TreesOfContract, ViewInv, Leads
  <1>2. ContractInv /\ [Next]_contractVars => ContractInv'
    BY StepContractInv
  <1> QED
    BY <1>1, <1>2, InitContractInv, PTL DEF Spec
-----------------------------------------------------------------------------
(* Only writes change what the database holds while no transaction starts   *)
(* or ends.                                                                 *)
LEMMA OnlyWritesWrite ==
  ASSUME ContractInv, [Next]_contractVars, ~Writes, open' = open
  PROVE  db' = db
  <1>1. CASE \E inTransaction \in BOOLEAN : GetContract(inTransaction)
    BY <1>1 DEF GetContract
  <1>2. CASE Evict \/ StartTransaction \/ CommitTransaction \/ RollbackTransaction \/ Restart
                \/ UNCHANGED contractVars
    BY <1>2 DEF ContractInv, TypeOK, contractVars, Evict, StartTransaction, CommitTransaction,
                RollbackTransaction, Restart
  <1> QED
    BY <1>1, <1>2 DEF Next, Writes

SettledInv == SettledView(db) /\ SettledView(committed)

(* While types stay, so do the views settled.                               *)
LEMMA StepSettledInv ==
  ASSUME ~RemovesTypes, ContractInv, SettledInv, [Next]_contractVars
  PROVE  SettledInv'
  <1>1. CASE Writes
    <2>1. ASSUME NEW c \in Contracts, InsertContract(c) PROVE SettledView(db')
      BY <2>1, InsertMakesView
    <2>2. ASSUME NEW c \in Contracts, UpdateContract(c) PROVE SettledView(db')
      BY <2>2, UpdateKeepsTrees DEF ContractInv, SettledInv
    <2>3. ASSUME NEW t \in Types, NEW d \in Documents, AddDocument(t, d) PROVE SettledView(db')
      BY <2>3, DocumentKeepsTrees DEF ContractInv, SettledInv, SettledView, Stored
    <2>4. SettledView(db')
      BY <1>1, <2>1, <2>2, <2>3 DEF Writes, ApplyContract
    <2> QED
      BY <1>1, <2>4, WriteMakesView DEF SettledInv
  <1>2. CASE ~Writes
    BY <1>2, OtherSteps DEF SettledInv
  <1> QED
    BY <1>1, <1>2

(* While callers apply no contract that lacks a type of the one before, a   *)
(* document type keeps the settings it was made with.                       *)
THEOREM SettingsNeverChange ==
  ASSUME ~RemovesTypes
  PROVE  Spec => []TypeSettingsNeverChange
  <1>1. SettledInv => TypeSettingsNeverChange
    BY DEF SettledInv, SettledView, TypeSettingsNeverChange
  <1>2. ContractInv /\ SettledInv /\ [Next]_contractVars => ContractInv' /\ SettledInv'
    BY StepContractInv, StepSettledInv
  <1>3. Init => ContractInv /\ SettledInv
    BY InitContractInv DEF SettledInv
  <1> QED
    BY <1>1, <1>2, <1>3, PTL DEF Spec

(* Without history an insertion finds no contract, and so every write keeps *)
(* the trees with their documents.                                          *)
LEMMA WritesKeepTrees ==
  ASSUME ~RemovesTypes, NoHistory, ContractInv, SettledInv, Writes
  PROVE  \A t \in DOMAIN db.trees : /\ t \in DOMAIN db'.trees
                                    /\ db.trees[t].indices \subseteq db'.trees[t].indices
                                    /\ db.trees[t].documents \subseteq db'.trees[t].documents
  <1>1. ASSUME NEW c \in Contracts, InsertContract(c) PROVE DOMAIN db.trees = {}
    BY <1>1 DEF InsertContract, AlreadyExists, NoHistory, ContractInv, ViewInv, Stored,
                SettledInv, SettledView
  <1>2. ASSUME NEW t \in Types, NEW d \in Documents, AddDocument(t, d)
        PROVE  \A u \in DOMAIN db.trees : /\ u \in DOMAIN db'.trees
                                         /\ db.trees[u].indices \subseteq db'.trees[u].indices
                                         /\ db.trees[u].documents \subseteq db'.trees[u].documents
    BY <1>2, DocumentKeepsTrees DEF ContractInv
  <1>3. ASSUME NEW c \in Contracts, UpdateContract(c)
        PROVE  \A t \in DOMAIN db.trees : /\ t \in DOMAIN db'.trees
                                         /\ db.trees[t].indices \subseteq db'.trees[t].indices
                                         /\ db.trees[t].documents \subseteq db'.trees[t].documents
    BY <1>3, UpdateKeepsTrees DEF ContractInv, SettledInv
  <1> QED
    BY <1>1, <1>2, <1>3 DEF Writes, ApplyContract

(* Without history and while types stay, applying contracts takes no        *)
(* document away.                                                           *)
THEOREM DocumentsAreKept ==
  ASSUME ~RemovesTypes, NoHistory
  PROVE  Spec => DocumentsKept
  <1> DEFINE Keeps ==
        (open' = open /\ Stored(db)) =>
          \A t \in DOMAIN db.trees : /\ t \in DOMAIN db'.trees
                                     /\ db.trees[t].documents \subseteq db'.trees[t].documents
  <1>1. ContractInv /\ SettledInv /\ [Next]_contractVars => ContractInv' /\ SettledInv'
    BY StepContractInv, StepSettledInv
  <1>2. ContractInv /\ SettledInv /\ [Next]_contractVars => [Keeps]_contractVars
    BY OnlyWritesWrite, WritesKeepTrees
  <1>3. Init => ContractInv /\ SettledInv
    BY InitContractInv DEF SettledInv
  <1> QED
    BY <1>1, <1>2, <1>3, PTL DEF Spec, DocumentsKept

(* Without history a readonly contract is never replaced and no contract    *)
(* becomes readonly.                                                        *)
THEOREM ReadonlyStays ==
  ASSUME NoHistory
  PROVE  Spec => ReadonlyNeverReplaced
  <1> DEFINE Keeps ==
        (open' = open /\ Stored(db)) =>
          /\ db.contract.readonly => db'.contract = db.contract
          /\ db'.contract.readonly => db'.contract = db.contract
  <1>1. ContractInv /\ [Next]_contractVars => ContractInv'
    BY StepContractInv
  <1>2. ContractInv /\ [Next]_contractVars => [Keeps]_contractVars
    <2> SUFFICES ASSUME ContractInv, [Next]_contractVars, open' = open, Stored(db)
                 PROVE  /\ db.contract.readonly => db'.contract = db.contract
                        /\ db'.contract.readonly => db'.contract = db.contract
      OBVIOUS
    <2>1. ASSUME NEW c \in Contracts, InsertContract(c) PROVE FALSE
      BY <2>1 DEF InsertContract, AlreadyExists, NoHistory, ContractInv, ViewInv, Stored
    <2>2. ASSUME NEW c \in Contracts, UpdateContract(c)
          PROVE  ~db.contract.readonly /\ ~db'.contract.readonly
      <3>1. db'.contract = c
        BY <2>2, UpdatedTree DEF ContractInv
      <3> QED
        BY <2>2, <3>1 DEF UpdateContract, UpdateFails
    <2>3. ASSUME NEW t \in Types, NEW d \in Documents, AddDocument(t, d)
          PROVE  db'.contract = db.contract
      BY <2>3, DocumentKeepsTrees DEF ContractInv
    <2>4. CASE ~Writes
      BY <2>4, OnlyWritesWrite
    <2> QED
      BY <2>1, <2>2, <2>3, <2>4 DEF Writes, ApplyContract
  <1> QED
    BY <1>1, <1>2, InitContractInv, PTL DEF Spec, ReadonlyNeverReplaced
-----------------------------------------------------------------------------
(* The database is never behind what is committed.                          *)
LEMMA StepGrown ==
  ASSUME ~RemovesTypes, NoHistory, ContractInv, SettledInv, Grown(committed, db),
         [Next]_contractVars
  PROVE  Grown(committed', db')
  <1>1. CASE Writes
    <2>1. Grown(committed, db')
      BY <1>1, WritesKeepTrees DEF Grown
    <2>2. Grown(db', db')
      BY DEF Grown
    <2> QED
      BY <1>1, <2>1, <2>2, WriteMakesView
  <1>2. CASE ~Writes
    <2>1. CASE UNCHANGED <<db, committed>>
      BY <2>1
    <2>2. CASE db' = committed'
      BY <2>2 DEF Grown
    <2> QED
      BY <1>2, <2>1, <2>2, OtherSteps
  <1> QED
    BY <1>1, <1>2

(* One step keeps the cache leading to trees, or is a rollback.             *)
LEMMA StepCacheLeads ==
  ASSUME ~RemovesTypes, NoHistory, ContractInv, SettledInv, Grown(committed, db),
         [Next]_contractVars, CacheLeads
  PROVE  CacheLeads' \/ RolledBack
  <1>1. CASE Writes
    BY <1>1, WritesKeepTrees, WriteMakesView DEF CacheLeads
  <1>2. ASSUME NEW inTransaction \in BOOLEAN, GetContract(inTransaction)
        PROVE  CacheLeads'
    <2>1. Stored(db) => Leads(db.contract, db)
      BY DEF ContractInv, ViewInv
    <2>2. Stored(committed) => Leads(committed.contract, db)
      BY DEF ContractInv, ViewInv, Leads, Grown
    <2> QED
      BY <1>2, <2>1, <2>2 DEF GetContract, CacheLeads, Leads
  <1>3. CASE Evict \/ Restart
    BY <1>3 DEF Evict, Restart, CacheLeads
  <1>4. CASE StartTransaction \/ CommitTransaction \/ UNCHANGED contractVars
    BY <1>4 DEF StartTransaction, CommitTransaction, contractVars, CacheLeads
  <1>5. CASE RollbackTransaction
    BY <1>5 DEF RollbackTransaction, RolledBack
  <1> QED
    BY <1>1, <1>2, <1>3, <1>4, <1>5 DEF Next, Writes

(* While types stay, and without history, whatever the cache holds leads    *)
(* into trees that exist until a transaction is rolled back: an outdated    *)
(* contract is harmless to a query.                                         *)
THEOREM CachedLeadsToTrees ==
  ASSUME ~RemovesTypes, NoHistory
  PROVE  Spec => CachedTreesExist
  <1> DEFINE Inv == ContractInv /\ SettledInv /\ Grown(committed, db)
  <1>1. Inv /\ [Next]_contractVars => Inv'
    BY StepContractInv, StepSettledInv, StepGrown
  <1>2. Inv /\ [Next]_contractVars => [CacheLeads => CacheLeads' \/ RolledBack]_contractVars
    BY StepCacheLeads
  <1>3. Init => Inv
    BY InitContractInv DEF SettledInv
  <1> QED
    BY <1>1, <1>2, <1>3, PTL DEF Spec, CachedTreesExist
=============================================================================
