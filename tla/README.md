# rs-drive in TLA+

A verification project for `rs-drive`: TLA+ modules translated from the Rust
and JavaScript sources, TLC configurations that check them on small instances,
and theorems checked by TLAPS. Line numbers refer to files below `src/`.

## 1. The system

`rs-drive` is the storage of Dash Platform. Tenderdash decides blocks; a Node.js
process (not in this repository) executes them and calls this code.

| Component | State | Operations | Talks to |
|---|---|---|---|
| ABCI handlers, `dash-abci/src/abci/handlers.rs` | the execution context of the current block (memory) | `init_chain`, `block_begin`, `block_end` | Drive, the fee pools; called over the node binding, in the caller's transaction |
| Epoch calculation, `dash-abci/src/execution/fee_pools/epoch.rs` | none | `EpochInfo::calculate` | called by `block_begin` |
| Fee pools, logic: `process_block_fees.rs`, `distribute_storage_pool.rs`, `fee_distribution.rs` | none of its own; builds one batch | the epoch change, spreading of the storage pool, payment of proposers, collecting of fees | reads the database, writes the batch |
| Fee pools, storage: `drive/src/fee_pools`, `drive/src/drive/fee_pools` | subtree `Pools`: storage fee pool, oldest unpaid epoch, one subtree per epoch (credits, start height, start time, proposers) | operation factories and getters | GroveDB |
| Genesis time, `drive/src/drive/genesis_time` | an item in GroveDB and a cached copy in `DriveCache` | `get_`, `fetch_`, `init_genesis_time` | handlers |
| Identities, `drive/src/drive/identity` | one item per identity: keys, balance, revision | insert, overwrite, fetch | paid by the fee pools |
| Masternode reward shares, `dash-abci/src/contracts/reward_shares.rs` | documents of a system contract | query by owner | read by the payout |
| Node binding, `node/src/lib.rs` | the message queue of the database thread, the one open transaction | open, close, flush, start/commit/rollback/abort transaction, reads and writes | JavaScript callers, Drive |
| Contracts, `drive/src/drive/contract` | contract elements and subtrees; a cache of parsed contracts | apply (insert or update), get, fetch | documents, queries |
| Documents, `drive/src/drive/document` | primary storage (with or without history) and one tree path per index | add, update, delete | contracts, GroveDB |
| Queries, `drive/src/query` | none | parse where and order clauses, choose an index, build a path query | documents |
| GroveDB operations, `drive/src/drive/grove_operations.rs`, `batch.rs` | none | direct and batched inserts, with and without existence checks | GroveDB |
| Operation fees, `drive/src/fee` | none | cost of operations, checked sums | everything that writes |
| Encodings, `drive/src/common/encode.rs`, `epochs/paths.rs` | none | order-preserving bytes of numbers, keys of epochs | documents, pools |

What is hard here:

- everything a block's end writes goes into ONE batch: what it computes is read
  from the database before the batch, values that are only in the batch have to
  be passed along by hand, and the last write to a key wins;
- the chain may halt, and then whole epochs are skipped;
- a block is executed in a transaction that may be rolled back and begun again
  with another proposal, while the memory of the process stays;
- proposers are paid in chunks over several blocks while new epochs end;
- credits are divided with rounding at three places;
- calls of many JavaScript tasks share one database thread and one transaction;
- a document is in the primary storage and under a path in every index; an
  operation reads the database while it builds the batch that changes all of them,
  and three operations decide separately how an index entry is stored;
- parsed contracts are cached in memory, which knows no transactions;
- a query becomes one of many nestings of path queries, by the shape of its clauses,
  of its order and of the index, and a client pages through its results with a document
  as cursor while documents are written.

What makes each component right is listed with its properties below, and the
hazards, each at the line where it bites, in `PROJECT.json`.

## 2. Modules

| Module | Models | State and actions |
|---|---|---|
| `EpochInfo` | `EpochInfo::calculate` | operators only |
| `FeePools` (extends `EpochInfo`) | `process_block_fees` and all it calls, over a record `d` that is the pools' part of the database | operators only: the value of each key after the batch, and the conditions under which the code returns an error |
| `Platform` (extends `FeePools`) | the handlers, the transaction around a block, the cached genesis time | `BlockBegin`, `BlockEnd`, `CommitTransaction`, `RollbackTransaction`, `Restart` |
| `RewardLedger` | what the pools promise to proposers, without credits or a database | one action, `Block` |
| `MCPlatform` | values of the constants for TLC | |
| `SumLemmas` | lemmas on finite sums, on folds and on sets of naturals | |
| `PlatformProofs`, `PaymentProofs`, `CreditProofs` | theorems, each module on the one before | |
| `DriveCalls` | the calls of the node binding as data, and who makes which | operators only |
| `DriveThread` (extends `DriveCalls`) | the thread of `node/src/lib.rs`: opening, its queue, the open transaction, the read-only guard, close, panics | `Open`; `Send` and `Receive` of a task; one action per message of the thread |
| `TxStore` (extends `DriveCalls`) | what the binding promises: a store with one isolated transaction, until it ends | `Call`, `TakeEffect`, `Return`, `End` |
| `MCDriveThread` | values of the constants for TLC | |
| `DriveThreadProofs` | theorems | |
| `DocumentType` | one document type: its documents, indices and flags | constants |
| `DocumentStore` (extends `DocumentType`) | the documents of a type with their index paths | `AddDocument`, `OverrideDocument`, `UpdateDocument`, `DeleteDocument` |
| `DocumentMap` (extends `DocumentType`) | what they promise: a map with unique indices | `Add`, `Put`, `Update`, `Delete` |
| `ContractStore` | one contract, the trees of its types, the cache | `InsertContract`, `UpdateContract`, `GetContract`, `Evict`, `AddDocument`, the transaction, `Restart` |
| `QueryClauses` (extends `DocumentType`) | `query/conditions.rs`: where clauses, what each says of a key, and their grouping into equalities, one In and one range | operators only |
| `QueryRanges` (extends `QueryClauses`) | `WhereClause::to_path_query`: the keys a clause selects, with and without a start | operators only |
| `DocumentQueries` (extends `DocumentStore` and `QueryRanges`) | `query/mod.rs`: requests, the choice of an index, path queries, their results in the store; a client that pages | `WriteDocuments` (any step of `DocumentStore`), `Open`, `NextPage`, `Close` |
| `KeyEncodings` | `common/encode.rs`: numbers as keys | operators only |
| `MCDocumentStore`, `MCDocumentQueries`, `MCContractStore` | values of the constants for TLC | |
| `DocumentStoreProofs`, `ContractStoreProofs`, `QueryProofs` | theorems | |

How the state corresponds to the code. `db` is the database as the caller's
transaction sees it, `committed` the durable chain with the height and time of
its last block; `context` is `Platform::block_execution_context`, `genesisCache`
is `DriveCache::genesis_time_ms`; `stage` says how far the caller's protocol of
a block (begin, end, commit) has come. `history` is not in the code: it records
who made which blocks, who was paid and what was collected, so that properties
can compare the database with what happened.

`BlockEnd` is a whole batch. Each operator of `FeePools` reads `d`, the database
before the batch, as the code does; a later write to the same key wins
(`PaidBalance`); the start height of an epoch that starts in this block is used
from the arguments (`EndBlockHeight`), as `cached_current_epoch_start_block_height`
is. `ProcessBlockFeesFails` holds where the code returns an error; `BlockEnd` is
guarded by its negation, and that it never holds is a property of its own
(`HandlersNeverFail`).

In `DriveThread`, `queue` is the `mpsc` channel, `tx` the thread's
`transaction: Option<Transaction>`, `store` GroveDB without it, `thread` whether the
database is open and the loop still runs. `calls` holds what each JavaScript task waits for: a task sends a
message (`Send`), the thread handles the first message of the queue in one step
and posts the callback (`Reply`), the event loop runs it (`Receive`).
`inTransaction` is what the owner concludes from the answers it got. A transaction is
what it has written over the store, because GroveDB's optimistic transaction
reads the store where it has written nothing; a write outside it that
collides with what it wrote makes the commit fail, and the thread unwraps the
failure (`Panic`). In `TxStore` the transaction is a private copy of the store:
`ImplementsTxStore` maps `working` to `OverStore`, and `ended` to a thread that is closed or
has panicked.

What panics the thread, and so ends it for everybody:

- opening the database fails (`lib.rs:68`; `Open`, which may end in either state);
- a commit or a rollback without a transaction (`lib.rs:103`, `:110`), and a commit that
  collides (`:104`): `MustPanic`;
- GroveDB refuses a commit or a rollback, a flush or the initial structure (`lib.rs:104`,
  `:111`, `:93`, `:245`): `UnwrapErrors`, for which `Panic` may always be taken, in place of the
  error that `GroveDbError` answers for other calls on data;
- arguments that the code unwraps: `UnwrapArguments`, and `fits` of a request, which is FALSE for
  such arguments. They are a contract id of other than 32 bytes in a query for documents or its
  proof (`lib.rs:627`, `:683`); the deletion of a document of a type with history (`delete.rs:102`,
  after the guard, and only when the document is found); and, in `apply`, a document of fewer than
  four bytes (`split_at` at `drive/src/contract/document.rs:144`) or an epoch index too high for its key (`expect`,
  `drive/src/fee_pools/epochs/mod.rs:19`). A query unwraps first, so it panics for certain; the others
  may be answered with an error that comes before.

Unwinding drops the transaction and the queue; a callback that panics has applied no batch yet, so
the store is as before (`Panic`, `End` of `TxStore`). Most other `unwrap()` of `lib.rs` and of `drive/src/drive` take
the cost off a result and cannot fail.

Abstractions of `DriveThread`. A task has one call out at a time, a process with
several is several tasks. Applying contracts, adding and updating documents,
inserting identities and the block handlers are one kind, `apply`: a batch that
writes every tree key; the initial structure is such a batch too, but a kind of its own,
`createStructure`, because its errors are unwrapped. Querying documents and the root hash are `query`,
deleting a document is `delete`. A panic inside GroveDB's own code, which is not under
`src/`, is left out for the calls that do not unwrap its errors.

In `DocumentStore`, `primary` is the tree `Documents(1)/<type>/0`: per id the versions by
block time and the one that the reference at `[0]` names, or, without history, one
version. `index` is everything else below the type, from paths to trees or references
(the id referred to). An operation builds a batch from `index` and `primary`: `Trees`
inserts the trees of a path that are in neither the database nor
`batch_insertion_cache`, `AddEntry` the entry, `RemoveEntry` deletes one with
`batch_delete_up_tree_while_empty`; a failure on the way (`Fail`) is the early
return of the code, after which nothing is applied. `DeleteUpTreeWhileEmpty` is GroveDB's: it is
modelled as `grove_operations.rs` uses it, with the operations of the current batch
counted as done, and with an element that is a tree with something in it
left alone. `outcome` is what the caller gets.

Abstractions of `DocumentStore`. Dry runs (`apply = false`), fees, storage flags and owner
ids are left out, and so are contracts: the type and its top index trees are
there. A property is one value or `Null`, which is the empty key; values of
different properties are distinct model values.

In `DocumentQueries` a request is what a caller sends: clauses, order, limit, a start document
and a block time. `Parsed` sorts its clauses (`FromCbor`, `FromSqlExpr`) or refuses it; `Answered`
is `execute_no_proof`: `PrimaryAnswer` where the request is for the primary key,
`IndexAnswer` otherwise. `BestIndex` chooses the index; `IndexQuery` builds the path query: a sequence of
levels, each with the field whose tree it enters, the keys to visit there and the direction, and
below the last level the ids, or those of the conditional subquery of the empty key. `Elements` is what GroveDB
finds with it in `index`: the paths that visit a key in every level (`Places`), in the order of the first level at
which two of them differ (`Precedes`, `Visited`), or an error if a tree on the way is not there
(`Dangling`). So nested queries are described by the paths they reach rather than by recursion, and
can be reasoned about. `Items` (`QueryRanges`) is the set of keys of one level, so the arithmetic of
ranges is done once, in `QueryRanges`, and proved. Writing documents is `DocumentStore`'s whole
next-state relation. `request`, `phase`, `after` and `seen` are a client's: it opens one of
`Conversations` and asks for page after page with `startAfter` until one is not full. `seen` counts, for
each document that has not changed since the request was made, how often it came.

Abstractions of the queries. Keys are model values with an order, `Rank`; the values of
different properties are distinct. `Successor` is the prefix with its last byte incremented.
Properties of an index are ascending; the offset is always 0, as in the code; a query item
whose end is before its start selects nothing. `Serves` and `Difference` stand for
`DocumentType::index_for_types` of the contract library, as the queries use it: that the fields of
the equalities are the first of the index is a condition of that library, which nothing under `src/`
shows, and the properties and theorems about queries hold as far as it does. The block times of
versions are keys by `encode_float`, which keeps the order of times (`FloatOrderKept`).

Environment of the queries: the client asks for the next page with the last document it got.
If that document was changed meanwhile, and the results come by an index, its place may be
anywhere and the client begins again (`displaced`).

In `ContractStore`, `db` is what the open transaction sees, `committed` what is read without
it; `cache` is the entry of `cached_contracts`. A contract is a record of its flags and
its types, its bytes are the record itself. `settings` stands for
`documents_mutable` and `documents_keep_history` of a type, `defaults` for the two
contract defaults; each tree records the settings it was first made with, which the code
does not store, so that `TypeSettingsNeverChange` can compare. An apply that returns an error or
brings the stored bytes again changes nothing. The earlier versions of a contract with history are
left out.

Environment of `ContractStore`. `RemovesTypes` says whether callers apply contracts
that lack types of the one before, `RollsBack` whether transactions are rolled
back; one transaction is open at a time.

Environment of `DriveThread` (JavaScript, outside this repository). One task,
`Owner`, starts transactions; it uses, commits and rolls back only one that it
started, as `GroveDB.js:124` asks ("Transaction should be started before"). The other
tasks work without a transaction; `DirectKinds` says what they call.

Abstractions of `Platform`. Times are in a coarse unit, so an epoch is a small number of
units. Credits are naturals; a `Decimal` is a number of `1/DecimalUnit`, a
quotient the nearest of them. The distribution table has `StorageYears` entries
instead of fifty, a year `EpochsPerYear` epochs instead of twenty; the limit of
proposers paid is `PayoutsPerEpoch` instead of fifty. A proposer's hash is its
identity's id. Paid identities exist (the code returns an error otherwise).
`Shares` is the sequence of reward-share documents of each proposer, in the
order the query returns them. The start time of an epoch and its fee multiplier are
written by the code and read by no handler: they are left out.

Environment of `Platform` (Tenderdash and the caller, outside this repository). Heights count
up by one; block times do not decrease; a halt is never longer than the epochs
that exist ahead (`ProposableTime`: 50 years in the code); the caller ends a
block it began at most once before it commits or rolls back.

## 3. Runs

| Run | Question |
|---|---|
| `blocks` | Are credits, block counts and payments right when the chain halts, fees divide badly, and blocks are rolled back or lost at any stage? Is every committed block a step of the reward ledger? |
| `liveness` | Is every epoch that is over paid in full, sooner or later? |
| `drive_guarded` | Is the thread a store with one isolated transaction when the others make guarded calls only, and can the owner rely on that transaction, while calls fail, panic the thread or close it? |
| `drive_conflicts` | When they write as they like, does each message that needs the transaction still find it? Is every call answered unless the thread panics? |
| `drive_readonly` | Is the store read-only for the others during a transaction? (No: see section 6.) |
| `docs_indices` | Do index entries and trees follow the documents when indices share prefixes and a property is optional? Does every query find what its clauses say, in its order, and does paging see each document once while others are written? |
| `docs_history` | Are earlier versions kept, do indices lead to the latest, and do queries answer a past block time as before? |
| `query_pages` | Are the results from a start document the rest of the results? (No: see section 6.) |
| `docs_null_unique` | Does deleting take away all references? (No: see section 6.) |
| `contract_updates` | Do updates, rollbacks and the cache keep the trees, the settings and the documents of the types? |
| `contract_history` | Is a readonly contract with history never replaced? (No: see section 6.) |
| `shared_payee` | Does every payment reach the balance of its identity? (No: see section 6.) |

Bounds and why they suffice:

- `blocks`: 5 blocks, times up to 7 with epochs of 2 units: halts skip up to three
  epochs, then payment of an epoch with two proposers takes two blocks when the
  limit is one; fees `(0, 3)` and `(7, 1)` divide with a remainder at every
  division; the table gives 7/10 and 3/10. One proposer shares 50% of its reward
  with an identity that proposes nothing. One rollback or crash, anywhere, and two possible
  times of the first block, so that a retried genesis block can differ from the one
  that was lost.
- `liveness`: time stands still from height 6 on, so that the chain stays within
  the epochs that exist and still has blocks enough (9) to pay what is due; one
  rollback or crash.
- `shared_payee`: both proposers share with the same third identity and a limit
  of two per block.

- `drive_guarded`: three tasks (the owner and two others), one key of a tree and
  one of auxiliary data, one value besides `Missing`. One value is enough because
  every property compares a present value with an absent one; two keys, because
  trees collide with trees only. The queue is bounded by the tasks: one call each. The two other
  tasks are symmetric: they make the same calls, and no property of the run tells them apart.
- `drive_conflicts`, `drive_readonly`: two tasks, the other one without restriction;
  nobody closes the database.

- `docs_indices`: three ids, so that a tree can lose one of two entries and keep the
  other; three documents: each owner with a note under one label, and one of the first owner
  without a note under the other label, so that an update can move to a taken, a free and a
  shared value; three indices: a unique one, one that shares its prefix, and one that starts
  with the optional property. An update that changes the optional property alone is left to
  `docs_history`, whose documents differ in owner and note.
  130 requests are asked of every store, while no client pages: every operator in both
  directions on each property, pairs of bounds, In with a range below it, orders
  without clauses, SQL with mirrored clauses, and 24 that contradict themselves or have no
  index. The limit is 3, which no result exceeds; pages have a limit of 1, by id
  descending and by the last property of the unique index, so that each document begins a page.
  Ten keys in order suffice for a range to have keys before, at, between and after its bounds.
- `docs_history`: two ids and two block times, each of which may come twice.
  Nothing is deleted, since the code panics (`delete.rs:102` is `todo!()` for
  what is not an item), and no id is added twice, since that
  leaves entries behind (section 6).
- `query_pages`: two ids and one index that is not unique.
- `contract_updates`: contracts with one or two types, another index, other
  settings, readonly or not, and one document: every check of
  `update_contract` fails for some pair of them.

`CHECK_DEADLOCK FALSE`: the behaviours of `Platform` are bounded by `MaxHeight` and
stop there; those of `DriveThread` stop when the thread has ended.

Fairness (`FairSpec`): weak fairness of beginning, ending and committing blocks:
Tenderdash goes on proposing and the caller completes each block. Rollbacks and
restarts have no fairness and are bounded by `MaxRetries`; without that bound a
chain that rolls back every block would pay nobody, and rightly so.

`DriveThread`'s (run `drive_conflicts`): weak fairness of opening, of the thread (it blocks on `recv` and is woken by a
message) and of the callbacks (the event loop runs them). Nobody has to call.
`DocumentQueries`' (`QuerySpec`): weak fairness of `NextPage`: a client that is paging asks for the
next page sooner or later. Nobody has to write, open or close, and the writers may go on for
ever.

A reader may note that a call whose message is in the queue when the database is closed is
never answered: the loop breaks and drops it (`node/src/lib.rs:85`, "even if
there are pending messages"), and so it is when the thread panics. Nothing under `src/` settles those calls.
`CallsAnswered` therefore excepts the calls of a thread that has ended and says nothing of them;
that no call is answered after its end, or takes effect, is part of `ImplementsTxStore`.

The properties:

- `BlocksMatchHeights`: the blocks counted per proposer add up to the difference
  of start heights that every reward is divided by.
- `NoCreditsCreated`, `NoCreditsLost`: pools, balances and what is still owed
  are what was collected, but for at most one credit per block that pays
  proposers (the fractions a chunk rounds away).
- `PoolSpreadAtEpochChange`: the storage pool is spread, not kept.
- `HandlersNeverFail`: no legal sequence brings a handler to an error return.
- `GenesisTimeCoherent`: the cached genesis time is the stored one, and the epoch of
  a block is computed from it.
- `PaidExactlyOnce`: every proposer of an epoch is paid once for it, in order.
- `ImplementsRewardLedger`: refinement of `RewardLedger`, with the map `LedgerEpoch`,
  `LedgerDue`, `LedgerPaid` over the committed chain.
- `EpochsGetPaid`: liveness.
- `TransactionKept`: behind the guard the owner is never wrong about whether its transaction is
  open, and nothing is written beside it that makes its commit collide. It does not say that
  the thread lives on: guarded calls can panic it too, by their arguments.
- `TransactionFound`: whatever the others write, a commit, a rollback or a call that asks for the transaction
  finds it open. Otherwise `take().unwrap()` would panic, and `using_transaction.then(|| transaction).flatten()`
  would silently work on the store.
- `CallsAnswered`: liveness, until the thread ends.
- `ImplementsTxStore`: refinement of `TxStore`: every answer is that of one instant,
  the others see only what is committed, a commit adds what its transaction wrote.
- `ReadOnlyDuringTransaction`: refuted, section 6.
- `IndexMatchesDocuments`: what an index leads to are the stored documents, under their present
  values, each once.
- `NothingLeftBehind`: no tree stays when its last entry goes.
- `BatchesApply`: what an operation collects can be applied as one batch: one operation per
  path, inserts only into trees that exist, no insertion below what is deleted.
- `EarlierVersionsKept`: a write changes the version of its own block time only.
- `ImplementsDocumentMap`: refinement of `DocumentMap`; an operation fails exactly when
  the map's does, and then nothing has changed.
- `TreesOfContract`: types and top level indices of a stored contract have trees.
- `TypeSettingsNeverChange`, `DocumentsKept`, `ReadonlyNeverReplaced`: what updates may not do.
- `CachedTreesExist`: the cache may be old, but it leads to nothing that does not exist,
  unless the transaction that made it is rolled back.
- `QueriesSelectMatching`: a request that an index serves is answered, and an answer has each
  document that meets all the clauses once and no other, by whichever index and nesting.
- `ResultsSorted`: results come in the order asked for, by the In first and then by the range.
- `KeptDocumentsSeenOnce`: when paging is done, each document that did not change meanwhile was seen
  once if it meets the request and never otherwise.
- `FailsOnlyWhenGone`: a page fails only if the document it starts after is no longer stored.
- `PagingEnds`: liveness, however many documents are written meanwhile.
- `PastAnswersKept`: what a document was at a block time does not change with later writes.
- `PagesAreRest`, `ReferencesResolve`: refuted, section 6.

## 4. Proofs

All theorems are of the specification of their component (`Spec`, `QuerySpec` with a client that queries), for all
values of the constants that meet the assumptions, and for behaviours of any length. The table names those that state a property of a run.

| Theorem | Property | Inductive invariant |
|---|---|---|
| `TypeCorrect`, `GenesisTimeCoherence` | `TypeOK`, `GenesisTimeCoherent` | `TimeInv` |
| `PoolSpread` | `PoolSpreadAtEpochChange` | `TypeOK` |
| `PaymentsExactlyOnce` | `PaidExactlyOnce` | `IInv`: `TimeInv` and `PaymentInv` |
| `ChainImplementsLedger` | `ImplementsRewardLedger` | `LedgerInv`: `IInv` and `RewardInv` |
| `BlocksBetweenHeights` | `BlocksMatchHeights` | `IInv` and `HeightInv` |
| `BlocksNeverFail` | `HandlersNeverFail` | `IInv` and `ChainInv` |
| `CreditsNeverCreated`, `CreditsNeverLost` | `NoCreditsCreated`, `NoCreditsLost` | `ChainCreditInv`: all of these and `CreditInv` |
| `DriveTypeCorrect` | `TypeOK` of `DriveThread` | itself |
| `TransactionIsFound` | `TransactionFound` | `OwnerInv` |
| `TransactionIsKept`, `ThreadImplementsStore` | `TransactionKept`, `ImplementsTxStore` | `DriveInv` |
| `StoreTypes` | `TypeOK` of `DocumentStore` | `StoreInv` |
| `IndexIsExact`, `TreesLeadToEntries`, `BatchesAlwaysApply` | `IndexMatchesDocuments`, `NothingLeftBehind`, `BatchesApply` | `StoreInv` |
| `ReferencesAreOfStored` | `ReferencesResolve`, for types without nulls in unique indices | `StoreInv` |
| `DocumentsAreAMap` | `ImplementsDocumentMap` | `StoreInv` |
| `HistoryIsKept` | `EarlierVersionsKept` | none: a step at a time |
| `QueriesStoreInvariant` | the store's invariants, under `QuerySpec` | `StoreInv` |
| `QueryTypes` | `QueryTypeOK` | `StoreInv` and `ClientOK` |
| `QueriesAnswerRight`, `QueriesSort` | `QueriesSelectMatching`, `ResultsSorted` | `StoreInv` |
| `PagesContinue` | `PagesAreRest`, for what `PagedServed` says | `StoreInv` |
| `PagesFailOnlyWhenGone` | `FailsOnlyWhenGone` | `StoreInv` and `ClientOK` |
| `PagingSeesOnce` | `KeptDocumentsSeenOnce` | `StoreInv`, `ClientOK` and `PagingOK` |
| `PastIsKept` | `PastAnswersKept` | `PrimaryOK` and `TimedVersions` |
| `ContractTypeCorrect`, `ContractHasTrees` and four more | those of `ContractStore` | `ViewInv` and its strengthenings |

### The chain

The assumptions are those of `EpochInfo`, `FeePools` and `Platform` on the constants:
positive lengths and units; room for the first `PerpetualEpochs` epochs and one more
(`EpochsAssumption`); a distribution table that adds up to one (`RatioSumAssumption`; the test at
`dash-abci/src/execution/fee_pools/constants.rs` asks it of the table); finitely many identities, among them the
proposers, whose hashes are ordered; shares of at most 100% each (`SharesAssumption`); `Missing`
outside the data; and `PrecisionAssumption`. The last says that half a unit of the
decimals for each proposer of a chunk is less than the smallest
fraction that a reward can have, one part in `MaxHeight`: `rust_decimal` has 28 digits, and blocks times
proposers stay many powers of ten below. Without it the sum of the rounded rewards of a chunk
could be a whole credit above what the chunk is due, and `NoCreditsCreated` would be false.

`TypeOK` and `GenesisTimeCoherent` are not inductive: that a block's epoch is not
before the last one, and that an epoch change only moves forward, needs the relation
between the context, the committed chain and the genesis time. `TimeInv` adds
`ChainHasGenesis` (a chain with a block has a genesis time and a last time not
before it) and `BlockCoherent` (the context continues the committed chain). That the batch of
a block has its type is most of the work: payments are a fold over the chunk, and each of its
steps a fold over the shares of a proposer (`PaymentsRun`, `SharesRun`).

`PoolSpread` rests on `LeftoverBound`: the shares of all epochs are quotients whose exact values add up
to the pool, and each quotient loses less than one credit.

`PaidExactlyOnce` needs more: what one block does to the payments of epoch `e`
depends on which epochs have started. `EntryInv` relates, for one epoch, the proposers'
subtree, the start height and the history on each side of the unpaid epoch;
`PoolsInv` says it of all epochs, and that the unpaid epoch is one that started and
is not later than the last epoch. `PaymentInv` has it for both the transaction's
database and the committed one, so that a rollback keeps it. The heart is
`BlockKeepsPoolsInv`: one step of `ProcessBlockFees` keeps `PoolsInv`, by cases on
whether the epoch is before, at or after the unpaid one; the case of an epoch
passed as paid rests on `LastChunk` (when fewer are paid than the limit allows,
nobody is left), a fact on cardinalities.

`ChainImplementsLedger`: `BlockIsRewardStep` shows that one step of `ProcessBlockFees` is a step of
the ledger between the databases before and after it. The ledger's step is taken when the
transaction commits; `RewardInv` therefore carries, while a block has ended and is not
committed, that `db` is such a step from `committed.db`. Everything else is a stutter.

`BlocksBetweenHeights`: `HeightInv` has `BlocksMatch` of the committed chain and of an ended block.
`BlockKeepsBlocksMatch` splits by epoch, and the sum over the proposers changes by one
proposer only (`CountBlock`).

`BlocksNeverFail`: each way in which the code returns an error is excluded by `ChainAt`. The trees of epochs
reach from the first to `PerpetualEpochs` beyond the last epoch without a gap,
so that neither spreading nor the block finds one missing; started epochs that are not yet
paid have all their keys; start heights increase with the epochs, so the
number of blocks to divide by is positive. `BlocksToPayPositive` and `BlockTrees` carry these
facts over a block, and `BlockSucceeds` concludes.

The credits are the longest argument, `CreditProofs`:

- `PaymentsTotal` follows the two nested folds of a payout: what is given, plus the fraction below one
  credit that the last proposer does not get, is the sum of the rounded rewards of the chunk.
  `PayoutBounds` turns that into bounds: multiplied with the blocks of the epoch, the payments
  are at most the total times the blocks of the chunk, and at least that less one credit.
- `PaidBalances`: the balances grow by at most the payments, and by exactly
  them if no two payments of a block are to one identity, since otherwise one of the
  writes is lost (`GainWithinTotal`). `PaymentsDistinct` derives this from `DistinctPayees`.
- `PoolsAfterBlock`: epoch change, spreading, collecting and forgetting together change the
  pools by the fees of the block and by the pools of an epoch that is passed as
  paid (`SpreadSum` adds the shares up over the years).
- `HeldAfterBlock` combines them; `CreditsWithin` is stated with everything multiplied by the blocks of the
  unpaid epoch, as `NoCreditsCreated` is, so that no quotient remains in the invariant.
  `UnpaidEpochAfter` says what passing to the next unpaid epoch does to what is owed.

`CreditsNeverCreated` has no further hypothesis. `CreditsNeverLost` assumes
`DistinctPayees`; the run `shared_payee` shows why it has to (section 6).

`SumLemmas` has what these proofs say of data. An induction over a data type needs a predicate as parameter,
which the provers cannot instantiate, but a set can be one: `SubsetInduction` and `SegmentInduction` take
the set of the subsets, or of the lengths, of which something holds. From them follow that
the recursive functions behind `MapThenSumSet` and `FoldLeft` exist (`SumExists`,
`FoldExists`) and how a sum changes with one element (`SumAddElement`, `SumChange`), or with all (`SumLinear`, `SumMonotone`).

### The database thread

`DriveThreadProofs` is for any number of tasks, keys and values. `OwnerInv` holds whatever the
others call, as long as they leave the transaction alone (`DirectCallsKeepTransaction`:
they neither start nor end one, nor close the database):
`OwnerCoherent` follows what the owner knows through each phase of a call, `OthersDirect` says that
nobody else asked for the transaction, and `QueueHoldsCalls` (part of `TypeOK`) that each
task has at most one message in the queue, so that answering one call does not touch
another. Then every message in the queue that needs the transaction finds it: `TransactionIsFound`.
`DriveInv` adds `NoConflict`, that nothing was written under the transaction, which is
inductive under `GuardedDirectCalls`: the tasks without a
transaction make only the calls that `READONLY_MSG` guards, or read; and `NothingBegun`, that there is no
transaction before the database is open. `TransactionIsKept` follows, and
`ThreadImplementsStore`: the handling of a message is `TakeEffect`
of `TxStore` under the map of `working` to `OverStore`, message by message
(`HandlerTakesEffect`), and a panic is `End`, with the transaction open or not. It needs `NoConflict` because a commit of the code replaces what it
has written and one of `TxStore` the whole store. Section 6 says why the assumption is needed.
`NoneAssumption` keeps the absence of a transaction apart from every transaction.

### Documents

`DocumentStoreProofs` is for any documents, and for any number of ids, of indices and of properties
in an index. The constants have the assumptions of `DocumentType` and `DocumentStore`: among them that
the key `[0]` is no property, that an id is not the word for a tree, and that `Missing` is neither a
version nor a time. Beyond these the theorems have hypotheses on the document type and its callers, and each is there
because without it the statement is false:

- `DistinctIndices`: no two indices have the same properties. Otherwise both would put their entries
  at the same paths. Nothing in `src/` checks it; it is the validation of contracts, in the contract
  library, that refuses such an index;
- `NoUniqueNulls`: no document has a null in a unique index. `docs_null_unique` (section 6) is the
  counterexample: insertion, update and deletion do not agree on where such an entry is;
- `AddsOnce`: with history, an id is not added twice (section 6, last list);
- `DeletesAsPromised`, of `DocumentsAreAMap` only: documents with history are deleted only where the type is not
  mutable, so that the request is refused; otherwise the code panics (`delete.rs:102`) where the map's deletion succeeds.

The runs `docs_indices` and `docs_history` meet all of them.

None of the properties is inductive alone: whether a tree may go depends on all entries below it,
and what a batch may leave out depends on which trees there are. `StoreInv` says of every state
what the index is, and not only what follows from it: by `Fits`, its domain is the contract's trees and
all the paths above (`Above`) the entries that the stored documents call for; an entry names its document;
everything else is a tree. From it `IndexIsExact` and `TreesLeadToEntries` are read off
(`FitsForest`: a forest, whose leaves are the entries).

The step is a whole batch that several indices build in turn, so the proof needs an invariant of
the batch on its way too. `Shape(b, E, T, R, F, id)` says of a batch `b` over an index with the entries
`E`, after the entries at `T` were asked for and those in `R` were removed: it inserts exactly the
paths above `T` that are not there, deletes exactly the trees and entries that go with `R` (`Gone`) and are
not on the way to `F`, the entries the document has at the end; and its operations are in an order
in which GroveDB can apply them (`Ordered`). `AddStep`, `MoveStep` and `RemoveStep` take it over one index,
from `TreesShape`, `AddEntryShape` and `DeleteShape`, which take it over one path; `InsertBatchShape`,
`UpdateBatchShape` and `DeleteBatchShape` over all of them, since the batch is a fold (`FoldExists`).
`AppliedFits` then says that applying a batch of this shape turns an index that fits the documents before into
one that fits those after.

What makes this true is that paths do not meet by accident: a tree at `[0]` tells which index and
which values it belongs to (`ZeroTells`), no entry is above another (`EntriesAreLeaves`), and an
index whose values have not changed keeps its entry though the batch of another deletes around it
(`Unmoved`). A move to a place in a unique index that another document has, and only that, makes
the operation fail: `PlaceTaken` says it of one index, `Clash` of the documents, and
`ClashIsTaken` is the bridge to `Taken` of `DocumentMap`, whose steps `MapStep` goes through.

### Contracts

`ContractStoreProofs` proves `TypeOK` and `TreesOfContract` of `ContractStore` for all
contracts and all callers, `TypeSettingsNeverChange` for callers that drop no types
(`~RemovesTypes`), `ReadonlyNeverReplaced` for contracts without history (`NoHistory`), `DocumentsKept`
and `CachedTreesExist` under both. Section 6 shows why neither assumption can be left
out. `ViewInv` says of one view of the database that the trees
lead wherever its contract says, and holds of `db` and `committed`, so that a rollback keeps
it; `SettledView` adds that there are no other trees, which is what makes an insertion of a new type
harmless; `Grown` that the transaction's trees are never behind the committed ones.

### Queries

`QueryProofs` is for any ordered set of keys, any documents and indices, and requests with any number of
clauses. It goes from the clauses to the client.

Clauses. `FlipKeepsMeaning`: a mirrored clause says what its flipped form says.
`ExtractedKeepsMeaning`: if parsing accepts a list of clauses, what the extracted clauses say together is
what the list says; it rests on `OnlyClause` (of at most one clause the one that is taken is
each of them) and `JoinedMeaning` (two bounds and their range). `ItemsSatisfyClause`: the items of a
clause without a start are the keys that satisfy it. `StartCutsItems`: with a start, they are those
without it less what comes before the start, for the operators of `StartsExactly`; section 6 lists
the others. `Fit` is what `to_path_query` checks of a clause's values.

Path queries. `BestIndexServes` and `ServesShape`: the index that is chosen begins with the fields of the equalities,
then of the In and of the range. `IndexQueryLevels`: whatever the clauses, the path query has the properties of the index in turn,
the first of them in its path and a level for each of the rest (`QueryShape`).

What it finds. `StoreInv` (see Documents) says what the index is, so the paths that such a query visits in it are
known: they are the places of the stored documents whose values are in all levels (`Selected`); `ElementsAre` says that
`Elements` lists these, each once, and `PlacesInTurn` that they come in the order of the levels (`InTurn`). A tree is missing on
the way (`Dangling`) only if nothing is selected (`DanglingSelectsNothing`), and then the answer is empty all the
same (`NothingFound`). `SelectedMeets` joins this with the clauses: without a start, selected are the documents that meet them.
`PrimaryAnswerIs` says the same of the queries by id. So follow `QueriesAnswerRight` and `QueriesSort`, by
`AnsweredLists` and `AnsweredInOrder`.

Pages. `StartCutsLast`: with a unique index whose last property alone is not an equality, a start cuts the
keys of the last level, at the start's own key, and changes nothing else; by id it cuts the ids (`StartCutsIds`). So what a page lists is
what meets the clauses from the start on, by `Position`: the id, or the value of that last property
(`AnsweredPage`). Two documents never have the same position (`UniqueEntries`, `EndsInTurn`), and a set has one listing
by positions (`OneListing`): `PagesContinue`. For `PagingSeesOnce` the property says nothing before paging is done;
`PagingOK` says that between two pages a document has been seen once if it meets the request and is not
after the client's position (`Passed`), and otherwise never. A page brings what is ahead of the
position it starts from and not after the one it ends at (`PageBrings`); a write does not move a document
that it does not change, nor the client's position, unless the client is displaced (`KeptInPlace`). That documents
that come and go between pages do no harm is part of it: they are not in `seen`, and a page that starts from one that is gone fails.

Versions. `PastIsKept`: a later write adds a version with its own time (`HistoryWrites`), which the
choice of the version of an earlier time does not see (`VersionStays`).

The hypotheses of these theorems, beside `DistinctIndices`, `NoUniqueNulls` and `AddsOnce` of the store, are about
the document type and about what is asked; the runs `docs_indices` and `docs_history` meet those of the properties they check.

- `DistinctProperties`, `IdApart`: an index names a property once, and the id is no property. It is the contract
  library that says so; `find_best_index` counts fields, and would count wrongly otherwise. Ids are finitely many in any state,
  and a constant of the model.
- `WholeRequests`: requests are well formed (a clause has the values its operator takes, as `WhereOperator` parses them), have no start, and their limit is no
  less than the number of documents. A result that the limit cuts off is a page, of which the paging theorems speak.
- `SupportedServed`: what is said to be served is by id, or has an index (`HasAnswer`). It says which requests must
  be answered; that they are, is the theorem's (`AnsweredOk`).
- `OrderedById` (order only): a request by id orders by nothing else. `get_primary_key_path_query` looks at one order clause only.
- `ConversationsReadable`, `ConversationsServed`: what the client pages through is in CBOR, since SQL has no start, and is served.
- `PagedServed`, `ConversationsPaged`: what is asked from a start can be told apart by position (`Paginable`): by
  id, or by a unique index all of whose properties but the last are equalities, with an operator and direction of
  `StartsExactly`; for `PagedServed` one page holds all. Elsewhere a start is not what a caller may expect: section 6 says where, and `query_pages`, whose index is
  not unique, is the counterexample.
- `PastReadable`, `Times` are naturals: a request is not `Missing`, and block times are numbers.

The number encodings keep the order of signed integers, of unsigned
integers on each side of the sign bit, and of floats but for a negative zero, for words of any
size (`SignedOrderKept`, `UnsignedOrderInHalves`, `FloatOrderKept`). They are stated of the words, whose order is that of
their bytes in big endian form.

### Only model-checked

- `EpochsGetPaid`, `CallsAnswered`, `PagingEnds`: liveness under fairness is out of the prover's reach.
- The bounds of the model itself: the theorems speak of every `MaxHeight`, `MaxTime` and number of retries, not
  of their absence.

## 5. Plan

1. Done: epochs, fee pools, handlers, reward ledger; types, genesis time and payments
   proved.
2. Done: `DriveThread`, the message queue of `node/src/lib.rs`, the open transaction,
   the read-only guard, close, panics; refined to an abstract transactional store; what its
   owner can rely on proved.
3. Done: `ContractStore`, contracts and their cache across transactions; all its invariants
   proved.
4. Done: `DocumentStore`, documents with their indices, refined to `DocumentMap`.
5. Done: `QueryClauses`, `QueryRanges`, `DocumentQueries`: requests, their path queries over
   the document store, and paging; the operators proved.
6. Done: `KeyEncodings`, with its theorems.
7. Done: the sums of credits, the block counts, the absence of errors and the reward ledger proved
   of `Platform`; types, the owner's transaction and the transactional store proved of `DriveThread`.
8. Done: theorems about `DocumentStore`: the index as an exact image of the documents, its batches,
   history, and the refinement of `DocumentMap`.
9. Done: theorems about whole queries: what is found, in which order, from which start, and what a client that
   pages may rely on. Every invariant and every action property of a passing run is a theorem now.
10. Left: unique indices with nulls for types whose documents are only added, where `IndexMatchesDocuments`
    should hold without `NoUniqueNulls`; pages by an index that is not unique, for which the code would have to keep the id of the
    start (section 6).

Not modelled, and why:

- `drive/src/fee` (operation fees): sums of constants per operation, without a state; every fee is
  the caller's input in `FeePools`.
- Identities: their keys and revision are never read by this code; only the balance is modelled.
  The insertion of an identity is one batched write without a check (`identity/mod.rs:19`).
- The query for reward shares: its result is a constant of `Platform`; the queries themselves are
  modelled in `DocumentQueries`.
- Proofs of queries (`execute_with_proof`): GroveDB builds them from the same path query.
- `node/src/converter.rs`, `appendStack.js`, `Document::from_cbor` and its like,
  `random_document.rs`: conversion of data, without state.

## 6. Findings

`shared_payee` refutes `PaymentsCredited`: `add_pay_reward_to_identity_operations`
(`dash-abci/src/execution/fee_pools/fee_distribution.rs:299`) fetches an identity
from the transaction, adds the reward and writes the whole identity to the batch.
When a block pays the same identity twice (two proposers that share with it, or
one that is also a proposer of the chunk), both writes start from the same
stored balance and the second replaces the first. The other runs use a share of one proposer
with an identity that is paid by nobody else, and there every credit is accounted for.

`drive_readonly` refutes `ReadOnlyDuringTransaction`. `GroveDB.js:112` says that once a
transaction is started "Write operations will be allowed only for the transaction until
it's committed", and `READONLY_MSG` (`node/src/lib.rs:15`) is the error the others get.
The guard is in `insert`, `insert_if_not_exists`, `delete`, `delete_aux` and the
deletion of documents, but not in `put_aux`, the contract, document and identity
operations, `create_initial_state_structure` and the `abci` functions: called without
the transaction, they write to the store while it is open. This can end the thread: if both
wrote the same data GroveDB refuses the commit, and the thread panics on the `unwrap` of the
refusal (`conflict` and `MustPanic` in `DriveThread`); behind the guard it cannot (`TransactionKept`).

`docs_null_unique` refutes `ReferencesResolve`. Insertion puts the entry of a unique index into a
tree at `[0]` when any of the properties is null (`drive/src/drive/document/insert.rs:532`); deletion looks only at
`index.unique` and deletes `[0]` (`delete.rs:189`), a tree that is not empty and stays, with a
reference to a document that is gone. Update decides by `all_fields_null`
(`update.rs:427`). The other document runs have unique indices without nulls.

`query_pages` refutes `PagesAreRest`. `conditions.rs:536` says of the start document "included: whether
we should start at or after this document". For an equality as the last clause, the key of the
clause is dropped when it is the start document's and the start is not included
(`conditions.rs:566`): of two documents of one owner in an index that is not unique, the page after the
first is empty, and the page at the first has both. Nothing keeps the id of the start within the tree
of ids of a value: `recursive_insert_on_query` starts those of the empty key only (`query/mod.rs:836`).
`docs_indices` pages where the start is right: by id, and by the last property of a unique index.

`contract_history` refutes `ReadonlyNeverReplaced`: at key 0 of a contract with history is a tree, and
`apply_contract` takes it for a contract that does not exist (`contract/mod.rs:470`), so an
update inserts everything anew and `update_contract` is not reached. `fetch_contract` fails
for such a contract.

Other places of the query code where a start, or something else, is not what a caller may expect; the
model follows the code, and the properties are stated for the rest:

- with a start, `<` and `<=` in ascending order build the range from the bound to the start
  (`conditions.rs:659`, `:684`), and the betweens that exclude the left bound or both are not cut
  rightly in descending order (`conditions.rs:754`, `:792`): `StartsExactly` leaves them out;
- an index whose last property no clause uses starts the level below every key from
  the start document (`query/mod.rs:884`), not only the one below the start's own key;
- without a clause that an index serves, results come in the order of the index whatever direction is
  asked for: `order_by` is not passed on (`query/mod.rs:1003`), and without a start the level of a
  property no clause uses is visited in the index's direction (`query/mod.rs:905`);
- an order clause that cannot be read is dropped (`query/mod.rs:275`), and the limit of a SQL query
  is not bounded (`query/mod.rs:330`);
- a block time before the first version finds the latest one (`query/mod.rs:531`).

`encode_unsigned_integer` flips the sign bit of a number that has none, so those of 2^63 and above
come before all others, and `encode_float` takes -0.0 for a positive number, whose key is
then the lowest (`common/encode.rs:24`, `:83`); `UnsignedOrderInHalves` and `FloatOrderKept` say so.

Three more things that the models show when an assumption on the callers is
lifted; they are not runs, since no text of the repository says that callers may do so:

- with `RemovesTypes` true, `TypeSettingsNeverChange` fails: `update_contract` compares types that the
  stored contract has (`contract/mod.rs:276`), so a type that one update drops and the next brings
  back has other settings, and its trees are inserted again;
- with `"addAgain"` among the operations of a type with history, `IndexMatchesDocuments` fails: the id is
  checked only without history (`insert.rs:219`), so a second insertion adds a version and
  leaves the entries of the first;
- after a rollback `CacheLeads` does not hold: the cache keeps what the transaction wrote
  (`contract/mod.rs:428`), as it keeps a contract that was updated since.
