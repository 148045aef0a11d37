------------------------------ MODULE Platform ------------------------------
(***************************************************************************)
(* The ABCI handlers of dash-abci over a GroveDB transaction               *)
(* (dash-abci/src/abci/handlers.rs), with what surrounds them: the         *)
(* transaction of a block may be committed, rolled back and retried with   *)
(* another proposal, or lost with the process.                             *)
(*                                                                         *)
(* `db` is the database as the open transaction sees it and `committed`    *)
(* the durable chain.  `context` and `genesisCache` live in memory: a      *)
(* rollback keeps them, a crash loses them.  `history` records, per epoch, *)
(* the blocks each proposer made and how often it was paid, and the fees   *)
(* collected; no handler reads it.                                         *)
(***************************************************************************)
EXTENDS FeePools

CONSTANTS BlockFees,  \* the fees a block may carry: records [storage, processing]
          MaxHeight,  \* bound: blocks of a behaviour
          MaxTime,    \* bound: block times
          GenesisTimes, \* bound: the times the first block may have
          MaxRetries, \* bound: rollbacks and crashes
          DrainFrom   \* bound: time stands still from this height on

ASSUME BlockFeesAssumption == BlockFees \subseteq [storage : Credits, processing : Credits]
ASSUME BoundsAssumption == MaxTime \in Nat /\ MaxHeight \in Nat
(* The rounding of a block's rewards, half a unit of the decimals for each  *)
(* proposer, is less than the smallest fraction a reward can have.          *)
ASSUME PrecisionAssumption == Cardinality(Proposers) * MaxHeight < 2 * DecimalUnit

VARIABLES db, history, committed, context, genesisCache, stage, retries

vars == <<db, history, committed, context, genesisCache, stage, retries>>

EmptyHistory ==
  [produced  |-> [e \in EpochIndex |-> NoBlocks],
   payments  |-> [e \in EpochIndex |-> NoBlocks],
   collected |-> 0, chunks |-> 0]

Histories ==
  [produced : [EpochIndex -> [Proposers -> Nat]], payments : [EpochIndex -> [Proposers -> Nat]],
   collected : Nat, chunks : Nat]

Contexts == [height : Nat, time : Nat, proposer : Proposers, info : EpochInfos]

(* A committed chain: the database and the last block's height and time.   *)
Chains == [db : Databases, history : Histories, height : Nat, time : OrMissing(Nat)]

(* The chain after init_chain was committed. *)
Init ==
  /\ db = InitialDatabase
  /\ history = EmptyHistory
  /\ committed = [db |-> InitialDatabase, history |-> EmptyHistory,
                  height |-> 0, time |-> Missing]
  /\ context = Missing
  /\ genesisCache = Missing
  /\ stage = "idle"
  /\ retries = 0
-----------------------------------------------------------------------------
NextHeight == committed.height + 1
FirstBlock == NextHeight = 1

(* What get_genesis_time answers: the cache, else the database. *)
KnownGenesisTime == IF genesisCache # Missing THEN genesisCache ELSE db.genesisTime

\* Fault: a genesis time already in memory is trusted for the first block too.
GenesisTimeFromMemory(t) == IF KnownGenesisTime # Missing THEN KnownGenesisTime ELSE t

(* The genesis time block_begin computes with: the first block's own time. *)
GenesisTimeFor(t) == IF FirstBlock THEN t ELSE KnownGenesisTime

(* Tenderdash's block times do not decrease, and the chain never halts for *)
(* longer than the epochs that exist ahead of it.                          *)
ProposableTime(t, genesis) ==
  /\ FirstBlock => t \in GenesisTimes
  /\ ~FirstBlock =>
       /\ t >= committed.time
       /\ EpochIndexAt(genesis, t) <= EpochIndexAt(genesis, committed.time) + PerpetualEpochs
       /\ EpochIndexAt(genesis, t) + PerpetualEpochs <= LastEpochIndex
       /\ NextHeight >= DrainFrom => t = committed.time

BlockBegin(t, proposer) ==
  LET genesis == GenesisTimeFor(t)
  IN  /\ stage = "idle"
      /\ NextHeight <= MaxHeight
      /\ genesis # Missing
      /\ ProposableTime(t, genesis)
      /\ genesisCache' = genesis
      /\ db' = IF FirstBlock THEN [db EXCEPT !.genesisTime = t] ELSE db
      /\ context' = [height |-> NextHeight, time |-> t, proposer |-> proposer,
                     info |-> CalculateEpochInfo(genesis, t, committed.time)]
      /\ stage' = "begun"
      /\ UNCHANGED <<history, committed, retries>>

(* What the block adds to the history. *)
HistoryAfter(fees) ==
  LET e    == context.info.current
      u    == db.unpaidEpoch
      paid == IF NeedsPayment(db, context.info) THEN PaidChunk(db, context.info) ELSE {}
  IN  [produced  |-> [history.produced EXCEPT ![e][context.proposer] = @ + 1],
       payments  |-> [history.payments EXCEPT ![u] =
                        [p \in Proposers |-> IF p \in paid THEN @[p] + 1 ELSE @[p]]],
       collected |-> history.collected + fees.storage + fees.processing,
       chunks    |-> IF paid = {} THEN history.chunks ELSE history.chunks + 1]

BlockEnd(fees) ==
  /\ stage = "begun"
  /\ ~ProcessBlockFeesFails(db, context.info, context.height)
  /\ db' = ProcessBlockFees(db, context.info, context.height, context.proposer, fees)
  /\ history' = HistoryAfter(fees)
  /\ stage' = "ended"
  /\ UNCHANGED <<committed, context, genesisCache, retries>>

CommitTransaction ==
  /\ stage = "ended"
  /\ committed' = [db |-> db, history |-> history,
                   height |-> context.height, time |-> context.time]
  /\ stage' = "idle"
  /\ UNCHANGED <<db, history, context, genesisCache, retries>>

ToCommitted ==
  /\ db' = committed.db
  /\ history' = committed.history
  /\ stage' = "idle"
  /\ retries < MaxRetries
  /\ retries' = retries + 1
  /\ UNCHANGED committed

(* rollback_transaction or a dropped transaction: the memory is kept. *)
RollbackTransaction ==
  /\ stage # "idle"
  /\ ToCommitted
  /\ UNCHANGED <<context, genesisCache>>

(* The process ends and Platform::open starts a new one. *)
Restart ==
  /\ ToCommitted
  /\ context' = Missing
  /\ genesisCache' = Missing

Next ==
  \/ \E t \in 0 .. MaxTime, p \in Proposers : BlockBegin(t, p)
  \/ \E fees \in BlockFees : BlockEnd(fees)
  \/ CommitTransaction
  \/ RollbackTransaction
  \/ Restart

Spec == Init /\ [][Next]_vars

(* Tenderdash keeps proposing blocks and ends the ones it began.           *)
FairSpec ==
  /\ Spec
  /\ WF_vars(\E t \in 0 .. MaxTime, p \in Proposers : BlockBegin(t, p))
  /\ WF_vars(\E fees \in BlockFees : BlockEnd(fees))
  /\ WF_vars(CommitTransaction)
-----------------------------------------------------------------------------
(* Every variable holds a value of its type. *)
TypeOK ==
  /\ db \in Databases
  /\ history \in Histories
  /\ committed \in Chains
  /\ context \in OrMissing(Contexts)
  /\ genesisCache \in OrMissing(Nat)
  /\ stage \in {"idle", "begun", "ended"}
  /\ retries \in Nat

(* No sequence of blocks, halts, rollbacks and restarts brings a handler    *)
(* to one of its error returns: a block that began can end, and a later     *)
(* block finds the genesis time.                                            *)
HandlersNeverFail ==
  /\ stage = "begun" => ~ProcessBlockFeesFails(db, context.info, context.height)
  /\ stage = "idle" /\ ~FirstBlock => KnownGenesisTime # Missing

(* The genesis time in memory is the one in the database, and the epoch of  *)
(* the block being executed is computed from it, whatever was rolled back   *)
(* or lost before.                                                          *)
GenesisTimeCoherent ==
  /\ committed.height > 0 => genesisCache \in {Missing, committed.db.genesisTime}
  /\ stage # "idle" =>
       /\ genesisCache = db.genesisTime
       /\ context.info.current = EpochIndexAt(db.genesisTime, context.time)

LastHeight == IF stage = "ended" THEN context.height ELSE committed.height

BlocksOf(counts) == MapThenSumSet(LAMBDA p : counts[p], Proposers)

(* The blocks counted for an epoch's proposers are the blocks between its   *)
(* start height and the next epoch's: the divisor of every reward.          *)
BlocksMatchHeights ==
  \A e \in EpochIndex : Started(db, e) =>
    LET later == {n \in EpochIndex : n > e /\ Started(db, n)}
        end   == IF later = {} THEN LastHeight + 1 ELSE db.startHeight[Min(later)]
    IN  BlocksOf(history.produced[e]) = end - db.startHeight[e]

(* Each proposer of an epoch is paid for it once: never twice, not before   *)
(* the older epochs are settled, and no later than when the epoch is passed *)
(* as paid.                                                                 *)
PaidExactlyOnce ==
  \A e \in EpochIndex, p \in Proposers :
    LET produced == history.produced[e][p]
        times    == history.payments[e][p]
    IN  /\ e < db.unpaidEpoch => times = (IF produced > 0 THEN 1 ELSE 0)
        /\ e > db.unpaidEpoch => times = 0
        /\ e = db.unpaidEpoch /\ Started(db, e) =>
             /\ times \in {0, 1} /\ times <= produced
             /\ db.blockCount[e][p] = (IF times = 0 THEN produced ELSE 0)

(* Credits held, apart from the oldest unpaid epoch's. *)
CreditsOf(d, e) ==
  (IF d.storage[e] = Missing THEN 0 ELSE d.storage[e])
    + (IF d.processing[e] = Missing THEN 0 ELSE d.processing[e])
SettledCredits(d) ==
  d.storagePool + MapThenSumSet(LAMBDA e : CreditsOf(d, e), EpochIndex \ {d.unpaidEpoch})
    + MapThenSumSet(LAMBDA i : d.balance[i], Identities)

UnpaidBlocks(d) ==
  IF d.blockCount[d.unpaidEpoch] = Missing THEN 0 ELSE BlocksOf(d.blockCount[d.unpaidEpoch])

(* Balances, pools and what the unpaid epoch still owes (its credits in     *)
(* proportion to the blocks not paid yet) are never more than the fees      *)
(* collected.  Both sides are multiplied by the epoch's blocks.             *)
NoCreditsCreated ==
  LET blocks == BlocksOf(history.produced[db.unpaidEpoch])
  IN  blocks > 0 =>
        SettledCredits(db) * blocks + CreditsOf(db, db.unpaidEpoch) * UnpaidBlocks(db)
          <= history.collected * blocks

(* ... and less by at most one credit for each block that paid proposers.   *)
NoCreditsLost ==
  LET blocks == BlocksOf(history.produced[db.unpaidEpoch])
  IN  blocks > 0 =>
        (SettledCredits(db) + history.chunks) * blocks
            + CreditsOf(db, db.unpaidEpoch) * UnpaidBlocks(db)
          >= history.collected * blocks

(* An epoch change spreads the whole storage fee pool: what stays is less   *)
(* than a credit for each epoch it is spread over.                          *)
PoolSpreadAtEpochChange ==
  [][\A fees \in BlockFees :
       BlockEnd(fees) /\ Distributes(db, context.info) =>
         db'.storagePool - fees.storage < PerpetualEpochs]_vars

(* Every payment of a block reaches the balance of the identity it is for.  *)
PaymentsCredited ==
  [][\A fees \in BlockFees : BlockEnd(fees) /\ NeedsPayment(db, context.info) =>
       LET payments == Payments(db, context.info, context.height)
       IN  \A i \in Identities :
             db'.balance[i] - db.balance[i] =
               MapThenSumSet(LAMBDA k : payments[k].amount,
                             {k \in DOMAIN payments : payments[k].id = i})]_vars

(* The proposers of an epoch that is over are all paid, sooner or later.    *)
EpochsGetPaid ==
  \A e \in EpochIndex :
    (\E n \in EpochIndex : n > e /\ Started(committed.db, n)) ~> committed.db.unpaidEpoch > e
-----------------------------------------------------------------------------
(* The rewards of the durable chain, seen as a ledger. *)
LedgerEpoch ==
  IF committed.height = 0 THEN GenesisEpochIndex
  ELSE EpochIndexAt(committed.db.genesisTime, committed.time)
LedgerDue ==
  [e \in EpochIndex |->
     IF committed.db.blockCount[e] = Missing THEN {}
     ELSE {p \in Proposers : committed.db.blockCount[e][p] > 0}]
LedgerPaid ==
  [e \in EpochIndex |-> {p \in Proposers : committed.history.payments[e][p] > 0}]

Ledger == INSTANCE RewardLedger
            WITH Epochs <- EpochIndex, Members <- Proposers,
                 current <- LedgerEpoch, due <- LedgerDue, paid <- LedgerPaid

(* Every committed block is a step of the reward ledger: rewards are paid   *)
(* oldest epoch first, only for epochs that are over, and once.             *)
ImplementsRewardLedger == Ledger!LedgerSpec
=============================================================================
