------------------------------ MODULE FeePools ------------------------------
(***************************************************************************)
(* The credit pools of Drive and what the end of a block does to them.     *)
(*                                                                         *)
(* A database value is a record `d` of the pools' part of GroveDB:         *)
(*   storagePool     storage fees waiting to be spread over future epochs  *)
(*   unpaidEpoch     oldest epoch whose proposers are not all paid         *)
(*   trees           the epochs whose subtree exists                       *)
(*   storage[e], processing[e], startHeight[e]                             *)
(*                   items of epoch e's subtree, or Missing                *)
(*   blockCount[e]   blocks per proposer in e's proposers subtree (0: no   *)
(*                   such key), or Missing when the subtree is absent      *)
(*   balance[i]      balance of identity i                                 *)
(* The operators read `d`, the database BEFORE the block's batch, as the   *)
(* code does, and give the database after the batch is applied: within a   *)
(* batch the last write to a key wins and no operation sees another.       *)
(***************************************************************************)
EXTENDS EpochInfo, FiniteSetsExt, SequencesExt

CONSTANTS LastEpochIndex,   \* largest epoch index that encodes as a key (u16)
          EpochsPerYear, StorageYears,
          YearRatio,        \* FEE_DISTRIBUTION_TABLE, in units of 1 / RatioUnit
          RatioUnit,
          PayoutsPerEpoch,  \* proposers paid per block and epoch of delay (50)
          DecimalUnit,      \* precision of rust_decimal: 1 / DecimalUnit
          PercentUnit,      \* 10000: a share percentage of 100%
          Proposers,        \* proTxHashes, ordered as their keys are
          Identities,       \* identity ids; a proposer's hash is one of them
          Shares            \* [Proposers -> Seq([payTo, percentage])]

ASSUME EpochsAssumption ==
  /\ EpochsPerYear \in Nat \ {0} /\ StorageYears \in Nat \ {0}
  /\ LastEpochIndex \in Nat
  /\ EpochsPerYear * StorageYears <= LastEpochIndex
ASSUME RatioAssumption ==
  RatioUnit \in Nat \ {0} /\ YearRatio \in [0 .. StorageYears - 1 -> Nat]
ASSUME RatioSumAssumption ==
  MapThenSumSet(LAMBDA y : YearRatio[y], 0 .. StorageYears - 1) = RatioUnit
ASSUME PayoutAssumption ==
  /\ PayoutsPerEpoch \in Nat \ {0}
  /\ DecimalUnit \in Nat \ {0} /\ PercentUnit \in Nat \ {0}
ASSUME ProposersAssumption ==
  /\ Proposers \subseteq Nat /\ IsFiniteSet(Proposers)
  /\ IsFiniteSet(Identities) /\ Proposers \subseteq Identities
ASSUME SharesAssumption ==
  Shares \in [Proposers -> Seq([payTo : Identities, percentage : 0 .. PercentUnit])]
ASSUME MissingCountsAssumption == Missing \notin [Proposers -> Nat]

PerpetualEpochs == EpochsPerYear * StorageYears
EpochIndex == 0 .. LastEpochIndex
Credits == Nat
OrMissing(S) == S \cup {Missing}

Databases ==
  [storagePool : Credits, unpaidEpoch : EpochIndex, genesisTime : OrMissing(Nat),
   trees       : SUBSET EpochIndex,
   storage     : [EpochIndex -> OrMissing(Credits)],
   processing  : [EpochIndex -> OrMissing(Credits)],
   startHeight : [EpochIndex -> OrMissing(Nat)],
   blockCount  : [EpochIndex -> OrMissing([Proposers -> Nat])],
   balance     : [Identities -> Credits]]

(* create_initial_state_structure: pools at zero, fifty years of empty epochs. *)
InitialDatabase ==
  [storagePool |-> 0, unpaidEpoch |-> GenesisEpochIndex, genesisTime |-> Missing,
   trees       |-> 0 .. PerpetualEpochs - 1,
   storage     |-> [e \in EpochIndex |-> IF e < PerpetualEpochs THEN 0 ELSE Missing],
   processing  |-> [e \in EpochIndex |-> Missing],
   startHeight |-> [e \in EpochIndex |-> Missing],
   blockCount  |-> [e \in EpochIndex |-> Missing],
   balance     |-> [i \in Identities |-> 0]]

Started(d, e) == d.startHeight[e] # Missing
NoBlocks == [p \in Proposers |-> 0]
-----------------------------------------------------------------------------
(* Spreading the storage fee pool over the next PerpetualEpochs epochs. *)

EpochFeeShare(pool, year) == (pool * YearRatio[year]) \div (RatioUnit * EpochsPerYear)

DistributionWindow(current) == current .. current + PerpetualEpochs - 1

Leftover(pool) ==
  pool - EpochsPerYear * MapThenSumSet(LAMBDA y : EpochFeeShare(pool, y), 0 .. StorageYears - 1)

Distributes(d, info) ==
  info.isChange /\ info.current # GenesisEpochIndex /\ d.storagePool # 0

StoredStorage(d, e) == IF e \in d.trees THEN d.storage[e] ELSE 0

\* Fault: only the current epoch's thousandth is created, not the skipped ones'.
NewTreesOfCurrentOnly(info) ==
  IF info.isChange THEN {info.current + PerpetualEpochs} ELSE {}

(* add_init_empty_operations for the epochs an epoch change adds at the end. *)
NewTrees(info) ==
  IF ~info.isChange THEN {}
  ELSE LET first == IF info.previous = Missing THEN GenesisEpochIndex ELSE info.previous + 1
       IN  (first + PerpetualEpochs) .. (info.current + PerpetualEpochs)

StorageAfterChange(d, info) ==
  [e \in EpochIndex |->
     IF Distributes(d, info) /\ e \in DistributionWindow(info.current)
     THEN StoredStorage(d, e)
            + EpochFeeShare(d.storagePool, (e - info.current) \div EpochsPerYear)
     ELSE IF e \in NewTrees(info) THEN 0 ELSE d.storage[e]]

DistributionFails(d, info) ==
  \/ ~(NewTrees(info) \subseteq EpochIndex)
  \/ /\ Distributes(d, info)
     /\ \/ Leftover(d.storagePool) \notin Credits
        \/ \E e \in DistributionWindow(info.current) :
              \/ e \notin d.trees \cup NewTrees(info)
              \/ e \in d.trees /\ d.storage[e] = Missing
-----------------------------------------------------------------------------
(* Which epoch is owed, and to whom. *)

NeedsPayment(d, info) ==
  info.current # GenesisEpochIndex /\ d.unpaidEpoch # info.current

(* The epochs after the unpaid one whose start height is already stored.   *)
StartedAfterUnpaid(d, current) == {e \in d.unpaidEpoch + 1 .. current : Started(d, e)}

\* Fault: epochs between the unpaid one and the current one are passed over.
NextUnpaidIsCurrent(d, info) == info.current

(* next_unpaid_epoch_index and end_block_height: at an epoch change the    *)
(* current epoch's start height is still in the batch and is passed along. *)
NextUnpaidEpoch(d, info) ==
  LET started == StartedAfterUnpaid(d, info.current)
  IN  IF d.unpaidEpoch = info.current - 1 \/ started = {} THEN info.current
      ELSE Min(started)

EndBlockHeight(d, info, height) ==
  LET next == NextUnpaidEpoch(d, info)
  IN  IF next = info.current /\ info.isChange THEN height ELSE d.startHeight[next]

\* Fault: no payments for the epoch that just ended.
ProposersLimitOffByOne(d, info) == (info.current - d.unpaidEpoch - 1) * PayoutsPerEpoch

ProposersLimit(d, info) == (info.current - d.unpaidEpoch) * PayoutsPerEpoch

UnpaidProposers(d) == {p \in Proposers : d.blockCount[d.unpaidEpoch][p] > 0}

(* get_epoch_proposers: the first `limit` keys of the proposers subtree.   *)
PaidChunk(d, info) ==
  {p \in UnpaidProposers(d) :
     Cardinality({q \in UnpaidProposers(d) : q < p}) < ProposersLimit(d, info)}

TotalCredits(d) == d.storage[d.unpaidEpoch] + d.processing[d.unpaidEpoch]

(* a / b as a Decimal: the nearest multiple of 1 / DecimalUnit.            *)
DecimalDiv(a, b) == (2 * a * DecimalUnit + b) \div (2 * b)

(* The reward-share documents of a proposer take their percentage one      *)
(* after the other, each of what the ones before left.                     *)
AfterShares(p, reward) ==
  LET Take(acc, share) ==
        LET part == (acc.left * share.percentage) \div (PercentUnit * DecimalUnit)
        IN  [left |-> acc.left - part * DecimalUnit,
             paid |-> Append(acc.paid, [id |-> share.payTo, amount |-> part])]
  IN  FoldLeft(Take, [left |-> reward, paid |-> <<>>], Shares[p])

(* A set of proposers in the order of their keys. *)
KeyOrder(S) ==
  [k \in 1 .. Cardinality(S) |-> CHOOSE p \in S : Cardinality({q \in S : q < p}) = k - 1]

(* The payments of one block, in the order they are written to the batch.  *)
(* The fractions of the chunk's rewards go to its last proposer.           *)
Payments(d, info, height) ==
  LET blocks == EndBlockHeight(d, info, height) - d.startHeight[d.unpaidEpoch]
      order  == KeyOrder(PaidChunk(d, info))
      Pay(acc, p) ==
        LET shared   == AfterShares(p, DecimalDiv(
                          TotalCredits(d) * d.blockCount[d.unpaidEpoch][p], blocks))
            whole    == shared.left \div DecimalUnit
            fraction == acc.fraction + (shared.left % DecimalUnit)
            given    == IF p = Last(order) THEN whole + fraction \div DecimalUnit ELSE whole
        IN  [fraction |-> fraction,
             paid     |-> acc.paid \o shared.paid \o <<[id |-> p, amount |-> given]>>]
  IN  FoldLeft(Pay, [fraction |-> 0, paid |-> <<>>], order).paid

(* Each payment adds to the balance read from the database, so of several  *)
(* payments to one identity in a block the last one is the one that counts. *)
PaidBalance(d, payments) ==
  [i \in Identities |->
     LET writes == {k \in DOMAIN payments : payments[k].id = i}
     IN  IF writes = {} THEN d.balance[i]
         ELSE d.balance[i] + payments[Max(writes)].amount]

PayoutFails(d, info, height) ==
  /\ NeedsPayment(d, info)
  /\ LET u == d.unpaidEpoch IN
     \/ u > info.current
     \/ ~Started(d, u)
     \/ ~info.isChange /\ StartedAfterUnpaid(d, info.current) = {}
     \/ d.blockCount[u] = Missing \/ d.storage[u] = Missing \/ d.processing[u] = Missing
     \/ EndBlockHeight(d, info, height) < d.startHeight[u]
     \/ EndBlockHeight(d, info, height) = d.startHeight[u] /\ UnpaidProposers(d) # {}
     \/ Payments(d, info, height) \notin Seq([id : Identities, amount : Credits])
-----------------------------------------------------------------------------
(* process_block_fees: the whole of a block's end. *)

ProcessBlockFeesFails(d, info, height) ==
  \/ DistributionFails(d, info)
  \/ info.current \notin d.trees
  \/ ~info.isChange /\ d.blockCount[info.current] = Missing
  \/ PayoutFails(d, info, height)

\* Fault: an epoch is passed as paid when the limit was reached.
MarkedAsPaidAtLimit(d, info) ==
  NeedsPayment(d, info) /\ Cardinality(PaidChunk(d, info)) <= ProposersLimit(d, info)

MarkedAsPaid(d, info) ==
  NeedsPayment(d, info) /\ Cardinality(PaidChunk(d, info)) < ProposersLimit(d, info)

(* The proposers subtree of epoch e after the batch: paid proposers are    *)
(* deleted, a paid epoch loses the subtree, a new epoch gets an empty one, *)
(* and the block's proposer is counted in the current epoch.               *)
BlockCountAfter(d, info, proposer) ==
  LET counted == IF info.isChange THEN NoBlocks ELSE d.blockCount[info.current]
      unpaid  == d.unpaidEpoch
  IN  [e \in EpochIndex |->
         IF e = info.current THEN [counted EXCEPT ![proposer] = @ + 1]
         ELSE IF e = unpaid /\ MarkedAsPaid(d, info) THEN Missing
         ELSE IF e = unpaid /\ NeedsPayment(d, info)
              THEN [p \in Proposers |-> IF p \in PaidChunk(d, info) THEN 0
                                        ELSE d.blockCount[e][p]]
         ELSE d.blockCount[e]]

ProcessingAfter(d, info, fees) ==
  LET e      == info.current
      stored == IF d.processing[e] = Missing THEN 0 ELSE d.processing[e]
  IN  [d.processing EXCEPT ![e] = stored + fees.processing]

\* Fault: the credits of a paid epoch stay in its pools.
KeepPaid(d, info, credits) == credits

ForgetPaid(d, info, credits) ==
  IF MarkedAsPaid(d, info) THEN [credits EXCEPT ![d.unpaidEpoch] = Missing] ELSE credits

\* Fault: the leftovers of the distribution are dropped.
StoragePoolNoLeftover(d, info, fees) ==
  fees.storage + IF Distributes(d, info) THEN 0 ELSE d.storagePool

\* Fault: the pool is distributed but not emptied.
StoragePoolKept(d, info, fees) == fees.storage + d.storagePool

\* Fault: the distributed credits are deducted twice.
StoragePoolDeductedTwice(d, info, fees) ==
  fees.storage +
    IF Distributes(d, info) THEN 2 * Leftover(d.storagePool) - d.storagePool ELSE d.storagePool

StoragePoolAfter(d, info, fees) ==
  fees.storage +
    IF ~info.isChange \/ info.current = GenesisEpochIndex THEN d.storagePool
    ELSE IF d.storagePool = 0 THEN 0 ELSE Leftover(d.storagePool)

ProcessBlockFees(d, info, height, proposer, fees) ==
  [storagePool |-> StoragePoolAfter(d, info, fees),
   unpaidEpoch |-> IF MarkedAsPaid(d, info) THEN NextUnpaidEpoch(d, info) ELSE d.unpaidEpoch,
   genesisTime |-> d.genesisTime,
   trees       |-> d.trees \cup NewTrees(info),
   storage     |-> ForgetPaid(d, info, StorageAfterChange(d, info)),
   processing  |-> ForgetPaid(d, info, ProcessingAfter(d, info, fees)),
   startHeight |-> IF info.isChange THEN [d.startHeight EXCEPT ![info.current] = height]
                   ELSE d.startHeight,
   blockCount  |-> BlockCountAfter(d, info, proposer),
   balance     |-> IF NeedsPayment(d, info) THEN PaidBalance(d, Payments(d, info, height))
                   ELSE d.balance]
=============================================================================
