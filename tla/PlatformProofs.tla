--------------------------- MODULE PlatformProofs ---------------------------
(***************************************************************************)
(* Theorems about the block handlers, for every value of the constants:    *)
(* type correctness, the coherence of the genesis time kept in memory with *)
(* the database, across commits, rollbacks and restarts, and the spreading *)
(* of the storage pool.  The first part is about the operators of FeePools:*)
(* what a block's end writes is again a database value, and what the chunk *)
(* of proposers it pays contains.                                          *)
(***************************************************************************)
EXTENDS Platform, SumLemmas, SequenceTheorems

(* Dividing by the epoch length keeps the order of times. *)
LEMMA DivMonotone ==
  ASSUME NEW a \in Int, NEW b \in Int, a <= b, NEW k \in Nat \ {0}
  PROVE  a \div k <= b \div k
  BY Z3

(* The quotient of naturals is a natural. *)
LEMMA DivNat == ASSUME NEW a \in Nat, NEW k \in Nat \ {0} PROVE a \div k \in Nat
  BY Z3

(* A quotient stays below m when the dividend stays below k * m. *)
LEMMA DivBound ==
  ASSUME NEW a \in Nat, NEW k \in Nat \ {0}, NEW m \in Nat, a < k * m
  PROVE  a \div k \in 0 .. m - 1
  <1> DEFINE q == a \div k
  <1>1. q \in Nat /\ k * q <= a
    BY Z3
  <1>2. q >= m => k * q >= k * m
    BY <1>1, Z3
  <1> QED
    BY <1>1, <1>2, Z3
-----------------------------------------------------------------------------
(* A share of the storage fee pool is a whole number of credits. *)
LEMMA EpochFeeShareType ==
  ASSUME NEW pool \in Credits, NEW year \in 0 .. StorageYears - 1
  PROVE  EpochFeeShare(pool, year) \in Credits
  <1>1. RatioUnit * EpochsPerYear \in Nat \ {0}
    BY RatioAssumption, EpochsAssumption, Z3
  <1>2. YearRatio[year] \in Nat
    BY RatioAssumption
  <1>3. pool * YearRatio[year] \in Nat
    BY <1>2, Z3 DEF Credits
  <1> QED
    BY <1>1, <1>3, DivNat DEF EpochFeeShare, Credits

(* The oldest unpaid epoch moves to an epoch index, the current one or one  *)
(* that has started after it.                                               *)
LEMMA NextUnpaidEpochType ==
  ASSUME NEW d \in Databases, NEW info \in EpochInfos, info.current \in EpochIndex,
         info.current # GenesisEpochIndex, d.unpaidEpoch < info.current
  PROVE  LET next == NextUnpaidEpoch(d, info)
         IN  /\ next \in EpochIndex
             /\ d.unpaidEpoch < next /\ next <= info.current
             /\ next = info.current \/ Started(d, next)
             /\ \A e \in EpochIndex : d.unpaidEpoch < e /\ e < next => ~Started(d, e)
  <1> DEFINE S == StartedAfterUnpaid(d, info.current)
  <1>1. d.unpaidEpoch \in Nat /\ info.current \in Nat /\ S \in SUBSET Nat
    BY DEF Databases, EpochIndex, EpochInfos, StartedAfterUnpaid
  <1>2. CASE d.unpaidEpoch = info.current - 1
    BY <1>1, <1>2 DEF NextUnpaidEpoch, EpochIndex
  <1>3. CASE d.unpaidEpoch # info.current - 1 /\ S = {}
    BY <1>1, <1>3, EpochsAssumption DEF NextUnpaidEpoch, EpochIndex, StartedAfterUnpaid
  <1>4. CASE d.unpaidEpoch # info.current - 1 /\ S # {}
    <2>1. Min(S) \in S /\ \A y \in S : Min(S) <= y
      BY <1>1, <1>4, LeastElement
    <2>2. NextUnpaidEpoch(d, info) = Min(S)
      BY <1>4 DEF NextUnpaidEpoch
    <2>3. /\ Min(S) \in d.unpaidEpoch + 1 .. info.current
          /\ Started(d, Min(S))
      BY <2>1 DEF StartedAfterUnpaid
    <2>4. ASSUME NEW e \in EpochIndex, d.unpaidEpoch < e, e < Min(S), Started(d, e)
          PROVE  FALSE
      BY <1>1, <2>1, <2>3, <2>4, EpochsAssumption DEF StartedAfterUnpaid, EpochIndex
    <2> QED
      BY <1>1, <2>2, <2>3, <2>4, EpochsAssumption DEF EpochIndex
  <1> QED
    BY <1>2, <1>3, <1>4
-----------------------------------------------------------------------------
(* The storage fee pool holds a number of credits after a block. *)
LEMMA StoragePoolType ==
  ASSUME NEW d \in Databases, NEW info \in EpochInfos, ~DistributionFails(d, info),
         NEW fees \in [storage : Credits, processing : Credits]
  PROVE  StoragePoolAfter(d, info, fees) \in Credits
  <1>1. d.storagePool \in Nat /\ fees.storage \in Nat
    BY DEF Databases, Credits
  <1>2. Distributes(d, info) => Leftover(d.storagePool) \in Nat
    BY DEF DistributionFails, Credits
  <1>3. CASE ~info.isChange \/ info.current = GenesisEpochIndex
    BY <1>1, <1>3 DEF StoragePoolAfter, Credits
  <1>4. CASE info.isChange /\ info.current # GenesisEpochIndex /\ d.storagePool = 0
    BY <1>1, <1>4 DEF StoragePoolAfter, Credits
  <1>5. CASE info.isChange /\ info.current # GenesisEpochIndex /\ d.storagePool # 0
    <2>1. Leftover(d.storagePool) \in Nat
      BY <1>2, <1>5 DEF Distributes
    <2> QED
      BY <1>1, <1>5, <2>1 DEF StoragePoolAfter, Credits
  <1> QED
    BY <1>3, <1>4, <1>5

(* The epochs' storage pools hold credits or are missing after an epoch change. *)
LEMMA StorageType ==
  ASSUME NEW d \in Databases, NEW info \in EpochInfos, ~DistributionFails(d, info)
  PROVE  StorageAfterChange(d, info) \in [EpochIndex -> OrMissing(Credits)]
  <1>1. d.storagePool \in Credits /\ info.current \in Nat
    BY DEF Databases, EpochInfos
  <1> SUFFICES ASSUME NEW e \in EpochIndex
               PROVE  StorageAfterChange(d, info)[e] \in OrMissing(Credits)
    BY DEF StorageAfterChange
  <1>2. d.storage[e] \in OrMissing(Credits)
    BY DEF Databases
  <1>3. CASE Distributes(d, info) /\ e \in DistributionWindow(info.current)
    <2> DEFINE year == (e - info.current) \div EpochsPerYear
    <2>1. e - info.current \in Nat /\ e - info.current < EpochsPerYear * StorageYears
      BY <1>1, <1>3, EpochsAssumption DEF DistributionWindow, PerpetualEpochs, EpochIndex
    <2>2. year \in 0 .. StorageYears - 1
      BY <2>1, EpochsAssumption, DivBound
    <2>3. EpochFeeShare(d.storagePool, year) \in Nat
      BY <1>1, <2>2, EpochFeeShareType DEF Credits
    <2>4. StoredStorage(d, e) \in Nat
      BY <1>2, <1>3 DEF StoredStorage, DistributionFails, OrMissing, Credits
    <2>5. StorageAfterChange(d, info)[e] = StoredStorage(d, e) + EpochFeeShare(d.storagePool, year)
      BY <1>3 DEF StorageAfterChange
    <2> QED
      BY <2>3, <2>4, <2>5 DEF OrMissing, Credits
  <1>4. CASE ~(Distributes(d, info) /\ e \in DistributionWindow(info.current))
    BY <1>2, <1>4 DEF StorageAfterChange, OrMissing, Credits
  <1> QED
    BY <1>3, <1>4

(* The current epoch's processing pool takes the block's fees. *)
LEMMA ProcessingType ==
  ASSUME NEW d \in Databases, NEW info \in EpochInfos,
         NEW fees \in [storage : Credits, processing : Credits]
  PROVE  ProcessingAfter(d, info, fees) \in [EpochIndex -> OrMissing(Credits)]
  <1> DEFINE stored == IF d.processing[info.current] = Missing THEN 0
                       ELSE d.processing[info.current]
  <1>1. d.processing \in [EpochIndex -> OrMissing(Credits)] /\ fees.processing \in Nat
    BY DEF Databases, Credits
  <1>2. info.current \in EpochIndex => stored + fees.processing \in Nat
    BY <1>1 DEF OrMissing, Credits
  <1> QED
    BY <1>1, <1>2 DEF ProcessingAfter, OrMissing, Credits

(* What ForgetPaid keeps are the credits it was given. *)
LEMMA ForgetPaidType ==
  ASSUME NEW d, NEW info, NEW credits \in [EpochIndex -> OrMissing(Credits)]
  PROVE  ForgetPaid(d, info, credits) \in [EpochIndex -> OrMissing(Credits)]
  BY DEF ForgetPaid, OrMissing

(* The block counts after a block are counts, or missing. *)
LEMMA BlockCountType ==
  ASSUME NEW d \in Databases, NEW info \in EpochInfos, NEW height \in Nat,
         NEW proposer \in Proposers, ~ProcessBlockFeesFails(d, info, height)
  PROVE  BlockCountAfter(d, info, proposer)
           \in [EpochIndex -> OrMissing([Proposers -> Nat])]
  <1> DEFINE counted == IF info.isChange THEN NoBlocks ELSE d.blockCount[info.current]
  <1>1. d.blockCount \in [EpochIndex -> OrMissing([Proposers -> Nat])]
    BY DEF Databases
  <1> SUFFICES ASSUME NEW e \in EpochIndex
               PROVE  BlockCountAfter(d, info, proposer)[e] \in OrMissing([Proposers -> Nat])
    BY DEF BlockCountAfter
  <1>2. CASE e = info.current
    <2>1. counted \in [Proposers -> Nat]
      BY <1>1, <1>2 DEF NoBlocks, ProcessBlockFeesFails, OrMissing
    <2>2. [counted EXCEPT ![proposer] = @ + 1] \in [Proposers -> Nat]
      BY <2>1
    <2> QED
      BY <1>2, <2>2 DEF BlockCountAfter, OrMissing
  <1>3. CASE e # info.current /\ e = d.unpaidEpoch /\ ~MarkedAsPaid(d, info)
             /\ NeedsPayment(d, info)
    <2>1. d.blockCount[e] \in [Proposers -> Nat]
      BY <1>1, <1>3 DEF ProcessBlockFeesFails, PayoutFails, OrMissing
    <2>2. [p \in Proposers |-> IF p \in PaidChunk(d, info) THEN 0 ELSE d.blockCount[e][p]]
            \in [Proposers -> Nat]
      BY <2>1
    <2> QED
      BY <1>3, <2>2 DEF BlockCountAfter, OrMissing
  <1>4. CASE e # info.current /\ ~(e = d.unpaidEpoch /\ ~MarkedAsPaid(d, info)
                                   /\ NeedsPayment(d, info))
    BY <1>1, <1>4 DEF BlockCountAfter, OrMissing
  <1> QED
    BY <1>2, <1>3, <1>4

(* Paying rewards changes balances to balances. *)
LEMMA PaidBalanceType ==
  ASSUME NEW d \in Databases, NEW payments \in Seq([id : Identities, amount : Credits])
  PROVE  PaidBalance(d, payments) \in [Identities -> Credits]
  <1> SUFFICES ASSUME NEW i \in Identities
               PROVE  PaidBalance(d, payments)[i] \in Credits
    BY DEF PaidBalance
  <1> DEFINE writes == {k \in DOMAIN payments : payments[k].id = i}
  <1>1. d.balance[i] \in Nat
    BY DEF Databases, Credits
  <1>2. CASE writes = {}
    BY <1>1, <1>2 DEF PaidBalance, Credits
  <1>3. CASE writes # {}
    <2>1. Len(payments) \in Nat /\ writes \in SUBSET (1 .. Len(payments))
      OBVIOUS
    <2>2. Max(writes) \in writes
      BY <1>3, <2>1, GreatestElement
    <2> DEFINE last == payments[Max(writes)]
    <2>3. last \in [id : Identities, amount : Credits]
      BY <2>1, <2>2, ElementOfSeq
    <2>4. last.amount \in Nat
      BY <2>3 DEF Credits
    <2>5. PaidBalance(d, payments)[i] = d.balance[i] + last.amount
      BY <1>3 DEF PaidBalance
    <2> QED
      BY <1>1, <2>4, <2>5 DEF Credits
  <1> QED
    BY <1>2, <1>3

(* A block's end that reaches none of its error returns writes a database. *)
LEMMA ProcessBlockFeesType ==
  ASSUME NEW d \in Databases, NEW info \in EpochInfos, NEW height \in Nat,
         NEW proposer \in Proposers, NEW fees \in [storage : Credits, processing : Credits],
         ~ProcessBlockFeesFails(d, info, height)
  PROVE  ProcessBlockFees(d, info, height, proposer, fees) \in Databases
  <1> DEFINE after == ProcessBlockFees(d, info, height, proposer, fees)
  <1>1. ~DistributionFails(d, info) /\ ~PayoutFails(d, info, height)
        /\ d.trees \in SUBSET EpochIndex /\ info.current \in d.trees
        /\ info.current \in EpochIndex
    BY DEF ProcessBlockFeesFails, Databases
  <1>2. after.storagePool \in Credits
    BY <1>1, StoragePoolType DEF ProcessBlockFees
  <1>3. after.unpaidEpoch \in EpochIndex
    <2>1. CASE MarkedAsPaid(d, info)
      <3>1. info.current # GenesisEpochIndex /\ d.unpaidEpoch # info.current
            /\ ~(d.unpaidEpoch > info.current)
        BY <1>1, <2>1 DEF MarkedAsPaid, NeedsPayment, PayoutFails
      <3>2. d.unpaidEpoch \in Nat /\ info.current \in Nat
        BY DEF Databases, EpochIndex, EpochInfos
      <3>3. NextUnpaidEpoch(d, info) \in EpochIndex
        BY <1>1, <3>1, <3>2, NextUnpaidEpochType
      <3> QED
        BY <2>1, <3>3 DEF ProcessBlockFees
    <2>2. CASE ~MarkedAsPaid(d, info)
      BY <2>2 DEF ProcessBlockFees, Databases
    <2> QED
      BY <2>1, <2>2
  <1>4. after.trees \in SUBSET EpochIndex
    BY <1>1 DEF ProcessBlockFees, DistributionFails
  <1>5. after.storage \in [EpochIndex -> OrMissing(Credits)]
    BY <1>1, StorageType, ForgetPaidType DEF ProcessBlockFees
  <1>6. after.processing \in [EpochIndex -> OrMissing(Credits)]
    BY ProcessingType, ForgetPaidType DEF ProcessBlockFees
  <1>7. after.startHeight \in [EpochIndex -> OrMissing(Nat)]
    BY DEF ProcessBlockFees, Databases, OrMissing
  <1>8. after.blockCount \in [EpochIndex -> OrMissing([Proposers -> Nat])]
    BY BlockCountType DEF ProcessBlockFees
  <1>9. after.balance \in [Identities -> Credits]
    <2>1. CASE NeedsPayment(d, info)
      <3>1. Payments(d, info, height) \in Seq([id : Identities, amount : Credits])
        BY <1>1, <2>1 DEF PayoutFails
      <3> QED
        BY <2>1, <3>1, PaidBalanceType DEF ProcessBlockFees
    <2>2. CASE ~NeedsPayment(d, info)
      BY <2>2 DEF ProcessBlockFees, Databases
    <2> QED
      BY <2>1, <2>2
  <1>10. after.genesisTime \in OrMissing(Nat)
    BY DEF ProcessBlockFees, Databases
  <1>11. after = [storagePool |-> after.storagePool, unpaidEpoch |-> after.unpaidEpoch,
                  genesisTime |-> after.genesisTime, trees |-> after.trees,
                  storage |-> after.storage, processing |-> after.processing,
                  startHeight |-> after.startHeight, blockCount |-> after.blockCount,
                  balance |-> after.balance]
    BY DEF ProcessBlockFees
  <1> HIDE DEF after
  <1>12. after \in Databases
    BY <1>2, <1>3, <1>4, <1>5, <1>6, <1>7, <1>8, <1>9, <1>10, <1>11 DEF Databases
  <1> QED
    BY <1>12 DEF after
-----------------------------------------------------------------------------
(* When fewer proposers are paid than the limit allows, nobody is left: an  *)
(* epoch is passed as paid only if its last chunk holds all its proposers.  *)
LEMMA LastChunk ==
  ASSUME NEW d \in Databases, NEW info \in EpochInfos, MarkedAsPaid(d, info)
  PROVE  PaidChunk(d, info) = UnpaidProposers(d)
  <1> DEFINE U == UnpaidProposers(d)
             Chunk == PaidChunk(d, info)
             Limit == ProposersLimit(d, info)
             Before(p) == {q \in U : q < p}
  <1>1. U \in SUBSET Nat /\ U \in SUBSET Proposers /\ IsFiniteSet(Proposers)
    BY ProposersAssumption DEF UnpaidProposers
  <1>2. IsFiniteSet(U)
    BY <1>1, FS_Subset
  <1>3. Chunk = {p \in U : Cardinality(Before(p)) < Limit}
    BY DEF PaidChunk
  <1>4. Chunk \in SUBSET U /\ IsFiniteSet(Chunk) /\ Cardinality(Chunk) \in Nat
    BY <1>2, <1>3, FS_Subset, FS_CardinalityType
  <1>5. Cardinality(Chunk) < Limit
    BY DEF MarkedAsPaid
  <1>6. Limit \in Int
    <2>1. info.current - d.unpaidEpoch \in Int /\ PayoutsPerEpoch \in Int
      BY PayoutAssumption DEF EpochInfos, Databases, EpochIndex
    <2> QED
      BY <2>1, Z3 DEF ProposersLimit
  <1>7. ASSUME U \ Chunk # {}
        PROVE  FALSE
    <2> DEFINE Rest == U \ Chunk
               m == Min(Rest)
    <2>1. Rest \in SUBSET Nat
      BY <1>1
    <2>2. m \in Rest /\ \A q \in Rest : m <= q
      BY <1>7, <2>1, LeastElement
    <2> HIDE DEF m
    <2>3. Before(m) \in SUBSET Chunk
      <3> SUFFICES ASSUME NEW q \in U, q < m PROVE q \in Chunk
        OBVIOUS
      <3>1. q \in Nat /\ m \in Nat
        BY <1>1, <2>2
      <3> QED
        BY <2>2, <3>1
    <2> HIDE DEF Chunk
    <2>4. IsFiniteSet(Before(m)) /\ Cardinality(Before(m)) <= Cardinality(Chunk)
      BY <1>4, <2>3, FS_Subset
    <2>5. Cardinality(Before(m)) \in Nat
      BY <2>4, FS_CardinalityType
    <2>6. Cardinality(Before(m)) < Limit
      BY <1>4, <1>5, <1>6, <2>4, <2>5
    <2> QED
      BY <1>3, <2>2, <2>6
  <1> QED
    BY <1>4, <1>7
-----------------------------------------------------------------------------
Years == 0 .. StorageYears - 1

(* The sum of the yearly shares, with the shares as a function. *)
LEMMA ShareSum ==
  ASSUME NEW pool
  PROVE  MapThenSumSet(LAMBDA y : EpochFeeShare(pool, y), Years)
           = Sum([y \in Years |-> EpochFeeShare(pool, y)], Years)
  <1> DEFINE share == [y \in Years |-> EpochFeeShare(pool, y)]
             Eq(g) == g = [s \in SUBSET Years |->
                             IF s = {} THEN 0
                             ELSE EpochFeeShare(pool, Picked(s)) + g[s \ {Picked(s)}]]
  <1>1. IsFiniteSet(Years)
    BY EpochsAssumption, FS_Interval DEF Years
  <1>2. MapThenSumSet(LAMBDA y : EpochFeeShare(pool, y), Years) = (CHOOSE g : Eq(g))[Years]
    BY DEF MapThenSumSet, MapThenFoldSet, Picked
  <1>3. \A s \in SUBSET Years : s # {} => share[Picked(s)] = EpochFeeShare(pool, Picked(s))
    BY DEF Picked
  <1>4. \A g : Eq(g) <=> PartialSums(g, share, Years)
    <2> HIDE DEF share
    <2> QED
      BY <1>3 DEF PartialSums
  <1> HIDE DEF share
  <1>5. Eq(CHOOSE g : Eq(g))
    <2>1. \E g : Eq(g)
      BY <1>1, <1>4, PartialSumsExist
    <2> QED
      BY <2>1, Zenon
  <1> HIDE DEF Eq
  <1> QED
    BY <1>1, <1>2, <1>4, <1>5, SumOfPartial DEF share

(* The yearly ratios add up to one. *)
LEMMA RatioSum == Sum(YearRatio, Years) = RatioUnit
  BY RatioSumAssumption DEF Sum, Years

(* The leftovers of a distribution are a whole number of credits, less than *)
(* one for every epoch it is spread over.                                   *)
LEMMA LeftoverBound ==
  ASSUME NEW pool \in Credits
  PROVE  Leftover(pool) \in Credits /\ Leftover(pool) < PerpetualEpochs
  <1> DEFINE share == [y \in Years |-> EpochFeeShare(pool, y)]
             k == RatioUnit * EpochsPerYear
             part == [y \in Years |-> pool * YearRatio[y]]
             whole == [y \in Years |-> k * share[y]]
             zero == [y \in Years |-> 0]
             most == [y \in Years |-> k - 1]
             next == [y \in Years |-> k * share[y] + (k - 1)]
             total == Sum(share, Years)
  <1>1. /\ pool \in Nat /\ RatioUnit \in Nat \ {0} /\ EpochsPerYear \in Nat \ {0}
        /\ StorageYears \in Nat \ {0} /\ IsFiniteSet(Years) /\ Cardinality(Years) = StorageYears
        /\ \A y \in Years : YearRatio[y] \in Nat
    <2>1. StorageYears \in Nat \ {0} /\ EpochsPerYear \in Nat \ {0}
      BY EpochsAssumption
    <2>2. IsFiniteSet(Years) /\ Cardinality(Years) = StorageYears
      BY <2>1, FS_Interval DEF Years
    <2> QED
      BY <2>1, <2>2, RatioAssumption DEF Credits, Years
  <1>2. k \in Nat \ {0}
    BY <1>1, Z3
  <1>3. \A y \in Years :
          /\ share[y] \in Nat /\ part[y] \in Nat
          /\ k * share[y] <= part[y] /\ part[y] <= k * share[y] + (k - 1)
          /\ k * share[y] \in Nat
    <2> TAKE y \in Years
    <2>1. share[y] = part[y] \div k
      BY DEF EpochFeeShare
    <2>2. part[y] \in Nat
      BY <1>1, Z3
    <2> HIDE DEF share, part, k
    <2> QED
      BY <1>2, <2>1, <2>2, Z3
  <1> HIDE DEF share, k
  <1>4. Sum(part, Years) = pool * RatioUnit
    <2>1. \A y \in Years : part[y] = pool * YearRatio[y] + zero[y] /\ zero[y] = 0
      BY <1>1, <1>3
    <2>2. Sum(zero, Years) = 0 * Cardinality(Years)
      BY <1>1, SumConstant
    <2> HIDE DEF part, zero
    <2>3. Sum(part, Years) = pool * Sum(YearRatio, Years) + Sum(zero, Years)
      <3>1. Linear(part, pool, YearRatio, zero, Years)
        BY <1>1, <1>3, <2>1 DEF Linear
      <3>2. pool \in Int
        BY <1>1, <1>2
      <3> QED
        BY <1>1, <3>1, <3>2, SumLinear
    <2>4. pool * RatioUnit \in Nat
      BY <1>1, Z3
    <2> QED
      BY <1>1, <2>2, <2>3, <2>4, RatioSum
  <1>5. total \in Nat
    BY <1>1, <1>3, SumNat
  <1>6. k * total <= pool * RatioUnit
    <2>1. \A y \in Years : whole[y] = k * share[y] + zero[y] /\ zero[y] = 0
      BY <1>3
    <2>2. Sum(zero, Years) = 0 * Cardinality(Years)
      BY <1>1, SumConstant
    <2>3. \A y \in Years : whole[y] <= part[y]
      BY <1>3
    <2> HIDE DEF part, zero, whole
    <2>4. Sum(whole, Years) = k * total + Sum(zero, Years)
      <3>1. Linear(whole, k, share, zero, Years)
        BY <1>1, <1>2, <1>3, <2>1 DEF Linear
      <3>2. k \in Int
        BY <1>1, <1>2
      <3> QED
        BY <1>1, <3>1, <3>2, SumLinear
    <2>5. Sum(whole, Years) <= Sum(part, Years)
      BY <1>1, <1>3, <2>1, <2>3, SumMonotone
    <2>6. k * total \in Nat
      BY <1>2, <1>5, Z3
    <2> QED
      BY <1>1, <1>4, <2>2, <2>4, <2>5, <2>6
  <1>7. pool * RatioUnit <= k * total + (k - 1) * StorageYears
    <2>1. \A y \in Years : next[y] = k * share[y] + most[y] /\ most[y] = k - 1
                           /\ part[y] <= next[y] /\ next[y] \in Int
      BY <1>2, <1>3
    <2> HIDE DEF part, next, most
    <2>2. Sum(most, Years) = (k - 1) * StorageYears
      <3>1. ASSUME NEW c, c \in Int, c = k - 1
            PROVE  Sum(most, Years) = c * StorageYears
        BY <1>1, <2>1, <3>1, SumConstant, Zenon
      <3>2. k - 1 \in Int
        BY <1>2
      <3> QED
        BY <3>1, <3>2, Zenon
    <2>3. Sum(next, Years) = k * total + Sum(most, Years)
      <3>1. Linear(next, k, share, most, Years)
        BY <1>1, <1>2, <1>3, <2>1 DEF Linear
      <3>2. k \in Int
        BY <1>1, <1>2
      <3> QED
        BY <1>1, <3>1, <3>2, SumLinear
    <2>4. Sum(part, Years) <= Sum(next, Years)
      BY <1>1, <1>3, <2>1, SumMonotone
    <2> QED
      BY <1>4, <2>2, <2>3, <2>4
  <1>8. Leftover(pool) = pool - EpochsPerYear * total
    BY ShareSum DEF Leftover, Years, share
  <1> HIDE DEF total
  <1>9. EpochsPerYear * total <= pool
    <2>1. RatioUnit * (EpochsPerYear * total) <= RatioUnit * pool
      BY <1>1, <1>5, <1>6, Z3 DEF k
    <2> QED
      BY <1>1, <1>5, <2>1, Z3
  <1>10. pool - EpochsPerYear * total < EpochsPerYear * StorageYears
    <2>1. RatioUnit * (pool - EpochsPerYear * total)
            < RatioUnit * (EpochsPerYear * StorageYears)
      BY <1>1, <1>2, <1>5, <1>7, Z3 DEF k
    <2> QED
      BY <1>1, <1>5, <2>1, Z3
  <1> QED
    BY <1>1, <1>5, <1>8, <1>9, <1>10, Z3 DEF Credits, PerpetualEpochs
-----------------------------------------------------------------------------
(* KeyOrder lists every element of a finite set of naturals, and each once. *)
LEMMA KeyOrderListsAll ==
  ASSUME NEW S \in SUBSET Nat, IsFiniteSet(S)
  PROVE  LET n == Cardinality(S)
         IN  /\ n \in Nat
             /\ KeyOrder(S) \in [1 .. n -> S] /\ KeyOrder(S) \in Seq(S)
             /\ Len(KeyOrder(S)) = n
             /\ \A p \in S : \E k \in 1 .. n : KeyOrder(S)[k] = p
             /\ \A j, k \in 1 .. n : KeyOrder(S)[j] = KeyOrder(S)[k] => j = k
  <1> DEFINE n == Cardinality(S)
             Before(p) == {q \in S : q < p}
             rank == [p \in S |-> Cardinality(Before(p)) + 1]
             order == KeyOrder(S)
  <1>1. n \in Nat
    BY FS_CardinalityType
  <1>2. ASSUME NEW p \in S
        PROVE  Cardinality(Before(p)) \in Nat /\ Cardinality(Before(p)) + 1 \in 1 .. n
    <2>1. Before(p) \in SUBSET (S \ {p}) /\ IsFiniteSet(S \ {p}) /\ Cardinality(S \ {p}) = n - 1
      BY FS_RemoveElement
    <2>2. IsFiniteSet(Before(p)) /\ Cardinality(Before(p)) <= n - 1
      BY <2>1, FS_Subset
    <2>3. Cardinality(Before(p)) \in Nat
      BY <2>2, FS_CardinalityType
    <2> QED
      BY <1>1, <2>2, <2>3
  <1>3. ASSUME NEW p \in S, NEW q \in S, p < q
        PROVE  Cardinality(Before(p)) # Cardinality(Before(q))
    <2>1. Before(p) \in SUBSET Before(q) /\ p \in Before(q) /\ p \notin Before(p)
      <3>1. p \in Nat /\ q \in Nat /\ \A x \in S : x \in Nat
        OBVIOUS
      <3>2. \A x \in S : x < p => x < q
        BY <1>3, <3>1
      <3>3. ~(p < p)
        BY <3>1
      <3>4. Before(p) \in SUBSET Before(q)
        BY <3>2, Zenon
      <3> QED
        BY <1>3, <3>3, <3>4
    <2>2. IsFiniteSet(Before(q))
      BY FS_Subset
    <2> QED
      BY <2>1, <2>2, FS_Subset
  <1>4. \A p, q \in S : Cardinality(Before(p)) = Cardinality(Before(q)) => p = q
    <2> SUFFICES ASSUME NEW p \in S, NEW q \in S, p # q
                 PROVE  Cardinality(Before(p)) # Cardinality(Before(q))
      OBVIOUS
    <2>1. p < q \/ q < p
      OBVIOUS
    <2> QED
      BY <1>3, <2>1
  <1>5. rank \in Injection(S, 1 .. n)
    <2>1. rank \in [S -> 1 .. n]
      BY <1>2
    <2>2. \A p, q \in S : rank[p] = rank[q] => p = q
      <3> SUFFICES ASSUME NEW p \in S, NEW q \in S, rank[p] = rank[q] PROVE p = q
        OBVIOUS
      <3>1. Cardinality(Before(p)) = Cardinality(Before(q))
        <4>1. Cardinality(Before(p)) \in Nat /\ Cardinality(Before(q)) \in Nat
          BY <1>2
        <4> HIDE DEF Before
        <4> QED
          BY <4>1
      <3> QED
        BY <1>4, <3>1
    <2> QED
      BY <2>1, <2>2 DEF Injection, IsInjective
  <1>6. rank \in Surjection(S, 1 .. n)
    <2>1. IsFiniteSet(1 .. n) /\ Cardinality(1 .. n) = n
      BY <1>1, FS_Interval
    <2> QED
      BY <1>5, <2>1, FS_Injection
  <1>7. \A k \in 1 .. n : \E p \in S : Cardinality(Before(p)) = k - 1
    <2> TAKE k \in 1 .. n
    <2>1. PICK p \in S : rank[p] = k
      BY <1>6 DEF Surjection
    <2>2. Cardinality(Before(p)) \in Nat
      BY <1>2
    <2> HIDE DEF Before
    <2> QED
      BY <2>1, <2>2
  <1>8. order = [k \in 1 .. n |-> CHOOSE p \in S : Cardinality(Before(p)) = k - 1]
    BY DEF KeyOrder
  <1> HIDE DEF order, Before
  <1>9. \A k \in 1 .. n : order[k] \in S /\ Cardinality(Before(order[k])) = k - 1
    BY <1>7, <1>8
  <1>10. order \in [1 .. n -> S]
    BY <1>8, <1>9
  <1>11. \A p \in S : \E k \in 1 .. n : order[k] = p
    <2> TAKE p \in S
    <2> DEFINE k == Cardinality(Before(p)) + 1
    <2>1. k \in 1 .. n /\ k - 1 = Cardinality(Before(p))
      BY <1>2
    <2>2. order[k] \in S /\ Cardinality(Before(order[k])) = Cardinality(Before(p))
      BY <1>9, <2>1
    <2> HIDE DEF k
    <2> QED
      BY <1>4, <2>1, <2>2
  <1>12. \A j, k \in 1 .. n : order[j] = order[k] => j = k
    <2> SUFFICES ASSUME NEW j \in 1 .. n, NEW k \in 1 .. n, order[j] = order[k] PROVE j = k
      OBVIOUS
    <2>1. j - 1 = k - 1
      BY <1>9
    <2> QED
      BY <2>1
  <1>13. order \in Seq(S) /\ Len(order) = n
    <2> HIDE DEF n
    <2> QED
      BY <1>1, <1>10
  <1> QED
    BY <1>1, <1>10, <1>11, <1>12, <1>13 DEF order
-----------------------------------------------------------------------------
Payment == [id : Identities, amount : Credits]

(* One reward share, and one proposer, of the two loops of the payout. *)
ShareAcc == [left : Nat, paid : Seq(Payment)]

ShareOf(acc, share) ==
  LET part == (acc.left * share.percentage) \div (PercentUnit * DecimalUnit)
  IN  [left |-> acc.left - part * DecimalUnit,
       paid |-> Append(acc.paid, [id |-> share.payTo, amount |-> part])]

(* A share is never more than what is left of the reward. *)
LEMMA ShareWithinReward ==
  ASSUME NEW left \in Nat, NEW percentage \in 0 .. PercentUnit
  PROVE  LET part == (left * percentage) \div (PercentUnit * DecimalUnit)
         IN  part \in Nat /\ left - part * DecimalUnit \in Nat
  <1> DEFINE k == PercentUnit * DecimalUnit
             product == left * percentage
             part == product \div k
  <1>1. PercentUnit \in Nat \ {0} /\ DecimalUnit \in Nat \ {0}
    BY PayoutAssumption
  <1>2. k \in Nat \ {0} /\ product \in Nat /\ product <= left * PercentUnit
    BY <1>1, Z3
  <1> HIDE DEF product
  <1>3. part \in Nat /\ part * k <= product
    <2> HIDE DEF k
    <2> QED
      BY <1>2, Z3
  <1> HIDE DEF part
  <1>4. PercentUnit * (part * DecimalUnit) <= PercentUnit * left
    BY <1>1, <1>2, <1>3, Z3 DEF k
  <1>5. part * DecimalUnit <= left /\ part * DecimalUnit \in Nat
    BY <1>1, <1>3, <1>4, Z3
  <1> QED
    BY <1>3, <1>5 DEF part, product, k

LEMMA ShareOfType ==
  ASSUME NEW acc \in ShareAcc,
         NEW share \in [payTo : Identities, percentage : 0 .. PercentUnit]
  PROVE  ShareOf(acc, share) \in ShareAcc
  <1> DEFINE part == (acc.left * share.percentage) \div (PercentUnit * DecimalUnit)
  <1>1. acc.left \in Nat /\ acc.paid \in Seq(Payment) /\ share.payTo \in Identities
    BY DEF ShareAcc
  <1>2. part \in Nat /\ acc.left - part * DecimalUnit \in Nat
    BY <1>1, ShareWithinReward
  <1> HIDE DEF part
  <1>3. [id |-> share.payTo, amount |-> part] \in Payment
    BY <1>1, <1>2 DEF Payment, Credits
  <1>4. Append(acc.paid, [id |-> share.payTo, amount |-> part]) \in Seq(Payment)
    BY <1>1, <1>3
  <1> QED
    BY <1>2, <1>4 DEF ShareAcc, ShareOf, part

(* The rewards of a proposer are shared one document after the other. *)
LEMMA SharesRun ==
  ASSUME NEW p \in Proposers, NEW reward \in Nat
  PROVE  LET n == Len(Shares[p])
         IN  \E run \in [0 .. n -> ShareAcc] :
               /\ run[0] = [left |-> reward, paid |-> <<>>]
               /\ run[n] = AfterShares(p, reward)
               /\ \A k \in 1 .. n : run[k] = ShareOf(run[k - 1], Shares[p][k])
  <1> DEFINE shares == Shares[p]
             n == Len(shares)
             base == [left |-> reward, paid |-> <<>>]
             F == [x \in (1 .. n) \X ShareAcc |-> ShareOf(x[2], shares[x[1]])]
             Eq(g) == g = [s \in SUBSET (1 .. n) |->
                             IF s = {} THEN base
                             ELSE ShareOf(g[s \ {Max(s)}], shares[Max(s)])]
             Documents == [payTo : Identities, percentage : 0 .. PercentUnit]
  <1>1. shares \in Seq(Documents) /\ n \in Nat /\ DOMAIN shares = 1 .. n
    <2>1. Shares \in [Proposers -> Seq(Documents)]
      BY SharesAssumption
    <2> HIDE DEF Documents
    <2>2. shares \in Seq(Documents)
      BY <2>1
    <2> HIDE DEF shares
    <2> QED
      BY <2>2, LenProperties
  <1>2. AfterShares(p, reward) = (CHOOSE g : Eq(g))[1 .. n]
    BY <1>1 DEF AfterShares, FoldLeft, MapThenFoldSet, ShareOf
  <1>3. base \in ShareAcc
    BY DEF ShareAcc
  <1>4. \A k \in 1 .. n, acc \in ShareAcc :
          F[<<k, acc>>] = ShareOf(acc, shares[k]) /\ F[<<k, acc>>] \in ShareAcc
    <2> TAKE k \in 1 .. n, acc \in ShareAcc
    <2>1. shares[k] \in Documents
      <3> HIDE DEF Documents
      <3> QED
        BY <1>1, ElementOfSeq
    <2>2. F[<<k, acc>>] = ShareOf(acc, shares[k])
      OBVIOUS
    <2> QED
      BY <2>1, <2>2, ShareOfType
  <1>5. F \in [(1 .. n) \X ShareAcc -> ShareAcc]
    <2>1. \A x \in (1 .. n) \X ShareAcc : ShareOf(x[2], shares[x[1]]) \in ShareAcc
      BY <1>4
    <2> QED
      BY <2>1
  <1> HIDE DEF F, base, n, shares
  <1>6. \A s \in SUBSET (1 .. n) : s # {} => Max(s) \in 1 .. n
    BY <1>1, GreatestElement
  <1>7. Eq(CHOOSE g : Eq(g))
    <2>1. PICK g \in [SUBSET (1 .. n) -> ShareAcc] : Folded(g, F, base, n)
      BY <1>1, <1>3, <1>5, FoldExists
    <2>2. Eq(g)
      BY <1>4, <1>6, <2>1 DEF Folded
    <2> QED
      BY <2>2, Zenon
  <1> DEFINE g == CHOOSE h : Eq(h)
  <1>8. FoldsIn(g, F, base, n, ShareAcc)
    <2> HIDE DEF g
    <2>1. g = [s \in SUBSET (1 .. n) |->
                 IF s = {} THEN base ELSE ShareOf(g[s \ {Max(s)}], shares[Max(s)])]
      BY <1>7, Zenon DEF g
    <2>2. \A s \in SUBSET (1 .. n) :
            g[s] = IF s = {} THEN base ELSE ShareOf(g[s \ {Max(s)}], shares[Max(s)])
      BY <2>1, Zenon
    <2>3. {} \in SUBSET (1 .. n)
      OBVIOUS
    <2> QED
      BY <1>4, <1>6, <2>2, <2>3, Zenon DEF FoldsIn
  <1> HIDE DEF g, Eq
  <1>9. PICK run : IsRun(run, F, base, n, ShareAcc, g[1 .. n])
    BY <1>1, <1>3, <1>5, <1>8, FoldSteps, Zenon
  <1>10. \A k \in 1 .. n : run[k] = ShareOf(run[k - 1], shares[k])
    <2> TAKE k \in 1 .. n
    <2>1. k - 1 \in 0 .. n
      BY <1>1
    <2> QED
      BY <1>4, <1>9, <2>1 DEF IsRun
  <1> QED
    BY <1>2, <1>9, <1>10 DEF IsRun, g, base, n, shares

(* What is left of a reward after the shares, and the payments of them. *)
LEMMA AfterSharesType ==
  ASSUME NEW p \in Proposers, NEW reward \in Nat
  PROVE  AfterShares(p, reward) \in ShareAcc
  <1>1. Len(Shares[p]) \in Nat
    <2> DEFINE Documents == [payTo : Identities, percentage : 0 .. PercentUnit]
    <2>1. Shares \in [Proposers -> Seq(Documents)]
      BY SharesAssumption
    <2> HIDE DEF Documents
    <2> QED
      BY <2>1, LenProperties
  <1>2. Len(Shares[p]) \in 0 .. Len(Shares[p])
    BY <1>1
  <1>3. PICK run \in [0 .. Len(Shares[p]) -> ShareAcc] :
          run[Len(Shares[p])] = AfterShares(p, reward)
    BY SharesRun, Zenon
  <1> QED
    BY <1>2, <1>3, Zenon

LEMMA DecimalDivType ==
  ASSUME NEW a \in Nat, NEW b \in Nat \ {0}
  PROVE  DecimalDiv(a, b) \in Nat
  <1>1. 2 * a * DecimalUnit + b \in Nat /\ 2 * b \in Nat \ {0}
    BY PayoutAssumption, Z3
  <1> QED
    BY <1>1, DivNat DEF DecimalDiv
-----------------------------------------------------------------------------
PayAcc == [fraction : Nat, paid : Seq(Payment)]

(* The blocks the credits of the unpaid epoch are divided by. *)
BlocksToPay(d, info, height) == EndBlockHeight(d, info, height) - d.startHeight[d.unpaidEpoch]

RewardOf(d, blocks, p) == DecimalDiv(TotalCredits(d) * d.blockCount[d.unpaidEpoch][p], blocks)

(* What the payout adds for proposer p, the last of the chunk or not. *)
PayOf(d, blocks, isLast, acc, p) ==
  LET shared   == AfterShares(p, RewardOf(d, blocks, p))
      whole    == shared.left \div DecimalUnit
      fraction == acc.fraction + (shared.left % DecimalUnit)
      given    == IF isLast THEN whole + fraction \div DecimalUnit ELSE whole
  IN  [fraction |-> fraction,
       paid     |-> acc.paid \o shared.paid \o <<[id |-> p, amount |-> given]>>]

(* An epoch that can be paid: its credits and counts are there. *)
Payable(d) ==
  /\ d.storage[d.unpaidEpoch] # Missing /\ d.processing[d.unpaidEpoch] # Missing
  /\ d.blockCount[d.unpaidEpoch] # Missing

LEMMA PayableTypes ==
  ASSUME NEW d \in Databases, Payable(d)
  PROVE  /\ TotalCredits(d) \in Nat
         /\ d.blockCount[d.unpaidEpoch] \in [Proposers -> Nat]
  <1>1. /\ d.unpaidEpoch \in EpochIndex
        /\ d.storage \in [EpochIndex -> OrMissing(Credits)]
        /\ d.processing \in [EpochIndex -> OrMissing(Credits)]
        /\ d.blockCount \in [EpochIndex -> OrMissing([Proposers -> Nat])]
    BY DEF Databases
  <1>2. d.storage[d.unpaidEpoch] \in Nat /\ d.processing[d.unpaidEpoch] \in Nat
    BY <1>1 DEF Payable, OrMissing, Credits
  <1>3. d.blockCount[d.unpaidEpoch] \in [Proposers -> Nat]
    BY <1>1 DEF Payable, OrMissing
  <1> QED
    BY <1>2, <1>3 DEF TotalCredits

LEMMA RewardOfType ==
  ASSUME NEW d \in Databases, Payable(d), NEW blocks \in Nat \ {0}, NEW p \in Proposers
  PROVE  RewardOf(d, blocks, p) \in Nat
  <1>1. TotalCredits(d) \in Nat /\ d.blockCount[d.unpaidEpoch][p] \in Nat
    BY PayableTypes
  <1>2. TotalCredits(d) * d.blockCount[d.unpaidEpoch][p] \in Nat
    BY <1>1, Z3
  <1> QED
    BY <1>2, DecimalDivType DEF RewardOf

LEMMA PayOfType ==
  ASSUME NEW d \in Databases, Payable(d), NEW blocks \in Nat \ {0}, NEW p \in Proposers,
         NEW isLast \in BOOLEAN, NEW acc \in PayAcc
  PROVE  PayOf(d, blocks, isLast, acc, p) \in PayAcc
  <1> DEFINE shared == AfterShares(p, RewardOf(d, blocks, p))
             whole == shared.left \div DecimalUnit
             fraction == acc.fraction + (shared.left % DecimalUnit)
             given == IF isLast THEN whole + fraction \div DecimalUnit ELSE whole
  <1>1. shared \in ShareAcc
    BY RewardOfType, AfterSharesType
  <1> HIDE DEF shared
  <1>2. shared.left \in Nat /\ shared.paid \in Seq(Payment)
        /\ acc.fraction \in Nat /\ acc.paid \in Seq(Payment) /\ DecimalUnit \in Nat \ {0}
    BY <1>1, PayoutAssumption DEF ShareAcc, PayAcc
  <1>3. whole \in Nat /\ fraction \in Nat
    BY <1>2, DivNat
  <1>4. given \in Nat
    <2> HIDE DEF fraction, whole
    <2> QED
      BY <1>2, <1>3, DivNat
  <1> HIDE DEF fraction, given
  <1>5. <<[id |-> p, amount |-> given]>> \in Seq(Payment)
    BY <1>4, ProposersAssumption DEF Payment, Credits
  <1>6. acc.paid \o shared.paid \o <<[id |-> p, amount |-> given]>> \in Seq(Payment)
    BY <1>2, <1>5
  <1> QED
    BY <1>3, <1>6 DEF PayAcc, PayOf, shared, fraction, given

(* The proposers of the chunk are paid one after the other, in the order of *)
(* their keys.                                                              *)
LEMMA PaymentsRun ==
  ASSUME NEW d \in Databases, NEW info, NEW height, Payable(d),
         BlocksToPay(d, info, height) \in Nat \ {0}
  PROVE  LET order  == KeyOrder(PaidChunk(d, info))
             n      == Cardinality(PaidChunk(d, info))
             blocks == BlocksToPay(d, info, height)
         IN  /\ n \in Nat /\ order \in [1 .. n -> PaidChunk(d, info)] /\ Len(order) = n
             /\ \E run \in [0 .. n -> PayAcc] :
                  /\ run[0] = [fraction |-> 0, paid |-> <<>>]
                  /\ run[n].paid = Payments(d, info, height)
                  /\ \A k \in 1 .. n :
                       run[k] = PayOf(d, blocks, order[k] = order[n], run[k - 1], order[k])
  <1> DEFINE Chunk == PaidChunk(d, info)
             order == KeyOrder(Chunk)
             n == Cardinality(Chunk)
             blocks == BlocksToPay(d, info, height)
             base == [fraction |-> 0, paid |-> <<>>]
             F == [x \in (1 .. n) \X PayAcc |->
                     PayOf(d, blocks, order[x[1]] = order[n], x[2], order[x[1]])]
             Eq(g) == g = [s \in SUBSET (1 .. n) |->
                             IF s = {} THEN base
                             ELSE PayOf(d, blocks, order[Max(s)] = order[n],
                                        g[s \ {Max(s)}], order[Max(s)])]
  <1>1. Chunk \in SUBSET Proposers /\ Chunk \in SUBSET Nat /\ IsFiniteSet(Chunk)
    <2>1. Chunk \in SUBSET Proposers
      BY DEF PaidChunk, UnpaidProposers
    <2> QED
      BY <2>1, ProposersAssumption, FS_Subset
  <1>2. n \in Nat /\ order \in [1 .. n -> Chunk] /\ order \in Seq(Chunk) /\ Len(order) = n
    BY <1>1, KeyOrderListsAll, Zenon
  <1> HIDE DEF Chunk
  <1>3. DOMAIN order = 1 .. n /\ Last(order) = order[n]
    BY <1>2 DEF Last
  <1>4. Payments(d, info, height) = (CHOOSE g : Eq(g))[1 .. n].paid
    BY <1>2, <1>3 DEF Payments, FoldLeft, MapThenFoldSet, PayOf, RewardOf, BlocksToPay, Chunk
  <1>5. base \in PayAcc
    BY DEF PayAcc
  <1>6. \A k \in 1 .. n, acc \in PayAcc :
          /\ F[<<k, acc>>] = PayOf(d, blocks, order[k] = order[n], acc, order[k])
          /\ F[<<k, acc>>] \in PayAcc
    <2> TAKE k \in 1 .. n, acc \in PayAcc
    <2>1. order[k] \in Proposers /\ (order[k] = order[n]) \in BOOLEAN
      BY <1>1, <1>2
    <2>2. F[<<k, acc>>] = PayOf(d, blocks, order[k] = order[n], acc, order[k])
      OBVIOUS
    <2> HIDE DEF F, blocks
    <2> QED
      BY <2>1, <2>2, PayOfType DEF blocks
  <1>7. F \in [(1 .. n) \X PayAcc -> PayAcc]
    <2>1. \A x \in (1 .. n) \X PayAcc :
             PayOf(d, blocks, order[x[1]] = order[n], x[2], order[x[1]]) \in PayAcc
      BY <1>6
    <2> QED
      BY <2>1
  <1> HIDE DEF F, base, n, order, blocks
  <1>8. \A s \in SUBSET (1 .. n) : s # {} => Max(s) \in 1 .. n
    BY <1>2, GreatestElement
  <1>9. Eq(CHOOSE g : Eq(g))
    <2>1. PICK g \in [SUBSET (1 .. n) -> PayAcc] : Folded(g, F, base, n)
      BY <1>2, <1>5, <1>7, FoldExists
    <2>2. \A s \in SUBSET (1 .. n) :
            g[s] = IF s = {} THEN base ELSE F[<<Max(s), g[s \ {Max(s)}]>>]
      BY <2>1, Zenon DEF Folded
    <2>3. \A s \in SUBSET (1 .. n) :
            g[s] = IF s = {} THEN base
                   ELSE PayOf(d, blocks, order[Max(s)] = order[n],
                              g[s \ {Max(s)}], order[Max(s)])
      <3> TAKE s \in SUBSET (1 .. n)
      <3>1. CASE s = {}
        BY <2>2, <3>1, Zenon
      <3>2. CASE s # {}
        <4>1. Max(s) \in 1 .. n /\ g[s \ {Max(s)}] \in PayAcc
          BY <1>8, <2>1, <3>2
        <4> QED
          BY <1>6, <2>2, <3>2, <4>1, Zenon
      <3> QED
        BY <3>1, <3>2
    <2>4. g = [s \in SUBSET (1 .. n) |-> g[s]]
      OBVIOUS
    <2>5. Eq(g)
      BY <2>3, <2>4, Zenon
    <2> QED
      BY <2>5, Zenon
  <1> DEFINE g == CHOOSE h : Eq(h)
  <1>10. FoldsIn(g, F, base, n, PayAcc)
    <2> HIDE DEF g
    <2>1. g = [s \in SUBSET (1 .. n) |->
                 IF s = {} THEN base
                 ELSE PayOf(d, blocks, order[Max(s)] = order[n], g[s \ {Max(s)}], order[Max(s)])]
      BY <1>9, Zenon DEF g
    <2>2. \A s \in SUBSET (1 .. n) :
            g[s] = IF s = {} THEN base
                   ELSE PayOf(d, blocks, order[Max(s)] = order[n],
                              g[s \ {Max(s)}], order[Max(s)])
      BY <2>1, Zenon
    <2>3. {} \in SUBSET (1 .. n)
      OBVIOUS
    <2> QED
      BY <1>6, <1>8, <2>2, <2>3, Zenon DEF FoldsIn
  <1> HIDE DEF g, Eq
  <1>11. PICK run : IsRun(run, F, base, n, PayAcc, g[1 .. n])
    BY <1>2, <1>5, <1>7, <1>10, FoldSteps, Zenon
  <1>12. \A k \in 1 .. n :
           run[k] = PayOf(d, blocks, order[k] = order[n], run[k - 1], order[k])
    <2> TAKE k \in 1 .. n
    <2>1. k - 1 \in 0 .. n
      BY <1>2
    <2> QED
      BY <1>6, <1>11, <2>1 DEF IsRun
  <1>13. /\ run \in [0 .. n -> PayAcc] /\ run[0] = base
         /\ run[n].paid = Payments(d, info, height)
    BY <1>4, <1>11, Zenon DEF IsRun, g
  <1> QED
    BY <1>2, <1>12, <1>13, Zenon DEF base, n, order, blocks, Chunk

(* A block pays credits to identities. *)
LEMMA PaymentsType ==
  ASSUME NEW d \in Databases, NEW info, NEW height, Payable(d),
         BlocksToPay(d, info, height) \in Nat \ {0}
  PROVE  Payments(d, info, height) \in Seq(Payment)
  <1> DEFINE n == Cardinality(PaidChunk(d, info))
  <1>1. n \in Nat /\ \E run \in [0 .. n -> PayAcc] : run[n].paid = Payments(d, info, height)
    <2>1. n \in Nat
      BY PaymentsRun
    <2>2. \E run \in [0 .. n -> PayAcc] :
             /\ run[0] = [fraction |-> 0, paid |-> <<>>]
             /\ run[n].paid = Payments(d, info, height)
             /\ \A k \in 1 .. n :
                  run[k] = PayOf(d, BlocksToPay(d, info, height),
                                 KeyOrder(PaidChunk(d, info))[k] = KeyOrder(PaidChunk(d, info))[n],
                                 run[k - 1], KeyOrder(PaidChunk(d, info))[k])
      BY PaymentsRun
    <2> QED
      BY <2>1, <2>2
  <1>2. n \in 0 .. n
    BY <1>1
  <1> HIDE DEF n
  <1> QED
    BY <1>1, <1>2 DEF PayAcc
-----------------------------------------------------------------------------
(* The durable chain knows its genesis time from its first block on. *)
ChainHasGenesis ==
  committed.height > 0 =>
    /\ committed.db.genesisTime \in Nat
    /\ committed.time \in Nat
    /\ committed.db.genesisTime <= committed.time

(* Between blocks the open transaction shows the durable chain; a block is *)
(* executed against it under a context computed from the two block times.  *)
BlockCoherent ==
  /\ stage = "idle" => db = committed.db
  /\ stage # "ended" => history = committed.history
  /\ committed.height = 0 => committed.time = Missing
  /\ stage # "idle" =>
       /\ context \in Contexts
       /\ context.height = NextHeight
       /\ db.genesisTime \in Nat /\ db.genesisTime <= context.time
       /\ ~FirstBlock => /\ db.genesisTime = committed.db.genesisTime
                         /\ committed.time <= context.time
       /\ context.info = CalculateEpochInfo(db.genesisTime, context.time, committed.time)

TimeInv == TypeOK /\ GenesisTimeCoherent /\ ChainHasGenesis /\ BlockCoherent
-----------------------------------------------------------------------------
(* The state after init_chain satisfies the invariant. *)
LEMMA InitTimeInv == Init => TimeInv
  <1> SUFFICES ASSUME Init PROVE TimeInv
    OBVIOUS
  <1>1. InitialDatabase \in Databases
    <2>1. 0 .. PerpetualEpochs - 1 \in SUBSET EpochIndex /\ GenesisEpochIndex \in EpochIndex
      BY EpochsAssumption DEF PerpetualEpochs, EpochIndex, GenesisEpochIndex
    <2> QED
      BY <2>1 DEF InitialDatabase, Databases, OrMissing, Credits
  <1>2. EmptyHistory \in Histories
    BY DEF EmptyHistory, Histories, NoBlocks
  <1>3. committed \in Chains
    BY <1>1, <1>2 DEF Init, Chains, OrMissing
  <1>4. TypeOK
    BY <1>1, <1>2, <1>3 DEF Init, TypeOK, OrMissing
  <1> QED
    BY <1>4 DEF Init, TimeInv, GenesisTimeCoherent, ChainHasGenesis, BlockCoherent

(* The epoch of a block is the one its time and the genesis time give, and *)
(* an epoch change only moves forward.                                     *)
LEMMA EpochInfoType ==
  ASSUME NEW genesis \in Nat, NEW time \in Nat, genesis <= time,
         NEW previous \in OrMissing(Nat),
         previous # Missing => genesis <= previous /\ previous <= time,
         previous = Missing => genesis = time
  PROVE  LET info == CalculateEpochInfo(genesis, time, previous)
         IN  /\ info \in EpochInfos
             /\ info.current = EpochIndexAt(genesis, time)
             /\ previous # Missing =>
                  /\ EpochIndexAt(genesis, previous) \in Nat
                  /\ EpochIndexAt(genesis, previous) <= info.current
                  /\ info.isChange <=> EpochIndexAt(genesis, previous) < info.current
                  /\ info.isChange => info.previous = EpochIndexAt(genesis, previous)
             /\ previous = Missing => info.isChange /\ info.current = 0
  <1>1. EpochIndexAt(genesis, time) \in Nat
    BY EpochChangeTimeAssumption, DivNat DEF EpochIndexAt
  <1>2. CASE previous = Missing
    <2>1. EpochIndexAt(genesis, time) = 0
      BY <1>2, EpochChangeTimeAssumption, Z3 DEF EpochIndexAt
    <2> QED
      BY <1>2, <2>1 DEF CalculateEpochInfo, DefaultEpochInfo, EpochInfos, GenesisEpochIndex
  <1>3. CASE previous # Missing
    <2>1. previous \in Nat
      BY <1>3 DEF OrMissing
    <2>2. previous - genesis \in Nat /\ time - genesis \in Nat
          /\ previous - genesis <= time - genesis
      BY <1>3, <2>1
    <2>3. EpochIndexAt(genesis, previous) \in Nat
      BY <2>2, EpochChangeTimeAssumption, DivNat DEF EpochIndexAt
    <2>4. EpochIndexAt(genesis, previous) <= EpochIndexAt(genesis, time)
      BY <2>2, EpochChangeTimeAssumption, DivMonotone DEF EpochIndexAt
    <2>5. CASE EpochIndexAt(genesis, previous) = EpochIndexAt(genesis, time)
      <3> DEFINE moved == EpochIndexAt(genesis, time) > EpochIndexAt(genesis, previous)
      <3>0. moved = FALSE
        BY <1>1, <2>5
      <3>1. CalculateEpochInfo(genesis, time, previous) =
              [current |-> EpochIndexAt(genesis, time), previous |-> Missing, isChange |-> FALSE]
        BY <1>3, <2>5, <3>0, Zenon DEF CalculateEpochInfo
      <3>2. CalculateEpochInfo(genesis, time, previous) \in EpochInfos
        BY <1>1, <3>1 DEF EpochInfos
      <3>3. ~CalculateEpochInfo(genesis, time, previous).isChange
        BY <3>1
      <3>4. ~(EpochIndexAt(genesis, previous) < EpochIndexAt(genesis, time))
        BY <1>1, <2>5
      <3> QED
        BY <1>1, <1>3, <2>3, <2>4, <2>5, <3>1, <3>2, <3>3, <3>4
    <2>6. CASE EpochIndexAt(genesis, previous) < EpochIndexAt(genesis, time)
      <3> DEFINE moved == EpochIndexAt(genesis, time) > EpochIndexAt(genesis, previous)
      <3>0. moved = TRUE /\ EpochIndexAt(genesis, time) # EpochIndexAt(genesis, previous)
        BY <1>1, <2>3, <2>6
      <3>1. CalculateEpochInfo(genesis, time, previous) =
              [current |-> EpochIndexAt(genesis, time),
               previous |-> EpochIndexAt(genesis, previous), isChange |-> TRUE]
        BY <1>3, <3>0, Zenon DEF CalculateEpochInfo
      <3>2. CalculateEpochInfo(genesis, time, previous) \in EpochInfos
        BY <1>1, <2>3, <3>1 DEF EpochInfos
      <3>3. CalculateEpochInfo(genesis, time, previous).isChange
        BY <3>1
      <3> QED
        BY <1>1, <1>3, <2>3, <2>4, <2>6, <3>1, <3>2, <3>3
    <2> QED
      BY <1>1, <2>3, <2>4, <2>5, <2>6
  <1> QED
    BY <1>2, <1>3
-----------------------------------------------------------------------------
(* A block begins with the genesis time of the chain, or founds it. *)
LEMMA BlockBeginTimeInv ==
  ASSUME TimeInv, NEW t \in 0 .. MaxTime, NEW p \in Proposers, BlockBegin(t, p)
  PROVE  TimeInv'
  <1> DEFINE genesis == GenesisTimeFor(t)
             info == CalculateEpochInfo(genesis, t, committed.time)
  <1>1. /\ t \in Nat
        /\ committed \in Chains /\ committed.height \in Nat
        /\ committed.time \in OrMissing(Nat) /\ NextHeight \in Nat
        /\ FirstBlock <=> committed.height = 0
    BY BoundsAssumption DEF TimeInv, TypeOK, Chains, NextHeight, FirstBlock
  <1>2. CASE FirstBlock
    <2>1. genesis = t /\ committed.time = Missing
      BY <1>1, <1>2 DEF GenesisTimeFor, TimeInv, BlockCoherent
    <2>2. info \in EpochInfos /\ info.current = EpochIndexAt(genesis, t)
      BY <1>1, <2>1, EpochInfoType
    <2>3. db' = [db EXCEPT !.genesisTime = t] /\ db'.genesisTime = t /\ db' \in Databases
      <3>1. db \in Databases /\ db' = [db EXCEPT !.genesisTime = t] /\ t \in OrMissing(Nat)
        BY <1>1, <1>2 DEF BlockBegin, TimeInv, TypeOK, OrMissing
      <3> QED
        BY <3>1 DEF Databases
    <2> HIDE DEF info
    <2>4. context' = [height |-> NextHeight, time |-> t, proposer |-> p, info |-> info]
          /\ genesisCache' = t /\ stage' = "begun"
          /\ UNCHANGED <<history, committed, retries>>
      BY <2>1 DEF BlockBegin, info
    <2>5. context' \in Contexts
      BY <1>1, <2>2, <2>4 DEF Contexts
    <2>6. TypeOK'
      BY <1>1, <2>3, <2>4, <2>5 DEF TimeInv, TypeOK, OrMissing
    <2>7. GenesisTimeCoherent'
      BY <1>1, <1>2, <2>1, <2>2, <2>3, <2>4 DEF GenesisTimeCoherent
    <2>8. ChainHasGenesis'
      BY <2>4 DEF TimeInv, ChainHasGenesis
    <2>9. BlockCoherent'
      <3>1. stage = "idle"
        BY DEF BlockBegin
      <3> QED
        BY <1>1, <1>2, <2>1, <2>3, <2>4, <2>5, <3>1
           DEF TimeInv, BlockCoherent, NextHeight, FirstBlock, info
    <2> QED
      BY <2>6, <2>7, <2>8, <2>9 DEF TimeInv
  <1>3. CASE ~FirstBlock
    <2>1. /\ genesis = committed.db.genesisTime /\ genesis = db.genesisTime
          /\ genesis \in Nat /\ committed.time \in Nat /\ genesis <= committed.time
          /\ committed.time <= t /\ genesis <= t
      <3>1. committed.height > 0 /\ db = committed.db /\ stage = "idle"
        BY <1>1, <1>3 DEF BlockBegin, TimeInv, BlockCoherent
      <3>2. genesis = committed.db.genesisTime
        BY <1>3, <3>1 DEF GenesisTimeFor, KnownGenesisTime, TimeInv, GenesisTimeCoherent
      <3>3. committed.time <= t
        BY <1>3 DEF BlockBegin, ProposableTime
      <3> QED
        BY <1>1, <3>1, <3>2, <3>3 DEF TimeInv, ChainHasGenesis
    <2>2. info \in EpochInfos /\ info.current = EpochIndexAt(genesis, t)
      <3>1. committed.time # Missing
        BY <2>1, MissingAssumption
      <3> QED
        BY <1>1, <2>1, <3>1, EpochInfoType
    <2> HIDE DEF info
    <2>4. context' = [height |-> NextHeight, time |-> t, proposer |-> p, info |-> info]
          /\ genesisCache' = genesis /\ stage' = "begun" /\ db' = db
          /\ UNCHANGED <<history, committed, retries>>
      BY <1>3 DEF BlockBegin, info
    <2>5. context' \in Contexts
      BY <1>1, <2>2, <2>4 DEF Contexts
    <2> HIDE DEF genesis
    <2>6. TypeOK'
      BY <1>1, <2>1, <2>4, <2>5 DEF TimeInv, TypeOK, OrMissing
    <2>7. GenesisTimeCoherent'
      BY <1>1, <1>3, <2>1, <2>2, <2>4 DEF GenesisTimeCoherent
    <2>8. ChainHasGenesis'
      BY <2>4 DEF TimeInv, ChainHasGenesis
    <2>9. BlockCoherent'
      <3>1. stage = "idle"
        BY DEF BlockBegin
      <3> QED
        BY <1>1, <1>3, <2>1, <2>4, <2>5, <3>1
           DEF TimeInv, BlockCoherent, NextHeight, FirstBlock, info
    <2> QED
      BY <2>6, <2>7, <2>8, <2>9 DEF TimeInv
  <1> QED
    BY <1>2, <1>3

(* The history counts the block, in the epoch it is executed in. *)
LEMMA HistoryType ==
  ASSUME TypeOK, context \in Contexts, NEW fees \in BlockFees
  PROVE  HistoryAfter(fees) \in Histories
  <1>1. history \in Histories
    BY DEF TypeOK
  <1>2. fees.storage \in Nat /\ fees.processing \in Nat
    BY BlockFeesAssumption DEF Credits
  <1>3. HistoryAfter(fees).produced \in [EpochIndex -> [Proposers -> Nat]]
    <2> DEFINE old == history.produced
               e == context.info.current
               p == context.proposer
    <2>1. old \in [EpochIndex -> [Proposers -> Nat]] /\ p \in Proposers
      BY <1>1 DEF Histories, Contexts
    <2>2. HistoryAfter(fees).produced = [old EXCEPT ![e][p] = old[e][p] + 1]
      BY DEF HistoryAfter
    <2> HIDE DEF e, p, old
    <2> DEFINE row == [old[e] EXCEPT ![p] = old[e][p] + 1]
    <2>3. e \in EpochIndex => row \in [Proposers -> Nat]
      <3> SUFFICES ASSUME e \in EpochIndex PROVE row \in [Proposers -> Nat]
        OBVIOUS
      <3>1. old[e] \in [Proposers -> Nat]
        BY <2>1
      <3> QED
        BY <2>1, <3>1
    <2>4. [old EXCEPT ![e][p] = old[e][p] + 1] = [old EXCEPT ![e] = row]
      OBVIOUS
    <2> HIDE DEF row
    <2> QED
      BY <2>1, <2>2, <2>3, <2>4
  <1>4. HistoryAfter(fees).payments \in [EpochIndex -> [Proposers -> Nat]]
    <2> DEFINE old == history.payments
               paid == IF NeedsPayment(db, context.info) THEN PaidChunk(db, context.info) ELSE {}
               new == [p \in Proposers |-> IF p \in paid THEN old[db.unpaidEpoch][p] + 1
                                           ELSE old[db.unpaidEpoch][p]]
    <2>1. old \in [EpochIndex -> [Proposers -> Nat]]
      BY <1>1 DEF Histories
    <2>2. db.unpaidEpoch \in EpochIndex
      BY DEF TypeOK, Databases
    <2>3. new \in [Proposers -> Nat]
      BY <2>1, <2>2
    <2>4. HistoryAfter(fees).payments = [old EXCEPT ![db.unpaidEpoch] = new]
      BY <2>1, <2>2 DEF HistoryAfter
    <2> HIDE DEF new
    <2> QED
      BY <2>1, <2>3, <2>4
  <1>5. HistoryAfter(fees).collected \in Nat /\ HistoryAfter(fees).chunks \in Nat
    BY <1>1, <1>2 DEF HistoryAfter, Histories
  <1>6. HistoryAfter(fees) =
          [produced |-> HistoryAfter(fees).produced, payments |-> HistoryAfter(fees).payments,
           collected |-> HistoryAfter(fees).collected, chunks |-> HistoryAfter(fees).chunks]
    BY DEF HistoryAfter
  <1> QED
    BY <1>3, <1>4, <1>5, <1>6 DEF Histories

(* A block ends without touching the context it was executed under. *)
LEMMA BlockEndTimeInv ==
  ASSUME TimeInv, NEW fees \in BlockFees, BlockEnd(fees)
  PROVE  TimeInv'
  <1>1. /\ stage = "begun" /\ stage' = "ended"
        /\ ~ProcessBlockFeesFails(db, context.info, context.height)
        /\ db' = ProcessBlockFees(db, context.info, context.height, context.proposer, fees)
        /\ history' = HistoryAfter(fees)
        /\ UNCHANGED <<committed, context, genesisCache, retries>>
    BY DEF BlockEnd
  <1>2. context \in Contexts /\ TypeOK
    BY <1>1 DEF TimeInv, BlockCoherent
  <1>3. /\ context.info \in EpochInfos /\ context.height \in Nat
        /\ context.proposer \in Proposers
        /\ db \in Databases /\ fees \in [storage : Credits, processing : Credits]
    BY <1>2, BlockFeesAssumption DEF Contexts, TypeOK
  <1>4. db' \in Databases /\ db'.genesisTime = db.genesisTime
    BY <1>1, <1>3, ProcessBlockFeesType DEF ProcessBlockFees
  <1>5. history' \in Histories
    BY <1>1, <1>2, HistoryType
  <1>6. TypeOK'
    BY <1>1, <1>2, <1>4, <1>5 DEF TypeOK
  <1>7. GenesisTimeCoherent'
    BY <1>1, <1>4 DEF TimeInv, GenesisTimeCoherent
  <1>8. ChainHasGenesis'
    BY <1>1 DEF TimeInv, ChainHasGenesis
  <1>9. BlockCoherent'
    BY <1>1, <1>4 DEF TimeInv, BlockCoherent, NextHeight, FirstBlock
  <1> QED
    BY <1>6, <1>7, <1>8, <1>9 DEF TimeInv

(* A commit makes the ended block the last of the durable chain. *)
LEMMA CommitTimeInv ==
  ASSUME TimeInv, CommitTransaction
  PROVE  TimeInv'
  <1>1. /\ stage = "ended" /\ stage' = "idle"
        /\ committed' = [db |-> db, history |-> history,
                         height |-> context.height, time |-> context.time]
        /\ UNCHANGED <<db, history, context, genesisCache, retries>>
    BY DEF CommitTransaction
  <1>2. /\ context \in Contexts /\ TypeOK
        /\ db.genesisTime \in Nat /\ db.genesisTime <= context.time
        /\ genesisCache = db.genesisTime /\ context.height = NextHeight
    BY <1>1 DEF TimeInv, BlockCoherent, GenesisTimeCoherent
  <1>3. committed'.db = db /\ committed'.height = context.height
        /\ committed'.time = context.time /\ context.height > 0
        /\ context.height \in Nat /\ context.time \in Nat
    BY <1>1, <1>2 DEF Contexts, TypeOK, Chains, NextHeight
  <1>4. committed' \in Chains
    BY <1>1, <1>2, <1>3 DEF TypeOK, Chains, OrMissing
  <1>5. TypeOK'
    BY <1>1, <1>2, <1>4 DEF TypeOK
  <1>6. GenesisTimeCoherent'
    BY <1>1, <1>2, <1>3 DEF GenesisTimeCoherent
  <1>7. ChainHasGenesis'
    BY <1>1, <1>2, <1>3 DEF ChainHasGenesis
  <1>8. BlockCoherent'
    BY <1>1, <1>3 DEF BlockCoherent
  <1> QED
    BY <1>5, <1>6, <1>7, <1>8 DEF TimeInv

(* Neither a rollback nor a restart loses what the invariant relates. *)
LEMMA ToCommittedTimeInv ==
  ASSUME TimeInv, RollbackTransaction \/ Restart
  PROVE  TimeInv'
  <1>1. /\ db' = committed.db /\ history' = committed.history /\ stage' = "idle"
        /\ retries' = retries + 1 /\ committed' = committed
        /\ \/ context' = context /\ genesisCache' = genesisCache
           \/ context' = Missing /\ genesisCache' = Missing
    BY DEF RollbackTransaction, Restart, ToCommitted
  <1>2. TypeOK'
    BY <1>1 DEF TimeInv, TypeOK, Chains, OrMissing
  <1>3. GenesisTimeCoherent'
    BY <1>1 DEF TimeInv, GenesisTimeCoherent
  <1>4. ChainHasGenesis' /\ BlockCoherent'
    BY <1>1 DEF TimeInv, ChainHasGenesis, BlockCoherent
  <1> QED
    BY <1>2, <1>3, <1>4 DEF TimeInv

(* The invariant is inductive. *)
LEMMA StepTimeInv == TimeInv /\ [Next]_vars => TimeInv'
  <1> SUFFICES ASSUME TimeInv, [Next]_vars PROVE TimeInv'
    OBVIOUS
  <1>1. ASSUME NEW t \in 0 .. MaxTime, NEW p \in Proposers, BlockBegin(t, p)
        PROVE  TimeInv'
    BY <1>1, BlockBeginTimeInv
  <1>2. ASSUME NEW fees \in BlockFees, BlockEnd(fees)
        PROVE  TimeInv'
    BY <1>2, BlockEndTimeInv
  <1>3. CASE CommitTransaction
    BY <1>3, CommitTimeInv
  <1>4. CASE RollbackTransaction \/ Restart
    BY <1>4, ToCommittedTimeInv
  <1>5. CASE UNCHANGED vars
    BY <1>5 DEF vars, TimeInv, TypeOK, GenesisTimeCoherent, ChainHasGenesis, BlockCoherent,
                NextHeight, FirstBlock
  <1> QED
    BY <1>1, <1>2, <1>3, <1>4, <1>5 DEF Next
-----------------------------------------------------------------------------
(* In every behaviour the handlers' state holds values of its types: a      *)
(* block's end that is not refused never writes a negative pool, an epoch   *)
(* index out of range or a count that is not one.                           *)
THEOREM TypeCorrect == Spec => []TypeOK
  <1>1. TimeInv => TypeOK
    BY DEF TimeInv
  <1> QED
    BY <1>1, InitTimeInv, StepTimeInv, PTL DEF Spec

(* The genesis time in memory never disagrees with the database, whatever   *)
(* is rolled back, retried with another block time, or lost in a restart.   *)
THEOREM GenesisTimeCoherence == Spec => []GenesisTimeCoherent
  <1>1. TimeInv => GenesisTimeCoherent
    BY DEF TimeInv
  <1> QED
    BY <1>1, InitTimeInv, StepTimeInv, PTL DEF Spec

(* At every epoch change the whole storage fee pool is spread over the      *)
(* coming epochs: what stays in it, the block's own fees apart, is less     *)
(* than a credit for each of them, for every table of ratios that adds up   *)
(* to one and every size of the pool.                                       *)
THEOREM PoolSpread == Spec => PoolSpreadAtEpochChange
  <1>1. ASSUME TimeInv, NEW fees \in BlockFees, BlockEnd(fees), Distributes(db, context.info)
        PROVE  db'.storagePool - fees.storage < PerpetualEpochs
    <2>1. db'.storagePool = StoragePoolAfter(db, context.info, fees)
      BY <1>1 DEF BlockEnd, ProcessBlockFees
    <2>2. StoragePoolAfter(db, context.info, fees) = fees.storage + Leftover(db.storagePool)
      BY <1>1 DEF StoragePoolAfter, Distributes
    <2>3. db.storagePool \in Credits
      BY <1>1 DEF TimeInv, TypeOK, Databases
    <2>4. Leftover(db.storagePool) \in Nat /\ Leftover(db.storagePool) < PerpetualEpochs
      BY <2>3, LeftoverBound DEF Credits
    <2>5. fees.storage \in Nat
      BY BlockFeesAssumption DEF Credits
    <2> QED
      BY <2>1, <2>2, <2>4, <2>5
  <1>2. TimeInv => \A fees \in BlockFees :
                     BlockEnd(fees) /\ Distributes(db, context.info) =>
                       db'.storagePool - fees.storage < PerpetualEpochs
    BY <1>1
  <1> QED
    BY <1>2, InitTimeInv, StepTimeInv, PTL DEF Spec, PoolSpreadAtEpochChange
=============================================================================
