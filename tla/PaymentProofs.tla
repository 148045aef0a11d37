--------------------------- MODULE PaymentProofs ----------------------------
(***************************************************************************)
(* Theorems about who is paid, for every number of epochs, proposers and   *)
(* payouts per block and every interleaving of blocks, halts, rollbacks    *)
(* and restarts: every proposer of an epoch is paid for it exactly once,   *)
(* the durable chain implements the reward ledger, the blocks counted are  *)
(* those between the start heights, and no handler returns an error.       *)
(***************************************************************************)
EXTENDS PlatformProofs

(* What the payments and the blocks of proposer p in epoch e are, in a     *)
(* chain whose last block is in epoch `last`.                              *)
EntryInv(d, hist, last, e, p) ==
  LET produced == hist.produced[e][p]
      times    == hist.payments[e][p]
  IN  /\ ~Started(d, e) => produced = 0
      /\ e >= last \/ e > d.unpaidEpoch => times = 0
      /\ e < d.unpaidEpoch => times = (IF produced > 0 THEN 1 ELSE 0)
      /\ e = d.unpaidEpoch => times \in {0, 1} /\ times <= produced
      /\ e >= d.unpaidEpoch /\ Started(d, e) =>
           d.blockCount[e][p] = (IF times = 0 THEN produced ELSE 0)

PoolsInv(d, hist, last) ==
  /\ last \in EpochIndex /\ d.unpaidEpoch <= last
  /\ Started(d, last) /\ Started(d, d.unpaidEpoch)
  /\ \A e \in EpochIndex :
       /\ e > last => ~Started(d, e)
       /\ e >= d.unpaidEpoch /\ Started(d, e) => d.blockCount[e] # Missing
       /\ \A p \in Proposers : EntryInv(d, hist, last, e, p)

(* The pools before the first block. *)
FreshPools(d, hist) ==
  /\ d.unpaidEpoch = GenesisEpochIndex
  /\ \A e \in EpochIndex : ~Started(d, e)
  /\ hist = EmptyHistory

LastEpoch == EpochIndexAt(committed.db.genesisTime, committed.time)

PaymentInv ==
  /\ IF committed.height = 0 THEN FreshPools(committed.db, committed.history)
     ELSE PoolsInv(committed.db, committed.history, LastEpoch)
  /\ stage = "begun" =>
       /\ db.unpaidEpoch = committed.db.unpaidEpoch
       /\ db.startHeight = committed.db.startHeight
       /\ db.blockCount = committed.db.blockCount
  /\ stage = "ended" => PoolsInv(db, history, context.info.current)
-----------------------------------------------------------------------------
(* One block, from any chain that satisfies the invariant: the chain after  *)
(* it does, with the block's epoch as the last one.                         *)
LEMMA BlockKeepsPoolsInv ==
  ASSUME NEW d \in Databases, NEW hist \in Histories, NEW info \in EpochInfos,
         NEW height \in Nat, NEW proposer \in Proposers, NEW fees, NEW last,
         info.current \in EpochIndex,
         \/ FreshPools(d, hist) /\ info.current = GenesisEpochIndex /\ info.isChange
         \/ /\ PoolsInv(d, hist, last) /\ last <= info.current
            /\ info.isChange <=> last < info.current,
         NEW after, after = ProcessBlockFees(d, info, height, proposer, fees),
         NEW histAfter \in Histories,
         \A e \in EpochIndex, p \in Proposers :
           /\ histAfter.produced[e][p] =
                hist.produced[e][p] + (IF e = info.current /\ p = proposer THEN 1 ELSE 0)
           /\ histAfter.payments[e][p] =
                hist.payments[e][p] + (IF /\ e = d.unpaidEpoch /\ NeedsPayment(d, info)
                                          /\ p \in PaidChunk(d, info) THEN 1 ELSE 0)
  PROVE  PoolsInv(after, histAfter, info.current)
  <1> DEFINE cur == info.current
             u == d.unpaidEpoch
  <1>1. /\ cur \in EpochIndex /\ u \in EpochIndex /\ EpochIndex \in SUBSET Nat
        /\ cur \in Nat /\ u \in Nat
        /\ u <= cur /\ GenesisEpochIndex = 0
    BY DEF EpochIndex, Databases, FreshPools, PoolsInv, GenesisEpochIndex
  <1>2. \A e \in EpochIndex : Started(after, e) <=> Started(d, e) \/ e = cur
    <2>1. d.startHeight \in [EpochIndex -> OrMissing(Nat)]
      BY DEF Databases
    <2>2. height # Missing
      BY MissingAssumption
    <2>3. ~info.isChange => Started(d, cur)
      BY <1>1 DEF PoolsInv, FreshPools, EpochIndex
    <2>4. after.startHeight = IF info.isChange THEN [d.startHeight EXCEPT ![cur] = height]
                              ELSE d.startHeight
      BY DEF ProcessBlockFees
    <2> QED
      BY <1>1, <2>1, <2>2, <2>3, <2>4 DEF Started
  <1>3. /\ \A e \in EpochIndex : Started(d, e) => e <= cur
        /\ info.isChange => ~Started(d, cur)
        /\ ~info.isChange => Started(d, cur)
        /\ \A e \in EpochIndex : e >= u /\ Started(d, e) => d.blockCount[e] # Missing
        /\ u < cur => Started(d, u)
    <2>1. CASE FreshPools(d, hist) /\ cur = GenesisEpochIndex /\ info.isChange
      BY <1>1, <2>1 DEF FreshPools
    <2>2. CASE PoolsInv(d, hist, last) /\ last <= cur /\ (info.isChange <=> last < cur)
      <3>1. /\ last \in EpochIndex /\ last \in Nat /\ cur \in Nat
            /\ Started(d, last) /\ Started(d, u)
            /\ \A e \in EpochIndex : e > last => ~Started(d, e)
        BY <1>1, <2>2 DEF PoolsInv
      <3>2. \A e \in EpochIndex : e >= u /\ Started(d, e) => d.blockCount[e] # Missing
        BY <2>2 DEF PoolsInv
      <3>3. ASSUME NEW e \in EpochIndex, Started(d, e) PROVE e <= cur
        <4>1. e \in Nat /\ ~(e > last)
          BY <1>1, <3>1, <3>3
        <4> QED
          BY <2>2, <3>1, <4>1
      <3>4. IF info.isChange THEN ~Started(d, cur) ELSE Started(d, cur)
        <4>1. CASE last < cur
          BY <1>1, <2>2, <3>1, <4>1
        <4>2. CASE ~(last < cur)
          <5>1. last = cur
            BY <2>2, <3>1, <4>2
          <5> QED
            BY <2>2, <3>1, <4>2, <5>1
        <4> QED
          BY <4>1, <4>2
      <3> QED
        BY <3>1, <3>2, <3>3, <3>4
    <2> QED
      BY <2>1, <2>2
  <1>4. \A e \in EpochIndex, p \in Proposers :
          /\ hist.produced[e][p] \in Nat /\ hist.payments[e][p] \in Nat
          /\ EntryInv(d, hist, cur, e, p)
    <2> TAKE e \in EpochIndex, p \in Proposers
    <2>1. hist.produced[e][p] \in Nat /\ hist.payments[e][p] \in Nat
      BY DEF Histories
    <2>2. CASE FreshPools(d, hist)
      <3>1. hist.produced[e][p] = 0 /\ hist.payments[e][p] = 0 /\ ~Started(d, e)
        BY <2>2 DEF FreshPools, EmptyHistory, NoBlocks
      <3> QED
        BY <2>1, <3>1 DEF EntryInv
    <2>3. CASE PoolsInv(d, hist, last) /\ last <= cur
      <3>1. last \in Nat /\ e \in Nat /\ cur \in Nat
        BY <1>1, <2>3 DEF PoolsInv
      <3>2. EntryInv(d, hist, last, e, p)
        BY <2>3 DEF PoolsInv
      <3> QED
        BY <2>1, <2>3, <3>1, <3>2 DEF EntryInv
    <2> QED
      BY <2>2, <2>3
  <1>5. after.blockCount = BlockCountAfter(d, info, proposer)
        /\ after.unpaidEpoch = IF MarkedAsPaid(d, info) THEN NextUnpaidEpoch(d, info) ELSE u
    BY DEF ProcessBlockFees
  <1>6. /\ after.blockCount[cur] \in [Proposers -> Nat]
        /\ \A p \in Proposers : after.blockCount[cur][p] = histAfter.produced[cur][p]
    <2> DEFINE counted == IF info.isChange THEN NoBlocks ELSE d.blockCount[cur]
    <2>1. counted \in [Proposers -> Nat]
      <3>1. d.blockCount \in [EpochIndex -> OrMissing([Proposers -> Nat])]
        BY DEF Databases
      <3> QED
        BY <1>1, <1>3, <3>1 DEF NoBlocks, OrMissing
    <2>2. \A p \in Proposers : counted[p] = hist.produced[cur][p]
      BY <1>1, <1>3, <1>4 DEF EntryInv, NoBlocks
    <2> HIDE DEF counted
    <2>3. after.blockCount[cur] = [counted EXCEPT ![proposer] = counted[proposer] + 1]
      BY <1>1, <1>5 DEF BlockCountAfter, counted
    <2> QED
      BY <1>1, <2>1, <2>2, <2>3
  <1>7. \A p \in PaidChunk(d, info) : p \in Proposers /\ d.blockCount[u][p] > 0
    BY DEF PaidChunk, UnpaidProposers
  <1> DEFINE paid(e, p) == /\ e = u /\ NeedsPayment(d, info)
                           /\ p \in PaidChunk(d, info)
             Goal == /\ after.unpaidEpoch <= cur /\ Started(after, after.unpaidEpoch)
                     /\ \A e \in EpochIndex :
                          /\ e >= after.unpaidEpoch /\ Started(after, e) =>
                               after.blockCount[e] # Missing
                          /\ \A p \in Proposers : EntryInv(after, histAfter, cur, e, p)
  <1>8. ASSUME NEW e \in EpochIndex, NEW p \in Proposers
        PROVE  /\ histAfter.produced[e][p] \in Nat /\ histAfter.payments[e][p] \in Nat
               /\ hist.produced[e][p] \in Nat /\ hist.payments[e][p] \in Nat
               /\ e # cur => histAfter.produced[e][p] = hist.produced[e][p]
               /\ ~paid(e, p) => histAfter.payments[e][p] = hist.payments[e][p]
               /\ paid(e, p) => histAfter.payments[e][p] = hist.payments[e][p] + 1
    <2>1. /\ histAfter.produced[e][p] \in Nat /\ histAfter.payments[e][p] \in Nat
          /\ hist.produced[e][p] \in Nat /\ hist.payments[e][p] \in Nat
      BY DEF Histories
    <2> QED
      BY <2>1
  <1>9. /\ after.blockCount[cur] # Missing
        /\ \A p \in Proposers : hist.payments[cur][p] = 0
    <2>1. \A p \in Proposers : EntryInv(d, hist, cur, cur, p)
      BY <1>1, <1>4
    <2> QED
      BY <1>1, <1>6, <2>1, MissingCountsAssumption DEF EntryInv
  <1>10. Goal => PoolsInv(after, histAfter, cur)
    BY <1>1, <1>2, <1>3 DEF PoolsInv
  <1>11. CASE ~NeedsPayment(d, info)
    <2>1. u = cur /\ after.unpaidEpoch = cur
      <3>1. ~MarkedAsPaid(d, info)
        BY <1>11 DEF MarkedAsPaid
      <3>2. u = cur
        BY <1>1, <1>11 DEF NeedsPayment
      <3> QED
        BY <1>5, <3>1, <3>2
    <2>2. ASSUME NEW e \in EpochIndex, NEW p \in Proposers
          PROVE  EntryInv(after, histAfter, cur, e, p)
      <3>1. /\ EntryInv(d, hist, cur, e, p) /\ e \in Nat /\ cur \in Nat
            /\ histAfter.payments[e][p] = hist.payments[e][p]
        BY <1>1, <1>4, <1>8, <1>11
      <3>2. CASE e = cur
        BY <1>1, <1>2, <1>6, <1>8, <1>9, <2>1, <3>1, <3>2 DEF EntryInv
      <3>3. CASE e # cur
        BY <1>2, <1>3, <1>8, <2>1, <3>1, <3>3 DEF EntryInv
      <3> QED
        BY <3>2, <3>3
    <2>3. ASSUME NEW e \in EpochIndex, e >= after.unpaidEpoch, Started(after, e)
          PROVE  after.blockCount[e] # Missing
      BY <1>1, <1>2, <1>3, <1>9, <2>1, <2>3
    <2>4. Goal
      BY <1>1, <1>2, <2>1, <2>2, <2>3
    <2> QED
      BY <1>10, <2>4
  <1>12. CASE NeedsPayment(d, info) /\ ~MarkedAsPaid(d, info)
    <2>1. u < cur /\ after.unpaidEpoch = u /\ Started(d, u)
      <3>1. u < cur
        BY <1>1, <1>12 DEF NeedsPayment
      <3> QED
        BY <1>3, <1>5, <1>12, <3>1
    <2>2. /\ \A p \in Proposers :
               after.blockCount[u][p] = IF p \in PaidChunk(d, info) THEN 0
                                        ELSE d.blockCount[u][p]
          /\ after.blockCount[u] # Missing
      <3>1. u # cur
        BY <1>1, <2>1
      <3>2. after.blockCount[u] = [p \in Proposers |-> IF p \in PaidChunk(d, info) THEN 0
                                                      ELSE d.blockCount[u][p]]
        BY <1>1, <1>5, <1>12, <3>1 DEF BlockCountAfter
      <3>3. d.blockCount[u] \in [Proposers -> Nat]
        <4>1. d.blockCount \in [EpochIndex -> OrMissing([Proposers -> Nat])]
          BY DEF Databases
        <4> QED
          BY <1>1, <1>3, <2>1, <4>1 DEF OrMissing
      <3>4. after.blockCount[u] \in [Proposers -> Nat]
        BY <3>2, <3>3
      <3> QED
        BY <3>2, <3>4, MissingCountsAssumption
    <2>3. /\ Started(after, u)
          /\ after.blockCount[cur] # Missing /\ after.blockCount[u] # Missing
          /\ \A e \in EpochIndex : e # cur /\ e # u => after.blockCount[e] = d.blockCount[e]
      <3>1. Started(after, u) /\ after.blockCount[u] # Missing
        BY <1>1, <1>2, <2>1, <2>2
      <3>2. after.blockCount[cur] # Missing
        BY <1>1, <1>2, <1>5, <1>9, <2>1
      <3>3. \A e \in EpochIndex : e # cur /\ e # u => after.blockCount[e] = d.blockCount[e]
        BY <1>1, <1>2, <1>5, <1>9, <2>1 DEF BlockCountAfter
      <3> QED
        BY <3>1, <3>2, <3>3
    <2>4. ASSUME NEW e \in EpochIndex, NEW p \in Proposers
          PROVE  EntryInv(after, histAfter, cur, e, p)
      <3>1. EntryInv(d, hist, cur, e, p) /\ e \in Nat
        BY <1>1, <1>4
      <3>2. CASE e = cur
        <4>1. histAfter.payments[e][p] = 0
          <5>1. ~paid(e, p) /\ hist.payments[e][p] = 0
            BY <1>1, <1>9, <2>1, <3>2
          <5> QED
            BY <1>8, <5>1
        <4> QED
          BY <1>1, <1>2, <1>6, <1>8, <2>1, <3>1, <3>2, <4>1 DEF EntryInv
      <3>3. CASE e = u /\ p \in PaidChunk(d, info)
        <4>1. hist.payments[e][p] = 0 /\ hist.produced[e][p] > 0
          BY <1>1, <1>7, <1>8, <2>1, <3>1, <3>3 DEF EntryInv
        <4>2. /\ histAfter.payments[e][p] = 1
              /\ histAfter.produced[e][p] = hist.produced[e][p]
              /\ after.blockCount[e][p] = 0
          BY <1>1, <1>8, <1>12, <2>1, <2>2, <3>3, <4>1
        <4> QED
          BY <1>1, <1>8, <2>1, <2>3, <3>1, <3>3, <4>1, <4>2 DEF EntryInv
      <3>4. CASE e = u /\ p \notin PaidChunk(d, info)
        <4>1. /\ histAfter.payments[e][p] = hist.payments[e][p]
              /\ histAfter.produced[e][p] = hist.produced[e][p]
              /\ after.blockCount[e][p] = d.blockCount[e][p]
          BY <1>1, <1>8, <2>1, <2>2, <3>4
        <4> QED
          BY <1>1, <1>2, <1>8, <2>1, <3>1, <3>4, <4>1 DEF EntryInv
      <3>5. CASE e # cur /\ e # u
        <4>1. /\ histAfter.payments[e][p] = hist.payments[e][p]
              /\ histAfter.produced[e][p] = hist.produced[e][p]
              /\ after.blockCount[e] = d.blockCount[e]
          BY <1>8, <2>3, <3>5
        <4> QED
          BY <1>1, <1>2, <1>8, <2>1, <3>1, <3>5, <4>1 DEF EntryInv
      <3> QED
        BY <3>2, <3>3, <3>4, <3>5
    <2>5. ASSUME NEW e \in EpochIndex, e >= after.unpaidEpoch, Started(after, e)
          PROVE  after.blockCount[e] # Missing
      BY <1>1, <1>2, <1>3, <2>1, <2>3, <2>5
    <2>6. Goal
      BY <1>1, <2>1, <2>3, <2>4, <2>5
    <2> QED
      BY <1>10, <2>6
  <1>13. CASE MarkedAsPaid(d, info)
    <2> DEFINE next == NextUnpaidEpoch(d, info)
    <2>1. NeedsPayment(d, info) /\ PaidChunk(d, info) = UnpaidProposers(d)
      BY <1>13, LastChunk DEF MarkedAsPaid
    <2>2. u < cur /\ info.current # GenesisEpochIndex /\ Started(d, u)
      BY <1>1, <1>3, <2>1 DEF NeedsPayment
    <2>3. /\ next \in EpochIndex /\ next \in Nat /\ u < next /\ next <= cur
          /\ next = cur \/ Started(d, next)
          /\ \A e \in EpochIndex : u < e /\ e < next => ~Started(d, e)
      BY <1>1, <2>2, NextUnpaidEpochType
    <2> HIDE DEF next
    <2>4. after.unpaidEpoch = next
      BY <1>5, <1>13 DEF next
    <2>5. /\ Started(after, next) /\ after.blockCount[cur] # Missing
          /\ \A e \in EpochIndex : e # cur /\ e # u => after.blockCount[e] = d.blockCount[e]
      BY <1>1, <1>2, <1>5, <1>9, <2>3 DEF BlockCountAfter
    <2>6. ASSUME NEW e \in EpochIndex, NEW p \in Proposers
          PROVE  EntryInv(after, histAfter, cur, e, p)
      <3>1. EntryInv(d, hist, cur, e, p) /\ e \in Nat
        BY <1>1, <1>4
      <3>2. CASE e = cur
        <4>1. histAfter.payments[e][p] = 0
          <5>1. ~paid(e, p) /\ hist.payments[e][p] = 0
            BY <1>1, <1>9, <2>2, <3>2
          <5> QED
            BY <1>8, <5>1
        <4> QED
          BY <1>1, <1>2, <1>6, <1>8, <2>3, <2>4, <3>1, <3>2, <4>1 DEF EntryInv
      <3>3. CASE e = u
        <4>1. /\ d.blockCount[u][p] = IF hist.payments[e][p] = 0 THEN hist.produced[e][p] ELSE 0
              /\ hist.payments[e][p] \in {0, 1} /\ hist.payments[e][p] <= hist.produced[e][p]
          BY <1>1, <2>2, <3>1, <3>3 DEF EntryInv
        <4>2. paid(e, p) <=> d.blockCount[u][p] > 0
          BY <2>1, <3>3 DEF UnpaidProposers
        <4>3. histAfter.produced[e][p] = hist.produced[e][p]
          BY <1>1, <1>8, <2>2, <3>3
        <4>4. histAfter.payments[e][p] = IF histAfter.produced[e][p] > 0 THEN 1 ELSE 0
          <5>1. CASE paid(e, p)
            BY <1>8, <4>1, <4>2, <4>3, <5>1
          <5>2. CASE ~paid(e, p)
            BY <1>8, <4>1, <4>2, <4>3, <5>2
          <5> QED
            BY <5>1, <5>2
        <4> QED
          BY <1>1, <1>2, <1>8, <2>2, <2>3, <2>4, <3>1, <3>3, <4>3, <4>4 DEF EntryInv
      <3>4. CASE e # cur /\ e # u
        <4>1. /\ histAfter.payments[e][p] = hist.payments[e][p]
              /\ histAfter.produced[e][p] = hist.produced[e][p]
              /\ after.blockCount[e] = d.blockCount[e]
          BY <1>8, <2>5, <3>4
        <4>2. CASE e < u
          BY <1>1, <1>2, <1>8, <2>3, <2>4, <3>1, <3>4, <4>1, <4>2 DEF EntryInv
        <4>3. CASE e > u /\ e < next
          BY <1>1, <1>2, <1>8, <2>3, <2>4, <3>1, <3>4, <4>1, <4>3 DEF EntryInv
        <4>4. CASE e >= next
          <5>1. e > u /\ ~(e < u) /\ ~(e < next) /\ e # u
            BY <1>1, <2>3, <3>1, <4>4
          <5>2. /\ hist.payments[e][p] = 0 /\ (~Started(d, e) => hist.produced[e][p] = 0)
                /\ Started(d, e) => d.blockCount[e][p] = hist.produced[e][p]
            BY <1>1, <3>1, <5>1 DEF EntryInv
          <5>3. hist.produced[e][p] \in Nat /\ (Started(after, e) <=> Started(d, e))
            BY <1>2, <1>8, <3>4
          <5> QED
            BY <2>4, <4>1, <5>1, <5>2, <5>3 DEF EntryInv
        <4> QED
          BY <1>1, <2>3, <3>1, <3>4, <4>2, <4>3, <4>4
      <3> QED
        BY <3>2, <3>3, <3>4
    <2>7. ASSUME NEW e \in EpochIndex, e >= after.unpaidEpoch, Started(after, e)
          PROVE  after.blockCount[e] # Missing
      BY <1>1, <1>2, <1>3, <2>3, <2>4, <2>5, <2>7
    <2>8. Goal
      BY <1>1, <2>3, <2>4, <2>5, <2>6, <2>7
    <2> QED
      BY <1>10, <2>8
  <1> QED
    BY <1>11, <1>12, <1>13 DEF MarkedAsPaid
-----------------------------------------------------------------------------
IInv == TimeInv /\ PaymentInv

(* Before the first block nobody is owed anything. *)
LEMMA InitPaymentInv == Init => PaymentInv
  BY DEF Init, PaymentInv, FreshPools, InitialDatabase, Started

(* Beginning a block leaves the pools alone. *)
LEMMA BlockBeginPaymentInv ==
  ASSUME IInv, NEW t \in 0 .. MaxTime, NEW p \in Proposers, BlockBegin(t, p)
  PROVE  PaymentInv'
  <1>1. /\ db = committed.db /\ committed' = committed /\ stage' = "begun"
        /\ db' = IF FirstBlock THEN [db EXCEPT !.genesisTime = t] ELSE db
    BY DEF BlockBegin, IInv, TimeInv, BlockCoherent
  <1>2. db'.unpaidEpoch = db.unpaidEpoch /\ db'.startHeight = db.startHeight
        /\ db'.blockCount = db.blockCount
    <2>1. db \in Databases
      BY DEF IInv, TimeInv, TypeOK
    <2> QED
      BY <1>1, <2>1 DEF Databases
  <1> QED
    BY <1>1, <1>2 DEF IInv, PaymentInv, LastEpoch

(* The block that began is on top of the durable chain, in an epoch that is *)
(* not before the chain's last one, or it is the first.                     *)
LEMMA BegunBlock ==
  ASSUME IInv, stage = "begun"
  PROVE  LET info == context.info
         IN  /\ context \in Contexts /\ db \in Databases /\ history \in Histories
             /\ info \in EpochInfos /\ context.height \in Nat /\ context.proposer \in Proposers
             /\ history = committed.history
             /\ committed.height \in Nat /\ context.height = committed.height + 1
             /\ committed.height = 0 =>
                  /\ FreshPools(db, history)
                  /\ info.current = GenesisEpochIndex /\ info.isChange /\ info.previous = Missing
             /\ committed.height # 0 =>
                  /\ PoolsInv(db, history, LastEpoch) /\ LastEpoch <= info.current
                  /\ info.isChange <=> LastEpoch < info.current
                  /\ info.isChange => info.previous = LastEpoch
  <1> DEFINE info == context.info
  <1>1. /\ context \in Contexts /\ db \in Databases /\ history \in Histories
        /\ info \in EpochInfos /\ context.height \in Nat /\ context.proposer \in Proposers
        /\ history = committed.history /\ context.height = committed.height + 1
        /\ committed.height \in Nat /\ committed.time \in OrMissing(Nat) /\ context.time \in Nat
    BY DEF IInv, TimeInv, TypeOK, BlockCoherent, Contexts, Chains, NextHeight
  <1>2. /\ db.unpaidEpoch = committed.db.unpaidEpoch
        /\ db.startHeight = committed.db.startHeight
        /\ db.blockCount = committed.db.blockCount
    BY DEF IInv, PaymentInv
  <1>3. /\ db.genesisTime \in Nat /\ db.genesisTime <= context.time
        /\ info = CalculateEpochInfo(db.genesisTime, context.time, committed.time)
    BY DEF IInv, TimeInv, BlockCoherent
  <1>4. ASSUME committed.height = 0
        PROVE  /\ FreshPools(db, history)
               /\ info.current = GenesisEpochIndex /\ info.isChange /\ info.previous = Missing
    <2>1. committed.time = Missing /\ FreshPools(committed.db, committed.history)
      BY <1>4 DEF IInv, TimeInv, BlockCoherent, PaymentInv
    <2>2. info.current = GenesisEpochIndex /\ info.isChange /\ info.previous = Missing
      BY <1>3, <2>1 DEF CalculateEpochInfo, DefaultEpochInfo
    <2>3. FreshPools(db, history)
      BY <1>1, <1>2, <2>1 DEF FreshPools, Started
    <2> QED
      BY <2>2, <2>3
  <1>5. ASSUME committed.height # 0
        PROVE  /\ PoolsInv(db, history, LastEpoch) /\ LastEpoch <= info.current
               /\ info.isChange <=> LastEpoch < info.current
               /\ info.isChange => info.previous = LastEpoch
    <2>1. /\ committed.height > 0 /\ ~FirstBlock
          /\ PoolsInv(committed.db, committed.history, LastEpoch)
      BY <1>1, <1>5 DEF IInv, PaymentInv, FirstBlock, NextHeight
    <2>2. /\ committed.time \in Nat /\ committed.time # Missing
          /\ db.genesisTime = committed.db.genesisTime /\ committed.time <= context.time
          /\ db.genesisTime <= committed.time
      BY <2>1, MissingAssumption DEF IInv, TimeInv, BlockCoherent, ChainHasGenesis
    <2>3. /\ LastEpoch <= info.current
          /\ info.isChange <=> LastEpoch < info.current
          /\ info.isChange => info.previous = LastEpoch
      BY <1>1, <1>3, <2>2, EpochInfoType DEF LastEpoch
    <2>4. PoolsInv(db, history, LastEpoch)
      BY <1>1, <1>2, <2>1 DEF PoolsInv, EntryInv, Started
    <2> QED
      BY <2>3, <2>4
  <1> QED
    BY <1>1, <1>4, <1>5

(* A block's end adds the block and the payments of its chunk to the        *)
(* history, of an epoch that is not before the chain's last one.            *)
LEMMA BlockEndEffect ==
  ASSUME IInv, NEW fees \in BlockFees, BlockEnd(fees)
  PROVE  LET info == context.info
         IN  /\ context \in Contexts /\ db \in Databases /\ history \in Histories
             /\ info \in EpochInfos /\ info.current \in EpochIndex
             /\ history' \in Histories
             /\ \A e \in EpochIndex, p \in Proposers :
                  /\ history'.produced[e][p] =
                       history.produced[e][p] + (IF e = info.current /\ p = context.proposer
                                                 THEN 1 ELSE 0)
                  /\ history'.payments[e][p] =
                       history.payments[e][p] + (IF /\ e = db.unpaidEpoch
                                                    /\ NeedsPayment(db, info)
                                                    /\ p \in PaidChunk(db, info)
                                                 THEN 1 ELSE 0)
             /\ \/ FreshPools(db, history) /\ info.current = GenesisEpochIndex /\ info.isChange
                \/ /\ PoolsInv(db, history, LastEpoch) /\ LastEpoch <= info.current
                   /\ info.isChange <=> LastEpoch < info.current
  <1> DEFINE info == context.info
  <1>1. /\ stage = "begun" /\ stage' = "ended"
        /\ ~ProcessBlockFeesFails(db, info, context.height)
        /\ db' = ProcessBlockFees(db, info, context.height, context.proposer, fees)
        /\ history' = HistoryAfter(fees)
        /\ UNCHANGED <<committed, context>>
    BY DEF BlockEnd
  <1>2. /\ context \in Contexts /\ db \in Databases /\ history \in Histories
        /\ info \in EpochInfos /\ context.height \in Nat /\ context.proposer \in Proposers
        /\ history = committed.history
        /\ committed.height \in Nat /\ committed.time \in OrMissing(Nat) /\ context.time \in Nat
    BY <1>1 DEF IInv, TimeInv, TypeOK, BlockCoherent, Contexts, Chains
  <1>3. history' \in Histories
    BY <1>1, <1>2, HistoryType DEF IInv, TimeInv
  <1>4. info.current \in EpochIndex
    BY <1>1, <1>2 DEF ProcessBlockFeesFails, Databases
  <1>5. ASSUME NEW e \in EpochIndex, NEW p \in Proposers
        PROVE  /\ history'.produced[e][p] =
                    history.produced[e][p] + (IF e = info.current /\ p = context.proposer
                                              THEN 1 ELSE 0)
               /\ history'.payments[e][p] =
                    history.payments[e][p] + (IF /\ e = db.unpaidEpoch /\ NeedsPayment(db, info)
                                                 /\ p \in PaidChunk(db, info) THEN 1 ELSE 0)
    <2> DEFINE u == db.unpaidEpoch
               made == history.produced
               payments == history.payments
               chunk == IF NeedsPayment(db, info) THEN PaidChunk(db, info) ELSE {}
               row == [q \in Proposers |-> IF q \in chunk THEN payments[u][q] + 1
                                           ELSE payments[u][q]]
    <2>1. /\ made \in [EpochIndex -> [Proposers -> Nat]]
          /\ payments \in [EpochIndex -> [Proposers -> Nat]]
          /\ u \in EpochIndex
      BY <1>2 DEF Histories, Databases
    <2>2. /\ history'.produced = [made EXCEPT ![info.current][context.proposer] =
                                    made[info.current][context.proposer] + 1]
          /\ history'.payments = [payments EXCEPT ![u] = row]
      BY <1>1 DEF HistoryAfter
    <2> HIDE DEF made, payments, chunk, info, u
    <2>3. [made EXCEPT ![info.current][context.proposer] =
              made[info.current][context.proposer] + 1][e][p]
            = made[e][p] + (IF e = info.current /\ p = context.proposer THEN 1 ELSE 0)
      <3>1. made[e] \in [Proposers -> Nat] /\ made[e][p] \in Nat
        BY <2>1
      <3> QED
        BY <1>4, <2>1, <3>1
    <2>4. [payments EXCEPT ![u] = row][e][p]
            = payments[e][p] + (IF e = u /\ p \in chunk THEN 1 ELSE 0)
      <3>1. payments[e][p] \in Nat
        BY <2>1
      <3> QED
        BY <2>1, <3>1
    <2> QED
      BY <2>2, <2>3, <2>4 DEF made, payments, chunk, u
  <1>6. \/ FreshPools(db, history) /\ info.current = GenesisEpochIndex /\ info.isChange
        \/ /\ PoolsInv(db, history, LastEpoch) /\ LastEpoch <= info.current
           /\ info.isChange <=> LastEpoch < info.current
    BY <1>1, BegunBlock
  <1> QED
    BY <1>2, <1>3, <1>4, <1>5, <1>6

(* Ending a block keeps the payments right. *)
LEMMA BlockEndPaymentInv ==
  ASSUME IInv, NEW fees \in BlockFees, BlockEnd(fees)
  PROVE  PaymentInv'
  <1> DEFINE info == context.info
  <1>1. /\ stage' = "ended" /\ committed' = committed /\ context' = context
        /\ db' = ProcessBlockFees(db, info, context.height, context.proposer, fees)
        /\ context.height \in Nat /\ context.proposer \in Proposers
    BY BlockEndEffect DEF BlockEnd, Contexts
  <1>2. PoolsInv(db', history', info.current)
    <2>1. /\ db \in Databases /\ history \in Histories
          /\ info \in EpochInfos /\ info.current \in EpochIndex
          /\ history' \in Histories
      BY BlockEndEffect
    <2>2. \A e \in EpochIndex, p \in Proposers :
            /\ history'.produced[e][p] =
                 history.produced[e][p] + (IF e = info.current /\ p = context.proposer
                                           THEN 1 ELSE 0)
            /\ history'.payments[e][p] =
                 history.payments[e][p] + (IF /\ e = db.unpaidEpoch /\ NeedsPayment(db, info)
                                              /\ p \in PaidChunk(db, info) THEN 1 ELSE 0)
      BY BlockEndEffect
    <2>3. \/ FreshPools(db, history) /\ info.current = GenesisEpochIndex /\ info.isChange
          \/ /\ PoolsInv(db, history, LastEpoch) /\ LastEpoch <= info.current
             /\ info.isChange <=> LastEpoch < info.current
      BY BlockEndEffect
    <2> HIDE DEF info
    <2> QED
      BY <1>1, <2>1, <2>2, <2>3, BlockKeepsPoolsInv, ZenonT(60)
  <1> QED
    BY <1>1, <1>2 DEF IInv, PaymentInv, LastEpoch

(* A commit makes the ended block's epoch the last one of the chain. *)
LEMMA CommitPaymentInv ==
  ASSUME IInv, CommitTransaction
  PROVE  PaymentInv'
  <1>1. /\ stage = "ended" /\ stage' = "idle"
        /\ committed' = [db |-> db, history |-> history,
                         height |-> context.height, time |-> context.time]
    BY DEF CommitTransaction
  <1>2. /\ context.height > 0
        /\ context.info.current = EpochIndexAt(db.genesisTime, context.time)
    BY <1>1 DEF IInv, TimeInv, TypeOK, Chains, BlockCoherent, GenesisTimeCoherent, NextHeight
  <1>3. /\ committed'.db = db /\ committed'.history = history
        /\ committed'.height = context.height /\ committed'.time = context.time
    BY <1>1
  <1>4. LastEpoch' = context.info.current
    BY <1>2, <1>3 DEF LastEpoch
  <1> QED
    BY <1>1, <1>2, <1>3, <1>4 DEF IInv, PaymentInv

(* The invariant is inductive: every step of the handlers keeps it.         *)
LEMMA StepIInv == IInv /\ [Next]_vars => IInv'
  <1> SUFFICES ASSUME IInv, [Next]_vars PROVE PaymentInv'
    BY StepTimeInv DEF IInv
  <1>1. ASSUME NEW t \in 0 .. MaxTime, NEW p \in Proposers, BlockBegin(t, p)
        PROVE  PaymentInv'
    BY <1>1, BlockBeginPaymentInv
  <1>2. ASSUME NEW fees \in BlockFees, BlockEnd(fees)
        PROVE  PaymentInv'
    BY <1>2, BlockEndPaymentInv
  <1>3. CASE CommitTransaction
    BY <1>3, CommitPaymentInv
  <1>4. CASE RollbackTransaction \/ Restart
    BY <1>4 DEF RollbackTransaction, Restart, ToCommitted, IInv, PaymentInv, LastEpoch
  <1>5. CASE UNCHANGED vars
    BY <1>5 DEF vars, IInv, PaymentInv, LastEpoch
  <1> QED
    BY <1>1, <1>2, <1>3, <1>4, <1>5 DEF Next
-----------------------------------------------------------------------------
(* The invariant says, for each epoch and proposer, what the property does. *)
LEMMA IInvPaidExactlyOnce == IInv => PaidExactlyOnce
  <1> SUFFICES ASSUME IInv, NEW e \in EpochIndex, NEW p \in Proposers
               PROVE  LET produced == history.produced[e][p]
                          times    == history.payments[e][p]
                      IN  /\ e < db.unpaidEpoch => times = (IF produced > 0 THEN 1 ELSE 0)
                          /\ e > db.unpaidEpoch => times = 0
                          /\ e = db.unpaidEpoch /\ Started(db, e) =>
                               /\ times \in {0, 1} /\ times <= produced
                               /\ db.blockCount[e][p] = (IF times = 0 THEN produced ELSE 0)
    BY DEF PaidExactlyOnce
  <1>1. \/ FreshPools(db, history)
        \/ \E last : PoolsInv(db, history, last)
    <2>1. stage \in {"idle", "begun", "ended"} /\ committed.height \in Nat
      BY DEF IInv, TimeInv, TypeOK, Chains
    <2>2. CASE stage = "ended"
      BY <2>2 DEF IInv, PaymentInv
    <2>3. CASE stage # "ended"
      <3>1. /\ db.unpaidEpoch = committed.db.unpaidEpoch
            /\ db.startHeight = committed.db.startHeight
            /\ db.blockCount = committed.db.blockCount
            /\ history = committed.history
        BY <2>1, <2>3 DEF IInv, TimeInv, BlockCoherent, PaymentInv
      <3>2. CASE committed.height = 0
        <4>1. FreshPools(committed.db, committed.history)
          BY <3>2 DEF IInv, PaymentInv
        <4> QED
          BY <3>1, <4>1 DEF FreshPools, Started
      <3>3. CASE committed.height # 0
        <4>1. PoolsInv(committed.db, committed.history, LastEpoch)
          BY <3>3 DEF IInv, PaymentInv
        <4>2. PoolsInv(db, history, LastEpoch)
          BY <3>1, <4>1 DEF PoolsInv, EntryInv, Started
        <4> QED
          BY <4>2
      <3> QED
        BY <3>2, <3>3
    <2> QED
      BY <2>2, <2>3
  <1>2. e \in Nat /\ db.unpaidEpoch \in Nat
    BY DEF EpochIndex, IInv, TimeInv, TypeOK, Databases
  <1>3. CASE FreshPools(db, history)
    <2>1. db.unpaidEpoch = 0 /\ ~Started(db, e) /\ history.payments[e][p] = 0
      BY <1>3 DEF FreshPools, GenesisEpochIndex, EmptyHistory, NoBlocks
    <2> QED
      BY <1>2, <2>1
  <1>4. ASSUME NEW last, PoolsInv(db, history, last)
        PROVE  EntryInv(db, history, last, e, p)
    BY <1>4 DEF PoolsInv
  <1>5. CASE \E last : PoolsInv(db, history, last)
    <2>1. PICK last : EntryInv(db, history, last, e, p)
      BY <1>4, <1>5
    <2> QED
      BY <1>2, <2>1 DEF EntryInv
  <1> QED
    BY <1>1, <1>3, <1>5

(* In every behaviour, whatever the number of epochs, proposers and payouts *)
(* per block: no proposer is paid twice for an epoch, none is paid before   *)
(* the older epochs are settled, and an epoch is passed as paid only when   *)
(* every proposer of it was.                                                *)
THEOREM PaymentsExactlyOnce == Spec => []PaidExactlyOnce
  <1>1. Init => IInv
    BY InitTimeInv, InitPaymentInv DEF IInv
  <1> QED
    BY <1>1, StepIInv, IInvPaidExactlyOnce, PTL DEF Spec
-----------------------------------------------------------------------------
(* What a database owes and a history has paid, as the ledger sees them. *)
DueOf(d) ==
  [e \in EpochIndex |-> IF d.blockCount[e] = Missing THEN {}
                        ELSE {p \in Proposers : d.blockCount[e][p] > 0}]
PaidOf(hist) == [e \in EpochIndex |-> {p \in Proposers : hist.payments[e][p] > 0}]

(* Blocks are counted only for epochs that started and are not passed as    *)
(* paid: the oldest epoch with anything due is the unpaid one.              *)
CountedUnpaid(d) ==
  \A e \in EpochIndex : d.blockCount[e] # Missing => Started(d, e) /\ e >= d.unpaidEpoch

(* The ledger moved by one block of epoch cur. *)
RewardStep(due, paid, cur, dueAfter, paidAfter) ==
  \E o \in EpochIndex, p \in Proposers, chunk \in SUBSET Proposers :
    /\ chunk # {} => /\ o < cur /\ due[o] # {} /\ chunk \subseteq due[o]
                     /\ \A e \in EpochIndex : e < o => due[e] = {}
    /\ dueAfter = [[due EXCEPT ![o] = @ \ chunk] EXCEPT ![cur] = @ \cup {p}]
    /\ paidAfter = [paid EXCEPT ![o] = @ \cup chunk]

(* A commit is when the ledger moves, but its block was executed before:    *)
(* the invariant remembers that the ended block is a step of the ledger.    *)
RewardInv ==
  /\ CountedUnpaid(committed.db)
  /\ stage = "ended" =>
       /\ CountedUnpaid(db)
       /\ LedgerEpoch <= context.info.current
       /\ RewardStep(DueOf(committed.db), PaidOf(committed.history), context.info.current,
                     DueOf(db), PaidOf(history))
-----------------------------------------------------------------------------
(* One block is one step of the ledger: it adds its proposer to what its    *)
(* epoch owes, and moves the chunk it pays from due to paid.                *)
LEMMA BlockIsRewardStep ==
  ASSUME NEW d \in Databases, NEW hist \in Histories, NEW info \in EpochInfos,
         NEW height \in Nat, NEW proposer \in Proposers, NEW fees, NEW last,
         info.current \in EpochIndex, CountedUnpaid(d),
         \/ FreshPools(d, hist) /\ info.current = GenesisEpochIndex /\ info.isChange
         \/ /\ PoolsInv(d, hist, last) /\ last <= info.current
            /\ info.isChange <=> last < info.current,
         NEW after, after = ProcessBlockFees(d, info, height, proposer, fees),
         NEW histAfter \in Histories,
         PoolsInv(after, histAfter, info.current),
         \A e \in EpochIndex, p \in Proposers :
           histAfter.payments[e][p] =
             hist.payments[e][p] + (IF /\ e = d.unpaidEpoch /\ NeedsPayment(d, info)
                                       /\ p \in PaidChunk(d, info) THEN 1 ELSE 0)
  PROVE  /\ CountedUnpaid(after)
         /\ RewardStep(DueOf(d), PaidOf(hist), info.current, DueOf(after), PaidOf(histAfter))
  <1> DEFINE cur == info.current
             u == d.unpaidEpoch
             chunk == IF NeedsPayment(d, info) THEN PaidChunk(d, info) ELSE {}
             due == DueOf(d)
             counted == IF info.isChange THEN NoBlocks ELSE d.blockCount[cur]
  <1>1. /\ cur \in EpochIndex /\ u \in EpochIndex /\ EpochIndex \in SUBSET Nat
        /\ cur \in Nat /\ u \in Nat /\ u <= cur
        /\ d.blockCount \in [EpochIndex -> OrMissing([Proposers -> Nat])]
    <2>1. u \in EpochIndex /\ d.blockCount \in [EpochIndex -> OrMissing([Proposers -> Nat])]
      BY DEF Databases
    <2>2. EpochIndex \in SUBSET Nat
      BY DEF EpochIndex
    <2>3. u <= cur
      <3>1. CASE FreshPools(d, hist)
        <4>1. cur \in Nat /\ u = 0
          BY <3>1 DEF FreshPools, GenesisEpochIndex, EpochIndex
        <4> QED
          BY <4>1
      <3>2. CASE PoolsInv(d, hist, last) /\ last <= cur
        <4>1. u <= last /\ last \in Nat /\ u \in Nat /\ cur \in Nat
          BY <2>1, <2>2, <3>2 DEF PoolsInv
        <4> QED
          BY <3>2, <4>1
      <3> QED
        BY <3>1, <3>2
    <2> QED
      BY <2>1, <2>2, <2>3
  <1>2. /\ info.isChange => d.blockCount[cur] = Missing
        /\ ~info.isChange => d.blockCount[cur] \in [Proposers -> Nat]
        /\ u < cur => d.blockCount[u] \in [Proposers -> Nat]
    <2>1. CASE FreshPools(d, hist) /\ cur = GenesisEpochIndex /\ info.isChange
      BY <1>1, <2>1 DEF FreshPools, CountedUnpaid
    <2>2. CASE PoolsInv(d, hist, last) /\ last <= cur /\ (info.isChange <=> last < cur)
      <3>0. /\ last \in EpochIndex /\ u <= last /\ Started(d, last) /\ Started(d, u)
            /\ \A e \in EpochIndex : e > last => ~Started(d, e)
            /\ \A e \in EpochIndex : e >= u /\ Started(d, e) => d.blockCount[e] # Missing
        BY <2>2 DEF PoolsInv
      <3>1. last \in Nat /\ d.blockCount[last] # Missing /\ d.blockCount[u] # Missing
        BY <1>1, <3>0
      <3>2. ~info.isChange => last = cur
        BY <1>1, <2>2, <3>1
      <3>3. info.isChange => ~Started(d, cur)
        BY <1>1, <2>2, <3>0, <3>1
      <3> QED
        BY <1>1, <3>1, <3>2, <3>3 DEF OrMissing, CountedUnpaid
    <2> QED
      BY <2>1, <2>2
  <1>3. /\ after.blockCount = BlockCountAfter(d, info, proposer)
        /\ after.unpaidEpoch = IF MarkedAsPaid(d, info) THEN NextUnpaidEpoch(d, info) ELSE u
    BY DEF ProcessBlockFees
  <1>4. counted \in [Proposers -> Nat]
    BY <1>2 DEF NoBlocks
  <1>5. /\ after.blockCount[cur] # Missing
        /\ {p \in Proposers : after.blockCount[cur][p] > 0} = due[cur] \cup {proposer}
    <2>1. due[cur] = {p \in Proposers : counted[p] > 0}
      BY <1>1, <1>2, MissingCountsAssumption DEF DueOf, NoBlocks
    <2> HIDE DEF counted, due
    <2>2. after.blockCount[cur] = [counted EXCEPT ![proposer] = counted[proposer] + 1]
      BY <1>1, <1>3 DEF BlockCountAfter, counted
    <2>3. after.blockCount[cur] \in [Proposers -> Nat]
      BY <1>4, <2>2
    <2>4. \A p \in Proposers : after.blockCount[cur][p] > 0 <=> counted[p] > 0 \/ p = proposer
      BY <1>4, <2>2
    <2> QED
      BY <2>1, <2>3, <2>4, MissingCountsAssumption
  <1>6. NeedsPayment(d, info) => u < cur
    BY <1>1 DEF NeedsPayment
  <1>7. chunk \in SUBSET Proposers /\ chunk \in SUBSET due[u]
    <2>1. CASE NeedsPayment(d, info)
      <3>1. d.blockCount[u] \in [Proposers -> Nat]
        BY <1>2, <1>6, <2>1
      <3>2. due[u] = UnpaidProposers(d)
        BY <1>1, <3>1, MissingCountsAssumption DEF DueOf, UnpaidProposers
      <3> QED
        BY <2>1, <3>2 DEF PaidChunk, UnpaidProposers
    <2> QED
      BY <2>1
  <1>8. \A e \in EpochIndex : e < u => due[e] = {}
    <2> TAKE e \in EpochIndex
    <2>1. e \in Nat
      BY <1>1
    <2> QED
      BY <1>1, <2>1 DEF CountedUnpaid, DueOf
  <1>9. ASSUME NEW e \in EpochIndex, e # cur
        PROVE  /\ after.blockCount[e] # Missing => d.blockCount[e] # Missing
               /\ DueOf(after)[e] = IF e = u THEN due[e] \ chunk ELSE due[e]
    <2>1. DueOf(after)[e] = IF after.blockCount[e] = Missing THEN {}
                            ELSE {p \in Proposers : after.blockCount[e][p] > 0}
      BY DEF DueOf
    <2>2. due[e] = IF d.blockCount[e] = Missing THEN {}
                   ELSE {p \in Proposers : d.blockCount[e][p] > 0}
      BY DEF DueOf
    <2> HIDE DEF due
    <2>3. CASE e = u /\ MarkedAsPaid(d, info)
      <3>1. chunk = UnpaidProposers(d) /\ after.blockCount[e] = Missing
        BY <1>3, <1>9, <2>3, LastChunk DEF BlockCountAfter, MarkedAsPaid
      <3>2. due[e] \in SUBSET chunk
        BY <2>2, <2>3, <3>1 DEF UnpaidProposers
      <3> QED
        BY <2>1, <2>3, <3>1, <3>2
    <2>4. CASE e = u /\ NeedsPayment(d, info) /\ ~MarkedAsPaid(d, info)
      <3>1. after.blockCount[e] = [p \in Proposers |-> IF p \in chunk THEN 0
                                                      ELSE d.blockCount[e][p]]
        BY <1>3, <1>9, <2>4 DEF BlockCountAfter
      <3>2. d.blockCount[e] \in [Proposers -> Nat]
        BY <1>2, <1>6, <2>4
      <3>3. after.blockCount[e] \in [Proposers -> Nat]
        BY <3>1, <3>2
      <3>4. /\ DueOf(after)[e] = {p \in Proposers : after.blockCount[e][p] > 0}
            /\ due[e] = {p \in Proposers : d.blockCount[e][p] > 0}
        BY <2>1, <2>2, <3>2, <3>3, MissingCountsAssumption
      <3>5. \A p \in Proposers : after.blockCount[e][p] > 0 <=>
                                   d.blockCount[e][p] > 0 /\ p \notin chunk
        <4> HIDE DEF chunk
        <4> QED
          BY <3>1
      <3> HIDE DEF chunk
      <3> QED
        BY <2>4, <3>2, <3>4, <3>5, MissingCountsAssumption
    <2>5. CASE ~(e = u /\ NeedsPayment(d, info))
      <3>1. after.blockCount[e] = d.blockCount[e]
        BY <1>3, <1>9, <2>5 DEF BlockCountAfter, MarkedAsPaid
      <3>2. e = u => chunk = {}
        BY <2>5
      <3> QED
        BY <2>1, <2>2, <3>1, <3>2
    <2> QED
      BY <2>3, <2>4, <2>5
  <1>10. CountedUnpaid(after)
    <2> SUFFICES ASSUME NEW e \in EpochIndex, after.blockCount[e] # Missing
                 PROVE  Started(after, e) /\ e >= after.unpaidEpoch
      BY DEF CountedUnpaid
    <2>1. Started(after, cur) /\ after.unpaidEpoch <= cur
      BY DEF PoolsInv
    <2>2. CASE e = cur
      BY <1>1, <2>1, <2>2 DEF PoolsInv
    <2>3. CASE e # cur
      <3>1. Started(d, e) /\ e >= u /\ e \in Nat
        BY <1>1, <1>9, <2>3 DEF CountedUnpaid
      <3>2. Started(after, e)
        <4>1. after.startHeight = IF info.isChange THEN [d.startHeight EXCEPT ![cur] = height]
                                  ELSE d.startHeight
          BY DEF ProcessBlockFees
        <4>2. d.startHeight \in [EpochIndex -> OrMissing(Nat)]
          BY DEF Databases
        <4> QED
          BY <2>3, <3>1, <4>1, <4>2 DEF Started
      <3>3. CASE MarkedAsPaid(d, info)
        <4> DEFINE next == NextUnpaidEpoch(d, info)
        <4>1. e # u
          BY <1>3, <2>3, <3>3 DEF BlockCountAfter
        <4>2. info.current # GenesisEpochIndex /\ u < cur
          BY <1>6, <3>3 DEF MarkedAsPaid, NeedsPayment
        <4>3. /\ next \in EpochIndex
              /\ \A n \in EpochIndex : u < n /\ n < next => ~Started(d, n)
          BY <1>1, <4>2, NextUnpaidEpochType
        <4> HIDE DEF next
        <4>4. next \in Nat /\ ~(u < e /\ e < next)
          BY <1>1, <3>1, <4>3
        <4> QED
          BY <1>1, <1>3, <3>1, <3>2, <3>3, <4>1, <4>4 DEF next
      <3> QED
        BY <1>3, <3>1, <3>2, <3>3
    <2> QED
      BY <2>2, <2>3
  <1>11. DueOf(after) = [[due EXCEPT ![u] = due[u] \ chunk] EXCEPT
                           ![cur] = [due EXCEPT ![u] = due[u] \ chunk][cur] \cup {proposer}]
    <2>1. DOMAIN due = EpochIndex /\ DOMAIN DueOf(after) = EpochIndex
          /\ due = [e \in EpochIndex |-> due[e]]
          /\ DueOf(after) = [e \in EpochIndex |-> DueOf(after)[e]]
      BY DEF DueOf
    <2>2. DueOf(after)[cur] = due[cur] \cup {proposer}
      BY <1>1, <1>5 DEF DueOf
    <2>3. u = cur => chunk = {}
      BY <1>1, <1>6
    <2> HIDE DEF due, chunk, cur, u
    <2> DEFINE moved == [due EXCEPT ![u] = due[u] \ chunk]
    <2>4. moved[cur] = due[cur]
      BY <1>1, <2>1, <2>3
    <2>5. \A e \in EpochIndex : e # cur => moved[e] = DueOf(after)[e]
      BY <1>1, <1>9, <2>1 DEF cur
    <2>6. DOMAIN moved = EpochIndex /\ moved = [e \in EpochIndex |-> moved[e]]
      BY <2>1
    <2> HIDE DEF moved
    <2>7. \A e \in EpochIndex :
             DueOf(after)[e] = [moved EXCEPT ![cur] = moved[cur] \cup {proposer}][e]
      BY <1>1, <2>2, <2>4, <2>5, <2>6
    <2>8. DueOf(after) = [moved EXCEPT ![cur] = moved[cur] \cup {proposer}]
      BY <2>1, <2>6, <2>7
    <2> QED
      BY <2>8 DEF moved
  <1>12. PaidOf(histAfter) = [PaidOf(hist) EXCEPT ![u] = PaidOf(hist)[u] \cup chunk]
    <2>1. \A e \in EpochIndex : PaidOf(histAfter)[e] =
                                  IF e = u THEN PaidOf(hist)[e] \cup chunk ELSE PaidOf(hist)[e]
      <3> TAKE e \in EpochIndex
      <3>1. \A p \in Proposers : hist.payments[e][p] \in Nat
        BY DEF Histories
      <3>2. \A p \in Proposers : histAfter.payments[e][p] =
              hist.payments[e][p] + (IF e = u /\ p \in chunk THEN 1 ELSE 0)
        OBVIOUS
      <3> HIDE DEF chunk, u
      <3>3. \A p \in Proposers : histAfter.payments[e][p] > 0 <=>
              hist.payments[e][p] > 0 \/ (e = u /\ p \in chunk)
        BY <3>1, <3>2
      <3>4. /\ PaidOf(histAfter)[e] = {p \in Proposers : histAfter.payments[e][p] > 0}
            /\ PaidOf(hist)[e] = {p \in Proposers : hist.payments[e][p] > 0}
        BY DEF PaidOf
      <3> QED
        BY <1>7, <3>3, <3>4
    <2> HIDE DEF chunk, u
    <2> QED
      BY <1>1, <2>1 DEF PaidOf
  <1>13. chunk # {} => u < cur /\ due[u] # {}
    BY <1>6, <1>7
  <1> HIDE DEF chunk, due, u, cur
  <1>14. RewardStep(due, PaidOf(hist), cur, DueOf(after), PaidOf(histAfter))
    BY <1>1, <1>7, <1>8, <1>11, <1>12, <1>13 DEF RewardStep
  <1> QED
    BY <1>10, <1>14 DEF due, cur
-----------------------------------------------------------------------------
(* The chain before the first block owes nothing. *)
LEMMA InitRewardInv == Init => RewardInv
  BY DEF Init, RewardInv, CountedUnpaid, InitialDatabase

(* The ledger's epoch is the one the pools were left in. *)
LEMMA LedgerEpochType ==
  ASSUME IInv
  PROVE  /\ committed.height = 0 => LedgerEpoch = 0
         /\ committed.height # 0 => LedgerEpoch = LastEpoch
  BY DEF LedgerEpoch, LastEpoch, GenesisEpochIndex

(* An ended block is a step of the ledger from the durable chain. *)
LEMMA BlockEndRewardInv ==
  ASSUME IInv, RewardInv, NEW fees \in BlockFees, BlockEnd(fees)
  PROVE  RewardInv'
  <1> DEFINE info == context.info
  <1>1. /\ stage = "begun" /\ stage' = "ended" /\ committed' = committed /\ context' = context
        /\ db' = ProcessBlockFees(db, info, context.height, context.proposer, fees)
        /\ context.height \in Nat /\ context.proposer \in Proposers
    BY BlockEndEffect DEF BlockEnd, Contexts
  <1>2. /\ db \in Databases /\ history \in Histories
        /\ info \in EpochInfos /\ info.current \in EpochIndex
        /\ history' \in Histories
        /\ \A e \in EpochIndex, p \in Proposers :
             history'.payments[e][p] =
               history.payments[e][p] + (IF /\ e = db.unpaidEpoch /\ NeedsPayment(db, info)
                                            /\ p \in PaidChunk(db, info) THEN 1 ELSE 0)
    BY BlockEndEffect
  <1>3. \/ FreshPools(db, history) /\ info.current = GenesisEpochIndex /\ info.isChange
        \/ /\ PoolsInv(db, history, LastEpoch) /\ LastEpoch <= info.current
           /\ info.isChange <=> LastEpoch < info.current
    BY BlockEndEffect
  <1>4. PoolsInv(db', history', info.current)
    BY <1>1, BlockEndPaymentInv DEF PaymentInv
  <1>5. /\ db.unpaidEpoch = committed.db.unpaidEpoch
        /\ db.startHeight = committed.db.startHeight
        /\ db.blockCount = committed.db.blockCount
        /\ history = committed.history
    BY <1>1 DEF IInv, TimeInv, BlockCoherent, PaymentInv
  <1>6. CountedUnpaid(db) /\ DueOf(db) = DueOf(committed.db)
        /\ PaidOf(history) = PaidOf(committed.history)
    BY <1>5 DEF RewardInv, CountedUnpaid, DueOf, Started
  <1>7. LedgerEpoch <= info.current
    <2>1. CASE committed.height = 0
      <3>1. info.current >= 0
        BY <1>2 DEF EpochIndex
      <3> QED
        BY <2>1, <3>1, LedgerEpochType
    <2>2. CASE committed.height # 0
      <3>1. PoolsInv(committed.db, committed.history, LastEpoch)
        BY <2>2 DEF IInv, PaymentInv
      <3>2. ~FreshPools(db, history)
        BY <1>5, <3>1 DEF FreshPools, PoolsInv, Started
      <3> QED
        BY <1>3, <2>2, <3>2, LedgerEpochType
    <2> QED
      BY <2>1, <2>2
  <1>8. /\ CountedUnpaid(db')
        /\ RewardStep(DueOf(db), PaidOf(history), info.current, DueOf(db'), PaidOf(history'))
    <2> HIDE DEF info
    <2> QED
      BY <1>1, <1>2, <1>3, <1>4, <1>6, BlockIsRewardStep, ZenonT(60)
  <1>9. LedgerEpoch' = LedgerEpoch
    BY <1>1 DEF LedgerEpoch
  <1> QED
    BY <1>1, <1>6, <1>7, <1>8, <1>9 DEF RewardInv

LedgerInv == IInv /\ RewardInv

(* The strengthened invariant is inductive. *)
LEMMA StepLedgerInv == LedgerInv /\ [Next]_vars => LedgerInv'
  <1> SUFFICES ASSUME IInv, RewardInv, [Next]_vars PROVE RewardInv'
    BY StepIInv DEF LedgerInv
  <1>1. ASSUME NEW t \in 0 .. MaxTime, NEW p \in Proposers, BlockBegin(t, p)
        PROVE  RewardInv'
    BY <1>1 DEF BlockBegin, RewardInv
  <1>2. ASSUME NEW fees \in BlockFees, BlockEnd(fees)
        PROVE  RewardInv'
    BY <1>2, BlockEndRewardInv
  <1>3. CASE CommitTransaction
    <2>1. stage = "ended" /\ stage' = "idle" /\ committed'.db = db
      BY <1>3 DEF CommitTransaction
    <2> QED
      BY <2>1 DEF RewardInv
  <1>4. CASE RollbackTransaction \/ Restart
    BY <1>4 DEF RollbackTransaction, Restart, ToCommitted, RewardInv
  <1>5. CASE UNCHANGED vars
    BY <1>5 DEF vars, RewardInv, LedgerEpoch
  <1> QED
    BY <1>1, <1>2, <1>3, <1>4, <1>5 DEF Next

(* The ledger sees the durable chain, so only a commit moves it. *)
LEMMA CommitIsLedgerStep ==
  ASSUME LedgerInv, CommitTransaction
  PROVE  Ledger!LedgerNext
  <1>1. /\ stage = "ended"
        /\ committed' = [db |-> db, history |-> history,
                         height |-> context.height, time |-> context.time]
    BY DEF CommitTransaction
  <1>2. committed'.db = db /\ committed'.history = history
        /\ committed'.height = context.height /\ committed'.time = context.time
    BY <1>1
  <1>3. /\ LedgerDue = DueOf(committed.db) /\ LedgerPaid = PaidOf(committed.history)
        /\ LedgerDue' = DueOf(db) /\ LedgerPaid' = PaidOf(history)
    BY <1>2 DEF LedgerDue, LedgerPaid, DueOf, PaidOf
  <1>4. LedgerEpoch' = context.info.current
    <2>1. /\ context.height > 0
          /\ context.info.current = EpochIndexAt(db.genesisTime, context.time)
      BY <1>1 DEF LedgerInv, IInv, TimeInv, TypeOK, Chains, BlockCoherent,
                  GenesisTimeCoherent, NextHeight
    <2> QED
      BY <1>2, <2>1 DEF LedgerEpoch
  <1>5. /\ LedgerEpoch <= context.info.current
        /\ RewardStep(LedgerDue, LedgerPaid, context.info.current, LedgerDue', LedgerPaid')
    BY <1>1, <1>3 DEF LedgerInv, RewardInv
  <1>6. PICK o \in EpochIndex, p \in Proposers, chunk \in SUBSET Proposers :
          /\ chunk # {} => /\ o < context.info.current /\ LedgerDue[o] # {}
                           /\ chunk \subseteq LedgerDue[o]
                           /\ \A e \in EpochIndex : e < o => LedgerDue[e] = {}
          /\ LedgerDue' = [[LedgerDue EXCEPT ![o] = @ \ chunk]
                             EXCEPT ![context.info.current] = @ \cup {p}]
          /\ LedgerPaid' = [LedgerPaid EXCEPT ![o] = @ \cup chunk]
    BY <1>5 DEF RewardStep
  <1>7. context.info.current \in EpochIndex
    BY <1>1 DEF LedgerInv, IInv, PaymentInv, PoolsInv
  <1> QED
    BY <1>4, <1>5, <1>6, <1>7 DEF Ledger!LedgerNext, Ledger!Block, Ledger!IsOldestDue

(* In every behaviour the durable chain is the reward ledger: a committed   *)
(* block earns its proposer a reward in its epoch and pays rewards of the   *)
(* oldest epoch that owes any, only when that epoch is over, and a block    *)
(* that is rolled back or lost leaves the ledger as it was.                 *)
THEOREM ChainImplementsLedger == Spec => ImplementsRewardLedger
  <1>1. Init => LedgerInv
    BY InitTimeInv, InitPaymentInv, InitRewardInv DEF IInv, LedgerInv
  <1>2. Init => Ledger!LedgerInit
    <2> SUFFICES ASSUME Init PROVE Ledger!LedgerInit
      OBVIOUS
    <2>1. committed.height = 0 /\ committed.db = InitialDatabase
          /\ committed.history = EmptyHistory
      BY DEF Init
    <2>2. LedgerEpoch = 0
      BY <2>1 DEF LedgerEpoch, GenesisEpochIndex
    <2>3. LedgerDue = [e \in EpochIndex |-> {}]
      BY <2>1 DEF LedgerDue, InitialDatabase
    <2>4. LedgerPaid = [e \in EpochIndex |-> {}]
      BY <2>1 DEF LedgerPaid, EmptyHistory, NoBlocks
    <2> QED
      BY <2>2, <2>3, <2>4 DEF Ledger!LedgerInit
  <1>3. LedgerInv /\ [Next]_vars => [Ledger!LedgerNext]_(Ledger!ledgerVars)
    <2> SUFFICES ASSUME LedgerInv, [Next]_vars
                 PROVE  Ledger!LedgerNext \/ UNCHANGED Ledger!ledgerVars
      OBVIOUS
    <2>1. CASE CommitTransaction
      BY <2>1, CommitIsLedgerStep
    <2>2. CASE committed' = committed
      BY <2>2 DEF Ledger!ledgerVars, LedgerEpoch, LedgerDue, LedgerPaid
    <2> QED
      BY <2>1, <2>2 DEF Next, vars, BlockBegin, BlockEnd, RollbackTransaction, Restart,
                        ToCommitted
  <1> QED
    BY <1>1, <1>2, <1>3, StepLedgerInv, PTL
       DEF Spec, ImplementsRewardLedger, Ledger!LedgerSpec
-----------------------------------------------------------------------------
LaterEpochs(d, e) == {n \in EpochIndex : n > e /\ Started(d, n)}

(* The blocks counted in hist are those between the start heights of d, in  *)
(* a chain of the given height.                                             *)
BlocksMatch(d, hist, height) ==
  \A e \in EpochIndex : Started(d, e) =>
    LET later == LaterEpochs(d, e)
        end   == IF later = {} THEN height + 1 ELSE d.startHeight[Min(later)]
    IN  BlocksOf(hist.produced[e]) = end - d.startHeight[e]

HeightInv ==
  /\ BlocksMatch(committed.db, committed.history, committed.height)
  /\ stage = "ended" => BlocksMatch(db, history, context.height)

(* Before the first block there is nothing to count. *)
LEMMA InitHeightInv == Init => HeightInv
  BY DEF Init, HeightInv, BlocksMatch, InitialDatabase, Started

(* A block counts as one more block of its epoch. *)
LEMMA CountBlock ==
  ASSUME NEW counts \in [Proposers -> Nat], NEW counted \in [Proposers -> Nat],
         NEW proposer \in Proposers,
         \A p \in Proposers : counted[p] = counts[p] + (IF p = proposer THEN 1 ELSE 0)
  PROVE  BlocksOf(counts) \in Nat /\ BlocksOf(counted) = BlocksOf(counts) + 1
  <1>1. IsFiniteSet(Proposers)
    BY ProposersAssumption
  <1>2. Sum(counts, Proposers) \in Nat /\ Sum(counted, Proposers) \in Nat
    BY <1>1, SumNat
  <1>3. Sum(counted, Proposers) = Sum(counts, Proposers) - counts[proposer] + counted[proposer]
    BY <1>1, SumChange
  <1> QED
    BY <1>2, <1>3 DEF BlocksOf, Sum

(* Without blocks there is nothing to count. *)
LEMMA CountNothing ==
  ASSUME NEW counts, \A p \in Proposers : counts[p] = 0
  PROVE  BlocksOf(counts) = 0
  <1>1. IsFiniteSet(Proposers) /\ Cardinality(Proposers) \in Nat
    BY ProposersAssumption, FS_CardinalityType
  <1>2. Sum(counts, Proposers) = 0 * Cardinality(Proposers)
    BY <1>1, SumConstant
  <1> QED
    BY <1>1, <1>2 DEF BlocksOf, Sum

(* One block more: it counts in its epoch, and the epoch it starts ends the *)
(* one before.                                                              *)
LEMMA BlockKeepsBlocksMatch ==
  ASSUME NEW d \in Databases, NEW hist \in Histories, NEW info \in EpochInfos,
         NEW height \in Nat, NEW next, next = height + 1, NEW proposer \in Proposers,
         NEW fees, NEW last,
         info.current \in EpochIndex,
         \/ FreshPools(d, hist) /\ info.current = GenesisEpochIndex /\ info.isChange
         \/ /\ PoolsInv(d, hist, last) /\ last <= info.current
            /\ info.isChange <=> last < info.current,
         BlocksMatch(d, hist, height),
         NEW after, after = ProcessBlockFees(d, info, next, proposer, fees),
         NEW histAfter \in Histories,
         \A e \in EpochIndex, p \in Proposers :
           histAfter.produced[e][p] =
             hist.produced[e][p] + (IF e = info.current /\ p = proposer THEN 1 ELSE 0)
  PROVE  BlocksMatch(after, histAfter, next)
  <1> DEFINE cur == info.current
  <1>1. /\ cur \in EpochIndex /\ EpochIndex \in SUBSET Nat /\ cur \in Nat
        /\ \A e \in EpochIndex : Started(d, e) => d.startHeight[e] \in Nat /\ e <= cur
        /\ info.isChange => ~Started(d, cur)
        /\ ~info.isChange => Started(d, cur)
        /\ \A p \in Proposers : info.isChange => hist.produced[cur][p] = 0
    <2>1. EpochIndex \in SUBSET Nat /\ cur \in Nat
      BY DEF EpochIndex
    <2>2. \A e \in EpochIndex : Started(d, e) => d.startHeight[e] \in Nat
      BY DEF Databases, Started, OrMissing
    <2>3. CASE FreshPools(d, hist) /\ cur = GenesisEpochIndex /\ info.isChange
      BY <2>1, <2>2, <2>3 DEF FreshPools, EmptyHistory, NoBlocks
    <2>4. CASE PoolsInv(d, hist, last) /\ last <= cur /\ (info.isChange <=> last < cur)
      <3>1. /\ last \in EpochIndex /\ last \in Nat /\ Started(d, last)
            /\ \A e \in EpochIndex : e > last => ~Started(d, e)
            /\ \A p \in Proposers : EntryInv(d, hist, last, cur, p)
        BY <2>1, <2>4 DEF PoolsInv
      <3>2. ~info.isChange => last = cur
        BY <2>1, <2>4, <3>1
      <3>3. info.isChange => ~Started(d, cur)
        BY <2>1, <2>4, <3>1
      <3>4. \A e \in EpochIndex : Started(d, e) => e <= cur
        <4> TAKE e \in EpochIndex
        <4>1. e \in Nat /\ (Started(d, e) => ~(e > last))
          BY <2>1, <3>1
        <4> QED
          BY <2>1, <2>4, <3>1, <4>1
      <3>5. info.isChange => \A p \in Proposers : hist.produced[cur][p] = 0
        BY <3>1, <3>3 DEF EntryInv
      <3> QED
        BY <2>1, <2>2, <3>1, <3>2, <3>3, <3>4, <3>5
    <2> QED
      BY <2>3, <2>4
  <1>2. /\ after.startHeight = IF info.isChange THEN [d.startHeight EXCEPT ![cur] = next]
                               ELSE d.startHeight
        /\ d.startHeight \in [EpochIndex -> OrMissing(Nat)]
    BY DEF ProcessBlockFees, Databases
  <1>3. /\ \A e \in EpochIndex : e # cur => after.startHeight[e] = d.startHeight[e]
        /\ info.isChange => after.startHeight[cur] = height + 1
        /\ ~info.isChange => after.startHeight[cur] = d.startHeight[cur]
        /\ \A e \in EpochIndex : Started(after, e) <=> Started(d, e) \/ e = cur
    <2>1. height + 1 # Missing
      BY MissingAssumption
    <2> QED
      BY <1>1, <1>2, <2>1 DEF Started
  <1>4. \A e \in EpochIndex : /\ hist.produced[e] \in [Proposers -> Nat]
                              /\ histAfter.produced[e] \in [Proposers -> Nat]
    BY DEF Histories
  <1> HIDE DEF cur
  <1> SUFFICES ASSUME NEW e \in EpochIndex, Started(after, e)
               PROVE  LET later == LaterEpochs(after, e)
                          end   == IF later = {} THEN next + 1
                                   ELSE after.startHeight[Min(later)]
                      IN  BlocksOf(histAfter.produced[e]) = end - after.startHeight[e]
    BY DEF BlocksMatch
  <1>5. CASE e = cur
    <2>1. LaterEpochs(after, e) = {}
      <3> SUFFICES ASSUME NEW n \in EpochIndex, n > cur, Started(after, n) PROVE FALSE
        BY <1>5 DEF LaterEpochs
      <3>1. n \in Nat /\ n # cur
        BY <1>1
      <3>2. n <= cur
        BY <1>1, <1>3, <3>1
      <3> QED
        BY <1>1, <3>1, <3>2
    <2>2. /\ BlocksOf(hist.produced[cur]) \in Nat
          /\ BlocksOf(histAfter.produced[cur]) = BlocksOf(hist.produced[cur]) + 1
      <3>1. \A p \in Proposers : histAfter.produced[cur][p] =
                                   hist.produced[cur][p] + (IF p = proposer THEN 1 ELSE 0)
        BY <1>1 DEF cur
      <3> QED
        BY <1>1, <1>4, <3>1, CountBlock
    <2>3. CASE info.isChange
      <3>1. BlocksOf(hist.produced[cur]) = 0
        BY <1>1, <2>3, CountNothing
      <3> QED
        BY <1>3, <1>5, <2>1, <2>2, <2>3, <3>1
    <2>4. CASE ~info.isChange
      <3>1. LaterEpochs(d, cur) = {}
        BY <1>3, <1>5, <2>1 DEF LaterEpochs
      <3>2. Started(d, cur) /\ d.startHeight[cur] \in Nat
        BY <1>1, <2>4
      <3>3. BlocksOf(hist.produced[cur]) = height + 1 - d.startHeight[cur]
        BY <1>1, <3>1, <3>2 DEF BlocksMatch
      <3> QED
        BY <1>3, <1>5, <2>1, <2>2, <2>4, <3>2, <3>3
    <2> QED
      BY <2>3, <2>4
  <1>6. CASE e # cur
    <2>1. /\ Started(d, e) /\ e \in Nat /\ e < cur /\ d.startHeight[e] \in Nat
          /\ after.startHeight[e] = d.startHeight[e]
      <3>1. Started(d, e) /\ e \in Nat /\ e <= cur
        BY <1>1, <1>3, <1>6
      <3> QED
        BY <1>1, <1>3, <1>6, <3>1
    <2>2. BlocksOf(histAfter.produced[e]) = BlocksOf(hist.produced[e])
      <3>1. \A p \in Proposers : histAfter.produced[e][p] = hist.produced[e][p]
        BY <1>4, <1>6 DEF cur
      <3>2. histAfter.produced[e] = hist.produced[e]
        BY <1>4, <3>1
      <3> QED
        BY <3>2
    <2> DEFINE before == LaterEpochs(d, e)
               later == LaterEpochs(after, e)
    <2>3. later = before \cup {cur} /\ later \in SUBSET Nat /\ later # {}
          /\ before \in SUBSET Nat /\ later \in SUBSET EpochIndex
      BY <1>1, <1>3, <2>1 DEF LaterEpochs
    <2>4. Min(later) \in later /\ \A n \in later : Min(later) <= n
      BY <2>3, LeastElement
    <2>5. CASE before = {}
      <3>1. Min(later) = cur
        BY <2>3, <2>4, <2>5
      <3>2. ~Started(d, cur)
        BY <1>1, <2>1, <2>5 DEF LaterEpochs
      <3>3. after.startHeight[cur] = height + 1
        BY <1>1, <1>3, <3>2
      <3>4. BlocksOf(hist.produced[e]) = height + 1 - d.startHeight[e]
        BY <2>1, <2>5 DEF BlocksMatch
      <3> QED
        BY <2>1, <2>2, <2>3, <3>1, <3>3, <3>4
    <2>6. CASE before # {}
      <3>1. Min(before) \in before /\ \A n \in before : Min(before) <= n
        BY <2>3, <2>6, LeastElement
      <3>2. Started(d, Min(before)) /\ Min(before) \in EpochIndex
        BY <3>1 DEF LaterEpochs
      <3>3. Min(before) <= cur /\ Min(before) \in Nat /\ Min(later) \in Nat
        BY <1>1, <2>3, <2>4, <3>2
      <3>4. Min(later) = Min(before)
        <4>1. Min(later) <= Min(before)
          BY <2>3, <2>4, <3>1
        <4>2. Min(before) <= Min(later)
          <5>1. CASE Min(later) = cur
            BY <3>3, <5>1
          <5>2. CASE Min(later) # cur
            <6>1. Min(later) \in before
              BY <2>3, <2>4, <5>2
            <6> QED
              BY <3>1, <6>1
          <5> QED
            BY <5>1, <5>2
        <4> HIDE DEF before, later
        <4> QED
          BY <3>3, <4>1, <4>2
      <3>5. after.startHeight[Min(before)] = d.startHeight[Min(before)]
        BY <1>1, <1>3, <3>2
      <3>6. BlocksOf(hist.produced[e]) = d.startHeight[Min(before)] - d.startHeight[e]
        BY <2>1, <2>6 DEF BlocksMatch
      <3> QED
        BY <2>1, <2>2, <2>3, <3>4, <3>5, <3>6
    <2> QED
      BY <2>5, <2>6
  <1> QED
    BY <1>5, <1>6

(* Ending a block keeps the counts right. *)
LEMMA BlockEndHeightInv ==
  ASSUME IInv, HeightInv, NEW fees \in BlockFees, BlockEnd(fees)
  PROVE  HeightInv'
  <1> DEFINE info == context.info
  <1>1. /\ stage = "begun" /\ committed' = committed /\ context' = context
        /\ db' = ProcessBlockFees(db, info, context.height, context.proposer, fees)
        /\ context.proposer \in Proposers
    BY BlockEndEffect DEF BlockEnd, Contexts
  <1>2. /\ db \in Databases /\ history \in Histories
        /\ info \in EpochInfos /\ info.current \in EpochIndex
        /\ history' \in Histories
        /\ \A e \in EpochIndex, p \in Proposers :
             history'.produced[e][p] =
               history.produced[e][p] + (IF e = info.current /\ p = context.proposer
                                         THEN 1 ELSE 0)
    BY BlockEndEffect
  <1>3. \/ FreshPools(db, history) /\ info.current = GenesisEpochIndex /\ info.isChange
        \/ /\ PoolsInv(db, history, LastEpoch) /\ LastEpoch <= info.current
           /\ info.isChange <=> LastEpoch < info.current
    BY BlockEndEffect
  <1>4. db.startHeight = committed.db.startHeight /\ history = committed.history
    BY <1>1 DEF IInv, TimeInv, BlockCoherent, PaymentInv
  <1>5. BlocksMatch(db, history, committed.height)
    BY <1>4 DEF HeightInv, BlocksMatch, LaterEpochs, Started
  <1>6. committed.height \in Nat /\ context.height = committed.height + 1
    BY <1>1 DEF IInv, TimeInv, TypeOK, Chains, BlockCoherent, NextHeight
  <1>7. BlocksMatch(db', history', context.height)
    <2>1. db' = ProcessBlockFees(db, info, context.height, context.proposer, fees)
      BY <1>1, <1>6
    <2>2. \A e \in EpochIndex, p \in Proposers :
            history'.produced[e][p] =
              history.produced[e][p] + (IF e = info.current /\ p = context.proposer
                                        THEN 1 ELSE 0)
      BY <1>2
    <2>3. /\ context.height = committed.height + 1 /\ db \in Databases /\ history \in Histories
          /\ info \in EpochInfos /\ info.current \in EpochIndex
          /\ history' \in Histories /\ committed.height \in Nat
          /\ context.proposer \in Proposers
      BY <1>1, <1>2, <1>6
    <2> HIDE DEF info
    <2> QED
      BY <1>3, <1>5, <2>1, <2>2, <2>3, BlockKeepsBlocksMatch, SMTT(60)
  <1> QED
    BY <1>1, <1>6, <1>7 DEF HeightInv

(* The counts are right in every reachable state. *)
LEMMA StepHeightInv == IInv /\ HeightInv /\ [Next]_vars => HeightInv'
  <1> SUFFICES ASSUME IInv, HeightInv, [Next]_vars PROVE HeightInv'
    OBVIOUS
  <1>1. ASSUME NEW t \in 0 .. MaxTime, NEW p \in Proposers, BlockBegin(t, p)
        PROVE  HeightInv'
    BY <1>1 DEF BlockBegin, HeightInv
  <1>2. ASSUME NEW fees \in BlockFees, BlockEnd(fees)
        PROVE  HeightInv'
    BY <1>2, BlockEndHeightInv
  <1>3. CASE CommitTransaction
    <2>1. /\ stage = "ended" /\ stage' = "idle" /\ committed'.db = db
          /\ committed'.history = history /\ committed'.height = context.height
      BY <1>3 DEF CommitTransaction
    <2> QED
      BY <2>1 DEF HeightInv
  <1>4. CASE RollbackTransaction \/ Restart
    BY <1>4 DEF RollbackTransaction, Restart, ToCommitted, HeightInv
  <1>5. CASE UNCHANGED vars
    BY <1>5 DEF vars, HeightInv
  <1> QED
    BY <1>1, <1>2, <1>3, <1>4, <1>5 DEF Next

(* In every behaviour the blocks counted for the proposers of an epoch, the *)
(* divisor of every reward, are the blocks between its start height and the *)
(* next epoch's: skipped epochs, rollbacks and retries count none twice and *)
(* drop none.                                                               *)
THEOREM BlocksBetweenHeights == Spec => []BlocksMatchHeights
  <1>1. Init => IInv /\ HeightInv
    BY InitTimeInv, InitPaymentInv, InitHeightInv DEF IInv
  <1>2. IInv /\ HeightInv => BlocksMatchHeights
    <2> SUFFICES ASSUME IInv, HeightInv PROVE BlocksMatch(db, history, LastHeight)
      BY DEF BlocksMatch, BlocksMatchHeights, LaterEpochs
    <2>1. CASE stage = "ended"
      BY <2>1 DEF HeightInv, LastHeight
    <2>2. CASE stage # "ended"
      <3>1. db.startHeight = committed.db.startHeight /\ history = committed.history
        BY <2>2 DEF IInv, TimeInv, TypeOK, BlockCoherent, PaymentInv
      <3> QED
        BY <2>2, <3>1 DEF HeightInv, LastHeight, BlocksMatch, LaterEpochs, Started
    <2> QED
      BY <2>1, <2>2
  <1> QED
    BY <1>1, <1>2, StepIInv, StepHeightInv, PTL DEF Spec
-----------------------------------------------------------------------------
(* The subtrees and items a chain has whose last block, at `height`, is in  *)
(* epoch `last`: the subtrees reach PerpetualEpochs ahead without a gap,    *)
(* epochs not passed as paid still have their pools, and start heights grow *)
(* with the epochs.                                                         *)
ChainAt(d, last, height) ==
  /\ last + PerpetualEpochs <= LastEpochIndex
  /\ d.trees = 0 .. last + PerpetualEpochs
  /\ \A e \in d.trees : e >= d.unpaidEpoch => d.storage[e] # Missing
  /\ \A e \in EpochIndex : Started(d, e) =>
       /\ d.startHeight[e] <= height
       /\ e >= d.unpaidEpoch => d.processing[e] # Missing
       /\ \A f \in EpochIndex : e < f /\ Started(d, f) => d.startHeight[e] < d.startHeight[f]

FreshChain(d) ==
  /\ d.trees = 0 .. PerpetualEpochs - 1
  /\ \A e \in d.trees : d.storage[e] # Missing

(* A block at `height`, on top of such a chain or as the first one. *)
BlockOn(d, hist, info, last, height) ==
  /\ info.current + PerpetualEpochs <= LastEpochIndex
  /\ \/ /\ FreshPools(d, hist) /\ FreshChain(d)
        /\ info.current = GenesisEpochIndex /\ info.isChange /\ info.previous = Missing
     \/ /\ PoolsInv(d, hist, last) /\ ChainAt(d, last, height - 1)
        /\ last <= info.current /\ info.current <= last + PerpetualEpochs
        /\ info.isChange <=> last < info.current
        /\ info.isChange => info.previous = last

ChainInv ==
  /\ IF committed.height = 0 THEN FreshChain(committed.db)
     ELSE ChainAt(committed.db, LastEpoch, committed.height)
  /\ stage = "begun" =>
       /\ db = [committed.db EXCEPT !.genesisTime = db.genesisTime]
       /\ context.info.current + PerpetualEpochs <= LastEpochIndex
       /\ ~FirstBlock => context.info.current <= LastEpoch + PerpetualEpochs
  /\ stage = "ended" => ChainAt(db, context.info.current, context.height)

(* The subtrees after a block reach PerpetualEpochs ahead of its epoch, and *)
(* those it adds follow the ones that exist.                                *)
LEMMA BlockTrees ==
  ASSUME NEW d \in Databases, NEW hist, NEW info \in EpochInfos, NEW last, NEW height \in Nat,
         BlockOn(d, hist, info, last, height)
  PROVE  /\ d.trees \cup NewTrees(info) = 0 .. info.current + PerpetualEpochs
         /\ NewTrees(info) \in SUBSET EpochIndex /\ NewTrees(info) \cap d.trees = {}
         /\ info.current \in d.trees
         /\ PerpetualEpochs \in Nat \ {0} /\ info.current \in EpochIndex
         /\ DistributionWindow(info.current) \in SUBSET (0 .. info.current + PerpetualEpochs)
  <1>1. /\ PerpetualEpochs \in Nat \ {0} /\ LastEpochIndex \in Nat /\ info.current \in Nat
        /\ info.current + PerpetualEpochs <= LastEpochIndex /\ GenesisEpochIndex = 0
    <2>1. PerpetualEpochs \in Nat \ {0}
      BY EpochsAssumption, Z3 DEF PerpetualEpochs
    <2> QED
      BY <2>1, EpochsAssumption DEF BlockOn, EpochInfos, GenesisEpochIndex
  <1>2. DistributionWindow(info.current) \in SUBSET (0 .. info.current + PerpetualEpochs)
        /\ info.current \in EpochIndex
    BY <1>1 DEF DistributionWindow, EpochIndex
  <1>3. CASE FreshChain(d) /\ info.current = 0 /\ info.isChange /\ info.previous = Missing
    <2>1. d.trees = 0 .. PerpetualEpochs - 1 /\ NewTrees(info) = PerpetualEpochs .. PerpetualEpochs
      BY <1>1, <1>3 DEF FreshChain, NewTrees
    <2> QED
      BY <1>1, <1>2, <1>3, <2>1 DEF EpochIndex
  <1>4. CASE /\ ChainAt(d, last, height - 1) /\ last \in Nat
             /\ last <= info.current /\ info.current <= last + PerpetualEpochs
             /\ info.isChange <=> last < info.current
             /\ info.isChange => info.previous = last
    <2>1. d.trees = 0 .. last + PerpetualEpochs
      BY <1>4 DEF ChainAt
    <2>2. CASE info.isChange
      <3>1. last # Missing
        BY <1>4, MissingAssumption
      <3>2. NewTrees(info) = (last + 1 + PerpetualEpochs) .. (info.current + PerpetualEpochs)
        BY <1>4, <2>2, <3>1 DEF NewTrees
      <3> QED
        BY <1>1, <1>2, <1>4, <2>1, <2>2, <3>2 DEF EpochIndex
    <2>3. CASE ~info.isChange
      <3>1. NewTrees(info) = {} /\ last = info.current
        BY <1>1, <1>4, <2>3 DEF NewTrees
      <3> QED
        BY <1>1, <1>2, <2>1, <3>1
    <2> QED
      BY <2>2, <2>3
  <1> QED
    <2>1. PoolsInv(d, hist, last) => last \in Nat
      BY <1>1 DEF PoolsInv, EpochIndex
    <2> QED
      BY <1>1, <1>3, <1>4, <2>1 DEF BlockOn

(* An epoch that is owed was followed by a block: the blocks its rewards    *)
(* are divided by are at least one.                                         *)
LEMMA BlocksToPayPositive ==
  ASSUME NEW d \in Databases, NEW hist, NEW info \in EpochInfos, NEW last, NEW height \in Nat,
         BlockOn(d, hist, info, last, height), NeedsPayment(d, info)
  PROVE  /\ PoolsInv(d, hist, last) /\ d.unpaidEpoch < info.current
         /\ Started(d, d.unpaidEpoch)
         /\ EndBlockHeight(d, info, height) \in Nat /\ d.startHeight[d.unpaidEpoch] \in Nat
         /\ EndBlockHeight(d, info, height) > d.startHeight[d.unpaidEpoch]
  <1> DEFINE u == d.unpaidEpoch
             next == NextUnpaidEpoch(d, info)
  <1>1. /\ PoolsInv(d, hist, last) /\ ChainAt(d, last, height - 1)
        /\ last <= info.current /\ (info.isChange <=> last < info.current)
        /\ info.current # GenesisEpochIndex /\ u # info.current
    BY DEF BlockOn, NeedsPayment
  <1>2. /\ last \in Nat /\ u \in EpochIndex /\ u \in Nat /\ info.current \in EpochIndex
        /\ info.current \in Nat /\ u <= last /\ Started(d, u) /\ Started(d, last)
        /\ last \in EpochIndex
    <2>1. u \in EpochIndex /\ last \in EpochIndex /\ u <= last
          /\ Started(d, u) /\ Started(d, last)
      BY <1>1 DEF PoolsInv, Databases
    <2>2. info.current \in EpochIndex
      BY BlockTrees
    <2> QED
      BY <2>1, <2>2 DEF EpochIndex
  <1>3. u < info.current
    BY <1>1, <1>2
  <1>4. /\ next \in EpochIndex /\ u < next /\ next <= info.current
        /\ next = info.current \/ Started(d, next)
    BY <1>1, <1>2, <1>3, NextUnpaidEpochType
  <1> HIDE DEF next
  <1>5. \A e \in EpochIndex : Started(d, e) => d.startHeight[e] \in Nat
    <2>1. d.startHeight \in [EpochIndex -> OrMissing(Nat)]
      BY DEF Databases
    <2> QED
      BY <2>1 DEF Started, OrMissing
  <1>6. CASE next = info.current /\ info.isChange
    <2>1. d.startHeight[u] <= height - 1
      BY <1>1, <1>2 DEF ChainAt
    <2> QED
      BY <1>1, <1>2, <1>3, <1>5, <1>6, <2>1 DEF EndBlockHeight, next
  <1>7. CASE ~(next = info.current /\ info.isChange)
    <2>1. Started(d, next)
      BY <1>1, <1>2, <1>4, <1>7
    <2>2. EndBlockHeight(d, info, height) = d.startHeight[next]
      BY <1>7 DEF EndBlockHeight, next
    <2>3. d.startHeight[u] < d.startHeight[next]
      BY <1>1, <1>2, <1>4, <2>1 DEF ChainAt
    <2> QED
      BY <1>1, <1>2, <1>3, <1>4, <1>5, <2>1, <2>2, <2>3
  <1> QED
    BY <1>6, <1>7

(* On such a chain the end of a block reaches none of its error returns. *)
LEMMA BlockSucceeds ==
  ASSUME NEW d \in Databases, NEW hist, NEW info \in EpochInfos, NEW last, NEW height \in Nat,
         BlockOn(d, hist, info, last, height)
  PROVE  ~ProcessBlockFeesFails(d, info, height)
  <1> DEFINE u == d.unpaidEpoch
  <1>1. /\ d.trees \cup NewTrees(info) = 0 .. info.current + PerpetualEpochs
        /\ NewTrees(info) \in SUBSET EpochIndex /\ info.current \in d.trees
        /\ info.current \in Nat /\ info.current \in EpochIndex
        /\ DistributionWindow(info.current) \in SUBSET (d.trees \cup NewTrees(info))
    BY BlockTrees DEF EpochInfos
  <1>2. ~DistributionFails(d, info)
    <2>1. d.storagePool \in Credits
      BY DEF Databases
    <2>2. Leftover(d.storagePool) \in Credits
      BY <2>1, LeftoverBound
    <2>3. ASSUME NEW e \in DistributionWindow(info.current), e \in d.trees
          PROVE  d.storage[e] # Missing
      <3>1. e \in Nat /\ e >= info.current
        BY <1>1, <2>3 DEF DistributionWindow
      <3>2. CASE FreshChain(d)
        BY <2>3, <3>2 DEF FreshChain
      <3>3. CASE PoolsInv(d, hist, last) /\ ChainAt(d, last, height - 1) /\ last <= info.current
        <4>1. last \in Nat /\ u \in Nat /\ u <= last
          BY <3>3 DEF PoolsInv, Databases, EpochIndex
        <4>2. e >= u
          BY <1>1, <3>1, <3>3, <4>1
        <4> QED
          BY <2>3, <3>3, <4>2 DEF ChainAt
      <3> QED
        BY <3>2, <3>3 DEF BlockOn
    <2> QED
      BY <1>1, <2>2, <2>3 DEF DistributionFails
  <1>3. ~info.isChange => d.blockCount[info.current] # Missing
    <2> SUFFICES ASSUME ~info.isChange PROVE d.blockCount[info.current] # Missing
      OBVIOUS
    <2>1. PoolsInv(d, hist, last) /\ last <= info.current /\ ~(last < info.current)
      BY DEF BlockOn
    <2>2. last = info.current /\ u <= last /\ u \in Nat /\ last \in Nat
      BY <1>1, <2>1 DEF PoolsInv, Databases, EpochIndex
    <2> QED
      BY <2>1, <2>2 DEF PoolsInv
  <1>4. ~PayoutFails(d, info, height)
    <2> SUFFICES ASSUME NeedsPayment(d, info) PROVE ~PayoutFails(d, info, height)
      BY DEF PayoutFails
    <2>1. /\ PoolsInv(d, hist, last) /\ u < info.current /\ Started(d, u) /\ u \in EpochIndex
          /\ u \in Nat
          /\ EndBlockHeight(d, info, height) \in Nat /\ d.startHeight[u] \in Nat
          /\ EndBlockHeight(d, info, height) > d.startHeight[u]
      <3>1. /\ PoolsInv(d, hist, last) /\ u < info.current /\ Started(d, u)
            /\ EndBlockHeight(d, info, height) \in Nat /\ d.startHeight[u] \in Nat
            /\ EndBlockHeight(d, info, height) > d.startHeight[u]
        BY BlocksToPayPositive
      <3>2. u \in EpochIndex
        BY DEF Databases
      <3> QED
        BY <3>1, <3>2 DEF EpochIndex
    <2>2. ~info.isChange => StartedAfterUnpaid(d, info.current) # {}
      <3> SUFFICES ASSUME ~info.isChange PROVE info.current \in StartedAfterUnpaid(d, info.current)
        OBVIOUS
      <3>1. last = info.current
        BY <1>1, <2>1 DEF BlockOn, PoolsInv, EpochIndex
      <3>2. Started(d, info.current)
        BY <2>1, <3>1 DEF PoolsInv
      <3> QED
        BY <1>1, <2>1, <3>2 DEF StartedAfterUnpaid
    <2>3. Payable(d)
      <3>1. ChainAt(d, last, height - 1) /\ u <= last /\ last \in Nat
        BY <2>1 DEF BlockOn, PoolsInv, FreshPools, EpochIndex
      <3>2. u \in d.trees
        <4>1. PerpetualEpochs \in Nat
          BY BlockTrees
        <4> QED
          BY <2>1, <3>1, <4>1 DEF ChainAt
      <3> QED
        BY <2>1, <3>1, <3>2 DEF ChainAt, PoolsInv, Payable
    <2>4. Payments(d, info, height) \in Seq([id : Identities, amount : Credits])
      <3>1. BlocksToPay(d, info, height) \in Nat \ {0}
        BY <2>1 DEF BlocksToPay
      <3> QED
        BY <2>3, <3>1, PaymentsType DEF Payment
    <2> QED
      BY <1>1, <2>1, <2>2, <2>3, <2>4 DEF PayoutFails, Payable
  <1> QED
    BY <1>1, <1>2, <1>3, <1>4 DEF ProcessBlockFeesFails

(* What a chain grants a block that is added to it. *)
LEMMA BlockOnFacts ==
  ASSUME NEW d \in Databases, NEW hist, NEW info \in EpochInfos, NEW last, NEW height \in Nat,
         BlockOn(d, hist, info, last, height)
  PROVE  /\ d.unpaidEpoch \in Nat /\ d.unpaidEpoch <= info.current
         /\ \A e \in d.trees : e >= d.unpaidEpoch => d.storage[e] # Missing
         /\ \A e \in EpochIndex : Started(d, e) =>
              /\ d.startHeight[e] \in Nat /\ d.startHeight[e] < height /\ e <= info.current
              /\ e >= d.unpaidEpoch => d.processing[e] # Missing
              /\ \A f \in EpochIndex : e < f /\ Started(d, f) =>
                   d.startHeight[e] < d.startHeight[f]
         /\ info.isChange => ~Started(d, info.current)
         /\ ~info.isChange => Started(d, info.current)
  <1>1. /\ d.unpaidEpoch \in EpochIndex /\ d.unpaidEpoch \in Nat
        /\ d.startHeight \in [EpochIndex -> OrMissing(Nat)]
        /\ info.current \in EpochIndex /\ info.current \in Nat
        /\ \A e \in EpochIndex : e \in Nat
    <2>1. d.unpaidEpoch \in EpochIndex /\ d.startHeight \in [EpochIndex -> OrMissing(Nat)]
      BY DEF Databases
    <2>2. info.current \in EpochIndex
      BY BlockTrees
    <2>3. \A e \in EpochIndex : e \in Nat
      BY DEF EpochIndex
    <2> QED
      BY <2>1, <2>2, <2>3
  <1>2. CASE FreshPools(d, hist) /\ FreshChain(d) /\ info.isChange
    BY <1>1, <1>2 DEF FreshPools, FreshChain, GenesisEpochIndex
  <1>3. CASE /\ PoolsInv(d, hist, last) /\ ChainAt(d, last, height - 1)
             /\ last <= info.current /\ (info.isChange <=> last < info.current)
    <2>1. /\ last \in EpochIndex /\ last \in Nat /\ d.unpaidEpoch <= last /\ Started(d, last)
          /\ \A e \in EpochIndex : e > last => ~Started(d, e)
      BY <1>1, <1>3 DEF PoolsInv
    <2>2. ASSUME NEW e \in EpochIndex, Started(d, e)
          PROVE  d.startHeight[e] \in Nat /\ d.startHeight[e] < height /\ e <= info.current
      <3>1. d.startHeight[e] \in Nat /\ d.startHeight[e] <= height - 1
        BY <1>1, <1>3, <2>2 DEF Started, OrMissing, ChainAt
      <3>2. e <= last
        BY <1>1, <2>1, <2>2
      <3> QED
        BY <1>1, <1>3, <2>1, <3>1, <3>2
    <2>3. IF info.isChange THEN ~Started(d, info.current) ELSE Started(d, info.current)
      <3>1. CASE last < info.current
        BY <1>1, <1>3, <2>1, <3>1
      <3>2. CASE ~(last < info.current)
        <4>1. last = info.current
          BY <1>1, <1>3, <2>1, <3>2
        <4> QED
          BY <1>3, <2>1, <3>2, <4>1
      <3> QED
        BY <3>1, <3>2
    <2>4. /\ \A e \in d.trees : e >= d.unpaidEpoch => d.storage[e] # Missing
          /\ \A e \in EpochIndex : Started(d, e) =>
               /\ e >= d.unpaidEpoch => d.processing[e] # Missing
               /\ \A f \in EpochIndex : e < f /\ Started(d, f) =>
                    d.startHeight[e] < d.startHeight[f]
      BY <1>3 DEF ChainAt
    <2>5. d.unpaidEpoch <= info.current
      BY <1>1, <1>3, <2>1
    <2> QED
      BY <1>1, <2>2, <2>3, <2>4, <2>5
  <1> QED
    BY <1>2, <1>3 DEF BlockOn

(* ... and the block keeps the chain as it has to be for the next one. *)
LEMMA BlockKeepsChainAt ==
  ASSUME NEW d \in Databases, NEW hist, NEW info \in EpochInfos, NEW last, NEW height \in Nat,
         BlockOn(d, hist, info, last, height), NEW proposer,
         NEW fees \in [storage : Credits, processing : Credits],
         NEW after, after = ProcessBlockFees(d, info, height, proposer, fees)
  PROVE  ChainAt(after, info.current, height)
  <1> DEFINE u == d.unpaidEpoch
             cur == info.current
             kept == StorageAfterChange(d, info)
             added == ProcessingAfter(d, info, fees)
  <1>1. /\ d.trees \cup NewTrees(info) = 0 .. cur + PerpetualEpochs
        /\ NewTrees(info) \in SUBSET EpochIndex /\ cur \in d.trees /\ cur \in EpochIndex
        /\ cur \in Nat /\ d.trees \in SUBSET EpochIndex
        /\ \A e \in EpochIndex : e \in Nat
    <2>1. /\ d.trees \cup NewTrees(info) = 0 .. cur + PerpetualEpochs
          /\ NewTrees(info) \in SUBSET EpochIndex /\ cur \in d.trees /\ cur \in EpochIndex
      BY BlockTrees
    <2>2. d.trees \in SUBSET EpochIndex
      BY DEF Databases
    <2>3. \A e \in EpochIndex : e \in Nat
      BY DEF EpochIndex
    <2> QED
      BY <2>1, <2>2, <2>3
  <1>2. /\ u \in Nat /\ u <= cur
        /\ \A e \in d.trees : e >= u => d.storage[e] # Missing
        /\ \A e \in EpochIndex : Started(d, e) =>
             /\ d.startHeight[e] \in Nat /\ d.startHeight[e] < height /\ e <= cur
             /\ e >= u => d.processing[e] # Missing
             /\ \A f \in EpochIndex : e < f /\ Started(d, f) =>
                  d.startHeight[e] < d.startHeight[f]
        /\ info.isChange => ~Started(d, cur)
        /\ ~info.isChange => Started(d, cur)
    BY BlockOnFacts
  <1>3. /\ kept \in [EpochIndex -> OrMissing(Credits)]
        /\ added \in [EpochIndex -> OrMissing(Credits)]
        /\ after.trees = d.trees \cup NewTrees(info)
        /\ after.storage = ForgetPaid(d, info, kept)
        /\ after.processing = ForgetPaid(d, info, added)
    <2>1. ~DistributionFails(d, info)
      BY BlockSucceeds DEF ProcessBlockFeesFails
    <2>2. kept \in [EpochIndex -> OrMissing(Credits)]
      BY <2>1, StorageType
    <2>3. added \in [EpochIndex -> OrMissing(Credits)]
      BY ProcessingType
    <2> QED
      BY <2>2, <2>3 DEF ProcessBlockFees
  <1>4. /\ after.unpaidEpoch \in Nat /\ after.unpaidEpoch >= u
        /\ MarkedAsPaid(d, info) => after.unpaidEpoch > u
    <2>1. after.unpaidEpoch = IF MarkedAsPaid(d, info) THEN NextUnpaidEpoch(d, info) ELSE u
      BY DEF ProcessBlockFees
    <2>2. CASE MarkedAsPaid(d, info)
      <3>1. cur # GenesisEpochIndex /\ u < cur
        BY <1>1, <1>2, <2>2 DEF MarkedAsPaid, NeedsPayment
      <3>2. NextUnpaidEpoch(d, info) \in EpochIndex /\ u < NextUnpaidEpoch(d, info)
        BY <1>1, <3>1, NextUnpaidEpochType
      <3> QED
        BY <1>1, <1>2, <2>1, <2>2, <3>2
    <2>3. CASE ~MarkedAsPaid(d, info)
      BY <1>2, <2>1, <2>3
    <2> QED
      BY <2>2, <2>3
  <1>5. ASSUME NEW e \in EpochIndex, e >= after.unpaidEpoch
        PROVE  after.storage[e] = kept[e] /\ after.processing[e] = added[e] /\ e >= u
    <2>1. e >= u /\ (MarkedAsPaid(d, info) => e # u)
      BY <1>1, <1>2, <1>4, <1>5
    <2> HIDE DEF kept, added
    <2> QED
      BY <1>3, <2>1 DEF ForgetPaid
  <1>6. ASSUME NEW e \in after.trees, e >= after.unpaidEpoch
        PROVE  after.storage[e] # Missing
    <2>1. e \in EpochIndex /\ (e \in d.trees \/ e \in NewTrees(info))
      BY <1>1, <1>3
    <2>2. after.storage[e] = kept[e] /\ e >= u
      BY <1>5, <1>6, <2>1
    <2>3. CASE Distributes(d, info) /\ e \in DistributionWindow(cur)
      <3>1. d.storagePool \in Credits /\ EpochsPerYear \in Nat \ {0} /\ StorageYears \in Nat
        BY EpochsAssumption DEF Databases
      <3>2. e - cur \in Nat /\ e - cur < EpochsPerYear * StorageYears
        <4>1. e \in Nat /\ PerpetualEpochs \in Nat
          BY <1>1, <2>1, BlockTrees
        <4>2. e - cur \in Nat /\ e - cur < PerpetualEpochs
          BY <1>1, <2>3, <4>1 DEF DistributionWindow
        <4> QED
          BY <4>2 DEF PerpetualEpochs
      <3>3. (e - cur) \div EpochsPerYear \in 0 .. StorageYears - 1
        BY <3>1, <3>2, DivBound
      <3>4. EpochFeeShare(d.storagePool, (e - cur) \div EpochsPerYear) \in Nat
        BY <3>1, <3>3, EpochFeeShareType DEF Credits
      <3>5. StoredStorage(d, e) \in Nat
        <4>1. d.storage[e] \in OrMissing(Credits)
          BY <2>1 DEF Databases
        <4> QED
          BY <1>2, <2>2, <4>1 DEF StoredStorage, OrMissing, Credits
      <3>6. kept[e] = StoredStorage(d, e)
                        + EpochFeeShare(d.storagePool, (e - cur) \div EpochsPerYear)
        BY <2>1, <2>3 DEF StorageAfterChange
      <3>7. kept[e] \in Nat
        BY <3>4, <3>5, <3>6
      <3> QED
        BY <2>2, <3>7, MissingAssumption
    <2>4. CASE ~(Distributes(d, info) /\ e \in DistributionWindow(cur))
      <3>1. kept[e] = IF e \in NewTrees(info) THEN 0 ELSE d.storage[e]
        BY <2>1, <2>4 DEF StorageAfterChange
      <3> QED
        BY <1>2, <2>1, <2>2, <3>1, MissingAssumption
    <2> QED
      BY <2>3, <2>4
  <1>7. \A e \in EpochIndex :
          /\ Started(after, e) <=> Started(d, e) \/ e = cur
          /\ after.startHeight[e] = IF info.isChange /\ e = cur THEN height ELSE d.startHeight[e]
    <2>1. d.startHeight \in [EpochIndex -> OrMissing(Nat)] /\ height # Missing
      BY MissingAssumption DEF Databases
    <2>2. after.startHeight = IF info.isChange THEN [d.startHeight EXCEPT ![cur] = height]
                              ELSE d.startHeight
      BY DEF ProcessBlockFees
    <2> QED
      BY <1>1, <1>2, <2>1, <2>2 DEF Started
  <1>8. ASSUME NEW e \in EpochIndex, Started(after, e), e >= after.unpaidEpoch
        PROVE  after.processing[e] # Missing
    <2>1. after.processing[e] = added[e] /\ e >= u
      BY <1>5, <1>8
    <2>2. d.processing \in [EpochIndex -> OrMissing(Credits)] /\ fees.processing \in Nat
      BY DEF Databases, Credits
    <2>3. CASE e = cur
      <3>1. added[e] = (IF d.processing[cur] = Missing THEN 0 ELSE d.processing[cur])
                         + fees.processing
        BY <2>2, <2>3 DEF ProcessingAfter
      <3>2. added[e] \in Nat
        BY <2>2, <2>3, <3>1 DEF OrMissing, Credits
      <3> QED
        BY <2>1, <3>2, MissingAssumption
    <2>4. CASE e # cur
      <3>1. added[e] = d.processing[e] /\ Started(d, e)
        BY <1>7, <1>8, <2>2, <2>4 DEF ProcessingAfter
      <3> QED
        BY <1>2, <2>1, <3>1
    <2> QED
      BY <2>3, <2>4
  <1>9. ASSUME NEW e \in EpochIndex, Started(after, e)
        PROVE  /\ after.startHeight[e] <= height
               /\ \A f \in EpochIndex : e < f /\ Started(after, f) =>
                    after.startHeight[e] < after.startHeight[f]
    <2>1. e \in Nat /\ (Started(d, e) \/ (e = cur /\ info.isChange))
      BY <1>1, <1>2, <1>7, <1>9
    <2>2. after.startHeight[e] <= height
      BY <1>2, <1>7, <2>1
    <2>3. ASSUME NEW f \in EpochIndex, e < f, Started(after, f)
          PROVE  after.startHeight[e] < after.startHeight[f]
      <3>1. f \in Nat /\ (Started(d, f) \/ (f = cur /\ info.isChange)) /\ f <= cur
        BY <1>1, <1>2, <1>7, <2>3
      <3>2. e # cur /\ Started(d, e)
        BY <1>1, <2>1, <2>3, <3>1
      <3> QED
        BY <1>2, <1>7, <2>3, <3>1, <3>2
    <2> QED
      BY <2>2, <2>3
  <1>10. cur + PerpetualEpochs <= LastEpochIndex
    BY DEF BlockOn
  <1> QED
    BY <1>1, <1>3, <1>6, <1>8, <1>9, <1>10 DEF ChainAt

LEMMA BegunBlockOn ==
  ASSUME IInv, ChainInv, stage = "begun"
  PROVE  BlockOn(db, history, context.info, LastEpoch, context.height)
  <1> DEFINE info == context.info
  <1>1. /\ db \in Databases /\ committed.db \in Databases /\ committed.height \in Nat
        /\ context.height = committed.height + 1
        /\ FirstBlock <=> committed.height = 0
    <2>1. /\ db \in Databases /\ committed.height \in Nat
          /\ context.height = committed.height + 1
      BY BegunBlock
    <2>2. committed.db \in Databases
      BY DEF IInv, TimeInv, TypeOK, Chains
    <2> QED
      BY <2>1, <2>2 DEF FirstBlock, NextHeight
  <1>2. /\ db.trees = committed.db.trees /\ db.storage = committed.db.storage
        /\ db.processing = committed.db.processing
        /\ db.unpaidEpoch = committed.db.unpaidEpoch
        /\ db.startHeight = committed.db.startHeight
    <2>1. db = [committed.db EXCEPT !.genesisTime = db.genesisTime]
      BY DEF ChainInv
    <2> QED
      BY <1>1, <2>1 DEF Databases
  <1>3. info.current + PerpetualEpochs <= LastEpochIndex
    BY DEF ChainInv
  <1>4. CASE committed.height = 0
    <2>1. FreshChain(db)
      BY <1>2, <1>4 DEF ChainInv, FreshChain
    <2>2. /\ FreshPools(db, history)
          /\ info.current = GenesisEpochIndex /\ info.isChange /\ info.previous = Missing
      BY <1>4, BegunBlock
    <2> QED
      BY <1>3, <2>1, <2>2 DEF BlockOn
  <1>5. CASE committed.height # 0
    <2>1. ChainAt(db, LastEpoch, committed.height)
      <3>1. ChainAt(committed.db, LastEpoch, committed.height)
        BY <1>5 DEF ChainInv
      <3> QED
        BY <1>2, <3>1 DEF ChainAt, Started
    <2>2. context.height - 1 = committed.height
      BY <1>1
    <2>3. /\ PoolsInv(db, history, LastEpoch) /\ LastEpoch <= info.current
          /\ info.isChange <=> LastEpoch < info.current
          /\ info.isChange => info.previous = LastEpoch
      BY <1>5, BegunBlock
    <2>4. info.current <= LastEpoch + PerpetualEpochs
      BY <1>1, <1>5 DEF ChainInv
    <2> QED
      BY <1>3, <2>1, <2>2, <2>3, <2>4 DEF BlockOn
  <1> QED
    BY <1>4, <1>5

LEMMA BlockBeginChainInv ==
  ASSUME IInv, ChainInv, NEW t \in 0 .. MaxTime, NEW p \in Proposers, BlockBegin(t, p)
  PROVE  ChainInv'
  <1>1. /\ stage = "idle" /\ stage' = "begun" /\ committed' = committed /\ db = committed.db
        /\ db' = IF FirstBlock THEN [db EXCEPT !.genesisTime = t] ELSE db
        /\ ProposableTime(t, GenesisTimeFor(t))
        /\ context'.info = CalculateEpochInfo(GenesisTimeFor(t), t, committed.time)
    BY DEF BlockBegin, IInv, TimeInv, BlockCoherent
  <1>2. db \in Databases /\ committed.height \in Nat /\ t \in Nat
        /\ committed.time \in OrMissing(Nat)
    BY BoundsAssumption DEF IInv, TimeInv, TypeOK, Chains
  <1>3. db' = [committed.db EXCEPT !.genesisTime = db'.genesisTime]
    BY <1>1, <1>2 DEF Databases
  <1>4. CASE FirstBlock
    <2>1. committed.time = Missing
      BY <1>2, <1>4 DEF IInv, TimeInv, BlockCoherent, FirstBlock, NextHeight
    <2>2. context'.info.current = 0
      BY <1>1, <2>1 DEF CalculateEpochInfo, DefaultEpochInfo, GenesisEpochIndex
    <2>3. PerpetualEpochs \in Nat /\ PerpetualEpochs <= LastEpochIndex
      <3>1. PerpetualEpochs \in Nat
        BY EpochsAssumption, Z3 DEF PerpetualEpochs
      <3> QED
        BY <3>1, EpochsAssumption DEF PerpetualEpochs
    <2> QED
      BY <1>1, <1>3, <1>4, <2>2, <2>3 DEF ChainInv, LastEpoch, FirstBlock, NextHeight
  <1>5. CASE ~FirstBlock
    <2>1. GenesisTimeFor(t) = committed.db.genesisTime
      <3>1. committed.height > 0
        BY <1>2, <1>5 DEF FirstBlock, NextHeight
      <3> QED
        BY <1>1, <1>5, <3>1
           DEF GenesisTimeFor, KnownGenesisTime, IInv, TimeInv, GenesisTimeCoherent
    <2>2. committed.time \in Nat /\ committed.time # Missing
      BY <1>2, <1>5, MissingAssumption DEF IInv, TimeInv, ChainHasGenesis, FirstBlock, NextHeight
    <2>3. context'.info.current = EpochIndexAt(committed.db.genesisTime, t)
      BY <1>1, <2>1, <2>2 DEF CalculateEpochInfo
    <2>4. /\ EpochIndexAt(committed.db.genesisTime, t) <= LastEpoch + PerpetualEpochs
          /\ EpochIndexAt(committed.db.genesisTime, t) + PerpetualEpochs <= LastEpochIndex
      BY <1>1, <1>5, <2>1 DEF ProposableTime, LastEpoch
    <2> QED
      BY <1>1, <1>3, <1>5, <2>3, <2>4 DEF ChainInv, LastEpoch
  <1> QED
    BY <1>4, <1>5

(* The state after init_chain has the subtrees of fifty years of epochs. *)
LEMMA InitChainInv == Init => ChainInv
  <1> SUFFICES ASSUME Init PROVE ChainInv
    OBVIOUS
  <1>1. FreshChain(committed.db)
    <2>1. /\ committed.db = InitialDatabase
          /\ InitialDatabase.trees = 0 .. PerpetualEpochs - 1
          /\ InitialDatabase.storage =
               [e \in EpochIndex |-> IF e < PerpetualEpochs THEN 0 ELSE Missing]
      BY DEF Init, InitialDatabase
    <2>2. PerpetualEpochs \in Nat /\ PerpetualEpochs <= LastEpochIndex /\ LastEpochIndex \in Nat
      <3>1. PerpetualEpochs \in Nat
        BY EpochsAssumption, Z3 DEF PerpetualEpochs
      <3> QED
        BY <3>1, EpochsAssumption DEF PerpetualEpochs
    <2>3. \A e \in 0 .. PerpetualEpochs - 1 : e \in EpochIndex /\ e < PerpetualEpochs
      BY <2>2 DEF EpochIndex
    <2> QED
      BY <2>1, <2>3, MissingAssumption DEF FreshChain
  <1> QED
    BY <1>1 DEF Init, ChainInv

LEMMA StepChainInv == IInv /\ ChainInv /\ [Next]_vars => ChainInv'
  <1> SUFFICES ASSUME IInv, ChainInv, [Next]_vars PROVE ChainInv'
    OBVIOUS
  <1>1. ASSUME NEW t \in 0 .. MaxTime, NEW p \in Proposers, BlockBegin(t, p)
        PROVE  ChainInv'
    BY <1>1, BlockBeginChainInv
  <1>2. ASSUME NEW fees \in BlockFees, BlockEnd(fees)
        PROVE  ChainInv'
    <2>1. /\ stage = "begun" /\ stage' = "ended" /\ committed' = committed /\ context' = context
          /\ db' = ProcessBlockFees(db, context.info, context.height, context.proposer, fees)
      BY <1>2 DEF BlockEnd
    <2>2. /\ db \in Databases /\ context.info \in EpochInfos /\ context.height \in Nat
          /\ fees \in [storage : Credits, processing : Credits]
      BY <2>1, BegunBlock, BlockFeesAssumption
    <2>3. BlockOn(db, history, context.info, LastEpoch, context.height)
      BY <2>1, BegunBlockOn
    <2>4. ChainAt(db', context.info.current, context.height)
      BY <2>1, <2>2, <2>3, BlockKeepsChainAt
    <2> QED
      BY <2>1, <2>4 DEF ChainInv, LastEpoch
  <1>3. CASE CommitTransaction
    <2>1. /\ stage = "ended" /\ stage' = "idle" /\ committed'.db = db
          /\ committed'.height = context.height /\ committed'.time = context.time
      BY <1>3 DEF CommitTransaction
    <2>2. context.info.current = EpochIndexAt(db.genesisTime, context.time)
      BY <2>1 DEF IInv, TimeInv, GenesisTimeCoherent
    <2>3. context.height # 0
      BY <2>1 DEF IInv, TimeInv, TypeOK, Chains, BlockCoherent, NextHeight
    <2> QED
      BY <2>1, <2>2, <2>3 DEF ChainInv, LastEpoch
  <1>4. CASE RollbackTransaction \/ Restart
    BY <1>4 DEF RollbackTransaction, Restart, ToCommitted, ChainInv, LastEpoch
  <1>5. CASE UNCHANGED vars
    BY <1>5 DEF vars, ChainInv, LastEpoch, FirstBlock, NextHeight
  <1> QED
    BY <1>1, <1>2, <1>3, <1>4, <1>5 DEF Next

(* No sequence of blocks, halts, rollbacks and restarts brings the end of a *)
(* block to one of its error returns, nor the beginning of a later block to *)
(* a chain without a genesis time, as long as the epochs fit their keys and *)
(* the chain never halts beyond the epochs that exist ahead of it.          *)
THEOREM BlocksNeverFail == Spec => []HandlersNeverFail
  <1>1. Init => IInv /\ ChainInv
    BY InitTimeInv, InitPaymentInv, InitChainInv DEF IInv
  <1>2. IInv /\ ChainInv => HandlersNeverFail
    <2> SUFFICES ASSUME IInv, ChainInv PROVE HandlersNeverFail
      OBVIOUS
    <2>1. ASSUME stage = "begun"
          PROVE  ~ProcessBlockFeesFails(db, context.info, context.height)
      <3>1. /\ db \in Databases /\ context.info \in EpochInfos /\ context.height \in Nat
            /\ BlockOn(db, history, context.info, LastEpoch, context.height)
        BY <2>1, BegunBlock, BegunBlockOn
      <3> QED
        BY <3>1, BlockSucceeds
    <2>2. ASSUME stage = "idle", ~FirstBlock
          PROVE  KnownGenesisTime # Missing
      <3>1. committed.height > 0 /\ db = committed.db
        BY <2>2 DEF IInv, TimeInv, TypeOK, Chains, BlockCoherent, FirstBlock, NextHeight
      <3>2. db.genesisTime \in Nat
        BY <3>1 DEF IInv, TimeInv, ChainHasGenesis
      <3> QED
        BY <3>2, MissingAssumption DEF KnownGenesisTime
    <2> QED
      BY <2>1, <2>2 DEF HandlersNeverFail
  <1> QED
    BY <1>1, <1>2, StepIInv, StepChainInv, PTL DEF Spec
=============================================================================
