------------------------------ MODULE EpochInfo ------------------------------
(***************************************************************************)
(* The epoch of a block, computed from block times alone                   *)
(* (dash-abci/src/execution/fee_pools/epoch.rs).  Times are in units of a  *)
(* clock whose resolution is the model's; EpochChangeTime is the length of *)
(* an epoch in that unit (18.25 days in the code).                         *)
(***************************************************************************)
EXTENDS Integers

CONSTANTS EpochChangeTime, \* EPOCH_CHANGE_TIME_MS
          Missing          \* Rust's None, and a key that is not in the store

ASSUME EpochChangeTimeAssumption == EpochChangeTime \in Nat \ {0}
ASSUME MissingAssumption == Missing \notin Int

GenesisEpochIndex == 0

(* Decimal division then floor: rounds towards minus infinity, as \div does. *)
EpochIndexAt(genesisTime, time) == (time - genesisTime) \div EpochChangeTime

DefaultEpochInfo == [current |-> GenesisEpochIndex, previous |-> Missing, isChange |-> TRUE]

\* Fault: a block in the epoch of the previous one counts as an epoch change.
CalculateEpochInfoOffByOne(genesisTime, time, previousTime) ==
  LET epoch    == EpochIndexAt(genesisTime, time)
      previous == EpochIndexAt(genesisTime, previousTime)
  IN  IF previousTime = Missing
      THEN DefaultEpochInfo
      ELSE [current  |-> epoch,
            previous |-> IF epoch = previous THEN Missing ELSE previous,
            isChange |-> epoch >= previous]

CalculateEpochInfo(genesisTime, time, previousTime) ==
  LET epoch    == EpochIndexAt(genesisTime, time)
      previous == EpochIndexAt(genesisTime, previousTime)
  IN  IF previousTime = Missing
      THEN DefaultEpochInfo
      ELSE [current  |-> epoch,
            previous |-> IF epoch = previous THEN Missing ELSE previous,
            isChange |-> epoch > previous]

EpochInfos == [current : Nat, previous : Nat \cup {Missing}, isChange : BOOLEAN]
=============================================================================
