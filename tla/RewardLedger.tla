---------------------------- MODULE RewardLedger ----------------------------
(***************************************************************************)
(* What the fee pools promise the proposers, with no credits and no        *)
(* database: a block earns its proposer a reward in the block's epoch, and *)
(* pays rewards of one earlier epoch, the oldest that has any due.         *)
(***************************************************************************)
EXTENDS Naturals

CONSTANTS Epochs, Members

VARIABLES current, \* the epoch of the last block
          due,     \* [Epochs -> SUBSET Members]: rewards earned and not paid
          paid     \* [Epochs -> SUBSET Members]: rewards paid

ledgerVars == <<current, due, paid>>

LedgerInit ==
  /\ current = 0
  /\ due = [e \in Epochs |-> {}]
  /\ paid = [e \in Epochs |-> {}]

IsOldestDue(o) == due[o] # {} /\ \A e \in Epochs : e < o => due[e] = {}

(* A block of epoch e by p that pays the members of `chunk` for epoch o.    *)
Block(e, p, o, chunk) ==
  /\ e >= current
  /\ chunk # {} => o < e /\ IsOldestDue(o) /\ chunk \subseteq due[o]
  /\ current' = e
  /\ due' = [[due EXCEPT ![o] = @ \ chunk] EXCEPT ![e] = @ \cup {p}]
  /\ paid' = [paid EXCEPT ![o] = @ \cup chunk]

LedgerNext ==
  \E e, o \in Epochs, p \in Members, chunk \in SUBSET Members : Block(e, p, o, chunk)

LedgerSpec == LedgerInit /\ [][LedgerNext]_ledgerVars
-----------------------------------------------------------------------------
(* A reward that was paid is never due again: nobody is paid twice for an   *)
(* epoch.                                                                   *)
NeverDueAgain == \A e \in Epochs : due[e] \cap paid[e] = {}
=============================================================================
