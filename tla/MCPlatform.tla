----------------------------- MODULE MCPlatform -----------------------------
(* Values of Platform's constants for its TLC runs. *)
EXTENDS Platform

TwoProposers == {1, 2}
Payee == 9
PlainIdentities == {1, 2}
NoShares == [p \in TwoProposers |-> <<>>]
WithPayee == {1, 2, Payee}
OneShare == [p \in TwoProposers |-> IF p = 1 THEN <<[payTo |-> Payee, percentage |-> 5]>> ELSE <<>>]
SharedPayee == [p \in TwoProposers |-> <<[payTo |-> Payee, percentage |-> 5]>>]
DecreasingRatio == [y \in 0 .. 1 |-> IF y = 0 THEN 7 ELSE 3]
OneYear == [y \in {0} |-> 10]
SomeFees == {[storage |-> 0, processing |-> 3], [storage |-> 7, processing |-> 1]}
OneFee == {[storage |-> 7, processing |-> 3]}
OneGenesis == {0}
TwoGenesis == {0, 1}
=============================================================================
