--------------------------- MODULE MCContractStore ---------------------------
(* Values of ContractStore's constants for its TLC runs. *)
EXTENDS ContractStore

CONSTANTS d1

OneDocument == {d1}
Type(indices, settings) == [indices |-> indices, settings |-> settings]
A(readonly, keepsHistory, types) ==
  [readonly |-> readonly, keepsHistory |-> keepsHistory, defaults |-> "mutable", types |-> types]

Profile(indices, settings) == [profile |-> Type(indices, settings)]
ProfileAndRequest(indices, settings) ==
  [profile |-> Type(indices, "mutable"), request |-> Type(indices, settings)]

(* A contract, one more index, one more type, that type with other         *)
(* settings; each may be readonly; and the first with other defaults.      *)
Plain == {Profile({"owner"}, "mutable"), Profile({"owner", "label"}, "mutable"),
          Profile({"owner"}, "history"),
          ProfileAndRequest({"owner"}, "mutable"), ProfileAndRequest({"label"}, "history")}
WithoutHistory ==
  {A(readonly, FALSE, types) : readonly \in BOOLEAN, types \in Plain}
    \cup {[A(FALSE, FALSE, Profile({"owner"}, "mutable")) EXCEPT !.defaults = "history"]}
WithHistory == {A(TRUE, TRUE, types) : types \in Plain}
=============================================================================
