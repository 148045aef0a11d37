--------------------------- MODULE MCDocumentStore ---------------------------
(* Values of DocumentStore's constants for its TLC runs. *)
EXTENDS DocumentStore

CONSTANTS id1, id2, id3, owner, label, note, o1, o2, l1, l2, n1

TwoIds == {id1, id2}
ThreeIds == {id1, id2, id3}
ThreeProperties == {owner, label, note}
AllValues == {o1, o2, l1, l2, n1}

(* A schema: the values each property may have. *)
OfSchema(owners, labels, notes) ==
  {d \in [ThreeProperties -> owners \cup labels \cup notes] :
     d[owner] \in owners /\ d[label] \in labels /\ d[note] \in notes}
OptionalNote == OfSchema({o1, o2}, {l1, l2}, {n1, Null})
OneLabel == OfSchema({o1, o2}, {l1}, {n1, Null})
OwnerOrNote == {d \in OfSchema({o1, Null}, {l1}, {n1, Null}) : d[owner] = Null <=> d[note] = Null}

Index(properties, unique) == [properties |-> properties, unique |-> unique]
(* Indices that share a prefix, as dashpay's contact requests have them,   *)
(* and one of an optional property.                                        *)
SharedPrefix ==
  <<Index(<<owner, label>>, TRUE), Index(<<owner>>, FALSE), Index(<<note, owner>>, FALSE)>>
UniqueOwner == <<Index(<<owner>>, TRUE), Index(<<owner, note>>, FALSE)>>
OneOwnerIndex == <<Index(<<owner>>, FALSE)>>
UniquePair == <<Index(<<owner, note>>, TRUE)>>

NoTime == {1}
TwoTimes == {1, 2}
AllOperations == {"add", "addAgain", "update", "override", "delete"}
WithoutDelete == {"add", "update", "override"}
AddAndDelete == {"add", "delete"}
=============================================================================
