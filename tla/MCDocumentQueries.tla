-------------------------- MODULE MCDocumentQueries --------------------------
(* Values of DocumentQueries' constants for its TLC runs. *)
EXTENDS DocumentQueries, MCDocumentStore, KeyEncodings

CONSTANTS docId, l3

(* The keys in their order; l3 follows all that begins with l2. *)
KeyOrder == <<Null, id1, id2, id3, o1, o2, l1, l2, l3, n1>>
RankOfKey ==
  [k \in {KeyOrder[i] : i \in DOMAIN KeyOrder} |-> CHOOSE i \in DOMAIN KeyOrder : KeyOrder[i] = k]
Incremented == o1 :> o2 @@ o2 :> l1 @@ l1 :> l2 @@ l2 :> l3

Where(field, operator, values) ==
  [field |-> field, operator |-> operator, values |-> values, mirrored |-> FALSE]
Mirrored(value, operator, field) ==
  [field |-> field, operator |-> operator, values |-> <<value>>, mirrored |-> TRUE]
By(field, ascending) == [field |-> field, ascending |-> ascending]
Ask(clauses, order, limit) ==
  [sql |-> FALSE, clauses |-> clauses, order |-> order, limit |-> limit,
   start |-> Missing, included |-> FALSE, time |-> Missing]
Sql(clauses, order) == [Ask(clauses, order, 3) EXCEPT !.sql = TRUE]

(* Every way to bound one property by one clause or by two. *)
Ranges(f, low, high) ==
  {<<Where(f, op, <<v>>)>> : op \in SimpleRanges, v \in {low, high}} \cup
  {<<Where(f, op, <<low, high>>)>> : op \in Betweens} \cup
  {<<Where(f, "startsWith", <<low>>)>>} \cup
  {<<Where(f, upper, <<high>>), Where(f, lower, <<low>>)>> :
     lower \in LowerBounds, upper \in UpperBounds}
Ins2(f, low, high) == {<<Where(f, "in", <<high, low>>)>>, <<Where(f, "in", <<low>>)>>}

OwnerIs == <<Where(owner, "==", <<o1>>)>>
NoteIs == <<Where(note, "==", <<n1>>)>>
OwnerIn == <<Where(owner, "in", <<o2, o1>>)>>

LabelClauses == Ranges(label, l1, l2) \cup Ins2(label, l1, l2)
OwnerClauses == Ranges(owner, o1, o2) \cup Ins2(owner, o1, o2)

ByIds ==
  {Ask(<<>>, <<>>, 3), Ask(<<>>, <<By(docId, FALSE)>>, 3),
   Ask(<<Where(docId, "==", <<id2>>)>>, <<>>, 3),
   Ask(<<Where(docId, "in", <<id3, id1>>)>>, <<By(docId, TRUE)>>, 3),
   Ask(<<Where(docId, "in", <<id3, id1>>)>>, <<By(docId, FALSE)>>, 3)}
ByIndex ==
  {Ask(OwnerIs \o c, <<By(label, asc)>>, 3) : c \in LabelClauses, asc \in BOOLEAN} \cup
  {Ask(c, <<By(owner, asc)>>, 3) : c \in OwnerClauses, asc \in BOOLEAN} \cup
  {Ask(OwnerIn \o <<Where(label, op, <<v>>)>>, <<By(owner, asc), By(label, TRUE)>>, 3) :
     op \in SimpleRanges, v \in {l1, l2}, asc \in BOOLEAN} \cup
  {Ask(<<Where(note, op, <<n1>>)>>, <<By(note, asc)>>, 3) :
     op \in {"in", "<=", ">", "<"}, asc \in BOOLEAN} \cup
  {Ask(NoteIs \o c, <<By(owner, TRUE)>>, 3) : c \in OwnerClauses} \cup
  {Ask(OwnerIs, <<>>, 3), Ask(OwnerIs, <<By(owner, TRUE)>>, 3), Ask(OwnerIs, <<By(label, FALSE)>>, 3),
   Ask(OwnerIs \o <<Where(label, "==", <<l2>>)>>, <<>>, 3), Ask(NoteIs, <<>>, 3),
   Ask(<<>>, <<By(owner, TRUE)>>, 3), Ask(<<>>, <<By(owner, TRUE), By(label, TRUE)>>, 3),
   Ask(<<>>, <<By(note, TRUE), By(owner, TRUE)>>, 3)}
BySql ==
  {Sql(<<Mirrored(o1, op, owner)>>, <<By(owner, TRUE)>>) : op \in SimpleRanges} \cup
  {Sql(<<Mirrored(o2, "==", owner)>>, <<>>),
   Sql(OwnerIs \o <<Mirrored(l1, "<", label)>>, <<By(label, TRUE)>>)}
Answerable == ByIds \cup ByIndex \cup BySql

(* Clauses that contradict each other, or that no index serves. *)
Contradictory ==
  {Ask(OwnerIs \o <<Where(owner, op, <<o2>>)>>, <<By(owner, TRUE)>>, 3) :
     op \in {"==", "in", ">", "<=", "startsWith"}} \cup
  {Ask(<<Where(owner, ">=", <<o2>>), Where(owner, "<=", <<o1>>)>>, <<By(owner, TRUE)>>, 3),
   Ask(<<Where(owner, ">", <<o1>>), Where(owner, "<", <<o1>>)>>, <<By(owner, TRUE)>>, 3),
   Ask(<<Where(owner, ">", <<o1>>), Where(owner, ">=", <<o1>>)>>, <<By(owner, TRUE)>>, 3),
   Ask(<<Where(owner, ">", <<o1>>), Where(label, "<", <<l2>>)>>, <<By(owner, TRUE)>>, 3),
   Ask(OwnerIn \o <<Where(label, "in", <<l1>>)>>, <<By(owner, TRUE), By(label, TRUE)>>, 3),
   Ask(<<Where(owner, "in", <<o1, o1>>)>>, <<By(owner, TRUE)>>, 3),
   Ask(<<Where(owner, ">", <<o1>>)>>, <<>>, 3),
   Ask(<<Where(label, "==", <<l1>>)>>, <<>>, 3),
   Ask(<<Where(docId, "==", <<id1>>)>> \o OwnerIs, <<>>, 3),
   Ask(<<Where(docId, "==", <<id1>>), Where(docId, "in", <<id2>>)>>, <<>>, 3),
   Ask(<<Where(docId, ">", <<id1>>)>>, <<By(docId, TRUE)>>, 3),
   Ask(OwnerIs \o <<Where(label, ">=", <<l1>>)>>, <<By(label, Missing)>>, 3),
   Ask(<<Mirrored(o1, "<=", owner)>>, <<By(owner, TRUE)>>, 3),
   Sql(<<Mirrored(l1, "startsWith", label)>>, <<By(label, TRUE)>>),
   Ask(<<>>, <<>>, 0)}
AllRequests == Answerable \cup Contradictory

(* Requests whose results from a start are the rest of the results: by id,  *)
(* and by the last property of a unique index.                              *)
Pages(limit) ==
  {Ask(<<>>, <<By(docId, asc)>>, limit) : asc \in BOOLEAN} \cup
  {Ask(<<Where(docId, "in", <<id3, id1>>)>>, <<By(docId, asc)>>, limit) : asc \in BOOLEAN} \cup
  {Ask(OwnerIs, <<By(label, TRUE)>>, limit)} \cup
  {r \in {Ask(OwnerIs \o c, <<By(label, asc)>>, limit) : c \in LabelClauses, asc \in BOOLEAN} :
     LET range == RangeOf(r.clauses)
     IN  range = Missing \/ StartsExactly(range.operator, r.order[1].ascending)}
SmallPages == {Ask(<<>>, <<By(docId, FALSE)>>, 1), Ask(OwnerIs, <<By(label, TRUE)>>, 1)}
PagedRequests == Pages(3)
NoRequests == {}

(* What is asked of a type with the indices UniqueOwner. *)
ByOwner ==
  ByIds \cup {Ask(c, <<By(owner, asc)>>, 3) : c \in OwnerClauses, asc \in BOOLEAN} \cup
  {Ask(OwnerIs, <<>>, 3)} \cup
  {Ask(OwnerIs \o <<Where(note, op, <<n1>>)>>, <<By(note, asc)>>, 3) :
     op \in {"==", "<=", ">", "<"}, asc \in BOOLEAN}
ByOneOwner == {Ask(OwnerIs, <<>>, 3)}

(* A note of each owner under one label, and a document without one under   *)
(* the other label.                                                         *)
SomeNotes ==
  {d \in OptionalNote : /\ d[label] = l2 => d[owner] = o1
                       /\ d[note] = Null <=> d[label] = l2}

(* The encodings of keys over a small word.                                 *)
ASSUME EncodingsKeepOrder ==
  /\ \A a, b \in SignedIntegers :
       a < b <=> encode_signed_integer(a) < encode_signed_integer(b)
  /\ \A a, b \in 0 .. HalfWord - 1 :
       a < b <=> encode_unsigned_integer(a) < encode_unsigned_integer(b)
  /\ \A a, b \in Floats \ {NegativeZero} :
       FloatValue(a) < FloatValue(b) <=> encode_float(a) < encode_float(b)
=============================================================================
