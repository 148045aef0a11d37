---------------------------- MODULE QueryClauses ----------------------------
(***************************************************************************)
(* The where clauses of a document query (drive/src/query/conditions.rs,   *)
(* and InternalClauses of query/mod.rs): what each says of a document, and *)
(* how a list of them is sorted into equalities, one range and one In.     *)
(***************************************************************************)
EXTENDS DocumentType, FiniteSets

CONSTANTS IdField,  \* "$id"
          Rank,     \* the order of the keys: [keys -> Nat]
          Successor \* the key a prefix becomes when its last byte is incremented

Keys == DOMAIN Rank

ASSUME RankAssumption ==
  /\ Rank \in [Keys -> Nat]
  /\ \A k, l \in Keys : Rank[k] = Rank[l] => k = l
ASSUME MissingAssumption == Missing \notin Keys
ASSUME SuccessorAssumption == Successor \in [DOMAIN Successor -> Keys]

Less(k, l) == Rank[k] < Rank[l]
AtMost(k, l) == Rank[k] <= Rank[l]
-----------------------------------------------------------------------------
(* A clause is [field, operator, values, mirrored].  Equal and the simple   *)
(* ranges have one value, Between two, In any number; a mirrored one is     *)
(* written value first, as SQL allows.                                      *)

LowerBounds == {">", ">="}
UpperBounds == {"<", "<="}
SimpleRanges == LowerBounds \cup UpperBounds
Betweens == {"between", "betweenExcludeBounds", "betweenExcludeLeft", "betweenExcludeRight"}
ClosedRanges == Betweens \cup {"startsWith"}
Operators == {"==", "in"} \cup SimpleRanges \cup ClosedRanges

Clauses ==
  [field : Properties \cup {IdField}, operator : Operators, values : Seq(Keys), mirrored : BOOLEAN]
ASSUME ClausesAssumption == Missing \notin Clauses

IsRange(operator) == operator # "=="

AllowsFlip(operator) == operator = "==" \/ operator \in SimpleRanges

\* Fault: a strict bound becomes one that includes its value.
FlipLoosely(operator) ==
  CASE operator \in LowerBounds -> "<="
    [] operator \in UpperBounds -> ">="
    [] OTHER -> operator

Flip(operator) ==
  CASE operator = ">" -> "<"
    [] operator = ">=" -> "<="
    [] operator = "<" -> ">"
    [] operator = "<=" -> ">="
    [] OTHER -> operator

(* What a key has to do to satisfy an operator with its values.             *)
Satisfies(k, operator, values) ==
  CASE operator = "==" -> k = values[1]
    [] operator = "in" -> \E i \in DOMAIN values : k = values[i]
    [] operator = ">" -> Less(values[1], k)
    [] operator = ">=" -> AtMost(values[1], k)
    [] operator = "<" -> Less(k, values[1])
    [] operator = "<=" -> AtMost(k, values[1])
    [] operator = "between" -> AtMost(values[1], k) /\ AtMost(k, values[2])
    [] operator = "betweenExcludeBounds" -> Less(values[1], k) /\ Less(k, values[2])
    [] operator = "betweenExcludeLeft" -> Less(values[1], k) /\ AtMost(k, values[2])
    [] operator = "betweenExcludeRight" -> AtMost(values[1], k) /\ Less(k, values[2])
    [] operator = "startsWith" -> AtMost(values[1], k) /\ Less(k, Successor[values[1]])

(* in_values *)
InValuesFit(clause) ==
  clause.operator = "in" =>
    /\ clause.values # <<>>
    /\ \A i, j \in DOMAIN clause.values : clause.values[i] = clause.values[j] => i = j

(* split_value_for_between *)
BetweenValuesFit(clause) == clause.operator \in Betweens => Len(clause.values) = 2

ValuesFit(clause) == InValuesFit(clause) /\ BetweenValuesFit(clause)
-----------------------------------------------------------------------------
(* group_clauses.  Of a list of clauses: the indices of those with some     *)
(* operator, the equalities and the Ins that are not on the primary key.    *)
With(clauses, operators) == {i \in DOMAIN clauses : clauses[i].operator \in operators}

Equalities(clauses) == {i \in With(clauses, {"=="}) : clauses[i].field # IdField}
Ins(clauses) == {i \in With(clauses, {"in"}) : clauses[i].field # IdField}

KnownFields(clauses) ==
  {clauses[i].field : i \in Equalities(clauses) \cup Ins(clauses)}

Only(clauses, indices) == clauses[CHOOSE i \in indices : TRUE]

\* Fault: the upper bound always includes its value.
JoinedInclusive(lower, upper) ==
  IF lower.operator = ">=" THEN "between" ELSE "betweenExcludeLeft"

(* The operator of a lower and an upper bound together.                     *)
Joined(lower, upper) ==
  CASE lower.operator = ">=" /\ upper.operator = "<=" -> "between"
    [] lower.operator = ">=" /\ upper.operator = "<" -> "betweenExcludeRight"
    [] lower.operator = ">" /\ upper.operator = "<=" -> "betweenExcludeLeft"
    [] lower.operator = ">" /\ upper.operator = "<" -> "betweenExcludeBounds"

Crossed(lower, upper) ==
  \/ Less(upper.values[1], lower.values[1])
  \/ /\ Joined(lower, upper) = "betweenExcludeBounds"
     /\ upper.values[1] = lower.values[1]

JoinedRange(clauses) ==
  LET lower == Only(clauses, With(clauses, LowerBounds))
      upper == Only(clauses, With(clauses, UpperBounds))
  IN  [field |-> lower.field, operator |-> Joined(lower, upper),
       values |-> <<lower.values[1], upper.values[1]>>, mirrored |-> FALSE]

(* Two simple ranges have to bound one field from both sides.               *)
Joinable(clauses) ==
  LET lowers == With(clauses, LowerBounds)
      uppers == With(clauses, UpperBounds)
  IN  /\ Cardinality(lowers) = 1 /\ Cardinality(uppers) = 1
      /\ Only(clauses, lowers).field = Only(clauses, uppers).field
      /\ ~Crossed(Only(clauses, lowers), Only(clauses, uppers))

RangeOf(clauses) ==
  CASE With(clauses, SimpleRanges \cup ClosedRanges) = {} -> Missing
    [] Cardinality(With(clauses, SimpleRanges \cup ClosedRanges)) = 1 ->
         Only(clauses, With(clauses, SimpleRanges \cup ClosedRanges))
    [] OTHER -> JoinedRange(clauses)

RangeFits(clauses) ==
  LET ranges == With(clauses, SimpleRanges \cup ClosedRanges)
  IN  /\ \/ Cardinality(ranges) <= 1
         \/ With(clauses, ClosedRanges) = {} /\ Cardinality(ranges) = 2 /\ Joinable(clauses)
      /\ \A i \in ranges : clauses[i].field \notin KnownFields(clauses)
      /\ \A i \in With(clauses, {"startsWith"}) : clauses[i].values[1] # Null

Groups(clauses) ==
  /\ \A i, j \in Equalities(clauses) : clauses[i].field = clauses[j].field => i = j
  /\ Cardinality(Ins(clauses)) <= 1
  /\ \A i \in Ins(clauses), j \in Equalities(clauses) : clauses[i].field # clauses[j].field
  /\ RangeFits(clauses)

InOf(clauses) ==
  IF Ins(clauses) = {} THEN Missing ELSE Only(clauses, Ins(clauses))

EqualOf(clauses) ==
  [f \in {clauses[i].field : i \in Equalities(clauses)} |->
     clauses[CHOOSE i \in Equalities(clauses) : clauses[i].field = f].values[1]]
-----------------------------------------------------------------------------
(* InternalClauses: either one clause on the primary key or the others.     *)
OnId(clauses, operator) ==
  {i \in With(clauses, {operator}) : clauses[i].field = IdField}

Extractable(clauses) ==
  /\ Groups(clauses)
  /\ LET idClauses == OnId(clauses, "==") \cup OnId(clauses, "in")
     IN  /\ Cardinality(idClauses) <= 1
         /\ idClauses # {} => idClauses = DOMAIN clauses

Extracted(clauses) ==
  LET One(indices) == IF indices = {} THEN Missing ELSE Only(clauses, indices)
  IN  [idEqual |-> One(OnId(clauses, "==")), idIn |-> One(OnId(clauses, "in")),
       in |-> InOf(clauses), range |-> RangeOf(clauses), equal |-> EqualOf(clauses)]
=============================================================================
