----------------------------- MODULE QueryRanges -----------------------------
(***************************************************************************)
(* The keys a where clause selects in the tree of its field, and what of   *)
(* them is left when the results start at or after a document              *)
(* (WhereClause::to_path_query).                                           *)
(***************************************************************************)
EXTENDS QueryClauses

(* GroveDB's query items, as sets of keys; one whose end is before its     *)
(* start selects nothing.                                                   *)
Key(k) == {k}
RangeFull == Keys
RangeFrom(k) == {x \in Keys : AtMost(k, x)}
RangeAfter(k) == {x \in Keys : Less(k, x)}
RangeTo(k) == {x \in Keys : Less(x, k)}
RangeToInclusive(k) == {x \in Keys : AtMost(x, k)}
RangeBetween(k, l) == RangeFrom(k) \cap RangeTo(l)
RangeInclusive(k, l) == RangeFrom(k) \cap RangeToInclusive(l)
RangeAfterTo(k, l) == RangeAfter(k) \cap RangeTo(l)
RangeAfterToInclusive(k, l) == RangeAfter(k) \cap RangeToInclusive(l)

(* The part from, or to, a starting key; at it or after it.                 *)
From(start, included) == IF included THEN RangeFrom(start) ELSE RangeAfter(start)
To(start, included) == IF included THEN RangeToInclusive(start) ELSE RangeTo(start)
-----------------------------------------------------------------------------
(* Each operator: the start is a key, `ascending` the direction.            *)

\* Fault: the start is taken whether it is included or not.
ListedKeysWithStart(values, start, included, ascending) ==
  {k \in values : \/ ascending /\ AtMost(start, k)
                  \/ ~ascending /\ AtMost(k, start)}

ListedKeys(values, start, included, ascending) ==
  {k \in values : \/ ascending /\ Less(start, k)
                  \/ ~ascending /\ Less(k, start)
                  \/ included /\ start = k}

GreaterThanKeys(key, start, included, ascending) ==
  IF ascending
  THEN IF AtMost(start, key) THEN RangeAfter(key) ELSE From(start, included)
  ELSE IF Less(key, start) THEN RangeAfter(key) \cap To(start, included) ELSE {}

GreaterThanOrEqualsKeys(key, start, included, ascending) ==
  IF ascending
  THEN IF Less(start, key) \/ (included /\ start = key)
       THEN RangeFrom(key) ELSE From(start, included)
  ELSE IF Less(key, start) THEN RangeFrom(key) \cap To(start, included)
  ELSE IF included /\ start = key THEN Key(key) ELSE {}

LessThanKeys(key, start, included, ascending) ==
  IF ascending
  THEN IF Less(start, key) THEN From(key, included) \cap RangeTo(start) ELSE {}
  ELSE IF Less(key, start) THEN RangeTo(key) ELSE To(start, included)

LessThanOrEqualsKeys(key, start, included, ascending) ==
  IF ascending
  THEN IF included /\ start = key THEN Key(key)
       ELSE IF Less(start, key) THEN From(key, included) \cap RangeToInclusive(start) ELSE {}
  ELSE IF Less(key, start) \/ (included /\ start = key)
       THEN RangeToInclusive(key) ELSE To(start, included)

Inside(start, left, right) == Less(left, start) /\ Less(start, right)

BetweenKeys(left, right, start, included, ascending) ==
  LET first == IF ascending THEN left ELSE right
      last == IF ascending THEN right ELSE left
      Before(k, l) == IF ascending THEN Less(k, l) ELSE Less(l, k)
  IN  IF Before(start, first) \/ (included /\ start = first) THEN RangeInclusive(left, right)
      ELSE IF start = first
      THEN IF ascending THEN RangeAfterToInclusive(left, right) ELSE RangeBetween(left, right)
      ELSE IF Inside(start, left, right)
      THEN IF ascending THEN From(start, included) \cap RangeToInclusive(right)
                        ELSE RangeFrom(left) \cap To(start, included)
      ELSE IF start = last /\ included THEN Key(last) ELSE {}

BetweenExcludeBoundsKeys(left, right, start, included, ascending) ==
  IF ascending
  THEN IF AtMost(start, left) THEN RangeAfterTo(left, right)
       ELSE IF Inside(start, left, right) THEN From(start, included) \cap RangeTo(right) ELSE {}
  ELSE IF Less(right, start) THEN RangeInclusive(left, right)
       ELSE IF start = right THEN RangeBetween(left, right)
       ELSE IF Inside(start, left, right) THEN RangeAfter(left) \cap To(start, included) ELSE {}

BetweenExcludeLeftKeys(left, right, start, included, ascending) ==
  IF ascending
  THEN IF AtMost(start, left) THEN RangeAfterToInclusive(left, right)
       ELSE IF Inside(start, left, right) THEN From(start, included) \cap RangeToInclusive(right)
       ELSE IF start = right /\ included THEN Key(right) ELSE {}
  ELSE IF Less(right, start) \/ (included /\ start = right)
       THEN RangeAfterToInclusive(left, right)
       ELSE IF Inside(start, left, right) THEN RangeFrom(left) \cap To(start, included) ELSE {}

BetweenExcludeRightKeys(left, right, start, included, ascending) ==
  IF ascending
  THEN IF Less(start, left) \/ (included /\ start = left) THEN RangeBetween(left, right)
       ELSE IF start = left THEN RangeAfterTo(left, right)
       ELSE IF Inside(start, left, right) THEN From(start, included) \cap RangeTo(right) ELSE {}
  ELSE IF AtMost(right, start) THEN RangeBetween(left, right)
       ELSE IF Inside(start, left, right) THEN RangeFrom(left) \cap To(start, included)
       ELSE IF start = left /\ included THEN Key(left) ELSE {}
(* From a prefix to its successor.                                          *)
StartsWithKeys(prefix, start, included, ascending) ==
  BetweenExcludeRightKeys(prefix, Successor[prefix], start, included, ascending)
-----------------------------------------------------------------------------
(* to_path_query: without a start all that satisfies the clause.            *)
ItemsWithoutStart(operator, values) ==
  CASE operator \in {"==", "in"} -> {values[i] : i \in DOMAIN values}
    [] operator = ">" -> RangeAfter(values[1])
    [] operator = ">=" -> RangeFrom(values[1])
    [] operator = "<" -> RangeTo(values[1])
    [] operator = "<=" -> RangeToInclusive(values[1])
    [] operator = "between" -> RangeInclusive(values[1], values[2])
    [] operator = "betweenExcludeBounds" -> RangeAfterTo(values[1], values[2])
    [] operator = "betweenExcludeLeft" -> RangeAfterToInclusive(values[1], values[2])
    [] operator = "betweenExcludeRight" -> RangeBetween(values[1], values[2])
    [] operator = "startsWith" -> RangeBetween(values[1], Successor[values[1]])

ItemsFromStart(operator, values, start, included, ascending) ==
  LET Of(Operator(_, _, _, _, _)) == Operator(values[1], values[2], start, included, ascending)
  IN  CASE operator \in {"==", "in"} ->
             ListedKeys({values[i] : i \in DOMAIN values}, start, included, ascending)
        [] operator = ">" -> GreaterThanKeys(values[1], start, included, ascending)
        [] operator = ">=" -> GreaterThanOrEqualsKeys(values[1], start, included, ascending)
        [] operator = "<" -> LessThanKeys(values[1], start, included, ascending)
        [] operator = "<=" -> LessThanOrEqualsKeys(values[1], start, included, ascending)
        [] operator = "between" -> Of(BetweenKeys)
        [] operator = "betweenExcludeBounds" -> Of(BetweenExcludeBoundsKeys)
        [] operator = "betweenExcludeLeft" -> Of(BetweenExcludeLeftKeys)
        [] operator = "betweenExcludeRight" -> Of(BetweenExcludeRightKeys)
        [] operator = "startsWith" -> StartsWithKeys(values[1], start, included, ascending)

(* A start whose document lacks the field is no start.                      *)
Items(operator, values, start, included, ascending) ==
  IF start = Missing THEN ItemsWithoutStart(operator, values)
  ELSE ItemsFromStart(operator, values, start, included, ascending)

-----------------------------------------------------------------------------
(* What is at or after a start in a direction: what the results from a      *)
(* start should be limited to.                                              *)
Onward(k, start, included, ascending) ==
  \/ ascending /\ Less(start, k)
  \/ ~ascending /\ Less(k, start)
  \/ included /\ k = start

(* The operators for which they are.                                        *)
StartsExactly(operator, ascending) ==
  \/ operator \in {"==", "in", ">", ">=", "between", "betweenExcludeRight", "startsWith"}
  \/ ascending /\ operator \in {"betweenExcludeBounds", "betweenExcludeLeft"}
  \/ ~ascending /\ operator = "<="
=============================================================================
