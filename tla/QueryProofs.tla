---------------------------- MODULE QueryProofs ----------------------------
(***************************************************************************)
(* Queries, for any keys in any order, any indices and any documents.      *)
(* First the operators: what parsing does to a list of clauses keeps what  *)
(* they say, the items of a path query are the keys that satisfy its       *)
(* clause, and which numbers the encodings of keys keep in order.  Then    *)
(* whole queries over the store of DocumentStoreProofs: the shape of the   *)
(* path query an index gives (QueryShape), the documents it leads to       *)
(* (Selected) and the order in which it visits them (InTurn), and from     *)
(* these what is answered, in which order, and what a client that pages    *)
(* through it may rely on.                                                 *)
(***************************************************************************)
EXTENDS DocumentQueries, KeyEncodings, DocumentStoreProofs

(* The values an operator needs: keys, two for a Between, and for a prefix  *)
(* one that has a successor.                                                *)
Fit(operator, values) ==
  /\ values \in Seq(Keys)
  /\ operator \in Betweens => Len(values) = 2
  /\ operator \notin Betweens \cup {"in"} => Len(values) = 1
  /\ operator = "startsWith" => values[1] \in DOMAIN Successor

(* What each operator asks of a key, one by one.                            *)
LEMMA SatisfiesCases ==
  ASSUME NEW k, NEW values
  PROVE  /\ Satisfies(k, "==", values) <=> k = values[1]
         /\ Satisfies(k, "in", values) <=> \E i \in DOMAIN values : k = values[i]
         /\ Satisfies(k, ">", values) <=> Less(values[1], k)
         /\ Satisfies(k, ">=", values) <=> AtMost(values[1], k)
         /\ Satisfies(k, "<", values) <=> Less(k, values[1])
         /\ Satisfies(k, "<=", values) <=> AtMost(k, values[1])
         /\ Satisfies(k, "between", values)
              <=> AtMost(values[1], k) /\ AtMost(k, values[2])
         /\ Satisfies(k, "betweenExcludeBounds", values)
              <=> Less(values[1], k) /\ Less(k, values[2])
         /\ Satisfies(k, "betweenExcludeLeft", values)
              <=> Less(values[1], k) /\ AtMost(k, values[2])
         /\ Satisfies(k, "betweenExcludeRight", values)
              <=> AtMost(values[1], k) /\ Less(k, values[2])
         /\ Satisfies(k, "startsWith", values)
              <=> AtMost(values[1], k) /\ Less(k, Successor[values[1]])
  BY Zenon DEF Satisfies

(* The items of each operator without a start.                              *)
LEMMA ItemCases ==
  ASSUME NEW values
  PROVE  /\ \A operator \in {"==", "in"} :
              ItemsWithoutStart(operator, values) = {values[i] : i \in DOMAIN values}
         /\ ItemsWithoutStart(">", values) = RangeAfter(values[1])
         /\ ItemsWithoutStart(">=", values) = RangeFrom(values[1])
         /\ ItemsWithoutStart("<", values) = RangeTo(values[1])
         /\ ItemsWithoutStart("<=", values) = RangeToInclusive(values[1])
         /\ ItemsWithoutStart("between", values) = RangeInclusive(values[1], values[2])
         /\ ItemsWithoutStart("betweenExcludeBounds", values)
              = RangeAfterTo(values[1], values[2])
         /\ ItemsWithoutStart("betweenExcludeLeft", values)
              = RangeAfterToInclusive(values[1], values[2])
         /\ ItemsWithoutStart("betweenExcludeRight", values)
              = RangeBetween(values[1], values[2])
         /\ ItemsWithoutStart("startsWith", values)
              = RangeBetween(values[1], Successor[values[1]])
  BY Zenon DEF ItemsWithoutStart

(* The values an operator has to have: some keys.                           *)
LEMMA ValuesAreKeys ==
  ASSUME NEW operator, NEW values, Fit(operator, values)
  PROVE  /\ \A i \in DOMAIN values : values[i] \in Keys
         /\ operator # "in" => values[1] \in Keys
         /\ operator = "==" => {values[i] : i \in DOMAIN values} = {values[1]}
         /\ operator \in Betweens => values[2] \in Keys
         /\ operator = "startsWith" => Successor[values[1]] \in Keys
  BY SuccessorAssumption DEF Fit, Betweens
-----------------------------------------------------------------------------
(* A clause of SQL that is written value first says the same when it is     *)
(* turned around.                                                           *)
THEOREM FlipKeepsMeaning ==
  \A operator \in Operators, v, k \in Keys :
    AllowsFlip(operator) =>
      (Satisfies(v, operator, <<k>>) <=> Satisfies(k, Flip(operator), <<v>>))
  <1> TAKE operator \in Operators, v, k \in Keys
  <1>1. /\ Flip("==") = "==" /\ Flip(">") = "<" /\ Flip(">=") = "<="
        /\ Flip("<") = ">" /\ Flip("<=") = ">="
    BY Zenon DEF Flip
  <1>2. <<k>>[1] = k /\ <<v>>[1] = v
    OBVIOUS
  <1>3. AllowsFlip(operator) => operator \in {"==", ">", ">=", "<", "<="}
    BY DEF AllowsFlip, SimpleRanges, LowerBounds, UpperBounds
  <1> QED
    BY <1>1, <1>2, <1>3, SatisfiesCases, SMT

(* Without a start the items are the keys that satisfy the clause.          *)
THEOREM ItemsSatisfyClause ==
  \A operator \in Operators : \A values :
    Fit(operator, values) =>
      ItemsWithoutStart(operator, values) = {k \in Keys : Satisfies(k, operator, values)}
  <1> TAKE operator \in Operators
  <1> TAKE values
  <1> HAVE Fit(operator, values)
  <1> USE ValuesAreKeys, ItemCases, SatisfiesCases
  <1>1. CASE operator \in {"==", "in"}
    BY <1>1
  <1>2. CASE operator \in SimpleRanges
    BY <1>2 DEF SimpleRanges, LowerBounds, UpperBounds, RangeAfter, RangeFrom, RangeTo,
                RangeToInclusive
  <1>3. CASE operator \in ClosedRanges
    BY <1>3 DEF ClosedRanges, Betweens, RangeAfter, RangeFrom, RangeTo, RangeToInclusive,
                RangeInclusive, RangeBetween, RangeAfterTo, RangeAfterToInclusive
  <1> QED
    BY <1>1, <1>2, <1>3 DEF Operators
-----------------------------------------------------------------------------
(* The order of the keys is total.                                          *)
LEMMA KeysOrdered ==
  \A k, l \in Keys :
    /\ Rank[k] \in Nat
    /\ k = l <=> Rank[k] = Rank[l]
  BY RankAssumption DEF Keys

(* What is left of some keys from a start on.                               *)
Rest(keys, s, included, ascending) == {k \in keys : Onward(k, s, included, ascending)}

(* A list of keys, *)
LEMMA StartCutsList ==
  ASSUME NEW values \in SUBSET Keys, NEW s \in Keys,
         NEW included \in BOOLEAN, NEW ascending \in BOOLEAN
  PROVE  ListedKeys(values, s, included, ascending)
           = Rest(values, s, included, ascending)
  BY Zenon DEF ListedKeys, Rest, Onward

(* a bound on one side, *)
LEMMA StartCutsBound ==
  ASSUME NEW key \in Keys, NEW s \in Keys, NEW included \in BOOLEAN, NEW ascending \in BOOLEAN
  PROVE  /\ GreaterThanKeys(key, s, included, ascending)
              = Rest(RangeAfter(key), s, included, ascending)
         /\ GreaterThanOrEqualsKeys(key, s, included, ascending)
              = Rest(RangeFrom(key), s, included, ascending)
         /\ ~ascending =>
              LessThanOrEqualsKeys(key, s, included, ascending)
                = Rest(RangeToInclusive(key), s, included, ascending)
  <1> USE KeysOrdered DEF RangeAfter, RangeFrom, RangeTo, RangeToInclusive, Key, From, To, Rest, Onward,
                          Less, AtMost
  <1>1. GreaterThanKeys(key, s, included, ascending)
          = Rest(RangeAfter(key), s, included, ascending)
    BY DEF GreaterThanKeys
  <1>2. GreaterThanOrEqualsKeys(key, s, included, ascending)
          = Rest(RangeFrom(key), s, included, ascending)
    BY DEF GreaterThanOrEqualsKeys
  <1>3. ~ascending =>
          LessThanOrEqualsKeys(key, s, included, ascending)
            = Rest(RangeToInclusive(key), s, included, ascending)
    BY DEF LessThanOrEqualsKeys
  <1> QED
    BY <1>1, <1>2, <1>3

(* and bounds on both.                                                      *)
LEMMA StartCutsBetween ==
  ASSUME NEW left \in Keys, NEW right \in Keys, NEW s \in Keys,
         NEW included \in BOOLEAN, NEW ascending \in BOOLEAN
  PROVE  /\ BetweenKeys(left, right, s, included, ascending)
              = Rest(RangeInclusive(left, right), s, included, ascending)
         /\ BetweenExcludeRightKeys(left, right, s, included, ascending)
              = Rest(RangeBetween(left, right), s, included, ascending)
  <1> USE KeysOrdered DEF RangeAfter, RangeFrom, RangeTo, RangeToInclusive, Key, From, To, Rest, Onward,
                          Less, AtMost, Inside, RangeInclusive, RangeBetween, RangeAfterTo,
                          RangeAfterToInclusive
  <1>1. BetweenKeys(left, right, s, included, ascending)
          = Rest(RangeInclusive(left, right), s, included, ascending)
    BY DEF BetweenKeys
  <1>2. BetweenExcludeRightKeys(left, right, s, included, ascending)
          = Rest(RangeBetween(left, right), s, included, ascending)
    BY DEF BetweenExcludeRightKeys
  <1> QED
    BY <1>1, <1>2

(* Where a bound is excluded, if the order is ascending.                    *)
LEMMA StartCutsExcluded ==
  \A left, right, s \in Keys, included \in BOOLEAN :
    /\ BetweenExcludeBoundsKeys(left, right, s, included, TRUE)
         = Rest(RangeAfterTo(left, right), s, included, TRUE)
    /\ BetweenExcludeLeftKeys(left, right, s, included, TRUE)
         = Rest(RangeAfterToInclusive(left, right), s, included, TRUE)
  <1> TAKE left, right, s \in Keys, included \in BOOLEAN
  <1> USE KeysOrdered DEF RangeAfter, RangeFrom, RangeTo, RangeToInclusive, Key, From, To, Rest,
                          Onward, Less, AtMost, Inside, RangeAfterTo, RangeAfterToInclusive
  <1>1. BetweenExcludeBoundsKeys(left, right, s, included, TRUE)
          = Rest(RangeAfterTo(left, right), s, included, TRUE)
    BY DEF BetweenExcludeBoundsKeys
  <1>2. BetweenExcludeLeftKeys(left, right, s, included, TRUE)
          = Rest(RangeAfterToInclusive(left, right), s, included, TRUE)
    BY DEF BetweenExcludeLeftKeys
  <1> QED
    BY <1>1, <1>2

(* For the operators of StartsExactly, the items from a start are those     *)
(* without it, less all that comes before the start in the direction of the *)
(* query: pages of results neither miss nor repeat a key.                   *)
THEOREM StartCutsItems ==
  \A operator, values : \A s \in Keys, included, ascending \in BOOLEAN :
    Fit(operator, values) /\ StartsExactly(operator, ascending) =>
      ItemsFromStart(operator, values, s, included, ascending)
        = Rest(ItemsWithoutStart(operator, values), s, included, ascending)
  <1> TAKE operator, values
  <1> TAKE s \in Keys, included, ascending \in BOOLEAN
  <1> HAVE Fit(operator, values) /\ StartsExactly(operator, ascending)
  <1> DEFINE Cut(keys) == Rest(keys, s, included, ascending)
  <1> DEFINE Started == ItemsFromStart(operator, values, s, included, ascending)
  <1> DEFINE Selected == ItemsWithoutStart(operator, values)
  <1>1. CASE operator \in {"==", "in"}
    <2>1. {values[i] : i \in DOMAIN values} \subseteq Keys
      BY <1>1, ValuesAreKeys DEF Betweens
    <2>2. Started = ListedKeys({values[i] : i \in DOMAIN values}, s, included, ascending)
      BY <1>1, Zenon DEF ItemsFromStart
    <2>3. Selected = {values[i] : i \in DOMAIN values}
      BY <1>1, ItemCases, Zenon
    <2>4. ListedKeys({values[i] : i \in DOMAIN values}, s, included, ascending)
            = Cut({values[i] : i \in DOMAIN values})
      BY <1>1, <2>1, StartCutsList, SMT
    <2> QED
      BY <2>2, <2>3, <2>4, Zenon
  <1>2. CASE operator = ">"
    <2>1. values[1] \in Keys
      BY <1>2, ValuesAreKeys DEF Betweens
    <2>2. Started = GreaterThanKeys(values[1], s, included, ascending)
      BY <1>2, Zenon DEF ItemsFromStart
    <2>3. Selected = RangeAfter(values[1])
      BY <1>2, ItemCases, Zenon
    <2>4. GreaterThanKeys(values[1], s, included, ascending)
            = Cut(RangeAfter(values[1]))
      BY <1>2, <2>1, StartCutsBound, SMT
    <2> QED
      BY <2>2, <2>3, <2>4, Zenon
  <1>3. CASE operator = ">="
    <2>1. values[1] \in Keys
      BY <1>3, ValuesAreKeys DEF Betweens
    <2>2. Started = GreaterThanOrEqualsKeys(values[1], s, included, ascending)
      BY <1>3, Zenon DEF ItemsFromStart
    <2>3. Selected = RangeFrom(values[1])
      BY <1>3, ItemCases, Zenon
    <2>4. GreaterThanOrEqualsKeys(values[1], s, included, ascending)
            = Cut(RangeFrom(values[1]))
      BY <1>3, <2>1, StartCutsBound, SMT
    <2> QED
      BY <2>2, <2>3, <2>4, Zenon
  <1>4. CASE ~ascending /\ operator = "<="
    <2>1. values[1] \in Keys
      BY <1>4, ValuesAreKeys DEF Betweens
    <2>2. Started = LessThanOrEqualsKeys(values[1], s, included, ascending)
      BY <1>4, Zenon DEF ItemsFromStart
    <2>3. Selected = RangeToInclusive(values[1])
      BY <1>4, ItemCases, Zenon
    <2>4. LessThanOrEqualsKeys(values[1], s, included, ascending)
            = Cut(RangeToInclusive(values[1]))
      BY <1>4, <2>1, StartCutsBound, SMT
    <2> QED
      BY <2>2, <2>3, <2>4, Zenon
  <1>5. CASE operator = "between"
    <2>1. values[1] \in Keys /\ values[2] \in Keys
      BY <1>5, ValuesAreKeys DEF Betweens
    <2>2. Started = BetweenKeys(values[1], values[2], s, included, ascending)
      BY <1>5, Zenon DEF ItemsFromStart
    <2>3. Selected = RangeInclusive(values[1], values[2])
      BY <1>5, ItemCases, Zenon
    <2>4. BetweenKeys(values[1], values[2], s, included, ascending)
            = Cut(RangeInclusive(values[1], values[2]))
      BY <1>5, <2>1, StartCutsBetween, SMT
    <2> QED
      BY <2>2, <2>3, <2>4, Zenon
  <1>6. CASE ascending /\ operator = "betweenExcludeBounds"
    <2>1. PICK left \in Keys, right \in Keys : left = values[1] /\ right = values[2]
      BY <1>6, ValuesAreKeys DEF Betweens
    <2>2. ascending = TRUE
      BY <1>6
    <2>3. Started = BetweenExcludeBoundsKeys(left, right, s, included, ascending)
      BY <1>6, <2>1, Zenon DEF ItemsFromStart
    <2>4. Selected = RangeAfterTo(left, right)
      BY <1>6, <2>1, ItemCases, Zenon
    <2>5. BetweenExcludeBoundsKeys(left, right, s, included, TRUE)
            = Rest(RangeAfterTo(left, right), s, included, TRUE)
      BY StartCutsExcluded, Zenon
    <2> QED
      BY <2>2, <2>3, <2>4, <2>5, Zenon
  <1>7. CASE ascending /\ operator = "betweenExcludeLeft"
    <2>1. PICK left \in Keys, right \in Keys : left = values[1] /\ right = values[2]
      BY <1>7, ValuesAreKeys DEF Betweens
    <2>2. ascending = TRUE
      BY <1>7
    <2>3. Started = BetweenExcludeLeftKeys(left, right, s, included, ascending)
      BY <1>7, <2>1, Zenon DEF ItemsFromStart
    <2>4. Selected = RangeAfterToInclusive(left, right)
      BY <1>7, <2>1, ItemCases, Zenon
    <2>5. BetweenExcludeLeftKeys(left, right, s, included, TRUE)
            = Rest(RangeAfterToInclusive(left, right), s, included, TRUE)
      BY StartCutsExcluded, Zenon
    <2> QED
      BY <2>2, <2>3, <2>4, <2>5, Zenon
  <1>8. CASE operator = "betweenExcludeRight"
    <2>1. values[1] \in Keys /\ values[2] \in Keys
      BY <1>8, ValuesAreKeys DEF Betweens
    <2>2. Started = BetweenExcludeRightKeys(values[1], values[2], s, included, ascending)
      BY <1>8, Zenon DEF ItemsFromStart
    <2>3. Selected = RangeBetween(values[1], values[2])
      BY <1>8, ItemCases, Zenon
    <2>4. BetweenExcludeRightKeys(values[1], values[2], s, included, ascending)
            = Cut(RangeBetween(values[1], values[2]))
      BY <1>8, <2>1, StartCutsBetween, SMT
    <2> QED
      BY <2>2, <2>3, <2>4, Zenon
  <1>9. CASE operator = "startsWith"
    <2>1. values[1] \in Keys /\ Successor[values[1]] \in Keys
      BY <1>9, ValuesAreKeys DEF Betweens
    <2>2. Started = BetweenExcludeRightKeys(values[1], Successor[values[1]], s, included, ascending)
      BY <1>9, Zenon DEF ItemsFromStart, StartsWithKeys
    <2>3. Selected = RangeBetween(values[1], Successor[values[1]])
      BY <1>9, ItemCases, Zenon
    <2>4. BetweenExcludeRightKeys(values[1], Successor[values[1]], s, included, ascending)
            = Cut(RangeBetween(values[1], Successor[values[1]]))
      BY <1>9, <2>1, StartCutsBetween, SMT
    <2> QED
      BY <2>2, <2>3, <2>4, Zenon
  <1> QED
    BY <1>1, <1>2, <1>3, <1>4, <1>5, <1>6, <1>7, <1>8, <1>9, SMT DEF StartsExactly
-----------------------------------------------------------------------------
(* A clause of a list that was parsed, and that a document of which `value` *)
(* gives the keys meets.                                                    *)
Clause(Fields) ==
  {c \in [field : Fields, operator : Operators, values : Seq(Keys), mirrored : {FALSE}] :
     c.operator \in {"=="} \cup SimpleRanges => Len(c.values) = 1}
Holds(clause, value) == Satisfies(value[clause.field], clause.operator, clause.values)

(* What the extracted clauses say together.                                 *)
MeetsExtracted(extracted, value) ==
  /\ \A clause \in {extracted.idEqual, extracted.idIn, extracted.in, extracted.range} :
       clause # Missing => Holds(clause, value)
  /\ \A field \in DOMAIN extracted.equal : value[field] = extracted.equal[field]

(* Of at most one element each is the one that is chosen.                   *)
LEMMA AtMostOne ==
  ASSUME NEW S, IsFiniteSet(S), Cardinality(S) <= 1
  PROVE  \A x, y \in S : x = y
  <1> TAKE x, y \in S
  <1>1. Cardinality(S) \in Nat /\ Cardinality(S) # 0
    BY FS_CardinalityType, FS_EmptySet
  <1>2. Cardinality(S \ {x}) = 0 /\ IsFiniteSet(S \ {x})
    BY <1>1, FS_RemoveElement
  <1>3. S \ {x} = {}
    BY <1>2, FS_EmptySet
  <1> QED
    BY <1>3

(* The indices of a list are finitely many.                                 *)
LEMMA SomeIndices ==
  ASSUME NEW S, NEW clauses \in Seq(S), NEW indices \in SUBSET DOMAIN clauses
  PROVE  IsFiniteSet(indices)
  <1>1. DOMAIN clauses = 1 .. Len(clauses) /\ Len(clauses) \in Nat
    OBVIOUS
  <1>2. IsFiniteSet(1 .. Len(clauses))
    BY <1>1, FS_Interval
  <1> QED
    BY <1>1, <1>2, FS_Subset

(* The only clause at some indices is that of each of them.                 *)
LEMMA OnlyClause ==
  ASSUME NEW S, NEW clauses \in Seq(S), NEW indices \in SUBSET DOMAIN clauses,
         Cardinality(indices) <= 1
  PROVE  \A i \in indices : Only(clauses, indices) = clauses[i]
  <1>1. \A i, j \in indices : i = j
    BY SomeIndices, AtMostOne
  <1> QED
    BY <1>1, Zenon DEF Only

(* A lower and an upper bound of a field say what their range says.         *)
LEMMA JoinedMeaning ==
  ASSUME NEW value, NEW lower, NEW upper, NEW range,
         lower.operator \in LowerBounds, upper.operator \in UpperBounds,
         lower.field = upper.field, range.field = lower.field,
         range.operator = Joined(lower, upper),
         range.values = <<lower.values[1], upper.values[1]>>
  PROVE  Holds(range, value) <=> Holds(lower, value) /\ Holds(upper, value)
  <1>1. range.values[1] = lower.values[1] /\ range.values[2] = upper.values[1]
    OBVIOUS
  <1>2. CASE lower.operator = ">=" /\ upper.operator = "<="
    <2>1. range.operator = "between"
      BY <1>2, Zenon DEF Joined
    <2>2. Holds(lower, value) <=> AtMost(lower.values[1], value[lower.field])
      BY <1>2, Zenon DEF Holds, Satisfies
    <2>3. Holds(upper, value) <=> AtMost(value[lower.field], upper.values[1])
      BY <1>2, Zenon DEF Holds, Satisfies
    <2>4. Holds(range, value) <=> /\ AtMost(range.values[1], value[range.field])
                                 /\ AtMost(value[range.field], range.values[2])
      BY <2>1, Zenon DEF Holds, Satisfies
    <2> QED
      BY <1>1, <2>2, <2>3, <2>4, Zenon
  <1>3. CASE lower.operator = ">=" /\ upper.operator = "<"
    <2>1. range.operator = "betweenExcludeRight"
      BY <1>3, Zenon DEF Joined
    <2>2. Holds(lower, value) <=> AtMost(lower.values[1], value[lower.field])
      BY <1>3, Zenon DEF Holds, Satisfies
    <2>3. Holds(upper, value) <=> Less(value[lower.field], upper.values[1])
      BY <1>3, Zenon DEF Holds, Satisfies
    <2>4. Holds(range, value) <=> /\ AtMost(range.values[1], value[range.field])
                                 /\ Less(value[range.field], range.values[2])
      BY <2>1, Zenon DEF Holds, Satisfies
    <2> QED
      BY <1>1, <2>2, <2>3, <2>4, Zenon
  <1>4. CASE lower.operator = ">" /\ upper.operator = "<="
    <2>1. range.operator = "betweenExcludeLeft"
      BY <1>4, Zenon DEF Joined
    <2>2. Holds(lower, value) <=> Less(lower.values[1], value[lower.field])
      BY <1>4, Zenon DEF Holds, Satisfies
    <2>3. Holds(upper, value) <=> AtMost(value[lower.field], upper.values[1])
      BY <1>4, Zenon DEF Holds, Satisfies
    <2>4. Holds(range, value) <=> /\ Less(range.values[1], value[range.field])
                                 /\ AtMost(value[range.field], range.values[2])
      BY <2>1, Zenon DEF Holds, Satisfies
    <2> QED
      BY <1>1, <2>2, <2>3, <2>4, Zenon
  <1>5. CASE lower.operator = ">" /\ upper.operator = "<"
    <2>1. range.operator = "betweenExcludeBounds"
      BY <1>5, Zenon DEF Joined
    <2>2. Holds(lower, value) <=> Less(lower.values[1], value[lower.field])
      BY <1>5, Zenon DEF Holds, Satisfies
    <2>3. Holds(upper, value) <=> Less(value[lower.field], upper.values[1])
      BY <1>5, Zenon DEF Holds, Satisfies
    <2>4. Holds(range, value) <=> /\ Less(range.values[1], value[range.field])
                                 /\ Less(value[range.field], range.values[2])
      BY <2>1, Zenon DEF Holds, Satisfies
    <2> QED
      BY <1>1, <2>2, <2>3, <2>4, Zenon
  <1> QED
    BY <1>2, <1>3, <1>4, <1>5 DEF LowerBounds, UpperBounds

(* The range of a list that fits says what its ranges say.                  *)
LEMMA RangeMeaning ==
  ASSUME NEW Fields, NEW clauses \in Seq(Clause(Fields)), NEW value,
         Missing \notin Clause(Fields), RangeFits(clauses)
  PROVE  (\A i \in With(clauses, SimpleRanges \cup ClosedRanges) : Holds(clauses[i], value))
           <=> (RangeOf(clauses) # Missing => Holds(RangeOf(clauses), value))
  <1> DEFINE ranges == With(clauses, SimpleRanges \cup ClosedRanges)
             lowers == With(clauses, LowerBounds)
             uppers == With(clauses, UpperBounds)
             lower == Only(clauses, lowers)
             upper == Only(clauses, uppers)
  <1>1. /\ ranges \subseteq DOMAIN clauses /\ lowers \subseteq ranges /\ uppers \subseteq ranges
        /\ \A i \in DOMAIN clauses : clauses[i] \in Clause(Fields)
    BY DEF With, SimpleRanges
  <1>2. CASE ranges = {}
    <2>1. Cardinality(ranges) # 1
      <3>1. Cardinality({}) = 0
        BY FS_EmptySet
      <3> HIDE DEF ranges
      <3> QED
        BY <1>2, <3>1
    <2>2. RangeOf(clauses) = Missing
      BY <1>2, <2>1, Zenon DEF RangeOf
    <2> QED
      BY <1>2, <2>2
  <1>3. CASE ranges # {} /\ Cardinality(ranges) <= 1
    <2>1. \A i \in ranges : Only(clauses, ranges) = clauses[i]
      BY <1>1, <1>3, OnlyClause
    <2>2. PICK i \in ranges : TRUE
      BY <1>3
    <2>3. Cardinality(ranges) = 1
      <3>1. IsFiniteSet(ranges)
        BY <1>1, SomeIndices
      <3> QED
        BY <3>1, <1>3, FS_CardinalityType, FS_EmptySet
    <2>4. RangeOf(clauses) = clauses[i]
      BY <1>3, <2>1, <2>2, <2>3, Zenon DEF RangeOf
    <2>5. \A j \in ranges : clauses[j] = clauses[i]
      BY <2>1, <2>2
    <2> QED
      BY <1>1, <2>2, <2>4, <2>5, Zenon
  <1>4. CASE Cardinality(ranges) = 2
    <2>1. /\ Cardinality(lowers) = 1 /\ Cardinality(uppers) = 1
          /\ lower.field = upper.field
          /\ With(clauses, ClosedRanges) = {}
      BY <1>4 DEF RangeFits, Joinable
    <2>2. /\ \A i \in lowers : lower = clauses[i]
          /\ \A i \in uppers : upper = clauses[i]
      <3>1. /\ lowers \in SUBSET DOMAIN clauses /\ Cardinality(lowers) <= 1
            /\ uppers \in SUBSET DOMAIN clauses /\ Cardinality(uppers) <= 1
        <4> HIDE DEF lowers, uppers, ranges
        <4> QED
          BY <1>1, <2>1
      <3> HIDE DEF lowers, uppers
      <3> QED
        BY <3>1, OnlyClause
    <2>3. PICK i \in lowers, j \in uppers : TRUE
      <3>1. Cardinality({}) = 0
        BY FS_EmptySet
      <3>2. Cardinality(lowers) # Cardinality({}) /\ Cardinality(uppers) # Cardinality({})
        <4> HIDE DEF lowers, uppers
        <4> QED
          BY <2>1, <3>1
      <3> HIDE DEF lowers, uppers
      <3>3. lowers # {} /\ uppers # {}
        BY <3>2, Zenon
      <3> QED
        BY <3>3, Zenon
    <2>4. lower.operator \in LowerBounds /\ upper.operator \in UpperBounds
      BY <2>2, <2>3 DEF With
    <2>5. ranges = lowers \cup uppers
      BY <2>1 DEF With, SimpleRanges
    <2>6. RangeOf(clauses) = JoinedRange(clauses)
      <3>1. Cardinality({}) = 0
        BY FS_EmptySet
      <3>2. ranges # {} /\ Cardinality(ranges) # 1
        <4> HIDE DEF ranges
        <4> QED
          BY <1>4, <3>1
      <3> QED
        BY <3>2, Zenon DEF RangeOf
    <2>7. /\ JoinedRange(clauses).field = lower.field
          /\ JoinedRange(clauses).operator = Joined(lower, upper)
          /\ JoinedRange(clauses).values = <<lower.values[1], upper.values[1]>>
      BY DEF JoinedRange
    <2>8. Holds(JoinedRange(clauses), value) <=> Holds(lower, value) /\ Holds(upper, value)
      BY <2>1, <2>4, <2>7, JoinedMeaning
    <2>9. JoinedRange(clauses) # Missing
      <3>1. lower \in Clause(Fields) /\ upper \in Clause(Fields)
        BY <1>1, <2>2, <2>3
      <3>2. Len(lower.values) = 1 /\ Len(upper.values) = 1
        BY <2>4, <3>1 DEF Clause, SimpleRanges
      <3>3. <<lower.values[1], upper.values[1]>> \in Seq(Keys)
        BY <3>1, <3>2 DEF Clause
      <3>4. Joined(lower, upper) \in Betweens
        <4>1. \/ lower.operator = ">=" /\ upper.operator = "<="
              \/ lower.operator = ">=" /\ upper.operator = "<"
              \/ lower.operator = ">" /\ upper.operator = "<="
              \/ lower.operator = ">" /\ upper.operator = "<"
          BY <2>4 DEF LowerBounds, UpperBounds
        <4> QED
          BY <4>1, Zenon DEF Joined, Betweens
      <3>5. JoinedRange(clauses) \in Clause(Fields)
        BY <3>1, <3>3, <3>4
           DEF JoinedRange, Clause, Operators, ClosedRanges, Betweens, SimpleRanges, LowerBounds,
               UpperBounds
      <3> QED
        BY <3>5
    <2> QED
      BY <2>2, <2>3, <2>5, <2>6, <2>8, <2>9, Zenon
  <1> QED
    BY <1>2, <1>3, <1>4 DEF RangeFits

(* One clause, or Missing for none, says what the clauses it is taken from  *)
(* say, if they are at most one.                                            *)
LEMMA OneMeaning ==
  ASSUME NEW Fields, NEW clauses \in Seq(Clause(Fields)), NEW value,
         Missing \notin Clause(Fields),
         NEW indices \in SUBSET DOMAIN clauses, Cardinality(indices) <= 1,
         NEW one, one = IF indices = {} THEN Missing ELSE Only(clauses, indices)
  PROVE  (\A i \in indices : Holds(clauses[i], value))
           <=> (one # Missing => Holds(one, value))
  <1>1. CASE indices = {}
    BY <1>1
  <1>2. CASE indices # {}
    <2>1. \A i \in indices : one = clauses[i]
      BY <1>2, OnlyClause
    <2>2. PICK i \in indices : TRUE
      BY <1>2
    <2>3. one # Missing
      BY <2>1, <2>2
    <2> QED
      BY <2>1, <2>2, <2>3, Zenon
  <1> QED
    BY <1>1, <1>2

(* Parsing keeps what a list of clauses says: it is accepted only if one    *)
(* clause on the primary key, or the equalities, an In and a range, say of  *)
(* each document what all the clauses of the list together say.             *)
THEOREM ExtractedKeepsMeaning ==
  ASSUME NEW Fields, NEW clauses \in Seq(Clause(Fields)), NEW value,
         Missing \notin Clause(Fields), Extractable(clauses)
  PROVE  (\A i \in DOMAIN clauses : Holds(clauses[i], value))
           <=> MeetsExtracted(Extracted(clauses), value)
  <1> DEFINE ranges == With(clauses, SimpleRanges \cup ClosedRanges)
             e == Extracted(clauses)
             Met(clause) == clause # Missing => Holds(clause, value)
  <1>1. Groups(clauses)
    BY DEF Extractable
  <1>2. \A i \in DOMAIN clauses :
          /\ clauses[i] \in Clause(Fields) /\ clauses[i] # Missing
          /\ \/ i \in OnId(clauses, "==") \/ i \in OnId(clauses, "in")
             \/ i \in Equalities(clauses) \/ i \in Ins(clauses) \/ i \in ranges
    <2> TAKE i \in DOMAIN clauses
    <2>1. clauses[i] \in Clause(Fields) /\ clauses[i].operator \in Operators
      <3>1. clauses[i] \in Clause(Fields)
        OBVIOUS
      <3> QED
        BY <3>1 DEF Clause
    <2>2. CASE clauses[i].operator \in {"==", "in"}
      BY <2>1, <2>2 DEF OnId, Equalities, Ins, With
    <2>3. CASE clauses[i].operator \in SimpleRanges \cup ClosedRanges
      BY <2>1, <2>3 DEF With
    <2> QED
      BY <2>1, <2>2, <2>3 DEF Operators
  <1>3. /\ OnId(clauses, "==") \subseteq DOMAIN clauses /\ OnId(clauses, "in") \subseteq DOMAIN clauses
        /\ Equalities(clauses) \subseteq DOMAIN clauses /\ Ins(clauses) \subseteq DOMAIN clauses
        /\ ranges \subseteq DOMAIN clauses
    BY DEF OnId, Equalities, Ins, With
  <1>4. (\A i \in ranges : Holds(clauses[i], value)) <=> Met(e.range)
    BY <1>1, RangeMeaning DEF Groups, Extracted
  <1>5. (\A i \in Ins(clauses) : Holds(clauses[i], value)) <=> Met(e.in)
    <2>1. e.in = IF Ins(clauses) = {} THEN Missing ELSE Only(clauses, Ins(clauses))
      BY DEF Extracted, InOf
    <2>2. Cardinality(Ins(clauses)) <= 1
      BY <1>1 DEF Groups
    <2> QED
      BY <1>3, <2>1, <2>2, OneMeaning
  <1>6. /\ Cardinality(OnId(clauses, "==")) <= 1
        /\ Cardinality(OnId(clauses, "in")) <= 1
    <2>1. /\ IsFiniteSet(OnId(clauses, "==") \cup OnId(clauses, "in"))
          /\ Cardinality(OnId(clauses, "==") \cup OnId(clauses, "in")) <= 1
      BY <1>3, SomeIndices DEF Extractable
    <2>2. /\ Cardinality(OnId(clauses, "==")) \in Nat
          /\ Cardinality(OnId(clauses, "in")) \in Nat
          /\ Cardinality(OnId(clauses, "==") \cup OnId(clauses, "in")) \in Nat
          /\ Cardinality(OnId(clauses, "=="))
               <= Cardinality(OnId(clauses, "==") \cup OnId(clauses, "in"))
          /\ Cardinality(OnId(clauses, "in"))
               <= Cardinality(OnId(clauses, "==") \cup OnId(clauses, "in"))
      BY <2>1, FS_Subset, FS_CardinalityType
    <2> QED
      BY <2>1, <2>2
  <1>7. (\A i \in OnId(clauses, "==") : Holds(clauses[i], value)) <=> Met(e.idEqual)
    <2>1. e.idEqual = IF OnId(clauses, "==") = {} THEN Missing
                      ELSE Only(clauses, OnId(clauses, "=="))
      BY DEF Extracted
    <2> QED
      BY <1>3, <1>6, <2>1, OneMeaning
  <1>8. (\A i \in OnId(clauses, "in") : Holds(clauses[i], value)) <=> Met(e.idIn)
    <2>1. e.idIn = IF OnId(clauses, "in") = {} THEN Missing
                   ELSE Only(clauses, OnId(clauses, "in"))
      BY DEF Extracted
    <2>2. OnId(clauses, "in") \in SUBSET DOMAIN clauses /\ Cardinality(OnId(clauses, "in")) <= 1
      BY <1>3, <1>6
    <2> HIDE DEF e
    <2> QED
      BY <2>1, <2>2, OneMeaning
  <1>9. (\A i \in Equalities(clauses) : Holds(clauses[i], value))
          <=> \A field \in DOMAIN e.equal : value[field] = e.equal[field]
    <2>1. /\ DOMAIN e.equal = {clauses[i].field : i \in Equalities(clauses)}
          /\ \A i \in Equalities(clauses) :
               e.equal[clauses[i].field]
                 = clauses[CHOOSE j \in Equalities(clauses) :
                             clauses[j].field = clauses[i].field].values[1]
      BY DEF Extracted, EqualOf
    <2>2. \A i \in Equalities(clauses) :
            (CHOOSE j \in Equalities(clauses) : clauses[j].field = clauses[i].field) = i
      BY <1>1 DEF Groups
    <2>3. \A i \in Equalities(clauses) : e.equal[clauses[i].field] = clauses[i].values[1]
      BY <2>1, <2>2, Zenon
    <2>4. \A i \in Equalities(clauses) :
            Holds(clauses[i], value) <=> value[clauses[i].field] = clauses[i].values[1]
      <3> TAKE i \in Equalities(clauses)
      <3>1. clauses[i].operator = "=="
        BY DEF Equalities, With
      <3> QED
        BY <3>1, Zenon DEF Holds, Satisfies
    <2> HIDE DEF e
    <2>5. ASSUME \A i \in Equalities(clauses) : Holds(clauses[i], value),
                 NEW field \in DOMAIN e.equal
          PROVE  value[field] = e.equal[field]
      <3>1. PICK i \in Equalities(clauses) : field = clauses[i].field
        BY <2>1
      <3> QED
        BY <2>3, <2>4, <2>5, <3>1, Zenon
    <2>6. ASSUME \A field \in DOMAIN e.equal : value[field] = e.equal[field],
                 NEW i \in Equalities(clauses)
          PROVE  Holds(clauses[i], value)
      <3>1. clauses[i].field \in DOMAIN e.equal
        BY <2>1
      <3> QED
        BY <2>3, <2>4, <2>6, <3>1, Zenon
    <2> QED
      BY <2>5, <2>6, Zenon
  <1> QED
    BY <1>2, <1>3, <1>4, <1>5, <1>7, <1>8, <1>9 DEF MeetsExtracted
-----------------------------------------------------------------------------
(* Signed integers are encoded as words, in their order.                    *)
THEOREM SignedOrderKept ==
  \A a, b \in SignedIntegers :
    /\ encode_signed_integer(a) \in Words
    /\ a < b <=> encode_signed_integer(a) < encode_signed_integer(b)
  BY WordAssumption, SMT
     DEF SignedIntegers, Words, encode_signed_integer, FlipSignBit, TwosComplement

(* Unsigned integers keep their order on each side of the sign bit, and     *)
(* only there: all that have it come before all that do not.                *)
THEOREM UnsignedOrderInHalves ==
  \A a, b \in Words :
    /\ encode_unsigned_integer(a) \in Words
    /\ (a < HalfWord <=> b < HalfWord) =>
         (a < b <=> encode_unsigned_integer(a) < encode_unsigned_integer(b))
    /\ a < HalfWord /\ HalfWord <= b =>
         encode_unsigned_integer(b) < encode_unsigned_integer(a)
  BY WordAssumption, SMT DEF Words, encode_unsigned_integer, FlipSignBit

(* Floats keep their order, save a negative zero: its key is the lowest of  *)
(* all, below every negative number.                                        *)
THEOREM FloatOrderKept ==
  \A a, b \in Floats :
    /\ encode_float(a) \in Words
    /\ a # NegativeZero /\ b # NegativeZero =>
         (FloatValue(a) < FloatValue(b) <=> encode_float(a) < encode_float(b))
    /\ a # NegativeZero => encode_float(NegativeZero) < encode_float(a)
  BY WordAssumption, SMT
     DEF Words, Floats, encode_float, FloatValue, NegativeZero, FlipSignBit, FlipAllBits
-----------------------------------------------------------------------------
(* An order, as a set of pairs, in which of any two elements of a set one   *)
(* comes before the other.                                                  *)
TotalOn(S, order) ==
  /\ \A x, y \in S : x = y \/ <<x, y>> \in order \/ <<y, x>> \in order
  /\ \A x \in S : <<x, x>> \notin order
  /\ \A x, y, z \in S : <<x, y>> \in order /\ <<y, z>> \in order => <<x, z>> \in order

InOrderOf(s, order) == \A i, j \in DOMAIN s : i < j => <<s[i], s[j]>> \in order

(* A finite set can be put in such an order: what comes before an element,  *)
(* the element and what comes after it.                                     *)
LEMMA OrderExists ==
  ASSUME NEW S, IsFiniteSet(S), NEW order, TotalOn(S, order)
  PROVE  \E s \in [1 .. Cardinality(S) -> S] : InOrderOf(s, order)
  <1> DEFINE Good == {T \in SUBSET S : \E s \in [1 .. Cardinality(T) -> T] : InOrderOf(s, order)}
  <1>1. ASSUME NEW T \in SUBSET S, \A U \in SUBSET T : U # T => U \in Good
        PROVE  T \in Good
    <2>1. CASE T = {}
      <3>1. Cardinality(T) = 0
        BY <2>1, FS_EmptySet
      <3>2. <<>> \in [1 .. Cardinality(T) -> T] /\ InOrderOf(<<>>, order)
        BY <3>1 DEF InOrderOf
      <3> QED
        BY <3>2
    <2>2. CASE T # {}
      <3>1. PICK x \in T : TRUE
        BY <2>2
      <3> DEFINE A == {y \in T : <<y, x>> \in order}
                 B == {y \in T : <<x, y>> \in order}
                 m == Cardinality(A)
                 n == Cardinality(B)
      <3>2. /\ x \notin A /\ x \notin B /\ A \cap B = {} /\ T = (A \cup {x}) \cup B
        <4>1. x \notin A /\ x \notin B
          BY DEF TotalOn
        <4>2. A \cap B = {}
          BY DEF TotalOn
        <4>3. \A y \in T : y \in A \/ y = x \/ y \in B
          BY DEF TotalOn
        <4> QED
          BY <4>1, <4>2, <4>3
      <3>3. A \in Good /\ B \in Good
        <4>1. A # T /\ B # T
          BY <3>2
        <4> QED
          BY <1>1, <4>1
      <3>4. PICK s \in [1 .. m -> A] : InOrderOf(s, order)
        BY <3>3
      <3>5. PICK t \in [1 .. n -> B] : InOrderOf(t, order)
        BY <3>3
      <3>6. /\ m \in Nat /\ n \in Nat /\ Cardinality(T) = m + 1 + n
        <4>1. IsFiniteSet(A) /\ IsFiniteSet(B)
          BY FS_Subset
        <4>2. IsFiniteSet(A \cup {x}) /\ Cardinality(A \cup {x}) = m + 1
          BY <3>2, <4>1, FS_AddElement
        <4>3. (A \cup {x}) \cap B = {}
          BY <3>2
        <4>4. Cardinality((A \cup {x}) \cup B) = m + 1 + n - Cardinality((A \cup {x}) \cap B)
          BY <4>1, <4>2, FS_Union
        <4>5. m \in Nat /\ n \in Nat
          BY <4>1, FS_CardinalityType
        <4>6. Cardinality(T) = m + 1 + n - 0
          BY <3>2, <4>3, <4>4, FS_EmptySet
        <4> QED
          BY <4>5, <4>6
      <3> HIDE DEF m, n
      <3> DEFINE r == [i \in 1 .. m + 1 + n |->
                         IF i <= m THEN s[i] ELSE IF i = m + 1 THEN x ELSE t[i - (m + 1)]]
      <3>7. ASSUME NEW i \in 1 .. m + 1 + n
            PROVE  /\ i <= m => r[i] = s[i] /\ i \in 1 .. m /\ r[i] \in A
                   /\ i = m + 1 => r[i] = x
                   /\ i > m + 1 => r[i] = t[i - (m + 1)] /\ i - (m + 1) \in 1 .. n /\ r[i] \in B
        BY <3>6
      <3> HIDE DEF r
      <3>8. ASSUME NEW i \in 1 .. m + 1 + n, NEW j \in 1 .. m + 1 + n, i < j
            PROVE  <<r[i], r[j]>> \in order
        <4>1. CASE j <= m
          <5>0. i <= m
            BY <3>6, <3>8, <4>1
          <5>1. r[i] = s[i] /\ r[j] = s[j] /\ i \in 1 .. m /\ j \in 1 .. m
            BY <3>7, <4>1, <5>0
          <5> QED
            BY <3>4, <3>8, <5>1 DEF InOrderOf
        <4>2. CASE i > m + 1
          <5>0. j > m + 1 /\ i - (m + 1) < j - (m + 1)
            BY <3>6, <3>8, <4>2
          <5>1. /\ r[i] = t[i - (m + 1)] /\ r[j] = t[j - (m + 1)]
                /\ i - (m + 1) \in 1 .. n /\ j - (m + 1) \in 1 .. n
                /\ i - (m + 1) < j - (m + 1)
            BY <3>7, <4>2, <5>0
          <5> QED
            BY <3>5, <5>1 DEF InOrderOf
        <4>3. CASE i <= m /\ j = m + 1
          <5>1. r[i] \in A /\ r[j] = x
            BY <3>7, <4>3
          <5> QED
            BY <5>1
        <4>4. CASE i = m + 1 /\ j > m + 1
          <5>1. r[i] = x /\ r[j] \in B
            BY <3>7, <4>4
          <5> QED
            BY <5>1
        <4>5. CASE i <= m /\ j > m + 1
          <5>1. r[i] \in A /\ r[j] \in B
            BY <3>7, <4>5
          <5>2. <<r[i], x>> \in order /\ <<x, r[j]>> \in order /\ r[i] \in S /\ r[j] \in S /\ x \in S
            BY <5>1
          <5> QED
            BY <5>2 DEF TotalOn
        <4> QED
          BY <3>6, <3>8, <4>1, <4>2, <4>3, <4>4, <4>5
      <3>9. r \in [1 .. Cardinality(T) -> T]
        <4>1. ASSUME NEW i \in 1 .. m + 1 + n PROVE r[i] \in T
          <5>1. i <= m \/ i = m + 1 \/ i > m + 1
            BY <3>6
          <5> QED
            BY <3>1, <3>7, <5>1
        <4>2. r \in [1 .. m + 1 + n -> T]
          BY <4>1 DEF r
        <4> QED
          BY <3>6, <4>2
      <3>10. InOrderOf(r, order)
        <4>1. DOMAIN r = 1 .. m + 1 + n
          BY DEF r
        <4> QED
          BY <3>8, <4>1 DEF InOrderOf
      <3> QED
        BY <3>9, <3>10
    <2> QED
      BY <2>1, <2>2
  <1>2. S \in Good
    <2> HIDE DEF Good
    <2> QED
      BY <1>1, SubsetInduction
  <1> QED
    BY <1>2

(* The set in its order, each element once.                                 *)
LEMMA OrderedSet ==
  ASSUME NEW S, IsFiniteSet(S), NEW order, TotalOn(S, order)
  PROVE  LET s == InOrder(S, order)
         IN  /\ s \in [1 .. Cardinality(S) -> S] /\ Cardinality(S) \in Nat
             /\ \A i, j \in 1 .. Cardinality(S) : i < j => <<s[i], s[j]>> \in order
             /\ \A i, j \in 1 .. Cardinality(S) : s[i] = s[j] => i = j
             /\ \A x \in S : \E i \in 1 .. Cardinality(S) : s[i] = x
             /\ \A i, j \in 1 .. Cardinality(S) : <<s[i], s[j]>> \in order => i < j
  <1> DEFINE s == InOrder(S, order)
             n == Cardinality(S)
  <1>1. /\ s \in [1 .. n -> S]
        /\ \A i, j \in DOMAIN s : i < j => <<s[i], s[j]>> \in order
    <2>1. \E t \in [1 .. n -> S] : \A i, j \in DOMAIN t : i < j => <<t[i], t[j]>> \in order
      BY OrderExists DEF InOrderOf
    <2> QED
      BY <2>1, Zenon DEF InOrder
  <1>2. n \in Nat
    BY FS_CardinalityType
  <1> HIDE DEF s, n
  <1>3. \A i, j \in 1 .. n : i < j => <<s[i], s[j]>> \in order
    BY <1>1
  <1>4. ASSUME NEW i \in 1 .. n, NEW j \in 1 .. n, s[i] = s[j] PROVE i = j
    <2>1. s[i] \in S /\ <<s[i], s[j]>> \notin order /\ <<s[j], s[i]>> \notin order
      BY <1>1, <1>4 DEF TotalOn
    <2> QED
      BY <1>2, <1>3, <2>1
  <1>5. ASSUME NEW x \in S PROVE \E i \in 1 .. n : s[i] = x
    <2>1. s \in Injection(1 .. n, S)
      BY <1>1, <1>4 DEF Injection, IsInjective
    <2>2. Cardinality(1 .. n) = n
      BY <1>2, FS_Interval
    <2>3. s \in Surjection(1 .. n, S)
      BY <2>1, <2>2, FS_Injection DEF n
    <2> QED
      BY <2>3 DEF Surjection
  <1>6. ASSUME NEW i \in 1 .. n, NEW j \in 1 .. n, <<s[i], s[j]>> \in order PROVE i < j
    <2>1. s[i] \in S /\ s[j] \in S
      BY <1>1
    <2>2. i # j
      BY <1>6, <2>1 DEF TotalOn
    <2>3. ~(j < i)
      <3>1. ASSUME j < i PROVE FALSE
        <4>1. <<s[j], s[i]>> \in order
          BY <1>3, <3>1
        <4> QED
          BY <1>6, <2>1, <4>1 DEF TotalOn
      <3> QED
        BY <3>1
    <2> QED
      BY <1>2, <2>2, <2>3
  <1> QED
    BY <1>1, <1>2, <1>3, <1>4, <1>5, <1>6 DEF s, n

(* Words of keys, compared at the first place where they differ, each place *)
(* in a direction that the keys before it decide.                           *)
Lexicographic(S, M, key, ascending) ==
  {pq \in S \X S : \E k \in 1 .. M :
     /\ \A j \in 1 .. k - 1 : key[pq[1]][j] = key[pq[2]][j]
     /\ Before(key[pq[1]][k], key[pq[2]][k], ascending[pq[1]][k])}

SameUpTo(key, p, q, k) == \A j \in 1 .. k - 1 : key[p][j] = key[q][j]

LEMMA BeforeTotal ==
  \A k, l \in Keys : \A ascending \in BOOLEAN :
    /\ k = l \/ Before(k, l, ascending) \/ Before(l, k, ascending)
    /\ ~Before(k, k, ascending)
    /\ \A x \in Keys : Before(k, l, ascending) /\ Before(l, x, ascending) => Before(k, x, ascending)
  <1> TAKE k, l \in Keys
  <1> TAKE ascending \in BOOLEAN
  <1>1. /\ Rank[k] \in Nat /\ Rank[l] \in Nat /\ (k = l <=> Rank[k] = Rank[l])
        /\ \A x \in Keys : Rank[x] \in Nat
    BY KeysOrdered
  <1> QED
    BY <1>1 DEF Before, Less

LEMMA LexicographicTotal ==
  ASSUME NEW S, NEW M \in Nat,
         NEW key \in [S -> [1 .. M -> Keys]], NEW ascending \in [S -> [1 .. M -> BOOLEAN]],
         \A p, q \in S : (\A k \in 1 .. M : key[p][k] = key[q][k]) => p = q,
         \A p, q \in S, k \in 1 .. M : SameUpTo(key, p, q, k) => ascending[p][k] = ascending[q][k]
  PROVE  TotalOn(S, Lexicographic(S, M, key, ascending))
  <1> DEFINE order == Lexicographic(S, M, key, ascending)
             First(p, q, k) == /\ SameUpTo(key, p, q, k)
                               /\ Before(key[p][k], key[q][k], ascending[p][k])
  <1>1. \A p, q \in S : <<p, q>> \in order <=> \E k \in 1 .. M : First(p, q, k)
    BY DEF Lexicographic, SameUpTo
  <1>2. \A p \in S, k \in 1 .. M : key[p][k] \in Keys /\ ascending[p][k] \in BOOLEAN
    OBVIOUS
  <1> HIDE DEF order, First
  <1>3. ASSUME NEW p \in S, NEW q \in S, p # q PROVE <<p, q>> \in order \/ <<q, p>> \in order
    <2> DEFINE D == {k \in 1 .. M : key[p][k] # key[q][k]}
    <2> DEFINE k == Min(D)
    <2>1. \E m \in 1 .. M : key[p][m] # key[q][m]
      BY <1>3
    <2>2. D # {} /\ D \in SUBSET Nat
      <3> HIDE DEF k
      <3> QED
        BY <2>1
    <2>3. k \in D /\ \A j \in D : k <= j
      BY <2>2, LeastElement
    <2>4. k \in 1 .. M /\ key[p][k] # key[q][k]
      BY <2>3
    <2>5. ASSUME NEW j \in 1 .. k - 1 PROVE key[p][j] = key[q][j]
      <3>1. j \in 1 .. M /\ ~(k <= j)
        BY <2>4
      <3>2. j \notin D
        BY <2>3, <3>1
      <3> QED
        BY <3>1, <3>2
    <2> HIDE DEF k, D
    <2>6. SameUpTo(key, p, q, k) /\ SameUpTo(key, q, p, k)
      BY <2>5 DEF SameUpTo
    <2>7. ascending[p][k] = ascending[q][k]
      BY <2>4, <2>6
    <2>8. \/ Before(key[p][k], key[q][k], ascending[p][k])
          \/ Before(key[q][k], key[p][k], ascending[p][k])
      BY <1>2, <2>4, BeforeTotal
    <2>9. First(p, q, k) \/ First(q, p, k)
      BY <2>6, <2>7, <2>8 DEF First
    <2> QED
      BY <1>1, <2>4, <2>9
  <1>4. ASSUME NEW p \in S PROVE <<p, p>> \notin order
    <2>1. \A k \in 1 .. M : ~First(p, p, k)
      BY <1>2, BeforeTotal DEF First
    <2> QED
      BY <1>1, <2>1
  <1>5. ASSUME NEW p \in S, NEW q \in S, NEW r \in S, <<p, q>> \in order, <<q, r>> \in order
        PROVE  <<p, r>> \in order
    <2>1. PICK k \in 1 .. M : First(p, q, k)
      BY <1>1, <1>5
    <2>2. PICK l \in 1 .. M : First(q, r, l)
      BY <1>1, <1>5
    <2>3. CASE k < l
      <3>1. k \in 1 .. l - 1
        BY <2>3
      <3>2. key[q][k] = key[r][k]
        BY <2>2, <3>1 DEF First, SameUpTo
      <3>3. SameUpTo(key, p, r, k)
        <4>1. \A j \in 1 .. k - 1 : j \in 1 .. l - 1
          BY <2>3
        <4> QED
          BY <2>1, <2>2, <4>1 DEF First, SameUpTo
      <3>4. First(p, r, k)
        BY <2>1, <3>2, <3>3 DEF First
      <3> QED
        BY <1>1, <3>4
    <2>4. CASE l < k
      <3>1. l \in 1 .. k - 1
        BY <2>4
      <3>2. key[p][l] = key[q][l]
        BY <2>1, <3>1 DEF First, SameUpTo
      <3>3. \A j \in 1 .. l - 1 : j \in 1 .. k - 1
        BY <2>4
      <3>4. SameUpTo(key, p, r, l) /\ SameUpTo(key, p, q, l)
        BY <2>1, <2>2, <3>3 DEF First, SameUpTo
      <3>5. ascending[p][l] = ascending[q][l]
        BY <3>4
      <3>6. First(p, r, l)
        BY <2>2, <3>2, <3>4, <3>5 DEF First
      <3> QED
        BY <1>1, <3>6
    <2>5. CASE k = l
      <3>1. SameUpTo(key, p, r, k) /\ SameUpTo(key, p, q, k)
        BY <2>1, <2>2, <2>5 DEF First, SameUpTo
      <3>2. ascending[p][k] = ascending[q][k]
        BY <3>1
      <3>3. /\ Before(key[p][k], key[q][k], ascending[p][k])
            /\ Before(key[q][k], key[r][k], ascending[p][k])
        BY <2>1, <2>2, <2>5, <3>2 DEF First
      <3>4. Before(key[p][k], key[r][k], ascending[p][k])
        BY <1>2, <3>3, BeforeTotal
      <3>5. First(p, r, k)
        BY <3>1, <3>4 DEF First
      <3> QED
        BY <1>1, <3>5
    <2> QED
      BY <2>3, <2>4, <2>5
  <1> QED
    BY <1>3, <1>4, <1>5 DEF TotalOn, order

(* Keys in their order, forwards or backwards.                              *)
LEMMA SortedKeys ==
  ASSUME NEW keys \in SUBSET Keys, IsFiniteSet(keys), NEW ascending \in BOOLEAN
  PROVE  LET s == Sorted(keys, ascending)
             n == Cardinality(keys)
         IN  /\ s \in [1 .. n -> keys] /\ n \in Nat
             /\ \A i, j \in 1 .. n : i < j <=> Before(s[i], s[j], ascending)
             /\ \A i, j \in 1 .. n : s[i] = s[j] => i = j
             /\ \A k \in keys : \E i \in 1 .. n : s[i] = k
  <1> DEFINE order == {kl \in keys \X keys : Before(kl[1], kl[2], ascending)}
             s == Sorted(keys, ascending)
             n == Cardinality(keys)
  <1>1. \A k, l \in keys : <<k, l>> \in order <=> Before(k, l, ascending)
    OBVIOUS
  <1>2. s = InOrder(keys, order)
    BY DEF Sorted
  <1> HIDE DEF order
  <1>3. TotalOn(keys, order)
    BY <1>1, BeforeTotal DEF TotalOn
  <1>4. /\ s \in [1 .. n -> keys] /\ n \in Nat
        /\ \A i, j \in 1 .. n : i < j => <<s[i], s[j]>> \in order
        /\ \A i, j \in 1 .. n : s[i] = s[j] => i = j
        /\ \A k \in keys : \E i \in 1 .. n : s[i] = k
        /\ \A i, j \in 1 .. n : <<s[i], s[j]>> \in order => i < j
    BY <1>2, <1>3, OrderedSet
  <1>5. \A i, j \in 1 .. n : s[i] \in keys /\ s[j] \in keys
    BY <1>4
  <1> HIDE DEF s, n
  <1>6. \A i, j \in 1 .. n : i < j <=> Before(s[i], s[j], ascending)
    BY <1>1, <1>4, <1>5
  <1> QED
    BY <1>4, <1>6 DEF s, n
-----------------------------------------------------------------------------
(* Clients do not write: every behaviour of the queries is one of the store, *)
(* and what is proved of the store is true while clients page.               *)
THEOREM QueriesKeepStore == QuerySpec => Spec
  <1>1. QueryInit => Init
    BY DEF QueryInit
  <1>2. [QueryNext]_queryVars => [Next]_storeVars
    <2> SUFFICES ASSUME [QueryNext]_queryVars PROVE [Next]_storeVars
      OBVIOUS
    <2>1. CASE WriteDocuments
      BY <2>1 DEF WriteDocuments
    <2>2. CASE \E r \in Conversations : Open(r)
      BY <2>2 DEF Open
    <2>3. CASE NextPage
      BY <2>3 DEF NextPage
    <2>4. CASE Close
      BY <2>4 DEF Close
    <2>5. CASE UNCHANGED queryVars
      BY <2>5 DEF queryVars
    <2> QED
      BY <2>1, <2>2, <2>3, <2>4, <2>5 DEF QueryNext
  <1> QED
    BY <1>1, <1>2, PTL DEF QuerySpec, Spec

THEOREM QueriesStoreInvariant ==
  ASSUME DistinctIndices, NoUniqueNulls, AddsOnce
  PROVE  QuerySpec => []StoreInv
  BY QueriesKeepStore, StoreInvariant, PTL
-----------------------------------------------------------------------------
(* What the CBOR decoder and the SQL parser hand on: clauses on properties   *)
(* or the id, with one value where the operator has one, and for a prefix    *)
(* one that has a successor.                                                 *)
AnyField == Properties \cup {IdField}
RequestClauses ==
  {c \in [field : AnyField, operator : Operators, values : Seq(Keys), mirrored : BOOLEAN] :
     /\ c.operator \in {"=="} \cup SimpleRanges \cup {"startsWith"} => Len(c.values) = 1
     /\ c.operator = "startsWith" => c.values[1] \in DOMAIN Successor}
WellFormed ==
  [sql : BOOLEAN, clauses : Seq(RequestClauses),
   order : Seq([field : AnyField, ascending : BOOLEAN \cup {Missing}]), limit : Nat,
   start : Ids \cup {Missing}, included : BOOLEAN, time : Times \cup {Missing}]

(* A clause as it was written, of the keys of a document.                    *)
Says(c, value) ==
  IF c.mirrored THEN Satisfies(c.values[1], c.operator, <<value[c.field]>>)
                ELSE Satisfies(value[c.field], c.operator, c.values)
KeysOfDocument == [AnyField -> Keys]

ParsedClauses == {c \in RequestClauses : ~c.mirrored}

(* A clause that is turned round says the same.                              *)
LEMMA OperationMeaning ==
  ASSUME NEW c \in RequestClauses, FromOperation(c) # Missing
  PROVE  /\ FromOperation(c) \in ParsedClauses
         /\ \A value \in KeysOfDocument : Says(c, value) <=> Holds(FromOperation(c), value)
  <1>1. /\ c \in [field : AnyField, operator : Operators, values : Seq(Keys), mirrored : BOOLEAN]
        /\ c.operator \in {"=="} \cup SimpleRanges \cup {"startsWith"} => Len(c.values) = 1
    BY DEF RequestClauses
  <1>2. CASE ~c.mirrored
    <2>1. FromOperation(c) = c
      BY <1>2 DEF FromOperation
    <2> QED
      BY <1>2, <2>1 DEF ParsedClauses, Says, Holds
  <1>3. CASE c.mirrored
    <2> DEFINE o == c.operator
               f == [c EXCEPT !.operator = Flip(@), !.mirrored = FALSE]
    <2>1. AllowsFlip(o) /\ FromOperation(c) = f
      BY <1>3 DEF FromOperation
    <2>2. o \in {"=="} \cup SimpleRanges /\ Len(c.values) = 1
      BY <1>1, <2>1 DEF AllowsFlip
    <2>3. Flip(o) \in {"=="} \cup SimpleRanges /\ Flip(o) # "startsWith"
      <3>1. o \in {"==", ">", ">=", "<", "<="}
        BY <2>2 DEF SimpleRanges, LowerBounds, UpperBounds
      <3>2. Flip("==") = "==" /\ Flip(">") = "<" /\ Flip(">=") = "<="
            /\ Flip("<") = ">" /\ Flip("<=") = ">="
        BY DEF Flip
      <3> QED
        BY <3>1, <3>2 DEF SimpleRanges, LowerBounds, UpperBounds
    <2>4. /\ f.operator = Flip(o) /\ f.mirrored = FALSE /\ f.values = c.values /\ f.field = c.field
          /\ f \in [field : AnyField, operator : Operators, values : Seq(Keys), mirrored : BOOLEAN]
      BY <1>1, <2>3 DEF Operators
    <2>5. f \in ParsedClauses
      BY <2>2, <2>3, <2>4 DEF ParsedClauses, RequestClauses
    <2>6. c.values[1] \in Keys /\ c.values = <<c.values[1]>>
      <3>1. c.values \in Seq(Keys)
        BY <1>1
      <3> QED
        BY <2>2, <3>1
    <2>7. ASSUME NEW value \in KeysOfDocument PROVE Says(c, value) <=> Holds(f, value)
      <3>1. value[c.field] \in Keys /\ o \in Operators
        BY <1>1 DEF KeysOfDocument
      <3>2. Says(c, value) <=> Satisfies(c.values[1], o, <<value[c.field]>>)
        BY <1>3 DEF Says
      <3>3. Says(c, value) <=> Satisfies(value[c.field], Flip(o), <<c.values[1]>>)
        BY <2>1, <2>6, <3>1, <3>2, FlipKeepsMeaning
      <3> HIDE DEF f
      <3> QED
        BY <2>4, <2>6, <3>3 DEF Holds
    <2> QED
      BY <2>1, <2>5, <2>7
  <1> QED
    BY <1>1, <1>2, <1>3

LEMMA ComponentsMeaning ==
  ASSUME NEW c \in RequestClauses, FromComponents(c) # Missing
  PROVE  /\ FromComponents(c) \in ParsedClauses
         /\ \A value \in KeysOfDocument : Says(c, value) <=> Holds(FromComponents(c), value)
  <1>1. ~c.mirrored /\ FromComponents(c) = c
    BY DEF FromComponents
  <1> QED
    BY <1>1 DEF ParsedClauses, Says, Holds

(* What a request is parsed from, and what is kept of it.                    *)
ParsedFrom(r) == [i \in DOMAIN r.clauses |->
                 IF r.sql THEN FromOperation(r.clauses[i]) ELSE FromComponents(r.clauses[i])]

LEMMA ParsedIs ==
  ASSUME NEW r \in WellFormed, Parsed(r) # Missing
  PROVE  /\ Extractable(ParsedFrom(r)) /\ \A i \in DOMAIN r.clauses : ParsedFrom(r)[i] # Missing
         /\ Parsed(r).clauses = Extracted(ParsedFrom(r))
         /\ Parsed(r).limit = r.limit /\ Parsed(r).included = r.included
         /\ Parsed(r).start = IF r.sql THEN Missing ELSE r.start
         /\ Parsed(r).time = IF r.sql THEN Missing ELSE r.time
         /\ ~r.sql => r.limit \in 1 .. MaxQueryLimit
  <1> DEFINE s == [r EXCEPT !.start = Missing, !.time = Missing]
             b == [r EXCEPT !.order = OrderBy(r.order)]
  <1>1. r \in WellFormed /\ r.sql \in BOOLEAN
    BY DEF WellFormed
  <1>2. CASE r.sql
    <2> DEFINE written == [i \in DOMAIN r.clauses |-> FromOperation(r.clauses[i])]
    <2>1. Parsed(r) = WithClauses(s, written)
      BY <1>2 DEF Parsed, FromSqlExpr
    <2>2. written = ParsedFrom(r)
      BY <1>2 DEF ParsedFrom
    <2>3. /\ s.limit = r.limit /\ s.included = r.included /\ s.start = Missing /\ s.time = Missing
          /\ \A e : LET t == [s EXCEPT !.clauses = e]
                    IN  /\ t.clauses = e /\ t.limit = s.limit /\ t.included = s.included
                        /\ t.start = s.start /\ t.time = s.time
      BY <1>1 DEF WellFormed
    <2> HIDE DEF s, written
    <2>4. /\ \A i \in DOMAIN written : written[i] # Missing
          /\ Extractable(written) /\ Parsed(r) = [s EXCEPT !.clauses = Extracted(written)]
      BY <2>1 DEF WithClauses
    <2>5. DOMAIN written = DOMAIN r.clauses
      BY DEF written
    <2>6. /\ Parsed(r).clauses = Extracted(written) /\ Parsed(r).limit = s.limit
          /\ Parsed(r).included = s.included /\ Parsed(r).start = s.start /\ Parsed(r).time = s.time
      BY <2>3, <2>4
    <2> QED
      BY <1>2, <2>2, <2>3, <2>4, <2>5, <2>6
  <1>3. CASE ~r.sql
    <2> DEFINE written == [i \in DOMAIN r.clauses |-> FromComponents(r.clauses[i])]
    <2>1. Parsed(r) = WithClauses(b, written) /\ r.limit \in 1 .. MaxQueryLimit
      BY <1>3 DEF Parsed, FromCbor
    <2>2. written = ParsedFrom(r)
      BY <1>3 DEF ParsedFrom
    <2>3. /\ b.limit = r.limit /\ b.included = r.included /\ b.start = r.start /\ b.time = r.time
          /\ \A e : LET t == [b EXCEPT !.clauses = e]
                    IN  /\ t.clauses = e /\ t.limit = b.limit /\ t.included = b.included
                        /\ t.start = b.start /\ t.time = b.time
      BY <1>1 DEF WellFormed
    <2> HIDE DEF b, written
    <2>4. /\ \A i \in DOMAIN written : written[i] # Missing
          /\ Extractable(written) /\ Parsed(r) = [b EXCEPT !.clauses = Extracted(written)]
      BY <2>1 DEF WithClauses
    <2>5. DOMAIN written = DOMAIN r.clauses
      BY DEF written
    <2>6. /\ Parsed(r).clauses = Extracted(written) /\ Parsed(r).limit = b.limit
          /\ Parsed(r).included = b.included /\ Parsed(r).start = b.start /\ Parsed(r).time = b.time
      BY <2>3, <2>4
    <2> QED
      BY <1>3, <2>1, <2>2, <2>3, <2>4, <2>5, <2>6
  <1> QED
    BY <1>1, <1>2, <1>3

LEMMA WrittenMeaning ==
  ASSUME NEW r \in WellFormed, \A i \in DOMAIN r.clauses : ParsedFrom(r)[i] # Missing
  PROVE  /\ ParsedFrom(r) \in Seq(ParsedClauses) /\ Len(ParsedFrom(r)) = Len(r.clauses)
         /\ \A value \in KeysOfDocument :
              (\A i \in DOMAIN r.clauses : Says(r.clauses[i], value))
                <=> \A i \in DOMAIN ParsedFrom(r) : Holds(ParsedFrom(r)[i], value)
  <1> DEFINE w == ParsedFrom(r)
             n == Len(r.clauses)
  <1>1. /\ r.clauses \in Seq(RequestClauses) /\ n \in Nat /\ DOMAIN r.clauses = 1 .. n
        /\ \A i \in 1 .. n : r.clauses[i] \in RequestClauses
    <2>1. r.clauses \in Seq(RequestClauses)
      BY DEF WellFormed
    <2> QED
      BY <2>1, LenProperties, ElementOfSeq
  <1>2. \A i \in 1 .. n : w[i] = IF r.sql THEN FromOperation(r.clauses[i])
                                          ELSE FromComponents(r.clauses[i])
    BY <1>1 DEF ParsedFrom
  <1>3. DOMAIN w = 1 .. n
    BY <1>1 DEF ParsedFrom
  <1> HIDE DEF n
  <1>4. ASSUME NEW i \in 1 .. n
        PROVE  /\ w[i] \in ParsedClauses
               /\ \A value \in KeysOfDocument : Says(r.clauses[i], value) <=> Holds(w[i], value)
    <2>1. r.clauses[i] \in RequestClauses /\ w[i] # Missing
      BY <1>1
    <2> HIDE DEF w
    <2> QED
      BY <1>2, <2>1, OperationMeaning, ComponentsMeaning
  <1>5. w = [i \in 1 .. n |-> w[i]]
    BY <1>1 DEF ParsedFrom
  <1>6. w \in Seq(ParsedClauses) /\ Len(w) = n
    <2>1. w \in [1 .. n -> ParsedClauses]
      <3> HIDE DEF w
      <3> QED
        BY <1>4, <1>5
    <2> HIDE DEF w
    <2> QED
      BY <1>1, <2>1
  <1> HIDE DEF w
  <1> QED
    BY <1>1, <1>3, <1>4, <1>6 DEF w, n

RangeOperators == SimpleRanges \cup ClosedRanges

(* The clauses of a parsed request: one on the id, or equalities, an In and  *)
(* a range, each on a field of its own.                                      *)
OnClause(c, operators, fields) ==
  c = Missing \/ (c \in ParsedClauses /\ c.operator \in operators /\ c.field \in fields)

Sound(e) ==
  /\ OnClause(e.idEqual, {"=="}, {IdField}) /\ OnClause(e.idIn, {"in"}, {IdField})
  /\ OnClause(e.in, {"in"}, Properties) /\ OnClause(e.range, RangeOperators, AnyField)
  /\ DOMAIN e.equal \in SUBSET Properties /\ IsFiniteSet(DOMAIN e.equal)
  /\ \A f \in DOMAIN e.equal : e.equal[f] \in Keys
  /\ e.in # Missing => e.in.field \notin DOMAIN e.equal
  /\ e.range # Missing => e.range.field \notin DOMAIN e.equal
  /\ e.in # Missing /\ e.range # Missing => e.in.field # e.range.field
  /\ e.idEqual # Missing \/ e.idIn # Missing =>
       e.in = Missing /\ e.range = Missing /\ DOMAIN e.equal = {}
  /\ e.idEqual = Missing \/ e.idIn = Missing

LEMMA NoneIsNotOne ==
  ASSUME NEW S, S = {}
  PROVE  Cardinality(S) = 0 /\ Cardinality(S) # 1
  BY FS_EmptySet

LEMMA OperatorKinds ==
  /\ "==" \notin RangeOperators /\ "in" \notin RangeOperators /\ "==" # "in"
  /\ RangeOperators \in SUBSET Operators
  /\ LowerBounds \in SUBSET RangeOperators /\ UpperBounds \in SUBSET RangeOperators
  /\ SimpleRanges \in SUBSET RangeOperators /\ Betweens \in SUBSET RangeOperators
  /\ \A o \in Betweens : o \notin {"=="} \cup SimpleRanges \cup {"startsWith"}
  /\ \A o \in RangeOperators : IsRange(o)
  BY DEF RangeOperators, SimpleRanges, ClosedRanges, Betweens, LowerBounds, UpperBounds, Operators,
         IsRange

LEMMA ParsedClauseType ==
  ASSUME NEW c \in ParsedClauses
  PROVE  /\ c.field \in AnyField /\ c.operator \in Operators /\ c.values \in Seq(Keys)
         /\ c.operator \in {"=="} \cup SimpleRanges \cup {"startsWith"} =>
              Len(c.values) = 1 /\ c.values[1] \in Keys
         /\ c.operator = "startsWith" => c.values[1] \in DOMAIN Successor
  <1>1. /\ c \in [field : AnyField, operator : Operators, values : Seq(Keys), mirrored : BOOLEAN]
        /\ c.operator \in {"=="} \cup SimpleRanges \cup {"startsWith"} => Len(c.values) = 1
        /\ c.operator = "startsWith" => c.values[1] \in DOMAIN Successor
    BY DEF ParsedClauses, RequestClauses
  <1>2. c.field \in AnyField /\ c.operator \in Operators /\ c.values \in Seq(Keys)
    BY <1>1
  <1>3. Len(c.values) = 1 => c.values[1] \in Keys
    BY <1>2, ElementOfSeq
  <1> QED
    BY <1>1, <1>2, <1>3

(* Of a list at most one of which has an operator.                           *)
LEMMA OneOf ==
  ASSUME NEW w \in Seq(ParsedClauses), NEW indices \in SUBSET DOMAIN w,
         NEW operators, NEW fields,
         \A i \in indices : w[i].operator \in operators /\ w[i].field \in fields,
         Cardinality(indices) <= 1
  PROVE  LET c == IF indices = {} THEN Missing ELSE Only(w, indices)
         IN  /\ OnClause(c, operators, fields)
             /\ c # Missing => \E i \in indices : c = w[i]
  <1> DEFINE c == IF indices = {} THEN Missing ELSE Only(w, indices)
  <1>1. CASE indices = {}
    BY <1>1 DEF OnClause
  <1>2. CASE indices # {}
    <2>1. PICK i \in indices : TRUE
      BY <1>2
    <2>2. c = w[i]
      BY <1>2, OnlyClause
    <2>3. w[i] \in ParsedClauses
      BY LenProperties, ElementOfSeq
    <2> HIDE DEF c
    <2>4. OnClause(c, operators, fields) /\ \E j \in indices : c = w[j]
      BY <2>1, <2>2, <2>3 DEF OnClause
    <2> QED
      BY <2>4 DEF c
  <1> QED
    BY <1>1, <1>2

LEMMA RangeSound ==
  ASSUME NEW w \in Seq(ParsedClauses), RangeFits(w), RangeOf(w) # Missing
  PROVE  /\ OnClause(RangeOf(w), RangeOperators, AnyField)
         /\ RangeOf(w).field \notin KnownFields(w)
  <1> DEFINE ranges == With(w, SimpleRanges \cup ClosedRanges)
             lowers == With(w, LowerBounds)
             uppers == With(w, UpperBounds)
  <1>1. /\ ranges \in SUBSET DOMAIN w /\ lowers \in SUBSET DOMAIN w /\ uppers \in SUBSET DOMAIN w
        /\ \A i \in ranges : w[i].operator \in RangeOperators
        /\ lowers \in SUBSET ranges
        /\ \A i \in lowers : w[i].operator \in LowerBounds
        /\ \A i \in uppers : w[i].operator \in UpperBounds
    BY OperatorKinds DEF With, RangeOperators
  <1>2. \A i \in DOMAIN w : w[i] \in ParsedClauses /\ w[i].field \in AnyField
    BY LenProperties, ElementOfSeq, ParsedClauseType
  <1>3. \A i \in ranges : w[i].field \notin KnownFields(w)
    BY DEF RangeFits
  <1>4. CASE Cardinality(ranges) <= 1
    <2>1. IsFiniteSet(ranges) /\ Cardinality(ranges) \in Nat
      BY <1>1, SomeIndices, FS_CardinalityType
    <2>2. ranges # {}
      <3>1. ASSUME ranges = {} PROVE FALSE
        <4>1. Cardinality(ranges) # 1
          BY <3>1, NoneIsNotOne
        <4>2. RangeOf(w) = Missing
          BY <3>1, <4>1, Zenon DEF RangeOf
        <4> QED
          BY <4>2
      <3> QED
        BY <3>1
    <2>3. Cardinality(ranges) = 1
      <3> HIDE DEF ranges
      <3>1. Cardinality(ranges) # 0
        BY <2>1, <2>2, FS_EmptySet
      <3> QED
        BY <1>4, <2>1, <3>1
    <2>4. RangeOf(w) = Only(w, ranges)
      BY <2>2, <2>3, Zenon DEF RangeOf
    <2> DEFINE c == IF ranges = {} THEN Missing ELSE Only(w, ranges)
    <2>5. /\ OnClause(c, RangeOperators, AnyField)
          /\ c # Missing => \E i \in ranges : c = w[i]
      <3> HIDE DEF ranges
      <3> QED
        BY <1>1, <1>2, <1>4, OneOf
    <2>6. c = RangeOf(w)
      BY <2>2, <2>4
    <2> QED
      BY <1>3, <2>5, <2>6
  <1>5. CASE ~(Cardinality(ranges) <= 1)
    <2>1. Joinable(w) /\ Cardinality(ranges) = 2
      BY <1>5 DEF RangeFits
    <2>2. RangeOf(w) = JoinedRange(w)
      <3>1. ranges # {} /\ Cardinality(ranges) # 1
        BY <2>1, FS_EmptySet
      <3> QED
        BY <3>1, Zenon DEF RangeOf
    <2> DEFINE lower == Only(w, lowers)
               upper == Only(w, uppers)
               c == JoinedRange(w)
    <2>3. /\ Cardinality(lowers) = 1 /\ Cardinality(uppers) = 1
      BY <2>1 DEF Joinable
    <2>4. lowers # {} /\ uppers # {}
      <3> HIDE DEF lowers, uppers
      <3>1. Cardinality({}) = 0 /\ 0 # 1
        BY FS_EmptySet
      <3> QED
        BY <2>3, <3>1
    <2>5. PICK i \in lowers, j \in uppers : lower = w[i] /\ upper = w[j]
      <3>1. PICK i \in lowers : lower = w[i]
        BY <1>1, <2>3, <2>4, OnlyClause
      <3>2. PICK j \in uppers : upper = w[j]
        BY <1>1, <2>3, <2>4, OnlyClause
      <3> QED
        BY <3>1, <3>2
    <2>6. /\ lower \in ParsedClauses /\ upper \in ParsedClauses
          /\ lower.operator \in LowerBounds /\ upper.operator \in UpperBounds
          /\ lower.field \in AnyField /\ lower.field \notin KnownFields(w)
      BY <1>1, <1>2, <1>3, <2>5
    <2>7. c = [field |-> lower.field, operator |-> Joined(lower, upper),
               values |-> <<lower.values[1], upper.values[1]>>, mirrored |-> FALSE]
      BY DEF JoinedRange
    <2> HIDE DEF lower, upper, c
    <2>8. Joined(lower, upper) \in Betweens
      <3>1. /\ lower.operator = ">=" \/ lower.operator = ">"
            /\ upper.operator = "<=" \/ upper.operator = "<"
        BY <2>6 DEF LowerBounds, UpperBounds
      <3> QED
        BY <3>1 DEF Joined, Betweens
    <2>9. lower.values[1] \in Keys /\ upper.values[1] \in Keys
      BY <2>6, ParsedClauseType DEF SimpleRanges
    <2>10. c \in ParsedClauses
      <3>1. c \in [field : AnyField, operator : Operators, values : Seq(Keys), mirrored : BOOLEAN]
        BY <2>6, <2>7, <2>8, <2>9, OperatorKinds
      <3>2. c.operator \notin {"=="} \cup SimpleRanges \cup {"startsWith"} /\ ~c.mirrored
        BY <2>7, <2>8, OperatorKinds
      <3> QED
        BY <3>1, <3>2 DEF ParsedClauses, RequestClauses
    <2>11. c.operator \in RangeOperators /\ c.field = lower.field
      BY <2>7, <2>8, OperatorKinds
    <2>12. OnClause(c, RangeOperators, AnyField) /\ c.field \notin KnownFields(w)
      BY <2>6, <2>10, <2>11 DEF OnClause
    <2> QED
      BY <2>2, <2>12 DEF c
  <1> QED
    BY <1>4, <1>5

LEMMA ExtractedSound ==
  ASSUME NEW w \in Seq(ParsedClauses), Extractable(w)
  PROVE  Sound(Extracted(w))
  <1> DEFINE e == Extracted(w)
             eq == Equalities(w)
             ins == Ins(w)
             idEq == OnId(w, "==")
             idIn == OnId(w, "in")
  <1>1. /\ e.idEqual = IF idEq = {} THEN Missing ELSE Only(w, idEq)
        /\ e.idIn = IF idIn = {} THEN Missing ELSE Only(w, idIn)
        /\ e.in = IF ins = {} THEN Missing ELSE Only(w, ins)
        /\ e.range = RangeOf(w) /\ e.equal = EqualOf(w)
    BY DEF Extracted, InOf
  <1>2. /\ Groups(w) /\ Cardinality(idEq \cup idIn) <= 1
        /\ idEq \cup idIn # {} => idEq \cup idIn = DOMAIN w
    BY DEF Extractable
  <1>3. /\ \A i, j \in eq : w[i].field = w[j].field => i = j
        /\ Cardinality(ins) <= 1 /\ RangeFits(w)
        /\ \A i \in ins, j \in eq : w[i].field # w[j].field
    BY <1>2 DEF Groups
  <1>4. /\ \A i \in eq : i \in DOMAIN w /\ w[i].operator = "==" /\ w[i].field # IdField
        /\ \A i \in ins : i \in DOMAIN w /\ w[i].operator = "in" /\ w[i].field # IdField
        /\ \A i \in idEq : i \in DOMAIN w /\ w[i].operator = "==" /\ w[i].field = IdField
        /\ \A i \in idIn : i \in DOMAIN w /\ w[i].operator = "in" /\ w[i].field = IdField
    BY DEF Equalities, Ins, OnId, With
  <1>5. \A i \in DOMAIN w : w[i] \in ParsedClauses /\ w[i].field \in AnyField
    BY LenProperties, ElementOfSeq, ParsedClauseType
  <1>6. KnownFields(w) = {w[i].field : i \in eq \cup ins}
    BY DEF KnownFields
  <1>7. e.equal = [f \in {w[i].field : i \in eq} |->
                     w[CHOOSE i \in eq : w[i].field = f].values[1]]
    BY <1>1 DEF EqualOf
  <1> HIDE DEF e, eq, ins, idEq, idIn
  <1>8. /\ eq \in SUBSET DOMAIN w /\ ins \in SUBSET DOMAIN w
        /\ idEq \in SUBSET DOMAIN w /\ idIn \in SUBSET DOMAIN w
    BY <1>4
  <1>9. Cardinality(idEq) <= 1 /\ Cardinality(idIn) <= 1
    <2>1. IsFiniteSet(idEq \cup idIn)
      BY <1>8, SomeIndices
    <2>2. /\ idEq \in SUBSET (idEq \cup idIn) /\ idIn \in SUBSET (idEq \cup idIn)
      OBVIOUS
    <2>3. /\ Cardinality(idEq) <= Cardinality(idEq \cup idIn) /\ IsFiniteSet(idEq)
          /\ Cardinality(idIn) <= Cardinality(idEq \cup idIn) /\ IsFiniteSet(idIn)
      BY <2>1, <2>2, FS_Subset
    <2>4. Cardinality(idEq) \in Nat /\ Cardinality(idIn) \in Nat /\ Cardinality(idEq \cup idIn) \in Nat
      BY <2>1, <2>3, FS_CardinalityType
    <2> QED
      BY <1>2, <2>3, <2>4
  <1>10. OnClause(e.idEqual, {"=="}, {IdField}) /\ OnClause(e.idIn, {"in"}, {IdField})
    <2>1. OnClause(IF idEq = {} THEN Missing ELSE Only(w, idEq), {"=="}, {IdField})
      BY <1>4, <1>8, <1>9, OneOf
    <2>2. OnClause(IF idIn = {} THEN Missing ELSE Only(w, idIn), {"in"}, {IdField})
      BY <1>4, <1>8, <1>9, OneOf
    <2> QED
      BY <1>1, <2>1, <2>2
  <1>11. /\ OnClause(e.in, {"in"}, Properties)
         /\ e.in # Missing => \E i \in ins : e.in = w[i]
    <2>1. \A i \in ins : w[i].operator \in {"in"} /\ w[i].field \in Properties
      BY <1>4, <1>5 DEF AnyField
    <2>2. LET c == IF ins = {} THEN Missing ELSE Only(w, ins)
          IN  /\ OnClause(c, {"in"}, Properties)
              /\ c # Missing => \E i \in ins : c = w[i]
      BY <1>3, <1>8, <2>1, OneOf
    <2> QED
      BY <1>1, <2>2
  <1>12. /\ OnClause(e.range, RangeOperators, AnyField)
         /\ e.range # Missing => e.range.field \notin KnownFields(w)
    BY <1>1, <1>3, RangeSound DEF OnClause
  <1>13. /\ DOMAIN e.equal = {w[i].field : i \in eq} /\ DOMAIN e.equal \in SUBSET Properties
         /\ \A f \in DOMAIN e.equal : e.equal[f] \in Keys
    <2>1. DOMAIN e.equal = {w[i].field : i \in eq}
      BY <1>7
    <2>2. \A i \in eq : w[i].field \in Properties
      BY <1>4, <1>5 DEF AnyField
    <2>3. ASSUME NEW f \in DOMAIN e.equal PROVE e.equal[f] \in Keys
      <3> DEFINE i == CHOOSE j \in eq : w[j].field = f
      <3>1. i \in eq
        BY <2>1
      <3>2. e.equal[f] = w[i].values[1]
        BY <1>7, <2>1
      <3> HIDE DEF i
      <3>3. w[i] \in ParsedClauses /\ w[i].operator = "=="
        BY <1>4, <1>5, <3>1
      <3> QED
        BY <3>2, <3>3, ParsedClauseType
    <2> QED
      BY <2>1, <2>2, <2>3
  <1>14. IsFiniteSet(DOMAIN e.equal)
    <2> DEFINE g == [i \in eq |-> w[i].field]
    <2>1. g \in Surjection(eq, DOMAIN e.equal)
      BY <1>13 DEF Surjection
    <2>2. IsFiniteSet(eq)
      BY <1>8, SomeIndices
    <2> HIDE DEF g
    <2> QED
      BY <2>1, <2>2, FS_Surjection
  <1>15. /\ e.in # Missing => e.in.field \notin DOMAIN e.equal
         /\ e.range # Missing => e.range.field \notin DOMAIN e.equal
         /\ e.in # Missing /\ e.range # Missing => e.in.field # e.range.field
    BY <1>3, <1>6, <1>11, <1>12, <1>13
  <1>16. ASSUME e.idEqual # Missing \/ e.idIn # Missing
         PROVE  /\ e.in = Missing /\ e.range = Missing /\ DOMAIN e.equal = {}
    <2>1. idEq \cup idIn = DOMAIN w
      BY <1>1, <1>2, <1>16
    <2>2. \A i \in DOMAIN w : w[i].field = IdField /\ w[i].operator \in {"==", "in"}
      BY <1>4, <2>1
    <2>3. eq = {} /\ ins = {}
      BY <1>4, <2>2
    <2>4. With(w, SimpleRanges \cup ClosedRanges) = {}
      BY <2>2, OperatorKinds DEF With, RangeOperators
    <2>5. RangeOf(w) = Missing
      <3>1. Cardinality(With(w, SimpleRanges \cup ClosedRanges)) # 1
        BY <2>4, NoneIsNotOne
      <3> QED
        BY <2>4, <3>1, Zenon DEF RangeOf
    <2> QED
      BY <1>1, <1>13, <2>3, <2>5
  <1>17. e.idEqual = Missing \/ e.idIn = Missing
    <2>1. SUFFICES ASSUME e.idEqual # Missing, e.idIn # Missing PROVE FALSE
      OBVIOUS
    <2>2. idEq # {} /\ idIn # {}
      BY <1>1, <2>1
    <2>3. PICK i \in idEq, j \in idIn : TRUE
      BY <2>2
    <2>4. i = j
      <3>1. IsFiniteSet(idEq \cup idIn)
        BY <1>8, SomeIndices
      <3> QED
        BY <1>2, <2>3, <3>1, AtMostOne
    <2> QED
      BY <1>4, <2>3, <2>4
  <1> QED
    BY <1>10, <1>11, <1>12, <1>13, <1>14, <1>15, <1>16, <1>17 DEF Sound, e
-----------------------------------------------------------------------------
(* Leaving elements out takes them one by one.                               *)
LEMMA WithoutRun ==
  ASSUME NEW S, NEW seq \in Seq(S), NEW set
  PROVE  \E run : /\ run \in [0 .. Len(seq) -> Seq(S)]
                  /\ run[0] = <<>> /\ run[Len(seq)] = Without(seq, set)
                  /\ \A k \in 1 .. Len(seq) :
                       run[k] = IF seq[k] \in set THEN run[k - 1] ELSE Append(run[k - 1], seq[k])
  <1> DEFINE n == Len(seq)
             Acc == Seq(S)
             Taken(rest, x) == IF x \in set THEN rest ELSE Append(rest, x)
             F == [x \in (1 .. n) \X Acc |-> Taken(x[2], seq[x[1]])]
             Eq(g) == g = [s \in SUBSET (1 .. n) |->
                             IF s = {} THEN <<>> ELSE Taken(g[s \ {Max(s)}], seq[Max(s)])]
  <1>1. n \in Nat /\ DOMAIN seq = 1 .. n /\ \A k \in 1 .. n : seq[k] \in S
    BY LenProperties, ElementOfSeq
  <1>2. Without(seq, set) = (CHOOSE g : Eq(g))[1 .. n]
    BY <1>1 DEF Without, FoldLeft, MapThenFoldSet
  <1>3. \A k \in 1 .. n, b \in Acc :
          F[<<k, b>>] = Taken(b, seq[k]) /\ F[<<k, b>>] \in Acc
    BY <1>1
  <1>4. F \in [(1 .. n) \X Acc -> Acc] /\ <<>> \in Acc
    BY <1>3
  <1> HIDE DEF F, n, Acc
  <1>5. \A s \in SUBSET (1 .. n) : s # {} => Max(s) \in 1 .. n
    BY <1>1, GreatestElement
  <1>6. Eq(CHOOSE g : Eq(g))
    <2>1. PICK g \in [SUBSET (1 .. n) -> Acc] : Folded(g, F, <<>>, n)
      BY <1>1, <1>4, FoldExists
    <2> HIDE DEF Taken
    <2>2. Eq(g)
      BY <1>3, <1>5, <2>1 DEF Folded
    <2> QED
      BY <2>2, Zenon
  <1> DEFINE g == CHOOSE h : Eq(h)
  <1>7. FoldsIn(g, F, <<>>, n, Acc)
    <2> HIDE DEF g, Taken
    <2>1. g = [s \in SUBSET (1 .. n) |->
                 IF s = {} THEN <<>> ELSE Taken(g[s \ {Max(s)}], seq[Max(s)])]
      BY <1>6, Zenon DEF g
    <2>2. \A s \in SUBSET (1 .. n) :
            g[s] = IF s = {} THEN <<>> ELSE Taken(g[s \ {Max(s)}], seq[Max(s)])
      BY <2>1, Zenon
    <2>3. {} \in SUBSET (1 .. n)
      OBVIOUS
    <2> QED
      BY <1>3, <1>5, <2>2, <2>3, Zenon DEF FoldsIn
  <1> HIDE DEF g, Eq
  <1>8. PICK run : IsRun(run, F, <<>>, n, Acc, g[1 .. n])
    BY <1>1, <1>4, <1>7, FoldSteps, Zenon
  <1>9. /\ run \in [0 .. n -> Acc] /\ run[0] = <<>> /\ run[n] = g[1 .. n]
        /\ \A k \in 1 .. n : run[k] = F[<<k, run[k - 1]>>]
    BY <1>8 DEF IsRun
  <1>10. \A k \in 1 .. n : run[k] = Taken(run[k - 1], seq[k])
    <2> TAKE k \in 1 .. n
    <2>1. k - 1 \in 0 .. n
      BY <1>1
    <2>2. run[k - 1] \in Acc
      BY <1>9, <2>1
    <2> HIDE DEF Taken
    <2> QED
      BY <1>3, <1>9, <2>2
  <1>11. run[n] = Without(seq, set)
    BY <1>2, <1>9 DEF g
  <1> QED
    BY <1>9, <1>10, <1>11 DEF n, Acc

LEMMA WithoutType ==
  ASSUME NEW S, NEW seq \in Seq(S), NEW set
  PROVE  Without(seq, set) \in Seq(S)
  <1>1. PICK run : run \in [0 .. Len(seq) -> Seq(S)] /\ run[Len(seq)] = Without(seq, set)
    BY WithoutRun
  <1>2. Len(seq) \in 0 .. Len(seq)
    BY LenProperties
  <1> QED
    BY <1>1, <1>2

(* When the first n elements are left out and no other, the rest remains.    *)
IsRest(rest, S, seq, n) ==
  /\ rest \in Seq(S) /\ Len(rest) = Len(seq) - n /\ DOMAIN rest = 1 .. Len(seq) - n
  /\ \A k \in 1 .. Len(seq) - n : rest[k] = seq[n + k]

LEMMA WithoutFirst ==
  ASSUME NEW S, NEW seq \in Seq(S), NEW set, NEW n \in 0 .. Len(seq),
         \A k \in 1 .. Len(seq) : seq[k] \in set <=> k <= n
  PROVE  IsRest(Without(seq, set), S, seq, n)
  <1> DEFINE N == Len(seq)
  <1>1. N \in Nat /\ \A k \in 1 .. N : seq[k] \in S
    BY LenProperties, ElementOfSeq
  <1>2. PICK run : /\ run \in [0 .. N -> Seq(S)]
                   /\ run[0] = <<>> /\ run[N] = Without(seq, set)
                   /\ \A k \in 1 .. N :
                        run[k] = IF seq[k] \in set THEN run[k - 1] ELSE Append(run[k - 1], seq[k])
    BY WithoutRun
  <1> HIDE DEF N
  <1> DEFINE Count(k) == IF k <= n THEN 0 ELSE k - n
             Good == {k \in 0 .. N : /\ Len(run[k]) = Count(k)
                                     /\ \A j \in 1 .. Count(k) : run[k][j] = seq[n + j]}
  <1>3. \A k \in 0 .. N : run[k] \in Seq(S)
    BY <1>2
  <1>4. 0 \in Good
    <2>1. run[0] = <<>> /\ Count(0) = 0 /\ 0 \in 0 .. N
      BY <1>1, <1>2
    <2> QED
      BY <2>1
  <1>5. ASSUME NEW k \in 0 .. N - 1, k \in Good PROVE k + 1 \in Good
    <2>1. /\ k + 1 \in 1 .. N /\ k + 1 \in 0 .. N /\ k \in 0 .. N /\ (k + 1) - 1 = k
          /\ n \in Nat /\ k \in Nat
      BY <1>1 DEF N
    <2>2. run[k + 1] = IF seq[k + 1] \in set THEN run[k] ELSE Append(run[k], seq[k + 1])
      BY <1>2, <2>1
    <2>3. seq[k + 1] \in set <=> k + 1 <= n
      BY <2>1 DEF N
    <2>4. CASE k + 1 <= n
      <3>1. Count(k) = 0 /\ Count(k + 1) = 0 /\ run[k + 1] = run[k]
        BY <2>1, <2>2, <2>3, <2>4
      <3> QED
        BY <1>5, <2>1, <3>1
    <2>5. CASE ~(k + 1 <= n)
      <3>1. Count(k) = k - n /\ Count(k + 1) = k - n + 1 /\ k - n \in Nat
        BY <2>1, <2>5
      <3>2. run[k + 1] = Append(run[k], seq[k + 1]) /\ run[k] \in Seq(S) /\ seq[k + 1] \in S
        BY <1>1, <1>3, <2>1, <2>2, <2>3, <2>5
      <3>3. Len(run[k]) = k - n /\ \A j \in 1 .. k - n : run[k][j] = seq[n + j]
        BY <1>5, <3>1
      <3>4. /\ Len(run[k + 1]) = k - n + 1
            /\ \A j \in 1 .. k - n : run[k + 1][j] = run[k][j]
            /\ run[k + 1][k - n + 1] = seq[k + 1]
        BY <3>1, <3>2, <3>3
      <3>5. ASSUME NEW j \in 1 .. k - n + 1 PROVE run[k + 1][j] = seq[n + j]
        <4>1. j \in 1 .. k - n \/ j = k - n + 1
          BY <3>1
        <4>2. n + (k - n + 1) = k + 1
          BY <2>1
        <4> QED
          BY <3>3, <3>4, <4>1, <4>2
      <3> QED
        BY <2>1, <3>1, <3>4, <3>5
    <2> QED
      BY <2>4, <2>5
  <1>6. N \in Good
    <2> HIDE DEF Good
    <2>1. \A k \in 0 .. N : k \in Good
      BY <1>1, <1>4, <1>5, SegmentInduction
    <2> QED
      BY <1>1, <2>1
  <1>7. Count(N) = N - n /\ N - n \in Nat /\ N \in 0 .. N
    BY <1>1 DEF N
  <1>8. /\ Without(seq, set) \in Seq(S) /\ Len(Without(seq, set)) = N - n
        /\ \A k \in 1 .. N - n : Without(seq, set)[k] = seq[n + k]
    BY <1>2, <1>3, <1>6, <1>7
  <1> QED
    BY <1>8, LenProperties DEF N, IsRest
-----------------------------------------------------------------------------
(* An index names a property once, and none of them is the id.               *)
DistinctProperties ==
  \A i \in DOMAIN Indices : \A k, l \in DOMAIN Indices[i].properties :
    Indices[i].properties[k] = Indices[i].properties[l] => k = l
IdApart == IdField \notin Properties

(* A parsed request.                                                         *)
Orders == Seq([field : AnyField, ascending : BOOLEAN \cup {Missing}])
Readable(q) ==
  /\ Sound(q.clauses)
  /\ q \in [sql : BOOLEAN, clauses : {q.clauses}, order : Orders, limit : Nat,
             start : Ids \cup {Missing}, included : BOOLEAN, time : Times \cup {Missing}]

LEMMA ImageFinite ==
  ASSUME NEW S, IsFiniteSet(S), NEW f, DOMAIN f = S
  PROVE  IsFiniteSet({f[x] : x \in S})
  <1> DEFINE T == {f[x] : x \in S}
             g == [x \in S |-> f[x]]
  <1>1. g \in Surjection(S, T)
    BY DEF Surjection
  <1> HIDE DEF g, T
  <1>2. IsFiniteSet(T)
    BY <1>1, FS_Surjection
  <1> QED
    BY <1>2 DEF T

LEMMA OrderFieldsFinite ==
  ASSUME NEW q, q.order \in Orders
  PROVE  IsFiniteSet(OrderFields(q))
  <1> DEFINE order == q.order
             f == [k \in DOMAIN order |-> order[k].field]
  <1>1. order \in Seq([field : AnyField, ascending : BOOLEAN \cup {Missing}])
    BY DEF Orders
  <1>2. DOMAIN order = 1 .. Len(order) /\ Len(order) \in Nat
    BY <1>1, LenProperties
  <1>3. IsFiniteSet(DOMAIN order)
    BY <1>2, FS_Interval
  <1>4. OrderFields(q) = {f[k] : k \in DOMAIN order}
    BY DEF OrderFields
  <1> HIDE DEF order
  <1>5. IsFiniteSet({f[k] : k \in DOMAIN order})
    <2>1. DOMAIN f = DOMAIN order
      OBVIOUS
    <2> HIDE DEF f
    <2> QED
      BY <1>3, <2>1, ImageFinite
  <1> QED
    BY <1>4, <1>5

(* How many fields the clauses are on.                                       *)
LEMMA ClauseFieldCount ==
  ASSUME NEW q, Sound(q.clauses)
  PROVE  LET n == Cardinality(EqualFields(q))
             c == Cardinality(ClauseFields(q))
         IN  /\ n \in Nat /\ c \in Nat /\ IsFiniteSet(EqualFields(q)) /\ IsFiniteSet(ClauseFields(q))
             /\ c = n + (IF q.clauses.in = Missing THEN 0 ELSE 1)
                      + (IF q.clauses.range = Missing THEN 0 ELSE 1)
  <1> DEFINE E == EqualFields(q)
             I == FieldOf(q.clauses.in)
             R == FieldOf(q.clauses.range)
             i == IF q.clauses.in = Missing THEN 0 ELSE 1
             r == IF q.clauses.range = Missing THEN 0 ELSE 1
  <1>1. IsFiniteSet(E) /\ Cardinality(E) \in Nat
    BY FS_CardinalityType DEF EqualFields, Sound
  <1>2. /\ IsFiniteSet(I) /\ Cardinality(I) = i
        /\ IsFiniteSet(R) /\ Cardinality(R) = r
    BY FS_EmptySet, FS_Singleton DEF FieldOf
  <1>3. E \cap I = {}
    BY DEF FieldOf, Sound, EqualFields
  <1>4. (E \cup I) \cap R = {}
    BY DEF FieldOf, Sound, EqualFields
  <1>5. ClauseFields(q) = (E \cup I) \cup R
    BY DEF ClauseFields
  <1> HIDE DEF E, I, R
  <1>6. IsFiniteSet(E \cup I) /\ Cardinality(E \cup I) = Cardinality(E) + i - 0
    <2>1. Cardinality(E \cap I) = 0
      BY <1>3, NoneIsNotOne
    <2> QED
      BY <1>1, <1>2, <2>1, FS_Union
  <1>7. /\ IsFiniteSet((E \cup I) \cup R)
        /\ Cardinality((E \cup I) \cup R) = Cardinality(E \cup I) + r - 0
    <2>1. Cardinality((E \cup I) \cap R) = 0
      BY <1>4, NoneIsNotOne
    <2> QED
      BY <1>2, <1>6, <2>1, FS_Union
  <1>8. i \in Nat /\ r \in Nat
    OBVIOUS
  <1> HIDE DEF i, r
  <1>9. Cardinality(ClauseFields(q)) = Cardinality(E) + i + r /\ IsFiniteSet(ClauseFields(q))
    BY <1>1, <1>5, <1>6, <1>7, <1>8
  <1> QED
    BY <1>1, <1>8, <1>9 DEF E, i, r

(* An index that serves a query begins with the properties of the            *)
(* equalities, then those of the In and of the range.                        *)
LEMMA ServesShape ==
  ASSUME NEW i \in DOMAIN Indices, NEW q, Readable(q), DistinctProperties,
         Serves(Indices[i], q)
  PROVE  LET n == Cardinality(EqualFields(q))
             c == Cardinality(ClauseFields(q))
             props == Indices[i].properties
         IN  /\ n \in Nat /\ c \in 0 .. Size(i) /\ n <= c
             /\ c = n + (IF q.clauses.in = Missing THEN 0 ELSE 1)
                      + (IF q.clauses.range = Missing THEN 0 ELSE 1)
             /\ \A k \in 1 .. Size(i) : props[k] \in EqualFields(q) <=> k <= n
             /\ \A k \in 1 .. Size(i) : props[k] \in ClauseFields(q) <=> k <= c
             /\ ClauseFields(q) = {props[k] : k \in 1 .. c}
             /\ q.clauses.in # Missing => props[n + 1] = q.clauses.in.field
             /\ q.clauses.range # Missing => props[c] = q.clauses.range.field
  <1> DEFINE n == Cardinality(EqualFields(q))
             c == Cardinality(ClauseFields(q))
             all == Cardinality(ClauseFields(q) \cup OrderFields(q))
             props == Indices[i].properties
             ni == IF q.clauses.in = Missing THEN 0 ELSE 1
             nr == IF q.clauses.range = Missing THEN 0 ELSE 1
  <1>1. /\ Sound(q.clauses) /\ q.order \in Orders
        /\ Size(i) \in Nat /\ DOMAIN props = 1 .. Size(i)
    BY IndexType DEF Readable
  <1>2. /\ n \in Nat /\ c \in Nat /\ c = n + ni + nr
        /\ IsFiniteSet(EqualFields(q)) /\ IsFiniteSet(ClauseFields(q))
    BY <1>1, ClauseFieldCount
  <1>3. /\ all <= Size(i) /\ FirstProperties(Indices[i], n) = EqualFields(q)
        /\ q.clauses.in # Missing => props[n + 1] = q.clauses.in.field
        /\ FirstProperties(Indices[i], c) = ClauseFields(q)
    BY DEF Serves, Size
  <1>4. all \in Nat /\ c <= all
    <2>1. IsFiniteSet(ClauseFields(q) \cup OrderFields(q))
      BY <1>1, <1>2, OrderFieldsFinite, FS_Union
    <2>2. ClauseFields(q) \in SUBSET (ClauseFields(q) \cup OrderFields(q))
      OBVIOUS
    <2> QED
      BY <2>1, <2>2, FS_Subset, FS_CardinalityType
  <1>5. /\ ni \in Nat /\ nr \in Nat
        /\ ni = (IF q.clauses.in = Missing THEN 0 ELSE 1)
        /\ nr = (IF q.clauses.range = Missing THEN 0 ELSE 1)
    OBVIOUS
  <1>6. /\ EqualFields(q) = {props[k] : k \in 1 .. n}
        /\ ClauseFields(q) = {props[k] : k \in 1 .. c}
    BY <1>3 DEF FirstProperties
  <1> HIDE DEF n, c, all, ni, nr
  <1>7. c \in 0 .. Size(i) /\ n <= c
    BY <1>1, <1>2, <1>3, <1>4, <1>5
  <1>8. \A k, l \in 1 .. Size(i) : props[k] = props[l] => k = l
    BY <1>1 DEF DistinctProperties
  <1> HIDE DEF props
  <1>9. \A k \in 1 .. Size(i) : props[k] \in EqualFields(q) <=> k <= n
    BY <1>1, <1>2, <1>6, <1>7, <1>8
  <1>10. \A k \in 1 .. Size(i) : props[k] \in ClauseFields(q) <=> k <= c
    BY <1>1, <1>6, <1>7, <1>8
  <1>11. q.clauses.range # Missing => props[c] = q.clauses.range.field
    <2>1. SUFFICES ASSUME q.clauses.range # Missing PROVE props[c] = q.clauses.range.field
      OBVIOUS
    <2>2. q.clauses.range.field \in ClauseFields(q)
      BY <2>1 DEF ClauseFields, FieldOf
    <2>3. PICK k \in 1 .. c : q.clauses.range.field = props[k]
      BY <1>6, <2>2
    <2>4. k > n
      <3>1. props[k] \notin EqualFields(q)
        BY <1>1, <2>1, <2>3 DEF Sound, EqualFields
      <3> QED
        <4>1. k \in 1 .. Size(i) /\ k \in Nat
          BY <1>1, <1>7
        <4> QED
          BY <1>2, <1>9, <3>1, <4>1
    <2>5. q.clauses.in # Missing => k # n + 1
      BY <1>1, <1>3, <2>1, <2>3 DEF Sound
    <2>6. k = c
      BY <1>2, <1>5, <2>1, <2>4, <2>5
    <2> QED
      BY <2>3, <2>6
  <1> QED
    BY <1>2, <1>3, <1>5, <1>6, <1>7, <1>9, <1>10, <1>11 DEF n, c, props

(* The path of some first properties of an index that is there is that of a  *)
(* stored document: in whichever index its entry is.                         *)
FirstFields(p, i, n) == \A k \in 1 .. n : p[2 * k - 1] = Indices[i].properties[k]
FirstValues(p, i, n, d) == \A k \in 1 .. n : p[2 * k] = d[Indices[i].properties[k]]

LEMMA PathOfStored ==
  ASSUME DistinctIndices, NEW docs \in Docs, Fits(index, docs),
         NEW i \in DOMAIN Indices, NEW n \in 1 .. Size(i), NEW p \in DOMAIN index,
         Len(p) = 2 * n, FirstFields(p, i, n)
  PROVE  \E id \in StoredIn(docs) : FirstValues(p, i, n, docs[id])
  <1> DEFINE props == Indices[i].properties
  <1>1. p \in Paths /\ Size(i) \in Nat /\ n \in Nat /\ n >= 1 /\ Len(p) # 1
    BY FitsForest, IndexType
  <1>2. PICK e \in EntriesOf(docs) : Leads(p, e)
    BY <1>1, FitsForest
  <1>3. PICK j \in DOMAIN Indices, id \in StoredIn(docs) :
          id \in Ids /\ docs[id] \in Documents /\ e = EntryAt(j, docs[id], id)
    BY EntriesOfType
  <1>4. /\ KeysOf(e, j, docs[id]) /\ e[2 * Size(j) + 1] = Zero /\ Size(j) \in Nat /\ e \in Paths
    BY <1>3, EntryType, IndexType
  <1>5. \A l \in 1 .. 2 * n : p[l] = e[l]
    BY <1>2 DEF Leads
  <1>6. n <= Size(j)
    <2>1. ASSUME Size(j) < n PROVE FALSE
      <3>1. /\ Size(j) + 1 \in 1 .. n /\ 2 * (Size(j) + 1) - 1 = 2 * Size(j) + 1
            /\ 2 * Size(j) + 1 \in 1 .. 2 * n /\ Size(j) + 1 \in 1 .. Size(i)
        BY <1>1, <1>4, <2>1
      <3>2. p[2 * Size(j) + 1] = props[Size(j) + 1]
        BY <3>1 DEF FirstFields
      <3>3. props[Size(j) + 1] \in Properties
        BY <3>1, IndexType
      <3> QED
        BY <1>4, <1>5, <3>1, <3>2, <3>3, ZeroAssumption
    <2> QED
      BY <1>1, <1>4, <2>1
  <1>7. ASSUME NEW k \in 1 .. n PROVE p[2 * k] = docs[id][props[k]]
    <2>1. /\ k \in 1 .. Size(j) /\ 2 * k \in 1 .. 2 * n /\ 2 * k - 1 \in 1 .. 2 * n
      BY <1>1, <1>4, <1>6
    <2>2. /\ e[2 * k - 1] = Indices[j].properties[k]
          /\ e[2 * k] = docs[id][Indices[j].properties[k]]
      BY <1>4, <2>1 DEF KeysOf
    <2>3. p[2 * k - 1] = props[k]
      BY DEF FirstFields
    <2> QED
      BY <1>5, <2>1, <2>2, <2>3
  <1> QED
    BY <1>7 DEF FirstValues

(* What such a path leads to: the next tree, or the tree or the element of   *)
(* the document's entry at [0].                                              *)
LEMMA PathLeadsToEntry ==
  ASSUME NEW docs \in Docs, NEW i \in DOMAIN Indices, NEW n \in 0 .. Size(i), NEW p \in Paths,
         Len(p) = 2 * n, FirstFields(p, i, n), NEW id \in StoredIn(docs),
         FirstValues(p, i, n, docs[id])
  PROVE  /\ docs[id] \in Documents /\ Leads(p, EntryAt(i, docs[id], id))
         /\ LET next == Append(p, IF n = Size(i) THEN Zero ELSE Indices[i].properties[n + 1])
            IN  next \in Paths /\ Len(next) = 2 * n + 1 /\ Leads(next, EntryAt(i, docs[id], id))
  <1> DEFINE props == Indices[i].properties
             key == IF n = Size(i) THEN Zero ELSE props[n + 1]
             next == Append(p, key)
             d == docs[id]
             e == EntryAt(i, d, id)
  <1>1. /\ d \in Documents /\ id \in Ids
    BY DEF StoredIn, Docs
  <1>2. /\ e \in Paths /\ KeysOf(e, i, d) /\ e[2 * Size(i) + 1] = Zero
        /\ Len(e) >= 2 * Size(i) + 1 /\ Size(i) \in Nat /\ n \in Nat /\ Len(e) \in Nat
    BY <1>1, EntryType, IndexType, PathType
  <1>3. key \in PathKeys
    <2>1. n # Size(i) => n + 1 \in 1 .. Size(i)
      BY <1>2
    <2> QED
      BY <2>1, IndexType DEF PathKeys
  <1> HIDE DEF key, e, d
  <1>4. ASSUME NEW l \in 1 .. 2 * n PROVE p[l] = e[l]
    <2>1. PICK k \in 1 .. n : l = 2 * k - 1 \/ l = 2 * k
      BY <1>2, OddOrEven
    <2>2. k \in 1 .. Size(i)
      BY <1>2
    <2>3. /\ e[2 * k - 1] = props[k] /\ e[2 * k] = d[props[k]]
      BY <1>2, <2>2 DEF KeysOf
    <2>4. p[2 * k - 1] = props[k] /\ p[2 * k] = d[props[k]]
      BY DEF FirstFields, FirstValues, d
    <2> QED
      BY <2>1, <2>3, <2>4
  <1>5. Leads(p, e)
    BY <1>2, <1>4 DEF Leads
  <1>6. /\ next \in Paths /\ Len(next) = 2 * n + 1 /\ next[2 * n + 1] = key
        /\ \A l \in 1 .. 2 * n : next[l] = p[l]
    BY <1>3, AppendProperties DEF Paths
  <1> HIDE DEF next
  <1>7. e[2 * n + 1] = key
    <2>1. CASE n = Size(i)
      BY <1>2, <2>1 DEF key
    <2>2. CASE n # Size(i)
      <3>1. n + 1 \in 1 .. Size(i) /\ 2 * (n + 1) - 1 = 2 * n + 1
        BY <1>2, <2>2
      <3>2. e[2 * (n + 1) - 1] = props[n + 1]
        BY <1>2, <3>1 DEF KeysOf
      <3> QED
        BY <2>2, <3>1, <3>2 DEF key
    <2> QED
      BY <2>1, <2>2
  <1>8. Leads(next, e)
    <2>1. \A l \in 1 .. 2 * n + 1 : next[l] = e[l]
      <3>1. \A l \in 1 .. 2 * n + 1 : l \in 1 .. 2 * n \/ l = 2 * n + 1
        BY <1>2
      <3> QED
        BY <1>4, <1>6, <1>7, <3>1
    <2> QED
      BY <1>2, <1>6, <2>1 DEF Leads
  <1> QED
    BY <1>1, <1>5, <1>6, <1>8 DEF next, key, d, e

(* A path query over index i: the first m properties with their values are   *)
(* its path, and each later one has a level.                                 *)

QueryShape(i, m, query, path) ==
  /\ m \in 0 .. Size(i) - 1
  /\ path \in Seq(PathKeys \cup Keys) /\ Len(path) = 2 * m /\ FirstFields(path, i, m)
  /\ query.levels \in Seq(Levels) /\ Len(query.levels) = Size(i) - m
  /\ \A k \in 1 .. Size(i) - m : query.levels[k].field = Indices[i].properties[m + k]
  /\ IF Indices[i].unique THEN query.ids = Missing
     ELSE query.ids \in Levels /\ query.ids.field = Zero
  /\ query.idsOfNull \in Levels /\ query.idsOfNull.field = Zero

LEMMA ShapeType ==
  ASSUME NEW i \in DOMAIN Indices, NEW m, NEW query, NEW path, QueryShape(i, m, query, path)
  PROVE  /\ m \in Nat /\ Size(i) \in Nat /\ Size(i) - m \in Nat /\ Size(i) - m >= 1
         /\ m \in 0 .. Size(i)
         /\ DOMAIN path = 1 .. 2 * m /\ DOMAIN query.levels = 1 .. Size(i) - m
         /\ \A k \in 1 .. Size(i) - m : query.levels[k] \in Levels
         /\ \A k \in 1 .. Size(i) - m : m + k \in 1 .. Size(i)
  <1>1. /\ m \in 0 .. Size(i) - 1 /\ Len(path) = 2 * m /\ Len(query.levels) = Size(i) - m
        /\ path \in Seq(PathKeys \cup Keys) /\ query.levels \in Seq(Levels)
    BY DEF QueryShape
  <1>2. Size(i) \in Nat
    BY IndexType
  <1>3. DOMAIN path = 1 .. Len(path) /\ DOMAIN query.levels = 1 .. Len(query.levels)
    BY <1>1, LenProperties
  <1>4. \A k \in 1 .. Len(query.levels) : query.levels[k] \in Levels
    BY <1>1, ElementOfSeq
  <1> QED
    BY <1>1, <1>2, <1>3, <1>4

(* What the levels visit, position by position.                              *)
OnPath(path, m, p) == \A k \in 1 .. m : p[2 * k] = path[2 * k]
InLevels(i, m, query, p) == \A k \in 1 .. Size(i) - m : p[2 * (m + k)] \in query.levels[k].keys

LEMMA VisitsFirst ==
  ASSUME NEW i \in DOMAIN Indices, NEW m, NEW query, NEW path, QueryShape(i, m, query, path),
         NEW n \in 0 .. Size(i) - m, NEW p, Visits(SubSeq(query.levels, 1, n), path, p)
  PROVE  Len(p) = 2 * (m + n) /\ FirstFields(p, i, m + n) /\ OnPath(path, m, p)
  <1> DEFINE levels == query.levels
             first == SubSeq(levels, 1, n)
             props == Indices[i].properties
  <1>1. /\ m \in Nat /\ Size(i) \in Nat /\ Size(i) - m \in Nat /\ DOMAIN path = 1 .. 2 * m
        /\ levels \in Seq(Levels) /\ Len(levels) = Size(i) - m /\ Len(path) = 2 * m
        /\ FirstFields(path, i, m)
        /\ \A k \in 1 .. Size(i) - m : levels[k].field = props[m + k]
    BY ShapeType DEF QueryShape
  <1> HIDE DEF levels
  <1>2. /\ n \in Nat /\ first \in Seq(Levels) /\ Len(first) = n /\ DOMAIN first = 1 .. n
        /\ \A k \in 1 .. n : first[k] = levels[k]
    <2>1. n \in Nat /\ n <= Len(levels)
      BY <1>1
    <2>2. first \in Seq(Levels) /\ Len(first) = n /\ \A k \in 1 .. n : first[k] = levels[k]
      <3>1. CASE n = 0
        <4>1. first = <<>>
          BY <1>1, <3>1
        <4> QED
          BY <3>1, <4>1
      <3>2. CASE n # 0
        <4>1. 1 \in 1 .. Len(levels) + 1 /\ n \in 1 - 1 .. Len(levels)
          BY <1>1, <2>1, <3>2
        <4> QED
          BY <1>1, <2>1, <3>2
      <3> QED
        BY <3>1, <3>2
    <2> QED
      BY <2>1, <2>2, LenProperties
  <1> HIDE DEF first
  <1>3. /\ Len(p) = 2 * m + 2 * n
        /\ \A l \in 1 .. 2 * m : p[l] = path[l]
        /\ \A k \in 1 .. n : p[2 * m + 2 * k - 1] = levels[k].field
    BY <1>1, <1>2 DEF Visits, FieldAt, first, levels
  <1>4. ASSUME NEW k \in 1 .. m PROVE p[2 * k] = path[2 * k] /\ p[2 * k - 1] = props[k]
    <2>1. 2 * k \in 1 .. 2 * m /\ 2 * k - 1 \in 1 .. 2 * m
      BY <1>1
    <2> QED
      BY <1>1, <1>3, <2>1 DEF FirstFields
  <1>5. ASSUME NEW k \in 1 .. m + n PROVE p[2 * k - 1] = props[k]
    <2>1. CASE k <= m
      BY <1>1, <1>4, <2>1
    <2>2. CASE ~(k <= m)
      <3>1. k - m \in 1 .. n /\ k - m \in 1 .. Size(i) - m /\ m + (k - m) = k
            /\ 2 * m + 2 * (k - m) - 1 = 2 * k - 1
        BY <1>1, <1>2, <2>2
      <3> QED
        BY <1>1, <1>3, <3>1
    <2> QED
      BY <2>1, <2>2
  <1>6. Len(p) = 2 * (m + n)
    BY <1>1, <1>2, <1>3
  <1> QED
    BY <1>4, <1>5, <1>6 DEF FirstFields, OnPath

LEMMA VisitsAll ==
  ASSUME NEW i \in DOMAIN Indices, NEW m, NEW query, NEW path, QueryShape(i, m, query, path),
         NEW p
  PROVE  Visits(query.levels, path, p) <=>
           /\ Len(p) = 2 * Size(i) /\ FirstFields(p, i, Size(i))
           /\ OnPath(path, m, p) /\ InLevels(i, m, query, p)
  <1> DEFINE levels == query.levels
             props == Indices[i].properties
             n == Size(i) - m
  <1>1. /\ m \in Nat /\ Size(i) \in Nat /\ n \in Nat /\ DOMAIN path = 1 .. 2 * m
        /\ levels \in Seq(Levels) /\ Len(levels) = n /\ Len(path) = 2 * m
        /\ FirstFields(path, i, m) /\ DOMAIN levels = 1 .. n /\ n = Size(i) - m
        /\ \A k \in 1 .. n : levels[k].field = props[m + k]
    BY ShapeType DEF QueryShape
  <1> HIDE DEF levels, n
  <1>2. Visits(levels, path, p) <=>
          /\ Len(p) = 2 * m + 2 * n
          /\ \A l \in 1 .. 2 * m : p[l] = path[l]
          /\ \A k \in 1 .. n : p[2 * m + 2 * k - 1] = levels[k].field
                            /\ p[2 * m + 2 * k] \in levels[k].keys
    BY <1>1 DEF Visits, FieldAt, KeyAt
  <1>3. \A k \in 1 .. n : /\ 2 * m + 2 * k - 1 = 2 * (m + k) - 1 /\ 2 * m + 2 * k = 2 * (m + k)
                          /\ m + k \in 1 .. Size(i)
    <2>1. m \in Nat /\ Size(i) \in Nat /\ n \in Nat /\ n = Size(i) - m
      BY <1>1
    <2> QED
      BY <2>1
  <1>4. 2 * m + 2 * n = 2 * Size(i)
    BY <1>1
  <1>5. ASSUME Visits(levels, path, p)
        PROVE  /\ Len(p) = 2 * Size(i) /\ FirstFields(p, i, Size(i))
               /\ OnPath(path, m, p) /\ InLevels(i, m, query, p)
    <2>1. n \in 0 .. n
      BY <1>1
    <2>2. SubSeq(levels, 1, n) = levels
      <3>1. CASE n = 0
        <4>1. levels = <<>>
          BY <1>1, <3>1, EmptySeq
        <4> QED
          BY <1>1, <3>1, <4>1
      <3>2. CASE n # 0
        <4>1. 1 <= n
          BY <1>1, <3>2
        <4>2. /\ SubSeq(levels, 1, n) \in Seq(Levels) /\ Len(SubSeq(levels, 1, n)) = n
              /\ \A k \in 1 .. n : SubSeq(levels, 1, n)[k] = levels[k]
          BY <1>1, <4>1
        <4> HIDE DEF levels
        <4> QED
          BY <1>1, <4>2, SeqEqual
      <3> QED
        BY <3>1, <3>2
    <2>3. Len(p) = 2 * (m + n) /\ FirstFields(p, i, m + n) /\ OnPath(path, m, p)
      BY <1>5, <2>1, <2>2, VisitsFirst DEF levels, n
    <2>4. InLevels(i, m, query, p)
      BY <1>1, <1>2, <1>3, <1>5 DEF InLevels, levels, n
    <2>5. m + n = Size(i)
      BY <1>1
    <2> QED
      BY <2>3, <2>4, <2>5
  <1>6. ASSUME Len(p) = 2 * Size(i), FirstFields(p, i, Size(i)), OnPath(path, m, p),
               InLevels(i, m, query, p)
        PROVE  Visits(levels, path, p)
    <2>1. ASSUME NEW l \in 1 .. 2 * m PROVE p[l] = path[l]
      <3>1. PICK k \in 1 .. m : l = 2 * k - 1 \/ l = 2 * k
        BY <1>1, OddOrEven
      <3>2. k \in 1 .. Size(i)
        BY <1>1
      <3> QED
        BY <1>1, <1>6, <3>1, <3>2 DEF FirstFields, OnPath
    <2>2. ASSUME NEW k \in 1 .. n
          PROVE  /\ p[2 * m + 2 * k - 1] = levels[k].field /\ p[2 * m + 2 * k] \in levels[k].keys
      BY <1>1, <1>3, <1>6 DEF FirstFields, InLevels, levels, n
    <2> QED
      BY <1>2, <1>4, <1>6, <2>1, <2>2
  <1> QED
    BY <1>5, <1>6 DEF levels
-----------------------------------------------------------------------------
(* The documents a path query goes to.                                       *)
IdsFor(i, query, d) ==
  IF d[Indices[i].properties[Size(i)]] = Null THEN query.idsOfNull ELSE query.ids

Selected(docs, i, m, query, path) ==
  {id \in StoredIn(docs) :
     /\ FirstValues(path, i, m, docs[id])
     /\ \A k \in 1 .. Size(i) - m :
          docs[id][Indices[i].properties[m + k]] \in query.levels[k].keys
     /\ ~Indices[i].unique => id \in IdsFor(i, query, docs[id]).keys}

(* Where it finds one.                                                       *)
PlaceOf(docs, i, id) ==
  IF Indices[i].unique THEN PathIn(i, docs[id]) ELSE EntryAt(i, docs[id], id)

LEMMA StoredDocument ==
  ASSUME NEW docs \in Docs, NEW id \in StoredIn(docs)
  PROVE  id \in Ids /\ docs[id] \in Documents
  BY DEF Docs, StoredIn

(* If a tree is missing on the way, nothing is there to be found.            *)
LEMMA DanglingSelectsNothing ==
  ASSUME DistinctIndices, NEW docs \in Docs, Fits(index, docs),
         NEW i \in DOMAIN Indices, NEW m, NEW query, NEW path, QueryShape(i, m, query, path),
         Dangling(query, path)
  PROVE  Selected(docs, i, m, query, path) = {}
  <1> DEFINE props == Indices[i].properties
             N == Size(i)
  <1>1. SUFFICES ASSUME NEW id \in Selected(docs, i, m, query, path) PROVE FALSE
    OBVIOUS
  <1>2. /\ m \in Nat /\ N \in Nat /\ N - m \in Nat /\ DOMAIN path = 1 .. 2 * m
        /\ path \in Seq(PathKeys \cup Keys) /\ Len(path) = 2 * m /\ FirstFields(path, i, m)
        /\ m \in 0 .. N /\ Len(query.levels) = N - m
        /\ \A k \in 1 .. N - m : query.levels[k].field = props[m + k]
    <2>1. /\ m \in Nat /\ N \in Nat /\ N - m \in Nat /\ DOMAIN path = 1 .. 2 * m /\ m \in 0 .. N
      BY ShapeType
    <2> QED
      BY <2>1 DEF QueryShape
  <1>3. id \in StoredIn(docs) /\ FirstValues(path, i, m, docs[id]) /\ docs[id] \in Documents
    BY StoredDocument DEF Selected
  <1> HIDE DEF N
  <1>4. path \in Paths
    <2>1. ASSUME NEW l \in 1 .. 2 * m PROVE path[l] \in PathKeys
      <3>1. PICK k \in 1 .. m : l = 2 * k - 1 \/ l = 2 * k
        BY <1>2, OddOrEven
      <3>2. k \in 1 .. Size(i)
        BY <1>2 DEF N
      <3>3. path[2 * k - 1] = props[k] /\ path[2 * k] = docs[id][props[k]]
        BY <1>2, <1>3 DEF FirstFields, FirstValues
      <3>4. props[k] \in Properties /\ docs[id][props[k]] \in Values \cup {Null}
        BY <1>3, <3>2, IndexType, DocumentsAssumption
      <3> QED
        BY <3>1, <3>3, <3>4 DEF PathKeys
    <2>2. path \in [1 .. 2 * m -> PathKeys]
      <3>1. path \in [1 .. Len(path) -> PathKeys \cup Keys]
        BY <1>2, LenProperties
      <3> QED
        BY <1>2, <2>1, <3>1
    <2>3. 2 * m \in Nat
      BY <1>2
    <2> QED
      BY <2>2, <2>3, SeqDef DEF Paths
  <1>5. PICK n \in 0 .. Len(query.levels), p \in DOMAIN index \cup {path} :
          /\ Visits(SubSeq(query.levels, 1, n), path, p)
          /\ Append(p, IF n = Len(query.levels) THEN Zero ELSE query.levels[n + 1].field)
               \notin DOMAIN index
    BY DEF Dangling
  <1> DEFINE j == m + n
             next == Append(p, IF j = N THEN Zero ELSE props[j + 1])
  <1>6. n \in 0 .. N - m /\ j \in 0 .. N /\ next \notin DOMAIN index
    <2>1. n \in 0 .. N - m /\ j \in 0 .. N /\ (n = N - m <=> j = N) /\ (m + n) + 1 = m + (n + 1)
      BY <1>2
    <2>2. n # N - m => n + 1 \in 1 .. N - m
      BY <1>2, <2>1
    <2>3. n # N - m => query.levels[n + 1].field = props[j + 1]
      BY <1>2, <2>1, <2>2
    <2> QED
      BY <1>2, <1>5, <2>1, <2>3
  <1>7. Len(p) = 2 * j /\ FirstFields(p, i, j)
    BY <1>5, <1>6, VisitsFirst DEF N
  <1> HIDE DEF next, j
  <1>8. p \in Paths /\ \E other \in StoredIn(docs) : FirstValues(p, i, j, docs[other])
    <2>1. CASE p \in DOMAIN index
      <3>1. p \in Paths /\ Len(p) >= 1
        BY <2>1, FitsForest
      <3>2. j \in 1 .. Size(i)
        BY <1>2, <1>6, <1>7, <3>1 DEF N
      <3> QED
        BY <1>7, <2>1, <3>1, <3>2, PathOfStored
    <2>2. CASE p = path
      <3>1. j = m
        BY <1>2, <1>6, <1>7, <2>2
      <3> QED
        BY <1>3, <1>4, <2>2, <3>1
    <2> QED
      BY <1>5, <2>1, <2>2
  <1>9. PICK other \in StoredIn(docs) : FirstValues(p, i, j, docs[other])
    BY <1>8
  <1>10. /\ docs[other] \in Documents /\ next \in Paths /\ Len(next) = 2 * j + 1
         /\ Leads(next, EntryAt(i, docs[other], other))
    BY <1>6, <1>7, <1>8, <1>9, PathLeadsToEntry DEF next, N
  <1>11. EntryAt(i, docs[other], other) \in DOMAIN index
    <2>1. EntryAt(i, docs[other], other) \in EntriesOf(docs)
      BY DEF EntriesOf, EntriesFor
    <2> QED
      BY <2>1, FitsForest
  <1>12. Len(next) >= 1
    BY <1>6, <1>10
  <1> QED
    BY <1>6, <1>10, <1>11, <1>12, FitsForest

LEMMA VisitsOne ==
  ASSUME NEW level, NEW p \in Paths, NEW e
  PROVE  Visits(<<level>>, p, e) <=>
           /\ Len(e) = Len(p) + 2 /\ \A l \in 1 .. Len(p) : e[l] = p[l]
           /\ e[Len(p) + 1] = level.field /\ e[Len(p) + 2] \in level.keys
  <1>1. Len(<<level>>) = 1 /\ DOMAIN <<level>> = 1 .. 1 /\ <<level>>[1] = level
    OBVIOUS
  <1>2. DOMAIN p = 1 .. Len(p) /\ Len(p) \in Nat
    BY PathType
  <1>3. Len(p) + 2 * 1 - 1 = Len(p) + 1 /\ Len(p) + 2 * 1 = Len(p) + 2
    BY <1>2
  <1>4. \A k \in 1 .. 1 : k = 1
    OBVIOUS
  <1>5. 1 \in 1 .. 1
    OBVIOUS
  <1> QED
    BY <1>1, <1>2, <1>3, <1>4, <1>5 DEF Visits, FieldAt, KeyAt

LEMMA PlaceType ==
  ASSUME DistinctIndices, NEW docs \in Docs, Fits(index, docs),
         NEW i \in DOMAIN Indices, NEW id \in StoredIn(docs)
  PROVE  LET p == PlaceOf(docs, i, id)
             path == PathIn(i, docs[id])
         IN  /\ p \in Paths /\ p \in DOMAIN index /\ KeysOf(p, i, docs[id])
             /\ Leads(path, p) /\ SubSeq(p, 1, 2 * Size(i)) = path
             /\ path \in Paths /\ path \in DOMAIN index /\ Len(path) = 2 * Size(i)
             /\ KeysOf(path, i, docs[id])
             /\ Last(path) = docs[id][Indices[i].properties[Size(i)]]
             /\ Indices[i].unique => p = path /\ Len(p) = 2 * Size(i)
             /\ ~Indices[i].unique => /\ Len(p) = 2 * Size(i) + 2 /\ p = EntryAt(i, docs[id], id)
                                      /\ p[2 * Size(i) + 1] = Zero /\ p[2 * Size(i) + 2] = id
  <1> DEFINE p == PlaceOf(docs, i, id)
             path == PathIn(i, docs[id])
             e == EntryAt(i, docs[id], id)
             N == Size(i)
  <1>1. id \in Ids /\ docs[id] \in Documents /\ N \in Nat /\ N >= 1
    BY StoredDocument, IndexType
  <1>2. /\ path \in Paths /\ Len(path) = 2 * N /\ KeysOf(path, i, docs[id])
    BY <1>1, PathInType
  <1>3. /\ e \in Paths /\ KeysOf(e, i, docs[id]) /\ e[2 * N + 1] = Zero
        /\ Len(e) = IF Indices[i].unique THEN 2 * N + 1 ELSE 2 * N + 2
        /\ Leads(path, e)
        /\ ~Indices[i].unique => e[2 * N + 2] = id
    BY <1>1, EntryType
  <1>4. e \in DOMAIN index
    <2>1. e \in EntriesOf(docs)
      BY DEF EntriesOf, EntriesFor
    <2> QED
      BY <2>1, FitsForest
  <1> HIDE DEF path, e, N
  <1>5. path \in DOMAIN index
    <2>1. Len(path) >= 1
      <3>1. N >= 1 /\ Len(path) = 2 * N /\ N \in Nat
        BY <1>1, <1>2
      <3> QED
        BY <3>1
    <2>2. path \in Paths /\ e \in DOMAIN index /\ Leads(path, e)
      BY <1>2, <1>3, <1>4
    <2>3. \A q \in DOMAIN index, x \in Paths : Len(x) >= 1 /\ Leads(x, q) => x \in DOMAIN index
      BY FitsForest
    <2> QED
      BY <2>1, <2>2, <2>3
  <1>6. Last(path) = docs[id][Indices[i].properties[N]]
    <2>1. N \in 1 .. N /\ 2 * N = Len(path)
      BY <1>1, <1>2
    <2> QED
      BY <1>2, <2>1 DEF Last, KeysOf, N
  <1>7. CASE Indices[i].unique
    <2>1. p = path
      BY <1>7 DEF PlaceOf, path
    <2>2. Leads(path, path)
      BY <1>2, LeadsItself
    <2>3. SubSeq(path, 1, 2 * N) = path
      BY <1>2, WholePath
    <2> QED
      BY <1>2, <1>5, <1>6, <1>7, <2>1, <2>2, <2>3 DEF N, path
  <1>8. CASE ~Indices[i].unique
    <2>1. p = e
      BY <1>8 DEF PlaceOf, e
    <2>2. SubSeq(e, 1, 2 * N) = path
      <3>1. path \in Paths /\ e \in Paths /\ Leads(path, e) /\ Len(path) = 2 * N
        BY <1>2, <1>3
      <3>2. path = SubSeq(e, 1, Len(path))
        BY <3>1, LeadsIsPrefix
      <3> QED
        BY <3>1, <3>2
    <2>3. Len(e) = 2 * N + 2 /\ e[2 * N + 1] = Zero /\ e[2 * N + 2] = id
      BY <1>3, <1>8
    <2> HIDE DEF p
    <2>4. /\ p \in Paths /\ p \in DOMAIN index /\ KeysOf(p, i, docs[id])
          /\ Leads(path, p) /\ SubSeq(p, 1, 2 * N) = path
          /\ Len(p) = 2 * N + 2 /\ p = e /\ p[2 * N + 1] = Zero /\ p[2 * N + 2] = id
      BY <1>3, <1>4, <2>1, <2>2, <2>3
    <2> QED
      BY <1>2, <1>5, <1>6, <1>8, <2>4 DEF N, path, e, p
  <1> QED
    BY <1>7, <1>8

(* The keys visited on the way to a place are the document's values.         *)
LEMMA PlaceVisited ==
  ASSUME NEW docs \in Docs, NEW i \in DOMAIN Indices, NEW m, NEW query, NEW path,
         QueryShape(i, m, query, path), NEW d, NEW p, KeysOf(p, i, d), Len(p) = 2 * Size(i)
  PROVE  Visits(query.levels, path, p) <=>
           /\ FirstValues(path, i, m, d)
           /\ \A k \in 1 .. Size(i) - m : d[Indices[i].properties[m + k]] \in query.levels[k].keys
  <1>1. /\ m \in Nat /\ Size(i) \in Nat /\ m \in 0 .. Size(i)
        /\ \A k \in 1 .. Size(i) - m : m + k \in 1 .. Size(i)
    BY ShapeType
  <1>2. FirstFields(p, i, Size(i))
    BY DEF KeysOf, FirstFields
  <1>3. \A k \in 1 .. m : k \in 1 .. Size(i)
    BY <1>1
  <1>4. OnPath(path, m, p) <=> FirstValues(path, i, m, d)
    BY <1>3 DEF OnPath, FirstValues, KeysOf
  <1>5. InLevels(i, m, query, p) <=>
          \A k \in 1 .. Size(i) - m : d[Indices[i].properties[m + k]] \in query.levels[k].keys
    BY <1>1 DEF InLevels, KeysOf
  <1> QED
    BY <1>2, <1>4, <1>5, VisitsAll

LEMMA NullsBelow ==
  ASSUME NoUniqueNulls, NEW i \in DOMAIN Indices, NEW m, NEW query, NEW path,
         QueryShape(i, m, query, path), NEW d \in Documents, NEW p,
         Last(p) = d[Indices[i].properties[Size(i)]]
  PROVE  /\ Indices[i].unique => IdsBelow(query, p) = Missing
         /\ ~Indices[i].unique =>
              /\ IdsBelow(query, p) = IdsFor(i, query, d) /\ IdsFor(i, query, d) # Missing
              /\ IdsFor(i, query, d) \in Levels /\ IdsFor(i, query, d).field = Zero
  <1>1. CASE Indices[i].unique
    <2>1. Size(i) \in DOMAIN Indices[i].properties
      BY IndexType
    <2>2. d[Indices[i].properties[Size(i)]] # Null
      BY <1>1, <2>1 DEF NoUniqueNulls, AnyNull
    <2> QED
      BY <1>1, <2>2 DEF IdsBelow, QueryShape
  <1>2. CASE ~Indices[i].unique
    BY <1>2, LevelsAssumption DEF IdsBelow, IdsFor, QueryShape
  <1> QED
    BY <1>1, <1>2

LEMMA PlacesAre ==
  ASSUME DistinctIndices, NoUniqueNulls, NEW docs \in Docs, Fits(index, docs),
         NEW i \in DOMAIN Indices, NEW m, NEW query, NEW path, QueryShape(i, m, query, path)
  PROVE  Places(query, path) =
           {PlaceOf(docs, i, id) : id \in Selected(docs, i, m, query, path)}
  <1> DEFINE N == Size(i)
             S == Selected(docs, i, m, query, path)
             On(p) == Visits(query.levels, path, p)
             At(p) == IF IdsBelow(query, p) = Missing THEN {p}
                      ELSE {e \in DOMAIN index : Visits(<<IdsBelow(query, p)>>, p, e)}
  <1>0. N \in Nat /\ N >= 1
    BY IndexType
  <1>1. \A x : x \in Places(query, path) <=> \E p \in DOMAIN index : On(p) /\ x \in At(p)
    BY DEF Places
  <1>2. ASSUME NEW id \in S
        PROVE  PlaceOf(docs, i, id) \in Places(query, path)
    <2> DEFINE p == PathIn(i, docs[id])
               x == PlaceOf(docs, i, id)
    <2>1. /\ id \in StoredIn(docs) /\ docs[id] \in Documents
          /\ FirstValues(path, i, m, docs[id])
          /\ \A k \in 1 .. N - m :
               docs[id][Indices[i].properties[m + k]] \in query.levels[k].keys
          /\ ~Indices[i].unique => id \in IdsFor(i, query, docs[id]).keys
      BY StoredDocument DEF Selected
    <2>2. /\ x \in Paths /\ x \in DOMAIN index /\ Leads(p, x)
          /\ p \in Paths /\ p \in DOMAIN index /\ Len(p) = 2 * N /\ KeysOf(p, i, docs[id])
          /\ Last(p) = docs[id][Indices[i].properties[N]]
          /\ Indices[i].unique => x = p
          /\ ~Indices[i].unique => /\ Len(x) = 2 * N + 2
                                   /\ x[2 * N + 1] = Zero /\ x[2 * N + 2] = id
      BY <2>1, PlaceType
    <2>3. On(p)
      BY <2>1, <2>2, PlaceVisited
    <2>4. /\ Indices[i].unique => IdsBelow(query, p) = Missing
          /\ ~Indices[i].unique =>
              /\ IdsBelow(query, p) = IdsFor(i, query, docs[id])
              /\ IdsFor(i, query, docs[id]) # Missing
              /\ IdsFor(i, query, docs[id]).field = Zero
      BY <2>1, <2>2, NullsBelow
    <2> HIDE DEF x, p, N
    <2>5. x \in At(p)
      <3>1. CASE Indices[i].unique
        BY <2>2, <2>4, <3>1
      <3>2. CASE ~Indices[i].unique
        <4>1. /\ IdsBelow(query, p) # Missing /\ IdsBelow(query, p).field = Zero
              /\ id \in IdsBelow(query, p).keys
          BY <2>1, <2>4, <3>2
        <4>2. Len(x) = Len(p) + 2 /\ Len(p) + 1 = 2 * N + 1 /\ Len(p) + 2 = 2 * N + 2
          BY <1>0, <2>2, <3>2
        <4>3. \A l \in 1 .. Len(p) : x[l] = p[l]
          BY <2>2 DEF Leads
        <4>4. x[Len(p) + 1] = Zero /\ x[Len(p) + 2] = id
          BY <2>2, <3>2, <4>2
        <4>5. Visits(<<IdsBelow(query, p)>>, p, x)
          BY <2>2, <4>1, <4>2, <4>3, <4>4, VisitsOne
        <4> QED
          BY <2>2, <4>1, <4>5
      <3> QED
        BY <3>1, <3>2
    <2> HIDE DEF At, On
    <2>6. x \in Places(query, path)
      BY <1>1, <2>2, <2>3, <2>5
    <2> QED
      BY <2>6 DEF x
  <1>3. ASSUME NEW x \in Places(query, path)
        PROVE  \E id \in S : x = PlaceOf(docs, i, id)
    <2> HIDE DEF At, On, S
    <2>1. PICK p \in DOMAIN index : On(p) /\ x \in At(p)
      BY <1>1
    <2>2. /\ p \in Paths /\ Len(p) = 2 * N /\ FirstFields(p, i, N)
      BY <2>1, VisitsAll, FitsForest DEF On
    <2>3. N \in 1 .. N
      BY <1>0
    <2>4. PICK id \in StoredIn(docs) : FirstValues(p, i, N, docs[id])
      BY <2>1, <2>2, <2>3, PathOfStored
    <2>5. /\ id \in Ids /\ docs[id] \in Documents
      BY StoredDocument
    <2>6. /\ PathIn(i, docs[id]) \in Paths /\ Len(PathIn(i, docs[id])) = 2 * N
          /\ KeysOf(PathIn(i, docs[id]), i, docs[id])
      BY <2>5, PathInType
    <2>7. KeysOf(p, i, docs[id])
      BY <2>2, <2>4 DEF KeysOf, FirstFields, FirstValues
    <2>8. p = PathIn(i, docs[id])
      <3>1. ASSUME NEW l \in 1 .. 2 * N PROVE p[l] = PathIn(i, docs[id])[l]
        <4>1. PICK k \in 1 .. N : l = 2 * k - 1 \/ l = 2 * k
          BY <1>0, OddOrEven
        <4> QED
          BY <2>6, <2>7, <4>1 DEF KeysOf
      <3> QED
        BY <2>2, <2>6, <3>1, SamePath
    <2>9. /\ FirstValues(path, i, m, docs[id])
          /\ \A k \in 1 .. N - m :
               docs[id][Indices[i].properties[m + k]] \in query.levels[k].keys
      BY <2>1, <2>2, <2>7, PlaceVisited DEF On
    <2>10. Last(p) = docs[id][Indices[i].properties[N]]
      BY <2>8, PlaceType
    <2>11. CASE Indices[i].unique
      <3>1. IdsBelow(query, p) = Missing
        BY <2>5, <2>10, <2>11, NullsBelow
      <3>2. x = p
        BY <2>1, <3>1 DEF At
      <3>3. x = PlaceOf(docs, i, id)
        BY <2>8, <2>11, <3>2 DEF PlaceOf
      <3>4. id \in S
        BY <2>9, <2>11 DEF S, Selected
      <3> QED
        BY <3>3, <3>4
    <2>12. CASE ~Indices[i].unique
      <3> DEFINE level == IdsFor(i, query, docs[id])
      <3>1. level # Missing /\ IdsBelow(query, p) = level /\ level.field = Zero
        BY <2>5, <2>10, <2>12, NullsBelow
      <3> HIDE DEF level
      <3>2. x \in DOMAIN index /\ Visits(<<level>>, p, x)
        BY <2>1, <3>1 DEF At
      <3>3. /\ Len(x) = 2 * N + 2 /\ \A l \in 1 .. 2 * N : x[l] = p[l]
            /\ x[2 * N + 1] = Zero /\ x[2 * N + 2] \in level.keys /\ x \in Paths
        <4>1. x \in Paths
          BY <3>2, FitsForest
        <4>2. /\ Len(x) = Len(p) + 2 /\ \A l \in 1 .. Len(p) : x[l] = p[l]
              /\ x[Len(p) + 1] = level.field /\ x[Len(p) + 2] \in level.keys
          BY <2>2, <3>2, VisitsOne
        <4> QED
          BY <2>2, <3>1, <4>1, <4>2
      <3>4. /\ AtZero(i, docs[id]) \in Paths /\ Len(AtZero(i, docs[id])) = 2 * N + 1
            /\ AtZero(i, docs[id])[2 * N + 1] = Zero
            /\ Leads(PathIn(i, docs[id]), AtZero(i, docs[id]))
        BY <2>5, AtZeroType
      <3>5. Leads(AtZero(i, docs[id]), x)
        <4>1. \A l \in 1 .. 2 * N : AtZero(i, docs[id])[l] = p[l]
          BY <2>2, <2>8, <3>4 DEF Leads
        <4>2. ASSUME NEW l \in 1 .. 2 * N + 1 PROVE AtZero(i, docs[id])[l] = x[l]
          <5>1. l \in 1 .. 2 * N \/ l = 2 * N + 1
            BY <1>0
          <5> QED
            BY <3>3, <3>4, <4>1, <5>1
        <4>3. 2 * N + 1 <= 2 * N + 2
          BY <1>0
        <4> QED
          BY <3>3, <3>4, <4>2, <4>3 DEF Leads
      <3>6. PICK e \in EntriesOf(docs) : Leads(x, e)
        <4>1. Len(x) # 1
          BY <1>0, <3>3
        <4> QED
          BY <3>2, <4>1, FitsForest
      <3>7. PICK j \in DOMAIN Indices, other \in StoredIn(docs) :
              other \in Ids /\ docs[other] \in Documents /\ e = EntryAt(j, docs[other], other)
        BY EntriesOfType
      <3>8. e \in Paths
        BY <3>7, EntryType
      <3>9. i = j /\ SameOn(Indices[i], docs[id], docs[other])
        <4>1. Leads(AtZero(i, docs[id]), e)
          BY <3>3, <3>4, <3>5, <3>6, <3>8, LeadsOn
        <4> QED
          BY <2>5, <3>7, <4>1, ZeroTells
      <3>10. x = e
        <4>1. Len(e) = 2 * N + 2
          BY <2>12, <3>7, <3>9, EntryType
        <4> QED
          BY <3>3, <3>6, <3>8, <4>1, LeadsSameLength
      <3>11. other = x[2 * N + 2]
        BY <2>12, <3>7, <3>9, <3>10, EntryType
      <3>12. x = PlaceOf(docs, i, other)
        BY <2>12, <3>7, <3>9, <3>10 DEF PlaceOf
      <3>13. \A k \in 1 .. N : docs[other][Indices[i].properties[k]]
                                = docs[id][Indices[i].properties[k]]
        BY <3>9, IndexType DEF SameOn
      <3>14. other \in S
        <4>1. /\ m \in Nat /\ m \in 0 .. N /\ \A k \in 1 .. N - m : m + k \in 1 .. N
          BY ShapeType
        <4>2. \A k \in 1 .. m : k \in 1 .. N
          BY <1>0, <4>1
        <4>3. FirstValues(path, i, m, docs[other])
          BY <2>9, <3>13, <4>2 DEF FirstValues
        <4>4. \A k \in 1 .. N - m :
                docs[other][Indices[i].properties[m + k]] \in query.levels[k].keys
          BY <2>9, <3>13, <4>1
        <4>5. IdsFor(i, query, docs[other]) = level
          BY <2>3, <3>13 DEF IdsFor, level
        <4> QED
          BY <3>3, <3>11, <4>3, <4>4, <4>5 DEF S, Selected
      <3> QED
        BY <3>12, <3>14
    <2> QED
      BY <2>11, <2>12
  <1> QED
    BY <1>2, <1>3
-----------------------------------------------------------------------------
(* The keys of a document in the levels.                                     *)
LevelValue(docs, i, m, id, k) == docs[id][Indices[i].properties[m + k]]

LEMMA ElementAtPlace ==
  ASSUME DistinctIndices, NEW docs \in Docs, Fits(index, docs),
         NEW i \in DOMAIN Indices, NEW m, NEW query, NEW path, QueryShape(i, m, query, path),
         NEW id \in StoredIn(docs)
  PROVE  ElementAt(query, path, PlaceOf(docs, i, id)) = id
  <1> DEFINE p == PlaceOf(docs, i, id)
             N == Size(i)
  <1>1. /\ m \in Nat /\ N \in Nat /\ Len(path) = 2 * m /\ Len(query.levels) = N - m
    BY ShapeType DEF QueryShape
  <1>2. Len(path) + 2 * Len(query.levels) = 2 * N
    BY <1>1
  <1>3. index[EntryAt(i, docs[id], id)] = id
    BY DEF Fits
  <1>4. CASE Indices[i].unique
    <2>1. p = PathIn(i, docs[id]) /\ Len(p) = 2 * N
      BY <1>4, PlaceType
    <2>2. EntryAt(i, docs[id], id) = Append(p, Zero)
      BY <1>4, <2>1 DEF EntryAt, AtZero
    <2> HIDE DEF p, N
    <2>3. ElementAt(query, path, p) = index[Append(p, Zero)]
      BY <1>2, <2>1 DEF ElementAt
    <2> QED
      BY <1>3, <2>2, <2>3 DEF p
  <1>5. CASE ~Indices[i].unique
    <2>1. p = EntryAt(i, docs[id], id) /\ Len(p) = 2 * N + 2
      BY <1>5, PlaceType
    <2> HIDE DEF p, N
    <2>2. Len(p) # Len(path) + 2 * Len(query.levels)
      BY <1>1, <1>2, <2>1
    <2>3. ElementAt(query, path, p) = index[p]
      BY <2>2 DEF ElementAt
    <2> QED
      BY <1>3, <2>1, <2>3 DEF p
  <1> QED
    BY <1>4, <1>5

(* The levels that lead to a place, and the keys on them.                    *)
LEMMA LevelsToPlace ==
  ASSUME DistinctIndices, NoUniqueNulls, NEW docs \in Docs, Fits(index, docs),
         NEW i \in DOMAIN Indices, NEW m, NEW query, NEW path, QueryShape(i, m, query, path),
         NEW id \in Selected(docs, i, m, query, path)
  PROVE  LET n == Size(i) - m
             M == IF Indices[i].unique THEN n ELSE n + 1
             p == PlaceOf(docs, i, id)
             levels == LevelsTo(query, path, p)
         IN  /\ M \in Nat /\ DOMAIN levels = 1 .. M
             /\ \A k \in 1 .. n : /\ levels[k] = query.levels[k]
                                  /\ levels[k].ascending \in BOOLEAN
                                  /\ KeyAt(path, k, p) = LevelValue(docs, i, m, id, k)
                                  /\ KeyAt(path, k, p) \in Keys
             /\ ~Indices[i].unique => /\ levels[n + 1] = IdsFor(i, query, docs[id])
                                      /\ levels[n + 1].ascending \in BOOLEAN
                                      /\ KeyAt(path, n + 1, p) = id
                                      /\ KeyAt(path, n + 1, p) \in Keys
  <1> DEFINE n == Size(i) - m
             M == IF Indices[i].unique THEN n ELSE n + 1
             p == PlaceOf(docs, i, id)
             levels == LevelsTo(query, path, p)
             N == Size(i)
             d == docs[id]
  <1>1. /\ m \in Nat /\ N \in Nat /\ n \in Nat /\ n >= 1 /\ n = N - m
        /\ \A k \in 1 .. n : m + k \in 1 .. N
        /\ \A k \in 1 .. n : query.levels[k] \in Levels
    BY ShapeType
  <1>2. /\ Len(path) = 2 * m /\ query.levels \in Seq(Levels) /\ Len(query.levels) = n
    BY DEF QueryShape
  <1>3. /\ id \in StoredIn(docs) /\ id \in Ids /\ d \in Documents
        /\ \A k \in 1 .. n : d[Indices[i].properties[m + k]] \in query.levels[k].keys
        /\ ~Indices[i].unique => id \in IdsFor(i, query, d).keys
    BY StoredDocument DEF Selected
  <1>4. /\ KeysOf(p, i, d) /\ SubSeq(p, 1, 2 * N) = PathIn(i, d)
        /\ Last(PathIn(i, d)) = d[Indices[i].properties[N]]
        /\ Indices[i].unique => Len(p) = 2 * N
        /\ ~Indices[i].unique => Len(p) = 2 * N + 2 /\ p[2 * N + 2] = id
    BY <1>3, PlaceType
  <1>5. ~Indices[i].unique =>
          /\ IdsBelow(query, PathIn(i, d)) = IdsFor(i, query, d)
          /\ IdsFor(i, query, d) \in Levels
    BY <1>3, <1>4, NullsBelow
  <1> HIDE DEF n, p, N, d
  <1>6. Len(path) + 2 * Len(query.levels) = 2 * N
    BY <1>1, <1>2
  <1>7. levels = IF Indices[i].unique THEN query.levels
                 ELSE Append(query.levels, IdsFor(i, query, d))
    <2>1. CASE Indices[i].unique
      BY <1>4, <1>6, <2>1 DEF LevelsTo
    <2>2. CASE ~Indices[i].unique
      <3>1. Len(p) # 2 * N
        BY <1>1, <1>4, <2>2
      <3> QED
        BY <1>4, <1>5, <1>6, <2>2, <3>1 DEF LevelsTo
    <2> QED
      BY <2>1, <2>2
  <1> HIDE DEF levels
  <1>8. /\ M \in Nat /\ DOMAIN levels = 1 .. M
        /\ \A k \in 1 .. n : levels[k] = query.levels[k]
        /\ ~Indices[i].unique => levels[n + 1] = IdsFor(i, query, d)
    <2>1. CASE Indices[i].unique
      BY <1>1, <1>2, <1>7, <2>1, LenProperties
    <2>2. CASE ~Indices[i].unique
      <3>1. IdsFor(i, query, d) \in Levels
        BY <1>5, <2>2
      <3>2. /\ levels \in Seq(Levels) /\ Len(levels) = n + 1
            /\ \A k \in 1 .. n : levels[k] = query.levels[k]
            /\ levels[n + 1] = IdsFor(i, query, d)
        <4> DEFINE q == query.levels
                   l == IdsFor(i, query, d)
        <4>1. q \in Seq(Levels) /\ l \in Levels /\ Len(q) = n /\ levels = Append(q, l)
          BY <1>2, <1>7, <2>2, <3>1
        <4> HIDE DEF q, l
        <4>2. /\ levels \in Seq(Levels) /\ Len(levels) = n + 1
              /\ \A k \in 1 .. n : levels[k] = q[k]
              /\ levels[n + 1] = l
          BY <4>1, AppendProperties
        <4> QED
          BY <4>2 DEF q, l
      <3> QED
        BY <1>1, <2>2, <3>2, LenProperties
    <2> QED
      BY <2>1, <2>2
  <1>9. \A l \in Levels : l.ascending \in BOOLEAN /\ l.keys \in SUBSET Keys
    BY DEF Levels
  <1>10. ASSUME NEW k \in 1 .. n
         PROVE  /\ KeyAt(path, k, p) = LevelValue(docs, i, m, id, k) /\ KeyAt(path, k, p) \in Keys
    <2>1. 2 * m + 2 * k = 2 * (m + k) /\ m + k \in 1 .. N
      BY <1>1
    <2>2. KeyAt(path, k, p) = d[Indices[i].properties[m + k]]
      BY <1>2, <1>4, <2>1 DEF KeyAt, KeysOf, N
    <2> QED
      BY <1>1, <1>3, <1>9, <2>2 DEF LevelValue, d
  <1>11. ~Indices[i].unique => KeyAt(path, n + 1, p) = id
    <2>1. 2 * m + 2 * (n + 1) = 2 * N + 2
      BY <1>1
    <2> QED
      BY <1>2, <1>4, <2>1 DEF KeyAt
  <1>12. ~Indices[i].unique => id \in Keys
    BY <1>3, <1>5, <1>9
  <1> QED
    BY <1>1, <1>5, <1>8, <1>9, <1>10, <1>11, <1>12 DEF n, p, levels, N, d

LEMMA PrecedesTotal ==
  ASSUME DistinctIndices, NoUniqueNulls, NEW docs \in Docs, Fits(index, docs),
         NEW i \in DOMAIN Indices, NEW m, NEW query, NEW path, QueryShape(i, m, query, path)
  PROVE  LET places == Places(query, path)
         IN  TotalOn(places, {pq \in places \X places : Precedes(query, path, pq[1], pq[2])})
  <1> DEFINE n == Size(i) - m
             M == IF Indices[i].unique THEN n ELSE n + 1
             S == Selected(docs, i, m, query, path)
             P == Places(query, path)
             key == [p \in P |-> [k \in 1 .. M |-> KeyAt(path, k, p)]]
             ascending == [p \in P |-> [k \in 1 .. M |-> LevelsTo(query, path, p)[k].ascending]]
             order == {pq \in P \X P : Precedes(query, path, pq[1], pq[2])}
  <1>1. /\ m \in Nat /\ Size(i) \in Nat /\ n \in Nat /\ n >= 1 /\ n = Size(i) - m
        /\ m \in 0 .. Size(i)
    BY ShapeType
  <1>2. \A p \in P : \E id \in S : p = PlaceOf(docs, i, id)
    BY PlacesAre
  <1>3. \A id \in S : id \in StoredIn(docs) /\ docs[id] \in Documents
    BY StoredDocument DEF Selected
  <1>4. \A id \in S : FirstValues(path, i, m, docs[id])
    BY DEF Selected
  <1> HIDE DEF n, S
  <1>5. M \in Nat /\ \A k \in 1 .. M : k \in 1 .. n \/ (~Indices[i].unique /\ k = n + 1)
    BY <1>1
  <1>6. ASSUME NEW id \in S
        PROVE  LET p == PlaceOf(docs, i, id)
                   levels == LevelsTo(query, path, p)
               IN  /\ DOMAIN levels = 1 .. M
                   /\ \A k \in 1 .. n : /\ levels[k] = query.levels[k]
                                        /\ levels[k].ascending \in BOOLEAN
                                        /\ KeyAt(path, k, p) = LevelValue(docs, i, m, id, k)
                                        /\ KeyAt(path, k, p) \in Keys
                   /\ ~Indices[i].unique => /\ levels[n + 1] = IdsFor(i, query, docs[id])
                                            /\ levels[n + 1].ascending \in BOOLEAN
                                            /\ KeyAt(path, n + 1, p) = id
                                            /\ KeyAt(path, n + 1, p) \in Keys
    BY <1>6, LevelsToPlace DEF n, S
  <1>7. \A p \in P : DOMAIN LevelsTo(query, path, p) = 1 .. M
    BY <1>2, <1>6
  <1>8. ASSUME NEW p \in P, NEW k \in 1 .. M
        PROVE  KeyAt(path, k, p) \in Keys /\ LevelsTo(query, path, p)[k].ascending \in BOOLEAN
    <2>1. PICK id \in S : p = PlaceOf(docs, i, id)
      BY <1>2
    <2>2. k \in 1 .. n \/ (~Indices[i].unique /\ k = n + 1)
      BY <1>5
    <2> HIDE DEF M, P
    <2> QED
      BY <1>6, <2>1, <2>2
  <1> HIDE DEF M, P
  <1>9. /\ key \in [P -> [1 .. M -> Keys]] /\ ascending \in [P -> [1 .. M -> BOOLEAN]]
        /\ \A p \in P : \A k \in 1 .. M :
             /\ key[p][k] = KeyAt(path, k, p)
             /\ ascending[p][k] = LevelsTo(query, path, p)[k].ascending
    BY <1>8
  <1> HIDE DEF key, ascending
  <1>10. order = Lexicographic(P, M, key, ascending)
    <2>1. ASSUME NEW p \in P, NEW q \in P
          PROVE  Precedes(query, path, p, q) <=>
                   \E k \in 1 .. M :
                     /\ \A j \in 1 .. k - 1 : key[p][j] = key[q][j]
                     /\ Before(key[p][k], key[q][k], ascending[p][k])
      <3>1. \A k \in 1 .. M : \A j \in 1 .. k - 1 : j \in 1 .. M
        BY <1>5
      <3>2. Precedes(query, path, p, q) <=>
              \E k \in 1 .. M :
                /\ \A j \in 1 .. k - 1 : KeyAt(path, j, p) = KeyAt(path, j, q)
                /\ Before(KeyAt(path, k, p), KeyAt(path, k, q),
                          LevelsTo(query, path, p)[k].ascending)
        BY <1>7 DEF Precedes
      <3> QED
        BY <1>9, <3>1, <3>2
    <2> QED
      BY <2>1 DEF Lexicographic, order
  <1>11. ASSUME NEW a \in S, NEW b \in S, NEW k \in 1 .. n,
                KeyAt(path, k, PlaceOf(docs, i, a)) = KeyAt(path, k, PlaceOf(docs, i, b))
         PROVE  docs[a][Indices[i].properties[m + k]] = docs[b][Indices[i].properties[m + k]]
    BY <1>6, <1>11 DEF LevelValue
  <1>12. ASSUME NEW p \in P, NEW q \in P, \A k \in 1 .. M : key[p][k] = key[q][k]
         PROVE  p = q
    <2>1. PICK a \in S, b \in S : p = PlaceOf(docs, i, a) /\ q = PlaceOf(docs, i, b)
      BY <1>2
    <2>2. \A k \in 1 .. n : k \in 1 .. M
      BY <1>1 DEF M
    <2>3. \A k \in 1 .. M : KeyAt(path, k, p) = KeyAt(path, k, q)
      BY <1>9, <1>12
    <2>4. CASE Indices[i].unique
      <3>1. ASSUME NEW k \in 1 .. Size(i)
            PROVE  docs[a][Indices[i].properties[k]] = docs[b][Indices[i].properties[k]]
        <4>1. CASE k \in 1 .. m
          BY <1>4, <4>1 DEF FirstValues
        <4>2. CASE k \notin 1 .. m
          <5>1. k - m \in 1 .. n /\ m + (k - m) = k
            BY <1>1, <4>2
          <5> QED
            BY <1>11, <2>1, <2>2, <2>3, <5>1
        <4> QED
          BY <4>1, <4>2
      <3>2. SameOn(Indices[i], docs[a], docs[b])
        BY <3>1, IndexType DEF SameOn
      <3>3. PathIn(i, docs[a]) = PathIn(i, docs[b])
        BY <1>3, <3>2, SamePathIn
      <3> QED
        BY <2>1, <2>4, <3>3 DEF PlaceOf
    <2>5. CASE ~Indices[i].unique
      <3>1. n + 1 \in 1 .. M
        BY <1>1, <2>5 DEF M
      <3>2. a = b
        BY <1>6, <2>1, <2>3, <2>5, <3>1
      <3> QED
        BY <2>1, <3>2
    <2> QED
      BY <2>4, <2>5
  <1>13. ASSUME NEW p \in P, NEW q \in P, NEW k \in 1 .. M, SameUpTo(key, p, q, k)
         PROVE  ascending[p][k] = ascending[q][k]
    <2>1. PICK a \in S, b \in S : p = PlaceOf(docs, i, a) /\ q = PlaceOf(docs, i, b)
      BY <1>2
    <2>2. CASE k \in 1 .. n
      BY <1>6, <1>9, <2>1, <2>2
    <2>3. CASE ~Indices[i].unique /\ k = n + 1
      <3>1. n \in 1 .. k - 1 /\ n \in 1 .. M /\ n \in 1 .. n /\ m + n = Size(i)
        BY <1>1, <2>3 DEF M
      <3>2. KeyAt(path, n, p) = KeyAt(path, n, q)
        BY <1>9, <1>13, <3>1 DEF SameUpTo
      <3>3. docs[a][Indices[i].properties[Size(i)]] = docs[b][Indices[i].properties[Size(i)]]
        BY <1>11, <2>1, <3>1, <3>2
      <3>4. IdsFor(i, query, docs[a]) = IdsFor(i, query, docs[b])
        BY <3>3 DEF IdsFor
      <3> QED
        BY <1>6, <1>9, <2>1, <2>3, <3>4
    <2> QED
      BY <1>5, <2>2, <2>3
  <1>14. TotalOn(P, Lexicographic(P, M, key, ascending))
    BY <1>5, <1>9, <1>12, <1>13, LexicographicTotal
  <1> QED
    BY <1>10, <1>14 DEF order, P

(* Of two results the first does not come after the second in any level,     *)
(* as far as they are the same in those before.                              *)
InTurn(docs, i, m, query, a, b) ==
  \A k \in 1 .. Size(i) - m :
    LET V(id, l) == LevelValue(docs, i, m, id, l)
    IN  (\A j \in 1 .. k - 1 : V(a, j) = V(b, j)) =>
          V(a, k) = V(b, k) \/ Before(V(a, k), V(b, k), query.levels[k].ascending)

LEMMA PlacesInTurn ==
  ASSUME DistinctIndices, NoUniqueNulls, NEW docs \in Docs, Fits(index, docs),
         NEW i \in DOMAIN Indices, NEW m, NEW query, NEW path, QueryShape(i, m, query, path),
         NEW a \in Selected(docs, i, m, query, path), NEW b \in Selected(docs, i, m, query, path),
         Precedes(query, path, PlaceOf(docs, i, a), PlaceOf(docs, i, b))
  PROVE  InTurn(docs, i, m, query, a, b)
  <1> DEFINE n == Size(i) - m
             M == IF Indices[i].unique THEN n ELSE n + 1
             p == PlaceOf(docs, i, a)
             q == PlaceOf(docs, i, b)
             levels == LevelsTo(query, path, p)
             V(id, l) == LevelValue(docs, i, m, id, l)
  <1>1. n \in Nat
    BY ShapeType
  <1>2. /\ M \in Nat /\ DOMAIN levels = 1 .. M
        /\ \A k \in 1 .. n : /\ levels[k] = query.levels[k] /\ levels[k].ascending \in BOOLEAN
                             /\ KeyAt(path, k, p) = V(a, k) /\ V(a, k) \in Keys
    BY LevelsToPlace
  <1>3. \A k \in 1 .. n : KeyAt(path, k, q) = V(b, k) /\ V(b, k) \in Keys
    BY LevelsToPlace
  <1>4. PICK x \in 1 .. M :
          /\ \A j \in 1 .. x - 1 : KeyAt(path, j, p) = KeyAt(path, j, q)
          /\ Before(KeyAt(path, x, p), KeyAt(path, x, q), levels[x].ascending)
    BY <1>2 DEF Precedes
  <1> HIDE DEF n, M, p, q, levels, V
  <1>5. ASSUME NEW k \in 1 .. n, \A j \in 1 .. k - 1 : V(a, j) = V(b, j)
        PROVE  V(a, k) = V(b, k) \/ Before(V(a, k), V(b, k), query.levels[k].ascending)
    <2>1. CASE x < k
      <3>1. x \in 1 .. k - 1 /\ x \in 1 .. n
        BY <1>1, <1>2, <2>1
      <3>2. V(a, x) = V(b, x)
        BY <1>5, <3>1
      <3>3. Before(V(a, x), V(a, x), levels[x].ascending)
        BY <1>2, <1>3, <1>4, <3>1, <3>2
      <3> QED
        BY <1>2, <3>1, <3>3, BeforeTotal
    <2>2. CASE x = k
      BY <1>2, <1>3, <1>4, <2>2
    <2>3. CASE k < x
      <3>1. k \in 1 .. x - 1
        BY <1>1, <1>2, <2>3
      <3> QED
        BY <1>2, <1>3, <1>4, <3>1
    <2> QED
      BY <1>1, <1>2, <2>1, <2>2, <2>3
  <1> QED
    BY <1>5 DEF InTurn, V, n

(* The elements a path query finds: each document it selects once.           *)
LEMMA ElementsAre ==
  ASSUME DistinctIndices, NoUniqueNulls, NEW docs \in Docs, Fits(index, docs), IsFiniteSet(Ids),
         NEW i \in DOMAIN Indices, NEW m, NEW query, NEW path, QueryShape(i, m, query, path),
         ~Dangling(query, path)
  PROVE  LET S == Selected(docs, i, m, query, path)
             n == Cardinality(S)
             found == Elements(query, path)
         IN  /\ IsFiniteSet(S) /\ n \in Nat /\ found \in [1 .. n -> S]
             /\ \A a, b \in 1 .. n : found[a] = found[b] => a = b
             /\ \A id \in S : \E a \in 1 .. n : found[a] = id
             /\ \A a, b \in 1 .. n : a < b => InTurn(docs, i, m, query, found[a], found[b])
  <1> DEFINE S == Selected(docs, i, m, query, path)
             P == Places(query, path)
             order == {pq \in P \X P : Precedes(query, path, pq[1], pq[2])}
             found == Elements(query, path)
             s == Visited(query, path)
             At == [id \in S |-> PlaceOf(docs, i, id)]
             N == Cardinality(P)
  <1>1. P = {PlaceOf(docs, i, id) : id \in S} /\ TotalOn(P, order)
    BY PlacesAre, PrecedesTotal
  <1>2. \A id \in S : id \in Ids /\ id \in StoredIn(docs)
    BY DEF Selected, StoredIn
  <1>3. \A id \in S : ElementAt(query, path, PlaceOf(docs, i, id)) = id
    BY <1>2, ElementAtPlace
  <1>4. IsFiniteSet(S)
    <2>1. S \in SUBSET Ids
      BY <1>2
    <2> QED
      BY <2>1, FS_Subset
  <1>5. s = InOrder(P, order)
    BY DEF Visited
  <1>6. found = [x \in DOMAIN s |-> ElementAt(query, path, s[x])]
    BY DEF Elements
  <1>7. \A a, b \in S : Precedes(query, path, PlaceOf(docs, i, a), PlaceOf(docs, i, b)) =>
                          InTurn(docs, i, m, query, a, b)
    BY PlacesInTurn
  <1>8. \A p, q \in P : <<p, q>> \in order => Precedes(query, path, p, q)
    OBVIOUS
  <1> HIDE DEF S, P, order, s, found
  <1>9. At \in Bijection(S, P)
    <2>1. At \in [S -> P]
      BY <1>1
    <2>2. \A a, b \in S : At[a] = At[b] => a = b
      BY <1>3
    <2>3. \A p \in P : \E id \in S : At[id] = p
      BY <1>1
    <2> HIDE DEF At
    <2> QED
      BY <2>1, <2>2, <2>3 DEF Bijection, Injection, Surjection, IsInjective
  <1>10. IsFiniteSet(P) /\ Cardinality(P) = Cardinality(S)
    <2>1. ExistsBijection(S, P)
      BY <1>9 DEF ExistsBijection
    <2> QED
      BY <1>4, <2>1, FS_Bijection
  <1>11. /\ s \in [1 .. N -> P] /\ N \in Nat
         /\ \A x, y \in 1 .. N : x < y => <<s[x], s[y]>> \in order
         /\ \A x, y \in 1 .. N : s[x] = s[y] => x = y
         /\ \A p \in P : \E x \in 1 .. N : s[x] = p
    <2>1. IsFiniteSet(P) /\ TotalOn(P, order) /\ s = InOrder(P, order)
      BY <1>1, <1>5, <1>10
    <2> HIDE DEF order, s, P, N
    <2>2. /\ InOrder(P, order) \in [1 .. Cardinality(P) -> P] /\ Cardinality(P) \in Nat
          /\ \A x, y \in 1 .. Cardinality(P) :
               x < y => <<InOrder(P, order)[x], InOrder(P, order)[y]>> \in order
          /\ \A x, y \in 1 .. Cardinality(P) :
               InOrder(P, order)[x] = InOrder(P, order)[y] => x = y
          /\ \A p \in P : \E x \in 1 .. Cardinality(P) : InOrder(P, order)[x] = p
      BY <2>1, OrderedSet
    <2> QED
      BY <2>1, <2>2 DEF N
  <1> HIDE DEF N
  <1>12. ASSUME NEW x \in 1 .. N
         PROVE  found[x] \in S /\ s[x] = PlaceOf(docs, i, found[x])
    <2>1. PICK id \in S : s[x] = PlaceOf(docs, i, id)
      BY <1>1, <1>11
    <2>2. found[x] = id
      BY <1>3, <1>6, <1>11, <2>1
    <2> QED
      BY <2>1, <2>2
  <1>13. found \in [1 .. N -> S]
    <2>1. found = [x \in 1 .. N |-> ElementAt(query, path, s[x])]
      BY <1>6, <1>11
    <2>2. found = [x \in 1 .. N |-> found[x]]
      BY <2>1
    <2> QED
      BY <1>12, <2>2
  <1>14. \A a, b \in 1 .. N : found[a] = found[b] => a = b
    BY <1>11, <1>12
  <1>15. ASSUME NEW id \in S PROVE \E a \in 1 .. N : found[a] = id
    <2>1. PlaceOf(docs, i, id) \in P
      BY <1>1
    <2>2. PICK x \in 1 .. N : s[x] = PlaceOf(docs, i, id)
      BY <1>11, <2>1
    <2>3. found[x] = id
      BY <1>3, <1>6, <1>11, <2>2
    <2> QED
      BY <2>3
  <1>16. ASSUME NEW a \in 1 .. N, NEW b \in 1 .. N, a < b
         PROVE  InTurn(docs, i, m, query, found[a], found[b])
    <2>1. <<s[a], s[b]>> \in order
      BY <1>11, <1>16
    <2>2. Precedes(query, path, s[a], s[b])
      BY <1>8, <1>11, <2>1
    <2> QED
      BY <1>7, <1>12, <2>2
  <1>17. N = Cardinality(S)
    BY <1>10 DEF N
  <1> QED
    BY <1>4, <1>11, <1>13, <1>14, <1>15, <1>16, <1>17 DEF S, found

(* The first of some elements.                                               *)
Fewer(n, limit) == IF n < limit THEN n ELSE limit
IsFirst(first, s, S, l) ==
  /\ first \in Seq(S) /\ Len(first) = l /\ DOMAIN first = 1 .. l
  /\ \A x \in 1 .. l : first[x] = s[x]

LEMMA FirstOfElements ==
  ASSUME NEW S, NEW n \in Nat, NEW s \in [1 .. n -> S], NEW limit \in Nat
  PROVE  /\ s \in Seq(S) /\ Len(s) = n /\ Fewer(n, limit) \in Nat /\ Fewer(n, limit) <= n
         /\ IsFirst(FirstOf(s, limit), s, S, Fewer(n, limit))
  <1> DEFINE l == Fewer(n, limit)
             first == SubSeq(s, 1, l)
  <1>1. s \in Seq(S) /\ DOMAIN s = 1 .. n
    BY SeqDef
  <1>2. Len(s) = n
    <2>1. Len(s) \in Nat /\ DOMAIN s = 1 .. Len(s)
      BY <1>1, LenProperties
    <2> QED
      BY <1>1, <2>1, SameSegment
  <1>3. FirstOf(s, limit) = first
    BY <1>2 DEF FirstOf, Fewer
  <1>4. l \in Nat /\ l <= n
    BY DEF Fewer
  <1> HIDE DEF l
  <1>5. first \in Seq(S) /\ Len(first) = l /\ \A x \in 1 .. l : first[x] = s[x]
    <2>1. CASE l = 0
      <3>1. first = <<>>
        BY <1>1, <2>1
      <3> QED
        BY <2>1, <3>1
    <2>2. CASE l # 0
      <3>1. 1 <= l /\ l <= Len(s)
        BY <1>2, <1>4, <2>2
      <3> QED
        BY <1>1, <1>4, <3>1
    <2> QED
      BY <2>1, <2>2
  <1>6. DOMAIN first = 1 .. l
    BY <1>5, LenProperties
  <1> HIDE DEF first
  <1> QED
    BY <1>1, <1>2, <1>3, <1>4, <1>5, <1>6 DEF l, IsFirst

(* Whatever the operator and the start, the items are keys.                  *)
LEMMA RangesAreKeys ==
  \A k, l : /\ RangeFrom(k) \in SUBSET Keys /\ RangeAfter(k) \in SUBSET Keys
            /\ RangeTo(k) \in SUBSET Keys /\ RangeToInclusive(k) \in SUBSET Keys
            /\ RangeBetween(k, l) \in SUBSET Keys /\ RangeInclusive(k, l) \in SUBSET Keys
            /\ RangeAfterTo(k, l) \in SUBSET Keys /\ RangeAfterToInclusive(k, l) \in SUBSET Keys
            /\ RangeFull \in SUBSET Keys
            /\ \A included \in BOOLEAN : /\ From(k, included) \in SUBSET Keys
                                         /\ To(k, included) \in SUBSET Keys
  BY DEF RangeFrom, RangeAfter, RangeTo, RangeToInclusive, RangeBetween, RangeInclusive,
         RangeAfterTo, RangeAfterToInclusive, From, To, RangeFull

LEMMA PartsAreKeys ==
  ASSUME NEW k \in Keys, NEW l, NEW s, NEW included \in BOOLEAN, NEW ascending \in BOOLEAN
  PROVE  /\ GreaterThanKeys(k, s, included, ascending) \in SUBSET Keys
         /\ GreaterThanOrEqualsKeys(k, s, included, ascending) \in SUBSET Keys
         /\ LessThanKeys(k, s, included, ascending) \in SUBSET Keys
         /\ LessThanOrEqualsKeys(k, s, included, ascending) \in SUBSET Keys
  <1>1. Key(k) \in SUBSET Keys
    BY DEF Key
  <1>2. GreaterThanKeys(k, s, included, ascending) \in SUBSET Keys
    BY RangesAreKeys DEF GreaterThanKeys
  <1>3. GreaterThanOrEqualsKeys(k, s, included, ascending) \in SUBSET Keys
    BY <1>1, RangesAreKeys DEF GreaterThanOrEqualsKeys
  <1>4. LessThanKeys(k, s, included, ascending) \in SUBSET Keys
    BY RangesAreKeys DEF LessThanKeys
  <1>5. LessThanOrEqualsKeys(k, s, included, ascending) \in SUBSET Keys
    BY <1>1, RangesAreKeys DEF LessThanOrEqualsKeys
  <1> QED
    BY <1>2, <1>3, <1>4, <1>5

LEMMA PartsBetweenAreKeys ==
  ASSUME NEW k \in Keys, NEW l \in Keys, NEW s, NEW included \in BOOLEAN, NEW ascending \in BOOLEAN
  PROVE  /\ BetweenKeys(k, l, s, included, ascending) \in SUBSET Keys
         /\ BetweenExcludeBoundsKeys(k, l, s, included, ascending) \in SUBSET Keys
         /\ BetweenExcludeLeftKeys(k, l, s, included, ascending) \in SUBSET Keys
         /\ BetweenExcludeRightKeys(k, l, s, included, ascending) \in SUBSET Keys
  <1>1. Key(k) \in SUBSET Keys /\ Key(l) \in SUBSET Keys
    BY DEF Key
  <1>2. BetweenKeys(k, l, s, included, ascending) \in SUBSET Keys
    BY <1>1, RangesAreKeys DEF BetweenKeys
  <1>3. BetweenExcludeBoundsKeys(k, l, s, included, ascending) \in SUBSET Keys
    BY RangesAreKeys DEF BetweenExcludeBoundsKeys
  <1>4. BetweenExcludeLeftKeys(k, l, s, included, ascending) \in SUBSET Keys
    BY <1>1, RangesAreKeys DEF BetweenExcludeLeftKeys
  <1>5. BetweenExcludeRightKeys(k, l, s, included, ascending) \in SUBSET Keys
    BY <1>1, RangesAreKeys DEF BetweenExcludeRightKeys
  <1> QED
    BY <1>2, <1>3, <1>4, <1>5

LEMMA ItemsAreKeys ==
  ASSUME NEW operator \in Operators, NEW values, Fit(operator, values), NEW s,
         NEW included \in BOOLEAN, NEW ascending \in BOOLEAN
  PROVE  Items(operator, values, s, included, ascending) \in SUBSET Keys
  <1>1. CASE s = Missing
    <2>1. ItemsWithoutStart(operator, values) = {k \in Keys : Satisfies(k, operator, values)}
      BY ItemsSatisfyClause
    <2> QED
      BY <1>1, <2>1 DEF Items
  <1>2. CASE s # Missing
    <2> DEFINE Started == ItemsFromStart(operator, values, s, included, ascending)
    <2>1. Items(operator, values, s, included, ascending) = Started
      BY <1>2 DEF Items
    <2>2. CASE operator \in {"==", "in"}
      <3>1. {values[i] : i \in DOMAIN values} \subseteq Keys
        BY ValuesAreKeys
      <3>2. Started = ListedKeys({values[i] : i \in DOMAIN values}, s, included, ascending)
        BY <2>2, Zenon DEF ItemsFromStart
      <3>3. Started \in SUBSET Keys
        BY <3>1, <3>2, Zenon DEF ListedKeys
      <3> QED
        BY <2>1, <3>3
    <2>3. CASE operator \in SimpleRanges
      <3>1. values[1] \in Keys
        BY <2>3, OperatorKinds, ValuesAreKeys
      <3>2. /\ operator = ">" => Started = GreaterThanKeys(values[1], s, included, ascending)
            /\ operator = ">=" => Started = GreaterThanOrEqualsKeys(values[1], s, included, ascending)
            /\ operator = "<" => Started = LessThanKeys(values[1], s, included, ascending)
            /\ operator = "<=" => Started = LessThanOrEqualsKeys(values[1], s, included, ascending)
        BY Zenon DEF ItemsFromStart
      <3>3. operator \in {">", ">=", "<", "<="}
        BY <2>3 DEF SimpleRanges, LowerBounds, UpperBounds
      <3> HIDE DEF Started
      <3>4. Started \in SUBSET Keys
        BY <3>1, <3>2, <3>3, PartsAreKeys
      <3> QED
        BY <2>1, <3>4
    <2>4. CASE operator \in Betweens
      <3>1. values[1] \in Keys /\ values[2] \in Keys
        BY <2>4, OperatorKinds, ValuesAreKeys
      <3>2. /\ operator = "between" =>
                 Started = BetweenKeys(values[1], values[2], s, included, ascending)
            /\ operator = "betweenExcludeBounds" =>
                 Started = BetweenExcludeBoundsKeys(values[1], values[2], s, included, ascending)
            /\ operator = "betweenExcludeLeft" =>
                 Started = BetweenExcludeLeftKeys(values[1], values[2], s, included, ascending)
            /\ operator = "betweenExcludeRight" =>
                 Started = BetweenExcludeRightKeys(values[1], values[2], s, included, ascending)
        BY Zenon DEF ItemsFromStart
      <3>3. operator \in {"between", "betweenExcludeBounds", "betweenExcludeLeft",
                          "betweenExcludeRight"}
        BY <2>4 DEF Betweens
      <3> HIDE DEF Started
      <3>4. Started \in SUBSET Keys
        BY <3>1, <3>2, <3>3, PartsBetweenAreKeys
      <3> QED
        BY <2>1, <3>4
    <2>5. CASE operator = "startsWith"
      <3>1. values[1] \in Keys /\ Successor[values[1]] \in Keys
        BY <2>5, ValuesAreKeys
      <3>2. Started =
              BetweenExcludeRightKeys(values[1], Successor[values[1]], s, included, ascending)
        BY <2>5, Zenon DEF ItemsFromStart, StartsWithKeys
      <3> HIDE DEF Started
      <3>3. Started \in SUBSET Keys
        BY <3>1, <3>2, PartsBetweenAreKeys
      <3> QED
        BY <2>1, <3>3
    <2> QED
      BY <2>2, <2>3, <2>4, <2>5 DEF Operators, ClosedRanges
  <1> QED
    BY <1>1, <1>2
-----------------------------------------------------------------------------
(* The level of a clause, of what is left over and of the ids.               *)
LEMMA LevelIs ==
  ASSUME NEW field \in Properties \cup {Zero}, NEW keys \in SUBSET Keys, NEW ascending \in BOOLEAN
  PROVE  LET level == Level(field, keys, ascending)
         IN  /\ level \in Levels /\ level.field = field /\ level.keys = keys
             /\ level.ascending = ascending
  BY DEF Level, Levels

LEMMA ParsedClauseFits ==
  ASSUME NEW c \in ParsedClauses, ValuesFit(c)
  PROVE  c.operator \in Operators /\ Fit(c.operator, c.values)
  <1>1. /\ c.operator \in Operators /\ c.values \in Seq(Keys)
        /\ c.operator \in {"=="} \cup SimpleRanges \cup {"startsWith"} => Len(c.values) = 1
        /\ c.operator = "startsWith" => c.values[1] \in DOMAIN Successor
    BY ParsedClauseType
  <1>2. c.operator \in Betweens => Len(c.values) = 2
    BY DEF ValuesFit, BetweenValuesFit
  <1>3. c.operator \notin Betweens \cup {"in"} =>
          c.operator \in {"=="} \cup SimpleRanges \cup {"startsWith"}
    BY <1>1 DEF Operators, ClosedRanges
  <1> QED
    BY <1>1, <1>2, <1>3 DEF Fit

LEMMA ClauseLevel ==
  ASSUME NEW c, c.operator \in Operators, Fit(c.operator, c.values), c.field \in Properties,
         NEW start, NEW q, q.included \in BOOLEAN
  PROVE  LET level == ClauseQuery(c, start, q)
             ascending == ~IsRange(c.operator) \/ Ascending(q, c.field)
             key == RawKey(start, c.field)
         IN  /\ level \in Levels /\ level.field = c.field /\ level.ascending = ascending
             /\ level.keys = Items(c.operator, c.values, key, q.included, ascending)
             /\ key = Missing =>
                  level.keys = {k \in Keys : Satisfies(k, c.operator, c.values)}
  <1> DEFINE ascending == ~IsRange(c.operator) \/ Ascending(q, c.field)
             key == RawKey(start, c.field)
             keys == Items(c.operator, c.values, key, q.included, ascending)
  <1>1. ascending \in BOOLEAN
    BY DEF Ascending
  <1>2. ClauseQuery(c, start, q) = Level(c.field, keys, ascending)
    BY DEF ClauseQuery
  <1>3. key = Missing => keys = {k \in Keys : Satisfies(k, c.operator, c.values)}
    BY ItemsSatisfyClause DEF Items
  <1> HIDE DEF ascending, key
  <1>4. keys \in SUBSET Keys
    BY <1>1, ItemsAreKeys
  <1> HIDE DEF keys
  <1>5. c.field \in Properties \cup {Zero}
    OBVIOUS
  <1>6. LET level == Level(c.field, keys, ascending)
        IN  /\ level \in Levels /\ level.field = c.field /\ level.keys = keys
            /\ level.ascending = ascending
    BY <1>1, <1>4, <1>5, LevelIs
  <1> QED
    BY <1>2, <1>3, <1>6 DEF ascending, key, keys

LEMMA StartLevel ==
  ASSUME NEW field \in Properties, NEW start, NEW included \in BOOLEAN, NEW ascending \in BOOLEAN
  PROVE  LET level == PartFromStart(field, start, included, ascending)
         IN  /\ level \in Levels /\ level.field = field /\ level.ascending = ascending
             /\ start = Missing => level.keys = Keys
  <1>1. /\ RangeFull = Keys /\ Key(Null) \in SUBSET Keys
    BY KeysAssumption DEF RangeFull, Key
  <1> DEFINE keys == IF start = Missing THEN RangeFull
                     ELSE IF RawKey(start, field) # Missing
                     THEN IF ascending THEN From(RawKey(start, field), included)
                          ELSE To(RawKey(start, field), included)
                     ELSE IF ascending THEN RangeFull ELSE Key(Null)
  <1>2. PartFromStart(field, start, included, ascending) = Level(field, keys, ascending)
    BY Zenon DEF PartFromStart, PartFromKey
  <1>3. keys \in SUBSET Keys
    BY <1>1, RangesAreKeys
  <1>4. start = Missing => keys = Keys
    BY <1>1
  <1> HIDE DEF keys
  <1> QED
    BY <1>2, <1>3, <1>4, LevelIs

LEMMA IdsLevel ==
  ASSUME NEW start, NEW included \in BOOLEAN, NEW ascending \in BOOLEAN
  PROVE  LET level == IdsFromStart(start, included, ascending)
         IN  /\ level \in Levels /\ level.field = Zero /\ level.ascending = ascending
             /\ start = Missing => level.keys = Keys
  <1> DEFINE keys == IF start = Missing THEN RangeFull ELSE From(start, included)
  <1>1. keys \in SUBSET Keys /\ (start = Missing => keys = Keys)
    BY RangesAreKeys DEF RangeFull
  <1>2. IdsFromStart(start, included, ascending) = Level(Zero, keys, ascending)
    BY DEF IdsFromStart
  <1> HIDE DEF keys
  <1> QED
    BY <1>1, <1>2, LevelIs

LEMMA LeftLevel ==
  ASSUME NEW left \in Seq(Properties), NEW k \in 1 .. Len(left), NEW q, q.included \in BOOLEAN
  PROVE  LET level == LeftOverLevel(left, k, q)
         IN  /\ level \in Levels /\ level.field = left[k]
             /\ level.ascending = (q.start = Missing \/ Ascending(q, left[k]))
             /\ q.start = Missing => level.keys = Keys
  <1> DEFINE field == left[k]
             key == IF RawKey(q.start, field) = Missing THEN Null ELSE RawKey(q.start, field)
             included == q.included \/ k < Len(left)
             asc == q.start = Missing \/ Ascending(q, field)
             keys == IF q.start = Missing THEN RangeFull
                     ELSE IF asc THEN From(key, included) ELSE To(key, included)
  <1>1. included \in BOOLEAN /\ asc \in BOOLEAN /\ field \in Properties
    BY LenProperties, ElementOfSeq DEF Ascending
  <1>2. keys \in SUBSET Keys /\ (q.start = Missing => keys = Keys)
    BY <1>1, RangesAreKeys DEF RangeFull
  <1>3. LeftOverLevel(left, k, q) = Level(field, keys, asc)
    <2>1. CASE q.start = Missing
      <3>1. asc = TRUE
        BY <2>1
      <3> QED
        BY <2>1, <3>1 DEF LeftOverLevel
    <2>2. CASE q.start # Missing
      <3>1. asc = Ascending(q, field)
        BY <2>2 DEF Ascending
      <3> QED
        BY <2>2, <3>1, Zenon DEF LeftOverLevel, PartFromKey
    <2> QED
      BY <2>1, <2>2
  <1> HIDE DEF keys, asc
  <1>4. LET level == Level(field, keys, asc)
        IN  /\ level \in Levels /\ level.field = field /\ level.keys = keys /\ level.ascending = asc
    BY <1>1, <1>2, LevelIs
  <1> QED
    BY <1>2, <1>3, <1>4 DEF asc
-----------------------------------------------------------------------------
(* The path query for an index: the levels of its first clauses, one or two, *)
(* and one for each property that is left over.                              *)
EqualityOn(ix, q, n) ==
  [field |-> ix.properties[n], operator |-> "==",
   values |-> <<q.clauses.equal[ix.properties[n]]>>, mirrored |-> FALSE]

(* How many properties the path has and how many levels come first.          *)
PathLength(q) ==
  IF q.clauses.in = Missing /\ q.clauses.range = Missing /\ EqualFields(q) # {}
  THEN Cardinality(EqualFields(q)) - 1 ELSE Cardinality(EqualFields(q))
FirstCount(q) == IF q.clauses.in # Missing /\ q.clauses.range # Missing THEN 2 ELSE 1

FirstLevel(ix, q) ==
  LET start == StartOfLastClause(ix, q)
  IN  IF q.clauses.in # Missing THEN ClauseQuery(q.clauses.in, start, q)
      ELSE IF q.clauses.range # Missing THEN ClauseQuery(q.clauses.range, start, q)
      ELSE IF EqualFields(q) # {}
      THEN ClauseQuery(EqualityOn(ix, q, Cardinality(EqualFields(q))), start, q)
      ELSE PartFromStart(ix.properties[1], q.start, q.included, TRUE)

FirstLevels(ix, q) ==
  IF FirstCount(q) = 2
  THEN <<FirstLevel(ix, q), ClauseQuery(q.clauses.range, q.start, q)>>
  ELSE <<FirstLevel(ix, q)>>

(* What remains of the properties below them, and the request they are read  *)
(* with.                                                                     *)
Below(ix, q) ==
  IF ClauseFields(q) = {} THEN Tail(LeftOver(ix, q)) ELSE LeftOver(ix, q)
Unordered(q) == IF ClauseFields(q) = {} THEN [q EXCEPT !.order = <<>>] ELSE q

LEMMA NoClauseFields ==
  ASSUME NEW q, Sound(q.clauses)
  PROVE  /\ ClauseFields(q) = {} <=> /\ EqualFields(q) = {} /\ q.clauses.in = Missing
                                     /\ q.clauses.range = Missing
         /\ EqualFields(q) = {} <=> Cardinality(EqualFields(q)) = 0
         /\ Cardinality(EqualFields(q)) \in Nat
  <1>1. IsFiniteSet(EqualFields(q)) /\ Cardinality(EqualFields(q)) \in Nat
    BY ClauseFieldCount
  <1>2. EqualFields(q) = {} <=> Cardinality(EqualFields(q)) = 0
    BY <1>1, FS_EmptySet
  <1>3. /\ FieldOf(q.clauses.in) = {} <=> q.clauses.in = Missing
        /\ FieldOf(q.clauses.range) = {} <=> q.clauses.range = Missing
    BY DEF FieldOf
  <1>4. ClauseFields(q) = {} <=> /\ EqualFields(q) = {} /\ q.clauses.in = Missing
                                 /\ q.clauses.range = Missing
    BY <1>3 DEF ClauseFields
  <1> QED
    BY <1>1, <1>2, <1>4

LEMMA TwoInARow ==
  ASSUME NEW x, NEW y
  PROVE  <<x>> \o <<y>> = <<x, y>>
  <1>1. <<x>> \in Seq({x, y}) /\ y \in {x, y} /\ <<x, y>> \in Seq({x, y})
    OBVIOUS
  <1>2. Append(<<x>>, y) = <<x>> \o <<y>>
    BY <1>1, AppendIsConcat
  <1>3. Append(<<x>>, y) = <<x, y>>
    <2>1. /\ Append(<<x>>, y) \in Seq({x, y}) /\ Len(Append(<<x>>, y)) = 2
          /\ Append(<<x>>, y)[1] = x /\ Append(<<x>>, y)[2] = y
      BY <1>1, AppendProperties
    <2>2. Len(<<x, y>>) = 2 /\ <<x, y>>[1] = x /\ <<x, y>>[2] = y
      OBVIOUS
    <2>3. \A k \in 1 .. 2 : <<x, y>>[k] = Append(<<x>>, y)[k]
      <3>1. \A k \in 1 .. 2 : k = 1 \/ k = 2
        OBVIOUS
      <3> QED
        BY <2>1, <2>2, <3>1, Zenon
    <2> DEFINE one == Append(<<x>>, y)
               two == <<x, y>>
    <2>4. one \in Seq({x, y}) /\ two \in Seq({x, y}) /\ Len(two) = 2 /\ Len(one) = 2
          /\ \A k \in 1 .. Len(one) : one[k] = two[k]
      BY <1>1, <2>1, <2>2, <2>3
    <2> HIDE DEF one, two
    <2>5. one = two
      BY <2>4, SeqEqual
    <2> QED
      BY <2>5 DEF one, two
  <1> QED
    BY <1>2, <1>3

LEMMA IndexQueryIs ==
  ASSUME NEW i \in DOMAIN Indices, NEW q, Readable(q), DistinctProperties,
         Serves(Indices[i], q)
  PROVE  LET ix == Indices[i]
         IN  /\ Intermediate(ix, q) = PathLength(q)
             /\ \E ascending \in BOOLEAN :
                  IndexQuery(ix, q) = Deepened(FirstLevels(ix, q), Below(ix, q), ix, Unordered(q), ascending)
  <1> DEFINE ix == Indices[i]
             e == q.clauses
             n == Cardinality(EqualFields(q))
             last == LastClause(ix, q)
             eq == EqualityOn(ix, q, n)
             first == ClauseQuery(last, StartOfLastClause(ix, q), q)
             left == LeftOver(ix, q)
  <1>1. /\ Sound(e) /\ n \in Nat /\ (EqualFields(q) = {} <=> n = 0)
        /\ ClauseFields(q) = {} <=> n = 0 /\ e.in = Missing /\ e.range = Missing
    BY NoClauseFields DEF Readable
  <1>2. /\ e.in # Missing => last = e.in /\ e.in.operator = "in"
        /\ e.in = Missing /\ e.range # Missing => last = e.range /\ e.range.operator # "=="
        /\ e.in = Missing /\ e.range = Missing /\ n = 0 => last = Missing
        /\ e.in = Missing /\ e.range = Missing /\ n # 0 => last = eq
    BY <1>1, OperatorKinds DEF LastClause, EqualityOn, Sound, OnClause
  <1>3. n # 0 => eq # Missing /\ eq.operator = "=="
    <2>1. SUFFICES ASSUME n # 0 PROVE eq # Missing /\ eq.operator = "=="
      OBVIOUS
    <2>2. /\ n <= Size(i) /\ \A k \in 1 .. Size(i) : ix.properties[k] \in EqualFields(q) <=> k <= n
          /\ Size(i) \in Nat
      <3>1. /\ Cardinality(ClauseFields(q)) \in 0 .. Size(i)
            /\ Cardinality(EqualFields(q)) <= Cardinality(ClauseFields(q))
            /\ \A k \in 1 .. Size(i) : ix.properties[k] \in EqualFields(q)
                                         <=> k <= Cardinality(EqualFields(q))
        BY ServesShape
      <3>2. Size(i) \in Nat
        BY IndexType
      <3> HIDE DEF n
      <3> QED
        BY <1>1, <3>1, <3>2 DEF n
    <2>3. ix.properties[n] \in Properties /\ ix.properties[n] \in EqualFields(q)
      <3>1. n \in 1 .. Size(i)
        BY <1>1, <2>1, <2>2
      <3> HIDE DEF n
      <3> QED
        BY <1>1, <2>2, <3>1, IndexType
    <2>4. e.equal[ix.properties[n]] \in Keys
      BY <1>1, <2>3 DEF Sound, EqualFields
    <2>5. eq \in Clauses /\ eq.operator = "=="
      <3>1. <<e.equal[ix.properties[n]]>> \in Seq(Keys)
        BY <2>4
      <3>2. "==" \in Operators
        BY DEF Operators
      <3> QED
        BY <2>3, <3>1, <3>2 DEF EqualityOn, Clauses
    <2> QED
      BY <2>5, ClausesAssumption
  <1> HIDE DEF n, eq, last
  <1>4. Intermediate(ix, q) = PathLength(q)
    <2>1. Intermediate(ix, q) = IF n > 0 /\ last.operator = "==" THEN n - 1 ELSE n
      BY DEF Intermediate, n, last
    <2>2. PathLength(q) = IF e.in = Missing /\ e.range = Missing /\ n # 0 THEN n - 1 ELSE n
      BY <1>1 DEF PathLength, n
    <2>3. n # 0 <=> n > 0
      BY <1>1
    <2> QED
      BY <1>2, <1>3, <2>1, <2>2, <2>3
  <1>5. \E ascending \in BOOLEAN :
           IndexQuery(ix, q) = Deepened(FirstLevels(ix, q), Below(ix, q), ix, Unordered(q), ascending)
    <2>1. CASE last = Missing
      <3>1. n = 0 /\ e.in = Missing /\ e.range = Missing
        BY <1>2, <1>3, <2>1 DEF Sound
      <3>2. ClauseFields(q) = {} /\ EqualFields(q) = {}
        BY <1>1, <3>1
      <3>3. Head(left) = ix.properties[1]
        <4>1. left = Without(ix.properties, {})
          BY <3>2 DEF LeftOver
        <4>2. ix.properties \in Seq(Properties) /\ Len(ix.properties) = Size(i) /\ Size(i) >= 1
              /\ Size(i) \in Nat
          BY IndexType DEF Size
        <4>3. 0 \in 0 .. Len(ix.properties)
              /\ \A k \in 1 .. Len(ix.properties) : ix.properties[k] \in {} <=> k <= 0
          BY <4>2
        <4>4. /\ left \in Seq(Properties) /\ Len(left) = Len(ix.properties) - 0
              /\ \A k \in 1 .. Len(ix.properties) - 0 : left[k] = ix.properties[0 + k]
          BY <4>1, <4>2, <4>3, WithoutFirst DEF IsRest
        <4>5. left[1] = ix.properties[1] /\ Head(left) = left[1]
          BY <4>2, <4>4
        <4> QED
          BY <4>5
      <3>4. FirstLevels(ix, q) = <<PartFromStart(Head(left), q.start, q.included, TRUE)>>
        <4>1. FirstCount(q) # 2
          BY <3>1 DEF FirstCount
        <4> QED
          BY <3>1, <3>2, <3>3, <4>1, Zenon DEF FirstLevels, FirstLevel
      <3>5. Below(ix, q) = Tail(left) /\ Unordered(q) = [q EXCEPT !.order = <<>>]
        BY <3>2 DEF Below, Unordered
      <3>6. IndexQuery(ix, q) =
              Deepened(<<PartFromStart(Head(left), q.start, q.included, TRUE)>>, Tail(left), ix,
                       [q EXCEPT !.order = <<>>], TRUE)
        BY <2>1, Zenon DEF IndexQuery, last
      <3> QED
        BY <3>4, <3>5, <3>6, Zenon
    <2>2. CASE last # Missing
      <3>1. ~(n = 0 /\ e.in = Missing /\ e.range = Missing)
        BY <1>2, <2>2
      <3>2. Below(ix, q) = left /\ Unordered(q) = q
        BY <1>1, <3>1 DEF Below, Unordered
      <3>3. FirstLevel(ix, q) = first
        <4>1. EqualFields(q) # {} <=> n # 0
          BY <1>1
        <4>2. eq = EqualityOn(ix, q, Cardinality(EqualFields(q)))
          BY DEF eq, n
        <4>3. CASE e.in # Missing
          BY <1>2, <4>3, Zenon DEF FirstLevel
        <4>4. CASE e.in = Missing /\ e.range # Missing
          BY <1>2, <4>4, Zenon DEF FirstLevel
        <4>5. CASE e.in = Missing /\ e.range = Missing
          BY <1>2, <3>1, <4>1, <4>2, <4>5, Zenon DEF FirstLevel
        <4> QED
          BY <4>3, <4>4, <4>5
      <3> DEFINE second == IF SubqueryClause(q) = Missing THEN <<>>
                           ELSE <<ClauseQuery(SubqueryClause(q), q.start, q)>>
      <3>4. <<first>> \o second = FirstLevels(ix, q)
        <4>1. CASE e.in # Missing /\ e.range # Missing
          <5>1. SubqueryClause(q) = e.range /\ FirstCount(q) = 2
            BY <4>1 DEF SubqueryClause, FirstCount
          <5>2. second = <<ClauseQuery(e.range, q.start, q)>>
            BY <4>1, <5>1
          <5>3. FirstLevels(ix, q) = <<first, ClauseQuery(e.range, q.start, q)>>
            BY <3>3, <5>1 DEF FirstLevels
          <5>4. \A x, y : <<x>> \o <<y>> = <<x, y>>
            BY TwoInARow
          <5> HIDE DEF second, first
          <5> QED
            BY <5>2, <5>3, <5>4, Zenon
        <4>2. CASE ~(e.in # Missing /\ e.range # Missing)
          <5>1. SubqueryClause(q) = Missing /\ FirstCount(q) # 2
            BY <4>2 DEF SubqueryClause, FirstCount
          <5>2. second = <<>>
            BY <5>1
          <5>3. FirstLevels(ix, q) = <<first>>
            BY <3>3, <5>1 DEF FirstLevels
          <5>4. \A x : <<x>> \o <<>> = <<x>>
            OBVIOUS
          <5> HIDE DEF second, first
          <5> QED
            BY <5>2, <5>3, <5>4
        <4> QED
          BY <4>1, <4>2
      <3>5. IndexQuery(ix, q) = Deepened(<<first>> \o second, left, ix, q, first.ascending)
        BY <2>2, Zenon DEF IndexQuery, last
      <3>6. first.ascending \in BOOLEAN
        <4>1. first = Level(last.field,
                  Items(last.operator, last.values, RawKey(StartOfLastClause(ix, q), last.field), q.included,
                        ~IsRange(last.operator) \/ Ascending(q, last.field)),
                  ~IsRange(last.operator) \/ Ascending(q, last.field))
          BY DEF ClauseQuery
        <4>2. first.ascending = (~IsRange(last.operator) \/ Ascending(q, last.field))
          BY <4>1 DEF Level
        <4> QED
          BY <4>2
      <3> QED
        BY <3>2, <3>4, <3>5, <3>6, Zenon
    <2> QED
      BY <2>1, <2>2
  <1> QED
    BY <1>4, <1>5

LEMMA SeqByIndex ==
  ASSUME NEW S, NEW n \in Nat, NEW s \in [1 .. n -> S]
  PROVE  s \in Seq(S) /\ Len(s) = n /\ DOMAIN s = 1 .. n
  BY SeqDef, LenProperties

LEMMA LeftOverIs ==
  ASSUME NEW i \in DOMAIN Indices, NEW q, Readable(q), DistinctProperties,
         Serves(Indices[i], q)
  PROVE  LET c == Cardinality(ClauseFields(q))
             left == LeftOver(Indices[i], q)
         IN  /\ c \in 0 .. Size(i)
             /\ left \in Seq(Properties) /\ Len(left) = Size(i) - c /\ DOMAIN left = 1 .. Size(i) - c
             /\ \A k \in 1 .. Size(i) - c : left[k] = Indices[i].properties[c + k]
  <1> DEFINE c == Cardinality(ClauseFields(q))
             props == Indices[i].properties
             left == LeftOver(Indices[i], q)
  <1>1. /\ c \in 0 .. Size(i)
        /\ \A k \in 1 .. Size(i) : props[k] \in ClauseFields(q) <=> k <= c
    BY ServesShape
  <1>2. props \in Seq(Properties) /\ Size(i) = Len(props)
    BY IndexType DEF Size
  <1>3. left = Without(props, ClauseFields(q))
    BY DEF LeftOver
  <1>4. /\ c \in 0 .. Len(props)
        /\ \A k \in 1 .. Len(props) : props[k] \in ClauseFields(q) <=> k <= c
    BY <1>1, <1>2
  <1> HIDE DEF c, props, left
  <1>5. IsRest(left, Properties, props, c)
    BY <1>2, <1>3, <1>4, WithoutFirst
  <1> QED
    BY <1>1, <1>2, <1>5 DEF c, props, left, IsRest

LEMMA BelowIs ==
  ASSUME NEW i \in DOMAIN Indices, NEW q, Readable(q), DistinctProperties,
         Serves(Indices[i], q)
  PROVE  LET m == PathLength(q)
             f == FirstCount(q)
             rest == Below(Indices[i], q)
             c == Cardinality(ClauseFields(q))
         IN  /\ m \in Nat /\ f \in {1, 2} /\ m + f <= Size(i) /\ Size(i) \in Nat
             /\ c # 0 => c = m + f /\ ClauseFields(q) # {}
             /\ c = 0 => m = 0 /\ f = 1 /\ ClauseFields(q) = {}
             /\ rest \in Seq(Properties) /\ Len(rest) = Size(i) - (m + f)
             /\ DOMAIN rest = 1 .. Size(i) - (m + f)
             /\ \A k \in 1 .. Size(i) - (m + f) : rest[k] = Indices[i].properties[m + f + k]
  <1> DEFINE m == PathLength(q)
             f == FirstCount(q)
             c == Cardinality(ClauseFields(q))
             n == Cardinality(EqualFields(q))
             N == Size(i)
             props == Indices[i].properties
             left == LeftOver(Indices[i], q)
             rest == Below(Indices[i], q)
             ni == IF q.clauses.in = Missing THEN 0 ELSE 1
             nr == IF q.clauses.range = Missing THEN 0 ELSE 1
  <1>1. /\ Sound(q.clauses) /\ n \in Nat /\ (EqualFields(q) = {} <=> n = 0)
        /\ ClauseFields(q) = {} <=> n = 0 /\ q.clauses.in = Missing /\ q.clauses.range = Missing
    BY NoClauseFields DEF Readable
  <1>2. /\ c \in 0 .. N /\ left \in Seq(Properties) /\ Len(left) = N - c /\ DOMAIN left = 1 .. N - c
        /\ \A k \in 1 .. N - c : left[k] = props[c + k]
    BY LeftOverIs
  <1>3. c = n + ni + nr
    BY ServesShape
  <1>4. N \in Nat /\ N >= 1
    BY IndexType
  <1>5. /\ m = IF ni = 0 /\ nr = 0 /\ n # 0 THEN n - 1 ELSE n
        /\ f = IF ni = 1 /\ nr = 1 THEN 2 ELSE 1
        /\ ClauseFields(q) = {} <=> n = 0 /\ ni = 0 /\ nr = 0
        /\ ni \in {0, 1} /\ nr \in {0, 1}
    BY <1>1 DEF PathLength, FirstCount
  <1>6. rest = IF ClauseFields(q) = {} THEN Tail(left) ELSE left
    BY DEF Below
  <1> HIDE DEF m, f, c, n, ni, nr, N, props, left, rest
  <1>7. /\ m \in Nat /\ f \in {1, 2} /\ m + f <= N
        /\ c # 0 => c = m + f /\ ClauseFields(q) # {}
        /\ c = 0 => m = 0 /\ f = 1 /\ ClauseFields(q) = {}
    BY <1>1, <1>2, <1>3, <1>4, <1>5
  <1>8. /\ rest \in Seq(Properties) /\ Len(rest) = N - (m + f) /\ DOMAIN rest = 1 .. N - (m + f)
        /\ \A k \in 1 .. N - (m + f) : rest[k] = props[m + f + k]
    <2>1. CASE c = 0
      <3>1. rest = Tail(left) /\ Len(left) = N /\ left # <<>>
        <4>1. Len(left) # 0
          BY <1>2, <1>4, <2>1
        <4>2. left # <<>>
          BY <4>1
        <4> QED
          BY <1>2, <1>6, <1>7, <2>1, <4>2, <1>4
      <3>2. rest \in Seq(Properties) /\ Len(rest) = N - 1
        BY <1>2, <3>1, HeadTailProperties
      <3>3. \A k \in 1 .. N - 1 : rest[k] = left[k + 1]
        BY <1>2, <3>1, HeadTailProperties
      <3>4. \A k \in 1 .. N - 1 : k + 1 \in 1 .. N - c /\ c + (k + 1) = m + f + k
        BY <1>4, <1>7, <2>1
      <3>5. m + f = 1
        BY <1>7, <2>1
      <3> QED
        BY <1>2, <3>2, <3>3, <3>4, <3>5, LenProperties
    <2>2. CASE c # 0
      BY <1>2, <1>6, <1>7, <2>2
    <2> QED
      BY <2>1, <2>2
  <1> QED
    BY <1>4, <1>7, <1>8 DEF m, f, c, N, props, left, rest

(* What a path query nested over levels and left over properties is.         *)
IsDeepened(query, firsts, left, ix, q) ==
  LET f == Len(firsts)
      l == Len(left)
  IN  /\ query.levels \in Seq(Levels) /\ Len(query.levels) = f + l
      /\ \A k \in 1 .. f : query.levels[k] = firsts[k]
      /\ \A k \in 1 .. l : query.levels[f + k] = LeftOverLevel(left, k, q)
      /\ IF ix.unique THEN query.ids = Missing
         ELSE query.ids \in Levels /\ query.ids.field = Zero /\ query.ids.keys = Keys
      /\ query.idsOfNull \in Levels /\ query.idsOfNull.field = Zero
      /\ q.start = Missing => query.idsOfNull.keys = Keys

LEMMA DeepenedIs ==
  ASSUME NEW firsts \in Seq(Levels), NEW left \in Seq(Properties), NEW ix, ix.unique \in BOOLEAN,
         NEW q, q.included \in BOOLEAN, NEW ascending \in BOOLEAN
  PROVE  IsDeepened(Deepened(firsts, left, ix, q, ascending), firsts, left, ix, q)
  <1> DEFINE query == Deepened(firsts, left, ix, q, ascending)
             f == Len(firsts)
             l == Len(left)
             rest == [k \in DOMAIN left |-> LeftOverLevel(left, k, q)]
             asc == IF left = <<>> THEN ascending ELSE Ascending(q, Last(left))
             ids == IdsFromStart(Missing, q.included, asc)
             nulls == IdsFromStart(q.start, q.included, ix.unique \/ asc)
  <1>1. query = [levels |-> firsts \o rest, ids |-> IF ix.unique THEN Missing ELSE ids,
                 idsOfNull |-> nulls]
    BY DEF Deepened, Leaf
  <1>2. asc \in BOOLEAN
    BY DEF Ascending
  <1>3. ids \in Levels /\ ids.field = Zero /\ ids.keys = Keys
    <2> HIDE DEF asc
    <2> QED
      BY <1>2, IdsLevel
  <1>4. /\ nulls \in Levels /\ nulls.field = Zero
        /\ q.start = Missing => nulls.keys = Keys
    <2> DEFINE a == ix.unique \/ asc
    <2>1. a \in BOOLEAN
      OBVIOUS
    <2> HIDE DEF a
    <2>2. LET level == IdsFromStart(q.start, q.included, a)
          IN  /\ level \in Levels /\ level.field = Zero
              /\ q.start = Missing => level.keys = Keys
      BY <2>1, IdsLevel
    <2> QED
      BY <2>2 DEF a
  <1>5. l \in Nat /\ DOMAIN left = 1 .. l /\ \A k \in 1 .. l : left[k] \in Properties
    BY LenProperties, ElementOfSeq
  <1>6. rest \in Seq(Levels) /\ Len(rest) = l
    <2>1. ASSUME NEW k \in 1 .. l PROVE LeftOverLevel(left, k, q) \in Levels
      BY LeftLevel
    <2>2. rest \in [1 .. l -> Levels]
      BY <1>5, <2>1
    <2> HIDE DEF rest, l
    <2> QED
      BY <1>5, <2>2, SeqByIndex
  <1>7. \A k \in 1 .. l : rest[k] = LeftOverLevel(left, k, q)
    BY <1>5
  <1> HIDE DEF rest, asc, ids, nulls, query
  <1>8. /\ firsts \o rest \in Seq(Levels) /\ Len(firsts \o rest) = f + l
        /\ \A k \in 1 .. f : (firsts \o rest)[k] = firsts[k]
        /\ \A k \in 1 .. l : (firsts \o rest)[f + k] = LeftOverLevel(left, k, q)
    <2>1. firsts \o rest \in Seq(Levels) /\ Len(firsts \o rest) = f + l /\ f \in Nat
      <3>1. firsts \o rest \in Seq(Levels) /\ Len(firsts \o rest) = f + Len(rest)
        BY <1>6, ConcatProperties
      <3>2. f \in Nat
        BY LenProperties
      <3> QED
        BY <1>6, <3>1, <3>2
    <2>2. /\ \A k \in 1 .. f + l :
               (firsts \o rest)[k] = IF k <= f THEN firsts[k] ELSE rest[k - f]
      BY <1>6, ConcatProperties
    <2>3. \A k \in 1 .. f : k \in 1 .. f + l /\ k <= f
      BY <1>5, <2>1
    <2>4. \A k \in 1 .. l : f + k \in 1 .. f + l /\ ~(f + k <= f) /\ (f + k) - f = k
      BY <1>5, <2>1
    <2> HIDE DEF f, l
    <2> QED
      BY <1>7, <2>1, <2>2, <2>3, <2>4
  <1>9. /\ query.levels = firsts \o rest /\ query.idsOfNull = nulls
        /\ query.ids = IF ix.unique THEN Missing ELSE ids
    BY <1>1
  <1>10. /\ query.levels \in Seq(Levels) /\ Len(query.levels) = f + l
         /\ \A k \in 1 .. f : query.levels[k] = firsts[k]
         /\ \A k \in 1 .. l : query.levels[f + k] = LeftOverLevel(left, k, q)
    <2> HIDE DEF f, l
    <2> QED
      BY <1>8, <1>9, Zenon
  <1>11. /\ IF ix.unique THEN query.ids = Missing
            ELSE query.ids \in Levels /\ query.ids.field = Zero /\ query.ids.keys = Keys
         /\ query.idsOfNull \in Levels /\ query.idsOfNull.field = Zero
         /\ q.start = Missing => query.idsOfNull.keys = Keys
    BY <1>3, <1>4, <1>9
  <1> QED
    <2>1. IsDeepened(query, firsts, left, ix, q)
      BY <1>10, <1>11 DEF IsDeepened
    <2> QED
      BY <2>1 DEF query

(* A clause that has a level, and where in the index its property is.        *)
HasLevel(c, property) ==
  /\ c.operator \in Operators /\ Fit(c.operator, c.values)
  /\ c.field = property /\ c.field \in Properties

ClausesOrderable(ix, q) == Orderable(LastClause(ix, q), q) /\ Orderable(SubqueryClause(q), q)

LEMMA ClausesOfQuery ==
  ASSUME NEW i \in DOMAIN Indices, NEW q, Readable(q), DistinctProperties,
         Serves(Indices[i], q), ClausesOrderable(Indices[i], q)
  PROVE  LET m == PathLength(q)
             f == FirstCount(q)
             n == Cardinality(EqualFields(q))
             e == q.clauses
             props == Indices[i].properties
         IN  /\ e.in # Missing =>
                  HasLevel(e.in, props[m + 1]) /\ e.in.operator = "in" /\ ValuesFit(e.in)
             /\ e.range # Missing =>
                  HasLevel(e.range, props[m + f]) /\ e.range.operator \in RangeOperators
             /\ e.in = Missing /\ e.range = Missing /\ EqualFields(q) # {} =>
                  /\ m + 1 = n /\ HasLevel(EqualityOn(Indices[i], q, n), props[m + 1])
                  /\ props[m + 1] \in EqualFields(q)
             /\ \A k \in 1 .. m : props[k] \in EqualFields(q) /\ e.equal[props[k]] \in Keys
             /\ e.in # Missing \/ e.range # Missing => m = n
             /\ EqualFields(q) = {} => m = 0
             /\ \A k \in 1 .. Size(i) : props[k] \in EqualFields(q) <=> k <= n
             /\ n \in Nat
  <1> DEFINE m == PathLength(q)
             f == FirstCount(q)
             n == Cardinality(EqualFields(q))
             c == Cardinality(ClauseFields(q))
             e == q.clauses
             ix == Indices[i]
             props == ix.properties
             N == Size(i)
             ni == IF e.in = Missing THEN 0 ELSE 1
             nr == IF e.range = Missing THEN 0 ELSE 1
  <1>1. /\ Sound(e) /\ n \in Nat /\ (EqualFields(q) = {} <=> n = 0)
    BY NoClauseFields DEF Readable
  <1>2. /\ c \in 0 .. N /\ n <= c /\ c = n + ni + nr
        /\ \A k \in 1 .. N : props[k] \in EqualFields(q) <=> k <= n
        /\ ClauseFields(q) = {props[k] : k \in 1 .. c}
        /\ e.in # Missing => props[n + 1] = e.in.field
        /\ e.range # Missing => props[c] = e.range.field
    BY ServesShape
  <1>3. N \in Nat /\ \A k \in 1 .. N : props[k] \in Properties
    BY IndexType
  <1>4. /\ m = IF ni = 0 /\ nr = 0 /\ n # 0 THEN n - 1 ELSE n
        /\ f = IF ni = 1 /\ nr = 1 THEN 2 ELSE 1
        /\ e.in = Missing <=> ni = 0
        /\ e.range = Missing <=> nr = 0
        /\ ni \in {0, 1} /\ nr \in {0, 1}
    BY <1>1 DEF PathLength, FirstCount
  <1>5. /\ e.in # Missing => ValuesFit(e.in)
        /\ e.range # Missing => ValuesFit(e.range)
    BY DEF ClausesOrderable, LastClause, SubqueryClause, Orderable
  <1>6. /\ e.in # Missing => e.in \in ParsedClauses /\ e.in.operator = "in"
        /\ e.range # Missing => e.range \in ParsedClauses /\ e.range.operator \in RangeOperators
        /\ \A p \in EqualFields(q) : e.equal[p] \in Keys
    BY <1>1 DEF Sound, OnClause, EqualFields
  <1>7. /\ e.in # Missing => Fit(e.in.operator, e.in.values) /\ e.in.operator \in Operators
        /\ e.range # Missing => Fit(e.range.operator, e.range.values) /\ e.range.operator \in Operators
    BY <1>5, <1>6, ParsedClauseFits
  <1>8. EqualityOn(ix, q, n).field = props[n] /\ EqualityOn(ix, q, n).operator = "=="
        /\ EqualityOn(ix, q, n).values = <<e.equal[props[n]]>>
    BY DEF EqualityOn
  <1> HIDE DEF m, f, n, c, e, ix, props, N, ni, nr
  <1>9. e.in # Missing => e.in.field = props[m + 1] /\ e.in.field \in Properties /\ m = n
    <2>1. SUFFICES ASSUME e.in # Missing
                   PROVE  e.in.field = props[m + 1] /\ e.in.field \in Properties /\ m = n
      OBVIOUS
    <2>2. ni = 1 /\ m = n /\ n + 1 \in 1 .. N
      BY <1>1, <1>2, <1>3, <1>4, <2>1
    <2> QED
      BY <1>2, <1>3, <2>1, <2>2
  <1>10. e.range # Missing => e.range.field = props[m + f] /\ e.range.field \in Properties /\ m = n
    <2>1. SUFFICES ASSUME e.range # Missing
                   PROVE  e.range.field = props[m + f] /\ e.range.field \in Properties /\ m = n
      OBVIOUS
    <2>2. m = n /\ m + f = c /\ c \in 1 .. N
      BY <1>1, <1>2, <1>3, <1>4, <2>1
    <2> QED
      BY <1>2, <1>3, <2>1, <2>2
  <1>11. ASSUME e.in = Missing, e.range = Missing, EqualFields(q) # {}
         PROVE  /\ m + 1 = n /\ HasLevel(EqualityOn(ix, q, n), props[m + 1])
                /\ props[m + 1] \in EqualFields(q)
    <2>1. m + 1 = n /\ n \in 1 .. N /\ n <= n
      BY <1>1, <1>2, <1>3, <1>4, <1>11
    <2>2. props[n] \in EqualFields(q) /\ props[n] \in Properties /\ e.equal[props[n]] \in Keys
      BY <1>2, <1>3, <1>6, <2>1
    <2>3. Fit("==", <<e.equal[props[n]]>>) /\ "==" \in Operators
      <3>1. <<e.equal[props[n]]>> \in Seq(Keys) /\ Len(<<e.equal[props[n]]>>) = 1
        BY <2>2
      <3>2. "==" \notin Betweens /\ "==" # "startsWith" /\ "==" \in Operators
        BY DEF Betweens, Operators
      <3> QED
        BY <3>1, <3>2 DEF Fit
    <2> QED
      BY <1>8, <2>1, <2>2, <2>3 DEF HasLevel
  <1>12. ASSUME NEW k \in 1 .. m PROVE props[k] \in EqualFields(q) /\ e.equal[props[k]] \in Keys
    <2>1. k \in 1 .. N /\ k <= n
      BY <1>1, <1>2, <1>3, <1>4
    <2> QED
      BY <1>2, <1>6, <2>1
  <1>13. EqualFields(q) = {} => m = 0
    BY <1>1, <1>4
  <1>14. /\ e.in # Missing =>
              HasLevel(e.in, props[m + 1]) /\ e.in.operator = "in" /\ ValuesFit(e.in)
         /\ e.range # Missing =>
              HasLevel(e.range, props[m + f]) /\ e.range.operator \in RangeOperators
    BY <1>5, <1>6, <1>7, <1>9, <1>10 DEF HasLevel
  <1> QED
    BY <1>1, <1>2, <1>9, <1>10, <1>11, <1>12, <1>13, <1>14 DEF m, f, n, e, ix, props, N

(* The first levels are of the next properties.                              *)
LEMMA FirstLevelsAre ==
  ASSUME NEW i \in DOMAIN Indices, NEW q, Readable(q), DistinctProperties,
         Serves(Indices[i], q), ClausesOrderable(Indices[i], q)
  PROVE  LET firsts == FirstLevels(Indices[i], q)
             f == FirstCount(q)
         IN  /\ firsts \in Seq(Levels) /\ Len(firsts) = f
             /\ \A k \in 1 .. f : firsts[k].field = Indices[i].properties[PathLength(q) + k]
             /\ firsts[1] = FirstLevel(Indices[i], q)
             /\ f = 2 => firsts[2] = ClauseQuery(q.clauses.range, q.start, q)
  <1> DEFINE m == PathLength(q)
             f == FirstCount(q)
             n == Cardinality(EqualFields(q))
             e == q.clauses
             ix == Indices[i]
             props == ix.properties
             start == StartOfLastClause(ix, q)
             first == FirstLevel(ix, q)
             second == ClauseQuery(e.range, q.start, q)
             eq == EqualityOn(ix, q, n)
             firsts == FirstLevels(ix, q)
  <1>1. /\ e.in # Missing => HasLevel(e.in, props[m + 1])
        /\ e.range # Missing => HasLevel(e.range, props[m + f])
        /\ e.in = Missing /\ e.range = Missing /\ EqualFields(q) # {} => HasLevel(eq, props[m + 1])
        /\ EqualFields(q) = {} => m = 0 \/ e.in # Missing \/ e.range # Missing
    BY ClausesOfQuery
  <1>2. q.included \in BOOLEAN /\ props[1] \in Properties
    BY IndexType DEF Readable
  <1>3. f = IF e.in # Missing /\ e.range # Missing THEN 2 ELSE 1
    BY DEF FirstCount
  <1>4. \A c, s, p : HasLevel(c, p) => ClauseQuery(c, s, q) \in Levels /\ ClauseQuery(c, s, q).field = p
    BY <1>2, ClauseLevel DEF HasLevel
  <1>5. LET level == PartFromStart(props[1], q.start, q.included, TRUE)
        IN  level \in Levels /\ level.field = props[1]
    BY <1>2, StartLevel
  <1>6. first \in Levels /\ first.field = props[m + 1]
    <2>1. CASE e.in # Missing
      <3>1. first = ClauseQuery(e.in, start, q)
        BY <2>1 DEF FirstLevel
      <3> QED
        BY <1>1, <1>4, <2>1, <3>1
    <2>2. CASE e.in = Missing /\ e.range # Missing
      <3>1. first = ClauseQuery(e.range, start, q) /\ f = 1
        BY <1>3, <2>2 DEF FirstLevel
      <3> HIDE DEF first, m, f
      <3> QED
        BY <1>1, <1>4, <2>2, <3>1
    <2>3. CASE e.in = Missing /\ e.range = Missing /\ EqualFields(q) # {}
      <3>1. first = ClauseQuery(eq, start, q)
        BY <2>3 DEF FirstLevel
      <3> HIDE DEF first, m, f, eq
      <3> QED
        BY <1>1, <1>4, <2>3, <3>1
    <2>4. CASE e.in = Missing /\ e.range = Missing /\ EqualFields(q) = {}
      <3>1. first = PartFromStart(props[1], q.start, q.included, TRUE)
        BY <2>4 DEF FirstLevel
      <3>2. m + 1 = 1
        <4>1. m = 0
          BY <2>4, ClausesOfQuery
        <4> QED
          BY <4>1
      <3> HIDE DEF first, m
      <3> QED
        BY <1>5, <3>1, <3>2
    <2> QED
      BY <2>1, <2>2, <2>3, <2>4
  <1>7. f = 2 => second \in Levels /\ second.field = props[m + 2]
    BY <1>1, <1>3, <1>4
  <1>8. firsts = IF f = 2 THEN <<first, second>> ELSE <<first>>
    BY DEF FirstLevels
  <1> HIDE DEF first, second, m, f, firsts
  <1>9. CASE f = 2
    <2>1. firsts \in Seq(Levels) /\ Len(firsts) = 2 /\ firsts[1] = first /\ firsts[2] = second
      BY <1>6, <1>7, <1>8, <1>9
    <2>2. \A k \in 1 .. 2 : k = 1 \/ k = 2
      OBVIOUS
    <2> QED
      BY <1>6, <1>7, <1>9, <2>1, <2>2 DEF first, second, m, f, firsts
  <1>10. CASE f = 1
    <2>1. firsts \in Seq(Levels) /\ Len(firsts) = 1 /\ firsts[1] = first
      BY <1>6, <1>8, <1>10
    <2>2. \A k \in 1 .. 1 : k = 1
      OBVIOUS
    <2> QED
      BY <1>6, <1>10, <2>1, <2>2 DEF first, second, m, f, firsts
  <1> QED
    BY <1>3, <1>9, <1>10

LEMMA UnorderedIs ==
  ASSUME NEW q, Readable(q)
  PROVE  /\ Unordered(q).start = q.start /\ Unordered(q).included = q.included
         /\ q.included \in BOOLEAN /\ q.start \in Ids \cup {Missing} /\ q.limit \in Nat
         /\ Sound(q.clauses)
  BY DEF Readable, Unordered

(* The path: each property with the value the request asks for.              *)
LEMMA QueryPathIs ==
  ASSUME NEW i \in DOMAIN Indices, NEW q, Readable(q), DistinctProperties,
         Serves(Indices[i], q), ClausesOrderable(Indices[i], q)
  PROVE  LET m == PathLength(q)
             path == QueryPath(Indices[i], q)
         IN  /\ path \in Seq(PathKeys \cup Keys) /\ Len(path) = 2 * m /\ FirstFields(path, i, m)
             /\ \A k \in 1 .. m : path[2 * k] = q.clauses.equal[Indices[i].properties[k]]
             /\ Intermediate(Indices[i], q) = m
  <1> DEFINE m == PathLength(q)
             ix == Indices[i]
             props == ix.properties
             path == QueryPath(ix, q)
             KeyOf(l) == IF l % 2 = 1 THEN props[(l + 1) \div 2] ELSE q.clauses.equal[props[(l + 1) \div 2]]
  <1>1. Intermediate(ix, q) = m
    BY IndexQueryIs
  <1>2. m \in Nat /\ m <= Size(i) /\ Size(i) \in Nat
    <2>1. FirstCount(q) \in {1, 2} /\ m + FirstCount(q) <= Size(i) /\ m \in Nat /\ Size(i) \in Nat
      BY BelowIs
    <2> HIDE DEF m
    <2> QED
      BY <2>1
  <1>3. \A k \in 1 .. m : props[k] \in EqualFields(q) /\ q.clauses.equal[props[k]] \in Keys
    BY ClausesOfQuery
  <1>4. \A k \in 1 .. m : props[k] \in PathKeys
    BY <1>2, IndexType DEF PathKeys
  <1>5. path = [l \in 1 .. 2 * m |-> KeyOf(l)]
    BY <1>1 DEF QueryPath
  <1> HIDE DEF m, props, path
  <1>6. ASSUME NEW k \in 1 .. m
        PROVE  /\ 2 * k \in 1 .. 2 * m /\ 2 * k - 1 \in 1 .. 2 * m
               /\ KeyOf(2 * k - 1) = props[k] /\ KeyOf(2 * k) = q.clauses.equal[props[k]]
    <2>1. /\ 2 * k \in 1 .. 2 * m /\ 2 * k - 1 \in 1 .. 2 * m
          /\ (2 * k) % 2 = 0 /\ (2 * k - 1) % 2 = 1
          /\ (2 * k + 1) \div 2 = k /\ (2 * k - 1 + 1) \div 2 = k
      BY <1>2
    <2> QED
      BY <2>1
  <1>7. \A l \in 1 .. 2 * m : KeyOf(l) \in PathKeys \cup Keys
    <2> TAKE l \in 1 .. 2 * m
    <2>1. PICK k \in 1 .. m : l = 2 * k - 1 \/ l = 2 * k
      BY <1>2, OddOrEven
    <2> HIDE DEF KeyOf
    <2> QED
      BY <1>3, <1>4, <1>6, <2>1
  <1>8. 2 * m \in Nat
    BY <1>2
  <1>9. /\ path \in [1 .. 2 * m -> PathKeys \cup Keys] /\ \A l \in 1 .. 2 * m : path[l] = KeyOf(l)
    <2> HIDE DEF KeyOf
    <2> QED
      BY <1>5, <1>7
  <1> HIDE DEF KeyOf
  <1>10. path \in Seq(PathKeys \cup Keys) /\ Len(path) = 2 * m
    BY <1>8, <1>9, SeqByIndex
  <1>11. /\ \A k \in 1 .. m : path[2 * k - 1] = props[k]
         /\ \A k \in 1 .. m : path[2 * k] = q.clauses.equal[props[k]]
    BY <1>6, <1>9
  <1> QED
    BY <1>1, <1>10, <1>11 DEF m, props, path, FirstFields

(* The path query for an index that serves a request, level by level.        *)
LEMMA IndexQueryLevels ==
  ASSUME NEW i \in DOMAIN Indices, NEW q, Readable(q), DistinctProperties,
         Serves(Indices[i], q), ClausesOrderable(Indices[i], q)
  PROVE  LET m == PathLength(q)
             f == FirstCount(q)
             ix == Indices[i]
             query == IndexQuery(ix, q)
         IN  /\ QueryShape(i, m, query, QueryPath(ix, q))
             /\ \A k \in 1 .. f : query.levels[k] = FirstLevels(ix, q)[k]
             /\ \A k \in 1 .. Size(i) - (m + f) :
                  query.levels[f + k] = LeftOverLevel(Below(ix, q), k, Unordered(q))
             /\ ~ix.unique => query.ids.keys = Keys
             /\ q.start = Missing => query.idsOfNull.keys = Keys
  <1> DEFINE m == PathLength(q)
             f == FirstCount(q)
             ix == Indices[i]
             props == ix.properties
             query == IndexQuery(ix, q)
             path == QueryPath(ix, q)
             firsts == FirstLevels(ix, q)
             rest == Below(ix, q)
             u == Unordered(q)
             N == Size(i)
             l == N - (m + f)
  <1>1. /\ m \in Nat /\ f \in {1, 2} /\ m + f <= N /\ N \in Nat
        /\ rest \in Seq(Properties) /\ Len(rest) = l
        /\ \A k \in 1 .. l : rest[k] = props[m + f + k]
    BY BelowIs
  <1>2. /\ firsts \in Seq(Levels) /\ Len(firsts) = f
        /\ \A k \in 1 .. f : firsts[k].field = props[m + k]
    BY FirstLevelsAre
  <1>3. PICK ascending \in BOOLEAN : query = Deepened(firsts, rest, ix, u, ascending)
    BY IndexQueryIs
  <1>4. ix.unique \in BOOLEAN /\ u.start = q.start /\ u.included \in BOOLEAN
    BY IndexType, UnorderedIs
  <1>5. /\ path \in Seq(PathKeys \cup Keys) /\ Len(path) = 2 * m /\ FirstFields(path, i, m)
    BY QueryPathIs
  <1> HIDE DEF m, f, query, path, firsts, rest, u, props, N
  <1>6. /\ query.levels \in Seq(Levels) /\ Len(query.levels) = f + l
        /\ \A k \in 1 .. f : query.levels[k] = firsts[k]
        /\ \A k \in 1 .. l : query.levels[f + k] = LeftOverLevel(rest, k, u)
        /\ IF ix.unique THEN query.ids = Missing
           ELSE query.ids \in Levels /\ query.ids.field = Zero /\ query.ids.keys = Keys
        /\ query.idsOfNull \in Levels /\ query.idsOfNull.field = Zero
        /\ q.start = Missing => query.idsOfNull.keys = Keys
    <2>1. IsDeepened(query, firsts, rest, ix, u)
      BY <1>1, <1>2, <1>3, <1>4, DeepenedIs
    <2> QED
      BY <1>1, <1>2, <1>4, <2>1 DEF IsDeepened
  <1>7. \A k \in 1 .. l : LeftOverLevel(rest, k, u).field = props[m + f + k]
    BY <1>1, <1>4, LeftLevel
  <1>8. f + l = N - m /\ m \in 0 .. N - 1
    BY <1>1
  <1>9. ASSUME NEW k \in 1 .. N - m PROVE query.levels[k].field = props[m + k]
    <2>1. CASE k <= f
      <3>1. k \in 1 .. f
        BY <1>1, <2>1
      <3> QED
        BY <1>2, <1>6, <3>1
    <2>2. CASE ~(k <= f)
      <3>1. k - f \in 1 .. l /\ f + (k - f) = k /\ m + f + (k - f) = m + k
        BY <1>1, <2>2
      <3> QED
        BY <1>6, <1>7, <3>1
    <2> QED
      BY <2>1, <2>2
  <1>10. QueryShape(i, m, query, path)
    BY <1>5, <1>6, <1>8, <1>9 DEF QueryShape, N, props
  <1> QED
    BY <1>6, <1>10 DEF m, f, query, path, firsts, rest, u, N
-----------------------------------------------------------------------------
(* An answer lists documents: the first of them, in the order of s.          *)
AtTime(q) == KeepsHistory /\ q.clauses.idEqual # Missing /\ q.time # Missing
Documented(q, id) ==
  [id |-> id, document |-> IF AtTime(q) THEN VersionAsOf(id, q.time) ELSE Current(id)]

Enumerates(s, S) ==
  LET n == Cardinality(S)
  IN  /\ IsFiniteSet(S) /\ n \in Nat /\ s \in [1 .. n -> S]
      /\ \A x, y \in 1 .. n : s[x] = s[y] => x = y
      /\ \A id \in S : \E x \in 1 .. n : s[x] = id

IsListing(answer, q, s, S, limit) ==
  LET n == Fewer(Cardinality(S), limit)
  IN  /\ answer.status = "ok" /\ Enumerates(s, S) /\ n \in Nat /\ n <= Cardinality(S)
      /\ answer.found = [x \in 1 .. n |-> Documented(q, s[x])]
      /\ answer.found \in Seq({Documented(q, id) : id \in S}) /\ Len(answer.found) = n
      /\ DOMAIN answer.found = 1 .. n /\ \A x \in 1 .. n : answer.found[x].id = s[x]

LEMMA ListingMade ==
  ASSUME NEW q, NEW S, NEW s, Enumerates(s, S), NEW limit \in Nat,
         NEW l, l = Fewer(Cardinality(S), limit),
         NEW answer, answer = Found([x \in 1 .. l |-> Documented(q, s[x])])
  PROVE  IsListing(answer, q, s, S, limit)
  <1> DEFINE n == Cardinality(S)
             found == [x \in 1 .. l |-> Documented(q, s[x])]
             D == {Documented(q, id) : id \in S}
  <1>1. n \in Nat /\ s \in [1 .. n -> S]
    BY DEF Enumerates
  <1>2. l \in Nat /\ l <= n
    BY <1>1 DEF Fewer
  <1>3. \A x \in 1 .. l : s[x] \in S
    BY <1>1, <1>2
  <1>4. \A x \in 1 .. l : found[x] \in D
    BY <1>3
  <1>5. found \in Seq(D) /\ Len(found) = l /\ DOMAIN found = 1 .. l
    <2>1. found \in [1 .. l -> D]
      BY <1>4
    <2> HIDE DEF found
    <2> QED
      BY <1>2, <2>1, SeqByIndex
  <1>6. \A x \in 1 .. l : found[x].id = s[x]
    BY DEF Documented
  <1>7. answer.status = "ok" /\ answer.found = found
    BY DEF Found
  <1> HIDE DEF found
  <1>8. found = [x \in 1 .. l |-> Documented(q, s[x])]
    BY DEF found
  <1> QED
    BY <1>2, <1>5, <1>6, <1>7, <1>8 DEF IsListing

(* If nothing is selected there are no results.                              *)
LEMMA NothingListed ==
  ASSUME NEW q, NEW limit \in Nat, NEW answer, answer = Found(<<>>), NEW S, S = {}
  PROVE  \E s : IsListing(answer, q, s, S, limit)
  <1> DEFINE s == [x \in 1 .. 0 |-> Null]
  <1>1. Cardinality(S) = 0 /\ IsFiniteSet(S)
    BY FS_EmptySet
  <1>2. 1 .. 0 = {}
    OBVIOUS
  <1>3. Enumerates(s, S)
    BY <1>1, <1>2 DEF Enumerates
  <1>4. Fewer(Cardinality(S), limit) = 0
    BY <1>1 DEF Fewer
  <1>5. <<>> = [x \in 1 .. 0 |-> Documented(q, s[x])]
    BY <1>2
  <1> HIDE DEF s
  <1> QED
    BY <1>3, <1>4, <1>5, ListingMade

LEMMA DocumentsListed ==
  ASSUME NEW q, q.clauses.idEqual = Missing, NEW S, S \in SUBSET Ids, NEW s, Enumerates(s, S),
         NEW limit \in Nat
  PROVE  IsListing(DocumentsOf(FirstOf(s, limit)), q, s, S, limit)
  <1> DEFINE n == Cardinality(S)
             l == Fewer(n, limit)
             first == FirstOf(s, limit)
             marks == {first[x] : x \in DOMAIN first}
  <1>1. n \in Nat /\ s \in [1 .. n -> S]
    BY DEF Enumerates
  <1>2. /\ DOMAIN first = 1 .. l /\ l \in Nat /\ l <= n
        /\ \A x \in 1 .. l : first[x] = s[x]
    <2> HIDE DEF n
    <2>1. l \in Nat /\ l <= n /\ IsFirst(first, s, S, l)
      BY <1>1, FirstOfElements
    <2> QED
      BY <2>1 DEF IsFirst
  <1>3. \A x \in 1 .. l : s[x] \in S
    BY <1>1, <1>2
  <1> HIDE DEF first, l, n
  <1>4. marks \in SUBSET Ids
    BY <1>2, <1>3
  <1>5. NotFound \notin marks /\ Tree \notin marks
    BY <1>4, NotFoundAssumption, TreeAssumption
  <1>6. DocumentsOf(first) = Found([x \in 1 .. l |-> [id |-> first[x], document |-> Current(first[x])]])
    BY <1>2, <1>5 DEF DocumentsOf
  <1>7. ~AtTime(q)
    BY DEF AtTime
  <1>8. DocumentsOf(first) = Found([x \in 1 .. l |-> Documented(q, s[x])])
    BY <1>2, <1>6, <1>7 DEF Documented
  <1>9. l = Fewer(Cardinality(S), limit)
    BY DEF l, n
  <1> QED
    BY <1>8, <1>9, ListingMade DEF first

LEMMA NothingFound ==
  ASSUME NEW limit \in Nat
  PROVE  DocumentsOf(FirstOf(<<NotFound>>, limit)) = Found(<<>>)
  <1> DEFINE l == Fewer(1, limit)
             s == <<NotFound>>
             first == FirstOf(s, limit)
             marks == {first[x] : x \in DOMAIN first}
  <1>1. l \in 0 .. 1
    BY DEF Fewer
  <1>2. s \in [1 .. 1 -> {NotFound}] /\ \A x \in 1 .. 1 : s[x] = NotFound
    OBVIOUS
  <1>3. IsFirst(first, s, {NotFound}, l)
    <2> HIDE DEF s
    <2> QED
      BY <1>2, FirstOfElements
  <1>4. DOMAIN first = 1 .. l /\ \A x \in 1 .. l : first[x] = NotFound
    <2>1. \A x \in 1 .. l : x \in 1 .. 1
      BY <1>1
    <2> HIDE DEF first, s, l
    <2> QED
      BY <1>2, <1>3, <2>1 DEF IsFirst
  <1> HIDE DEF first, l
  <1>5. CASE l = 0
    <2>1. DOMAIN first = {}
      BY <1>4, <1>5
    <2>2. NotFound \notin marks /\ Tree \notin marks
      BY <2>1
    <2>3. DocumentsOf(first) = Found([x \in DOMAIN first |->
                                        [id |-> first[x], document |-> Current(first[x])]])
      BY <2>2 DEF DocumentsOf
    <2>4. [x \in DOMAIN first |-> [id |-> first[x], document |-> Current(first[x])]] = <<>>
      BY <2>1
    <2> QED
      BY <2>3, <2>4 DEF first
  <1>6. CASE l = 1
    <2>1. 1 \in DOMAIN first /\ first[1] = NotFound
      BY <1>4, <1>6
    <2>2. NotFound \in marks
      BY <2>1
    <2> QED
      BY <2>2 DEF DocumentsOf, first
  <1> QED
    BY <1>1, <1>5, <1>6

LEMMA AnswerByIs ==
  ASSUME NEW ix, NEW q, ClausesOrderable(ix, q)
  PROVE  AnswerBy(ix, q) = DocumentsOf(FirstOf(Elements(IndexQuery(ix, q), QueryPath(ix, q)), q.limit))
  <1> DEFINE query == IndexQuery(ix, q)
             path == QueryPath(ix, q)
             all == Elements(query, path)
             first == FirstOf(all, q.limit)
  <1>1. Once(LAMBDA y : Elements(y, path), query) = all
    <2> HIDE DEF query, path
    <2>1. {Elements(x, path) : x \in {query}} = {Elements(query, path)}
      OBVIOUS
    <2>2. (CHOOSE y \in {Elements(query, path)} : TRUE) = Elements(query, path)
      OBVIOUS
    <2> QED
      BY <2>1, <2>2 DEF Once
  <1>2. Once(DocumentsOf, first) = DocumentsOf(first)
    <2> HIDE DEF first
    <2>1. {DocumentsOf(x) : x \in {first}} = {DocumentsOf(first)}
      OBVIOUS
    <2>2. (CHOOSE y \in {DocumentsOf(first)} : TRUE) = DocumentsOf(first)
      OBVIOUS
    <2> QED
      BY <2>1, <2>2 DEF Once
  <1>3. AnswerBy(ix, q) =
          Once(DocumentsOf, FirstOf(Once(LAMBDA y : Elements(y, path), query), q.limit))
    BY DEF AnswerBy, ClausesOrderable
  <1> QED
    BY <1>1, <1>2, <1>3

(* By an index the documents come that it leads to, each once, by the keys   *)
(* of its levels in turn.                                                    *)
LEMMA IndexAnswerIs ==
  ASSUME DistinctIndices, NoUniqueNulls, DistinctProperties, IsFiniteSet(Ids),
         Present \in Docs, Fits(index, Present),
         NEW i \in DOMAIN Indices, NEW q, Readable(q), q.clauses.idEqual = Missing,
         Serves(Indices[i], q), ClausesOrderable(Indices[i], q)
  PROVE  LET ix == Indices[i]
             m == PathLength(q)
             query == IndexQuery(ix, q)
             S == Selected(Present, i, m, query, QueryPath(ix, q))
         IN  \E s : /\ IsListing(AnswerBy(ix, q), q, s, S, q.limit)
                    /\ \A a, b \in 1 .. Cardinality(S) :
                         a < b => InTurn(Present, i, m, query, s[a], s[b])
  <1> DEFINE ix == Indices[i]
             m == PathLength(q)
             query == IndexQuery(ix, q)
             path == QueryPath(ix, q)
             S == Selected(Present, i, m, query, path)
             all == Elements(query, path)
  <1>1. QueryShape(i, m, query, path) /\ q.limit \in Nat
    BY IndexQueryLevels, UnorderedIs
  <1>2. AnswerBy(ix, q) = DocumentsOf(FirstOf(all, q.limit))
    BY AnswerByIs
  <1>3. S \in SUBSET Ids
    BY DEF Selected, StoredIn
  <1> HIDE DEF m, query, path
  <1>4. CASE Dangling(query, path)
    <2>1. S = {}
      BY <1>1, <1>4, DanglingSelectsNothing
    <2>2. all = <<NotFound>>
      BY <1>4 DEF Elements
    <2>3. AnswerBy(ix, q) = Found(<<>>)
      BY <1>1, <1>2, <2>2, NothingFound
    <2> HIDE DEF S, all
    <2>4. PICK s : IsListing(AnswerBy(ix, q), q, s, S, q.limit)
      BY <1>1, <2>1, <2>3, NothingListed
    <2>5. Cardinality(S) = 0
      BY <2>1, NoneIsNotOne
    <2>6. \A a, b \in 1 .. Cardinality(S) : FALSE
      BY <2>5
    <2> QED
      BY <2>4, <2>6 DEF m, query, path, S
  <1>5. CASE ~Dangling(query, path)
    <2>1. /\ IsFiniteSet(S) /\ Cardinality(S) \in Nat /\ all \in [1 .. Cardinality(S) -> S]
          /\ \A a, b \in 1 .. Cardinality(S) : all[a] = all[b] => a = b
          /\ \A id \in S : \E a \in 1 .. Cardinality(S) : all[a] = id
          /\ \A a, b \in 1 .. Cardinality(S) : a < b => InTurn(Present, i, m, query, all[a], all[b])
      BY <1>1, <1>5, ElementsAre
    <2> HIDE DEF S, all
    <2>2. Enumerates(all, S)
      BY <2>1 DEF Enumerates
    <2>3. IsListing(AnswerBy(ix, q), q, all, S, q.limit)
      BY <1>1, <1>2, <1>3, <2>2, DocumentsListed
    <2> QED
      BY <2>1, <2>3 DEF m, query, path, S
  <1> QED
    BY <1>4, <1>5

(* By the primary key the stored documents come whose ids are asked for.     *)
StoredKeys(q) == {id \in Ids \cap PrimaryKeys(q) : primary[id] # Missing}
PrimaryLimit(q) == IF q.clauses.idEqual # Missing THEN 1 ELSE q.limit

LEMMA PrimaryAnswerIs ==
  ASSUME IsFiniteSet(Ids), NEW q, Readable(q), PrimaryFits(q)
  PROVE  \E s : /\ IsListing(PrimaryAnswer(q), q, s, StoredKeys(q), PrimaryLimit(q))
                /\ \A a, b \in 1 .. Cardinality(StoredKeys(q)) :
                     a < b <=> Before(s[a], s[b], PrimaryAscending(q))
  <1> DEFINE S == StoredKeys(q)
             n == Cardinality(S)
             asc == PrimaryAscending(q)
             limit == PrimaryLimit(q)
             s == Sorted(S, asc)
             first == FirstOf(s, limit)
             l == Fewer(n, limit)
  <1>1. S \in SUBSET Keys /\ IsFiniteSet(S)
    <2>1. S \in SUBSET Ids
      BY DEF StoredKeys
    <2> QED
      BY <2>1, KeysAssumption, FS_Subset
  <1>2. asc \in BOOLEAN
    BY DEF PrimaryAscending
  <1>3. limit \in Nat
    BY UnorderedIs DEF PrimaryLimit
  <1>4. PrimaryAnswer(q) =
          Found([x \in DOMAIN first |-> Documented(q, first[x])])
    BY DEF PrimaryAnswer, StoredKeys, PrimaryLimit, Documented, AtTime
  <1> HIDE DEF S, asc, limit
  <1>5. /\ s \in [1 .. n -> S] /\ n \in Nat
        /\ \A i, j \in 1 .. n : i < j <=> Before(s[i], s[j], asc)
        /\ \A i, j \in 1 .. n : s[i] = s[j] => i = j
        /\ \A k \in S : \E i \in 1 .. n : s[i] = k
    BY <1>1, <1>2, SortedKeys
  <1> HIDE DEF s, n
  <1>6. Enumerates(s, S)
    BY <1>1, <1>5 DEF Enumerates, n
  <1>7. l \in Nat /\ IsFirst(first, s, S, l)
    BY <1>3, <1>5, FirstOfElements
  <1>8. PrimaryAnswer(q) = Found([x \in 1 .. l |-> Documented(q, s[x])])
    BY <1>4, <1>7 DEF IsFirst
  <1>9. IsListing(PrimaryAnswer(q), q, s, S, limit)
    BY <1>3, <1>6, <1>8, ListingMade DEF n
  <1> QED
    BY <1>5, <1>9 DEF S, asc, limit, n
-----------------------------------------------------------------------------
LEMMA OrderByType ==
  ASSUME NEW order \in Orders
  PROVE  OrderBy(order) \in Orders
  BY WithoutType DEF OrderBy, Orders

(* A request that is parsed is one that can be read.                         *)
LEMMA ParsedReadable ==
  ASSUME NEW r \in WellFormed, Parsed(r) # Missing
  PROVE  /\ Readable(Parsed(r))
         /\ Parsed(r).order = IF r.sql THEN r.order ELSE OrderBy(r.order)
  <1> DEFINE s == [r EXCEPT !.start = Missing, !.time = Missing]
             b == [r EXCEPT !.order = OrderBy(r.order)]
             w == ParsedFrom(r)
             e == Extracted(w)
             Requested == [sql : BOOLEAN, clauses : {e}, order : Orders, limit : Nat,
                           start : Ids \cup {Missing}, included : BOOLEAN, time : Times \cup {Missing}]
  <1>1. r \in [sql : BOOLEAN, clauses : Seq(RequestClauses), order : Orders, limit : Nat,
               start : Ids \cup {Missing}, included : BOOLEAN, time : Times \cup {Missing}]
    BY DEF WellFormed, Orders
  <1>2. Extractable(w) /\ (\A i \in DOMAIN r.clauses : w[i] # Missing) /\ Parsed(r).clauses = e
    BY ParsedIs
  <1>3. Sound(e)
    <2>1. w \in Seq(ParsedClauses)
      BY <1>2, WrittenMeaning
    <2> HIDE DEF w
    <2> QED
      BY <1>2, <2>1, ExtractedSound
  <1>4. OrderBy(r.order) \in Orders
    BY <1>1, OrderByType
  <1> HIDE DEF e
  <1>5. CASE r.sql
    <2> DEFINE written == [i \in DOMAIN r.clauses |-> FromOperation(r.clauses[i])]
    <2>1. Parsed(r) = WithClauses(s, written)
      BY <1>5 DEF Parsed, FromSqlExpr
    <2>2. written = w
      BY <1>5 DEF ParsedFrom
    <2>3. [s EXCEPT !.clauses = e] \in Requested /\ [s EXCEPT !.clauses = e].order = r.order
      BY <1>1
    <2> HIDE DEF s, written, w
    <2>4. Parsed(r) = [s EXCEPT !.clauses = e]
      BY <2>1, <2>2 DEF WithClauses, e, w
    <2>5. Parsed(r) \in Requested /\ Parsed(r).order = r.order
      BY <2>3, <2>4
    <2> QED
      BY <1>2, <1>3, <1>5, <2>5 DEF Readable
  <1>6. CASE ~r.sql
    <2> DEFINE written == [i \in DOMAIN r.clauses |-> FromComponents(r.clauses[i])]
    <2>1. Parsed(r) = WithClauses(b, written)
      BY <1>6 DEF Parsed, FromCbor
    <2>2. written = w
      BY <1>6 DEF ParsedFrom
    <2>3. [b EXCEPT !.clauses = e] \in Requested /\ [b EXCEPT !.clauses = e].order = OrderBy(r.order)
      BY <1>1, <1>4
    <2> HIDE DEF b, written, w
    <2>4. Parsed(r) = [b EXCEPT !.clauses = e]
      BY <2>1, <2>2 DEF WithClauses, e, w
    <2>5. Parsed(r) \in Requested /\ Parsed(r).order = OrderBy(r.order)
      BY <2>3, <2>4
    <2> QED
      BY <1>2, <1>3, <1>6, <2>5 DEF Readable
  <1> QED
    BY <1>1, <1>5, <1>6

(* How a request is answered.                                                *)
LEMMA AnswerIs ==
  ASSUME NEW r
  PROVE  /\ Answer(r) = Answered(Parsed(r))
         /\ Parsed(r) = Missing => Answer(r) = Refusal
  <1> DEFINE q == Parsed(r)
  <1>1. Answer(r) = Answered(q)
    <2> HIDE DEF q
    <2>1. {Answered(x) : x \in {q}} = {Answered(q)}
      OBVIOUS
    <2>2. (CHOOSE y \in {Answered(q)} : TRUE) = Answered(q)
      OBVIOUS
    <2>3. Answer(r) = Once(Answered, q)
      BY DEF Answer, q
    <2> QED
      BY <2>1, <2>2, <2>3 DEF Once
  <1> QED
    BY <1>1 DEF Answered

LEMMA BestIndexServes ==
  ASSUME NEW q, BestIndex(q) # Missing
  PROVE  \E i \in DOMAIN Indices : BestIndex(q) = Indices[i] /\ Serves(Indices[i], q)
  <1> DEFINE serving == {i \in DOMAIN Indices : Serves(Indices[i], q)}
             IsBest(i) == \A j \in serving :
               \/ Difference(Indices[i], q) < Difference(Indices[j], q)
               \/ Difference(Indices[i], q) = Difference(Indices[j], q) /\ i <= j
             best == CHOOSE i \in serving : IsBest(i)
  <1>1. /\ \E i \in serving : IsBest(i)
        /\ BestIndex(q) = Indices[best]
    BY DEF BestIndex
  <1>2. best \in serving
    <2> HIDE DEF serving, IsBest
    <2> QED
      BY <1>1
  <1> QED
    BY <1>1, <1>2

LEMMA IndexAnswerBy ==
  ASSUME NEW q
  PROVE  IndexAnswer(q) = IF BestIndex(q) = Missing THEN Refusal ELSE AnswerBy(BestIndex(q), q)
  <1> DEFINE Of(ix) == IF ix = Missing THEN Refusal ELSE AnswerBy(ix, q)
             best == BestIndex(q)
  <1>1. IndexAnswer(q) = Once(LAMBDA ix : IF ix = Missing THEN Refusal ELSE AnswerBy(ix, q), best)
    BY DEF IndexAnswer
  <1> HIDE DEF best
  <1>2. {Of(x) : x \in {best}} = {Of(best)}
    <2> HIDE DEF Of
    <2> QED
      OBVIOUS
  <1>3. (CHOOSE y \in {Of(best)} : TRUE) = Of(best)
    <2> HIDE DEF Of
    <2> QED
      OBVIOUS
  <1>4. Once(LAMBDA ix : IF ix = Missing THEN Refusal ELSE AnswerBy(ix, q), best) = Of(best)
    BY <1>2, <1>3 DEF Once
  <1> QED
    BY <1>1, <1>4 DEF best

(* The keys of a stored document.                                            *)
DocumentKeys(id) == [f \in AnyField |-> ValueOf(id, f)]

LEMMA StoredKeysOf ==
  ASSUME IdApart, Present \in Docs, NEW id \in StoredIn(Present)
  PROVE  /\ id \in Ids /\ id \in Keys /\ Present[id] \in Documents /\ Present[id] = Current(id)
         /\ DocumentKeys(id) \in KeysOfDocument
         /\ \A f \in AnyField : DocumentKeys(id)[f] = ValueOf(id, f)
         /\ \A f \in Properties : /\ DocumentKeys(id)[f] = Present[id][f]
                                  /\ ValueOf(id, f) = Present[id][f] /\ ValueOf(id, f) \in Keys
         /\ DocumentKeys(id)[IdField] = id
  <1>1. id \in Ids /\ Present[id] \in Documents
    BY StoredDocument
  <1>2. Present[id] = Current(id)
    BY <1>1 DEF Present
  <1>3. \A f \in Properties : Present[id][f] \in Keys
    BY <1>1, DocumentsAssumption, KeysAssumption
  <1>4. \A f \in Properties : ValueOf(id, f) = Present[id][f] /\ ValueOf(id, f) \in Keys
    BY <1>2, <1>3 DEF ValueOf, IdApart
  <1>5. ValueOf(id, IdField) = id /\ id \in Keys
    BY <1>1, KeysAssumption DEF ValueOf
  <1>6. \A f \in AnyField : ValueOf(id, f) \in Keys
    BY <1>4, <1>5 DEF AnyField
  <1> QED
    BY <1>1, <1>2, <1>4, <1>5, <1>6 DEF DocumentKeys, KeysOfDocument, AnyField

(* What a request says of a document is what its sorted clauses say.         *)
LEMMA MeetsParsed ==
  ASSUME IdApart, Present \in Docs, NEW r \in WellFormed, Parsed(r) # Missing,
         NEW id \in StoredIn(Present)
  PROVE  Meets(id, r.clauses) <=> MeetsExtracted(Parsed(r).clauses, DocumentKeys(id))
  <1> DEFINE v == DocumentKeys(id)
             w == ParsedFrom(r)
  <1>1. v \in KeysOfDocument /\ \A f \in AnyField : v[f] = ValueOf(id, f)
    BY StoredKeysOf
  <1>2. Extractable(w) /\ (\A i \in DOMAIN r.clauses : w[i] # Missing) /\ Parsed(r).clauses = Extracted(w)
    BY ParsedIs
  <1>3. \A i \in DOMAIN r.clauses : r.clauses[i].field \in AnyField
    <2>1. r.clauses \in Seq(RequestClauses)
      BY DEF WellFormed
    <2>2. \A i \in DOMAIN r.clauses : r.clauses[i] \in RequestClauses
      BY <2>1, LenProperties, ElementOfSeq
    <2> QED
      BY <2>2 DEF RequestClauses
  <1> HIDE DEF v, w
  <1>4. Meets(id, r.clauses) <=> \A i \in DOMAIN r.clauses : Says(r.clauses[i], v)
    BY <1>1, <1>3 DEF Meets, Says
  <1>5. /\ w \in Seq(ParsedClauses)
        /\ (\A i \in DOMAIN r.clauses : Says(r.clauses[i], v)) <=> \A i \in DOMAIN w : Holds(w[i], v)
    BY <1>1, <1>2, WrittenMeaning DEF w
  <1>6. ParsedClauses \in SUBSET Clause(AnyField)
    BY DEF ParsedClauses, RequestClauses, Clause
  <1>7. Missing \notin Clause(AnyField)
    <2>1. Clause(AnyField) \in SUBSET Clauses
      BY DEF Clause, Clauses, AnyField
    <2> QED
      BY <2>1, ClausesAssumption
  <1>8. w \in Seq(Clause(AnyField))
    BY <1>5, <1>6
  <1>9. (\A i \in DOMAIN w : Holds(w[i], v)) <=> MeetsExtracted(Extracted(w), v)
    BY <1>2, <1>7, <1>8, ExtractedKeepsMeaning
  <1> QED
    BY <1>2, <1>4, <1>5, <1>9 DEF v

(* The keys of the first levels, without a start.                            *)
LEMMA FirstKeys ==
  ASSUME NEW i \in DOMAIN Indices, NEW q, Readable(q), DistinctProperties,
         Serves(Indices[i], q), ClausesOrderable(Indices[i], q), q.start = Missing
  PROVE  LET ix == Indices[i]
             e == q.clauses
             first == FirstLevel(ix, q)
             second == ClauseQuery(e.range, q.start, q)
             Met(c) == {k \in Keys : Satisfies(k, c.operator, c.values)}
             prop == ix.properties[PathLength(q) + 1]
         IN  /\ e.in # Missing => first.keys = Met(e.in)
             /\ e.in = Missing /\ e.range # Missing => first.keys = Met(e.range)
             /\ e.in = Missing /\ e.range = Missing /\ EqualFields(q) # {} => first.keys = {e.equal[prop]}
             /\ e.in = Missing /\ e.range = Missing /\ EqualFields(q) = {} => first.keys = Keys
             /\ e.in # Missing /\ e.range # Missing => second.keys = Met(e.range)
  <1> DEFINE ix == Indices[i]
             e == q.clauses
             n == Cardinality(EqualFields(q))
             props == ix.properties
             prop == props[PathLength(q) + 1]
             eq == EqualityOn(ix, q, n)
             start == StartOfLastClause(ix, q)
             first == FirstLevel(ix, q)
             Met(c) == {k \in Keys : Satisfies(k, c.operator, c.values)}
  <1>1. start = Missing /\ \A f : RawKey(Missing, f) = Missing
    BY DEF StartOfLastClause, RawKey
  <1>2. q.included \in BOOLEAN /\ props[1] \in Properties
    BY UnorderedIs, IndexType
  <1>3. \A c, p : HasLevel(c, p) => ClauseQuery(c, Missing, q).keys = Met(c)
    <2> TAKE c, p
    <2>1. SUFFICES ASSUME HasLevel(c, p) PROVE ClauseQuery(c, Missing, q).keys = Met(c)
      OBVIOUS
    <2>2. c.operator \in Operators /\ Fit(c.operator, c.values) /\ c.field \in Properties
      BY <2>1 DEF HasLevel
    <2> QED
      BY <1>1, <1>2, <2>2, ClauseLevel
  <1>4. /\ e.in # Missing => HasLevel(e.in, props[PathLength(q) + 1])
        /\ e.range # Missing => HasLevel(e.range, props[PathLength(q) + FirstCount(q)])
        /\ e.in = Missing /\ e.range = Missing /\ EqualFields(q) # {} =>
             PathLength(q) + 1 = n /\ HasLevel(eq, prop) /\ prop \in EqualFields(q)
        /\ \A k \in 1 .. Size(i) : props[k] \in EqualFields(q) <=> k <= n
        /\ n \in Nat
    BY ClausesOfQuery
  <1>5. ASSUME e.in = Missing, e.range = Missing, EqualFields(q) # {}
        PROVE  first.keys = {e.equal[prop]}
    <2>1. first.keys = Met(eq)
      BY <1>1, <1>3, <1>4, <1>5 DEF FirstLevel
    <2>2. eq.operator = "==" /\ eq.values = <<e.equal[prop]>>
      BY <1>4, <1>5 DEF EqualityOn
    <2>3. Sound(e)
      BY UnorderedIs
    <2>4. e.equal[prop] \in Keys
      BY <1>4, <1>5, <2>3 DEF Sound, EqualFields
    <2>5. \A k : Satisfies(k, "==", eq.values) <=> k = e.equal[prop]
      BY <2>2, SatisfiesCases
    <2> HIDE DEF eq, prop, first
    <2> QED
      BY <2>1, <2>2, <2>4, <2>5
  <1>6. ASSUME e.in = Missing, e.range = Missing, EqualFields(q) = {}
        PROVE  first.keys = Keys
    <2>1. first = PartFromStart(props[1], q.start, q.included, TRUE)
      BY <1>6 DEF FirstLevel
    <2>2. PartFromStart(props[1], Missing, q.included, TRUE) = Level(props[1], RangeFull, TRUE)
      BY DEF PartFromStart
    <2> HIDE DEF first
    <2>3. first = [field |-> props[1], keys |-> RangeFull, ascending |-> TRUE]
      BY <2>1, <2>2, Zenon DEF Level
    <2>4. first.keys = RangeFull
      BY <2>3
    <2> QED
      BY <2>4 DEF RangeFull
  <1>7. /\ e.in # Missing => first.keys = Met(e.in)
        /\ e.in = Missing /\ e.range # Missing => first.keys = Met(e.range)
    BY <1>1, <1>3, <1>4 DEF FirstLevel
  <1>8. e.in # Missing /\ e.range # Missing => ClauseQuery(e.range, q.start, q).keys = Met(e.range)
    BY <1>3, <1>4
  <1> QED
    BY <1>5, <1>6, <1>7, <1>8

(* The equalities are on the first properties.                               *)
LEMMA EqualitiesFirst ==
  ASSUME NEW i \in DOMAIN Indices, NEW q, Readable(q), DistinctProperties,
         Serves(Indices[i], q)
  PROVE  LET n == Cardinality(EqualFields(q))
         IN  n \in 0 .. Size(i) /\ EqualFields(q) = {Indices[i].properties[k] : k \in 1 .. n}
  <1> DEFINE n == Cardinality(EqualFields(q))
             c == Cardinality(ClauseFields(q))
             props == Indices[i].properties
  <1>1. /\ n \in Nat /\ c \in 0 .. Size(i) /\ n <= c
        /\ \A k \in 1 .. Size(i) : props[k] \in EqualFields(q) <=> k <= n
        /\ ClauseFields(q) = {props[k] : k \in 1 .. c}
    BY ServesShape
  <1>2. Size(i) \in Nat
    BY IndexType
  <1>3. EqualFields(q) \in SUBSET ClauseFields(q)
    BY DEF ClauseFields
  <1> HIDE DEF n, c, props
  <1>4. n \in 0 .. Size(i) /\ \A k \in 1 .. c : k \in 1 .. Size(i)
    BY <1>1, <1>2
  <1>5. \A k \in 1 .. n : k \in 1 .. Size(i) /\ k <= n
    BY <1>1, <1>4
  <1>6. \A k \in 1 .. Size(i) : k <= n => k \in 1 .. n
    BY <1>1, <1>2
  <1>7. EqualFields(q) = {props[k] : k \in 1 .. n}
    BY <1>1, <1>3, <1>4, <1>5, <1>6
  <1> QED
    BY <1>4, <1>7 DEF n, props

(* Without a start an index leads to the documents that meet the clauses.    *)
LEMMA SelectedMeets ==
  ASSUME IdApart, DistinctProperties, Present \in Docs,
         NEW i \in DOMAIN Indices, NEW q, Readable(q),
         q.clauses.idEqual = Missing, q.clauses.idIn = Missing,
         Serves(Indices[i], q), ClausesOrderable(Indices[i], q), q.start = Missing,
         NEW id \in StoredIn(Present)
  PROVE  LET ix == Indices[i]
         IN  id \in Selected(Present, i, PathLength(q), IndexQuery(ix, q), QueryPath(ix, q))
               <=> MeetsExtracted(q.clauses, DocumentKeys(id))
  <1> DEFINE ix == Indices[i]
             m == PathLength(q)
             f == FirstCount(q)
             n == Cardinality(EqualFields(q))
             e == q.clauses
             N == Size(i)
             props == ix.properties
             query == IndexQuery(ix, q)
             path == QueryPath(ix, q)
             d == Present[id]
             v == DocumentKeys(id)
             first == FirstLevel(ix, q)
             second == ClauseQuery(e.range, q.start, q)
             rest == Below(ix, q)
             l == N - (m + f)
             Met(c) == {k \in Keys : Satisfies(k, c.operator, c.values)}
  <1>1. /\ id \in Ids /\ id \in Keys /\ d \in Documents
        /\ \A p \in Properties : v[p] = d[p] /\ d[p] \in Keys
    <2>1. /\ id \in Ids /\ id \in Keys /\ Present[id] \in Documents
          /\ \A p \in Properties : DocumentKeys(id)[p] = Present[id][p]
          /\ \A p \in Properties : ValueOf(id, p) = Present[id][p]
          /\ \A p \in Properties : ValueOf(id, p) \in Keys
      BY StoredKeysOf
    <2> QED
      BY <2>1
  <1>2. /\ m \in Nat /\ f \in {1, 2} /\ m + f <= N /\ N \in Nat
        /\ rest \in Seq(Properties) /\ Len(rest) = l
    BY BelowIs
  <1>3. /\ QueryShape(i, m, query, path)
        /\ \A k \in 1 .. f : query.levels[k] = FirstLevels(ix, q)[k]
        /\ \A k \in 1 .. l : query.levels[f + k] = LeftOverLevel(rest, k, Unordered(q))
        /\ ~ix.unique => query.ids.keys = Keys
        /\ query.idsOfNull.keys = Keys
    BY IndexQueryLevels
  <1>4. \A k \in 1 .. m : path[2 * k] = e.equal[props[k]]
    BY QueryPathIs
  <1>5. FirstLevels(ix, q)[1] = first /\ (f = 2 => FirstLevels(ix, q)[2] = second)
    BY FirstLevelsAre
  <1>6. /\ e.in # Missing => e.in.field = props[m + 1]
        /\ e.range # Missing => e.range.field = props[m + f]
        /\ e.in = Missing /\ e.range = Missing /\ EqualFields(q) # {} => m + 1 = n
        /\ e.in # Missing \/ e.range # Missing => m = n
        /\ EqualFields(q) = {} => m = 0
    BY ClausesOfQuery DEF HasLevel
  <1>7. /\ e.in # Missing => first.keys = Met(e.in)
        /\ e.in = Missing /\ e.range # Missing => first.keys = Met(e.range)
        /\ e.in = Missing /\ e.range = Missing /\ EqualFields(q) # {} => first.keys = {e.equal[props[m + 1]]}
        /\ e.in = Missing /\ e.range = Missing /\ EqualFields(q) = {} => first.keys = Keys
        /\ e.in # Missing /\ e.range # Missing => second.keys = Met(e.range)
    BY FirstKeys
  <1>8. n \in 0 .. N /\ EqualFields(q) = {props[k] : k \in 1 .. n}
    BY EqualitiesFirst
  <1>9. \A k \in 1 .. N : props[k] \in Properties
    BY IndexType
  <1>10. f = IF e.in # Missing /\ e.range # Missing THEN 2 ELSE 1
    BY DEF FirstCount
  <1>11. \A k \in 1 .. l : LeftOverLevel(rest, k, Unordered(q)).keys = Keys
    <2>1. Unordered(q).start = Missing /\ Unordered(q).included \in BOOLEAN
      BY UnorderedIs
    <2> HIDE DEF rest
    <2> QED
      BY <1>2, <2>1, LeftLevel
  <1>12. id \in Selected(Present, i, m, query, path) <=>
           /\ FirstValues(path, i, m, d)
           /\ \A k \in 1 .. N - m : d[props[m + k]] \in query.levels[k].keys
           /\ ~ix.unique => id \in IdsFor(i, query, d).keys
    BY DEF Selected
  <1>13. MeetsExtracted(e, v) <=>
           /\ e.in # Missing => Holds(e.in, v)
           /\ e.range # Missing => Holds(e.range, v)
           /\ \A p \in EqualFields(q) : v[p] = e.equal[p]
    BY DEF MeetsExtracted, EqualFields
  <1>14. e.in = Missing /\ e.range = Missing /\ EqualFields(q) = {} => n = 0
    BY NoneIsNotOne
  <1>15. ~ix.unique => id \in IdsFor(i, query, d).keys
    BY <1>1, <1>3 DEF IdsFor
  <1> HIDE DEF m, f, n, e, ix, N, props, query, path, d, v, first, second, rest
  <1>16. FirstValues(path, i, m, d) <=> \A k \in 1 .. m : e.equal[props[k]] = d[props[k]]
    BY <1>4 DEF FirstValues, props, ix
  <1>17. (\A k \in 1 .. N - m : d[props[m + k]] \in query.levels[k].keys) <=>
           /\ d[props[m + 1]] \in first.keys
           /\ f = 2 => d[props[m + 2]] \in second.keys
    <2>1. query.levels[1] = first /\ (f = 2 => query.levels[2] = second)
      BY <1>2, <1>3, <1>5
    <2>2. ASSUME NEW k \in 1 .. N - m, k > f PROVE d[props[m + k]] \in query.levels[k].keys
      <3>1. k - f \in 1 .. l /\ f + (k - f) = k /\ m + k \in 1 .. N
        BY <1>2, <2>2
      <3>2. query.levels[k].keys = Keys
        BY <1>3, <1>11, <3>1
      <3> QED
        BY <1>1, <1>9, <3>1, <3>2
    <2>3. 1 \in 1 .. N - m /\ (f = 2 => 2 \in 1 .. N - m)
      BY <1>2
    <2>4. \A k \in 1 .. N - m : k = 1 \/ (f = 2 /\ k = 2) \/ k > f
      BY <1>2
    <2> QED
      BY <2>1, <2>2, <2>3, <2>4
  <1>18. MeetsExtracted(e, v) <=>
           /\ e.in # Missing => d[e.in.field] \in Met(e.in)
           /\ e.range # Missing => d[e.range.field] \in Met(e.range)
           /\ \A k \in 1 .. n : d[props[k]] = e.equal[props[k]]
    <2>1. \A k \in 1 .. n : props[k] \in Properties
      <3>1. \A k \in 1 .. n : k \in 1 .. N
        BY <1>2, <1>8
      <3> QED
        BY <1>9, <3>1
    <2>2. (\A p \in EqualFields(q) : v[p] = e.equal[p])
            <=> \A k \in 1 .. n : d[props[k]] = e.equal[props[k]]
      BY <1>1, <1>8, <2>1
    <2>3. e.in # Missing => (Holds(e.in, v) <=> d[e.in.field] \in Met(e.in))
      <3>1. SUFFICES ASSUME e.in # Missing PROVE Holds(e.in, v) <=> d[e.in.field] \in Met(e.in)
        OBVIOUS
      <3>2. e.in.field \in Properties
        BY <1>2, <1>6, <1>9, <3>1
      <3> QED
        BY <1>1, <3>2 DEF Holds
    <2>4. e.range # Missing => (Holds(e.range, v) <=> d[e.range.field] \in Met(e.range))
      <3>1. SUFFICES ASSUME e.range # Missing
                     PROVE  Holds(e.range, v) <=> d[e.range.field] \in Met(e.range)
        OBVIOUS
      <3>2. e.range.field \in Properties
        BY <1>2, <1>6, <1>9, <3>1
      <3> QED
        BY <1>1, <3>2 DEF Holds
    <2> HIDE DEF Met
    <2> QED
      BY <1>13, <2>2, <2>3, <2>4
  <1> HIDE DEF Met
  <1>19. CASE e.in # Missing
    BY <1>6, <1>7, <1>10, <1>12, <1>15, <1>16, <1>17, <1>18, <1>19
       DEF m, e, ix, query, path, v
  <1>20. CASE e.in = Missing /\ e.range # Missing
    BY <1>6, <1>7, <1>10, <1>12, <1>15, <1>16, <1>17, <1>18, <1>20
       DEF m, e, ix, query, path, v
  <1>21. CASE e.in = Missing /\ e.range = Missing /\ EqualFields(q) # {}
    <2>1. m + 1 = n /\ f = 1
      BY <1>6, <1>10, <1>21
    <2>2. (\A k \in 1 .. n : d[props[k]] = e.equal[props[k]]) <=>
            /\ \A k \in 1 .. m : e.equal[props[k]] = d[props[k]]
            /\ d[props[m + 1]] = e.equal[props[m + 1]]
      <3>1. \A k : k \in 1 .. n <=> k \in 1 .. m \/ k = m + 1
        BY <1>2, <1>8, <2>1
      <3> QED
        BY <3>1
    <2> QED
      BY <1>7, <1>12, <1>15, <1>16, <1>17, <1>18, <1>21, <2>1, <2>2 DEF m, e, ix, query, path, v
  <1>22. CASE e.in = Missing /\ e.range = Missing /\ EqualFields(q) = {}
    <2>1. n = 0 /\ m = 0 /\ f = 1
      BY <1>6, <1>10, <1>14, <1>22
    <2>2. (\A k \in 1 .. n : d[props[k]] = e.equal[props[k]])
          /\ (\A k \in 1 .. m : e.equal[props[k]] = d[props[k]])
      BY <2>1
    <2>3. d[props[m + 1]] \in first.keys
      <3>1. m + 1 \in 1 .. N
        BY <1>2, <2>1
      <3> QED
        BY <1>1, <1>7, <1>9, <1>22, <3>1
    <2> QED
      BY <1>12, <1>15, <1>16, <1>17, <1>18, <1>22, <2>1, <2>2, <2>3 DEF m, e, ix, query, path, v
  <1> QED
    BY <1>19, <1>20, <1>21, <1>22

(* By primary key a query finds the documents that meet its clause.          *)
LEMMA PrimaryKeyMeets ==
  ASSUME IdApart, PrimaryOK, NEW q, Readable(q), IsForPrimaryKey(q), q.start = Missing,
         NEW id \in StoredIn(Present)
  PROVE  /\ id \in StoredKeys(q) <=> MeetsExtracted(q.clauses, DocumentKeys(id))
         /\ q.clauses.idEqual # Missing => PrimaryKeys(q) = {q.clauses.idEqual.values[1]}
  <1> DEFINE e == q.clauses
             v == DocumentKeys(id)
  <1>1. /\ id \in Ids /\ id \in Keys /\ v[IdField] = id /\ primary[id] # Missing
    BY PresentType, StoredKeysOf DEF StoredIn
  <1>2. id \in StoredKeys(q) <=> id \in PrimaryKeys(q)
    BY <1>1 DEF StoredKeys
  <1>3. /\ OnClause(e.idEqual, {"=="}, {IdField}) /\ OnClause(e.idIn, {"in"}, {IdField})
        /\ e.idEqual # Missing \/ e.idIn # Missing =>
             e.in = Missing /\ e.range = Missing /\ DOMAIN e.equal = {}
        /\ e.idEqual = Missing \/ e.idIn = Missing
    BY DEF Readable, Sound
  <1>4. e.idEqual = Missing /\ e.idIn = Missing =>
          e.in = Missing /\ e.range = Missing /\ DOMAIN e.equal = {}
    BY DEF IsForPrimaryKey, HasClauses
  <1>5. MeetsExtracted(e, v) <=>
          /\ e.idEqual # Missing => Holds(e.idEqual, v)
          /\ e.idIn # Missing => Holds(e.idIn, v)
    BY <1>3, <1>4 DEF MeetsExtracted
  <1>6. CASE e.idEqual # Missing
    <2>1. e.idIn = Missing /\ e.idEqual.operator = "==" /\ e.idEqual.field = IdField
      BY <1>3, <1>6 DEF OnClause
    <2>2. PrimaryKeys(q) = {e.idEqual.values[1]}
      BY <1>6 DEF PrimaryKeys, Key
    <2>3. Holds(e.idEqual, v) <=> id = e.idEqual.values[1]
      BY <1>1, <2>1, SatisfiesCases DEF Holds
    <2> QED
      BY <1>2, <1>5, <1>6, <2>1, <2>2, <2>3
  <1>7. CASE e.idEqual = Missing /\ e.idIn # Missing
    <2>1. e.idIn.operator = "in" /\ e.idIn.field = IdField
      BY <1>3, <1>7 DEF OnClause
    <2>2. PrimaryKeys(q) = {e.idIn.values[x] : x \in DOMAIN e.idIn.values}
      BY <1>7 DEF PrimaryKeys
    <2>3. Holds(e.idIn, v) <=> \E x \in DOMAIN e.idIn.values : id = e.idIn.values[x]
      BY <1>1, <2>1, SatisfiesCases DEF Holds
    <2> QED
      BY <1>2, <1>5, <1>7, <2>2, <2>3
  <1>8. CASE e.idEqual = Missing /\ e.idIn = Missing
    <2>1. PrimaryKeys(q) = Keys
      BY <1>8 DEF PrimaryKeys, RangeFull
    <2> QED
      BY <1>1, <1>2, <1>5, <1>8, <2>1
  <1> QED
    BY <1>6, <1>7, <1>8

LEMMA PrimarySelects ==
  ASSUME IdApart, PrimaryOK, NEW q, Readable(q), IsForPrimaryKey(q), q.start = Missing
  PROVE  /\ StoredKeys(q) = {id \in StoredIn(Present) : MeetsExtracted(q.clauses, DocumentKeys(id))}
         /\ q.clauses.idEqual # Missing => Cardinality(StoredKeys(q)) <= 1
  <1>1. StoredKeys(q) \in SUBSET StoredIn(Present)
    BY PresentType DEF StoredKeys, StoredIn
  <1>2. ASSUME q.clauses.idEqual # Missing PROVE Cardinality(StoredKeys(q)) <= 1
    <2> DEFINE k == q.clauses.idEqual.values[1]
    <2>1. StoredKeys(q) \in SUBSET {k}
      BY <1>2 DEF StoredKeys, PrimaryKeys, Key
    <2> HIDE DEF k
    <2>2. StoredKeys(q) = {} \/ StoredKeys(q) = {k}
      BY <2>1
    <2>3. Cardinality({k}) = 1 /\ Cardinality({}) = 0
      BY FS_EmptySet, FS_Singleton
    <2> QED
      BY <2>2, <2>3
  <1> QED
    BY <1>1, <1>2, PrimaryKeyMeets

(* A parsed request that is not by primary key has no clause on it.          *)
LEMMA ByIndexOnly ==
  ASSUME NEW q, ~IsForPrimaryKey(q)
  PROVE  q.clauses.idEqual = Missing /\ q.clauses.idIn = Missing
  BY DEF IsForPrimaryKey

(* What is answered is a listing of all that meets the clauses.              *)
LEMMA AnsweredLists ==
  ASSUME DistinctIndices, NoUniqueNulls, DistinctProperties, IdApart, IsFiniteSet(Ids), StoreInv,
         NEW q, Readable(q), q.start = Missing, Cardinality(Ids) <= q.limit,
         Answered(q).status = "ok"
  PROVE  LET S == {id \in StoredIn(Present) : MeetsExtracted(q.clauses, DocumentKeys(id))}
         IN  /\ {Answered(q).found[x].id : x \in DOMAIN Answered(q).found} = S
             /\ Len(Answered(q).found) = Cardinality(S)
  <1> DEFINE S == {id \in StoredIn(Present) : MeetsExtracted(q.clauses, DocumentKeys(id))}
             a == Answered(q)
  <1>1. PrimaryOK /\ Present \in Docs /\ Fits(index, Present)
    BY PresentType DEF StoreInv
  <1>2. S \in SUBSET Ids
    BY DEF StoredIn
  <1>3. Cardinality(S) \in Nat /\ Cardinality(S) <= q.limit /\ q.limit \in Nat
    <2>1. q.limit \in Nat
      BY DEF Readable
    <2> QED
      BY <1>2, <2>1, FS_Subset, FS_CardinalityType
  <1>4. q # Missing /\ Refusal.status # "ok"
    BY <1>3, MissingIsNone DEF Refusal, Answered
  <1>5. ASSUME NEW limit, NEW s, IsListing(a, q, s, S, limit), Fewer(Cardinality(S), limit) = Cardinality(S)
        PROVE  {a.found[x].id : x \in DOMAIN a.found} = S /\ Len(a.found) = Cardinality(S)
    <2> HIDE DEF a, S
    <2>1. /\ DOMAIN a.found = 1 .. Cardinality(S) /\ Len(a.found) = Cardinality(S)
          /\ \A x \in 1 .. Cardinality(S) : a.found[x].id = s[x]
          /\ s \in [1 .. Cardinality(S) -> S]
          /\ \A id \in S : \E x \in 1 .. Cardinality(S) : s[x] = id
      BY <1>5 DEF IsListing, Enumerates
    <2> QED
      BY <2>1
  <1>6. CASE IsForPrimaryKey(q)
    <2>1. a = PrimaryAnswer(q)
      BY <1>4, <1>6 DEF Answered
    <2>2. PrimaryFits(q)
      BY <1>4, <2>1 DEF PrimaryAnswer
    <2>3. PICK s : IsListing(PrimaryAnswer(q), q, s, StoredKeys(q), PrimaryLimit(q))
      BY <2>2, PrimaryAnswerIs
    <2>4. StoredKeys(q) = S /\ (q.clauses.idEqual # Missing => Cardinality(S) <= 1)
      BY <1>1, <1>6, PrimarySelects
    <2>5. Fewer(Cardinality(S), PrimaryLimit(q)) = Cardinality(S)
      BY <1>3, <2>4 DEF Fewer, PrimaryLimit
    <2> HIDE DEF S, a
    <2> QED
      BY <1>5, <2>1, <2>3, <2>4, <2>5 DEF a, S
  <1>7. CASE ~IsForPrimaryKey(q)
    <2>1. a = IndexAnswer(q)
      BY <1>4, <1>7 DEF Answered
    <2>2. BestIndex(q) # Missing /\ a = AnswerBy(BestIndex(q), q)
      BY <1>4, <2>1, IndexAnswerBy
    <2>3. PICK i \in DOMAIN Indices : BestIndex(q) = Indices[i] /\ Serves(Indices[i], q)
      BY <2>2, BestIndexServes
    <2>4. ClausesOrderable(Indices[i], q)
      BY <1>4, <2>2, <2>3 DEF AnswerBy, ClausesOrderable
    <2>5. q.clauses.idEqual = Missing /\ q.clauses.idIn = Missing
      BY <1>7, ByIndexOnly
    <2> DEFINE T == Selected(Present, i, PathLength(q), IndexQuery(Indices[i], q), QueryPath(Indices[i], q))
    <2>6. \E s : IsListing(AnswerBy(Indices[i], q), q, s, T, q.limit)
      BY <1>1, <2>3, <2>4, <2>5, IndexAnswerIs
    <2>7. T = S
      <3>1. \A id \in StoredIn(Present) : id \in T <=> MeetsExtracted(q.clauses, DocumentKeys(id))
        BY <1>1, <2>3, <2>4, <2>5, SelectedMeets
      <3>2. T \in SUBSET StoredIn(Present)
        BY DEF Selected
      <3> QED
        BY <3>1, <3>2
    <2>8. Fewer(Cardinality(S), q.limit) = Cardinality(S)
      BY <1>3 DEF Fewer
    <2> HIDE DEF S, T, a
    <2> QED
      BY <1>5, <2>2, <2>3, <2>6, <2>7, <2>8 DEF a, S
  <1> QED
    BY <1>6, <1>7
-----------------------------------------------------------------------------
(* A request that is answered whenever its start is stored.                  *)
HasAnswer(q) ==
  IF IsForPrimaryKey(q) THEN PrimaryFits(q)
  ELSE BestIndex(q) # Missing /\ ClausesOrderable(BestIndex(q), q)

LEMMA AnsweredOk ==
  ASSUME DistinctIndices, NoUniqueNulls, DistinctProperties, IsFiniteSet(Ids), StoreInv,
         NEW q, q # Missing, Readable(q), q.start # Missing => primary[q.start] # Missing
  PROVE  /\ Answered(q).status = "ok" <=> HasAnswer(q)
         /\ Answered(q).status \in {"ok", "error"}
  <1>1. PrimaryOK /\ Present \in Docs /\ Fits(index, Present)
    BY PresentType DEF StoreInv
  <1>2. Refusal.status # "ok" /\ Refusal.status = "error"
    BY DEF Refusal
  <1>3. CASE IsForPrimaryKey(q)
    <2>1. Answered(q) = PrimaryAnswer(q) /\ (HasAnswer(q) <=> PrimaryFits(q))
      BY <1>3 DEF Answered, HasAnswer
    <2>2. ASSUME PrimaryFits(q) PROVE PrimaryAnswer(q).status = "ok"
      <3>1. \E s : IsListing(PrimaryAnswer(q), q, s, StoredKeys(q), PrimaryLimit(q))
        BY <2>2, PrimaryAnswerIs
      <3> QED
        BY <3>1 DEF IsListing
    <2>3. ~PrimaryFits(q) => PrimaryAnswer(q) = Refusal
      BY DEF PrimaryAnswer
    <2> QED
      BY <1>2, <2>1, <2>2, <2>3
  <1>4. CASE ~IsForPrimaryKey(q)
    <2> DEFINE best == BestIndex(q)
    <2>1. /\ Answered(q) = IF best = Missing THEN Refusal ELSE AnswerBy(best, q)
          /\ HasAnswer(q) <=> best # Missing /\ ClausesOrderable(best, q)
      BY <1>4, IndexAnswerBy DEF Answered, HasAnswer
    <2>2. ~ClausesOrderable(best, q) => AnswerBy(best, q) = Refusal
      BY DEF AnswerBy, ClausesOrderable
    <2>3. ASSUME best # Missing, ClausesOrderable(best, q) PROVE AnswerBy(best, q).status = "ok"
      <3>1. PICK i \in DOMAIN Indices : best = Indices[i] /\ Serves(Indices[i], q)
        BY <2>3, BestIndexServes
      <3> DEFINE T == Selected(Present, i, PathLength(q), IndexQuery(Indices[i], q),
                               QueryPath(Indices[i], q))
      <3>2. \E s : IsListing(AnswerBy(Indices[i], q), q, s, T, q.limit)
        BY <1>1, <1>4, <2>3, <3>1, ByIndexOnly, IndexAnswerIs
      <3> QED
        BY <3>1, <3>2 DEF IsListing
    <2> HIDE DEF best
    <2> QED
      BY <1>2, <2>1, <2>2, <2>3
  <1> QED
    BY <1>3, <1>4

(* What is asked: requests from no start and with room for all documents;    *)
(* those that are supported are read and served.                             *)
WholeRequests ==
  /\ Requests \in SUBSET WellFormed
  /\ \A r \in Requests : Parsed(r) # Missing =>
       Parsed(r).start = Missing /\ Cardinality(Ids) <= Parsed(r).limit
SupportedServed == \A r \in Supported : Parsed(r) # Missing /\ HasAnswer(Parsed(r))

LEMMA StoreAnswersRight ==
  ASSUME DistinctIndices, NoUniqueNulls, DistinctProperties, IdApart, IsFiniteSet(Ids),
         WholeRequests, SupportedServed, StoreInv
  PROVE  QueriesSelectMatching
  <1> SUFFICES ASSUME NEW r \in Requests
               PROVE  /\ r \in Supported => Answer(r).status = "ok"
                      /\ Answer(r).status = "ok" =>
                           /\ IdsOf(Answer(r)) = {id \in Ids : primary[id] # Missing /\ Meets(id, r.clauses)}
                           /\ Len(Answer(r).found) = Cardinality(IdsOf(Answer(r)))
    BY DEF QueriesSelectMatching
  <1> DEFINE q == Parsed(r)
             S == {id \in StoredIn(Present) : MeetsExtracted(q.clauses, DocumentKeys(id))}
  <1>1. r \in WellFormed /\ (q # Missing => q.start = Missing /\ Cardinality(Ids) <= q.limit)
    BY DEF WholeRequests
  <1>2. Answer(r) = Answered(q) /\ (q = Missing => Answer(r) = Refusal)
    BY AnswerIs
  <1>3. PrimaryOK /\ Present \in Docs
    BY PresentType DEF StoreInv
  <1>4. r \in Supported => q # Missing /\ HasAnswer(q)
    BY DEF SupportedServed
  <1>5. q # Missing => Readable(q)
    BY <1>1, ParsedReadable
  <1>6. r \in Supported => Answer(r).status = "ok"
    BY <1>1, <1>2, <1>4, <1>5, AnsweredOk
  <1>7. ASSUME Answer(r).status = "ok"
        PROVE  /\ IdsOf(Answer(r)) = {id \in Ids : primary[id] # Missing /\ Meets(id, r.clauses)}
               /\ Len(Answer(r).found) = Cardinality(IdsOf(Answer(r)))
    <2>1. q # Missing /\ Readable(q)
      BY <1>2, <1>5, <1>7 DEF Refusal
    <2>2. {Answered(q).found[x].id : x \in DOMAIN Answered(q).found} = S
          /\ Len(Answered(q).found) = Cardinality(S)
      BY <1>1, <1>2, <1>7, <2>1, AnsweredLists
    <2>3. S = {id \in Ids : primary[id] # Missing /\ Meets(id, r.clauses)}
      <3>1. \A id \in StoredIn(Present) :
              Meets(id, r.clauses) <=> MeetsExtracted(q.clauses, DocumentKeys(id))
        BY <1>1, <1>3, <2>1, MeetsParsed
      <3>2. \A id : id \in StoredIn(Present) <=> id \in Ids /\ primary[id] # Missing
        BY <1>3, PresentType DEF StoredIn
      <3> QED
        BY <3>1, <3>2
    <2> HIDE DEF S, q
    <2> QED
      BY <1>2, <2>2, <2>3 DEF IdsOf
  <1> QED
    BY <1>6, <1>7

(* Whatever is answered is right: the documents that meet all the clauses of *)
(* the request, each once and no other; and what an index serves is          *)
(* answered.                                                                 *)
THEOREM QueriesAnswerRight ==
  ASSUME DistinctIndices, NoUniqueNulls, AddsOnce, DistinctProperties, IdApart, IsFiniteSet(Ids),
         WholeRequests, SupportedServed
  PROVE  QuerySpec => []QueriesSelectMatching
  <1>1. StoreInv => QueriesSelectMatching
    BY StoreAnswersRight
  <1> QED
    BY <1>1, QueriesStoreInvariant, PTL

(* Keys in order, of which two may be the same.                              *)
Follows(k, l, ascending) == IF ascending THEN AtMost(k, l) ELSE AtMost(l, k)

LEMMA BeforeFollows ==
  ASSUME NEW k \in Keys, NEW l \in Keys, NEW ascending, k = l \/ Before(k, l, ascending)
  PROVE  Follows(k, l, ascending)
  <1>1. Rank[k] \in Nat /\ Rank[l] \in Nat
    BY KeysOrdered
  <1> QED
    BY <1>1 DEF Follows, Before, Less, AtMost

(* The levels of the In and of the range are in the order asked for.         *)
LEMMA ClauseLevelsOrdered ==
  ASSUME NEW i \in DOMAIN Indices, NEW q, Readable(q), DistinctProperties,
         Serves(Indices[i], q), ClausesOrderable(Indices[i], q)
  PROVE  LET query == IndexQuery(Indices[i], q)
             m == PathLength(q)
             f == FirstCount(q)
             e == q.clauses
             props == Indices[i].properties
         IN  /\ m \in Nat /\ m + f <= Size(i) /\ Size(i) \in Nat
             /\ e.in # Missing => /\ e.in.field = props[m + 1] /\ e.in.field \in Properties
                                  /\ query.levels[1].ascending = Ascending(q, e.in.field)
             /\ e.range # Missing => /\ e.range.field = props[m + f] /\ e.range.field \in Properties
                                     /\ query.levels[f].ascending = Ascending(q, e.range.field)
  <1> DEFINE query == IndexQuery(Indices[i], q)
             m == PathLength(q)
             f == FirstCount(q)
             e == q.clauses
             ix == Indices[i]
             props == ix.properties
             firsts == FirstLevels(ix, q)
             start == StartOfLastClause(ix, q)
  <1>1. /\ m \in Nat /\ m + f <= Size(i) /\ Size(i) \in Nat /\ f \in {1, 2}
    BY BelowIs
  <1>2. \A k \in 1 .. f : query.levels[k] = firsts[k]
    BY IndexQueryLevels
  <1>3. firsts[1] = FirstLevel(ix, q) /\ (f = 2 => firsts[2] = ClauseQuery(e.range, q.start, q))
    BY FirstLevelsAre
  <1>4. /\ e.in # Missing => HasLevel(e.in, props[m + 1]) /\ e.in.operator = "in"
        /\ e.range # Missing => HasLevel(e.range, props[m + f]) /\ e.range.operator \in RangeOperators
    BY ClausesOfQuery
  <1>5. f = IF e.in # Missing /\ e.range # Missing THEN 2 ELSE 1
    BY DEF FirstCount
  <1>6. q.included \in BOOLEAN
    BY DEF Readable
  <1>7. /\ e.in # Missing => FirstLevel(ix, q) = ClauseQuery(e.in, start, q)
        /\ e.in = Missing /\ e.range # Missing => FirstLevel(ix, q) = ClauseQuery(e.range, start, q)
    BY DEF FirstLevel
  <1>8. ASSUME NEW c, NEW p, HasLevel(c, p), IsRange(c.operator), NEW s
        PROVE  /\ c.field = p /\ c.field \in Properties
               /\ ClauseQuery(c, s, q).ascending = Ascending(q, c.field)
    <2>1. /\ c.operator \in Operators /\ Fit(c.operator, c.values) /\ c.field = p
          /\ c.field \in Properties
      BY <1>8 DEF HasLevel
    <2>2. ClauseQuery(c, s, q).ascending = (~IsRange(c.operator) \/ Ascending(q, c.field))
      BY <1>6, <2>1, ClauseLevel
    <2>3. Ascending(q, c.field) \in BOOLEAN
      BY DEF Ascending
    <2> QED
      BY <1>8, <2>1, <2>2, <2>3
  <1>9. /\ e.in # Missing => IsRange(e.in.operator)
        /\ e.range # Missing => IsRange(e.range.operator)
    BY <1>4, OperatorKinds DEF IsRange
  <1>10. /\ e.in # Missing => /\ e.in.field = props[m + 1] /\ e.in.field \in Properties
                              /\ FirstLevel(ix, q).ascending = Ascending(q, e.in.field)
         /\ e.range # Missing =>
              /\ e.range.field = props[m + f] /\ e.range.field \in Properties
              /\ e.in = Missing => FirstLevel(ix, q).ascending = Ascending(q, e.range.field)
              /\ ClauseQuery(e.range, q.start, q).ascending = Ascending(q, e.range.field)
    <2> HIDE DEF start, e, m, f, props
    <2> QED
      BY <1>4, <1>7, <1>8, <1>9
  <1>11. 1 \in 1 .. f /\ f \in 1 .. f
    BY <1>1
  <1> HIDE DEF start, e, m, f, props, firsts, query, ix
  <1>12. /\ e.in # Missing => query.levels[1].ascending = Ascending(q, e.in.field)
         /\ e.range # Missing => query.levels[f].ascending = Ascending(q, e.range.field)
    BY <1>1, <1>2, <1>3, <1>5, <1>10, <1>11
  <1> QED
    BY <1>1, <1>10, <1>12 DEF e, m, f, props, query, ix

(* Two documents in the order of the In and then of the range.               *)
InAskedOrder(q, a, b) ==
  \A n \in DOMAIN SortFields(q) :
    (\A l \in 1 .. n - 1 : ValueOf(a, SortFields(q)[l]) = ValueOf(b, SortFields(q)[l])) =>
      Follows(ValueOf(a, SortFields(q)[n]), ValueOf(b, SortFields(q)[n]),
              Ascending(q, SortFields(q)[n]))

LEMMA InTurnAsAsked ==
  ASSUME IdApart, DistinctProperties, Present \in Docs,
         NEW i \in DOMAIN Indices, NEW q, Readable(q), ~IsForPrimaryKey(q),
         Serves(Indices[i], q), ClausesOrderable(Indices[i], q),
         NEW a \in StoredIn(Present), NEW b \in StoredIn(Present),
         InTurn(Present, i, PathLength(q), IndexQuery(Indices[i], q), a, b)
  PROVE  InAskedOrder(q, a, b)
  <1> DEFINE query == IndexQuery(Indices[i], q)
             m == PathLength(q)
             f == FirstCount(q)
             e == q.clauses
             props == Indices[i].properties
             fields == SortFields(q)
             V(id, k) == LevelValue(Present, i, m, id, k)
  <1>1. /\ m \in Nat /\ m + f <= Size(i) /\ Size(i) \in Nat
        /\ e.in # Missing => /\ e.in.field = props[m + 1] /\ e.in.field \in Properties
                             /\ query.levels[1].ascending = Ascending(q, e.in.field)
        /\ e.range # Missing => /\ e.range.field = props[m + f] /\ e.range.field \in Properties
                                /\ query.levels[f].ascending = Ascending(q, e.range.field)
    BY ClauseLevelsOrdered
  <1>2. /\ \A p \in Properties : ValueOf(a, p) = Present[a][p] /\ ValueOf(a, p) \in Keys
        /\ \A p \in Properties : ValueOf(b, p) = Present[b][p] /\ ValueOf(b, p) \in Keys
    BY StoredKeysOf
  <1>3. \A k \in 1 .. Size(i) - m :
          (\A j \in 1 .. k - 1 : V(a, j) = V(b, j)) =>
             V(a, k) = V(b, k) \/ Before(V(a, k), V(b, k), query.levels[k].ascending)
    BY DEF InTurn
  <1>4. f = IF e.in # Missing /\ e.range # Missing THEN 2 ELSE 1
    BY DEF FirstCount
  <1>5. /\ e.in = Missing /\ e.range = Missing => fields = <<>>
        /\ e.in # Missing /\ e.range = Missing => fields = <<e.in.field>>
        /\ e.in = Missing /\ e.range # Missing => fields = <<e.range.field>>
        /\ e.in # Missing /\ e.range # Missing => fields = <<e.in.field, e.range.field>>
    <2> DEFINE Field(clause) == IF clause = Missing THEN <<>> ELSE <<clause.field>>
    <2>1. fields = Field(e.in) \o Field(e.range)
      BY DEF SortFields
    <2>2. \A x : <<>> \o <<x>> = <<x>> /\ <<x>> \o <<>> = <<x>>
      OBVIOUS
    <2>3. <<>> \o <<>> = <<>>
      OBVIOUS
    <2> HIDE DEF fields
    <2> QED
      BY <2>1, <2>2, <2>3, TwoInARow
  <1>6. V(a, 1) = Present[a][props[m + 1]] /\ V(b, 1) = Present[b][props[m + 1]]
        /\ V(a, f) = Present[a][props[m + f]] /\ V(b, f) = Present[b][props[m + f]]
    BY DEF LevelValue
  <1> HIDE DEF V, query, m, f, e, props, fields
  <1>7. 1 \in 1 .. Size(i) - m /\ f \in 1 .. Size(i) - m /\ \A j : j \notin 1 .. 1 - 1
    BY <1>1, <1>4
  <1>8. V(a, 1) = V(b, 1) \/ Before(V(a, 1), V(b, 1), query.levels[1].ascending)
    BY <1>3, <1>7
  <1>9. f = 2 /\ V(a, 1) = V(b, 1) =>
          V(a, f) = V(b, f) \/ Before(V(a, f), V(b, f), query.levels[f].ascending)
    <2>1. SUFFICES ASSUME f = 2, V(a, 1) = V(b, 1)
                   PROVE  V(a, f) = V(b, f) \/ Before(V(a, f), V(b, f), query.levels[f].ascending)
      OBVIOUS
    <2>2. \A j \in 1 .. f - 1 : j = 1
      BY <2>1
    <2> QED
      BY <1>3, <1>7, <2>1, <2>2
  <1>10. e.in # Missing =>
           Follows(ValueOf(a, e.in.field), ValueOf(b, e.in.field), Ascending(q, e.in.field))
    BY <1>1, <1>2, <1>6, <1>8, BeforeFollows
  <1>11. e.range # Missing /\ e.in = Missing =>
           Follows(ValueOf(a, e.range.field), ValueOf(b, e.range.field), Ascending(q, e.range.field))
    <2>1. e.in = Missing => f = 1
      BY <1>4
    <2> QED
      BY <1>1, <1>2, <1>6, <1>8, <2>1, BeforeFollows
  <1>12. e.range # Missing /\ e.in # Missing /\ ValueOf(a, e.in.field) = ValueOf(b, e.in.field) =>
           Follows(ValueOf(a, e.range.field), ValueOf(b, e.range.field), Ascending(q, e.range.field))
    BY <1>1, <1>2, <1>4, <1>6, <1>9, BeforeFollows
  <1> SUFFICES ASSUME NEW n \in DOMAIN fields,
                      \A l \in 1 .. n - 1 : ValueOf(a, fields[l]) = ValueOf(b, fields[l])
               PROVE  Follows(ValueOf(a, fields[n]), ValueOf(b, fields[n]), Ascending(q, fields[n]))
    BY DEF InAskedOrder, fields
  <1>13. CASE e.in = Missing /\ e.range = Missing
    BY <1>5, <1>13
  <1>14. CASE e.in # Missing /\ e.range = Missing
    <2>1. n = 1 /\ fields[n] = e.in.field
      BY <1>5, <1>14
    <2> QED
      BY <1>10, <1>14, <2>1
  <1>15. CASE e.in = Missing /\ e.range # Missing
    <2>1. n = 1 /\ fields[n] = e.range.field
      BY <1>5, <1>15
    <2> QED
      BY <1>11, <1>15, <2>1
  <1>16. CASE e.in # Missing /\ e.range # Missing
    <2>1. fields = <<e.in.field, e.range.field>> /\ n \in {1, 2}
      BY <1>5, <1>16
    <2>2. fields[1] = e.in.field /\ fields[2] = e.range.field
      BY <2>1
    <2>3. n = 2 => 1 \in 1 .. n - 1
      OBVIOUS
    <2> QED
      BY <1>10, <1>12, <1>16, <2>1, <2>2, <2>3
  <1> QED
    BY <1>13, <1>14, <1>15, <1>16

(* By primary key results are ordered by the id alone.                       *)
OrderedById == \A r \in Supported : IsForPrimaryKey(Parsed(r)) => Len(Parsed(r).order) <= 1

LEMMA PrimaryOrder ==
  ASSUME NEW q, Readable(q), PrimaryFits(q), q.clauses.idEqual = Missing, Len(q.order) <= 1
  PROVE  Ascending(q, IdField) = PrimaryAscending(q)
  <1>1. q.order \in Seq([field : AnyField, ascending : BOOLEAN \cup {Missing}])
    BY DEF Readable, Orders
  <1>2. Len(q.order) = 1 => q.order[1].field = IdField
    BY DEF PrimaryFits
  <1> DEFINE l == Len(q.order)
  <1>0. l \in Nat /\ DOMAIN q.order = 1 .. l /\ l <= 1
    BY <1>1, LenProperties
  <1> HIDE DEF l
  <1>7. l = 0 \/ l = 1
    BY <1>0
  <1>3. DOMAIN q.order = {} \/ (DOMAIN q.order = {1} /\ Len(q.order) = 1)
    BY <1>0, <1>7 DEF l
  <1>4. DOMAIN q.order = {} => Len(q.order) # 1
    BY <1>0 DEF l
  <1>5. Ascending(q, IdField) <=> PrimaryAscending(q)
    BY <1>2, <1>3, <1>4 DEF Ascending, PrimaryAscending
  <1>6. Ascending(q, IdField) \in BOOLEAN /\ PrimaryAscending(q) \in BOOLEAN
    BY DEF Ascending, PrimaryAscending
  <1> QED
    BY <1>5, <1>6

LEMMA AnsweredInOrder ==
  ASSUME DistinctIndices, NoUniqueNulls, DistinctProperties, IdApart, IsFiniteSet(Ids), StoreInv,
         NEW q, q # Missing, Readable(q), q.start = Missing, HasAnswer(q),
         IsForPrimaryKey(q) => Len(q.order) <= 1,
         NEW x \in DOMAIN Answered(q).found, NEW y \in DOMAIN Answered(q).found, x < y
  PROVE  InAskedOrder(q, Answered(q).found[x].id, Answered(q).found[y].id)
  <1> DEFINE ans == Answered(q)
  <1>1. PrimaryOK /\ Present \in Docs /\ Fits(index, Present)
    BY PresentType DEF StoreInv
  <1>2. ASSUME NEW s, NEW S, NEW limit, IsListing(ans, q, s, S, limit)
        PROVE  /\ x \in 1 .. Cardinality(S) /\ y \in 1 .. Cardinality(S) /\ Cardinality(S) \in Nat
               /\ ans.found[x].id = s[x] /\ ans.found[y].id = s[y] /\ s[x] \in S /\ s[y] \in S
    <2> DEFINE n == Fewer(Cardinality(S), limit)
    <2>1. /\ n \in Nat /\ n <= Cardinality(S) /\ Cardinality(S) \in Nat
          /\ DOMAIN ans.found = 1 .. n /\ \A z \in 1 .. n : ans.found[z].id = s[z]
          /\ s \in [1 .. Cardinality(S) -> S]
      BY <1>2 DEF IsListing, Enumerates
    <2> HIDE DEF n, ans
    <2>2. x \in 1 .. n /\ y \in 1 .. n
      BY <2>1 DEF ans
    <2>3. x \in 1 .. Cardinality(S) /\ y \in 1 .. Cardinality(S)
      BY <2>1, <2>2
    <2> QED
      BY <2>1, <2>2, <2>3
  <1>3. CASE IsForPrimaryKey(q)
    <2>1. ans = PrimaryAnswer(q) /\ PrimaryFits(q)
      BY <1>3 DEF Answered, HasAnswer
    <2> DEFINE S == StoredKeys(q)
    <2>2. PICK s : /\ IsListing(ans, q, s, S, PrimaryLimit(q))
                   /\ \A a, b \in 1 .. Cardinality(S) :
                        a < b <=> Before(s[a], s[b], PrimaryAscending(q))
      BY <2>1, PrimaryAnswerIs
    <2>3. q.clauses.idEqual # Missing => Cardinality(S) <= 1
      BY <1>1, <1>3, PrimarySelects
    <2>4. S \in SUBSET Ids
      BY DEF StoredKeys
    <2> HIDE DEF S, ans
    <2>5. /\ x \in 1 .. Cardinality(S) /\ y \in 1 .. Cardinality(S) /\ Cardinality(S) \in Nat
          /\ ans.found[x].id = s[x] /\ ans.found[y].id = s[y] /\ s[x] \in S /\ s[y] \in S
      BY <1>2, <2>2
    <2>6. q.clauses.idEqual = Missing
      BY <2>3, <2>5
    <2>7. Ascending(q, IdField) = PrimaryAscending(q)
      BY <1>3, <2>1, <2>6, PrimaryOrder
    <2>8. s[x] \in Keys /\ s[y] \in Keys
      BY <2>4, <2>5, KeysAssumption
    <2>9. Follows(s[x], s[y], Ascending(q, IdField))
      BY <2>2, <2>5, <2>7, <2>8, BeforeFollows
    <2>10. SortFields(q) = <<IdField>>
      BY <1>3 DEF SortFields
    <2>11. \A n \in DOMAIN SortFields(q) : SortFields(q)[n] = IdField
      BY <2>10
    <2>12. \A id : ValueOf(id, IdField) = id
      BY DEF ValueOf
    <2>13. InAskedOrder(q, s[x], s[y])
      BY <2>9, <2>11, <2>12 DEF InAskedOrder
    <2> QED
      BY <2>5, <2>13 DEF ans
  <1>4. CASE ~IsForPrimaryKey(q)
    <2>1. BestIndex(q) # Missing /\ ClausesOrderable(BestIndex(q), q)
      BY <1>4 DEF HasAnswer
    <2>2. PICK i \in DOMAIN Indices : BestIndex(q) = Indices[i] /\ Serves(Indices[i], q)
      BY <2>1, BestIndexServes
    <2>3. ans = AnswerBy(Indices[i], q) /\ ClausesOrderable(Indices[i], q)
      BY <1>4, <2>1, <2>2, IndexAnswerBy DEF Answered
    <2> DEFINE query == IndexQuery(Indices[i], q)
               S == Selected(Present, i, PathLength(q), query, QueryPath(Indices[i], q))
    <2>4. PICK s : /\ IsListing(AnswerBy(Indices[i], q), q, s, S, q.limit)
                   /\ \A a, b \in 1 .. Cardinality(S) :
                        a < b => InTurn(Present, i, PathLength(q), query, s[a], s[b])
      BY <1>1, <1>4, <2>2, <2>3, ByIndexOnly, IndexAnswerIs
    <2>5. S \in SUBSET StoredIn(Present)
      BY DEF Selected
    <2> HIDE DEF S, query, ans
    <2>6. /\ x \in 1 .. Cardinality(S) /\ y \in 1 .. Cardinality(S) /\ Cardinality(S) \in Nat
          /\ ans.found[x].id = s[x] /\ ans.found[y].id = s[y] /\ s[x] \in S /\ s[y] \in S
      BY <1>2, <2>3, <2>4
    <2>7. InTurn(Present, i, PathLength(q), query, s[x], s[y])
      BY <2>4, <2>6
    <2>8. s[x] \in StoredIn(Present) /\ s[y] \in StoredIn(Present)
      BY <2>5, <2>6
    <2>9. InAskedOrder(q, s[x], s[y])
      BY <1>1, <1>4, <2>2, <2>3, <2>7, <2>8, InTurnAsAsked DEF query
    <2> QED
      BY <2>6, <2>9 DEF ans
  <1> QED
    BY <1>3, <1>4

LEMMA StoreAnswersInOrder ==
  ASSUME DistinctIndices, NoUniqueNulls, DistinctProperties, IdApart, IsFiniteSet(Ids),
         WholeRequests, SupportedServed, OrderedById, StoreInv
  PROVE  ResultsSorted
  <1> SUFFICES ASSUME NEW r \in Supported,
                      NEW x \in DOMAIN Answer(r).found, NEW y \in DOMAIN Answer(r).found, x < y,
                      NEW n \in DOMAIN SortFields(Parsed(r)),
                      \A l \in 1 .. n - 1 :
                        ValueOf(Answer(r).found[x].id, SortFields(Parsed(r))[l])
                          = ValueOf(Answer(r).found[y].id, SortFields(Parsed(r))[l])
               PROVE  Follows(ValueOf(Answer(r).found[x].id, SortFields(Parsed(r))[n]),
                              ValueOf(Answer(r).found[y].id, SortFields(Parsed(r))[n]),
                              Ascending(Parsed(r), SortFields(Parsed(r))[n]))
    BY DEF ResultsSorted, Follows
  <1> DEFINE q == Parsed(r)
  <1>1. r \in Requests /\ q # Missing /\ HasAnswer(q)
    BY RequestsAssumption DEF SupportedServed
  <1>2. r \in WellFormed /\ q.start = Missing
    BY <1>1 DEF WholeRequests
  <1>3. Answer(r) = Answered(q)
    BY AnswerIs
  <1>4. Readable(q)
    BY <1>1, <1>2, ParsedReadable
  <1>5. IsForPrimaryKey(q) => Len(q.order) <= 1
    BY DEF OrderedById
  <1>6. InAskedOrder(q, Answer(r).found[x].id, Answer(r).found[y].id)
    BY <1>1, <1>2, <1>3, <1>4, <1>5, AnsweredInOrder
  <1> HIDE DEF q
  <1> QED
    BY <1>6 DEF InAskedOrder, q

(* Results come in the order asked for: by the id, or by the In and then by  *)
(* the range, each in its own direction.                                     *)
THEOREM QueriesSort ==
  ASSUME DistinctIndices, NoUniqueNulls, AddsOnce, DistinctProperties, IdApart, IsFiniteSet(Ids),
         WholeRequests, SupportedServed, OrderedById
  PROVE  QuerySpec => []ResultsSorted
  <1>1. StoreInv => ResultsSorted
    BY StoreAnswersInOrder
  <1> QED
    BY <1>1, QueriesStoreInvariant, PTL
-----------------------------------------------------------------------------
(* What an answer holds: stored documents.                                   *)
LEMMA AnsweredIds ==
  ASSUME DistinctIndices, NoUniqueNulls, DistinctProperties, IsFiniteSet(Ids), StoreInv,
         NEW q, Readable(q), Answered(q).status = "ok"
  PROVE  LET found == Answered(q).found
         IN  /\ Len(found) \in Nat /\ DOMAIN found = 1 .. Len(found)
             /\ \A x \in DOMAIN found : found[x].id \in Ids
  <1> DEFINE ans == Answered(q)
  <1>1. PrimaryOK /\ Present \in Docs /\ Fits(index, Present)
    BY PresentType DEF StoreInv
  <1>2. Refusal.status # "ok"
    BY DEF Refusal
  <1>3. q # Missing /\ (q.start # Missing => primary[q.start] # Missing)
    BY <1>2 DEF Answered
  <1>4. HasAnswer(q)
    BY <1>3, AnsweredOk
  <1>5. ASSUME NEW s, NEW S \in SUBSET Ids, NEW limit, IsListing(ans, q, s, S, limit)
        PROVE  /\ Len(ans.found) \in Nat /\ DOMAIN ans.found = 1 .. Len(ans.found)
               /\ \A x \in DOMAIN ans.found : ans.found[x].id \in Ids
    <2> DEFINE n == Fewer(Cardinality(S), limit)
    <2>1. /\ n \in Nat /\ n <= Cardinality(S) /\ Cardinality(S) \in Nat /\ Len(ans.found) = n
          /\ DOMAIN ans.found = 1 .. n /\ \A z \in 1 .. n : ans.found[z].id = s[z]
          /\ s \in [1 .. Cardinality(S) -> S]
      BY <1>5 DEF IsListing, Enumerates
    <2> HIDE DEF n, ans
    <2>2. \A x \in 1 .. n : x \in 1 .. Cardinality(S)
      BY <2>1
    <2> QED
      BY <2>1, <2>2
  <1>6. CASE IsForPrimaryKey(q)
    <2>1. ans = PrimaryAnswer(q) /\ PrimaryFits(q)
      BY <1>3, <1>4, <1>6 DEF Answered, HasAnswer
    <2>2. PICK s : IsListing(ans, q, s, StoredKeys(q), PrimaryLimit(q))
      BY <2>1, PrimaryAnswerIs
    <2>3. StoredKeys(q) \in SUBSET Ids
      BY DEF StoredKeys
    <2> HIDE DEF ans
    <2> QED
      BY <1>5, <2>2, <2>3 DEF ans
  <1>7. CASE ~IsForPrimaryKey(q)
    <2>1. BestIndex(q) # Missing /\ ClausesOrderable(BestIndex(q), q)
      BY <1>4, <1>7 DEF HasAnswer
    <2>2. PICK i \in DOMAIN Indices : BestIndex(q) = Indices[i] /\ Serves(Indices[i], q)
      BY <2>1, BestIndexServes
    <2>3. ans = AnswerBy(Indices[i], q) /\ ClausesOrderable(Indices[i], q)
      BY <1>3, <1>7, <2>1, <2>2, IndexAnswerBy DEF Answered
    <2> DEFINE S == Selected(Present, i, PathLength(q), IndexQuery(Indices[i], q),
                             QueryPath(Indices[i], q))
    <2>4. PICK s : IsListing(AnswerBy(Indices[i], q), q, s, S, q.limit)
      BY <1>1, <1>7, <2>2, <2>3, ByIndexOnly, IndexAnswerIs
    <2>5. S \in SUBSET Ids
      BY DEF Selected, StoredIn
    <2> HIDE DEF S, ans
    <2> QED
      BY <1>5, <2>3, <2>4, <2>5 DEF ans
  <1> QED
    BY <1>6, <1>7

(* Conversations are in the form of the service, not in SQL.                 *)
ConversationsReadable == Conversations \in SUBSET {r \in WellFormed : ~r.sql}

LEMMA PageType ==
  ASSUME NEW r \in WellFormed, NEW id \in Ids \cup {Missing}
  PROVE  /\ Page(r, id) \in WellFormed /\ Page(r, id).sql = r.sql /\ Page(r, id).limit = r.limit
         /\ Page(r, id).clauses = r.clauses /\ Page(r, id).start = id /\ Page(r, id).order = r.order
         /\ Page(r, id).included = FALSE /\ Page(r, id).time = r.time
  BY DEF Page, WellFormed

(* The page after one that is full starts after its last document.           *)
LEMMA LastOfPage ==
  ASSUME DistinctIndices, NoUniqueNulls, DistinctProperties, IsFiniteSet(Ids), StoreInv,
         ConversationsReadable, NEW r \in Conversations, NEW id \in Ids \cup {Missing},
         Answer(Page(r, id)).status = "ok", Len(Answer(Page(r, id)).found) = r.limit
  PROVE  Last(Answer(Page(r, id)).found).id \in Ids
  <1> DEFINE p == Page(r, id)
             q == Parsed(p)
             found == Answer(p).found
  <1>1. p \in WellFormed /\ ~p.sql /\ p.limit = r.limit
    BY PageType DEF ConversationsReadable
  <1>2. Answer(p) = Answered(q) /\ (q = Missing => Answer(p) = Refusal)
    BY AnswerIs
  <1>3. q # Missing
    BY <1>2 DEF Refusal
  <1>4. Readable(q) /\ p.limit \in 1 .. MaxQueryLimit
    BY <1>1, <1>3, ParsedIs, ParsedReadable
  <1>5. /\ Len(found) \in Nat /\ DOMAIN found = 1 .. Len(found)
        /\ \A x \in DOMAIN found : found[x].id \in Ids
    BY <1>2, <1>4, AnsweredIds
  <1>6. Len(found) \in DOMAIN found
    BY <1>1, <1>4, <1>5, LimitsAssumption
  <1> QED
    BY <1>5, <1>6 DEF Last

ClientOK ==
  /\ request \in Conversations \cup {Missing}
  /\ phase \in {"idle", "paging", "done", "failed", "displaced"}
  /\ phase = "idle" <=> request = Missing
  /\ after \in Ids \cup {Missing}
  /\ DOMAIN seen \subseteq Ids /\ seen \in [DOMAIN seen -> 0 .. 2]

LEMMA ClientStep ==
  ASSUME DistinctIndices, NoUniqueNulls, DistinctProperties, IsFiniteSet(Ids),
         ConversationsReadable, StoreInv, ClientOK, [QueryNext]_queryVars
  PROVE  ClientOK'
  <1>1. CASE UNCHANGED queryVars
    BY <1>1 DEF queryVars, clientVars, ClientOK
  <1>2. CASE WriteDocuments
    <2>1. /\ DOMAIN seen' \subseteq DOMAIN seen
          /\ \A id \in DOMAIN seen' : seen'[id] = seen[id]
          /\ seen' = [id \in DOMAIN seen' |-> seen'[id]]
      BY <1>2 DEF WriteDocuments, Restrict
    <2>2. DOMAIN seen' \subseteq Ids /\ seen' \in [DOMAIN seen' -> 0 .. 2]
      BY <2>1 DEF ClientOK
    <2>3. /\ phase' \in {"idle", "paging", "done", "failed", "displaced"}
          /\ phase' = "idle" <=> phase = "idle"
          /\ request' = request /\ after' = after
      BY <1>2 DEF WriteDocuments, Displaces, ClientOK
    <2> QED
      BY <2>2, <2>3 DEF ClientOK
  <1>3. CASE \E r \in Conversations : Open(r)
    <2>1. PICK r \in Conversations : Open(r)
      BY <1>3
    <2>2. /\ request' = r /\ r # Missing /\ phase' = "paging" /\ after' = after
          /\ seen' = [id \in {i \in Ids : primary[i] # Missing} |-> 0]
      BY <2>1, MissingIsNone DEF Open
    <2>3. DOMAIN seen' \subseteq Ids /\ seen' \in [DOMAIN seen' -> 0 .. 2]
      BY <2>2
    <2> QED
      BY <2>2, <2>3 DEF ClientOK
  <1>4. CASE NextPage
    <2> DEFINE answer == Answer(Page(request, after))
    <2>1. /\ phase = "paging" /\ request' = request /\ seen' = Counted(answer.found)
          /\ \/ answer.status = "error" /\ phase' = "failed" /\ UNCHANGED after
             \/ /\ answer.status = "ok" /\ Len(answer.found) < request.limit
                /\ phase' = "done" /\ UNCHANGED after
             \/ /\ answer.status = "ok" /\ Len(answer.found) = request.limit
                /\ after' = Last(answer.found).id /\ UNCHANGED phase
      BY <1>4 DEF NextPage
    <2>2. request \in Conversations
      BY <2>1 DEF ClientOK
    <2>3. answer.status = "ok" /\ Len(answer.found) = request.limit => Last(answer.found).id \in Ids
      BY <2>2, LastOfPage DEF ClientOK
    <2> HIDE DEF answer
    <2>4. DOMAIN seen' = DOMAIN seen /\ \A id \in DOMAIN seen : seen'[id] \in 0 .. 2
      <3>1. \A id \in DOMAIN seen : seen[id] \in 0 .. 2
        BY DEF ClientOK
      <3>2. \A id \in DOMAIN seen : seen[id] < 2 => seen[id] + 1 \in 0 .. 2
        BY <3>1
      <3> QED
        BY <2>1, <3>1, <3>2 DEF Counted
    <2>5. seen' = [id \in DOMAIN seen' |-> seen'[id]]
      BY <2>1 DEF Counted
    <2>6. after' \in Ids \cup {Missing}
      BY <2>1, <2>3 DEF ClientOK
    <2>7. phase' \in {"paging", "done", "failed"} /\ request' # Missing /\ request' \in Conversations
      BY <2>1, <2>2, MissingIsNone
    <2>8. DOMAIN seen' \subseteq Ids /\ seen' \in [DOMAIN seen' -> 0 .. 2]
      BY <2>4, <2>5 DEF ClientOK
    <2> QED
      BY <2>6, <2>7, <2>8 DEF ClientOK
  <1>5. CASE Close
    BY <1>5 DEF Close, ClientOK
  <1> QED
    BY <1>1, <1>2, <1>3, <1>4, <1>5 DEF QueryNext

LEMMA QueryStep ==
  ASSUME [QueryNext]_queryVars
  PROVE  [Next]_storeVars
  <1>1. CASE UNCHANGED queryVars
    BY <1>1 DEF queryVars
  <1> QED
    BY <1>1 DEF QueryNext, WriteDocuments, Open, NextPage, Close

(* Every variable of the client has its type.                                *)
THEOREM QueryTypes ==
  ASSUME DistinctIndices, NoUniqueNulls, AddsOnce, DistinctProperties, IsFiniteSet(Ids),
         ConversationsReadable
  PROVE  QuerySpec => []QueryTypeOK
  <1>1. QueryInit => ClientOK
    BY DEF QueryInit, Idle, ClientOK
  <1>2. StoreInv /\ ClientOK /\ [QueryNext]_queryVars => ClientOK'
    BY ClientStep
  <1>3. TypeOK /\ ClientOK => QueryTypeOK
    BY DEF ClientOK, QueryTypeOK
  <1>4. QuerySpec => []StoreInv
    BY QueriesStoreInvariant
  <1>5. QuerySpec => []TypeOK
    BY QueriesKeepStore, StoreTypes, PTL
  <1> QED
    BY <1>1, <1>2, <1>3, <1>4, <1>5, PTL DEF QuerySpec
-----------------------------------------------------------------------------
(* All that the client pages through is served, from any start.              *)
ConversationsServed ==
  \A r \in Conversations, id \in Ids \cup {Missing} :
    Parsed(Page(r, id)) # Missing /\ HasAnswer(Parsed(Page(r, id)))

(* A page fails only if the document it starts after is no longer stored.    *)
THEOREM PagesFailOnlyWhenGone ==
  ASSUME DistinctIndices, NoUniqueNulls, AddsOnce, DistinctProperties, IsFiniteSet(Ids),
         ConversationsReadable, ConversationsServed
  PROVE  QuerySpec => FailsOnlyWhenGone
  <1>1. ASSUME StoreInv, ClientOK, [QueryNext]_queryVars, phase = "paging", phase' = "failed"
        PROVE  after # Missing /\ primary[after] = Missing
    <2> DEFINE answer == Answer(Page(request, after))
               q == Parsed(Page(request, after))
    <2>1. NextPage
      BY <1>1 DEF QueryNext, WriteDocuments, Open, Close, queryVars, clientVars
    <2>2. answer.status = "error"
      BY <1>1, <2>1 DEF NextPage
    <2>3. request \in Conversations /\ after \in Ids \cup {Missing}
      BY <1>1 DEF ClientOK
    <2>4. Page(request, after) \in WellFormed /\ ~Page(request, after).sql
          /\ Page(request, after).start = after
      BY <2>3, PageType DEF ConversationsReadable
    <2>5. q # Missing /\ HasAnswer(q)
      BY <2>3 DEF ConversationsServed
    <2>6. Readable(q) /\ q.start = after
      BY <2>4, <2>5, ParsedReadable, ParsedIs
    <2>7. answer = Answered(q)
      BY AnswerIs
    <2>8. ASSUME after # Missing => primary[after] # Missing PROVE FALSE
      <3>1. Answered(q).status = "ok"
        BY <1>1, <2>5, <2>6, <2>8, AnsweredOk
      <3> QED
        BY <2>2, <2>7, <3>1
    <2> QED
      BY <2>8
  <1>2. QueryInit => ClientOK
    BY DEF QueryInit, Idle, ClientOK
  <1>3. StoreInv /\ ClientOK /\ [QueryNext]_queryVars => ClientOK'
    BY ClientStep
  <1>4. QuerySpec => []StoreInv
    BY QueriesStoreInvariant
  <1>5. StoreInv /\ ClientOK /\ [QueryNext]_queryVars =>
          [phase = "paging" /\ phase' = "failed" => after # Missing /\ primary[after] = Missing]_queryVars
    BY <1>1
  <1> QED
    BY <1>2, <1>3, <1>4, <1>5, PTL DEF QuerySpec, FailsOnlyWhenGone
-----------------------------------------------------------------------------
(* The request for one document as of a block time.                          *)
IdIs(id) == [field |-> IdField, operator |-> "==", values |-> <<id>>, mirrored |-> FALSE]
Past(id, t) ==
  [sql |-> FALSE, order |-> <<>>, limit |-> 1, start |-> Missing, included |-> FALSE, time |-> t,
   clauses |-> <<IdIs(id)>>]

LEMMA OneIdClause ==
  ASSUME NEW id \in Keys
  PROVE  LET w == <<IdIs(id)>>
         IN  /\ Extractable(w) /\ Extracted(w).idEqual = IdIs(id)
             /\ IdIs(id) \in RequestClauses /\ IdIs(id) # Missing
  <1> DEFINE c == IdIs(id)
             w == <<IdIs(id)>>
  <1>1. /\ c.field = IdField /\ c.operator = "==" /\ c.values = <<id>> /\ ~c.mirrored
        /\ c.mirrored = FALSE
    BY DEF IdIs
  <1>2. "==" \in Operators
    BY DEF Operators
  <1>3. c \in [field : AnyField, operator : Operators, values : Seq(Keys), mirrored : BOOLEAN]
    BY <1>2 DEF IdIs, AnyField
  <1>4. c \in RequestClauses
    <2>1. Len(c.values) = 1
      BY <1>1
    <2> QED
      BY <1>1, <1>3, <2>1 DEF RequestClauses
  <1>5. c # Missing
    BY <1>3, ClausesAssumption DEF Clauses, AnyField
  <1>6. DOMAIN w = {1} /\ w[1] = c
    OBVIOUS
  <1> HIDE DEF c, w
  <1>7. /\ With(w, SimpleRanges \cup ClosedRanges) = {} /\ With(w, {"startsWith"}) = {}
        /\ With(w, {"in"}) = {}
    BY <1>1, <1>6, OperatorKinds DEF With, RangeOperators
  <1>8. Equalities(w) = {} /\ Ins(w) = {} /\ OnId(w, "==") = {1} /\ OnId(w, "in") = {}
    BY <1>1, <1>6, <1>7 DEF With, Equalities, Ins, OnId
  <1>9. Cardinality({}) = 0 /\ Cardinality({1}) = 1
    BY FS_EmptySet, FS_Singleton
  <1>10. Cardinality(With(w, SimpleRanges \cup ClosedRanges)) <= 1 /\ Cardinality(Ins(w)) <= 1
    BY <1>7, <1>8, <1>9
  <1>11. RangeFits(w)
    BY <1>7, <1>10 DEF RangeFits
  <1>12. Groups(w)
    BY <1>8, <1>10, <1>11 DEF Groups
  <1>13. Extractable(w)
    <2>1. OnId(w, "==") \cup OnId(w, "in") = {1}
      BY <1>8
    <2>2. Cardinality(OnId(w, "==") \cup OnId(w, "in")) <= 1
      BY <1>9, <2>1
    <2> QED
      BY <1>6, <1>12, <2>1, <2>2 DEF Extractable
  <1>14. Extracted(w).idEqual = c
    <2>1. Only(w, OnId(w, "==")) = c
      BY <1>6, <1>8 DEF Only
    <2>2. OnId(w, "==") # {}
      BY <1>8
    <2> QED
      BY <2>1, <2>2 DEF Extracted
  <1> QED
    BY <1>4, <1>5, <1>13, <1>14 DEF c, w

(* What is read of it is a request, which Missing is not.                    *)
PastReadable == \A id \in Ids, t \in Times : Parsed(Past(id, t)) # Missing

LEMMA PastRequest ==
  ASSUME PastReadable, NEW id \in Ids, NEW t \in Times
  PROVE  LET q == Parsed(Past(id, t))
         IN  /\ q # Missing /\ Readable(q) /\ q.start = Missing /\ q.time = t
             /\ q.clauses.idEqual = IdIs(id) /\ IdIs(id) # Missing /\ PrimaryFits(q)
             /\ PrimaryKeys(q) = {id}
  <1> DEFINE r == Past(id, t)
             c == IdIs(id)
             w == <<c>>
             b == [r EXCEPT !.order = OrderBy(r.order)]
             q == Parsed(r)
  <1>1. id \in Keys
    BY KeysAssumption
  <1>2. Extractable(w) /\ Extracted(w).idEqual = c /\ c \in RequestClauses /\ c # Missing
    BY <1>1, OneIdClause
  <1>3. ~c.mirrored /\ c.values = <<id>>
    BY DEF IdIs
  <1>4. r.clauses = w /\ r.sql = FALSE /\ r.limit = 1 /\ r.order = <<>> /\ r.time = t /\ r.start = Missing
    BY DEF Past
  <1>5. r \in WellFormed
    <2>1. w \in Seq(RequestClauses)
      BY <1>2
    <2> HIDE DEF w, c
    <2>2. <<>> \in Seq([field : AnyField, ascending : BOOLEAN \cup {Missing}])
      OBVIOUS
    <2>3. r = [sql |-> FALSE, order |-> <<>>, limit |-> 1, start |-> Missing, included |-> FALSE,
               time |-> t, clauses |-> w]
      BY DEF Past, w, c
    <2> HIDE DEF r
    <2> QED
      BY <2>1, <2>2, <2>3 DEF WellFormed
  <1>6. [i \in DOMAIN w |-> FromComponents(w[i])] = w
    <2>1. FromComponents(c) = c
      BY <1>3 DEF FromComponents
    <2> HIDE DEF c
    <2>2. DOMAIN w = {1} /\ w[1] = c
      OBVIOUS
    <2>3. [i \in DOMAIN w |-> FromComponents(w[i])] = [i \in DOMAIN w |-> w[i]]
      BY <2>1, <2>2
    <2> QED
      BY <2>3
  <1>7. r.limit \in 1 .. MaxQueryLimit
    BY <1>4, LimitsAssumption
  <1>8. \A i \in DOMAIN w : w[i] # Missing
    BY <1>2
  <1> HIDE DEF w, c
  <1>9. q = [b EXCEPT !.clauses = Extracted(w)]
    <2>1. q = FromCbor(r)
      BY <1>4 DEF Parsed
    <2>2. q = WithClauses(b, w)
      BY <1>4, <1>6, <1>7, <2>1 DEF FromCbor
    <2> HIDE DEF b, q
    <2> QED
      BY <1>2, <1>8, <2>2 DEF WithClauses
  <1>10. q.clauses.idEqual = c
    <2>1. "clauses" \in DOMAIN b
      BY DEF Past
    <2> HIDE DEF b, q
    <2> QED
      BY <1>2, <1>9, <2>1
  <1>11. q # Missing
    BY DEF PastReadable
  <1>12. Readable(q) /\ q.start = Missing /\ q.time = t
    BY <1>4, <1>5, <1>11, ParsedIs, ParsedReadable
  <1> HIDE DEF q
  <1>13. PrimaryFits(q)
    BY <1>2, <1>10 DEF PrimaryFits
  <1>14. PrimaryKeys(q) = {id}
    <2>1. PrimaryKeys(q) = {c.values[1]}
      BY <1>2, <1>10 DEF PrimaryKeys, Key
    <2>2. c.values[1] = id
      BY DEF c, IdIs
    <2> QED
      BY <2>1, <2>2
  <1> QED
    BY <1>2, <1>10, <1>11, <1>12, <1>13, <1>14 DEF c, q

(* It answers with the version of the document at that time.                 *)
PastFound(id, t) == Found([x \in 1 .. 1 |-> [id |-> id, document |-> VersionAsOf(id, t)]])

LEMMA PastAnswer ==
  ASSUME IsFiniteSet(Ids), KeepsHistory, PastReadable
  PROVE  \A id \in Ids, t \in Times :
           primary[id] # Missing => Answer(Past(id, t)).status = "ok"
                                    /\ Answer(Past(id, t)).found = PastFound(id, t).found
                                    /\ Answer(Past(id, t)) = PastFound(id, t)
  <1> SUFFICES ASSUME NEW id \in Ids, NEW t \in Times, primary[id] # Missing
               PROVE  /\ Answer(Past(id, t)).status = "ok"
                      /\ Answer(Past(id, t)).found = PastFound(id, t).found
                      /\ Answer(Past(id, t)) = PastFound(id, t)
    OBVIOUS
  <1> DEFINE q == Parsed(Past(id, t))
             asc == PrimaryAscending(q)
             s == Sorted({id}, asc)
             first == FirstOf(s, 1)
  <1>1. /\ q # Missing /\ Readable(q) /\ q.start = Missing /\ q.time = t
        /\ q.clauses.idEqual # Missing /\ PrimaryFits(q) /\ PrimaryKeys(q) = {id}
    BY PastRequest
  <1>2. Answer(Past(id, t)) = PrimaryAnswer(q)
    <2>1. Answer(Past(id, t)) = Answered(q)
      BY AnswerIs
    <2>2. IsForPrimaryKey(q)
      BY <1>1 DEF IsForPrimaryKey
    <2> HIDE DEF q
    <2> QED
      BY <1>1, <2>1, <2>2 DEF Answered
  <1>3. StoredKeys(q) = {id}
    BY <1>1 DEF StoredKeys
  <1>4. AtTime(q)
    BY <1>1, TimesAssumption DEF AtTime
  <1>5. Documented(q, id) = [id |-> id, document |-> VersionAsOf(id, t)]
    BY <1>1, <1>4 DEF Documented
  <1>6. PrimaryLimit(q) = 1
    BY <1>1 DEF PrimaryLimit
  <1>7. PrimaryAnswer(q) = Found([x \in DOMAIN first |-> Documented(q, first[x])])
    <2>1. {i \in Ids \cap PrimaryKeys(q) : primary[i] # Missing} = {id}
      BY <1>3 DEF StoredKeys
    <2> HIDE DEF q
    <2> QED
      BY <1>1, <2>1 DEF PrimaryAnswer, Documented, AtTime, PrimaryLimit
  <1>8. /\ s \in [1 .. 1 -> {id}]
    <2>1. {id} \in SUBSET Keys /\ IsFiniteSet({id}) /\ Cardinality({id}) = 1
      BY KeysAssumption, FS_Singleton
    <2>2. asc \in BOOLEAN
      <3>1. asc = (Len(q.order) = 1 => q.order[1].ascending)
        BY DEF PrimaryAscending
      <3> QED
        BY DEF PrimaryAscending
    <2> HIDE DEF asc
    <2>3. Sorted({id}, asc) \in [1 .. Cardinality({id}) -> {id}]
      BY <2>1, <2>2, SortedKeys
    <2> QED
      BY <2>1, <2>3
  <1> HIDE DEF q, asc, s
  <1>9. DOMAIN first = 1 .. 1 /\ first[1] = id
    <2>1. Fewer(1, 1) = 1
      BY DEF Fewer
    <2>2. IsFirst(FirstOf(s, 1), s, {id}, Fewer(1, 1))
      BY <1>8, FirstOfElements
    <2>3. s[1] = id /\ 1 \in 1 .. 1
      BY <1>8
    <2> QED
      BY <2>1, <2>2, <2>3 DEF IsFirst
  <1> HIDE DEF first
  <1>10. [x \in DOMAIN first |-> Documented(q, first[x])]
           = [x \in 1 .. 1 |-> [id |-> id, document |-> VersionAsOf(id, t)]]
    <2>1. \A x \in 1 .. 1 : x = 1
      OBVIOUS
    <2> QED
      BY <1>5, <1>9, <2>1
  <1>11. Answer(Past(id, t)) = PastFound(id, t)
    BY <1>2, <1>7, <1>10 DEF PastFound
  <1> QED
    BY <1>11 DEF PastFound, Found

(* With history a write adds a version, and no other versions are of no time.*)
TimedVersions ==
  \A id \in Ids : primary[id] # Missing => DOMAIN primary[id].versions \in SUBSET Times

WrittenAt(id) ==
  \/ primary'[id] = primary[id]
  \/ \E d \in Documents, time \in Times : primary'[id] = Stored(id, d, time)

LEMMA HistoryWrites ==
  ASSUME KeepsHistory, PrimaryOK, [Next]_storeVars
  PROVE  \A id \in Ids : WrittenAt(id)
  <1> DEFINE Goal == \A id \in Ids : WrittenAt(id)
  <1>1. ASSUME primary' = primary PROVE Goal
    BY <1>1 DEF WrittenAt
  <1>2. ASSUME NEW b, NEW id \in Ids, NEW d \in Documents, NEW time \in Times,
               Finish(b, id, Stored(id, d, time))
        PROVE  Goal
    <2> DEFINE x == Stored(id, d, time)
    <2>1. primary' = primary \/ primary' = [primary EXCEPT ![id] = x]
      BY <1>2 DEF Finish
    <2>2. x = Stored(id, d, time)
      OBVIOUS
    <2> HIDE DEF x
    <2>3. \A other \in Ids : primary'[other] = primary[other] \/ (other = id /\ primary'[other] = x)
      BY <2>1 DEF PrimaryOK
    <2> QED
      BY <2>2, <2>3 DEF WrittenAt
  <1> HIDE DEF Goal
  <1>3. ASSUME NEW id \in Ids, NEW d \in Documents, NEW time \in Times, AddDocument(id, d, time)
        PROVE  Goal
    BY <1>1, <1>2, <1>3 DEF AddDocument, Refused
  <1>4. ASSUME NEW id \in Ids, NEW d \in Documents, NEW time \in Times, WriteUpdate(id, d, time)
        PROVE  Goal
    BY <1>1, <1>2, <1>4 DEF WriteUpdate, Refused
  <1>5. ASSUME NEW id \in Ids, NEW d \in Documents, NEW time \in Times,
               OverrideDocument(id, d, time)
        PROVE  Goal
    BY <1>2, <1>4, <1>5 DEF OverrideDocument
  <1>6. ASSUME NEW id \in Ids, DeleteDocument(id) PROVE Goal
    BY <1>1, <1>6 DEF DeleteDocument, Refused
  <1>7. ASSUME UNCHANGED storeVars PROVE Goal
    BY <1>1, <1>7 DEF storeVars
  <1>8. Goal
    BY <1>3, <1>4, <1>5, <1>6, <1>7 DEF Next, UpdateDocument
  <1> QED
    BY <1>8 DEF Goal

(* What a write leaves of the versions.                                      *)
LEMMA StoredVersions ==
  ASSUME KeepsHistory, NEW id \in Ids, NEW d \in Documents, NEW time \in Times
  PROVE  LET x == Stored(id, d, time)
         IN  /\ x.latest = time
             /\ primary[id] = Missing => DOMAIN x.versions = {time}
             /\ primary[id] # Missing =>
                  /\ DOMAIN x.versions = {time} \cup DOMAIN primary[id].versions
                  /\ \A t \in DOMAIN primary[id].versions :
                       t # time => x.versions[t] = primary[id].versions[t]
  <1> DEFINE old == IF primary[id] = Missing THEN <<>> ELSE primary[id].versions
             new == [t \in {time} \cup DOMAIN old |-> IF t = time THEN d ELSE old[t]]
  <1>1. Stored(id, d, time) = [versions |-> new, latest |-> time]
    BY DEF Stored, VersionAt
  <1>2. /\ DOMAIN new = {time} \cup DOMAIN old
        /\ \A t \in DOMAIN old : t # time => new[t] = old[t]
    OBVIOUS
  <1>3. DOMAIN <<>> = {}
    OBVIOUS
  <1> HIDE DEF new
  <1>4. Stored(id, d, time).latest = time /\ Stored(id, d, time).versions = new
    BY <1>1
  <1> QED
    BY <1>2, <1>3, <1>4

LEMMA TimedStep ==
  ASSUME KeepsHistory, PrimaryOK, TimedVersions, [Next]_storeVars
  PROVE  TimedVersions'
  <1> SUFFICES ASSUME NEW id \in Ids, primary'[id] # Missing
               PROVE  DOMAIN primary'[id].versions \in SUBSET Times
    BY DEF TimedVersions
  <1>1. WrittenAt(id)
    BY HistoryWrites
  <1>2. ASSUME NEW d \in Documents, NEW time \in Times, primary'[id] = Stored(id, d, time)
        PROVE  DOMAIN primary'[id].versions \in SUBSET Times
    BY <1>2, StoredVersions DEF TimedVersions
  <1> QED
    BY <1>1, <1>2 DEF WrittenAt, TimedVersions

(* The version of a time is not changed by a write after it.                 *)
LEMMA VersionStays ==
  ASSUME KeepsHistory, Times \in SUBSET Nat, PrimaryOK, TimedVersions, [Next]_storeVars,
         NEW id \in Ids, NEW t \in Times, primary[id] # Missing, primary'[id] # primary[id],
         \E u \in DOMAIN primary[id].versions : u <= t, t < primary'[id].latest
  PROVE  VersionAsOf(id, t)' = VersionAsOf(id, t)
  <1>1. PICK d \in Documents, time \in Times : primary'[id] = Stored(id, d, time)
    BY HistoryWrites DEF WrittenAt
  <1> DEFINE old == primary[id].versions
             new == primary'[id].versions
             earlier == {u \in DOMAIN old : u <= t}
             after1 == {u \in DOMAIN new : u <= t}
             w == CHOOSE v \in earlier : \A u \in earlier : u <= v
  <1>2. /\ primary'[id].latest = time /\ DOMAIN new = {time} \cup DOMAIN old
        /\ \A u \in DOMAIN old : u # time => new[u] = old[u]
    BY <1>1, StoredVersions
  <1>3. t \in Nat /\ time \in Nat /\ t < time /\ DOMAIN old \in SUBSET Nat
    BY <1>2 DEF TimedVersions
  <1>4. earlier # {} /\ earlier \in SUBSET Nat /\ \A u \in earlier : u <= t /\ u \in DOMAIN old
    BY <1>3
  <1>5. after1 = earlier
    <2> HIDE DEF new, old
    <2> QED
      BY <1>2, <1>3
  <1>6. /\ VersionAsOf(id, t) = IF earlier = {} THEN Current(id) ELSE old[w]
        /\ VersionAsOf(id, t)' = IF after1 = {} THEN Current(id)'
                                 ELSE new[CHOOSE v \in after1 : \A u \in after1 : u <= v]
    BY DEF VersionAsOf
  <1> HIDE DEF old, new, earlier, after1
  <1>7. w \in earlier
    <2> DEFINE D == {t - u : u \in earlier}
    <2>0. \A u \in earlier : t - u \in Nat
      <3> TAKE u \in earlier
      <3>1. u \in Nat /\ u <= t
        BY <1>4
      <3> QED
        BY <1>3, <3>1
    <2>1. D # {} /\ D \in SUBSET Nat
      BY <1>4, <2>0
    <2> HIDE DEF D
    <2>2. PICK m \in D : \A k \in D : m <= k
      BY <2>1, LeastElement
    <2>3. PICK v \in earlier : m = t - v
      BY <2>2 DEF D
    <2>4. ASSUME NEW u \in earlier PROVE u <= v
      <3>1. t - u \in D
        BY DEF D
      <3>2. t - v <= t - u
        BY <2>2, <2>3, <3>1
      <3> QED
        BY <1>3, <1>4, <3>2
    <2> QED
      BY <2>3, <2>4
  <1> HIDE DEF w
  <1>8. (CHOOSE v \in after1 : \A u \in after1 : u <= v) = w
    BY <1>5 DEF w
  <1>9. w \in DOMAIN old /\ w # time
    BY <1>3, <1>4, <1>7
  <1> QED
    BY <1>2, <1>4, <1>5, <1>6, <1>8, <1>9

(* What a document was at a block time stays what it was when the document   *)
(* is written later.                                                         *)
THEOREM PastIsKept ==
  ASSUME KeepsHistory, IsFiniteSet(Ids), Times \in SUBSET Nat, PastReadable
  PROVE  QuerySpec => PastAnswersKept
  <1>1. Init => PrimaryOK /\ TimedVersions
    BY StoreInit DEF StoreInv, Init, TimedVersions
  <1>2. PrimaryOK /\ TimedVersions /\ [Next]_storeVars => PrimaryOK' /\ TimedVersions'
    BY HistoryStep, TimedStep
  <1>3. \A id \in Ids, t \in Times : primary[id] # Missing => Answer(Past(id, t)) = PastFound(id, t)
    BY PastAnswer
  <1>4. (\A id \in Ids, t \in Times :
           primary[id] # Missing => Answer(Past(id, t)) = PastFound(id, t))'
    BY <1>3, PTL
  <1>5. ASSUME PrimaryOK, TimedVersions, [Next]_storeVars, NEW id \in Ids, NEW t \in Times,
               primary[id] # Missing, primary'[id] # primary[id],
               \E u \in DOMAIN primary[id].versions : u <= t, t < primary'[id].latest
        PROVE  Answer(Past(id, t))' = Answer(Past(id, t))
    <2>1. VersionAsOf(id, t)' = VersionAsOf(id, t)
      BY <1>5, VersionStays
    <2>2. primary'[id] # Missing
      BY <1>5, HistoryStep DEF VersionsKept
    <2>3. Answer(Past(id, t)) = PastFound(id, t) /\ Answer(Past(id, t))' = PastFound(id, t)'
      BY <1>3, <1>4, <1>5, <2>2
    <2> QED
      BY <2>1, <2>3 DEF PastFound, Found
  <1>6. PrimaryOK /\ TimedVersions /\ [Next]_storeVars =>
          [\A id \in Ids, t \in Times :
             LET past == [sql |-> FALSE, order |-> <<>>, limit |-> 1, start |-> Missing,
                          included |-> FALSE, time |-> t,
                          clauses |-> <<[field |-> IdField, operator |-> "==", values |-> <<id>>,
                                         mirrored |-> FALSE]>>]
             IN  /\ primary[id] # Missing /\ primary'[id] # primary[id]
                 /\ \E u \in DOMAIN primary[id].versions : u <= t
                 /\ t < primary'[id].latest
                 => Answer(past)' = Answer(past)]_queryVars
    BY <1>5 DEF Past, IdIs
  <1>7. QuerySpec => Spec
    BY QueriesKeepStore
  <1> QED
    BY <1>1, <1>2, <1>6, <1>7, PTL DEF Spec, PastAnswersKept
-----------------------------------------------------------------------------
(* Requests that differ only in where their results start are served by the *)
(* same index.                                                               *)
SameQuery(p, q) == p.clauses = q.clauses /\ p.order = q.order

LEMMA SameServed ==
  ASSUME NEW p, NEW q, SameQuery(p, q), NEW ix
  PROVE  /\ Serves(ix, p) <=> Serves(ix, q)
         /\ ClausesOrderable(ix, p) <=> ClausesOrderable(ix, q)
         /\ QueryPath(ix, p) = QueryPath(ix, q)
  <1>1. p.clauses = q.clauses /\ p.order = q.order
    BY DEF SameQuery
  <1>2. /\ EqualFields(p) = EqualFields(q) /\ ClauseFields(p) = ClauseFields(q)
        /\ OrderFields(p) = OrderFields(q)
    BY <1>1 DEF EqualFields, ClauseFields, OrderFields
  <1>3. Serves(ix, p) <=> Serves(ix, q)
    BY <1>1, <1>2 DEF Serves
  <1>5. LastClause(ix, p) = LastClause(ix, q) /\ SubqueryClause(p) = SubqueryClause(q)
    BY <1>1, <1>2 DEF LastClause, SubqueryClause
  <1>6. \A field : OrderedBy(p, field) <=> OrderedBy(q, field)
    BY <1>1 DEF OrderedBy
  <1>7. ClausesOrderable(ix, p) <=> ClausesOrderable(ix, q)
    BY <1>5, <1>6 DEF ClausesOrderable, Orderable
  <1>8. Intermediate(ix, p) = Intermediate(ix, q)
    BY <1>2, <1>5 DEF Intermediate
  <1>9. QueryPath(ix, p) = QueryPath(ix, q)
    BY <1>1, <1>8 DEF QueryPath
  <1> QED
    BY <1>3, <1>7, <1>9

(* The best index, of what serves a request and how many fields it names.    *)
Serving(q) == {i \in DOMAIN Indices : Serves(Indices[i], q)}
NamedFields(q) == Cardinality(ClauseFields(q) \cup OrderFields(q))
BestOf(serving, named) ==
  LET Of(i) == Len(Indices[i].properties) - named
      IsBest(i) == \A j \in serving :
        \/ Of(i) < Of(j)
        \/ Of(i) = Of(j) /\ i <= j
  IN  IF \E i \in serving : IsBest(i) /\ Of(i) <= MaxIndexDifference
      THEN Indices[CHOOSE i \in serving : IsBest(i)] ELSE Missing

LEMMA BestIndexOf ==
  ASSUME NEW q
  PROVE  BestIndex(q) = BestOf(Serving(q), NamedFields(q))
  BY DEF BestIndex, BestOf, Difference, Serving, NamedFields

LEMMA SameIndex ==
  ASSUME NEW p, NEW q, SameQuery(p, q)
  PROVE  /\ BestIndex(p) = BestIndex(q)
         /\ IsForPrimaryKey(p) <=> IsForPrimaryKey(q)
         /\ PrimaryAscending(p) <=> PrimaryAscending(q)
         /\ \A field : Ascending(p, field) <=> Ascending(q, field)
         /\ PathLength(p) = PathLength(q) /\ FirstCount(p) = FirstCount(q)
         /\ ClauseFields(p) = ClauseFields(q) /\ EqualFields(p) = EqualFields(q)
  <1>1. p.clauses = q.clauses /\ p.order = q.order
    BY DEF SameQuery
  <1>2. /\ EqualFields(p) = EqualFields(q) /\ ClauseFields(p) = ClauseFields(q)
    BY <1>1 DEF EqualFields, ClauseFields
  <1>3. Serving(p) = Serving(q) /\ NamedFields(p) = NamedFields(q)
    <2>1. Serving(p) = Serving(q)
      BY SameServed DEF Serving
    <2>2. OrderFields(p) = OrderFields(q)
      BY <1>1 DEF OrderFields
    <2> QED
      BY <1>2, <2>1, <2>2 DEF NamedFields
  <1>4. BestIndex(p) = BestIndex(q)
    BY <1>3, BestIndexOf
  <1>5. IsForPrimaryKey(p) <=> IsForPrimaryKey(q)
    BY <1>1 DEF IsForPrimaryKey, HasClauses
  <1>6. PrimaryAscending(p) <=> PrimaryAscending(q)
    BY <1>1 DEF PrimaryAscending
  <1>7. \A field : Ascending(p, field) <=> Ascending(q, field)
    BY <1>1 DEF Ascending
  <1>8. PathLength(p) = PathLength(q) /\ FirstCount(p) = FirstCount(q)
    BY <1>1, <1>2 DEF PathLength, FirstCount
  <1> QED
    BY <1>2, <1>4, <1>5, <1>6, <1>7, <1>8

(* In a unique index two documents differ somewhere.                         *)
LEMMA UniqueEntries ==
  ASSUME NEW docs, Fits(index, docs), NEW i \in DOMAIN Indices, Indices[i].unique,
         NEW a \in StoredIn(docs), NEW b \in StoredIn(docs),
         \A k \in 1 .. Size(i) : docs[a][Indices[i].properties[k]] = docs[b][Indices[i].properties[k]]
  PROVE  a = b
  <1> DEFINE props == Indices[i].properties
             N == Size(i)
  <1>1. N \in Nat /\ N = Len(props)
    BY IndexType DEF Size
  <1> HIDE DEF N
  <1>2. \A j \in 1 .. 2 * N : (j + 1) \div 2 \in 1 .. N
    BY <1>1
  <1>3. PathIn(i, docs[a]) = PathIn(i, docs[b])
    <2>1. \A j \in 1 .. 2 * N : docs[a][props[(j + 1) \div 2]] = docs[b][props[(j + 1) \div 2]]
      BY <1>2 DEF N
    <2> QED
      BY <1>1, <2>1 DEF PathIn, IndexPath
  <1>4. EntryAt(i, docs[a], a) = EntryAt(i, docs[b], b)
    BY <1>3 DEF EntryAt, AtZero
  <1> QED
    BY <1>4 DEF Fits

(* A document in a unique index has a key for each of its properties.        *)
LEMMA UniqueKeys ==
  ASSUME NoUniqueNulls, IdApart, Present \in Docs, NEW i \in DOMAIN Indices, Indices[i].unique,
         NEW k \in 1 .. Size(i), NEW id \in StoredIn(Present)
  PROVE  LET p == Indices[i].properties[k]
         IN  /\ RawKey(id, p) = ValueOf(id, p) /\ RawKey(id, p) \in Keys /\ RawKey(id, p) # Missing
             /\ ValueOf(id, p) = Present[id][p]
  <1> DEFINE p == Indices[i].properties[k]
  <1>1. p \in Properties /\ DOMAIN Indices[i].properties = 1 .. Size(i)
    BY IndexType
  <1>2. /\ id \in Ids /\ Present[id] \in Documents /\ ValueOf(id, p) = Present[id][p]
        /\ ValueOf(id, p) \in Keys
    BY <1>1, StoredKeysOf
  <1>3. Present[id][p] # Null
    BY <1>1, <1>2 DEF NoUniqueNulls, AnyNull
  <1>4. id # Missing
    BY <1>2, KeysAssumption, MissingAssumption
  <1>5. RawKey(id, p) = ValueOf(id, p)
    BY <1>2, <1>3, <1>4 DEF RawKey
  <1> QED
    BY <1>2, <1>5, MissingAssumption

(* A query whose results from a start are the rest of its results: by the   *)
(* last property of a unique index, if all the others are equalities and    *)
(* the last is read in the order in which the code cuts it.                 *)
LastProperty(ix) == ix.properties[Len(ix.properties)]
EndsUniquely(ix, q) ==
  /\ ix.unique
  /\ Len(ix.properties) <= Cardinality(EqualFields(q)) + 1
  /\ q.clauses.range # Missing =>
       StartsExactly(q.clauses.range.operator, Ascending(q, LastProperty(ix)))
  /\ q.clauses.in = Missing /\ q.clauses.range = Missing => Ascending(q, LastProperty(ix))

(* Its first level is its last one, or an equality before it.                *)
LEMMA UniqueLevels ==
  ASSUME NEW i \in DOMAIN Indices, NEW q, Readable(q), DistinctProperties,
         Serves(Indices[i], q), EndsUniquely(Indices[i], q)
  PROVE  LET m == PathLength(q)
             N == Size(i)
             n == Cardinality(EqualFields(q))
             left == LeftOver(Indices[i], q)
             hasClause == q.clauses.in # Missing \/ q.clauses.range # Missing
         IN  /\ N \in Nat /\ n \in Nat /\ N >= 1 /\ n <= N /\ N <= n + 1 /\ FirstCount(q) = 1
             /\ q.clauses.in = Missing \/ q.clauses.range = Missing
             /\ hasClause => m = n /\ N = n + 1 /\ left = <<>>
             /\ ~hasClause /\ N = n => m = N - 1 /\ EqualFields(q) # {} /\ left = <<>>
             /\ ~hasClause /\ N = n + 1 /\ n > 0 =>
                  m = N - 2 /\ EqualFields(q) # {} /\ left # <<>> /\ Len(left) = 1
             /\ n = 0 => EqualFields(q) = {} /\ N = 1
  <1> DEFINE m == PathLength(q)
             N == Size(i)
             n == Cardinality(EqualFields(q))
             c == Cardinality(ClauseFields(q))
             left == LeftOver(Indices[i], q)
             hasClause == q.clauses.in # Missing \/ q.clauses.range # Missing
  <1>1. /\ n \in Nat /\ c \in 0 .. N
        /\ c = n + (IF q.clauses.in = Missing THEN 0 ELSE 1)
                 + (IF q.clauses.range = Missing THEN 0 ELSE 1)
    BY ServesShape
  <1>2. N \in Nat /\ N >= 1
    BY IndexType
  <1>3. N <= n + 1
    BY DEF EndsUniquely, Size
  <1>4. left \in Seq(Properties) /\ Len(left) = N - c
    BY LeftOverIs
  <1>5. EqualFields(q) = {} <=> n = 0
    BY NoClauseFields DEF Readable
  <1>6. m = IF ~hasClause /\ EqualFields(q) # {} THEN n - 1 ELSE n
    BY DEF PathLength
  <1>7. FirstCount(q) = IF q.clauses.in # Missing /\ q.clauses.range # Missing THEN 2 ELSE 1
    BY DEF FirstCount
  <1> HIDE DEF m, N, n, c, left
  <1>8. left = <<>> <=> N - c = 0
    BY <1>4
  <1>9. n <= N /\ (q.clauses.in = Missing \/ q.clauses.range = Missing) /\ FirstCount(q) = 1
    BY <1>1, <1>2, <1>3, <1>7
  <1>10. hasClause => c = n + 1
    BY <1>1, <1>9
  <1>11. ~hasClause => c = n
    BY <1>1
  <1> HIDE DEF hasClause
  <1>12. hasClause => m = n /\ N = n + 1 /\ left = <<>>
    BY <1>1, <1>2, <1>3, <1>6, <1>8, <1>10
  <1>13. ~hasClause /\ N = n => m = N - 1 /\ EqualFields(q) # {} /\ left = <<>>
    BY <1>1, <1>2, <1>5, <1>6, <1>8, <1>11
  <1>14. ~hasClause /\ N = n + 1 /\ n > 0 =>
           m = N - 2 /\ EqualFields(q) # {} /\ left # <<>> /\ Len(left) = 1
    BY <1>1, <1>2, <1>4, <1>5, <1>6, <1>8, <1>11
  <1>15. n = 0 => EqualFields(q) = {} /\ N = 1
    BY <1>2, <1>3, <1>5
  <1> QED
    BY <1>1, <1>2, <1>3, <1>9, <1>12, <1>13, <1>14, <1>15 DEF m, N, n, left, hasClause

(* The keys of a clause from a start are the rest of those without.          *)
LEMMA ClauseCut ==
  ASSUME NEW c, NEW p, HasLevel(c, p), NEW q, NEW o, SameQuery(o, q), q.included \in BOOLEAN,
         o.included \in BOOLEAN,
         StartsExactly(c.operator, ~IsRange(c.operator) \/ Ascending(q, p)),
         NEW s, RawKey(s, p) \in Keys
  PROVE  LET ascending == ~IsRange(c.operator) \/ Ascending(q, p)
         IN  /\ ClauseQuery(c, s, q).keys =
                  Rest(ClauseQuery(c, Missing, o).keys, RawKey(s, p), q.included, ascending)
             /\ ClauseQuery(c, s, q).ascending = ascending
  <1> DEFINE ascending == ~IsRange(c.operator) \/ Ascending(q, p)
             k == RawKey(s, p)
  <1>1. c.operator \in Operators /\ Fit(c.operator, c.values) /\ c.field = p /\ p \in Properties
    BY DEF HasLevel
  <1>2. ascending \in BOOLEAN
    BY DEF Ascending
  <1>3. Ascending(o, p) <=> Ascending(q, p)
    BY SameIndex
  <1>4. RawKey(Missing, p) = Missing
    BY DEF RawKey
  <1>5. /\ ClauseQuery(c, s, q).keys = Items(c.operator, c.values, k, q.included, ascending)
        /\ ClauseQuery(c, s, q).ascending = ascending
    BY <1>1, ClauseLevel
  <1>6. ClauseQuery(c, Missing, o).keys = ItemsWithoutStart(c.operator, c.values)
    BY <1>1, <1>3, <1>4, ClauseLevel DEF Items
  <1>7. k # Missing
    BY MissingAssumption
  <1> HIDE DEF ascending, k
  <1>8. Items(c.operator, c.values, k, q.included, ascending)
          = ItemsFromStart(c.operator, c.values, k, q.included, ascending)
    BY <1>7 DEF Items
  <1>9. StartsExactly(c.operator, ascending) /\ k \in Keys
    BY DEF ascending, k
  <1>10. ItemsFromStart(c.operator, c.values, k, q.included, ascending)
           = Rest(ItemsWithoutStart(c.operator, c.values), k, q.included, ascending)
    BY <1>1, <1>2, <1>9, StartCutsItems
  <1> QED
    BY <1>5, <1>6, <1>8, <1>10 DEF ascending, k

(* So are the keys of a property that no clause uses.                        *)
LEMMA FullCut ==
  ASSUME NEW s \in Keys, NEW included \in BOOLEAN
  PROVE  /\ From(s, included) = Rest(Keys, s, included, TRUE)
         /\ To(s, included) = Rest(Keys, s, included, FALSE)
  <1>1. \A k \in Keys : Rank[k] \in Nat /\ (k = s <=> Rank[k] = Rank[s]) /\ Rank[s] \in Nat
    BY KeysOrdered
  <1>2. \A k \in Keys : k \in From(s, included) <=> Onward(k, s, included, TRUE)
    BY <1>1 DEF From, RangeFrom, RangeAfter, Onward, Less, AtMost
  <1>3. \A k \in Keys : k \in To(s, included) <=> Onward(k, s, included, FALSE)
    BY <1>1 DEF To, RangeTo, RangeToInclusive, Onward, Less, AtMost
  <1>4. From(s, included) \in SUBSET Keys /\ To(s, included) \in SUBSET Keys
    BY RangesAreKeys
  <1> QED
    BY <1>2, <1>3, <1>4 DEF Rest
-----------------------------------------------------------------------------
(* The levels of such a query: one for its In or range, or for its last      *)
(* equality, or that and one for the property left over, or that alone.      *)
AnyClause(q) == IF q.clauses.in # Missing THEN q.clauses.in ELSE q.clauses.range
LastLevelsOf(i, q) ==
  LET ix == Indices[i]
      N == Size(i)
      m == PathLength(q)
      n == Cardinality(EqualFields(q))
      levels == IndexQuery(ix, q).levels
      last == LastProperty(ix)
      equality == EqualityOn(ix, q, n)
  IN  /\ AnyClause(q) # Missing \/ N = n \/ (N = n + 1 /\ n > 0) \/ n = 0
      /\ N \in Nat /\ n \in Nat /\ N >= 1
      /\ AnyClause(q) # Missing =>
           /\ N - m = 1 /\ HasLevel(AnyClause(q), last)
           /\ AnyClause(q).operator \in {"in"} \cup RangeOperators
           /\ AnyClause(q).operator = "in" \/ AnyClause(q) = q.clauses.range
           /\ levels[1] = ClauseQuery(AnyClause(q), q.start, q)
      /\ AnyClause(q) = Missing /\ N = n =>
           /\ N - m = 1 /\ HasLevel(equality, last)
           /\ levels[1] = ClauseQuery(equality, q.start, q)
      /\ AnyClause(q) = Missing /\ N = n + 1 /\ n > 0 =>
           /\ N - m = 2 /\ HasLevel(equality, ix.properties[n])
           /\ levels[1] = ClauseQuery(equality, Missing, q)
           /\ LeftOver(ix, q) \in Seq(Properties) /\ Len(LeftOver(ix, q)) = 1
           /\ LeftOver(ix, q)[1] = last
           /\ levels[2] = LeftOverLevel(LeftOver(ix, q), 1, q)
      /\ AnyClause(q) = Missing /\ n = 0 =>
           /\ N - m = 1 /\ last \in Properties
           /\ levels[1] = PartFromStart(last, q.start, q.included, TRUE)

LEMMA LastLevelsAre ==
  ASSUME NEW i \in DOMAIN Indices, NEW q, Readable(q), DistinctProperties,
         Serves(Indices[i], q), ClausesOrderable(Indices[i], q), EndsUniquely(Indices[i], q)
  PROVE  LastLevelsOf(i, q)
  <1> DEFINE ix == Indices[i]
             props == ix.properties
             N == Size(i)
             m == PathLength(q)
             n == Cardinality(EqualFields(q))
             levels == IndexQuery(ix, q).levels
             last == LastProperty(ix)
             e == q.clauses
             left == LeftOver(ix, q)
             start == StartOfLastClause(ix, q)
  <1>1. /\ N \in Nat /\ n \in Nat /\ N >= 1 /\ n <= N /\ N <= n + 1 /\ FirstCount(q) = 1
        /\ e.in = Missing \/ e.range = Missing
        /\ (e.in # Missing \/ e.range # Missing) => m = n /\ N = n + 1 /\ left = <<>>
        /\ ~(e.in # Missing \/ e.range # Missing) /\ N = n => m = N - 1 /\ EqualFields(q) # {} /\ left = <<>>
        /\ ~(e.in # Missing \/ e.range # Missing) /\ N = n + 1 /\ n > 0 =>
             m = N - 2 /\ EqualFields(q) # {} /\ left # <<>> /\ Len(left) = 1
        /\ n = 0 => EqualFields(q) = {} /\ N = 1
    BY UniqueLevels
  <1>2. last = props[N] /\ \A k \in 1 .. N : props[k] \in Properties
    BY IndexType DEF LastProperty, Size
  <1>3. /\ levels[1] = FirstLevel(ix, q)
        /\ \A k \in 1 .. N - (m + 1) : levels[1 + k] = LeftOverLevel(Below(ix, q), k, Unordered(q))
    <2>1. FirstLevels(ix, q)[1] = FirstLevel(ix, q)
      BY FirstLevelsAre
    <2>2. /\ \A k \in 1 .. FirstCount(q) : IndexQuery(ix, q).levels[k] = FirstLevels(ix, q)[k]
          /\ \A k \in 1 .. N - (m + FirstCount(q)) :
               IndexQuery(ix, q).levels[FirstCount(q) + k] = LeftOverLevel(Below(ix, q), k, Unordered(q))
      BY IndexQueryLevels
    <2>3. 1 \in 1 .. 1
      OBVIOUS
    <2> HIDE DEF m, N
    <2> QED
      BY <1>1, <2>1, <2>2, <2>3
  <1>4. /\ e.in # Missing => HasLevel(e.in, props[m + 1]) /\ e.in.operator = "in"
        /\ e.range # Missing => HasLevel(e.range, props[m + 1]) /\ e.range.operator \in RangeOperators
        /\ e.in = Missing /\ e.range = Missing /\ EqualFields(q) # {} =>
             m + 1 = n /\ HasLevel(EqualityOn(ix, q, n), props[m + 1])
    <2>1. FirstCount(q) = 1
      BY <1>1
    <2> QED
      BY <2>1, ClausesOfQuery
  <1>5. start = IF left = <<>> THEN q.start ELSE Missing
    BY DEF StartOfLastClause
  <1>6. FirstLevel(ix, q) =
          IF e.in # Missing THEN ClauseQuery(e.in, start, q)
          ELSE IF e.range # Missing THEN ClauseQuery(e.range, start, q)
          ELSE IF EqualFields(q) # {} THEN ClauseQuery(EqualityOn(ix, q, n), start, q)
          ELSE PartFromStart(props[1], q.start, q.included, TRUE)
    BY DEF FirstLevel
  <1>7. AnyClause(q) = IF e.in # Missing THEN e.in ELSE e.range
    BY DEF AnyClause
  <1>8. ASSUME e.in # Missing \/ e.range # Missing
        PROVE  /\ N - m = 1 /\ HasLevel(AnyClause(q), last) /\ AnyClause(q) # Missing
               /\ AnyClause(q).operator \in {"in"} \cup RangeOperators
               /\ AnyClause(q).operator = "in" \/ AnyClause(q) = e.range
               /\ levels[1] = ClauseQuery(AnyClause(q), q.start, q)
    <2>1. N - m = 1 /\ m + 1 = N /\ start = q.start
      BY <1>1, <1>5, <1>8
    <2> HIDE DEF N, m, n, props, levels, last, e, left, start, ix
    <2> QED
      BY <1>2, <1>3, <1>4, <1>6, <1>7, <1>8, <2>1
  <1>9. ASSUME ~(e.in # Missing \/ e.range # Missing), N = n
        PROVE  /\ N - m = 1 /\ HasLevel(EqualityOn(ix, q, n), last)
               /\ levels[1] = ClauseQuery(EqualityOn(ix, q, n), q.start, q)
    <2>1. m = N - 1 /\ EqualFields(q) # {} /\ left = <<>>
      BY <1>1, <1>9
    <2>2. N - m = 1 /\ m + 1 = N /\ start = q.start
      BY <1>1, <1>5, <2>1
    <2> HIDE DEF N, m, n, props, levels, last, e, left, start, ix
    <2> QED
      BY <1>2, <1>3, <1>4, <1>6, <1>9, <2>1, <2>2
  <1>10. ASSUME ~(e.in # Missing \/ e.range # Missing), N = n + 1, n > 0
         PROVE  /\ N - m = 2 /\ HasLevel(EqualityOn(ix, q, n), props[n])
                /\ levels[1] = ClauseQuery(EqualityOn(ix, q, n), Missing, q)
                /\ left \in Seq(Properties) /\ Len(left) = 1 /\ left[1] = last
                /\ levels[2] = LeftOverLevel(left, 1, q)
    <2>1. m = N - 2 /\ EqualFields(q) # {} /\ left # <<>> /\ Len(left) = 1
      BY <1>1, <1>10
    <2>2. N - m = 2 /\ m + 1 = n /\ start = Missing /\ 1 \in 1 .. N - (m + 1)
      BY <1>1, <1>5, <1>10, <2>1
    <2>3. ClauseFields(q) # {}
      BY <2>1 DEF ClauseFields
    <2>4. Below(ix, q) = left /\ Unordered(q) = q
      BY <2>3 DEF Below, Unordered
    <2>5. left \in Seq(Properties) /\ left[1] = last
      <3>1. /\ left \in Seq(Properties) /\ Len(left) = N - Cardinality(ClauseFields(q))
            /\ \A k \in 1 .. N - Cardinality(ClauseFields(q)) :
                 left[k] = props[Cardinality(ClauseFields(q)) + k]
            /\ Cardinality(ClauseFields(q)) \in Nat
        BY LeftOverIs
      <3> DEFINE c == Cardinality(ClauseFields(q))
      <3> HIDE DEF c
      <3>2. 1 \in 1 .. N - c /\ c + 1 = N
        BY <1>1, <2>1, <3>1 DEF c
      <3> QED
        BY <1>2, <3>1, <3>2 DEF c
    <2> HIDE DEF N, m, n, props, levels, last, e, left, start, ix
    <2>6. /\ HasLevel(EqualityOn(ix, q, n), props[n])
          /\ levels[1] = ClauseQuery(EqualityOn(ix, q, n), Missing, q)
      BY <1>3, <1>4, <1>6, <1>10, <2>1, <2>2
    <2>7. levels[2] = LeftOverLevel(left, 1, q)
      BY <1>3, <2>2, <2>4
    <2> QED
      BY <2>1, <2>2, <2>5, <2>6, <2>7
  <1>11. ASSUME ~(e.in # Missing \/ e.range # Missing), n = 0
         PROVE  /\ N - m = 1 /\ last \in Properties
                /\ levels[1] = PartFromStart(last, q.start, q.included, TRUE)
    <2>1. EqualFields(q) = {} /\ N = 1
      BY <1>1, <1>11
    <2>2. m = n
      BY <2>1 DEF PathLength
    <2>3. N - m = 1
      BY <1>11, <2>1, <2>2
    <2> HIDE DEF N, m, n, props, levels, last, e, left, start, ix
    <2>4. 1 \in 1 .. N /\ last = props[1] /\ last \in Properties
      BY <1>2, <2>1
    <2>5. levels[1] = PartFromStart(last, q.start, q.included, TRUE)
      BY <1>3, <1>6, <1>11, <2>1, <2>4
    <2> QED
      BY <2>3, <2>4, <2>5
  <1>12. N = n \/ (N = n + 1 /\ n > 0) \/ n = 0
    <2> HIDE DEF N, n
    <2> QED
      BY <1>1
  <1>13. AnyClause(q) # Missing <=> e.in # Missing \/ e.range # Missing
    BY <1>7
  <1>14. N \in Nat /\ n \in Nat /\ N >= 1
    BY <1>1
  <1> HIDE DEF N, m, n, props, levels, last, e, left, start, ix
  <1> QED
    BY <1>8, <1>9, <1>10, <1>11, <1>12, <1>13, <1>14
       DEF LastLevelsOf, N, m, n, props, levels, last, e, left, ix

(* The last level is read in the order asked for. A start cuts it, and       *)
(* nothing else, to what is at or after the start.                           *)
LastLevel(i, q) == IndexQuery(Indices[i], q).levels[Size(i) - PathLength(q)]

LEMMA LastLevelOrder ==
  ASSUME NEW i \in DOMAIN Indices, NEW q, Readable(q), DistinctProperties,
         Serves(Indices[i], q), ClausesOrderable(Indices[i], q), EndsUniquely(Indices[i], q)
  PROVE  /\ LastLevel(i, q).ascending <=> Ascending(q, LastProperty(Indices[i]))
         /\ LastLevel(i, q).ascending \in BOOLEAN
         /\ Size(i) - PathLength(q) \in {1, 2}
  <1> DEFINE ix == Indices[i]
             N == Size(i)
             m == PathLength(q)
             n == Cardinality(EqualFields(q))
             levels == IndexQuery(ix, q).levels
             last == LastProperty(ix)
             equality == EqualityOn(ix, q, n)
             c == AnyClause(q)
  <1>1. LastLevelsOf(i, q)
    BY LastLevelsAre
  <1>2. q.included \in BOOLEAN /\ Ascending(q, last) \in BOOLEAN
    BY DEF Readable, Ascending
  <1>3. c = Missing => Ascending(q, last)
    BY DEF EndsUniquely, AnyClause
  <1>4. equality.operator = "==" /\ ~IsRange(equality.operator)
    BY DEF EqualityOn, IsRange
  <1>5. /\ c # Missing \/ N = n \/ (N = n + 1 /\ n > 0) \/ n = 0
        /\ c # Missing => N - m = 1
        /\ c = Missing /\ N = n => N - m = 1
        /\ c = Missing /\ N = n + 1 /\ n > 0 => N - m = 2
        /\ c = Missing /\ n = 0 => N - m = 1
    BY <1>1 DEF LastLevelsOf
  <1>6. ASSUME c # Missing PROVE levels[1].ascending = Ascending(q, last)
    <2>1. /\ HasLevel(c, last) /\ c.operator \in {"in"} \cup RangeOperators
          /\ levels[1] = ClauseQuery(c, q.start, q)
      BY <1>1, <1>6 DEF LastLevelsOf
    <2>2. IsRange(c.operator)
      BY <2>1, OperatorKinds DEF IsRange
    <2>3. levels[1].ascending = (~IsRange(c.operator) \/ Ascending(q, c.field)) /\ c.field = last
      BY <1>2, <2>1, ClauseLevel DEF HasLevel
    <2> QED
      BY <1>2, <2>2, <2>3
  <1>7. ASSUME c = Missing, N = n PROVE levels[1].ascending = TRUE
    <2>1. HasLevel(equality, last) /\ levels[1] = ClauseQuery(equality, q.start, q)
      BY <1>1, <1>7 DEF LastLevelsOf
    <2>2. levels[1].ascending = (~IsRange(equality.operator) \/ Ascending(q, equality.field))
      BY <1>2, <2>1, ClauseLevel DEF HasLevel
    <2> HIDE DEF equality, levels
    <2> QED
      BY <1>4, <2>2
  <1>8. ASSUME c = Missing, N = n + 1, n > 0 PROVE levels[2].ascending = TRUE
    <2>1. /\ LeftOver(ix, q) \in Seq(Properties) /\ Len(LeftOver(ix, q)) = 1
          /\ LeftOver(ix, q)[1] = last /\ levels[2] = LeftOverLevel(LeftOver(ix, q), 1, q)
      BY <1>1, <1>8 DEF LastLevelsOf
    <2>2. 1 \in 1 .. Len(LeftOver(ix, q))
      BY <2>1
    <2>3. LeftOverLevel(LeftOver(ix, q), 1, q).ascending = (q.start = Missing \/ Ascending(q, last))
      <3> DEFINE left == LeftOver(ix, q)
      <3>1. left \in Seq(Properties) /\ 1 \in 1 .. Len(left) /\ left[1] = last
        BY <2>1, <2>2
      <3> HIDE DEF left, last
      <3>2. LeftOverLevel(left, 1, q).ascending = (q.start = Missing \/ Ascending(q, left[1]))
        BY <1>2, <3>1, LeftLevel
      <3> QED
        BY <3>1, <3>2 DEF left
    <2> QED
      BY <1>3, <1>8, <2>1, <2>3
  <1>9. ASSUME c = Missing, n = 0 PROVE levels[1].ascending = TRUE
    <2>1. last \in Properties /\ levels[1] = PartFromStart(last, q.start, q.included, TRUE)
      BY <1>1, <1>9 DEF LastLevelsOf
    <2> HIDE DEF levels, last
    <2>2. PartFromStart(last, q.start, q.included, TRUE).ascending = TRUE
      BY DEF PartFromStart, PartFromKey, Level
    <2> QED
      BY <2>1, <2>2
  <1>10. LastLevel(i, q) = levels[N - m]
    BY DEF LastLevel
  <1> HIDE DEF levels, N, m, n, c, last
  <1>11. N - m \in {1, 2}
    BY <1>5
  <1>12. levels[N - m].ascending = Ascending(q, last)
    BY <1>2, <1>3, <1>5, <1>6, <1>7, <1>8, <1>9
  <1> QED
    BY <1>2, <1>10, <1>11, <1>12 DEF levels, N, m, last

CutAtLast(i, q, o) ==
  LET last == LastProperty(Indices[i])
  IN  /\ Size(i) - PathLength(q) = 2 =>
           IndexQuery(Indices[i], q).levels[1].keys = IndexQuery(Indices[i], o).levels[1].keys
      /\ LastLevel(i, q).keys =
           Rest(LastLevel(i, o).keys, ValueOf(q.start, last), q.included, Ascending(q, last))

LEMMA StartCutsLast ==
  ASSUME DistinctProperties, NoUniqueNulls, IdApart, Present \in Docs, NEW i \in DOMAIN Indices,
         NEW q, Readable(q), NEW o, Readable(o), SameQuery(o, q), o.start = Missing,
         q.start \in StoredIn(Present),
         Serves(Indices[i], q), ClausesOrderable(Indices[i], q), EndsUniquely(Indices[i], q)
  PROVE  CutAtLast(i, q, o)
  <1> DEFINE ix == Indices[i]
             N == Size(i)
             m == PathLength(q)
             n == Cardinality(EqualFields(q))
             levels == IndexQuery(ix, q).levels
             whole == IndexQuery(ix, o).levels
             last == LastProperty(ix)
             equality == EqualityOn(ix, q, n)
             c == AnyClause(q)
             k == ValueOf(q.start, last)
             forwards == Ascending(q, last)
  <1>1. LastLevelsOf(i, q)
    BY LastLevelsAre
  <1>2. /\ Serves(ix, o) /\ ClausesOrderable(ix, o)
        /\ o.clauses = q.clauses /\ EqualFields(o) = EqualFields(q) /\ PathLength(o) = m
        /\ ClauseFields(o) = ClauseFields(q) /\ \A f : Ascending(o, f) <=> Ascending(q, f)
    BY SameServed, SameIndex DEF SameQuery
  <1>3. EndsUniquely(ix, o)
    BY <1>2 DEF EndsUniquely, StartsExactly
  <1>4. LastLevelsOf(i, o)
    BY <1>2, <1>3, LastLevelsAre
  <1>5. /\ AnyClause(o) = c /\ EqualityOn(ix, o, n) = equality /\ Cardinality(EqualFields(o)) = n
        /\ LeftOver(ix, o) = LeftOver(ix, q)
    BY <1>2 DEF AnyClause, EqualityOn, LeftOver
  <1>6. q.included \in BOOLEAN /\ o.included \in BOOLEAN /\ forwards \in BOOLEAN
    BY DEF Readable, Ascending
  <1>7. /\ RawKey(q.start, last) = k /\ k \in Keys /\ k # Missing
    <2>1. N \in 1 .. N /\ ix.unique /\ last = ix.properties[N]
      BY IndexType DEF EndsUniquely, LastProperty, Size
    <2> QED
      BY <2>1, UniqueKeys
  <1>8. c = Missing => forwards
    BY DEF EndsUniquely, AnyClause
  <1>9. equality.operator = "==" /\ ~IsRange(equality.operator)
    BY DEF EqualityOn, IsRange
  <1>10. q.start # Missing /\ o.start = Missing
    BY KeysAssumption, MissingAssumption DEF StoredIn
  <1>11. ASSUME c # Missing PROVE levels[1].keys = Rest(whole[1].keys, k, q.included, forwards)
    <2>1. /\ HasLevel(c, last) /\ c.operator \in {"in"} \cup RangeOperators
          /\ c.operator = "in" \/ c = q.clauses.range
          /\ levels[1] = ClauseQuery(c, q.start, q)
      BY <1>1, <1>11 DEF LastLevelsOf
    <2>2. whole[1] = ClauseQuery(c, Missing, o)
      BY <1>4, <1>5, <1>10, <1>11 DEF LastLevelsOf
    <2>3. IsRange(c.operator)
      BY <2>1, OperatorKinds DEF IsRange
    <2>4. StartsExactly(c.operator, ~IsRange(c.operator) \/ forwards)
      BY <1>6, <1>11, <2>1, <2>3 DEF EndsUniquely, StartsExactly
    <2>5. ClauseQuery(c, q.start, q).keys =
            Rest(ClauseQuery(c, Missing, o).keys, RawKey(q.start, last), q.included,
                 ~IsRange(c.operator) \/ forwards)
      BY <1>6, <1>7, <2>1, <2>4, ClauseCut
    <2>6. (~IsRange(c.operator) \/ forwards) = forwards
      BY <1>6, <2>3
    <2> HIDE DEF c, k, forwards, levels, whole
    <2> QED
      BY <1>7, <2>1, <2>2, <2>5, <2>6
  <1>12. ASSUME c = Missing, N = n
         PROVE  levels[1].keys = Rest(whole[1].keys, k, q.included, forwards)
    <2>1. HasLevel(equality, last) /\ levels[1] = ClauseQuery(equality, q.start, q)
      BY <1>1, <1>12 DEF LastLevelsOf
    <2>2. whole[1] = ClauseQuery(equality, Missing, o)
      BY <1>2, <1>4, <1>5, <1>10, <1>12 DEF LastLevelsOf
    <2>3. StartsExactly(equality.operator, ~IsRange(equality.operator) \/ forwards)
      BY <1>9 DEF StartsExactly
    <2>4. ClauseQuery(equality, q.start, q).keys =
            Rest(ClauseQuery(equality, Missing, o).keys, RawKey(q.start, last), q.included,
                 ~IsRange(equality.operator) \/ forwards)
      BY <1>6, <1>7, <2>1, <2>3, ClauseCut
    <2>5. (~IsRange(equality.operator) \/ forwards) = forwards
      BY <1>6, <1>8, <1>9, <1>12
    <2> HIDE DEF equality, k, forwards, levels, whole
    <2> QED
      BY <1>7, <2>1, <2>2, <2>4, <2>5
  <1>13. ASSUME c = Missing, N = n + 1, n > 0
         PROVE  /\ levels[1].keys = whole[1].keys
                /\ levels[2].keys = Rest(whole[2].keys, k, q.included, forwards)
    <2>1. /\ HasLevel(equality, ix.properties[n]) /\ levels[1] = ClauseQuery(equality, Missing, q)
          /\ LeftOver(ix, q) \in Seq(Properties) /\ Len(LeftOver(ix, q)) = 1
          /\ LeftOver(ix, q)[1] = last /\ levels[2] = LeftOverLevel(LeftOver(ix, q), 1, q)
      BY <1>1, <1>13 DEF LastLevelsOf
    <2>2. /\ whole[1] = ClauseQuery(equality, Missing, o)
          /\ whole[2] = LeftOverLevel(LeftOver(ix, q), 1, o)
      BY <1>2, <1>4, <1>5, <1>13 DEF LastLevelsOf
    <2>3. levels[1].keys = whole[1].keys
      <3>1. RawKey(Missing, equality.field) = Missing
        BY DEF RawKey
      <3> HIDE DEF equality
      <3>2. /\ ClauseQuery(equality, Missing, q).keys
                 = {x \in Keys : Satisfies(x, equality.operator, equality.values)}
            /\ ClauseQuery(equality, Missing, o).keys
                 = {x \in Keys : Satisfies(x, equality.operator, equality.values)}
        BY <1>6, <2>1, <3>1, ClauseLevel DEF HasLevel
      <3> QED
        BY <2>1, <2>2, <3>2
    <2>4. levels[2].keys = From(k, q.included)
      <3>1. LeftOverLevel(LeftOver(ix, q), 1, q) = PartFromKey(last, k, q.included, forwards)
        <4> DEFINE left == LeftOver(ix, q)
        <4> HIDE DEF k, forwards, last, left
        <4>1. left[1] = last /\ Len(left) = 1
          BY <2>1 DEF left
        <4>2. LeftOverLevel(left, 1, q) = PartFromKey(last, k, q.included, forwards)
          BY <1>6, <1>7, <1>10, <4>1 DEF LeftOverLevel, forwards
        <4> QED
          BY <4>2 DEF left
      <3> HIDE DEF k, forwards
      <3>2. PartFromKey(last, k, q.included, forwards).keys = From(k, q.included)
        BY <1>8, <1>13 DEF PartFromKey, Level
      <3> QED
        BY <2>1, <3>1, <3>2
    <2>5. whole[2].keys = Keys
      <3> DEFINE left == LeftOver(ix, q)
      <3>1. left \in Seq(Properties) /\ 1 \in 1 .. Len(left)
        BY <2>1
      <3>2. whole[2] = LeftOverLevel(left, 1, o)
        BY <2>2
      <3> HIDE DEF left, whole
      <3>3. LeftOverLevel(left, 1, o).keys = Keys
        BY <1>6, <1>10, <3>1, LeftLevel
      <3> QED
        BY <3>2, <3>3
    <2>6. From(k, q.included) = Rest(Keys, k, q.included, TRUE)
      BY <1>6, <1>7, FullCut
    <2>7. forwards = TRUE
      BY <1>6, <1>8, <1>13
    <2> HIDE DEF equality, k, forwards, levels, whole
    <2> QED
      BY <2>3, <2>4, <2>5, <2>6, <2>7
  <1>14. ASSUME c = Missing, n = 0
         PROVE  levels[1].keys = Rest(whole[1].keys, k, q.included, forwards)
    <2>1. last \in Properties /\ levels[1] = PartFromStart(last, q.start, q.included, TRUE)
      BY <1>1, <1>14 DEF LastLevelsOf
    <2>2. whole[1] = PartFromStart(last, Missing, o.included, TRUE)
      BY <1>2, <1>4, <1>5, <1>10, <1>14 DEF LastLevelsOf
    <2>3. levels[1].keys = From(k, q.included)
      <3> HIDE DEF k, last, levels
      <3> QED
        BY <1>7, <1>10, <2>1 DEF PartFromStart, PartFromKey, Level
    <2>4. whole[1].keys = Keys
      BY <2>2 DEF PartFromStart, Level, RangeFull
    <2>5. From(k, q.included) = Rest(Keys, k, q.included, TRUE)
      BY <1>6, <1>7, FullCut
    <2>6. forwards = TRUE
      BY <1>6, <1>8, <1>14
    <2> HIDE DEF k, forwards, levels, whole
    <2> QED
      BY <2>3, <2>4, <2>5, <2>6
  <1>15. /\ c # Missing \/ N = n \/ (N = n + 1 /\ n > 0) \/ n = 0
         /\ c # Missing => N - m = 1
         /\ c = Missing /\ N = n => N - m = 1
         /\ c = Missing /\ N = n + 1 /\ n > 0 => N - m = 2
         /\ c = Missing /\ n = 0 => N - m = 1
    BY <1>1 DEF LastLevelsOf
  <1>16. LastLevel(i, q) = levels[N - m] /\ LastLevel(i, o) = whole[N - m]
    BY <1>2 DEF LastLevel
  <1> HIDE DEF c, N, m, n, k, forwards, levels, whole, last
  <1>17. /\ N - m = 2 => levels[1].keys = whole[1].keys
         /\ levels[N - m].keys = Rest(whole[N - m].keys, k, q.included, forwards)
    BY <1>11, <1>12, <1>13, <1>14, <1>15
  <1> QED
    BY <1>16, <1>17 DEF CutAtLast, N, m, k, forwards, levels, whole, last

(* From a start such an index leads to the documents that meet the clauses   *)
(* and are at or after it.                                                   *)
FromHere(id, q, field, forwards) ==
  q.start # Missing => Onward(ValueOf(id, field), ValueOf(q.start, field), q.included, forwards)

StartLess(q) == [q EXCEPT !.start = Missing]

LEMMA StartLessIs ==
  ASSUME NEW q, Readable(q)
  PROVE  /\ Readable(StartLess(q)) /\ SameQuery(StartLess(q), q) /\ StartLess(q).start = Missing
  BY DEF Readable, StartLess, SameQuery

LEMMA SelectedFromStart ==
  ASSUME DistinctProperties, NoUniqueNulls, IdApart, Present \in Docs, NEW i \in DOMAIN Indices,
         NEW q, Readable(q), ~IsForPrimaryKey(q),
         q.start # Missing => q.start \in StoredIn(Present),
         Serves(Indices[i], q), ClausesOrderable(Indices[i], q), EndsUniquely(Indices[i], q),
         NEW id \in StoredIn(Present)
  PROVE  LET ix == Indices[i]
             last == LastProperty(ix)
         IN  id \in Selected(Present, i, PathLength(q), IndexQuery(ix, q), QueryPath(ix, q)) <=>
               /\ MeetsExtracted(q.clauses, DocumentKeys(id))
               /\ FromHere(id, q, last, Ascending(q, last))
  <1> DEFINE ix == Indices[i]
             props == ix.properties
             last == LastProperty(ix)
             N == Size(i)
             m == PathLength(q)
             l == N - m
             d == Present[id]
             o == StartLess(q)
             S == Selected(Present, i, m, IndexQuery(ix, q), QueryPath(ix, q))
             T == Selected(Present, i, m, IndexQuery(ix, o), QueryPath(ix, o))
             forwards == Ascending(q, last)
             s == ValueOf(q.start, last)
  <1>1. q.clauses.idEqual = Missing /\ q.clauses.idIn = Missing
    BY ByIndexOnly
  <1>2. CASE q.start = Missing
    BY <1>1, <1>2, SelectedMeets DEF FromHere
  <1>3. CASE q.start # Missing
    <2>1. Readable(o) /\ SameQuery(o, q) /\ o.start = Missing
      BY StartLessIs
    <2>2. /\ Serves(ix, o) /\ ClausesOrderable(ix, o) /\ QueryPath(ix, o) = QueryPath(ix, q)
          /\ PathLength(o) = m /\ o.clauses = q.clauses
      BY <2>1, SameServed, SameIndex DEF SameQuery
    <2>3. id \in T <=> MeetsExtracted(q.clauses, DocumentKeys(id))
      <3>1. id \in Selected(Present, i, PathLength(o), IndexQuery(ix, o), QueryPath(ix, o))
              <=> MeetsExtracted(o.clauses, DocumentKeys(id))
        BY <1>1, <2>1, <2>2, SelectedMeets
      <3> QED
        BY <2>2, <3>1
    <2>4. CutAtLast(i, q, o)
      BY <1>3, <2>1, StartCutsLast
    <2>5. l \in {1, 2} /\ m \in Nat /\ N \in Nat
      BY LastLevelOrder, BelowIs
    <2>6. ix.unique /\ last = props[N]
      BY DEF EndsUniquely, LastProperty, Size
    <2>7. ValueOf(id, last) = d[last]
      <3>1. N \in 1 .. N
        BY IndexType
      <3> QED
        BY <2>6, <3>1, UniqueKeys
    <2> DEFINE In(p, k) == d[props[m + k]] \in IndexQuery(ix, p).levels[k].keys
    <2>8. /\ id \in S <=> FirstValues(QueryPath(ix, q), i, m, d) /\ \A k \in 1 .. l : In(q, k)
          /\ id \in T <=> FirstValues(QueryPath(ix, q), i, m, d) /\ \A k \in 1 .. l : In(o, k)
      BY <2>2, <2>6 DEF Selected
    <2>9. In(q, l) <=> In(o, l) /\ Onward(d[last], s, q.included, forwards)
      <3>1. LastLevel(i, q).keys = Rest(LastLevel(i, o).keys, s, q.included, forwards)
        BY <2>4 DEF CutAtLast
      <3>2. /\ LastLevel(i, q) = IndexQuery(ix, q).levels[l]
            /\ LastLevel(i, o) = IndexQuery(ix, o).levels[l]
        BY <2>2 DEF LastLevel
      <3>3. props[m + l] = last
        BY <2>5, <2>6
      <3> HIDE DEF d, last, s, forwards, l, props, ix, o
      <3> QED
        BY <3>1, <3>2, <3>3 DEF Rest
    <2>10. l = 2 => (In(q, 1) <=> In(o, 1))
      BY <2>4 DEF CutAtLast
    <2> HIDE DEF In, S, T, l
    <2>11. (\A k \in 1 .. l : In(q, k)) <=>
             (\A k \in 1 .. l : In(o, k)) /\ Onward(d[last], s, q.included, forwards)
      <3>1. CASE l = 1
        <4>1. \A k : k \in 1 .. l <=> k = 1
          BY <3>1
        <4> QED
          BY <2>9, <3>1, <4>1
      <3>2. CASE l = 2
        <4>1. \A k : k \in 1 .. l <=> k = 1 \/ k = 2
          BY <3>2
        <4> QED
          BY <2>9, <2>10, <3>2, <4>1
      <3> QED
        BY <2>5, <3>1, <3>2 DEF l
    <2>12. id \in S <=> id \in T /\ Onward(d[last], s, q.included, forwards)
      BY <2>8, <2>11
    <2> QED
      BY <1>3, <2>3, <2>7, <2>12 DEF FromHere, S
  <1> QED
    BY <1>2, <1>3

(* Two documents it leads to come in the order of that property.             *)
LEMMA EndsInTurn ==
  ASSUME DistinctProperties, NoUniqueNulls, IdApart, Present \in Docs, Fits(index, Present),
         NEW i \in DOMAIN Indices,
         NEW q, Readable(q), Serves(Indices[i], q), ClausesOrderable(Indices[i], q),
         EndsUniquely(Indices[i], q),
         NEW a \in StoredIn(Present), NEW b \in StoredIn(Present), a # b,
         MeetsExtracted(q.clauses, DocumentKeys(a)), MeetsExtracted(q.clauses, DocumentKeys(b)),
         InTurn(Present, i, PathLength(q), IndexQuery(Indices[i], q), a, b)
  PROVE  LET last == LastProperty(Indices[i])
         IN  Before(ValueOf(a, last), ValueOf(b, last), Ascending(q, last))
  <1> DEFINE ix == Indices[i]
             props == ix.properties
             last == LastProperty(ix)
             N == Size(i)
             n == Cardinality(EqualFields(q))
             m == PathLength(q)
             l == N - m
             V(id, k) == LevelValue(Present, i, m, id, k)
  <1>1. /\ N \in Nat /\ N >= 1 /\ n \in Nat /\ N <= n + 1 /\ n <= N /\ ix.unique /\ last = props[N]
        /\ \A k \in 1 .. N : props[k] \in Properties
    BY UniqueLevels, IndexType DEF EndsUniquely, LastProperty, Size
  <1>2. EqualFields(q) = {props[k] : k \in 1 .. n}
    BY EqualitiesFirst
  <1>3. \A k \in 1 .. n : DocumentKeys(a)[props[k]] = DocumentKeys(b)[props[k]]
    BY <1>2 DEF MeetsExtracted, EqualFields
  <1>4. \A k \in 1 .. N : /\ DocumentKeys(a)[props[k]] = Present[a][props[k]]
                          /\ DocumentKeys(b)[props[k]] = Present[b][props[k]]
    BY <1>1, StoredKeysOf
  <1>5. ValueOf(a, last) = Present[a][last] /\ ValueOf(b, last) = Present[b][last]
    BY <1>1, StoredKeysOf
  <1>6. l \in {1, 2} /\ m \in Nat
    BY LastLevelOrder, BelowIs
  <1>7. LastLevel(i, q).ascending <=> Ascending(q, last)
    BY LastLevelOrder
  <1> HIDE DEF N, n, m, props, last, ix
  <1>8. \A k \in 1 .. N - 1 : Present[a][props[k]] = Present[b][props[k]]
    <2>1. \A k \in 1 .. N - 1 : k \in 1 .. n /\ k \in 1 .. N
      BY <1>1
    <2> QED
      BY <1>3, <1>4, <2>1
  <1>9. Present[a][last] # Present[b][last]
    <2>1. ASSUME Present[a][last] = Present[b][last] PROVE FALSE
      <3>1. \A k \in 1 .. N : k = N \/ k \in 1 .. N - 1
        BY <1>1
      <3>2. \A k \in 1 .. N : Present[a][props[k]] = Present[b][props[k]]
        BY <1>1, <1>8, <2>1, <3>1
      <3> QED
        BY <1>1, <3>2, UniqueEntries DEF N, props, ix
    <2> QED
      BY <2>1
  <1>10. /\ V(a, l) = Present[a][last] /\ V(b, l) = Present[b][last]
         /\ \A k \in 1 .. l - 1 : V(a, k) = V(b, k)
    <2>1. m + l = N /\ \A k \in 1 .. l - 1 : m + k \in 1 .. N - 1
      BY <1>1, <1>6
    <2> HIDE DEF l
    <2> QED
      BY <1>1, <1>8, <2>1 DEF LevelValue, props, ix
  <1>11. l \in 1 .. l
    BY <1>6
  <1>12. V(a, l) = V(b, l) \/ Before(V(a, l), V(b, l), LastLevel(i, q).ascending)
    BY <1>10, <1>11 DEF InTurn, LastLevel, m, N, ix
  <1> HIDE DEF l, V
  <1>13. Before(Present[a][last], Present[b][last], LastLevel(i, q).ascending)
    BY <1>9, <1>10, <1>12
  <1>14. Before(Present[a][last], Present[b][last], Ascending(q, last))
    BY <1>7, <1>13 DEF Before
  <1> QED
    BY <1>5, <1>14 DEF last, ix
-----------------------------------------------------------------------------
(* By id the results from a start are the rest of the results as well.       *)
LEMMA StartCutsIds ==
  ASSUME NEW q, Readable(q), q.start \in Keys, q.clauses.idEqual = Missing, NEW id \in Keys
  PROVE  id \in PrimaryKeys(q) <=>
           /\ id \in PrimaryKeys(StartLess(q))
           /\ Onward(id, q.start, q.included, PrimaryAscending(q))
  <1> DEFINE c == q.clauses
             ascending == PrimaryAscending(q)
             o == StartLess(q)
             values == {c.idIn.values[i] : i \in DOMAIN c.idIn.values}
  <1>1. Readable(o) /\ SameQuery(o, q) /\ o.start = Missing
    BY StartLessIs
  <1>2. ascending \in BOOLEAN /\ q.included \in BOOLEAN /\ q.start # Missing
    BY MissingAssumption DEF Readable, PrimaryAscending
  <1>3. CASE c.idIn # Missing
    <2>1. values \in SUBSET Keys
      <3>1. c.idIn.values \in Seq(Keys)
        BY <1>3 DEF Readable, Sound, OnClause, ParsedClauses, RequestClauses
      <3> QED
        BY <3>1
    <2>2. PrimaryKeys(q) = ListedKeys(values, q.start, q.included, ascending)
      BY <1>2, <1>3 DEF PrimaryKeys
    <2>3. PrimaryKeys(o) = values
      BY <1>1, <1>3 DEF PrimaryKeys, SameQuery
    <2> HIDE DEF values, ascending
    <2>4. ListedKeys(values, q.start, q.included, ascending) = Rest(values, q.start, q.included, ascending)
      BY <1>2, <2>1, StartCutsList
    <2> QED
      BY <2>2, <2>3, <2>4 DEF Rest, ascending
  <1>4. CASE c.idIn = Missing
    <2>1. PrimaryKeys(q) = IF ascending THEN From(q.start, q.included) ELSE To(q.start, q.included)
      BY <1>2, <1>4 DEF PrimaryKeys
    <2>2. PrimaryKeys(o) = Keys
      BY <1>1, <1>4 DEF PrimaryKeys, SameQuery, RangeFull
    <2> HIDE DEF ascending
    <2>3. PrimaryKeys(q) = Rest(Keys, q.start, q.included, ascending)
      BY <1>2, <2>1, FullCut
    <2> QED
      BY <2>2, <2>3 DEF Rest, ascending
  <1> QED
    BY <1>3, <1>4

(* The field by whose values such a request is answered, and in which order. *)
PagedField(q) == IF IsForPrimaryKey(q) THEN IdField ELSE LastProperty(BestIndex(q))
PagedForwards(q) ==
  IF IsForPrimaryKey(q) THEN PrimaryAscending(q) ELSE Ascending(q, PagedField(q))
Paginable(q) ==
  IF IsForPrimaryKey(q) THEN q.clauses.idEqual = Missing /\ PrimaryFits(q)
  ELSE BestIndex(q) # Missing /\ ClausesOrderable(BestIndex(q), q) /\ EndsUniquely(BestIndex(q), q)

Position(id, q) == ValueOf(id, PagedField(q))
FoundFrom(q) ==
  {id \in StoredIn(Present) :
     MeetsExtracted(q.clauses, DocumentKeys(id)) /\ FromHere(id, q, PagedField(q), PagedForwards(q))}
ByPosition(s, q, n) ==
  \A a, b \in 1 .. n : a < b <=> Before(Position(s[a], q), Position(s[b], q), PagedForwards(q))

LEMMA PagedType ==
  ASSUME IdApart, Present \in Docs, NEW q, Readable(q), Paginable(q)
  PROVE  /\ PagedForwards(q) \in BOOLEAN
         /\ \A id \in StoredIn(Present) : Position(id, q) \in Keys
         /\ FoundFrom(q) \in SUBSET StoredIn(Present) /\ FoundFrom(q) \in SUBSET Ids
  <1>1. PagedForwards(q) \in BOOLEAN
    BY DEF PagedForwards, PrimaryAscending, Ascending
  <1>2. PagedField(q) \in AnyField
    <2>1. CASE IsForPrimaryKey(q)
      BY <2>1 DEF PagedField, AnyField
    <2>2. CASE ~IsForPrimaryKey(q)
      <3>1. PICK i \in DOMAIN Indices : BestIndex(q) = Indices[i]
        BY <2>2, BestIndexServes DEF Paginable
      <3>2. LastProperty(Indices[i]) \in Properties
        <4>1. Size(i) \in 1 .. Size(i)
          BY IndexType
        <4> QED
          BY <4>1, IndexType DEF LastProperty, Size
      <3> QED
        BY <2>2, <3>1, <3>2 DEF PagedField, AnyField
    <2> QED
      BY <2>1, <2>2
  <1>3. \A id \in StoredIn(Present) : Position(id, q) \in Keys
    <2>1. ASSUME NEW id \in StoredIn(Present) PROVE Position(id, q) \in Keys
      <3>1. DocumentKeys(id) \in KeysOfDocument /\ \A f \in AnyField : DocumentKeys(id)[f] = ValueOf(id, f)
        BY StoredKeysOf
      <3> QED
        BY <1>2, <3>1 DEF Position, KeysOfDocument
    <2> QED
      BY <2>1
  <1> QED
    BY <1>1, <1>3 DEF FoundFrom, StoredIn

(* What comes strictly later in position comes later.                        *)
LEMMA OrderBothWays ==
  ASSUME NEW n \in Nat, NEW key \in [1 .. n -> Keys], NEW ascending \in BOOLEAN,
         \A a, b \in 1 .. n : a < b => Before(key[a], key[b], ascending)
  PROVE  \A a, b \in 1 .. n : a < b <=> Before(key[a], key[b], ascending)
  <1> SUFFICES ASSUME NEW a \in 1 .. n, NEW b \in 1 .. n, Before(key[a], key[b], ascending)
               PROVE  a < b
    OBVIOUS
  <1>1. key[a] \in Keys /\ key[b] \in Keys
    OBVIOUS
  <1>2. a < b \/ a = b \/ b < a
    OBVIOUS
  <1>3. ~Before(key[a], key[a], ascending)
    BY <1>1, BeforeTotal
  <1>4. ~(Before(key[a], key[b], ascending) /\ Before(key[b], key[a], ascending))
    BY <1>1, <1>3, BeforeTotal
  <1> QED
    BY <1>2, <1>3, <1>4
-----------------------------------------------------------------------------
(* Such a request lists what it finds from its start on by position.         *)
IsPage(answer, q, s) ==
  /\ IsListing(answer, q, s, FoundFrom(q), q.limit)
  /\ ByPosition(s, q, Cardinality(FoundFrom(q)))

LEMMA PrimaryPage ==
  ASSUME IdApart, IsFiniteSet(Ids), PrimaryOK, NEW q, Readable(q), Paginable(q), IsForPrimaryKey(q),
         q.start # Missing => q.start \in StoredIn(Present)
  PROVE  \E s : IsPage(PrimaryAnswer(q), q, s)
  <1> DEFINE o == StartLess(q)
  <1>1. q.clauses.idEqual = Missing /\ PrimaryFits(q)
    BY DEF Paginable
  <1>2. PICK s : /\ IsListing(PrimaryAnswer(q), q, s, StoredKeys(q), PrimaryLimit(q))
                 /\ \A a, b \in 1 .. Cardinality(StoredKeys(q)) :
                      a < b <=> Before(s[a], s[b], PrimaryAscending(q))
    BY <1>1, PrimaryAnswerIs
  <1>3. PrimaryLimit(q) = q.limit
    BY <1>1 DEF PrimaryLimit
  <1>4. PagedField(q) = IdField /\ PagedForwards(q) = PrimaryAscending(q)
    BY DEF PagedField, PagedForwards
  <1>5. Readable(o) /\ SameQuery(o, q) /\ o.start = Missing /\ o.clauses = q.clauses
    BY StartLessIs DEF SameQuery
  <1>6. IsForPrimaryKey(o)
    BY <1>5, SameIndex
  <1>7. \A id \in StoredIn(Present) : id \in Keys /\ id \in Ids /\ primary[id] # Missing
    BY KeysAssumption, PresentType DEF StoredIn
  <1>8. ASSUME NEW id \in StoredIn(Present)
        PROVE  id \in StoredKeys(q) <=> id \in FoundFrom(q)
    <2>1. /\ id \in StoredKeys(q) <=> id \in PrimaryKeys(q)
          /\ id \in StoredKeys(o) <=> id \in PrimaryKeys(o)
      BY <1>7 DEF StoredKeys
    <2>2. id \in StoredKeys(o) <=> MeetsExtracted(q.clauses, DocumentKeys(id))
      BY <1>5, <1>6, PrimaryKeyMeets
    <2>3. \A x : ValueOf(x, IdField) = x
      BY DEF ValueOf
    <2>4. CASE q.start = Missing
      <3>1. StoredKeys(q) = {x \in StoredIn(Present) : MeetsExtracted(q.clauses, DocumentKeys(x))}
        BY <2>4, PrimarySelects
      <3> QED
        BY <2>4, <3>1 DEF FoundFrom, FromHere
    <2>5. CASE q.start # Missing
      <3>1. q.start \in Keys
        BY <1>7, <2>5
      <3>2. id \in PrimaryKeys(q) <=>
              id \in PrimaryKeys(o) /\ Onward(id, q.start, q.included, PrimaryAscending(q))
        BY <1>1, <1>7, <3>1, StartCutsIds
      <3> QED
        BY <1>4, <2>1, <2>2, <2>3, <2>5, <3>2 DEF FoundFrom, FromHere
    <2> QED
      BY <2>4, <2>5
  <1>9. StoredKeys(q) = FoundFrom(q)
    <2>1. StoredKeys(q) \in SUBSET StoredIn(Present)
      BY PresentType DEF StoredKeys, StoredIn
    <2>2. FoundFrom(q) \in SUBSET StoredIn(Present)
      BY DEF FoundFrom
    <2> QED
      BY <1>8, <2>1, <2>2
  <1>10. ByPosition(s, q, Cardinality(FoundFrom(q)))
    <2>1. \A id : Position(id, q) = id
      BY <1>4 DEF Position, ValueOf
    <2> QED
      BY <1>2, <1>4, <1>9, <2>1 DEF ByPosition
  <1> QED
    BY <1>2, <1>3, <1>9, <1>10 DEF IsPage

LEMMA IndexPage ==
  ASSUME DistinctIndices, NoUniqueNulls, DistinctProperties, IdApart, IsFiniteSet(Ids), StoreInv,
         NEW q, Readable(q), Paginable(q), ~IsForPrimaryKey(q),
         q.start # Missing => q.start \in StoredIn(Present)
  PROVE  \E s : IsPage(AnswerBy(BestIndex(q), q), q, s)
  <1>1. PICK i \in DOMAIN Indices : BestIndex(q) = Indices[i] /\ Serves(Indices[i], q)
    BY BestIndexServes DEF Paginable
  <1>2. PrimaryOK /\ Present \in Docs /\ Fits(index, Present)
    BY PresentType DEF StoreInv
  <1> DEFINE ix == Indices[i]
             last == LastProperty(ix)
             query == IndexQuery(ix, q)
             m == PathLength(q)
             S == Selected(Present, i, m, query, QueryPath(ix, q))
             N == Cardinality(S)
  <1>3. ClausesOrderable(ix, q) /\ EndsUniquely(ix, q) /\ q.clauses.idEqual = Missing
    BY <1>1, ByIndexOnly DEF Paginable
  <1>4. PICK s : /\ IsListing(AnswerBy(ix, q), q, s, S, q.limit)
                 /\ \A a, b \in 1 .. N : a < b => InTurn(Present, i, m, query, s[a], s[b])
    BY <1>1, <1>2, <1>3, IndexAnswerIs
  <1>5. PagedField(q) = last /\ PagedForwards(q) = Ascending(q, last)
    BY <1>1 DEF PagedField, PagedForwards
  <1>6. S = FoundFrom(q)
    <2>1. S \in SUBSET StoredIn(Present) /\ FoundFrom(q) \in SUBSET StoredIn(Present)
      BY DEF Selected, FoundFrom
    <2>2. \A id \in StoredIn(Present) :
            id \in S <=>
              MeetsExtracted(q.clauses, DocumentKeys(id)) /\ FromHere(id, q, last, Ascending(q, last))
      BY <1>1, <1>2, <1>3, SelectedFromStart
    <2> HIDE DEF S, last
    <2>3. \A id \in StoredIn(Present) :
            id \in FoundFrom(q) <=>
              MeetsExtracted(q.clauses, DocumentKeys(id)) /\ FromHere(id, q, last, Ascending(q, last))
      BY <1>5 DEF FoundFrom
    <2> QED
      BY <2>1, <2>2, <2>3
  <1>7. N \in Nat /\ s \in [1 .. N -> S] /\ \A a, b \in 1 .. N : s[a] = s[b] => a = b
    BY <1>4 DEF IsListing, Enumerates
  <1> HIDE DEF S
  <1>8. ASSUME NEW a \in 1 .. N, NEW b \in 1 .. N, a < b
        PROVE  Before(Position(s[a], q), Position(s[b], q), PagedForwards(q))
    <2>1. s[a] # s[b] /\ s[a] \in S /\ s[b] \in S
      BY <1>7, <1>8
    <2>2. /\ s[a] \in StoredIn(Present) /\ MeetsExtracted(q.clauses, DocumentKeys(s[a]))
          /\ s[b] \in StoredIn(Present) /\ MeetsExtracted(q.clauses, DocumentKeys(s[b]))
      BY <1>6, <2>1 DEF FoundFrom
    <2>3. InTurn(Present, i, m, query, s[a], s[b])
      BY <1>4, <1>8
    <2>4. Before(ValueOf(s[a], last), ValueOf(s[b], last), Ascending(q, last))
      BY <1>1, <1>2, <1>3, <2>1, <2>2, <2>3, EndsInTurn
    <2> QED
      BY <1>5, <2>4 DEF Position
  <1>9. ByPosition(s, q, N)
    <2> DEFINE key == [a \in 1 .. N |-> Position(s[a], q)]
    <2>1. key \in [1 .. N -> Keys] /\ PagedForwards(q) \in BOOLEAN
      <3>1. /\ PagedForwards(q) \in BOOLEAN /\ \A id \in StoredIn(Present) : Position(id, q) \in Keys
            /\ FoundFrom(q) \in SUBSET StoredIn(Present)
        BY <1>2, PagedType
      <3> QED
        BY <1>6, <1>7, <3>1
    <2>2. \A a \in 1 .. N : key[a] = Position(s[a], q)
      OBVIOUS
    <2> HIDE DEF key, N
    <2>3. \A a, b \in 1 .. N : a < b => Before(key[a], key[b], PagedForwards(q))
      BY <1>8, <2>2
    <2>4. \A a, b \in 1 .. N : a < b <=> Before(key[a], key[b], PagedForwards(q))
      BY <1>7, <2>1, <2>3, OrderBothWays
    <2> QED
      BY <2>2, <2>4 DEF ByPosition
  <1>10. IsPage(AnswerBy(ix, q), q, s)
    BY <1>4, <1>6, <1>9 DEF IsPage
  <1> QED
    BY <1>1, <1>10

LEMMA AnsweredPage ==
  ASSUME DistinctIndices, NoUniqueNulls, DistinctProperties, IdApart, IsFiniteSet(Ids), StoreInv,
         NEW q, q # Missing, Readable(q), Paginable(q),
         q.start # Missing => q.start \in StoredIn(Present)
  PROVE  \E s : IsPage(Answered(q), q, s)
  <1>1. q.start # Missing => primary[q.start] # Missing
    BY PresentType DEF StoredIn, StoreInv
  <1>2. PrimaryOK
    BY DEF StoreInv
  <1>3. CASE IsForPrimaryKey(q)
    <2>1. Answered(q) = PrimaryAnswer(q)
      BY <1>1, <1>3 DEF Answered
    <2> QED
      BY <1>2, <1>3, <2>1, PrimaryPage
  <1>4. CASE ~IsForPrimaryKey(q)
    <2>1. Answered(q) = AnswerBy(BestIndex(q), q)
      BY <1>1, <1>4, IndexAnswerBy DEF Answered, Paginable
    <2> QED
      BY <1>4, <2>1, IndexPage
  <1> QED
    BY <1>3, <1>4
-----------------------------------------------------------------------------
(* A request with another start parses to a query with that start.           *)
StartAt(r, id, included) == [r EXCEPT !.start = id, !.included = included]

LEMMA StartAtType ==
  ASSUME NEW r \in WellFormed, NEW id \in Ids \cup {Missing}, NEW included \in BOOLEAN
  PROVE  LET p == StartAt(r, id, included)
         IN  /\ p \in WellFormed /\ p.sql = r.sql /\ p.limit = r.limit /\ p.order = r.order
             /\ p.clauses = r.clauses /\ p.start = id /\ p.included = included
  BY DEF WellFormed, StartAt

LEMMA ParsedAtStart ==
  ASSUME NEW r \in WellFormed, ~r.sql, NEW id \in Ids \cup {Missing}, NEW included \in BOOLEAN,
         Parsed(StartAt(r, id, included)) # Missing
  PROVE  LET q == Parsed(StartAt(r, id, included))
         IN  /\ Readable(q) /\ q.clauses = Extracted(ParsedFrom(r)) /\ q.order = OrderBy(r.order)
             /\ q.start = id /\ q.included = included /\ q.limit = r.limit
             /\ q.limit \in 1 .. MaxQueryLimit
  <1> DEFINE p == StartAt(r, id, included)
  <1>1. /\ p \in WellFormed /\ ~p.sql /\ p.limit = r.limit /\ p.order = r.order
        /\ p.clauses = r.clauses /\ p.sql = r.sql /\ p.start = id /\ p.included = included
    BY StartAtType
  <1>2. ParsedFrom(p) = ParsedFrom(r)
    BY <1>1 DEF ParsedFrom
  <1> HIDE DEF p
  <1>3. /\ Parsed(p).clauses = Extracted(ParsedFrom(p)) /\ Parsed(p).start = p.start
        /\ Parsed(p).limit = p.limit /\ Parsed(p).included = p.included
        /\ p.limit \in 1 .. MaxQueryLimit
    BY <1>1, ParsedIs DEF p
  <1>4. Readable(Parsed(p)) /\ Parsed(p).order = OrderBy(p.order)
    BY <1>1, ParsedReadable DEF p
  <1> QED
    BY <1>1, <1>2, <1>3, <1>4 DEF p

(* Wherever it starts, it is answered by one field in one order.             *)
LEMMA SamePages ==
  ASSUME NEW p, NEW q, SameQuery(p, q)
  PROVE  /\ PagedField(p) = PagedField(q) /\ PagedForwards(p) = PagedForwards(q)
         /\ \A id : Position(id, p) = Position(id, q)
  <1>1. BestIndex(p) = BestIndex(q) /\ (IsForPrimaryKey(p) <=> IsForPrimaryKey(q))
    BY SameIndex
  <1>2. PagedField(p) = PagedField(q)
    BY <1>1 DEF PagedField
  <1>3. p.order = q.order
    BY DEF SameQuery
  <1>4. PrimaryAscending(p) = PrimaryAscending(q)
    BY <1>3 DEF PrimaryAscending
  <1>5. Ascending(p, PagedField(q)) = Ascending(q, PagedField(q))
    BY <1>3 DEF Ascending
  <1>6. PagedForwards(p) = PagedForwards(q)
    BY <1>1, <1>2, <1>4, <1>5 DEF PagedForwards
  <1> QED
    BY <1>2, <1>6 DEF Position

LEMMA OnwardIsBefore ==
  ASSUME NEW k, NEW l, NEW forwards \in BOOLEAN, NEW included \in BOOLEAN
  PROVE  Onward(l, k, included, forwards) <=> Before(k, l, forwards) \/ (included /\ k = l)
  BY DEF Onward, Before

LEMMA BeforeInTurn ==
  ASSUME NEW k \in Keys, NEW l \in Keys, NEW x \in Keys, NEW ascending \in BOOLEAN,
         Before(k, l, ascending), Before(l, x, ascending)
  PROVE  Before(k, x, ascending)
  BY BeforeTotal

(* A page holds what is at or after its start and not after its last one.    *)
InPage(answer, id) == \E x \in DOMAIN answer.found : answer.found[x].id = id

LEMMA PageHolds ==
  ASSUME IdApart, Present \in Docs, NEW q, Readable(q), Paginable(q), NEW answer, NEW s,
         IsPage(answer, q, s), q.limit >= 1
  PROVE  LET S == FoundFrom(q)
             last == Last(answer.found).id
         IN  /\ Len(answer.found) \in Nat /\ DOMAIN answer.found = 1 .. Len(answer.found)
             /\ Len(answer.found) <= q.limit /\ IsFiniteSet(S)
             /\ \A id : InPage(answer, id) => id \in S
             /\ Len(answer.found) < q.limit => \A id \in S : InPage(answer, id)
             /\ Len(answer.found) = q.limit =>
                  /\ last \in S
                  /\ \A id \in S : InPage(answer, id) <=>
                       ~Before(Position(last, q), Position(id, q), PagedForwards(q))
  <1> DEFINE S == FoundFrom(q)
             N == Cardinality(S)
             n == Len(answer.found)
             last == Last(answer.found).id
  <1>1. /\ n = Fewer(N, q.limit) /\ n \in Nat /\ n <= N /\ N \in Nat /\ IsFiniteSet(S)
        /\ DOMAIN answer.found = 1 .. n /\ \A x \in 1 .. n : answer.found[x].id = s[x]
        /\ s \in [1 .. N -> S] /\ \A x, y \in 1 .. N : s[x] = s[y] => x = y
        /\ \A id \in S : \E x \in 1 .. N : s[x] = id
    BY DEF IsPage, IsListing, Enumerates
  <1>2. \A a, b \in 1 .. N : a < b <=> Before(Position(s[a], q), Position(s[b], q), PagedForwards(q))
    BY DEF IsPage, ByPosition
  <1>3. q.limit \in Nat
    BY DEF Readable
  <1>4. Last(answer.found) = answer.found[n]
    BY DEF Last
  <1> HIDE DEF S, N, n
  <1>5. n <= q.limit /\ (n < q.limit => n = N)
    BY <1>1, <1>3 DEF Fewer
  <1>6. \A x \in 1 .. n : x \in 1 .. N
    BY <1>1
  <1>7. \A id : InPage(answer, id) <=> \E x \in 1 .. n : s[x] = id
    BY <1>1 DEF InPage
  <1>8. \A id : InPage(answer, id) => id \in S
    BY <1>1, <1>6, <1>7
  <1>9. n < q.limit => \A id \in S : InPage(answer, id)
    BY <1>1, <1>5, <1>7
  <1>10. ASSUME n = q.limit
         PROVE  /\ last \in S
                /\ \A id \in S : InPage(answer, id) <=>
                     ~Before(Position(last, q), Position(id, q), PagedForwards(q))
    <2>1. n \in 1 .. n /\ n \in 1 .. N
      BY <1>1, <1>10
    <2>2. last = s[n] /\ last \in S
      BY <1>1, <1>4, <2>1
    <2> HIDE DEF last
    <2>3. ASSUME NEW id \in S
          PROVE  InPage(answer, id) <=> ~Before(Position(last, q), Position(id, q), PagedForwards(q))
      <3>1. PICK y \in 1 .. N : s[y] = id
        BY <1>1
      <3>2. n < y <=> Before(Position(last, q), Position(id, q), PagedForwards(q))
        BY <1>2, <2>1, <2>2, <3>1
      <3>3. InPage(answer, id) <=> y \in 1 .. n
        BY <1>1, <1>6, <1>7, <3>1
      <3>4. y \in 1 .. n <=> ~(n < y)
        BY <1>1
      <3> QED
        BY <3>2, <3>3, <3>4
    <2> QED
      BY <2>2, <2>3
  <1> QED
    BY <1>1, <1>5, <1>8, <1>9, <1>10 DEF S, n
-----------------------------------------------------------------------------
(* What the client pages through is by id, or it has a clause and is by the  *)
(* last property of a unique index: a position in it belongs to one document.*)
PageFrom(r) == Parsed(Page(r, Missing))
ConversationsPaged ==
  \A r \in Conversations :
    /\ IsForPrimaryKey(PageFrom(r)) \/ r.clauses # <<>>
    /\ \A id \in Ids \cup {Missing} : LET q == Parsed(Page(r, id)) IN q # Missing /\ Paginable(q)

Passed(r, id, last) ==
  Before(Position(last, PageFrom(r)), Position(id, PageFrom(r)), PagedForwards(PageFrom(r)))

(* What a page after last has to bring.                                      *)
Ahead(r, id, last) == Meets(id, r.clauses) /\ (last # Missing => Passed(r, id, last))

LEMMA PassedType ==
  ASSUME IdApart, PrimaryOK, ConversationsReadable, ConversationsPaged, NEW r \in Conversations
  PROVE  /\ PagedForwards(PageFrom(r)) \in BOOLEAN
         /\ \A id \in StoredIn(Present) : Position(id, PageFrom(r)) \in Keys
  <1> DEFINE p == Page(r, Missing)
  <1>1. PageFrom(r) # Missing /\ Paginable(PageFrom(r))
    BY DEF ConversationsPaged, PageFrom
  <1>2. p \in WellFormed /\ ~p.sql
    BY PageType DEF ConversationsReadable
  <1> HIDE DEF p
  <1>3. Readable(PageFrom(r))
    BY <1>1, <1>2, ParsedReadable DEF PageFrom, p
  <1> QED
    BY <1>1, <1>3, PagedType, PresentType

(* What is passed after the one is passed after one before it.               *)
LEMMA PassedInTurn ==
  ASSUME IdApart, PrimaryOK, ConversationsReadable, ConversationsPaged, NEW r \in Conversations,
         NEW x \in StoredIn(Present), NEW y \in StoredIn(Present), NEW z \in StoredIn(Present),
         Passed(r, y, x), Passed(r, z, y)
  PROVE  Passed(r, z, x)
  <1> DEFINE q == PageFrom(r)
  <1>1. /\ PagedForwards(q) \in BOOLEAN
        /\ Position(x, q) \in Keys /\ Position(y, q) \in Keys /\ Position(z, q) \in Keys
    BY PassedType
  <1> HIDE DEF q
  <1> QED
    BY <1>1, BeforeInTurn DEF Passed, q

LEMMA PageBrings ==
  ASSUME DistinctIndices, NoUniqueNulls, DistinctProperties, IdApart, IsFiniteSet(Ids), StoreInv,
         ConversationsReadable, ConversationsPaged, NEW r \in Conversations,
         NEW last \in Ids \cup {Missing}, Answer(Page(r, last)).status = "ok"
  PROVE  LET answer == Answer(Page(r, last))
             z == Last(answer.found).id
         IN  /\ last # Missing => last \in StoredIn(Present)
             /\ DOMAIN answer.found = 1 .. Len(answer.found)
             /\ \A id \in StoredIn(Present) : InPage(answer, id) => Ahead(r, id, last)
             /\ Len(answer.found) < r.limit =>
                  \A id \in StoredIn(Present) : Ahead(r, id, last) => InPage(answer, id)
             /\ Len(answer.found) = r.limit =>
                  /\ z \in StoredIn(Present) /\ Ahead(r, z, last)
                  /\ \A id \in StoredIn(Present) :
                       Ahead(r, id, last) => (InPage(answer, id) <=> ~Passed(r, id, z))
  <1> DEFINE p == Page(r, last)
             q == Parsed(p)
             o == PageFrom(r)
             answer == Answer(p)
             S == FoundFrom(q)
  <1>1. r \in WellFormed /\ ~r.sql
    BY DEF ConversationsReadable
  <1>2. q # Missing /\ Paginable(q) /\ o # Missing
    BY DEF ConversationsPaged, PageFrom
  <1>3. Page(r, last) = StartAt(r, last, FALSE) /\ Page(r, Missing) = StartAt(r, Missing, FALSE)
    BY DEF Page, StartAt
  <1>4. /\ Readable(q) /\ q.clauses = Extracted(ParsedFrom(r)) /\ q.order = OrderBy(r.order)
        /\ q.start = last /\ q.included = FALSE /\ q.limit = r.limit /\ q.limit \in 1 .. MaxQueryLimit
    <2>1. q = Parsed(StartAt(r, last, FALSE))
      BY <1>3
    <2> HIDE DEF q
    <2> QED
      BY <1>1, <1>2, <2>1, ParsedAtStart
  <1>5. o.clauses = Extracted(ParsedFrom(r)) /\ o.order = OrderBy(r.order)
    <2>1. o = Parsed(StartAt(r, Missing, FALSE))
      BY <1>3 DEF PageFrom
    <2> HIDE DEF o
    <2> QED
      BY <1>1, <1>2, <2>1, ParsedAtStart
  <1>6. answer = Answered(q)
    BY AnswerIs
  <1>7. PrimaryOK /\ Present \in Docs
    BY PresentType DEF StoreInv
  <1>8. p \in WellFormed /\ p.clauses = r.clauses
    BY <1>1, PageType
  <1> HIDE DEF p, q, o, answer
  <1>9. last # Missing => last \in StoredIn(Present)
    <2>1. Refusal.status # "ok"
      BY DEF Refusal
    <2>2. q.start # Missing => primary[q.start] # Missing
      BY <1>2, <1>6, <2>1 DEF Answered, answer, p
    <2> QED
      BY <1>4, <1>7, <2>2, PresentType DEF StoredIn
  <1>10. SameQuery(q, o)
    BY <1>4, <1>5 DEF SameQuery
  <1>11. /\ PagedField(q) = PagedField(o) /\ PagedForwards(q) = PagedForwards(o)
         /\ \A id : Position(id, q) = Position(id, o)
    BY <1>10, SamePages
  <1>12. PICK s : IsPage(answer, q, s)
    BY <1>2, <1>4, <1>6, <1>9, AnsweredPage
  <1>13. q.limit >= 1
    BY <1>4, LimitsAssumption
  <1>14. /\ DOMAIN answer.found = 1 .. Len(answer.found)
         /\ \A id : InPage(answer, id) => id \in S
         /\ Len(answer.found) < q.limit => \A id \in S : InPage(answer, id)
         /\ Len(answer.found) = q.limit =>
              /\ Last(answer.found).id \in S
              /\ \A id \in S : InPage(answer, id) <=>
                   ~Before(Position(Last(answer.found).id, q), Position(id, q), PagedForwards(q))
    BY <1>2, <1>4, <1>7, <1>12, <1>13, PageHolds
  <1>15. ASSUME NEW id \in StoredIn(Present)
         PROVE  id \in S <=> Ahead(r, id, last)
    <2>1. Meets(id, r.clauses) <=> MeetsExtracted(q.clauses, DocumentKeys(id))
      BY <1>2, <1>7, <1>8, MeetsParsed DEF q
    <2>2. FromHere(id, q, PagedField(q), PagedForwards(q)) <=> (last # Missing => Passed(r, id, last))
      <3>1. PagedForwards(q) \in BOOLEAN
        BY <1>2, <1>4, <1>7, PagedType
      <3>2. Onward(Position(id, q), Position(last, q), FALSE, PagedForwards(q))
              <=> Before(Position(last, q), Position(id, q), PagedForwards(q))
        BY <3>1, OnwardIsBefore
      <3> QED
        BY <1>4, <1>11, <3>2 DEF FromHere, Position, Passed, o
    <2> QED
      BY <2>1, <2>2 DEF FoundFrom, Ahead
  <1>16. S \in SUBSET StoredIn(Present)
    BY DEF FoundFrom
  <1> HIDE DEF S
  <1>17. \A id, z : Passed(r, id, z) <=> Before(Position(z, q), Position(id, q), PagedForwards(q))
    BY <1>11 DEF Passed, o
  <1> QED
    BY <1>4, <1>9, <1>14, <1>15, <1>16, <1>17 DEF answer, p

(* Where the client is in a list whose order its writers cannot change:      *)
(* between pages it has seen what meets the request up to its position.      *)
Placed(r, last) == last # Missing /\ (IsForPrimaryKey(PageFrom(r)) \/ primary[last] # Missing)
SeenSoFar(r, last) ==
  \A id \in DOMAIN seen :
    /\ last = Missing => seen[id] = 0
    /\ Placed(r, last) => seen[id] = IF Meets(id, r.clauses) /\ ~Passed(r, id, last) THEN 1 ELSE 0
SeenAll(r) == \A id \in DOMAIN seen : seen[id] = IF Meets(id, r.clauses) THEN 1 ELSE 0
SeenAreStored == \A id \in DOMAIN seen : primary[id] # Missing

PagingOK ==
  /\ phase = "idle" => after = Missing
  /\ phase \in {"paging", "done"} => SeenAreStored
  /\ phase = "paging" => SeenSoFar(request, after)
  /\ phase = "done" => SeenAll(request)

(* Writes leave a document that they do not change where it is.              *)
LEMMA KeptInPlace ==
  ASSUME NEW r \in Conversations, NEW id, primary'[id] = primary[id]
  PROVE  /\ Meets(id, r.clauses)' <=> Meets(id, r.clauses)
         /\ Position(id, PageFrom(r))' = Position(id, PageFrom(r))
  BY DEF Meets, Position, ValueOf, Current

LEMMA KeptUnpassed ==
  ASSUME NEW r \in Conversations, NEW id, NEW last, primary'[id] = primary[id],
         IsForPrimaryKey(PageFrom(r)) \/ primary'[last] = primary[last]
  PROVE  Passed(r, id, last)' <=> Passed(r, id, last)
  <1>1. Position(id, PageFrom(r))' = Position(id, PageFrom(r))
    BY KeptInPlace
  <1>2. Position(last, PageFrom(r))' = Position(last, PageFrom(r))
    <2>1. CASE primary'[last] = primary[last]
      BY <2>1, KeptInPlace
    <2>2. CASE IsForPrimaryKey(PageFrom(r))
      BY <2>2 DEF Position, PagedField, ValueOf
    <2> QED
      BY <2>1, <2>2
  <1> QED
    BY <1>1, <1>2 DEF Passed

LEMMA PagingWrites ==
  ASSUME ConversationsPaged, ClientOK, PagingOK, WriteDocuments
  PROVE  PagingOK'
  <1>1. /\ seen' = Restrict(seen, {id \in DOMAIN seen : primary'[id] = primary[id]})
        /\ phase' = IF Displaces THEN "displaced" ELSE phase
        /\ request' = request /\ after' = after
    BY DEF WriteDocuments
  <1>2. \A id \in DOMAIN seen' : id \in DOMAIN seen /\ seen'[id] = seen[id] /\ primary'[id] = primary[id]
    BY <1>1 DEF Restrict
  <1>3. CASE Displaces
    BY <1>1, <1>3 DEF PagingOK
  <1>4. CASE ~Displaces
    <2>1. phase' = phase
      BY <1>1, <1>4
    <2>2. phase = "idle" => after' = Missing
      BY <1>1 DEF PagingOK
    <2>3. phase \in {"paging", "done"} => SeenAreStored'
      BY <1>2 DEF PagingOK, SeenAreStored
    <2>4. ASSUME phase \in {"paging", "done"} PROVE \E r \in Conversations : r = request
      BY <2>4 DEF ClientOK
    <2>5. ASSUME phase = "done" PROVE SeenAll(request)'
      <3>1. PICK r \in Conversations : r = request
        BY <2>4, <2>5
      <3>2. SeenAll(r)
        BY <2>5, <3>1 DEF PagingOK
      <3>3. SeenAll(r)'
        BY <1>2, <3>2, KeptInPlace DEF SeenAll
      <3> QED
        BY <1>1, <3>1, <3>3
    <2>6. ASSUME phase = "paging" PROVE SeenSoFar(request, after)'
      <3>1. PICK r \in Conversations : r = request
        BY <2>4, <2>6
      <3>2. PICK last : last = after
        OBVIOUS
      <3>3. SeenSoFar(r, last)
        BY <2>6, <3>1, <3>2 DEF PagingOK
      <3>4. IsForPrimaryKey(PageFrom(r)) \/ r.clauses # <<>>
        BY DEF ConversationsPaged
      <3>5. ASSUME Placed(r, last)'
            PROVE  Placed(r, last) /\ (IsForPrimaryKey(PageFrom(r)) \/ primary'[last] = primary[last])
        BY <1>4, <2>6, <3>1, <3>2, <3>4, <3>5 DEF Displaces, Placed
      <3>6. ASSUME NEW id \in DOMAIN seen'
            PROVE  /\ last = Missing => seen'[id] = 0
                   /\ Placed(r, last)' => seen'[id] = IF Meets(id, r.clauses)' /\ ~Passed(r, id, last)'
                                                      THEN 1 ELSE 0
        <4>1. id \in DOMAIN seen /\ seen'[id] = seen[id] /\ primary'[id] = primary[id]
          BY <1>2
        <4>2. Meets(id, r.clauses)' <=> Meets(id, r.clauses)
          BY <4>1, KeptInPlace
        <4>3. Placed(r, last)' => (Passed(r, id, last)' <=> Passed(r, id, last))
          BY <3>5, <4>1, KeptUnpassed
        <4> QED
          BY <3>3, <3>5, <4>1, <4>2, <4>3 DEF SeenSoFar
      <3>7. SeenSoFar(r, last)'
        BY <3>6 DEF SeenSoFar
      <3> QED
        BY <1>1, <3>1, <3>2, <3>7
    <2> QED
      BY <2>1, <2>2, <2>3, <2>5, <2>6 DEF PagingOK
  <1> QED
    BY <1>3, <1>4

(* A page adds what it brings to what was seen.                              *)
LEMMA PagingCounts ==
  ASSUME DistinctIndices, NoUniqueNulls, DistinctProperties, IdApart, IsFiniteSet(Ids), StoreInv,
         ConversationsReadable, ConversationsPaged, ClientOK, PagingOK, phase = "paging",
         NEW r \in Conversations, r = request, NEW last \in Ids \cup {Missing}, last = after,
         Answer(Page(r, last)).status = "ok", NEW id \in DOMAIN seen
  PROVE  LET answer == Answer(Page(r, last))
             z == Last(answer.found).id
             count == Counted(answer.found)[id]
         IN  /\ Len(answer.found) < r.limit => count = IF Meets(id, r.clauses) THEN 1 ELSE 0
             /\ Len(answer.found) = r.limit =>
                  count = IF Meets(id, r.clauses) /\ ~Passed(r, id, z) THEN 1 ELSE 0
  <1> DEFINE answer == Answer(Page(r, last))
             z == Last(answer.found).id
             count == Counted(answer.found)[id]
  <1>1. PrimaryOK
    BY DEF StoreInv
  <1>2. id \in StoredIn(Present)
    BY <1>1, PresentType DEF PagingOK, SeenAreStored, ClientOK, StoredIn
  <1>3. /\ last # Missing => last \in StoredIn(Present)
        /\ DOMAIN answer.found = 1 .. Len(answer.found)
        /\ \A x \in StoredIn(Present) : InPage(answer, x) => Ahead(r, x, last)
        /\ Len(answer.found) < r.limit =>
             \A x \in StoredIn(Present) : Ahead(r, x, last) => InPage(answer, x)
        /\ Len(answer.found) = r.limit =>
             /\ z \in StoredIn(Present) /\ Ahead(r, z, last)
             /\ \A x \in StoredIn(Present) :
                  Ahead(r, x, last) => (InPage(answer, x) <=> ~Passed(r, x, z))
    BY PageBrings
  <1>4. count = IF InPage(answer, id) /\ seen[id] < 2 THEN seen[id] + 1 ELSE seen[id]
    BY DEF Counted, InPage
  <1>5. /\ last = Missing => seen[id] = 0
        /\ last # Missing => seen[id] = IF Meets(id, r.clauses) /\ ~Passed(r, id, last) THEN 1 ELSE 0
    <2>1. SeenSoFar(r, last)
      BY DEF PagingOK
    <2>2. last # Missing => Placed(r, last)
      BY <1>1, <1>3, PresentType DEF Placed, StoredIn
    <2> QED
      BY <2>1, <2>2 DEF SeenSoFar
  <1> HIDE DEF answer, z, count
  <1>6. InPage(answer, id) => seen[id] = 0
    BY <1>2, <1>3, <1>5 DEF Ahead
  <1>7. count = IF InPage(answer, id) THEN 1 ELSE seen[id]
    BY <1>4, <1>6
  <1>8. ASSUME Len(answer.found) < r.limit
        PROVE  count = IF Meets(id, r.clauses) THEN 1 ELSE 0
    <2>1. InPage(answer, id) <=> Ahead(r, id, last)
      BY <1>2, <1>3, <1>8
    <2> QED
      BY <1>5, <1>7, <2>1 DEF Ahead
  <1>9. ASSUME Len(answer.found) = r.limit
        PROVE  count = IF Meets(id, r.clauses) /\ ~Passed(r, id, z) THEN 1 ELSE 0
    <2>1. InPage(answer, id) <=> Ahead(r, id, last) /\ ~Passed(r, id, z)
      BY <1>2, <1>3, <1>9
    <2>2. ASSUME last # Missing, Passed(r, id, z) PROVE Passed(r, id, last)
      <3>1. z \in StoredIn(Present) /\ Passed(r, z, last) /\ last \in StoredIn(Present)
        BY <1>3, <1>9, <2>2 DEF Ahead
      <3> QED
        BY <1>1, <1>2, <2>2, <3>1, PassedInTurn
    <2> QED
      BY <1>5, <1>7, <2>1, <2>2 DEF Ahead
  <1> QED
    BY <1>8, <1>9 DEF answer, z, count

LEMMA PagingPages ==
  ASSUME DistinctIndices, NoUniqueNulls, DistinctProperties, IdApart, IsFiniteSet(Ids), StoreInv,
         ConversationsReadable, ConversationsPaged, ClientOK, PagingOK, NextPage
  PROVE  PagingOK'
  <1>1. phase = "paging" /\ request \in Conversations /\ after \in Ids \cup {Missing}
    BY DEF NextPage, ClientOK
  <1>2. PICK r \in Conversations, last \in Ids \cup {Missing} : r = request /\ last = after
    BY <1>1
  <1> DEFINE answer == Answer(Page(r, last))
             z == Last(answer.found).id
  <1>3. /\ seen' = Counted(answer.found) /\ request' = r /\ primary' = primary
        /\ \/ answer.status = "error" /\ phase' = "failed"
           \/ answer.status = "ok" /\ Len(answer.found) < r.limit /\ phase' = "done"
           \/ /\ answer.status = "ok" /\ Len(answer.found) = r.limit
              /\ after' = z /\ phase' = "paging"
    BY <1>1, <1>2 DEF NextPage, storeVars
  <1>4. DOMAIN seen' = DOMAIN seen
    BY <1>3 DEF Counted
  <1>5. SeenAreStored'
    BY <1>1, <1>3, <1>4 DEF PagingOK, SeenAreStored
  <1>6. answer.status = "ok" =>
          \A id \in DOMAIN seen :
            /\ Len(answer.found) < r.limit => seen'[id] = IF Meets(id, r.clauses) THEN 1 ELSE 0
            /\ Len(answer.found) = r.limit =>
                 seen'[id] = IF Meets(id, r.clauses) /\ ~Passed(r, id, z) THEN 1 ELSE 0
    BY <1>1, <1>2, <1>3, PagingCounts
  <1>7. \A id, x : /\ Meets(id, r.clauses)' <=> Meets(id, r.clauses)
                   /\ Passed(r, id, x)' <=> Passed(r, id, x)
    BY <1>3, KeptInPlace, KeptUnpassed
  <1>8. answer.status = "ok" /\ Len(answer.found) = r.limit => z \in Ids
    BY <1>2, LastOfPage
  <1>9. Missing \notin Ids
    BY MissingAssumption, KeysAssumption
  <1> HIDE DEF answer, z
  <1>10. CASE phase' = "failed"
    BY <1>10 DEF PagingOK
  <1>11. CASE answer.status = "ok" /\ Len(answer.found) < r.limit /\ phase' = "done"
    <2>1. SeenAll(r)'
      BY <1>4, <1>6, <1>7, <1>11 DEF SeenAll
    <2> QED
      BY <1>3, <1>5, <1>11, <2>1 DEF PagingOK
  <1>12. CASE /\ answer.status = "ok" /\ Len(answer.found) = r.limit
              /\ after' = z /\ phase' = "paging"
    <2>1. SeenSoFar(r, after)'
      BY <1>4, <1>6, <1>7, <1>8, <1>9, <1>12 DEF SeenSoFar
    <2> QED
      BY <1>3, <1>5, <1>12, <2>1 DEF PagingOK
  <1> QED
    BY <1>3, <1>10, <1>11, <1>12

LEMMA PagingStep ==
  ASSUME DistinctIndices, NoUniqueNulls, DistinctProperties, IdApart, IsFiniteSet(Ids), StoreInv,
         ConversationsReadable, ConversationsPaged, ClientOK, PagingOK, [QueryNext]_queryVars
  PROVE  PagingOK'
  <1>1. CASE UNCHANGED queryVars
    <2>1. primary' = primary /\ UNCHANGED clientVars
      BY <1>1 DEF queryVars, storeVars
    <2>2. CASE phase \in {"paging", "done"}
      <3>1. PICK r \in Conversations : r = request
        BY <2>2 DEF ClientOK
      <3>2. PICK last : last = after
        OBVIOUS
      <3>3. \A id : /\ Meets(id, r.clauses)' <=> Meets(id, r.clauses)
                    /\ Passed(r, id, last)' <=> Passed(r, id, last)
        BY <2>1, KeptInPlace, KeptUnpassed
      <3>4. /\ phase' = phase /\ request' = r /\ after' = last /\ seen' = seen
        BY <2>1, <3>1, <3>2 DEF clientVars
      <3>5. SeenSoFar(r, last) => SeenSoFar(r, last)'
        BY <2>1, <3>3, <3>4 DEF SeenSoFar, Placed
      <3>6. SeenAll(r) => SeenAll(r)'
        BY <3>3, <3>4 DEF SeenAll
      <3>7. SeenAreStored => SeenAreStored'
        BY <2>1, <3>4 DEF SeenAreStored
      <3> QED
        BY <2>2, <3>1, <3>2, <3>4, <3>5, <3>6, <3>7 DEF PagingOK
    <2>3. CASE phase \notin {"paging", "done"}
      BY <2>1, <2>3 DEF PagingOK, clientVars
    <2> QED
      BY <2>2, <2>3
  <1>2. CASE WriteDocuments
    BY <1>2, PagingWrites
  <1>3. CASE \E r \in Conversations : Open(r)
    <2>1. PICK r \in Conversations : Open(r)
      BY <1>3
    <2>2. /\ phase = "idle" /\ phase' = "paging" /\ after' = after /\ primary' = primary
          /\ seen' = [id \in {i \in Ids : primary[i] # Missing} |-> 0]
      BY <2>1 DEF Open, storeVars
    <2>3. after' = Missing
      BY <2>2 DEF PagingOK
    <2>4. SeenAreStored' /\ SeenSoFar(request, after)'
      BY <2>2, <2>3 DEF SeenAreStored, SeenSoFar, Placed
    <2> QED
      BY <2>2, <2>4 DEF PagingOK
  <1>4. CASE NextPage
    BY <1>4, PagingPages
  <1>5. CASE Close
    BY <1>5 DEF Close, PagingOK
  <1> QED
    BY <1>1, <1>2, <1>3, <1>4, <1>5 DEF QueryNext

(* Paging misses nothing and repeats nothing, whatever is written between    *)
(* the pages.                                                                *)
THEOREM PagingSeesOnce ==
  ASSUME DistinctIndices, NoUniqueNulls, AddsOnce, DistinctProperties, IdApart, IsFiniteSet(Ids),
         ConversationsReadable, ConversationsPaged
  PROVE  QuerySpec => []KeptDocumentsSeenOnce
  <1>1. QueryInit => ClientOK /\ PagingOK
    BY DEF QueryInit, Idle, ClientOK, PagingOK
  <1>2. StoreInv /\ ClientOK /\ [QueryNext]_queryVars => ClientOK'
    BY ClientStep
  <1>3. StoreInv /\ ClientOK /\ PagingOK /\ [QueryNext]_queryVars => PagingOK'
    BY PagingStep
  <1>4. PagingOK => KeptDocumentsSeenOnce
    BY DEF PagingOK, SeenAll, KeptDocumentsSeenOnce
  <1>5. QuerySpec => []StoreInv
    BY QueriesStoreInvariant
  <1> QED
    BY <1>1, <1>2, <1>3, <1>4, <1>5, PTL DEF QuerySpec
-----------------------------------------------------------------------------
(* A set has one listing in an order of its keys.                            *)
ListedBy(s, n, S, key, ascending) ==
  /\ n \in Nat /\ s \in [1 .. n -> S]
  /\ \A id \in S : \E x \in 1 .. n : s[x] = id
  /\ \A a, b \in 1 .. n : a < b => Before(key[s[a]], key[s[b]], ascending)

LEMMA ListedOnce ==
  ASSUME NEW S, NEW key \in [S -> Keys], NEW ascending \in BOOLEAN, NEW n, NEW s,
         ListedBy(s, n, S, key, ascending),
         NEW a \in 1 .. n, NEW b \in 1 .. n, s[a] = s[b]
  PROVE  a = b
  <1>1. n \in Nat /\ s[a] \in S /\ key[s[a]] \in Keys
    BY DEF ListedBy
  <1>2. ~Before(key[s[a]], key[s[a]], ascending)
    BY <1>1, BeforeTotal
  <1>3. a < b => Before(key[s[a]], key[s[b]], ascending)
    BY DEF ListedBy
  <1>4. b < a => Before(key[s[b]], key[s[a]], ascending)
    BY DEF ListedBy
  <1> QED
    BY <1>1, <1>2, <1>3, <1>4

(* Of two listings neither has its next element before the other's.          *)
LEMMA ListedNext ==
  ASSUME NEW S, NEW key \in [S -> Keys], NEW ascending \in BOOLEAN,
         NEW n, NEW s, ListedBy(s, n, S, key, ascending),
         NEW m, NEW t, ListedBy(t, m, S, key, ascending),
         NEW a \in 1 .. n, a \in 1 .. m, s[a] # t[a], \A b \in 1 .. a - 1 : s[b] = t[b]
  PROVE  Before(key[s[a]], key[t[a]], ascending)
  <1>1. n \in Nat /\ m \in Nat /\ s[a] \in S /\ t[a] \in S
    BY DEF ListedBy
  <1>2. PICK k \in 1 .. n : s[k] = t[a]
    BY <1>1 DEF ListedBy
  <1>3. k # a
    BY <1>2
  <1>4. ~(k < a)
    <2>1. SUFFICES ASSUME k < a PROVE FALSE
      OBVIOUS
    <2>2. k \in 1 .. a - 1 /\ k \in 1 .. m
      BY <1>1, <2>1
    <2>3. t[k] = t[a]
      BY <1>2, <2>2
    <2>4. k = a
      BY <2>2, <2>3, ListedOnce
    <2> QED
      BY <1>3, <2>4
  <1>5. a < k
    BY <1>1, <1>3, <1>4
  <1> QED
    BY <1>2, <1>5 DEF ListedBy

LEMMA ListedAlike ==
  ASSUME NEW S, NEW key \in [S -> Keys], NEW ascending \in BOOLEAN,
         NEW n, NEW s, ListedBy(s, n, S, key, ascending),
         NEW m, NEW t, ListedBy(t, m, S, key, ascending)
  PROVE  \A a \in 1 .. n : a \in 1 .. m => s[a] = t[a]
  <1>1. n \in Nat /\ m \in Nat
    BY DEF ListedBy
  <1> DEFINE D == {a \in 1 .. n : a \in 1 .. m /\ s[a] # t[a]}
  <1>2. SUFFICES ASSUME D # {} PROVE FALSE
    OBVIOUS
  <1>3. D \in SUBSET Nat
    BY <1>1
  <1> HIDE DEF D
  <1>4. PICK a \in D : \A b \in D : a <= b
    BY <1>2, <1>3, LeastElement
  <1>5. a \in 1 .. n /\ a \in 1 .. m /\ s[a] # t[a]
    BY <1>4 DEF D
  <1>6. \A b \in 1 .. a - 1 : s[b] = t[b]
    <2> TAKE b \in 1 .. a - 1
    <2>1. b \in 1 .. n /\ b \in 1 .. m /\ ~(a <= b)
      BY <1>1, <1>5
    <2>2. b \notin D
      BY <1>4, <2>1
    <2> QED
      BY <2>1, <2>2 DEF D
  <1>7. Before(key[s[a]], key[t[a]], ascending)
    BY <1>5, <1>6, ListedNext
  <1>8. Before(key[t[a]], key[s[a]], ascending)
    BY <1>5, <1>6, ListedNext
  <1>9. s[a] \in S /\ t[a] \in S
    BY <1>5 DEF ListedBy
  <1>10. key[s[a]] \in Keys /\ key[t[a]] \in Keys
    BY <1>9
  <1>11. ~Before(key[s[a]], key[s[a]], ascending)
    BY <1>10, BeforeTotal
  <1> QED
    BY <1>7, <1>8, <1>10, <1>11, BeforeTotal

LEMMA ListedNoLonger ==
  ASSUME NEW S, NEW key \in [S -> Keys], NEW ascending \in BOOLEAN,
         NEW n, NEW s, ListedBy(s, n, S, key, ascending),
         NEW m, NEW t, ListedBy(t, m, S, key, ascending)
  PROVE  m <= n
  <1>1. n \in Nat /\ m \in Nat
    BY DEF ListedBy
  <1>2. SUFFICES ASSUME n < m PROVE FALSE
    BY <1>1
  <1>3. PICK b \in 1 .. m : b \notin 1 .. n
    <2>1. n + 1 \in 1 .. m /\ n + 1 \notin 1 .. n
      BY <1>1, <1>2
    <2> QED
      BY <2>1
  <1>4. t[b] \in S
    BY <1>3 DEF ListedBy
  <1>5. PICK a \in 1 .. n : s[a] = t[b]
    BY <1>4 DEF ListedBy
  <1>6. a \in 1 .. m
    BY <1>1, <1>2
  <1>7. t[a] = t[b]
    BY <1>5, <1>6, ListedAlike
  <1>8. a = b
    BY <1>3, <1>6, <1>7, ListedOnce
  <1> QED
    BY <1>3, <1>8

LEMMA OneListing ==
  ASSUME NEW S, NEW key \in [S -> Keys], NEW ascending \in BOOLEAN,
         NEW n, NEW s, ListedBy(s, n, S, key, ascending),
         NEW m, NEW t, ListedBy(t, m, S, key, ascending)
  PROVE  n = m /\ n \in Nat /\ \A a \in 1 .. n : s[a] = t[a]
  <1>1. n <= m /\ m <= n
    BY ListedNoLonger
  <1>2. n \in Nat /\ m \in Nat
    BY DEF ListedBy
  <1>3. \A a \in 1 .. n : a \in 1 .. m => s[a] = t[a]
    BY ListedAlike
  <1> QED
    BY <1>1, <1>2, <1>3
-----------------------------------------------------------------------------
(* What is at or after an element of a listing is listed by its end.         *)
FromIndex(i, included) == IF included THEN i ELSE i + 1
OnFrom(S, key, first, included, ascending) ==
  {id \in S : Onward(key[id], first, included, ascending)}

LEMMA RestListed ==
  ASSUME NEW S, NEW key \in [S -> Keys], NEW ascending \in BOOLEAN,
         NEW n, NEW s, ListedBy(s, n, S, key, ascending),
         NEW i \in 1 .. n, NEW included \in BOOLEAN
  PROVE  LET from == FromIndex(i, included)
             l == n - from + 1
             part == OnFrom(S, key, key[s[i]], included, ascending)
         IN  ListedBy([j \in 1 .. l |-> s[from + j - 1]], l, part, [id \in part |-> key[id]], ascending)
  <1> DEFINE from == FromIndex(i, included)
             l == n - from + 1
             part == OnFrom(S, key, key[s[i]], included, ascending)
             t == [j \in 1 .. l |-> s[from + j - 1]]
             k == [id \in part |-> key[id]]
  <1>1. /\ n \in Nat /\ s \in [1 .. n -> S] /\ \A id \in S : \E x \in 1 .. n : s[x] = id
        /\ \A a, b \in 1 .. n : a < b => Before(key[s[a]], key[s[b]], ascending)
    BY DEF ListedBy
  <1>2. from \in Nat /\ from >= 1 /\ from <= n + 1 /\ l \in Nat
    BY <1>1 DEF FromIndex
  <1>3. \A y \in 1 .. n : s[y] \in part <=> from <= y
    <2> TAKE y \in 1 .. n
    <2>1. s[y] \in S /\ s[i] \in S /\ key[s[y]] \in Keys /\ key[s[i]] \in Keys
      BY <1>1
    <2>2. s[y] \in part <=> \/ Before(key[s[i]], key[s[y]], ascending)
                            \/ included /\ key[s[i]] = key[s[y]]
      BY <2>1, OnwardIsBefore DEF OnFrom
    <2>3. ~Before(key[s[i]], key[s[i]], ascending)
      BY <2>1, BeforeTotal
    <2>4. ~(Before(key[s[i]], key[s[y]], ascending) /\ Before(key[s[y]], key[s[i]], ascending))
      BY <2>1, <2>3, BeforeTotal
    <2> HIDE DEF part
    <2>5. CASE i < y
      BY <1>1, <2>2, <2>5 DEF FromIndex
    <2>6. CASE i = y
      BY <1>1, <2>2, <2>3, <2>6 DEF FromIndex
    <2>7. CASE y < i
      <3>1. Before(key[s[y]], key[s[i]], ascending)
        BY <1>1, <2>7
      <3>2. s[y] \notin part
        BY <2>2, <2>3, <2>4, <3>1
      <3>3. ~(from <= y)
        BY <2>7 DEF FromIndex
      <3> QED
        BY <3>2, <3>3
    <2> QED
      BY <1>1, <2>5, <2>6, <2>7
  <1>4. part \in SUBSET S
    BY DEF OnFrom
  <1> HIDE DEF part, from
  <1>5. \A j \in 1 .. l : from + j - 1 \in 1 .. n /\ from <= from + j - 1
    BY <1>1, <1>2
  <1>6. t \in [1 .. l -> part]
    BY <1>3, <1>5
  <1>7. \A id \in part : \E x \in 1 .. l : t[x] = id
    <2> TAKE id \in part
    <2>1. PICK y \in 1 .. n : s[y] = id
      BY <1>1, <1>4
    <2>2. from <= y
      BY <1>3, <2>1
    <2>3. y - from + 1 \in 1 .. l /\ from + (y - from + 1) - 1 = y
      BY <1>1, <1>2, <2>2
    <2>4. t[y - from + 1] = s[y]
      BY <2>3
    <2> QED
      BY <2>1, <2>3, <2>4
  <1>8. \A a, b \in 1 .. l : a < b => Before(k[t[a]], k[t[b]], ascending)
    <2> TAKE a, b \in 1 .. l
    <2>1. HAVE a < b
    <2>2. from + a - 1 \in 1 .. n /\ from + b - 1 \in 1 .. n /\ from + a - 1 < from + b - 1
      BY <1>2, <1>5, <2>1
    <2>3. Before(key[s[from + a - 1]], key[s[from + b - 1]], ascending)
      BY <1>1, <2>2
    <2>4. t[a] = s[from + a - 1] /\ t[b] = s[from + b - 1] /\ t[a] \in part /\ t[b] \in part
      BY <1>6
    <2>5. k[t[a]] = key[t[a]] /\ k[t[b]] = key[t[b]]
      BY <2>4
    <2> HIDE DEF t, k
    <2> QED
      BY <2>3, <2>4, <2>5
  <1> HIDE DEF t, k, l
  <1>9. ListedBy(t, l, part, k, ascending)
    BY <1>2, <1>6, <1>7, <1>8 DEF ListedBy, l
  <1> QED
    BY <1>9 DEF t, l, part, k, from

Positions(S, q) == [id \in S |-> Position(id, q)]

LEMMA PageListed ==
  ASSUME IdApart, Present \in Docs, NEW q, Readable(q), Paginable(q), NEW answer, NEW s,
         IsPage(answer, q, s)
  PROVE  LET S == FoundFrom(q)
         IN  /\ Positions(S, q) \in [S -> Keys] /\ PagedForwards(q) \in BOOLEAN
             /\ ListedBy(s, Cardinality(S), S, Positions(S, q), PagedForwards(q))
  <1> DEFINE S == FoundFrom(q)
             n == Cardinality(S)
  <1>1. /\ PagedForwards(q) \in BOOLEAN
        /\ \A id \in S : Position(id, q) \in Keys
    BY PagedType
  <1>2. n \in Nat /\ s \in [1 .. n -> S] /\ \A id \in S : \E x \in 1 .. n : s[x] = id
    BY DEF IsPage, IsListing, Enumerates
  <1>3. \A a, b \in 1 .. n : a < b <=> Before(Position(s[a], q), Position(s[b], q), PagedForwards(q))
    BY DEF IsPage, ByPosition
  <1> HIDE DEF S, n
  <1>4. \A a \in 1 .. n : Positions(S, q)[s[a]] = Position(s[a], q)
    BY <1>2 DEF Positions
  <1>5. Positions(S, q) \in [S -> Keys]
    BY <1>1 DEF Positions
  <1>6. ListedBy(s, n, S, Positions(S, q), PagedForwards(q))
    BY <1>2, <1>3, <1>4 DEF ListedBy
  <1> QED
    BY <1>1, <1>5, <1>6 DEF S, n

(* The documents from a start on are those at or after it.                   *)
LEMMA FoundAfter ==
  ASSUME IdApart, Present \in Docs, NEW p, NEW q, Readable(p), Readable(q), Paginable(p), Paginable(q),
         SameQuery(p, q), p.start = Missing, q.start \in StoredIn(Present)
  PROVE  FoundFrom(q) = OnFrom(FoundFrom(p), Positions(FoundFrom(p), p), Position(q.start, p),
                               q.included, PagedForwards(p))
  <1> DEFINE S == FoundFrom(p)
             T == FoundFrom(q)
  <1>1. p.clauses = q.clauses
    BY DEF SameQuery
  <1>2. PagedField(p) = PagedField(q) /\ PagedForwards(p) = PagedForwards(q)
        /\ \A id : Position(id, p) = Position(id, q)
    BY SamePages
  <1>3. q.start # Missing
    <2>1. q.start \in Ids
      BY DEF StoredIn
    <2> QED
      BY <2>1, MissingAssumption, KeysAssumption
  <1>4. ASSUME NEW id \in StoredIn(Present)
        PROVE  id \in T <=> id \in S /\ Onward(Position(id, p), Position(q.start, p), q.included,
                                               PagedForwards(p))
    BY <1>1, <1>2, <1>3 DEF FoundFrom, FromHere, Position
  <1>5. S \in SUBSET StoredIn(Present) /\ T \in SUBSET StoredIn(Present)
    BY DEF FoundFrom
  <1> HIDE DEF S, T
  <1>6. \A id \in S : Positions(S, p)[id] = Position(id, p)
    BY DEF Positions
  <1>7. T = OnFrom(S, Positions(S, p), Position(q.start, p), q.included, PagedForwards(p))
    BY <1>4, <1>5, <1>6 DEF OnFrom
  <1> QED
    BY <1>7 DEF S, T

(* What is asked with a start is answered by position, and a page holds it.  *)
PagedServed ==
  \A r \in Paged :
    /\ r \in WellFormed /\ ~r.sql /\ r.start = Missing /\ Cardinality(Ids) <= r.limit
    /\ \A id \in Ids \cup {Missing}, included \in BOOLEAN :
         LET q == Parsed(StartAt(r, id, included)) IN q # Missing /\ Paginable(q)

(* All that such a request finds is in the page, and each as it is stored.   *)
LEMMA WholePage ==
  ASSUME IdApart, IsFiniteSet(Ids), Present \in Docs, NEW q, Readable(q), Paginable(q),
         Cardinality(Ids) <= q.limit, NEW answer, NEW s, IsPage(answer, q, s)
  PROVE  LET n == Cardinality(FoundFrom(q))
         IN  /\ n \in Nat /\ DOMAIN answer.found = 1 .. n /\ Len(answer.found) = n
             /\ answer.found = [x \in 1 .. n |-> [id |-> s[x], document |-> Current(s[x])]]
  <1> DEFINE S == FoundFrom(q)
             n == Cardinality(S)
             l == Fewer(n, q.limit)
  <1>1. /\ n \in Nat /\ l \in Nat /\ DOMAIN answer.found = 1 .. l /\ Len(answer.found) = l
        /\ answer.found = [x \in 1 .. l |-> Documented(q, s[x])]
    BY DEF IsPage, IsListing, Enumerates
  <1>2. S \in SUBSET Ids
    BY PagedType
  <1> HIDE DEF S
  <1>3. n <= Cardinality(Ids) /\ Cardinality(Ids) \in Nat
    BY <1>2, FS_Subset, FS_CardinalityType
  <1>4. q.limit \in Nat
    BY DEF Readable
  <1>5. l = n
    BY <1>1, <1>3, <1>4 DEF Fewer
  <1>6. ~AtTime(q)
    <2>1. IsForPrimaryKey(q) => q.clauses.idEqual = Missing
      BY DEF Paginable
    <2>2. ~IsForPrimaryKey(q) => q.clauses.idEqual = Missing
      BY DEF IsForPrimaryKey
    <2> QED
      BY <2>1, <2>2 DEF AtTime
  <1>7. \A id : Documented(q, id) = [id |-> id, document |-> Current(id)]
    BY <1>6 DEF Documented
  <1> HIDE DEF n, l
  <1> QED
    BY <1>1, <1>5, <1>7 DEF S, n

LEMMA RestOfPage ==
  ASSUME DistinctIndices, NoUniqueNulls, DistinctProperties, IdApart, IsFiniteSet(Ids), StoreInv,
         PagedServed, NEW r \in Paged,
         NEW i \in DOMAIN Answer(r).found, NEW included \in BOOLEAN
  PROVE  Answer(StartAt(r, Answer(r).found[i].id, included)).found
           = SubSeq(Answer(r).found, FromIndex(i, included), Len(Answer(r).found))
  <1> DEFINE p == Parsed(r)
             first == Answer(r)
             start == first.found[i].id
             q == Parsed(StartAt(r, start, included))
             rest == Answer(StartAt(r, start, included))
             S == FoundFrom(p)
             T == FoundFrom(q)
             n == Cardinality(S)
             m == Cardinality(T)
             key == Positions(S, p)
             forwards == PagedForwards(p)
             from == FromIndex(i, included)
             l == n - from + 1
  <1>1. r \in WellFormed /\ ~r.sql /\ r.start = Missing /\ Cardinality(Ids) <= r.limit
    BY DEF PagedServed
  <1>2. r = StartAt(r, Missing, r.included) /\ r.included \in BOOLEAN
    BY <1>1 DEF StartAt, WellFormed
  <1>3. PrimaryOK /\ Present \in Docs
    BY PresentType DEF StoreInv
  <1>4. /\ p # Missing /\ Paginable(p) /\ Readable(p) /\ p.clauses = Extracted(ParsedFrom(r))
        /\ p.order = OrderBy(r.order) /\ p.start = Missing /\ p.limit = r.limit
    <2>1. p = Parsed(StartAt(r, Missing, r.included))
      BY <1>2
    <2>2. p # Missing /\ Paginable(p)
      BY <1>2, <2>1 DEF PagedServed
    <2> HIDE DEF p
    <2> QED
      BY <1>1, <1>2, <2>1, <2>2, ParsedAtStart
  <1>5. first = Answered(p) /\ rest = Answered(q)
    BY AnswerIs
  <1> HIDE DEF p, first
  <1>6. PICK s : IsPage(first, p, s)
    BY <1>4, <1>5, AnsweredPage
  <1>7. /\ n \in Nat /\ DOMAIN first.found = 1 .. n /\ Len(first.found) = n
        /\ first.found = [x \in 1 .. n |-> [id |-> s[x], document |-> Current(s[x])]]
    BY <1>1, <1>3, <1>4, <1>6, WholePage
  <1>8. /\ key \in [S -> Keys] /\ forwards \in BOOLEAN /\ ListedBy(s, n, S, key, forwards)
    BY <1>3, <1>4, <1>6, PageListed
  <1>9. i \in 1 .. n
    BY <1>7 DEF first
  <1>10. start = s[i] /\ start \in S
    BY <1>7, <1>8, <1>9 DEF ListedBy
  <1>11. start \in StoredIn(Present) /\ start \in Ids
    BY <1>10 DEF FoundFrom, StoredIn
  <1> HIDE DEF start
  <1>12. /\ q # Missing /\ Paginable(q) /\ Readable(q) /\ q.clauses = Extracted(ParsedFrom(r))
         /\ q.order = OrderBy(r.order) /\ q.start = start /\ q.included = included /\ q.limit = r.limit
    <2>1. q # Missing /\ Paginable(q)
      BY <1>11 DEF PagedServed
    <2> QED
      BY <1>1, <1>11, <2>1, ParsedAtStart
  <1>13. SameQuery(p, q)
    BY <1>4, <1>12 DEF SameQuery
  <1> HIDE DEF q, rest
  <1>14. PICK t : IsPage(rest, q, t)
    BY <1>5, <1>11, <1>12, AnsweredPage
  <1>15. /\ m \in Nat /\ DOMAIN rest.found = 1 .. m
         /\ rest.found = [x \in 1 .. m |-> [id |-> t[x], document |-> Current(t[x])]]
    BY <1>1, <1>3, <1>12, <1>14, WholePage
  <1>16. ListedBy(t, m, T, Positions(T, q), PagedForwards(q))
    BY <1>3, <1>12, <1>14, PageListed
  <1>17. T = OnFrom(S, key, key[s[i]], included, forwards)
    <2>1. T = OnFrom(S, key, Position(start, p), included, forwards)
      BY <1>3, <1>4, <1>11, <1>12, <1>13, FoundAfter
    <2>2. key[start] = Position(start, p)
      BY <1>10 DEF Positions
    <2> QED
      BY <1>10, <2>1, <2>2
  <1>18. PagedForwards(q) = forwards /\ Positions(T, q) = [id \in T |-> key[id]]
    <2>1. PagedForwards(q) = forwards /\ \A id : Position(id, p) = Position(id, q)
      BY <1>13, SamePages
    <2>2. T \in SUBSET S
      BY <1>17 DEF OnFrom
    <2> HIDE DEF S, T
    <2>3. \A id \in T : key[id] = Position(id, q)
      BY <2>1, <2>2 DEF Positions
    <2> HIDE DEF key
    <2> QED
      BY <2>1, <2>3 DEF Positions
  <1> DEFINE u == [j \in 1 .. l |-> s[from + j - 1]]
             k == [id \in T |-> key[id]]
  <1> HIDE DEF S, T, n, m, key, forwards
  <1>19. ListedBy(u, l, T, k, forwards)
    BY <1>8, <1>9, <1>17, RestListed
  <1>20. k \in [T -> Keys]
    <2>1. T \in SUBSET S
      BY <1>17 DEF OnFrom
    <2> QED
      BY <1>8, <2>1
  <1>21. ListedBy(t, m, T, k, forwards)
    BY <1>16, <1>18
  <1> HIDE DEF k, u, from
  <1>22. m = l /\ \A a \in 1 .. m : t[a] = u[a]
    BY <1>8, <1>19, <1>20, <1>21, OneListing
  <1>23. \A a \in 1 .. l : t[a] = s[from + a - 1]
    BY <1>22 DEF u
  <1> DEFINE part == SubSeq(first.found, from, n)
             D == {first.found[x] : x \in 1 .. n}
  <1>24. from \in Int /\ from >= 1 /\ from <= n + 1
    BY <1>7, <1>9 DEF from, FromIndex
  <1>25. \A x \in from .. n : first.found[x] \in D
    BY <1>24
  <1> HIDE DEF D
  <1>26. /\ part \in Seq(D) /\ Len(part) = IF from <= n THEN l ELSE 0
         /\ \A a \in 1 .. l : part[a] = first.found[from + a - 1]
    <2>1. n \in Int
      BY <1>7
    <2>2. /\ part \in Seq(D) /\ Len(part) = IF from <= n THEN n - from + 1 ELSE 0
          /\ \A a \in 1 .. n - from + 1 : part[a] = first.found[from + a - 1]
      BY <1>24, <1>25, <2>1, SubSeqProperties
    <2> HIDE DEF part
    <2> QED
      BY <2>2
  <1>27. Len(part) = l
    BY <1>7, <1>24, <1>26
  <1>28. part = [a \in 1 .. l |-> part[a]]
    <2>1. DOMAIN part = 1 .. Len(part) /\ part = [a \in 1 .. Len(part) |-> part[a]]
      BY <1>26
    <2> HIDE DEF l
    <2> QED
      BY <1>27, <2>1
  <1>29. \A a \in 1 .. l : part[a] = [id |-> t[a], document |-> Current(t[a])]
    <2> TAKE a \in 1 .. l
    <2>1. from + a - 1 \in 1 .. n
      BY <1>7, <1>24
    <2>2. part[a] = first.found[from + a - 1]
      BY <1>26
    <2>3. first.found[from + a - 1] = [id |-> s[from + a - 1], document |-> Current(s[from + a - 1])]
      BY <1>7, <2>1
    <2> QED
      BY <1>23, <2>2, <2>3
  <1> HIDE DEF part, l
  <1>30. part = [a \in 1 .. l |-> [id |-> t[a], document |-> Current(t[a])]]
    BY <1>28, <1>29
  <1>31. rest.found = part
    BY <1>15, <1>22, <1>30
  <1> QED
    BY <1>7, <1>31 DEF rest, part, from, first, start

(* The results from a document on are the rest of the results, whether it is *)
(* among them or not.                                                        *)
THEOREM PagesContinue ==
  ASSUME DistinctIndices, NoUniqueNulls, AddsOnce, DistinctProperties, IdApart, IsFiniteSet(Ids),
         PagedServed
  PROVE  QuerySpec => []PagesAreRest
  <1>1. StoreInv => PagesAreRest
    <2> SUFFICES ASSUME StoreInv, NEW r \in Paged, NEW i \in DOMAIN Answer(r).found,
                        NEW included \in BOOLEAN
                 PROVE  Answer([r EXCEPT !.start = Answer(r).found[i].id, !.included = included]).found
                          = SubSeq(Answer(r).found, IF included THEN i ELSE i + 1, Len(Answer(r).found))
      BY DEF PagesAreRest
    <2> QED
      BY RestOfPage DEF StartAt, FromIndex
  <1> QED
    BY <1>1, QueriesStoreInvariant, PTL
=============================================================================
