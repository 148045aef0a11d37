--------------------------- MODULE DocumentQueries ---------------------------
(***************************************************************************)
(* Queries over the documents of one type (drive/src/query/mod.rs): a      *)
(* request is parsed, turned into a path query over primary storage or     *)
(* over one index, and the path query is run on what DocumentStore keeps.  *)
(* A client pages through the results of a request with startAfter while   *)
(* documents are written.                                                  *)
(***************************************************************************)
EXTENDS DocumentStore, QueryRanges

CONSTANTS Requests,           \* what is asked in any state
          Supported,          \* those that an index serves
          Paged,              \* those asked with a start as well
          Conversations,      \* those the client pages through
          MaxQueryLimit,      \* DEFAULT_QUERY_LIMIT
          MaxIndexDifference  \* MAX_INDEX_DIFFERENCE

ASSUME LimitsAssumption == MaxQueryLimit \in Nat \ {0} /\ MaxIndexDifference \in Nat
ASSUME RequestsAssumption == Supported \subseteq Requests
ASSUME KeysAssumption == Ids \cup Values \cup {Null} \subseteq Keys
ASSUME MissingIsNone == Missing \notin Conversations /\ \A i \in DOMAIN Indices : Indices[i] # Missing

VARIABLES request, \* the one the client pages through, or Missing
          phase,   \* of the client: idle, paging, done, failed or displaced
          after,   \* the last document of the page before, or Missing
          seen     \* how often each document that did not change since the
                   \* request was made came in a page, up to twice

clientVars == <<request, phase, after, seen>>
queryVars == <<storeVars, clientVars>>
-----------------------------------------------------------------------------
(* A request: [sql, clauses, order, limit, start, included, time].  order   *)
(* is a sequence of [field, ascending], where ascending is Missing if it is *)
(* neither "asc" nor "desc"; time is the block time.                        *)

(* WhereClause::from_components: the field comes first.                     *)
FromComponents(clause) == IF clause.mirrored THEN Missing ELSE clause

(* build_where_clauses_from_operations *)
FromOperation(clause) ==
  IF ~clause.mirrored THEN clause
  ELSE IF AllowsFlip(clause.operator)
  THEN [clause EXCEPT !.operator = Flip(@), !.mirrored = FALSE] ELSE Missing

Without(seq, set) ==
  FoldLeft(LAMBDA rest, x : IF x \in set THEN rest ELSE Append(rest, x), <<>>, seq)

(* OrderClause::from_components: what cannot be read is left out.           *)
OrderBy(order) == Without(order, {o \in Range(order) : o.ascending = Missing})

WithClauses(r, clauses) ==
  IF (\A i \in DOMAIN clauses : clauses[i] # Missing) /\ Extractable(clauses)
  THEN [r EXCEPT !.clauses = Extracted(clauses)] ELSE Missing

FromCbor(r) ==
  IF r.limit \notin 1 .. MaxQueryLimit THEN Missing
  ELSE WithClauses([r EXCEPT !.order = OrderBy(r.order)],
                   [i \in DOMAIN r.clauses |-> FromComponents(r.clauses[i])])

(* Any limit, and neither a start nor a time.                               *)
FromSqlExpr(r) ==
  WithClauses([r EXCEPT !.start = Missing, !.time = Missing],
              [i \in DOMAIN r.clauses |-> FromOperation(r.clauses[i])])

(* The request with its clauses sorted, or Missing.                         *)
Parsed(r) == IF r.sql THEN FromSqlExpr(r) ELSE FromCbor(r)

HasClauses(q) ==
  q.clauses.in # Missing \/ q.clauses.range # Missing \/ DOMAIN q.clauses.equal # {}

IsForPrimaryKey(q) ==
  \/ q.clauses.idEqual # Missing \/ q.clauses.idIn # Missing
  \/ /\ ~HasClauses(q)
     /\ q.order = <<>> \/ (Len(q.order) = 1 /\ q.order[1].field = IdField)

OrderedBy(q, field) == \E i \in DOMAIN q.order : q.order[i].field = field
Ascending(q, field) ==
  \A i \in DOMAIN q.order : q.order[i].field = field => q.order[i].ascending

(* get_raw_for_document_type: a property that is absent has no key.         *)
ValueOf(id, field) == IF field = IdField THEN id ELSE Current(id)[field]
RawKey(id, field) ==
  IF id = Missing \/ ValueOf(id, field) = Null THEN Missing ELSE ValueOf(id, field)
-----------------------------------------------------------------------------
(* Path queries, level by level: the field whose tree is entered, the keys  *)
(* to visit in it and the direction.                                        *)
Level(field, keys, ascending) == [field |-> field, keys |-> keys, ascending |-> ascending]

Levels == [field : Properties \cup {Zero}, keys : SUBSET Keys, ascending : BOOLEAN]
ASSUME LevelsAssumption == Missing \notin Levels

(* inner_query_from_starts_at_for_id: ids are in a tree at [0].             *)
IdsFromStart(start, included, ascending) ==
  Level(Zero, IF start = Missing THEN RangeFull ELSE From(start, included), ascending)

\* Fault: the start is in the results whether it is included or not.
PartFromKeyIncluded(field, key, included, ascending) ==
  Level(field, IF ascending THEN From(key, TRUE) ELSE To(key, TRUE), ascending)

(* inner_query_starts_from_key *)
PartFromKey(field, key, included, ascending) ==
  Level(field, IF ascending THEN From(key, included) ELSE To(key, included), ascending)

(* inner_query_from_starts_at *)
PartFromStart(field, start, included, ascending) ==
  IF start = Missing THEN Level(field, RangeFull, ascending)
  ELSE IF RawKey(start, field) # Missing
  THEN PartFromKey(field, RawKey(start, field), included, ascending)
  ELSE Level(field, IF ascending THEN RangeFull ELSE Key(Null), ascending)

(* Below each key of one level is the next one.  Below the last are the     *)
(* entries: an element at [0], or the ids in the tree there; below the      *)
(* empty key (add_conditional_subquery) always ids.                         *)
Leaf(levels, unique, start, included, ascending) ==
  [levels |-> levels,
   ids |-> IF unique THEN Missing ELSE IdsFromStart(Missing, included, ascending),
   idsOfNull |-> IdsFromStart(start, included, unique \/ ascending)]

(* A level for each property that no clause uses.                           *)
LeftOverLevel(leftOver, i, q) ==
  LET field == leftOver[i]
      key == IF RawKey(q.start, field) = Missing THEN Null ELSE RawKey(q.start, field)
  IN  IF q.start = Missing THEN Level(field, RangeFull, TRUE)
      ELSE PartFromKey(field, key, q.included \/ i < Len(leftOver), Ascending(q, field))

(* recursive_insert_on_query *)
Deepened(levels, leftOver, ix, q, ascending) ==
  Leaf(levels \o [i \in DOMAIN leftOver |-> LeftOverLevel(leftOver, i, q)],
       ix.unique, q.start, q.included,
       IF leftOver = <<>> THEN ascending ELSE Ascending(q, Last(leftOver)))
-----------------------------------------------------------------------------
(* find_best_index *)
EqualFields(q) == DOMAIN q.clauses.equal
FieldOf(clause) == IF clause = Missing THEN {} ELSE {clause.field}
ClauseFields(q) == EqualFields(q) \cup FieldOf(q.clauses.in) \cup FieldOf(q.clauses.range)
OrderFields(q) == {q.order[i].field : i \in DOMAIN q.order}

FirstProperties(ix, n) == {ix.properties[i] : i \in 1 .. n}

(* Of the contract library: an index serves a query if it begins with the   *)
(* properties of the equalities, then those of the In, the range and the    *)
(* order, and the order names consecutive properties.                       *)
Serves(ix, q) ==
  LET equal == Cardinality(EqualFields(q))
      clauses == Cardinality(ClauseFields(q))
      all == Cardinality(ClauseFields(q) \cup OrderFields(q))
  IN  /\ all <= Len(ix.properties)
      /\ FirstProperties(ix, equal) = EqualFields(q)
      /\ q.clauses.in # Missing => ix.properties[equal + 1] = q.clauses.in.field
      /\ FirstProperties(ix, clauses) = ClauseFields(q)
      /\ FirstProperties(ix, all) = ClauseFields(q) \cup OrderFields(q)
      /\ \E n \in 0 .. all : \A i \in DOMAIN q.order :
           n + i <= all /\ ix.properties[n + i] = q.order[i].field

Difference(ix, q) ==
  Len(ix.properties) - Cardinality(ClauseFields(q) \cup OrderFields(q))

BestIndex(q) ==
  LET serving == {i \in DOMAIN Indices : Serves(Indices[i], q)}
      IsBest(i) == \A j \in serving :
        \/ Difference(Indices[i], q) < Difference(Indices[j], q)
        \/ Difference(Indices[i], q) = Difference(Indices[j], q) /\ i <= j
  IN  IF \E i \in serving : IsBest(i) /\ Difference(Indices[i], q) <= MaxIndexDifference
      THEN Indices[CHOOSE i \in serving : IsBest(i)] ELSE Missing
-----------------------------------------------------------------------------
(* get_non_primary_key_path_query: the last clause gives the keys of the    *)
(* query, a range beside an In those of its subquery; equalities before it  *)
(* are part of the path.                                                    *)
LastClause(ix, q) ==
  LET n == Cardinality(EqualFields(q))
  IN  IF q.clauses.in # Missing THEN q.clauses.in
      ELSE IF q.clauses.range # Missing THEN q.clauses.range
      ELSE IF n = 0 THEN Missing
      ELSE [field |-> ix.properties[n], operator |-> "==",
            values |-> <<q.clauses.equal[ix.properties[n]]>>, mirrored |-> FALSE]

SubqueryClause(q) == IF q.clauses.in = Missing THEN Missing ELSE q.clauses.range

LeftOver(ix, q) == Without(ix.properties, ClauseFields(q))

(* How many equalities are part of the path.                                *)
Intermediate(ix, q) ==
  LET n == Cardinality(EqualFields(q))
  IN  IF n > 0 /\ LastClause(ix, q).operator = "==" THEN n - 1 ELSE n

(* The path to the tree of the first level, which is of the next property.  *)
QueryPath(ix, q) ==
  [i \in 1 .. 2 * Intermediate(ix, q) |->
     LET property == ix.properties[(i + 1) \div 2]
     IN  IF i % 2 = 1 THEN property ELSE q.clauses.equal[property]]

\* Fault: the order asked for is ignored.
ClauseQueryAscending(clause, start, q) ==
  Level(clause.field,
        Items(clause.operator, clause.values, RawKey(start, clause.field), q.included, TRUE), TRUE)

(* to_path_query *)
ClauseQuery(clause, start, q) ==
  LET ascending == ~IsRange(clause.operator) \/ Ascending(q, clause.field)
  IN  Level(clause.field,
            Items(clause.operator, clause.values, RawKey(start, clause.field), q.included, ascending),
            ascending)

Orderable(clause, q) ==
  clause = Missing \/ (ValuesFit(clause) /\ (IsRange(clause.operator) => OrderedBy(q, clause.field)))

\* Fault: what is left over does not keep the start from the last clause.
StartOfLastClauseAlways(ix, q) == q.start

(* With properties left over the key of the start is needed as a whole.     *)
StartOfLastClause(ix, q) == IF LeftOver(ix, q) = <<>> THEN q.start ELSE Missing

IndexQuery(ix, q) ==
  LET last == LastClause(ix, q)
      sub == SubqueryClause(q)
      left == LeftOver(ix, q)
      first == ClauseQuery(last, StartOfLastClause(ix, q), q)
      second == IF sub = Missing THEN <<>> ELSE <<ClauseQuery(sub, q.start, q)>>
  IN  IF last = Missing
      THEN Deepened(<<PartFromStart(Head(left), q.start, q.included, TRUE)>>, Tail(left), ix,
                    [q EXCEPT !.order = <<>>], TRUE)
      ELSE Deepened(<<first>> \o second, left, ix, q, first.ascending)
-----------------------------------------------------------------------------
(* Op(v), with v evaluated once however often Op names it.                  *)
Once(Op(_), v) == CHOOSE y \in {Op(x) : x \in {v}} : TRUE

(* GroveDB: the elements a query finds below a path.  Level by level it     *)
(* enters the tree of the level's field and visits keys in it.              *)
NotFound == "not found"
ASSUME NotFoundAssumption == NotFound \notin Ids

FieldAt(path, i, p) == p[Len(path) + 2 * i - 1]
KeyAt(path, i, p) == p[Len(path) + 2 * i]

Visits(levels, path, p) ==
  /\ Len(p) = Len(path) + 2 * Len(levels)
  /\ \A i \in DOMAIN path : p[i] = path[i]
  /\ \A i \in DOMAIN levels :
       FieldAt(path, i, p) = levels[i].field /\ KeyAt(path, i, p) \in levels[i].keys

IdsBelow(query, p) == IF Last(p) = Null THEN query.idsOfNull ELSE query.ids

(* The keys of the last level, and the ids below those that have ids.       *)
Places(query, path) ==
  UNION {IF IdsBelow(query, p) = Missing THEN {p}
         ELSE {e \in DOMAIN index : Visits(<<IdsBelow(query, p)>>, p, e)} :
           p \in {v \in DOMAIN index : Visits(query.levels, path, v)}}

(* A tree that the query goes to is not there.                              *)
Dangling(query, path) ==
  \E n \in 0 .. Len(query.levels), p \in DOMAIN index \cup {path} :
    /\ Visits(SubSeq(query.levels, 1, n), path, p)
    /\ Append(p, IF n = Len(query.levels) THEN Zero ELSE query.levels[n + 1].field)
         \notin DOMAIN index

(* The levels that lead to a place.                                         *)
LevelsTo(query, path, p) ==
  LET value == Len(path) + 2 * Len(query.levels)
  IN  IF Len(p) = value THEN query.levels
      ELSE Append(query.levels, IdsBelow(query, SubSeq(p, 1, value)))

Before(k, l, ascending) == IF ascending THEN Less(k, l) ELSE Less(l, k)

(* Places are visited in the order of the first level at which they differ. *)
Precedes(query, path, p, q) ==
  LET levels == LevelsTo(query, path, p)
  IN  \E i \in DOMAIN levels :
        /\ \A j \in 1 .. i - 1 : KeyAt(path, j, p) = KeyAt(path, j, q)
        /\ Before(KeyAt(path, i, p), KeyAt(path, i, q), levels[i].ascending)

(* A set as a sequence, in an order given as a set of pairs.                *)
InOrder(set, order) ==
  CHOOSE s \in [1 .. Cardinality(set) -> set] :
    \A i, j \in DOMAIN s : i < j => <<s[i], s[j]>> \in order

Visited(query, path) ==
  LET places == Places(query, path)
  IN  InOrder(places, {pq \in places \X places : Precedes(query, path, pq[1], pq[2])})

ElementAt(query, path, p) ==
  IF Len(p) = Len(path) + 2 * Len(query.levels) THEN index[Append(p, Zero)] ELSE index[p]

Elements(query, path) ==
  LET visited == Visited(query, path)
  IN  IF Dangling(query, path) THEN <<NotFound>>
      ELSE [i \in DOMAIN visited |-> ElementAt(query, path, visited[i])]

Sorted(keys, ascending) ==
  InOrder(keys, {kl \in keys \X keys : Before(kl[1], kl[2], ascending)})

FirstOf(elements, limit) == SubSeq(elements, 1, IF Len(elements) < limit THEN Len(elements) ELSE limit)

Refusal == [status |-> "error", found |-> <<>>]
Found(documents) == [status |-> "ok", found |-> documents]

\* Fault: it is an error that there are no results.
DocumentsOfSome(elements) ==
  IF elements = <<>> \/ {NotFound, Tree} \cap {elements[i] : i \in DOMAIN elements} # {} THEN Refusal
  ELSE Found([i \in DOMAIN elements |->
                [id |-> elements[i], document |-> Current(elements[i])]])

(* execute_no_proof: a path that is not there has no results; a tree where  *)
(* a document is expected is an error.                                      *)
DocumentsOf(elements) ==
  LET marks == {elements[i] : i \in DOMAIN elements}
  IN  IF NotFound \in marks THEN Found(<<>>)
      ELSE IF Tree \in marks THEN Refusal
      ELSE Found([i \in DOMAIN elements |->
                    [id |-> elements[i], document |-> Current(elements[i])]])

AnswerBy(ix, q) ==
  IF ~Orderable(LastClause(ix, q), q) \/ ~Orderable(SubqueryClause(q), q) THEN Refusal
  ELSE Once(DocumentsOf,
            FirstOf(Once(LAMBDA query : Elements(query, QueryPath(ix, q)), IndexQuery(ix, q)), q.limit))

IndexAnswer(q) ==
  Once(LAMBDA ix : IF ix = Missing THEN Refusal ELSE AnswerBy(ix, q), BestIndex(q))
-----------------------------------------------------------------------------
(* get_primary_key_path_query *)
PrimaryAscending(q) == Len(q.order) = 1 => q.order[1].ascending

PrimaryKeys(q) ==
  LET c == q.clauses
      ascending == PrimaryAscending(q)
      from(keys) == IF q.start = Missing THEN keys
                    ELSE ListedKeys(keys, q.start, q.included, ascending)
  IN  IF c.idEqual # Missing THEN Key(c.idEqual.values[1])
      ELSE IF c.idIn # Missing THEN from({c.idIn.values[i] : i \in DOMAIN c.idIn.values})
      ELSE IF q.start = Missing THEN RangeFull
      ELSE IF ascending THEN From(q.start, q.included) ELSE To(q.start, q.included)

PrimaryFits(q) ==
  \/ q.clauses.idEqual # Missing
  \/ /\ Len(q.order) = 1 => q.order[1].field = IdField
     /\ q.clauses.idIn # Missing => ValuesFit(q.clauses.idIn)
     /\ KeepsHistory => q.time = Missing

\* Fault: read forwards the reference to the latest version comes first.
VersionForwards(id, time) == Current(id)

(* In the tree of an id the reference at [0] comes before all the versions: *)
(* backwards from a time it is what is found when there is none.            *)
VersionAsOf(id, time) ==
  LET earlier == {t \in DOMAIN primary[id].versions : t <= time}
  IN  IF earlier = {} THEN Current(id)
      ELSE primary[id].versions[CHOOSE t \in earlier : \A u \in earlier : u <= t]

PrimaryAnswer(q) ==
  LET stored == {id \in Ids \cap PrimaryKeys(q) : primary[id] # Missing}
      limit == IF q.clauses.idEqual # Missing THEN 1 ELSE q.limit
      found == FirstOf(Sorted(stored, PrimaryAscending(q)), limit)
      atTime == KeepsHistory /\ q.clauses.idEqual # Missing /\ q.time # Missing
  IN  IF ~PrimaryFits(q) THEN Refusal
      ELSE Found([i \in DOMAIN found |->
             [id |-> found[i],
              document |-> IF atTime THEN VersionAsOf(found[i], q.time) ELSE Current(found[i])]])

(* construct_path_query_operations: the start has to be stored.             *)
Answered(q) ==
  IF q = Missing THEN Refusal
  ELSE IF q.start # Missing /\ primary[q.start] = Missing THEN Refusal
  ELSE IF IsForPrimaryKey(q) THEN PrimaryAnswer(q) ELSE IndexAnswer(q)

Answer(r) == Once(Answered, Parsed(r))
-----------------------------------------------------------------------------
Idle == request = Missing /\ phase = "idle" /\ after = Missing /\ seen = <<>>

QueryInit == Init /\ Idle

(* The client asks for the first page of a request, *)
Open(r) ==
  /\ phase = "idle"
  /\ request' = r /\ phase' = "paging"
  /\ seen' = [id \in {i \in Ids : primary[i] # Missing} |-> 0]
  /\ UNCHANGED <<storeVars, after>>

(* and for each next one with startAfter, until one is not full.            *)
Page(r, id) == [r EXCEPT !.start = id, !.included = FALSE]

Counted(found) ==
  [id \in DOMAIN seen |->
     IF id \in {found[i].id : i \in DOMAIN found} /\ seen[id] < 2 THEN seen[id] + 1 ELSE seen[id]]

NextPage ==
  /\ phase = "paging"
  /\ \E answer \in {Answer(Page(request, after))} :
       /\ seen' = Counted(answer.found)
       /\ \/ answer.status = "error" /\ phase' = "failed" /\ UNCHANGED after
          \/ /\ answer.status = "ok" /\ Len(answer.found) < request.limit
             /\ phase' = "done" /\ UNCHANGED after
          \/ /\ answer.status = "ok" /\ Len(answer.found) = request.limit
             /\ after' = Last(answer.found).id /\ UNCHANGED phase
  /\ UNCHANGED <<storeVars, request>>

Close ==
  /\ phase \in {"done", "failed", "displaced"}
  /\ request' = Missing /\ phase' = "idle" /\ after' = Missing /\ seen' = <<>>
  /\ UNCHANGED storeVars

(* Where results come by an index, a change of the document a page starts   *)
(* after may put the next page anywhere: the client begins again.           *)
Displaces ==
  /\ phase = "paging" /\ request.clauses # <<>> /\ after # Missing
  /\ primary'[after] \notin {primary[after], Missing}

WriteDocuments ==
  /\ Next
  /\ seen' = Restrict(seen, {id \in DOMAIN seen : primary'[id] = primary[id]})
  /\ phase' = IF Displaces THEN "displaced" ELSE phase
  /\ UNCHANGED <<request, after>>

QueryNext ==
  \/ WriteDocuments
  \/ \E r \in Conversations : Open(r)
  \/ NextPage
  \/ Close

(* The client asks for the next page sooner or later; nobody has to write.  *)
QuerySpec == QueryInit /\ [][QueryNext]_queryVars /\ WF_queryVars(NextPage)
-----------------------------------------------------------------------------
(* Every variable holds a value of its type.                                *)
QueryTypeOK ==
  /\ TypeOK
  /\ request \in Conversations \cup {Missing}
  /\ phase \in {"idle", "paging", "done", "failed", "displaced"}
  /\ phase = "idle" <=> request = Missing
  /\ after \in Ids \cup {Missing}
  /\ DOMAIN seen \subseteq Ids /\ seen \in [DOMAIN seen -> 0 .. 2]

(* What a clause says of a document: a property that is absent is the       *)
(* lowest key.                                                              *)
Meets(id, clauses) ==
  \A i \in DOMAIN clauses :
    LET c == clauses[i]
        k == ValueOf(id, c.field)
    IN  IF c.mirrored THEN Satisfies(c.values[1], c.operator, <<k>>)
        ELSE Satisfies(k, c.operator, c.values)

IdsOf(answer) == {answer.found[i].id : i \in DOMAIN answer.found}

(* Answers depend on the store alone: they are compared while no client     *)
(* pages and after a write that was not refused.                            *)
Quiet == phase = "idle" /\ outcome # "error"

(* A request that an index serves is answered, and whatever is answered is  *)
(* right: each document that meets all the clauses once and no other, by    *)
(* whichever index and nesting of path queries it was found.                *)
QueriesSelectMatching ==
  Quiet =>
    \A r \in Requests :
      LET answer == Answer(r)
      IN  /\ r \in Supported => answer.status = "ok"
          /\ answer.status = "ok" =>
               /\ IdsOf(answer) = {id \in Ids : primary[id] # Missing /\ Meets(id, r.clauses)}
               /\ Len(answer.found) = Cardinality(IdsOf(answer))

(* The fields whose order is asked for and kept: the id, or those of the In *)
(* and then of the range.                                                   *)
SortFields(q) ==
  LET Field(clause) == IF clause = Missing THEN <<>> ELSE <<clause.field>>
  IN  IF IsForPrimaryKey(q) THEN <<IdField>> ELSE Field(q.clauses.in) \o Field(q.clauses.range)

(* Results come in the order asked for, first by the In and then by the     *)
(* range, each in its own direction.                                        *)
ResultsSorted ==
  Quiet =>
    \A r \in Supported :
      LET q == Parsed(r)
          fields == SortFields(q)
          found == Answer(r).found
          Value(i, n) == ValueOf(found[i].id, fields[n])
      IN  \A i, j \in DOMAIN found : i < j =>
            \A n \in DOMAIN fields :
              (\A m \in 1 .. n - 1 : Value(i, m) = Value(j, m)) =>
                IF Ascending(q, fields[n]) THEN AtMost(Value(i, n), Value(j, n))
                                           ELSE AtMost(Value(j, n), Value(i, n))

(* The results from a document on are the rest of the results: "included:   *)
(* whether we should start at or after this document" (conditions.rs).      *)
PagesAreRest ==
  Quiet =>
    \A r \in Paged :
      LET found == Answer(r).found
      IN  \A i \in DOMAIN found, included \in BOOLEAN :
            Answer([r EXCEPT !.start = found[i].id, !.included = included]).found
              = SubSeq(found, IF included THEN i ELSE i + 1, Len(found))

(* Paging misses nothing and repeats nothing: when it is done, a document   *)
(* that did not change meanwhile was seen once if it meets the request and  *)
(* otherwise never, whatever was written between the pages.                 *)
KeptDocumentsSeenOnce ==
  phase = "done" =>
    \A id \in DOMAIN seen : seen[id] = IF Meets(id, request.clauses) THEN 1 ELSE 0

(* A page fails only if the document it starts after is no longer stored.   *)
FailsOnlyWhenGone ==
  [][phase = "paging" /\ phase' = "failed" => after # Missing /\ primary[after] = Missing]_queryVars

(* Each page starts further on, so paging comes to an end, however many     *)
(* documents are written meanwhile.                                         *)
PagingEnds == phase = "paging" ~> phase # "paging"

(* What a document was at a block time stays what it was when the document  *)
(* is written later, if it was there at that time.                          *)
PastAnswersKept ==
  [][\A id \in Ids, t \in Times :
       LET past == [sql |-> FALSE, order |-> <<>>, limit |-> 1, start |-> Missing,
                    included |-> FALSE, time |-> t,
                    clauses |-> <<[field |-> IdField, operator |-> "==", values |-> <<id>>,
                                   mirrored |-> FALSE]>>]
       IN  /\ primary[id] # Missing /\ primary'[id] # primary[id]
           /\ \E u \in DOMAIN primary[id].versions : u <= t
           /\ t < primary'[id].latest
           => Answer(past)' = Answer(past)]_queryVars
=============================================================================
