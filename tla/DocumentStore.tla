---------------------------- MODULE DocumentStore ----------------------------
(***************************************************************************)
(* The documents of one type (drive/src/drive/document): a primary storage *)
(* by id, with or without history, and one tree path per index.  Each      *)
(* operation reads the database and builds one batch, which is applied at  *)
(* the end or, after an error, not at all.                                 *)
(***************************************************************************)
EXTENDS DocumentType, SequencesExt

CONSTANTS Zero,      \* the key [0]
          Times,     \* block times
          Operations \* what the callers call

ASSUME TimesAssumption == Missing \notin Times
ASSUME ZeroAssumption == Zero \notin Properties

VARIABLES primary, \* [Ids -> Missing or [versions, latest]]
          index,   \* path below the document type -> "tree" or the id referred to
          outcome  \* of the last operation

storeVars == <<primary, index, outcome>>

Tree == "tree"
ASSUME TreeAssumption == Tree \notin Ids

(* Without history a document has one version, at no time.                 *)
VersionAt(time) == IF KeepsHistory THEN time ELSE Missing

Current(id) ==
  IF primary[id] = Missing THEN Missing ELSE primary[id].versions[primary[id].latest]

(* The top index component of each index is there with the contract.       *)
TopTrees == {<<Indices[i].properties[1]>> : i \in DOMAIN Indices}

Init ==
  /\ primary = [id \in Ids |-> Missing]
  /\ index = [p \in TopTrees |-> Tree]
  /\ outcome = "none"
-----------------------------------------------------------------------------
(* Batches: [ops, failed]. *)

NewBatch == [ops |-> <<>>, failed |-> FALSE]

Insert(batch, path, element) ==
  [batch EXCEPT !.ops = Append(@, [kind |-> "insert", path |-> path, element |-> element])]
DeleteOp(path) == [kind |-> "delete", path |-> path, element |-> Missing]
Fail(batch) == [batch EXCEPT !.failed = TRUE]

PathsOf(batch, kind) ==
  {batch.ops[i].path : i \in {j \in DOMAIN batch.ops : batch.ops[j].kind = kind}}

TreeIfNotExists(batch, path) ==
  IF path \in DOMAIN index THEN batch ELSE Insert(batch, path, Tree)

(* batch_insertion_cache: the trees this batch inserts already.            *)
TreeOnce(batch, path) ==
  IF path \in PathsOf(batch, "insert") THEN batch ELSE TreeIfNotExists(batch, path)

Children(paths, path) == {p \in paths : Len(p) = Len(path) + 1 /\ Front(p) = path}

(* GroveDB: delete the element at `path`, then each tree above it that     *)
(* becomes empty, up to the trees of the contract.  A tree is empty if     *)
(* the batch deletes all that is in it and inserts nothing; one that is    *)
(* not empty stays, also when it is the element asked for.                 *)
BecomesEmpty(batch, path, n) ==
  LET p == SubSeq(path, 1, n)
  IN  index[p] = Tree =>
        /\ Children(DOMAIN index, p) \subseteq PathsOf(batch, "delete") \cup Prefixes(path)
        /\ Children(PathsOf(batch, "insert"), p) = {}

\* Fault: the trees above stay.
DeleteOnly(batch, path) ==
  IF path \notin DOMAIN index THEN Fail(batch)
  ELSE [batch EXCEPT !.ops = IF index[path] = Tree THEN @ ELSE Append(@, DeleteOp(path))]

DeleteUpTreeWhileEmpty(batch, path) ==
  LET Deleted == {n \in 2 .. Len(path) : \A m \in n .. Len(path) : BecomesEmpty(batch, path, m)}
  IN  IF path \notin DOMAIN index THEN Fail(batch)
      ELSE [batch EXCEPT !.ops =
              @ \o [i \in 1 .. Cardinality(Deleted) |-> DeleteOp(SubSeq(path, 1, Len(path) + 1 - i))]]

Apply(batch) ==
  LET Inserts == {i \in DOMAIN batch.ops : batch.ops[i].kind = "insert"}
      Inserted(p) == batch.ops[CHOOSE i \in Inserts : batch.ops[i].path = p].element
  IN  index' = [p \in (DOMAIN index \ PathsOf(batch, "delete")) \cup PathsOf(batch, "insert") |->
                  IF p \in PathsOf(batch, "insert") THEN Inserted(p) ELSE index[p]]
-----------------------------------------------------------------------------
(* The path of a document in an index: property, value, property, value.   *)
IndexPath(ix, d) ==
  [i \in 1 .. 2 * Len(ix.properties) |->
     LET property == ix.properties[(i + 1) \div 2]
     IN  IF i % 2 = 1 THEN property ELSE d[property]]

\* Fault: the trees named after a property are forgotten.
ValueTrees(batch, path, from) ==
  FoldLeft(LAMBDA b, n : TreeOnce(b, SubSeq(path, 1, n)), batch,
           [i \in 1 .. Len(path) \div 2 |-> 2 * i])

(* The trees on a path, from a length on.                                  *)
Trees(batch, path, from) ==
  FoldLeft(LAMBDA b, n : TreeOnce(b, SubSeq(path, 1, n)), batch,
           [i \in 1 .. Len(path) + 1 - from |-> i + from - 1])

\* Fault: an entry of a unique index replaces the one that is there.
OverwriteEntry(batch, ix, d, id, nulls) ==
  LET path == Append(IndexPath(ix, d), Zero)
  IN  IF ~ix.unique \/ nulls
      THEN Insert(TreeIfNotExists(batch, path), Append(path, id), id)
      ELSE Insert(batch, path, id)

(* Entries of unique indices are under [0], others in a tree at [0], and   *)
(* those with nulls too.                                                   *)
AddEntry(batch, ix, d, id, nulls) ==
  LET path == Append(IndexPath(ix, d), Zero)
  IN  IF ~ix.unique \/ nulls
      THEN Insert(TreeIfNotExists(batch, path), Append(path, id), id)
      ELSE IF path \in DOMAIN index THEN Fail(batch)
      ELSE Insert(batch, path, id)

\* Fault: the old entry stays.
KeepEntry(batch, ix, d, id) == batch

RemoveEntry(batch, ix, d, id) ==
  LET path == Append(IndexPath(ix, d), Zero)
  IN  DeleteUpTreeWhileEmpty(batch, IF ix.unique THEN path ELSE Append(path, id))

AddToIndex(batch, ix, d, id) ==
  AddEntry(Trees(batch, IndexPath(ix, d), 2), ix, d, id, AnyNull(ix, d))

(* change_occurred_on_index: from the first property that differs on.      *)
FirstTree(ix, old, d) ==
  LET first == SelectInSeq(ix.properties, LAMBDA p : d[p] # old[p])
  IN  IF first = 1 THEN 2 ELSE 2 * first - 1

MoveInIndex(batch, ix, old, d, id) ==
  IF SameOn(ix, old, d) THEN batch
  ELSE AddEntry(RemoveEntry(Trees(batch, IndexPath(ix, d), FirstTree(ix, old, d)), ix, old, id),
                ix, d, id, AllNull(ix, d))

InsertBatch(id, d) ==
  FoldLeft(LAMBDA b, ix : AddToIndex(b, ix, d, id), NewBatch, Indices)
UpdateBatch(id, d) ==
  FoldLeft(LAMBDA b, ix : MoveInIndex(b, ix, Current(id), d, id), NewBatch, Indices)
DeleteBatch(id) ==
  FoldLeft(LAMBDA b, ix : RemoveEntry(b, ix, Current(id), id), NewBatch, Indices)
-----------------------------------------------------------------------------
\* Fault: the earlier versions are dropped.
OnlyVersion(id, d, time) ==
  [versions |-> VersionAt(time) :> d, latest |-> VersionAt(time)]

(* The element of primary storage after a write at a block time: its       *)
(* version, and with history the reference at [0] to the latest.           *)
Stored(id, d, time) ==
  LET now == VersionAt(time)
      old == IF primary[id] = Missing THEN <<>> ELSE primary[id].versions
  IN  [versions |-> [t \in {now} \cup DOMAIN old |-> IF t = now THEN d ELSE old[t]],
       latest |-> now]

Finish(batch, id, element) ==
  IF batch.failed
  THEN outcome' = "error" /\ UNCHANGED <<primary, index>>
  ELSE /\ Apply(batch)
       /\ primary' = [primary EXCEPT ![id] = element]
       /\ outcome' = "ok"

Refused == outcome' = "error" /\ UNCHANGED <<primary, index>>

(* Only without history is it checked that the id is new.                  *)
AddDocument(id, d, time) ==
  /\ "add" \in Operations
  /\ primary[id] # Missing => "addAgain" \in Operations
  /\ IF primary[id] # Missing /\ ~KeepsHistory THEN Refused
     ELSE Finish(InsertBatch(id, d), id, Stored(id, d, time))

WriteUpdate(id, d, time) ==
  IF ~Mutable \/ primary[id] = Missing THEN Refused
  ELSE Finish(UpdateBatch(id, d), id, Stored(id, d, time))

UpdateDocument(id, d, time) ==
  /\ "update" \in Operations
  /\ WriteUpdate(id, d, time)

(* override_document *)
OverrideDocument(id, d, time) ==
  /\ "override" \in Operations
  /\ IF primary[id] # Missing THEN WriteUpdate(id, d, time)
     ELSE Finish(InsertBatch(id, d), id, Stored(id, d, time))

(* With history the id holds a tree, and the code is still to be written.  *)
DeleteDocument(id) ==
  /\ "delete" \in Operations
  /\ IF ~Mutable \/ primary[id] = Missing THEN Refused
     ELSE IF KeepsHistory THEN outcome' = "panicked" /\ UNCHANGED <<primary, index>>
     ELSE Finish(DeleteBatch(id), id, Missing)

Next ==
  \E id \in Ids :
    \/ \E d \in Documents, time \in Times :
         \/ AddDocument(id, d, time)
         \/ UpdateDocument(id, d, time)
         \/ OverrideDocument(id, d, time)
    \/ DeleteDocument(id)

Spec == Init /\ [][Next]_storeVars
-----------------------------------------------------------------------------
Versions == UNION {[T -> Documents] : T \in SUBSET (Times \cup {Missing})}
PrimaryElements == [versions : Versions, latest : Times \cup {Missing}]
ASSUME ElementsAssumption == Missing \notin PrimaryElements

(* Every variable holds a value of its type, and the index is a tree: what  *)
(* is in it is in a tree of it.                                             *)
TypeOK ==
  /\ \A id \in Ids :
       \/ primary[id] = Missing
       \/ /\ primary[id] \in PrimaryElements
          /\ primary[id].latest \in DOMAIN primary[id].versions
  /\ \A p \in DOMAIN index : /\ index[p] \in Ids \cup {Tree}
                             /\ Len(p) > 1 => Front(p) \in DOMAIN index /\ index[Front(p)] = Tree
  /\ outcome \in {"none", "ok", "error", "panicked"}

EntryPath(ix, id) ==
  LET path == Append(IndexPath(ix, Current(id)), Zero)
  IN  IF ix.unique /\ ~AnyNull(ix, Current(id)) THEN path ELSE Append(path, id)

Entries == {p \in DOMAIN index : index[p] # Tree}

(* Each document is in each index once, under its present values, and       *)
(* nothing else is: what a query finds by an index is what is stored,       *)
(* whatever was added, changed and deleted before.                          *)
IndexMatchesDocuments ==
  /\ Entries = {EntryPath(Indices[i], id) :
                  i \in DOMAIN Indices, id \in {j \in Ids : Current(j) # Missing}}
  /\ \A i \in DOMAIN Indices, id \in Ids :
       Current(id) # Missing => index[EntryPath(Indices[i], id)] = id

(* Deleting takes away the trees it empties: below the trees of the         *)
(* contract every tree leads to an entry.                                   *)
NothingLeftBehind ==
  \A p \in DOMAIN index \ TopTrees :
    \E q \in Entries : Len(p) <= Len(q) /\ SubSeq(q, 1, Len(p)) = p

(* A batch can be applied in any order GroveDB chooses: it has one          *)
(* operation per path, inserts only into trees that are there before or     *)
(* inserted earlier, and deletes only trees it has emptied.                 *)
Applicable(batch) ==
  LET ops == batch.ops
  IN  /\ \A i, j \in DOMAIN ops : ops[i].path = ops[j].path => i = j
      /\ \A i \in DOMAIN ops : ops[i].kind = "insert" =>
           LET parent == Front(ops[i].path)
           IN  /\ \/ parent \in DOMAIN index
                  \/ \E j \in 1 .. i - 1 : ops[j].kind = "insert" /\ ops[j].path = parent
               /\ parent \notin PathsOf(batch, "delete")
      /\ \A i \in DOMAIN ops : ops[i].kind = "delete" =>
           \A p \in Children(DOMAIN index, ops[i].path) :
             \E j \in 1 .. i - 1 : ops[j].kind = "delete" /\ ops[j].path = p

BatchesApply ==
  \A id \in Ids, d \in Documents :
    /\ Current(id) = Missing => Applicable(InsertBatch(id, d))
    /\ Current(id) # Missing => Applicable(UpdateBatch(id, d)) /\ Applicable(DeleteBatch(id))

(* With history a version is changed only by another of the same block, and *)
(* the document is the version written last.                                *)
EarlierVersionsKept ==
  [][\A id \in Ids : primary[id] # Missing =>
       /\ primary'[id] # Missing
       /\ DOMAIN primary[id].versions \subseteq DOMAIN primary'[id].versions
       /\ \A t \in DOMAIN primary[id].versions :
            primary'[id].versions[t] # primary[id].versions[t] => t = primary'[id].latest]_storeVars

(* "we need delete all references to the document" (delete.rs): no entry    *)
(* refers to a document that is not stored.                                 *)
ReferencesResolve == \A p \in Entries : Current(index[p]) # Missing

(* The operations are those of a map with unique indices: they succeed and  *)
(* fail exactly when the map's do, and a failed one leaves nothing behind.  *)
Map == INSTANCE DocumentMap
         WITH documents <- [id \in Ids |-> Current(id)], result <- outcome

ImplementsDocumentMap == Map!MapSpec
=============================================================================
