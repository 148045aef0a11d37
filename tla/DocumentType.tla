---------------------------- MODULE DocumentType ----------------------------
(***************************************************************************)
(* One document type of a data contract: what a document is and what is    *)
(* indexed.                                                                *)
(***************************************************************************)
EXTENDS Naturals, Sequences

CONSTANTS Ids,          \* ids of documents
          Properties, Values,
          Null,         \* a property that is absent: the empty key
          Missing,      \* no document
          Documents,    \* the documents the contract's schema lets pass
          Indices,      \* a sequence of [properties |-> sequence, unique |-> BOOLEAN]
          Mutable,      \* documents_mutable
          KeepsHistory  \* documents_keep_history

ASSUME DocumentsAssumption ==
  /\ Documents \subseteq [Properties -> Values \cup {Null}]
  /\ Missing \notin Documents
ASSUME IndicesAssumption ==
  Indices \in Seq([properties : Seq(Properties) \ {<<>>}, unique : BOOLEAN])
ASSUME FlagsAssumption == Mutable \in BOOLEAN /\ KeepsHistory \in BOOLEAN

AnyNull(ix, d) == \E i \in DOMAIN ix.properties : d[ix.properties[i]] = Null
AllNull(ix, d) == \A i \in DOMAIN ix.properties : d[ix.properties[i]] = Null
SameOn(ix, d, e) == \A i \in DOMAIN ix.properties : d[ix.properties[i]] = e[ix.properties[i]]
=============================================================================
