----------------------------- MODULE DocumentMap -----------------------------
(***************************************************************************)
(* What the document operations promise: a map from ids to documents in    *)
(* which no two documents agree on a unique index.  An operation that      *)
(* cannot be done changes nothing and returns an error.                    *)
(***************************************************************************)
EXTENDS DocumentType

VARIABLES documents, \* [Ids -> Documents \cup {Missing}]
          result     \* of the last operation

mapVars == <<documents, result>>

MapInit == documents = [id \in Ids |-> Missing] /\ result = "none"

(* Another document has the values of d on a unique index.                 *)
Taken(id, d) ==
  \E i \in DOMAIN Indices, other \in Ids \ {id} :
    /\ Indices[i].unique /\ ~AnyNull(Indices[i], d)
    /\ documents[other] # Missing
    /\ SameOn(Indices[i], d, documents[other])

Refuse == result' = "error" /\ UNCHANGED documents
Become(id, d) == documents' = [documents EXCEPT ![id] = d] /\ result' = "ok"

Add(id, d) ==
  IF documents[id] = Missing /\ ~Taken(id, d) THEN Become(id, d) ELSE Refuse

Update(id, d) ==
  IF Mutable /\ documents[id] # Missing /\ ~Taken(id, d) THEN Become(id, d) ELSE Refuse

Put(id, d) == IF documents[id] = Missing THEN Add(id, d) ELSE Update(id, d)

Delete(id) ==
  IF Mutable /\ documents[id] # Missing THEN Become(id, Missing) ELSE Refuse

MapNext ==
  \E id \in Ids : \/ \E d \in Documents : Add(id, d) \/ Update(id, d) \/ Put(id, d)
                  \/ Delete(id)

MapSpec == MapInit /\ [][MapNext]_mapVars
=============================================================================
