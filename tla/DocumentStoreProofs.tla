------------------------ MODULE DocumentStoreProofs -------------------------
(***************************************************************************)
(* Theorems about the documents of one type, for any documents and any     *)
(* indices without nulls in the unique ones: after every operation the     *)
(* index is the one that the stored documents call for, tree by tree, the  *)
(* batches apply, and the operations are those of a map with unique        *)
(* indices.                                                                *)
(***************************************************************************)
EXTENDS DocumentStore, SumLemmas, SequenceTheorems

(* What the keys of an index path can be. *)
PathKeys == Properties \cup Values \cup {Null, Zero} \cup Ids
Paths == Seq(PathKeys)

(* p is q or above it. *)
Leads(p, q) == Len(p) <= Len(q) /\ \A n \in 1 .. Len(p) : p[n] = q[n]
-----------------------------------------------------------------------------
LEMMA PathType ==
  ASSUME NEW p \in Paths
  PROVE  /\ Len(p) \in Nat /\ DOMAIN p = 1 .. Len(p)
         /\ \A n \in 1 .. Len(p) : p[n] \in PathKeys
  <1>1. Len(p) \in Nat /\ DOMAIN p = 1 .. Len(p)
    BY LenProperties DEF Paths
  <1>2. \A n \in 1 .. Len(p) : p[n] \in PathKeys
    BY ElementOfSeq DEF Paths
  <1> QED
    BY <1>1, <1>2

(* Two paths with the same keys are the same. *)
LEMMA SamePath ==
  ASSUME NEW p \in Paths, NEW q \in Paths, Len(p) = Len(q),
         \A n \in 1 .. Len(p) : p[n] = q[n]
  PROVE  p = q
  BY SeqEqual DEF Paths

(* The first n keys of a path lead to it. *)
LEMMA PrefixOfPath ==
  ASSUME NEW q \in Paths, NEW n \in 0 .. Len(q)
  PROVE  LET p == SubSeq(q, 1, n)
         IN  p \in Paths /\ Len(p) = n /\ Leads(p, q) /\ \A k \in 1 .. n : p[k] = q[k]
  <1>1. Len(q) \in Nat /\ \A k \in 1 .. Len(q) : q[k] \in PathKeys
    BY PathType
  <1>2. n \in Nat /\ n <= Len(q) /\ \A k \in 1 .. n : k \in 1 .. Len(q)
    BY <1>1
  <1>3. \A k \in 1 .. n : q[k] \in PathKeys
    BY <1>1, <1>2
  <1>4. /\ SubSeq(q, 1, n) \in Seq(PathKeys)
        /\ Len(SubSeq(q, 1, n)) = IF 1 <= n THEN n - 1 + 1 ELSE 0
        /\ \A k \in 1 .. n - 1 + 1 : SubSeq(q, 1, n)[k] = q[1 + k - 1]
    <2>1. 1 \in Int /\ n \in Int
      BY <1>2
    <2> QED
      BY <1>3, <2>1, SubSeqProperties
  <1>5. Len(SubSeq(q, 1, n)) = n
    BY <1>2, <1>4
  <1>6. \A k \in 1 .. n : SubSeq(q, 1, n)[k] = q[k]
    BY <1>2, <1>4
  <1> QED
    BY <1>2, <1>4, <1>5, <1>6 DEF Leads, Paths

LEMMA LeadsIsPrefix ==
  ASSUME NEW p \in Paths, NEW q \in Paths, Leads(p, q)
  PROVE  p = SubSeq(q, 1, Len(p)) /\ Len(p) \in 0 .. Len(q)
  <1>1. Len(p) \in 0 .. Len(q) /\ \A n \in 1 .. Len(p) : p[n] = q[n]
    BY PathType DEF Leads
  <1> DEFINE s == SubSeq(q, 1, Len(p))
  <1>2. s \in Paths /\ Len(s) = Len(p) /\ \A k \in 1 .. Len(p) : s[k] = q[k]
    BY <1>1, PrefixOfPath
  <1> HIDE DEF s
  <1>3. p = s
    BY <1>1, <1>2, SamePath
  <1> QED
    BY <1>1, <1>3 DEF s

LEMMA LeadsItself == ASSUME NEW p \in Paths PROVE Leads(p, p)
  BY PathType DEF Leads

LEMMA LeadsOn ==
  ASSUME NEW p \in Paths, NEW q \in Paths, NEW r \in Paths, Leads(p, q), Leads(q, r)
  PROVE  Leads(p, r)
  BY PathType DEF Leads

(* Of two paths above a third one the shorter is above the longer. *)
LEMMA LeadsInOrder ==
  ASSUME NEW p \in Paths, NEW q \in Paths, NEW r \in Paths, Leads(p, r), Leads(q, r),
         Len(p) <= Len(q)
  PROVE  Leads(p, q)
  BY PathType DEF Leads

LEMMA LeadsSameLength ==
  ASSUME NEW p \in Paths, NEW q \in Paths, Leads(p, q), Len(p) = Len(q)
  PROVE  p = q
  BY SamePath DEF Leads

(* The path one key shorter. *)
LEMMA FrontOfPath ==
  ASSUME NEW p \in Paths, Len(p) >= 1
  PROVE  Front(p) \in Paths /\ Len(Front(p)) = Len(p) - 1 /\ Leads(Front(p), p)
  <1>1. Len(p) \in Nat /\ Len(p) - 1 \in 0 .. Len(p)
    BY PathType
  <1> QED
    BY <1>1, PrefixOfPath DEF Front

(* A path is in the tree at t when t leads to it by one key. *)
LEMMA ChildOfPath ==
  ASSUME NEW c \in Paths, NEW t \in Paths
  PROVE  Len(c) = Len(t) + 1 /\ Front(c) = t <=> Len(c) = Len(t) + 1 /\ Leads(t, c)
  <1>1. Len(t) \in Nat /\ Len(c) \in Nat
    BY PathType
  <1>2. ASSUME Len(c) = Len(t) + 1 PROVE Front(c) = t <=> Leads(t, c)
    <2>1. Front(c) \in Paths /\ Len(Front(c)) = Len(t) /\ Leads(Front(c), c)
      BY <1>1, <1>2, FrontOfPath
    <2>2. ASSUME Leads(t, c) PROVE Front(c) = t
      <3>1. Leads(t, Front(c))
        BY <1>1, <2>1, <2>2, LeadsInOrder
      <3> QED
        BY <2>1, <3>1, LeadsSameLength
    <2> QED
      BY <2>1, <2>2
  <1> QED
    BY <1>2

LEMMA PrefixesOfPath ==
  ASSUME NEW q \in Paths
  PROVE  \A p : p \in Prefixes(q) <=> p \in Paths /\ Leads(p, q)
  <1> TAKE p
  <1>1. p \in Prefixes(q) <=> \E n \in 0 .. Len(q) : p = SubSeq(q, 1, n)
    BY DEF Prefixes
  <1>2. ASSUME NEW n \in 0 .. Len(q), p = SubSeq(q, 1, n) PROVE p \in Paths /\ Leads(p, q)
    BY <1>2, PrefixOfPath
  <1>3. ASSUME p \in Paths, Leads(p, q) PROVE \E n \in 0 .. Len(q) : p = SubSeq(q, 1, n)
    BY <1>3, LeadsIsPrefix
  <1> QED
    BY <1>1, <1>2, <1>3

(* Two paths that do not lead to each other part after some common keys. *)
LEMMA PathsPart ==
  ASSUME NEW q \in Paths, NEW t \in Paths, ~Leads(q, t), ~Leads(t, q)
  PROVE  \E m \in Nat :
           /\ m < Len(q) /\ m < Len(t) /\ q[m + 1] # t[m + 1]
           /\ \A k \in 1 .. m : q[k] = t[k]
  <1> DEFINE Differ == {k \in Nat : k >= 1 /\ k <= Len(q) /\ k <= Len(t) /\ q[k] # t[k]}
  <1>1. Len(q) \in Nat /\ Len(t) \in Nat
    BY PathType
  <1>2. Differ # {}
    <2>1. CASE Len(q) <= Len(t)
      <3>1. PICK k \in 1 .. Len(q) : q[k] # t[k]
        BY <2>1 DEF Leads
      <3>2. k \in Differ
        BY <1>1, <2>1, <3>1
      <3> QED
        BY <3>2
    <2>2. CASE Len(t) <= Len(q)
      <3>1. PICK k \in 1 .. Len(t) : t[k] # q[k]
        BY <2>2 DEF Leads
      <3>2. k \in Differ
        BY <1>1, <2>2, <3>1
      <3> QED
        BY <3>2
    <2> QED
      BY <1>1, <2>1, <2>2
  <1>3. Min(Differ) \in Differ /\ \A y \in Differ : Min(Differ) <= y
    BY <1>2, LeastElement
  <1> DEFINE f == Min(Differ)
  <1> HIDE DEF f
  <1>4. f \in Nat /\ f >= 1 /\ f <= Len(q) /\ f <= Len(t) /\ q[f] # t[f]
    BY <1>3 DEF f
  <1>5. \A k \in 1 .. f - 1 : q[k] = t[k]
    <2> TAKE k \in 1 .. f - 1
    <2>1. k \notin Differ
      BY <1>3, <1>4 DEF f
    <2> QED
      BY <1>1, <1>4, <2>1
  <1>6. f - 1 \in Nat /\ f - 1 < Len(q) /\ f - 1 < Len(t) /\ (f - 1) + 1 = f
    BY <1>1, <1>4
  <1> QED
    BY <1>4, <1>5, <1>6
-----------------------------------------------------------------------------
(* The number of properties of an index, the path of a document in it and   *)
(* where the entry of the document is: at [0] in a unique index, in the      *)
(* tree there in others.                                                     *)
Size(i) == Len(Indices[i].properties)
PathIn(i, d) == IndexPath(Indices[i], d)
AtZero(i, d) == Append(PathIn(i, d), Zero)
EntryAt(i, d, id) == IF Indices[i].unique THEN AtZero(i, d) ELSE Append(AtZero(i, d), id)

(* The keys of the path: the properties in their order, each with a value. *)
KeysOf(p, i, d) ==
  \A k \in 1 .. Size(i) : /\ p[2 * k - 1] = Indices[i].properties[k]
                          /\ p[2 * k] = d[Indices[i].properties[k]]

LEMMA IndexType ==
  ASSUME NEW i \in DOMAIN Indices
  PROVE  /\ Indices[i].properties \in Seq(Properties) /\ Indices[i].unique \in BOOLEAN
         /\ Size(i) \in Nat /\ Size(i) >= 1
         /\ DOMAIN Indices[i].properties = 1 .. Size(i)
         /\ \A k \in 1 .. Size(i) : Indices[i].properties[k] \in Properties
  <1> DEFINE Index == [properties : Seq(Properties) \ {<<>>}, unique : BOOLEAN]
  <1>1. Indices \in Seq(Index)
    BY IndicesAssumption
  <1> HIDE DEF Index
  <1>2. Indices[i] \in Index
    BY <1>1, LenProperties, ElementOfSeq
  <1>3. Indices[i].properties \in Seq(Properties) \ {<<>>} /\ Indices[i].unique \in BOOLEAN
    BY <1>2 DEF Index
  <1>4. Size(i) \in Nat \ {0}
    BY <1>3, EmptySeq DEF Size
  <1>5. DOMAIN Indices[i].properties = 1 .. Size(i)
    BY <1>3, LenProperties DEF Size
  <1>6. \A k \in 1 .. Size(i) : Indices[i].properties[k] \in Properties
    BY <1>3, ElementOfSeq DEF Size
  <1> QED
    BY <1>3, <1>4, <1>5, <1>6

(* A position on an index path is that of a property or of its value. *)
LEMMA OddOrEven ==
  ASSUME NEW n \in Nat, NEW m \in 1 .. 2 * n
  PROVE  \E k \in 1 .. n : m = 2 * k - 1 \/ m = 2 * k
  <1>1. CASE m % 2 = 1
    <2>1. (m + 1) \div 2 \in 1 .. n /\ m = 2 * ((m + 1) \div 2) - 1
      BY <1>1
    <2> QED
      BY <2>1
  <1>2. CASE m % 2 = 0
    <2>1. m \div 2 \in 1 .. n /\ m = 2 * (m \div 2)
      BY <1>2
    <2> QED
      BY <2>1
  <1> QED
    BY <1>1, <1>2

LEMMA PathInType ==
  ASSUME NEW i \in DOMAIN Indices, NEW d \in Documents
  PROVE  /\ PathIn(i, d) \in Paths /\ Len(PathIn(i, d)) = 2 * Size(i)
         /\ KeysOf(PathIn(i, d), i, d)
  <1> DEFINE props == Indices[i].properties
             n == Size(i)
             Key(m) == IF m % 2 = 1 THEN props[(m + 1) \div 2] ELSE d[props[(m + 1) \div 2]]
  <1>1. n \in Nat /\ n >= 1 /\ \A k \in 1 .. n : props[k] \in Properties
    BY IndexType
  <1>2. \A k \in 1 .. n : d[props[k]] \in Values \cup {Null}
    BY <1>1, DocumentsAssumption
  <1>3. PathIn(i, d) = [m \in 1 .. 2 * n |-> Key(m)]
    BY DEF PathIn, IndexPath, Size
  <1> HIDE DEF props, n
  <1>4. \A m \in 1 .. 2 * n : (m + 1) \div 2 \in 1 .. n
    BY <1>1
  <1>5. \A m \in 1 .. 2 * n : Key(m) \in PathKeys
    BY <1>1, <1>2, <1>4 DEF PathKeys
  <1>6. \A k \in 1 .. n : /\ 2 * k - 1 \in 1 .. 2 * n /\ 2 * k \in 1 .. 2 * n
                          /\ Key(2 * k - 1) = props[k] /\ Key(2 * k) = d[props[k]]
    <2> TAKE k \in 1 .. n
    <2>1. /\ 2 * k - 1 \in 1 .. 2 * n /\ 2 * k \in 1 .. 2 * n
          /\ (2 * k - 1) % 2 = 1 /\ (2 * k) % 2 = 0
          /\ (2 * k - 1 + 1) \div 2 = k /\ (2 * k + 1) \div 2 = k
      BY <1>1
    <2> QED
      BY <2>1
  <1> HIDE DEF Key
  <1> DEFINE path == [m \in 1 .. 2 * n |-> Key(m)]
  <1>7. 2 * n \in Nat
    BY <1>1
  <1>8. path \in [1 .. 2 * n -> PathKeys]
    BY <1>5
  <1>9. path \in Seq(PathKeys)
    BY <1>7, <1>8, SeqDef
  <1>10. Len(path) = 2 * n
    <2>1. Len(path) \in Nat /\ DOMAIN path = 1 .. Len(path) /\ DOMAIN path = 1 .. 2 * n
      BY <1>9, LenProperties
    <2> HIDE DEF path
    <2> QED
      BY <1>7, <2>1
  <1>11. \A k \in 1 .. n : path[2 * k - 1] = props[k] /\ path[2 * k] = d[props[k]]
    BY <1>6
  <1> QED
    BY <1>3, <1>9, <1>10, <1>11 DEF n, props, KeysOf, Paths

(* The trees at [0] and the entries, key by key. *)
LEMMA AtZeroType ==
  ASSUME NEW i \in DOMAIN Indices, NEW d \in Documents
  PROVE  /\ AtZero(i, d) \in Paths /\ Len(AtZero(i, d)) = 2 * Size(i) + 1
         /\ KeysOf(AtZero(i, d), i, d) /\ AtZero(i, d)[2 * Size(i) + 1] = Zero
         /\ Leads(PathIn(i, d), AtZero(i, d))
  <1>1. /\ PathIn(i, d) \in Paths /\ Len(PathIn(i, d)) = 2 * Size(i)
        /\ KeysOf(PathIn(i, d), i, d) /\ Size(i) \in Nat
    BY PathInType, IndexType
  <1>2. Zero \in PathKeys
    BY DEF PathKeys
  <1>3. /\ AtZero(i, d) \in Paths /\ Len(AtZero(i, d)) = Len(PathIn(i, d)) + 1
        /\ \A m \in 1 .. Len(PathIn(i, d)) : AtZero(i, d)[m] = PathIn(i, d)[m]
        /\ AtZero(i, d)[Len(PathIn(i, d)) + 1] = Zero
    BY <1>1, <1>2, AppendProperties DEF AtZero, Paths
  <1>4. \A k \in 1 .. Size(i) : 2 * k - 1 \in 1 .. 2 * Size(i) /\ 2 * k \in 1 .. 2 * Size(i)
    BY <1>1
  <1>5. KeysOf(AtZero(i, d), i, d)
    BY <1>1, <1>3, <1>4 DEF KeysOf
  <1> QED
    BY <1>1, <1>3, <1>5 DEF Leads

LEMMA EntryType ==
  ASSUME NEW i \in DOMAIN Indices, NEW d \in Documents, NEW id \in Ids
  PROVE  LET e == EntryAt(i, d, id)
         IN  /\ e \in Paths /\ KeysOf(e, i, d) /\ e[2 * Size(i) + 1] = Zero
             /\ Len(e) = IF Indices[i].unique THEN 2 * Size(i) + 1 ELSE 2 * Size(i) + 2
             /\ Leads(PathIn(i, d), e) /\ Leads(AtZero(i, d), e)
             /\ ~Indices[i].unique => e[2 * Size(i) + 2] = id
  <1>1. /\ AtZero(i, d) \in Paths /\ Len(AtZero(i, d)) = 2 * Size(i) + 1
        /\ KeysOf(AtZero(i, d), i, d) /\ AtZero(i, d)[2 * Size(i) + 1] = Zero
        /\ Leads(PathIn(i, d), AtZero(i, d)) /\ PathIn(i, d) \in Paths /\ Size(i) \in Nat
    BY AtZeroType, PathInType, IndexType
  <1>2. CASE Indices[i].unique
    BY <1>1, <1>2, LeadsItself DEF EntryAt
  <1>3. CASE ~Indices[i].unique
    <2> DEFINE e == Append(AtZero(i, d), id)
    <2>1. id \in PathKeys
      BY DEF PathKeys
    <2>2. /\ e \in Paths /\ Len(e) = Len(AtZero(i, d)) + 1
          /\ \A m \in 1 .. Len(AtZero(i, d)) : e[m] = AtZero(i, d)[m]
          /\ e[Len(AtZero(i, d)) + 1] = id
      BY <1>1, <2>1, AppendProperties DEF Paths
    <2> HIDE DEF e
    <2>3. Leads(AtZero(i, d), e)
      BY <1>1, <2>2 DEF Leads
    <2>4. Leads(PathIn(i, d), e)
      BY <1>1, <2>2, <2>3, LeadsOn
    <2>5. \A k \in 1 .. Size(i) : /\ 2 * k - 1 \in 1 .. 2 * Size(i) + 1
                                  /\ 2 * k \in 1 .. 2 * Size(i) + 1
      BY <1>1
    <2>6. KeysOf(e, i, d)
      BY <1>1, <2>2, <2>5 DEF KeysOf
    <2>7. e = EntryAt(i, d, id)
      BY <1>3 DEF EntryAt, e
    <2>8. Len(e) = 2 * Size(i) + 2 /\ e[2 * Size(i) + 2] = id /\ e[2 * Size(i) + 1] = Zero
      BY <1>1, <2>2
    <2> QED
      BY <1>3, <2>2, <2>3, <2>4, <2>6, <2>7, <2>8
  <1> QED
    BY <1>2, <1>3
-----------------------------------------------------------------------------
(* A contract has no two indices of the same properties (the validation of  *)
(* contracts, outside this repository, refuses duplicates).                  *)
DistinctIndices ==
  \A i, j \in DOMAIN Indices : Indices[i].properties = Indices[j].properties => i = j

(* The properties of a unique index are required ones.                       *)
NoUniqueNulls ==
  \A i \in DOMAIN Indices, d \in Documents : Indices[i].unique => ~AnyNull(Indices[i], d)

(* A tree at [0] is one of one index, and tells the values on it. *)
LEMMA ZeroTells ==
  ASSUME NEW i \in DOMAIN Indices, NEW j \in DOMAIN Indices, DistinctIndices,
         NEW d \in Documents, NEW e \in Documents, NEW id \in Ids,
         Leads(AtZero(i, d), EntryAt(j, e, id))
  PROVE  i = j /\ SameOn(Indices[i], d, e)
  <1> DEFINE z == AtZero(i, d)
             q == EntryAt(j, e, id)
  <1>1. /\ Len(z) = 2 * Size(i) + 1 /\ KeysOf(z, i, d) /\ z[2 * Size(i) + 1] = Zero
        /\ Size(i) \in Nat
    BY AtZeroType, IndexType
  <1>2. /\ KeysOf(q, j, e) /\ Len(q) <= 2 * Size(j) + 2 /\ Size(j) \in Nat
        /\ \A k \in 1 .. Size(j) : Indices[j].properties[k] \in Properties
    BY EntryType, IndexType
  <1>3. Len(z) <= Len(q) /\ \A n \in 1 .. Len(z) : z[n] = q[n]
    BY DEF Leads
  <1> HIDE DEF z, q
  <1>4. Len(q) \in Nat
    <2>1. q \in Paths
      BY EntryType DEF q
    <2> QED
      BY <2>1, PathType
  <1>5. ASSUME Size(i) < Size(j) PROVE FALSE
    <2>1. Size(i) + 1 \in 1 .. Size(j) /\ 2 * (Size(i) + 1) - 1 = 2 * Size(i) + 1
          /\ 2 * Size(i) + 1 \in 1 .. Len(z)
      BY <1>1, <1>2, <1>5
    <2>2. q[2 * (Size(i) + 1) - 1] \in Properties
      BY <1>2, <2>1 DEF KeysOf
    <2>3. q[2 * Size(i) + 1] \in Properties
      BY <2>1, <2>2
    <2>4. q[2 * Size(i) + 1] = Zero
      BY <1>1, <1>3, <2>1
    <2> QED
      BY <2>3, <2>4, ZeroAssumption
  <1>6. Size(i) = Size(j)
    BY <1>1, <1>2, <1>3, <1>4, <1>5
  <1>7. \A k \in 1 .. Size(i) : /\ 2 * k - 1 \in 1 .. Len(z) /\ 2 * k \in 1 .. Len(z)
    BY <1>1
  <1>8. \A k \in 1 .. Size(i) : Indices[i].properties[k] = Indices[j].properties[k]
    BY <1>1, <1>2, <1>3, <1>6, <1>7 DEF KeysOf
  <1>9. Indices[i].properties = Indices[j].properties
    <2>1. Indices[i].properties \in Seq(Properties) /\ Indices[j].properties \in Seq(Properties)
      BY IndexType
    <2>2. Len(Indices[i].properties) = Len(Indices[j].properties)
      BY <1>6 DEF Size
    <2> QED
      BY <1>8, <2>1, <2>2, SeqEqual DEF Size
  <1>10. i = j
    BY <1>9 DEF DistinctIndices
  <1>11. \A k \in 1 .. Size(i) : d[Indices[i].properties[k]] = e[Indices[i].properties[k]]
    <2> TAKE k \in 1 .. Size(i)
    <2>1. z[2 * k] = d[Indices[i].properties[k]]
      BY <1>1 DEF KeysOf
    <2>2. q[2 * k] = e[Indices[i].properties[k]]
      BY <1>2, <1>10 DEF KeysOf
    <2>3. z[2 * k] = q[2 * k]
      BY <1>3, <1>7
    <2> QED
      BY <2>1, <2>2, <2>3
  <1>12. DOMAIN Indices[i].properties = 1 .. Size(i)
    BY IndexType
  <1> QED
    BY <1>10, <1>11, <1>12 DEF SameOn

(* No tree at [0] is above or on the path of a document. *)
LEMMA NoZeroOnPath ==
  ASSUME NEW i \in DOMAIN Indices, NEW j \in DOMAIN Indices,
         NEW d \in Documents, NEW e \in Documents
  PROVE  ~Leads(AtZero(i, d), PathIn(j, e))
  <1> SUFFICES ASSUME Leads(AtZero(i, d), PathIn(j, e)) PROVE FALSE
    OBVIOUS
  <1>1. /\ Len(AtZero(i, d)) = 2 * Size(i) + 1 /\ AtZero(i, d)[2 * Size(i) + 1] = Zero
        /\ Size(i) \in Nat
    BY AtZeroType, IndexType
  <1>2. /\ KeysOf(PathIn(j, e), j, e) /\ Len(PathIn(j, e)) = 2 * Size(j) /\ Size(j) \in Nat
        /\ \A k \in 1 .. Size(j) : Indices[j].properties[k] \in Properties
    BY PathInType, IndexType
  <1>3. /\ 2 * Size(i) + 1 <= 2 * Size(j)
        /\ \A n \in 1 .. 2 * Size(i) + 1 : AtZero(i, d)[n] = PathIn(j, e)[n]
    BY <1>1, <1>2 DEF Leads
  <1>4. Size(i) + 1 \in 1 .. Size(j) /\ 2 * (Size(i) + 1) - 1 = 2 * Size(i) + 1
        /\ 2 * Size(i) + 1 \in 1 .. 2 * Size(i) + 1
    BY <1>1, <1>2, <1>3
  <1>5. PathIn(j, e)[2 * (Size(i) + 1) - 1] \in Properties
    BY <1>2, <1>4 DEF KeysOf
  <1>6. PathIn(j, e)[2 * Size(i) + 1] = Zero
    BY <1>1, <1>3, <1>4
  <1>7. PathIn(j, e)[2 * Size(i) + 1] \in Properties
    BY <1>4, <1>5
  <1> QED
    BY <1>6, <1>7, ZeroAssumption

(* Documents that are the same on an index have the same path in it. *)
LEMMA SamePathIn ==
  ASSUME NEW i \in DOMAIN Indices, NEW d \in Documents, NEW e \in Documents
  PROVE  SameOn(Indices[i], d, e) <=> PathIn(i, d) = PathIn(i, e)
  <1>1. /\ PathIn(i, d) \in Paths /\ Len(PathIn(i, d)) = 2 * Size(i) /\ KeysOf(PathIn(i, d), i, d)
        /\ PathIn(i, e) \in Paths /\ Len(PathIn(i, e)) = 2 * Size(i) /\ KeysOf(PathIn(i, e), i, e)
        /\ DOMAIN Indices[i].properties = 1 .. Size(i) /\ Size(i) \in Nat
    BY PathInType, IndexType
  <1>2. ASSUME PathIn(i, d) = PathIn(i, e) PROVE SameOn(Indices[i], d, e)
    BY <1>1, <1>2 DEF SameOn, KeysOf
  <1>3. ASSUME SameOn(Indices[i], d, e) PROVE PathIn(i, d) = PathIn(i, e)
    <2>1. \A k \in 1 .. Size(i) : /\ PathIn(i, d)[2 * k - 1] = PathIn(i, e)[2 * k - 1]
                                  /\ PathIn(i, d)[2 * k] = PathIn(i, e)[2 * k]
      BY <1>1, <1>3 DEF SameOn, KeysOf
    <2>2. \A m \in 1 .. 2 * Size(i) : PathIn(i, d)[m] = PathIn(i, e)[m]
      <3> TAKE m \in 1 .. 2 * Size(i)
      <3>1. PICK k \in 1 .. Size(i) : m = 2 * k - 1 \/ m = 2 * k
        BY <1>1, OddOrEven
      <3> QED
        BY <2>1, <3>1
    <2> QED
      BY <1>1, <2>2, SamePath
  <1> QED
    BY <1>2, <1>3

(* An entry is no tree: no other entry is below it. *)
LEMMA EntriesAreLeaves ==
  ASSUME NEW i \in DOMAIN Indices, NEW j \in DOMAIN Indices, DistinctIndices,
         NEW d \in Documents, NEW e \in Documents, NEW id \in Ids, NEW other \in Ids,
         Leads(EntryAt(i, d, id), EntryAt(j, e, other))
  PROVE  /\ i = j /\ SameOn(Indices[i], d, e) /\ EntryAt(i, d, id) = EntryAt(j, e, other)
         /\ ~Indices[i].unique => id = other
  <1>1. /\ AtZero(i, d) \in Paths /\ EntryAt(i, d, id) \in Paths /\ EntryAt(j, e, other) \in Paths
        /\ Leads(AtZero(i, d), EntryAt(i, d, id))
    BY AtZeroType, EntryType
  <1>2. Leads(AtZero(i, d), EntryAt(j, e, other))
    BY <1>1, LeadsOn
  <1>3. i = j /\ SameOn(Indices[i], d, e)
    BY <1>2, ZeroTells
  <1>4. Len(EntryAt(i, d, id)) = Len(EntryAt(j, e, other))
    BY <1>3, EntryType
  <1>5. EntryAt(i, d, id) = EntryAt(j, e, other)
    BY <1>1, <1>4, LeadsSameLength
  <1>6. ASSUME ~Indices[i].unique PROVE id = other
    <2>1. /\ EntryAt(i, d, id)[2 * Size(i) + 2] = id
          /\ EntryAt(j, e, other)[2 * Size(j) + 2] = other
      BY <1>3, <1>6, EntryType
    <2> QED
      BY <1>3, <1>5, <2>1
  <1> QED
    BY <1>3, <1>5, <1>6

(* What leads to the old entry of an index where the values change, and to   *)
(* a new entry of any index, leads to the new path in that index.            *)
LEMMA StaysAbove ==
  ASSUME NEW i \in DOMAIN Indices, NEW j \in DOMAIN Indices, DistinctIndices,
         NEW old \in Documents, NEW d \in Documents, NEW id \in Ids,
         ~SameOn(Indices[i], old, d), NEW p \in Paths,
         Leads(p, EntryAt(i, old, id)), Leads(p, EntryAt(j, d, id))
  PROVE  Leads(p, PathIn(i, d))
  <1> DEFINE a == EntryAt(i, old, id)
             b == EntryAt(j, d, id)
             t == PathIn(i, d)
  <1>1. a \in Paths /\ b \in Paths /\ t \in Paths
    BY EntryType, PathInType
  <1>2. /\ Size(i) \in Nat /\ Size(j) \in Nat /\ Len(p) \in Nat
        /\ \A k \in 1 .. Size(i) : Indices[i].properties[k] \in Properties
    BY IndexType, PathType
  <1>3. Len(p) <= 2 * Size(i)
    <2> SUFFICES ASSUME 2 * Size(i) + 1 <= Len(p) PROVE FALSE
      BY <1>2
    <2>1. /\ AtZero(i, old) \in Paths /\ Leads(AtZero(i, old), a)
          /\ Len(AtZero(i, old)) = 2 * Size(i) + 1
      BY AtZeroType, EntryType
    <2> HIDE DEF a, b
    <2>2. Leads(AtZero(i, old), p)
      BY <1>1, <2>1, LeadsInOrder DEF a
    <2>3. Leads(AtZero(i, old), b)
      BY <1>1, <2>1, <2>2, LeadsOn DEF b
    <2> QED
      BY <2>3, ZeroTells DEF b
  <1>4. /\ KeysOf(a, i, old) /\ KeysOf(b, j, d) /\ KeysOf(t, i, d) /\ b[2 * Size(j) + 1] = Zero
        /\ Len(t) = 2 * Size(i)
    BY EntryType, PathInType
  <1>5. \A n \in 1 .. Len(p) : p[n] = a[n] /\ p[n] = b[n]
    BY DEF Leads
  <1> HIDE DEF a, b, t
  <1>6. Len(p) <= 2 * Size(j)
    <2> SUFFICES ASSUME 2 * Size(j) + 1 <= Len(p) PROVE FALSE
      BY <1>2
    <2>1. /\ Size(j) + 1 \in 1 .. Size(i) /\ 2 * (Size(j) + 1) - 1 = 2 * Size(j) + 1
          /\ 2 * Size(j) + 1 \in 1 .. Len(p)
      BY <1>2, <1>3
    <2>2. a[2 * (Size(j) + 1) - 1] \in Properties
      BY <1>2, <1>4, <2>1 DEF KeysOf
    <2>3. a[2 * Size(j) + 1] \in Properties
      BY <2>1, <2>2
    <2>4. a[2 * Size(j) + 1] = Zero
      BY <1>4, <1>5, <2>1
    <2> QED
      BY <2>3, <2>4, ZeroAssumption
  <1>7. ASSUME NEW n \in 1 .. Len(p) PROVE p[n] = t[n]
    <2>1. n \in 1 .. 2 * Size(i) /\ n \in 1 .. 2 * Size(j)
      BY <1>2, <1>3, <1>6
    <2>2. PICK k \in 1 .. Size(i) : n = 2 * k - 1 \/ n = 2 * k
      BY <1>2, <2>1, OddOrEven
    <2>3. k \in 1 .. Size(j)
      BY <1>2, <2>1, <2>2
    <2>4. CASE n = 2 * k - 1
      BY <1>4, <1>5, <2>2, <2>4 DEF KeysOf
    <2>5. CASE n = 2 * k
      <3>1. 2 * k - 1 \in 1 .. Len(p)
        BY <1>2, <2>5
      <3>2. Indices[i].properties[k] = Indices[j].properties[k]
        <4>1. a[2 * k - 1] = Indices[i].properties[k]
          BY <1>4 DEF KeysOf
        <4>2. b[2 * k - 1] = Indices[j].properties[k]
          BY <1>4, <2>3 DEF KeysOf
        <4> QED
          BY <1>5, <3>1, <4>1, <4>2
      <3>3. t[n] = d[Indices[i].properties[k]]
        BY <1>4, <2>5 DEF KeysOf
      <3>4. b[n] = d[Indices[j].properties[k]]
        BY <1>4, <2>3, <2>5 DEF KeysOf
      <3> QED
        BY <1>5, <3>2, <3>3, <3>4
    <2> QED
      BY <2>2, <2>4, <2>5
  <1>8. Leads(p, t)
    BY <1>2, <1>3, <1>4, <1>7 DEF Leads
  <1> QED
    BY <1>8 DEF t

(* The paths of different values in an index part before its entries. *)
LEMMA PathsOfIndexPart ==
  ASSUME NEW i \in DOMAIN Indices, NEW old \in Documents, NEW d \in Documents, NEW id \in Ids,
         ~SameOn(Indices[i], old, d)
  PROVE  /\ ~Leads(PathIn(i, d), EntryAt(i, old, id))
         /\ ~Leads(EntryAt(i, old, id), PathIn(i, d))
  <1>1. /\ PathIn(i, d) \in Paths /\ PathIn(i, old) \in Paths /\ EntryAt(i, old, id) \in Paths
        /\ Len(PathIn(i, d)) = Len(PathIn(i, old)) /\ Leads(PathIn(i, old), EntryAt(i, old, id))
        /\ AtZero(i, old) \in Paths /\ Leads(AtZero(i, old), EntryAt(i, old, id))
        /\ Len(PathIn(i, d)) \in Nat
    <2>1. /\ PathIn(i, d) \in Paths /\ PathIn(i, old) \in Paths
          /\ Len(PathIn(i, d)) = 2 * Size(i) /\ Len(PathIn(i, old)) = 2 * Size(i)
      BY PathInType
    <2> QED
      BY <2>1, AtZeroType, EntryType, PathType
  <1>2. ASSUME Leads(PathIn(i, d), EntryAt(i, old, id)) PROVE FALSE
    <2>1. Len(PathIn(i, d)) <= Len(PathIn(i, old))
      BY <1>1
    <2>2. Leads(PathIn(i, d), PathIn(i, old))
      BY <1>1, <1>2, <2>1, LeadsInOrder
    <2>3. PathIn(i, d) = PathIn(i, old)
      BY <1>1, <2>2, LeadsSameLength
    <2> QED
      BY <2>3, SamePathIn
  <1>3. ASSUME Leads(EntryAt(i, old, id), PathIn(i, d)) PROVE FALSE
    <2>1. Leads(AtZero(i, old), PathIn(i, d))
      BY <1>1, <1>3, LeadsOn
    <2> QED
      BY <2>1, NoZeroOnPath
  <1> QED
    BY <1>2, <1>3
-----------------------------------------------------------------------------
(* The paths that lead to one of a set. *)
Above(S) == {p \in Paths : Len(p) >= 1 /\ \E q \in S : Leads(p, q)}

Docs == [Ids -> Documents \cup {Missing}]
StoredIn(docs) == {id \in Ids : docs[id] # Missing}

(* The entries that the documents call for. *)
EntriesFor(id, d) == {EntryAt(i, d, id) : i \in DOMAIN Indices}
EntriesOf(docs) == UNION {EntriesFor(id, docs[id]) : id \in StoredIn(docs)}

(* The index that the documents call for: their entries and the trees above *)
(* them, and the trees of the contract.                                      *)
Fits(idx, docs) ==
  /\ DOMAIN idx = TopTrees \cup Above(EntriesOf(docs))
  /\ \A i \in DOMAIN Indices, id \in StoredIn(docs) : idx[EntryAt(i, docs[id], id)] = id
  /\ \A p \in DOMAIN idx \ EntriesOf(docs) : idx[p] = Tree

LEMMA AboveAbove ==
  ASSUME NEW S \in SUBSET Paths, NEW p \in Paths, Len(p) >= 1, NEW q \in Above(S), Leads(p, q)
  PROVE  p \in Above(S)
  <1>1. PICK r \in S : q \in Paths /\ Leads(q, r)
    BY DEF Above
  <1>2. Leads(p, r)
    BY <1>1, LeadsOn
  <1> QED
    BY <1>2 DEF Above

LEMMA TopTreesType ==
  \A p \in TopTrees : p \in Paths /\ Len(p) = 1
  <1> TAKE p \in TopTrees
  <1>1. PICK i \in DOMAIN Indices : p = <<Indices[i].properties[1]>>
    BY DEF TopTrees
  <1>2. Indices[i].properties[1] \in Properties
    <2>1. Size(i) \in Nat /\ Size(i) >= 1
      BY IndexType
    <2>2. 1 \in 1 .. Size(i)
      BY <2>1
    <2> QED
      BY <2>2, IndexType
  <1>3. Indices[i].properties[1] \in PathKeys
    BY <1>2 DEF PathKeys
  <1> QED
    BY <1>1, <1>3 DEF Paths

(* What leads to an entry by one key is a tree of the contract. *)
LEMMA TopOfEntry ==
  ASSUME NEW i \in DOMAIN Indices, NEW d \in Documents, NEW id \in Ids,
         NEW p \in Paths, Len(p) = 1, Leads(p, EntryAt(i, d, id))
  PROVE  p \in TopTrees
  <1>1. p[1] = EntryAt(i, d, id)[1]
    BY DEF Leads
  <1>2. EntryAt(i, d, id)[1] = Indices[i].properties[1]
    <2>1. Size(i) \in Nat /\ Size(i) >= 1 /\ KeysOf(EntryAt(i, d, id), i, d)
      BY IndexType, EntryType
    <2>2. 1 \in 1 .. Size(i) /\ 2 * 1 - 1 = 1
      BY <2>1
    <2>3. EntryAt(i, d, id)[2 * 1 - 1] = Indices[i].properties[1]
      BY <2>1, <2>2 DEF KeysOf
    <2> QED
      BY <2>2, <2>3
  <1> DEFINE top == <<Indices[i].properties[1]>>
  <1>3. top \in TopTrees /\ top[1] = p[1]
    BY <1>1, <1>2 DEF TopTrees
  <1>4. top \in Paths /\ Len(top) = 1
    BY <1>3, TopTreesType
  <1> HIDE DEF top
  <1>5. p = top
    BY <1>3, <1>4, SamePath
  <1> QED
    BY <1>3, <1>5

LEMMA EntriesOfType ==
  ASSUME NEW docs \in Docs
  PROVE  /\ EntriesOf(docs) \in SUBSET Paths
         /\ \A q \in EntriesOf(docs) :
              \E i \in DOMAIN Indices, id \in StoredIn(docs) :
                id \in Ids /\ docs[id] \in Documents /\ q = EntryAt(i, docs[id], id)
  <1>1. ASSUME NEW q \in EntriesOf(docs)
        PROVE  \E i \in DOMAIN Indices, id \in StoredIn(docs) :
                 id \in Ids /\ docs[id] \in Documents /\ q = EntryAt(i, docs[id], id)
    BY DEF EntriesOf, EntriesFor, StoredIn, Docs
  <1>2. ASSUME NEW q \in EntriesOf(docs) PROVE q \in Paths
    BY <1>1, EntryType
  <1> QED
    BY <1>1, <1>2

(* Of two stored documents' entries none is below the other. *)
LEMMA StoredLeaves ==
  ASSUME DistinctIndices, NEW docs \in Docs, NEW p \in EntriesOf(docs), NEW q \in EntriesOf(docs),
         Leads(p, q)
  PROVE  p = q
  <1>1. PICK i \in DOMAIN Indices, id \in Ids :
          docs[id] \in Documents /\ p = EntryAt(i, docs[id], id)
    BY EntriesOfType
  <1>2. PICK j \in DOMAIN Indices, other \in Ids :
          docs[other] \in Documents /\ q = EntryAt(j, docs[other], other)
    BY EntriesOfType
  <1> QED
    BY <1>1, <1>2, EntriesAreLeaves

(* An index that fits is a forest, with the entries as its leaves. *)
LEMMA OnlyOne ==
  ASSUME NEW n \in Nat, NEW m, m = 1, n >= 1, n <= m
  PROVE  n = m
  OBVIOUS

LEMMA FitsForest ==
  ASSUME DistinctIndices, NEW docs \in Docs, NEW idx, Fits(idx, docs)
  PROVE  /\ \A p \in DOMAIN idx : p \in Paths /\ Len(p) >= 1
         /\ \A p \in DOMAIN idx : Len(p) = 1 => p \in TopTrees
         /\ \A p \in DOMAIN idx : Len(p) # 1 => \E q \in EntriesOf(docs) : Leads(p, q)
         /\ \A q \in DOMAIN idx, p \in Paths : Len(p) >= 1 /\ Leads(p, q) => p \in DOMAIN idx
         /\ EntriesOf(docs) \subseteq DOMAIN idx
         /\ \A p \in DOMAIN idx : p \in EntriesOf(docs) <=> idx[p] # Tree
  <1> DEFINE E == EntriesOf(docs)
  <1>1. E \in SUBSET Paths
    BY EntriesOfType
  <1>2. DOMAIN idx = TopTrees \cup Above(E)
    BY DEF Fits
  <1>3. ASSUME NEW p \in DOMAIN idx PROVE p \in Paths /\ Len(p) >= 1
    BY <1>2, <1>3, TopTreesType DEF Above
  <1>4. ASSUME NEW p \in DOMAIN idx, Len(p) = 1 PROVE p \in TopTrees
    <2>1. CASE p \in TopTrees
      BY <2>1
    <2>2. CASE p \in Above(E)
      <3>1. PICK q \in E : Leads(p, q)
        BY <2>2 DEF Above
      <3>2. PICK i \in DOMAIN Indices, id \in Ids :
              docs[id] \in Documents /\ q = EntryAt(i, docs[id], id)
        BY EntriesOfType
      <3> QED
        BY <1>3, <1>4, <3>1, <3>2, TopOfEntry
    <2> QED
      BY <1>2, <2>1, <2>2
  <1>5. ASSUME NEW p \in DOMAIN idx, Len(p) # 1 PROVE \E q \in E : Leads(p, q)
    <2>1. p \in Above(E)
      BY <1>2, <1>5, TopTreesType
    <2> QED
      BY <2>1 DEF Above
  <1>6. ASSUME NEW q \in DOMAIN idx, NEW p \in Paths, Len(p) >= 1, Leads(p, q)
        PROVE  p \in DOMAIN idx
    <2>1. CASE q \in TopTrees
      <3>1. q \in Paths /\ Len(q) = 1 /\ Len(p) \in Nat
        BY <2>1, TopTreesType, PathType
      <3>2. Len(p) = Len(q)
        <4>1. Len(p) <= Len(q)
          BY <1>6 DEF Leads
        <4> QED
          BY <1>6, <3>1, <4>1, OnlyOne
      <3>3. p = q
        BY <1>6, <3>1, <3>2, LeadsSameLength
      <3> QED
        BY <3>3
    <2>2. CASE q \in Above(E)
      BY <1>1, <1>2, <1>6, <2>2, AboveAbove
    <2> QED
      BY <1>2, <2>1, <2>2
  <1>7. ASSUME NEW q \in E PROVE q \in DOMAIN idx /\ idx[q] \in Ids
    <2>1. PICK i \in DOMAIN Indices, id \in StoredIn(docs) :
            id \in Ids /\ docs[id] \in Documents /\ q = EntryAt(i, docs[id], id)
      BY EntriesOfType
    <2>2. idx[q] = id
      BY <2>1 DEF Fits
    <2>3. Size(i) \in Nat /\ Size(i) >= 1
      BY IndexType
    <2>4. q \in Paths /\ Len(q) = IF Indices[i].unique THEN 2 * Size(i) + 1 ELSE 2 * Size(i) + 2
      BY <2>1, EntryType
    <2>5. Len(q) >= 1
      BY <2>3, <2>4
    <2>6. q \in Above(E)
      BY <2>4, <2>5, LeadsItself DEF Above
    <2> QED
      BY <1>2, <2>1, <2>2, <2>6
  <1>8. ASSUME NEW p \in DOMAIN idx PROVE p \in E <=> idx[p] # Tree
    BY <1>7, TreeAssumption DEF Fits
  <1> QED
    BY <1>3, <1>4, <1>5, <1>6, <1>7, <1>8
-----------------------------------------------------------------------------
Op == [kind : {"insert", "delete"}, path : Paths, element : Ids \cup {Tree, Missing}]
Batch == [ops : Seq(Op), failed : BOOLEAN]

(* What Applicable asks of the order of the operations. *)
Ordered(ops) ==
  /\ \A m, n \in DOMAIN ops : ops[m].path = ops[n].path => m = n
  /\ \A n \in DOMAIN ops : ops[n].kind = "insert" =>
       \/ Front(ops[n].path) \in DOMAIN index
       \/ \E m \in 1 .. n - 1 : ops[m].kind = "insert" /\ ops[m].path = Front(ops[n].path)
  /\ \A n \in DOMAIN ops : ops[n].kind = "delete" =>
       \A p \in Children(DOMAIN index, ops[n].path) :
         \E m \in 1 .. n - 1 : ops[m].kind = "delete" /\ ops[m].path = p

(* Entries are inserted at the paths in F, trees elsewhere. *)
Writes(ops, F, id) ==
  \A n \in DOMAIN ops : ops[n].kind = "insert" =>
    ops[n].element = IF ops[n].path \in F THEN id ELSE Tree

LEMMA BatchType ==
  ASSUME NEW b \in Batch
  PROVE  /\ b.ops \in Seq(Op) /\ b.failed \in BOOLEAN
         /\ Len(b.ops) \in Nat /\ DOMAIN b.ops = 1 .. Len(b.ops)
         /\ \A n \in DOMAIN b.ops : /\ b.ops[n] \in Op /\ b.ops[n].path \in Paths
                                    /\ b.ops[n].kind \in {"insert", "delete"}
  <1> HIDE DEF Op
  <1>1. b.ops \in Seq(Op) /\ b.failed \in BOOLEAN
    BY DEF Batch
  <1>2. Len(b.ops) \in Nat /\ DOMAIN b.ops = 1 .. Len(b.ops)
    BY <1>1, LenProperties
  <1>3. \A n \in DOMAIN b.ops : b.ops[n] \in Op
    BY <1>1, <1>2, ElementOfSeq
  <1>4. \A o \in Op : o.path \in Paths /\ o.kind \in {"insert", "delete"}
    BY DEF Op
  <1> QED
    BY <1>1, <1>2, <1>3, <1>4

(* The paths of a kind, operation by operation. *)
LEMMA PathsOfOps ==
  ASSUME NEW b, NEW kind
  PROVE  \A p : p \in PathsOf(b, kind) <=>
                  \E n \in DOMAIN b.ops : b.ops[n].kind = kind /\ b.ops[n].path = p
  BY DEF PathsOf

(* A concatenation has the elements of the first and then of the second. *)
LEMMA ConcatParts ==
  ASSUME NEW S, NEW s \in Seq(S), NEW t \in Seq(S)
  PROVE  /\ s \o t \in Seq(S) /\ Len(s \o t) = Len(s) + Len(t)
         /\ \A m \in 1 .. Len(s) : (s \o t)[m] = s[m]
         /\ \A m \in 1 .. Len(t) : (s \o t)[Len(s) + m] = t[m]
  <1>1. Len(s) \in Nat /\ Len(t) \in Nat
    BY LenProperties
  <1>2. s \o t \in Seq(S) /\ Len(s \o t) = Len(s) + Len(t)
    BY ConcatProperties
  <1>3. ASSUME NEW m \in 1 .. Len(s) PROVE (s \o t)[m] = s[m]
    <2>1. m \in 1 .. Len(s) + Len(t) /\ m <= Len(s)
      BY <1>1
    <2> QED
      BY <2>1, ConcatProperties
  <1>4. ASSUME NEW m \in 1 .. Len(t) PROVE (s \o t)[Len(s) + m] = t[m]
    <2>1. /\ Len(s) + m \in 1 .. Len(s) + Len(t) /\ ~(Len(s) + m <= Len(s))
          /\ Len(s) + m - Len(s) = m
      BY <1>1
    <2> QED
      BY <2>1, ConcatProperties
  <1> QED
    BY <1>2, <1>3, <1>4

LEMMA SameSegment ==
  ASSUME NEW m \in Nat, NEW n \in Nat, 1 .. m = 1 .. n
  PROVE  m = n
  <1>1. CASE m < n
    <2>1. n \in 1 .. n /\ n \notin 1 .. m
      BY <1>1
    <2> QED
      BY <2>1
  <1>2. CASE n < m
    <2>1. m \in 1 .. m /\ m \notin 1 .. n
      BY <1>2
    <2> QED
      BY <2>1
  <1> QED
    BY <1>1, <1>2

(* Adding an insertion. *)
LEMMA InsertOp ==
  ASSUME NEW b \in Batch, NEW p \in Paths, NEW element \in Ids \cup {Tree}
  PROVE  LET c == Insert(b, p, element)
         IN  /\ c \in Batch /\ c.failed = b.failed
             /\ PathsOf(c, "insert") = PathsOf(b, "insert") \cup {p}
             /\ PathsOf(c, "delete") = PathsOf(b, "delete")
             /\ \A F, id : /\ Writes(b.ops, F, id)
                           /\ element = IF p \in F THEN id ELSE Tree
                           => Writes(c.ops, F, id)
             /\ /\ Ordered(b.ops) /\ p \notin PathsOf(b, "insert") \cup PathsOf(b, "delete")
                /\ Front(p) \in DOMAIN index \cup PathsOf(b, "insert")
                => Ordered(c.ops)
  <1> DEFINE o == [kind |-> "insert", path |-> p, element |-> element]
             ops == Append(b.ops, o)
             c == Insert(b, p, element)
             n == Len(b.ops)
  <1>1. o \in Op /\ o.kind = "insert" /\ o.path = p /\ o.element = element
    BY DEF Op
  <1>2. /\ b.ops \in Seq(Op) /\ n \in Nat /\ DOMAIN b.ops = 1 .. n
        /\ \A m \in DOMAIN b.ops : b.ops[m].kind \in {"insert", "delete"}
    BY BatchType
  <1>3. c.ops = ops /\ c.failed = b.failed /\ c \in [ops : {ops}, failed : {b.failed}]
    BY DEF Insert, Batch
  <1> HIDE DEF o, c
  <1>4. /\ ops \in Seq(Op) /\ Len(ops) = n + 1 /\ ops[n + 1] = o
        /\ \A m \in 1 .. n : ops[m] = b.ops[m]
    BY <1>1, <1>2, AppendProperties
  <1> HIDE DEF ops
  <1>5. DOMAIN ops = 1 .. n + 1
    BY <1>4, LenProperties
  <1> HIDE DEF n
  <1>6. c \in Batch
    BY <1>3, <1>4 DEF Batch
  <1>7. \A m \in 1 .. n + 1 : m \in 1 .. n \/ m = n + 1
    BY <1>2
  <1>12. \A kind, q : q \in PathsOf(c, kind) <=>
           \E m \in 1 .. n + 1 : ops[m].kind = kind /\ ops[m].path = q
    BY <1>3, <1>5 DEF PathsOf
  <1>13. \A kind, q : q \in PathsOf(b, kind) <=>
           \E m \in 1 .. n : b.ops[m].kind = kind /\ b.ops[m].path = q
    BY <1>2 DEF PathsOf
  <1>8. PathsOf(c, "insert") = PathsOf(b, "insert") \cup {p}
    <2>1. \A q : q \in PathsOf(c, "insert") => q \in PathsOf(b, "insert") \/ q = p
      BY <1>1, <1>4, <1>7, <1>12, <1>13
    <2>2. \A q : q \in PathsOf(b, "insert") => q \in PathsOf(c, "insert")
      <3> SUFFICES ASSUME NEW q, NEW m \in 1 .. n, b.ops[m].kind = "insert", b.ops[m].path = q
                   PROVE  q \in PathsOf(c, "insert")
        BY <1>13
      <3>1. m \in 1 .. n + 1
        BY <1>2
      <3> QED
        BY <1>4, <1>12, <3>1
    <2>3. p \in PathsOf(c, "insert")
      <3>1. n + 1 \in DOMAIN ops
        BY <1>2, <1>5
      <3> QED
        BY <1>1, <1>4, <1>5, <1>12, <3>1
    <2> QED
      BY <2>1, <2>2, <2>3
  <1>9. PathsOf(c, "delete") = PathsOf(b, "delete")
    <2>1. ASSUME NEW q \in PathsOf(c, "delete") PROVE q \in PathsOf(b, "delete")
      <3>1. PICK m \in 1 .. n + 1 : ops[m].kind = "delete" /\ ops[m].path = q
        BY <1>12, <2>1
      <3>2. m \in 1 .. n
        BY <1>1, <1>4, <1>7, <3>1
      <3> QED
        BY <1>4, <1>13, <3>1, <3>2
    <2>2. \A q : q \in PathsOf(b, "delete") => q \in PathsOf(c, "delete")
      <3> SUFFICES ASSUME NEW q, NEW m \in 1 .. n, b.ops[m].kind = "delete", b.ops[m].path = q
                   PROVE  q \in PathsOf(c, "delete")
        BY <1>13
      <3>1. m \in 1 .. n + 1
        BY <1>2
      <3> QED
        BY <1>4, <1>12, <3>1
    <2> QED
      BY <2>1, <2>2
  <1>10. ASSUME NEW F, NEW id, Writes(b.ops, F, id), element = IF p \in F THEN id ELSE Tree
         PROVE  Writes(c.ops, F, id)
    BY <1>1, <1>2, <1>3, <1>4, <1>5, <1>7, <1>10 DEF Writes
  <1>11. ASSUME Ordered(b.ops), p \notin PathsOf(b, "insert") \cup PathsOf(b, "delete"),
                Front(p) \in DOMAIN index \cup PathsOf(b, "insert")
         PROVE  Ordered(c.ops)
    <2>1. ASSUME NEW m \in DOMAIN ops, NEW k \in DOMAIN ops, ops[m].path = ops[k].path PROVE m = k
      <3>1. \A x \in 1 .. n : b.ops[x].path # p
        BY <1>2, <1>11, PathsOfOps
      <3>2. \A x \in 1 .. n : ops[x].path # ops[n + 1].path
        BY <1>1, <1>4, <3>1
      <3>3. CASE m \in 1 .. n /\ k \in 1 .. n
        BY <1>2, <1>4, <1>11, <2>1, <3>3 DEF Ordered
      <3> QED
        BY <1>5, <1>7, <2>1, <3>2, <3>3
    <2>2. ASSUME NEW m \in DOMAIN ops, ops[m].kind = "insert"
          PROVE  \/ Front(ops[m].path) \in DOMAIN index
                 \/ \E k \in 1 .. m - 1 : ops[k].kind = "insert" /\ ops[k].path = Front(ops[m].path)
      <3>1. CASE m \in 1 .. n
        <4>1. \A k \in 1 .. m - 1 : k \in 1 .. n
          BY <1>2, <3>1
        <4>2. \/ Front(b.ops[m].path) \in DOMAIN index
              \/ \E k \in 1 .. m - 1 : /\ b.ops[k].kind = "insert"
                                       /\ b.ops[k].path = Front(b.ops[m].path)
          <5>1. b.ops[m].kind = "insert" /\ m \in DOMAIN b.ops
            BY <1>2, <1>4, <2>2, <3>1
          <5> QED
            BY <1>11, <5>1 DEF Ordered
        <4> QED
          BY <1>4, <3>1, <4>1, <4>2
      <3>2. CASE m = n + 1 /\ Front(p) \in PathsOf(b, "insert")
        <4>1. PICK k \in 1 .. n : b.ops[k].kind = "insert" /\ b.ops[k].path = Front(p)
          BY <1>2, <3>2, PathsOfOps
        <4>2. k \in 1 .. m - 1
          BY <1>2, <3>2
        <4>3. ops[k].kind = "insert" /\ ops[k].path = Front(ops[m].path)
          BY <1>1, <1>4, <3>2, <4>1
        <4> QED
          BY <4>2, <4>3
      <3>3. CASE m = n + 1 /\ Front(p) \in DOMAIN index
        BY <1>1, <1>4, <3>3
      <3> QED
        BY <1>5, <1>7, <1>11, <3>1, <3>2, <3>3
    <2>3. ASSUME NEW m \in DOMAIN ops, ops[m].kind = "delete",
                 NEW q \in Children(DOMAIN index, ops[m].path)
          PROVE  \E k \in 1 .. m - 1 : ops[k].kind = "delete" /\ ops[k].path = q
      <3>1. m \in 1 .. n
        BY <1>1, <1>4, <1>5, <1>7, <2>3
      <3>2. \A k \in 1 .. m - 1 : k \in 1 .. n
        BY <1>2, <3>1
      <3>3. \E k \in 1 .. m - 1 : b.ops[k].kind = "delete" /\ b.ops[k].path = q
        <4>1. /\ b.ops[m].kind = "delete" /\ m \in DOMAIN b.ops
              /\ q \in Children(DOMAIN index, b.ops[m].path)
          BY <1>2, <1>4, <2>3, <3>1
        <4> QED
          BY <1>11, <4>1 DEF Ordered
      <3> QED
        BY <1>4, <3>2, <3>3
    <2> QED
      BY <1>3, <2>1, <2>2, <2>3 DEF Ordered
  <1> QED
    BY <1>3, <1>6, <1>8, <1>9, <1>10, <1>11 DEF c

(* Adding deletions, each after those of all that is in its path. *)
LEMMA DeleteOps ==
  ASSUME NEW b \in Batch, NEW list \in Seq(Paths),
         \A m, n \in 1 .. Len(list) : list[m] = list[n] => m = n,
         \A n \in 1 .. Len(list) : list[n] \notin PathsOf(b, "insert") \cup PathsOf(b, "delete"),
         \A n \in 1 .. Len(list) : \A q \in Children(DOMAIN index, list[n]) :
           q \in PathsOf(b, "delete") \/ \E m \in 1 .. n - 1 : list[m] = q
  PROVE  LET c == [b EXCEPT !.ops = @ \o [n \in 1 .. Len(list) |-> DeleteOp(list[n])]]
         IN  /\ c \in Batch /\ c.failed = b.failed
             /\ PathsOf(c, "insert") = PathsOf(b, "insert")
             /\ PathsOf(c, "delete") =
                  PathsOf(b, "delete") \cup {list[n] : n \in 1 .. Len(list)}
             /\ \A F, id : Writes(b.ops, F, id) => Writes(c.ops, F, id)
             /\ Ordered(b.ops) => Ordered(c.ops)
  <1> DEFINE l == Len(list)
             more == [m \in 1 .. l |-> DeleteOp(list[m])]
             ops == b.ops \o more
             c == [b EXCEPT !.ops = ops]
             n == Len(b.ops)
  <1>1. /\ b.ops \in Seq(Op) /\ n \in Nat /\ DOMAIN b.ops = 1 .. n
        /\ \A m \in DOMAIN b.ops : b.ops[m].kind \in {"insert", "delete"}
    BY BatchType
  <1>2. l \in Nat /\ \A m \in 1 .. l : list[m] \in Paths
    BY LenProperties, ElementOfSeq
  <1>3. more \in Seq(Op) /\ Len(more) = l
        /\ \A m \in 1 .. l : more[m].kind = "delete" /\ more[m].path = list[m]
    <2>1. \A m \in 1 .. l : DeleteOp(list[m]) \in Op
      BY <1>2 DEF DeleteOp, Op
    <2> HIDE DEF l
    <2>2. more \in [1 .. l -> Op]
      BY <2>1
    <2>3. more \in Seq(Op)
      BY <1>2, <2>2, SeqDef
    <2>4. Len(more) \in Nat /\ DOMAIN more = 1 .. Len(more) /\ DOMAIN more = 1 .. l
      BY <2>3, LenProperties
    <2>5. \A m \in 1 .. l : more[m].kind = "delete" /\ more[m].path = list[m]
      BY DEF DeleteOp
    <2> HIDE DEF more
    <2>6. Len(more) = l
      BY <1>2, <2>4, SameSegment
    <2> QED
      BY <2>3, <2>5, <2>6
  <1>4. c.ops = ops /\ c.failed = b.failed /\ c \in [ops : {ops}, failed : {b.failed}]
    BY DEF Batch
  <1> HIDE DEF c, more
  <1>5. /\ ops \in Seq(Op) /\ Len(ops) = n + l
        /\ \A m \in 1 .. n : ops[m] = b.ops[m]
        /\ \A m \in 1 .. l : ops[n + m] = more[m]
    <2> HIDE DEF Op, l
    <2>1. b.ops \in Seq(Op) /\ more \in Seq(Op)
      BY <1>1, <1>3
    <2>2. b.ops \o more \in Seq(Op) /\ Len(b.ops \o more) = Len(b.ops) + Len(more)
      BY <2>1, ConcatParts
    <2>3. \A m \in 1 .. Len(b.ops) : (b.ops \o more)[m] = b.ops[m]
      BY <2>1, ConcatParts
    <2>4. \A m \in 1 .. Len(more) : (b.ops \o more)[Len(b.ops) + m] = more[m]
      BY <2>1, ConcatParts
    <2> QED
      BY <1>3, <2>2, <2>3, <2>4
  <1> HIDE DEF ops
  <1>6. DOMAIN ops = 1 .. n + l
    BY <1>5, LenProperties
  <1> HIDE DEF n
  <1> HIDE DEF l
  <1>7. c \in Batch
    BY <1>4, <1>5 DEF Batch
  <1>8. \A m \in 1 .. n : m \in 1 .. n + l /\ ops[m] = b.ops[m]
    BY <1>1, <1>2, <1>5
  <1>9. \A m \in 1 .. l : /\ n + m \in 1 .. n + l
                          /\ ops[n + m].kind = "delete" /\ ops[n + m].path = list[m]
    <2> TAKE m \in 1 .. l
    <2>1. n + m \in 1 .. n + l
      BY <1>1, <1>2
    <2> QED
      BY <1>3, <1>5, <2>1
  <1>10. \A m \in 1 .. n + l : m \in 1 .. n \/ \E k \in 1 .. l : m = n + k
    <2> TAKE m \in 1 .. n + l
    <2>1. CASE m <= n
      BY <1>1, <1>2, <2>1
    <2>2. CASE ~(m <= n)
      <3>1. m - n \in 1 .. l /\ m = n + (m - n)
        BY <1>1, <1>2, <2>2
      <3> QED
        BY <3>1
    <2> QED
      BY <2>1, <2>2
  <1>15. \A kind, q : q \in PathsOf(c, kind) <=>
           \E m \in 1 .. n + l : ops[m].kind = kind /\ ops[m].path = q
    BY <1>4, <1>6 DEF PathsOf
  <1>16. \A kind, q : q \in PathsOf(b, kind) <=>
           \E m \in 1 .. n : b.ops[m].kind = kind /\ b.ops[m].path = q
    BY <1>1 DEF PathsOf
  <1>11. PathsOf(c, "insert") = PathsOf(b, "insert")
    <2>1. ASSUME NEW q \in PathsOf(c, "insert") PROVE q \in PathsOf(b, "insert")
      <3>1. PICK m \in 1 .. n + l : ops[m].kind = "insert" /\ ops[m].path = q
        BY <1>15, <2>1
      <3>2. m \in 1 .. n
        BY <1>9, <1>10, <3>1
      <3> QED
        BY <1>8, <1>16, <3>1, <3>2
    <2>2. \A q : q \in PathsOf(b, "insert") => q \in PathsOf(c, "insert")
      BY <1>8, <1>15, <1>16
    <2> QED
      BY <2>1, <2>2
  <1>12. PathsOf(c, "delete") = PathsOf(b, "delete") \cup {list[m] : m \in 1 .. l}
    <2>1. ASSUME NEW q \in PathsOf(c, "delete")
          PROVE  q \in PathsOf(b, "delete") \cup {list[m] : m \in 1 .. l}
      <3>1. PICK m \in 1 .. n + l : ops[m].kind = "delete" /\ ops[m].path = q
        BY <1>15, <2>1
      <3>2. CASE m \in 1 .. n
        BY <1>8, <1>16, <3>1, <3>2
      <3>3. CASE \E k \in 1 .. l : m = n + k
        BY <1>9, <3>1, <3>3
      <3> QED
        BY <1>10, <3>2, <3>3
    <2>2. \A q : q \in PathsOf(b, "delete") => q \in PathsOf(c, "delete")
      BY <1>8, <1>15, <1>16
    <2>3. \A m \in 1 .. l : list[m] \in PathsOf(c, "delete")
      BY <1>9, <1>15
    <2> QED
      BY <2>1, <2>2, <2>3
  <1>13. ASSUME NEW F, NEW id, Writes(b.ops, F, id) PROVE Writes(c.ops, F, id)
    <2> SUFFICES ASSUME NEW m \in 1 .. n + l, ops[m].kind = "insert"
                 PROVE  ops[m].element = IF ops[m].path \in F THEN id ELSE Tree
      BY <1>4, <1>6 DEF Writes
    <2>1. m \in 1 .. n
      BY <1>9, <1>10
    <2> QED
      BY <1>1, <1>8, <1>13, <2>1 DEF Writes
  <1>14. ASSUME Ordered(b.ops) PROVE Ordered(c.ops)
    <2>1. ASSUME NEW m \in DOMAIN ops, NEW k \in DOMAIN ops, ops[m].path = ops[k].path PROVE m = k
      <3>1. \A x \in 1 .. n :
              b.ops[x].path \in PathsOf(b, "insert") \cup PathsOf(b, "delete")
        BY <1>1, PathsOfOps
      <3>2. \A x \in 1 .. n, y \in 1 .. l : ops[x].path # ops[n + y].path
        BY <1>8, <1>9, <3>1 DEF l
      <3>3. CASE m \in 1 .. n /\ k \in 1 .. n
        BY <1>1, <1>8, <1>14, <2>1, <3>3 DEF Ordered
      <3>4. ASSUME NEW x \in 1 .. l, NEW y \in 1 .. l, m = n + x, k = n + y PROVE m = k
        <4>1. list[x] = list[y]
          BY <1>9, <2>1, <3>4
        <4>2. x = y
          BY <4>1 DEF l
        <4> QED
          BY <3>4, <4>2
      <3> QED
        BY <1>6, <1>10, <2>1, <3>2, <3>3, <3>4
    <2>2. ASSUME NEW m \in DOMAIN ops, ops[m].kind = "insert"
          PROVE  \/ Front(ops[m].path) \in DOMAIN index
                 \/ \E k \in 1 .. m - 1 : ops[k].kind = "insert" /\ ops[k].path = Front(ops[m].path)
      <3>1. m \in 1 .. n
        BY <1>6, <1>9, <1>10, <2>2
      <3>2. \A k \in 1 .. m - 1 : k \in 1 .. n
        BY <1>1, <3>1
      <3>3. \/ Front(b.ops[m].path) \in DOMAIN index
            \/ \E k \in 1 .. m - 1 : /\ b.ops[k].kind = "insert"
                                     /\ b.ops[k].path = Front(b.ops[m].path)
        <4>1. b.ops[m].kind = "insert" /\ m \in DOMAIN b.ops
          BY <1>1, <1>8, <2>2, <3>1
        <4> QED
          BY <1>14, <4>1 DEF Ordered
      <3> QED
        BY <1>8, <3>1, <3>2, <3>3
    <2>3. ASSUME NEW m \in DOMAIN ops, ops[m].kind = "delete",
                 NEW q \in Children(DOMAIN index, ops[m].path)
          PROVE  \E k \in 1 .. m - 1 : ops[k].kind = "delete" /\ ops[k].path = q
      <3>1. CASE m \in 1 .. n
        <4>1. \A k \in 1 .. m - 1 : k \in 1 .. n
          BY <1>1, <3>1
        <4>2. \E k \in 1 .. m - 1 : b.ops[k].kind = "delete" /\ b.ops[k].path = q
          <5>1. /\ b.ops[m].kind = "delete" /\ m \in DOMAIN b.ops
                /\ q \in Children(DOMAIN index, b.ops[m].path)
            BY <1>1, <1>8, <2>3, <3>1
          <5> QED
            BY <1>14, <5>1 DEF Ordered
        <4> QED
          BY <1>8, <4>1, <4>2
      <3>2. ASSUME NEW x \in 1 .. l, m = n + x
            PROVE  \E k \in 1 .. m - 1 : ops[k].kind = "delete" /\ ops[k].path = q
        <4>1. q \in Children(DOMAIN index, list[x])
          BY <1>9, <2>3, <3>2
        <4>2. CASE q \in PathsOf(b, "delete")
          <5>1. PICK k \in 1 .. n : b.ops[k].kind = "delete" /\ b.ops[k].path = q
            BY <1>1, <4>2, PathsOfOps
          <5>2. k \in 1 .. m - 1
            BY <1>1, <1>2, <3>2
          <5> QED
            BY <1>8, <5>1, <5>2
        <4>3. ASSUME NEW y \in 1 .. x - 1, list[y] = q
              PROVE  \E k \in 1 .. m - 1 : ops[k].kind = "delete" /\ ops[k].path = q
          <5>1. y \in 1 .. l /\ n + y \in 1 .. m - 1
            BY <1>1, <1>2, <3>2
          <5> QED
            BY <1>9, <4>3, <5>1
        <4>4. q \in PathsOf(b, "delete") \/ \E y \in 1 .. x - 1 : list[y] = q
          BY <4>1 DEF l
        <4> QED
          BY <4>2, <4>3, <4>4
      <3> QED
        BY <1>6, <1>10, <2>3, <3>1, <3>2
    <2> HIDE DEF ops
    <2>4. Ordered(ops)
      BY <2>1, <2>2, <2>3 DEF Ordered
    <2> QED
      BY <1>4, <2>4
  <1> QED
    BY <1>4, <1>7, <1>11, <1>12, <1>13, <1>14 DEF c, ops, more, l
-----------------------------------------------------------------------------
(* The trees and entries that go when the entries in R go from those in E.  *)
Gone(E, R) == {p \in DOMAIN index : Len(p) >= 2 /\ \A q \in E : Leads(p, q) => q \in R}

(* A batch on its way: it inserts what is missing on the paths to T and      *)
(* deletes what goes with R, except what is on the paths to F, the entries   *)
(* of the document id when the operation is done.                            *)
Shape(b, E, T, R, F, id) ==
  /\ b \in Batch /\ Ordered(b.ops) /\ Writes(b.ops, F, id)
  /\ PathsOf(b, "insert") = Above(T) \ DOMAIN index
  /\ PathsOf(b, "delete") = Gone(E, R) \ Above(F)

LEMMA AboveUnion ==
  ASSUME NEW S, NEW T
  PROVE  Above(S \cup T) = Above(S) \cup Above(T)
  BY DEF Above

(* Only what is above the targets counts. *)
LEMMA SameTargets ==
  ASSUME NEW b, NEW E, NEW T, NEW U, NEW R, NEW F, NEW id, Shape(b, E, T, R, F, id),
         Above(T) \ DOMAIN index = Above(U) \ DOMAIN index
  PROVE  Shape(b, E, U, R, F, id)
  BY DEF Shape

LEMMA ShapeOfNone ==
  ASSUME DistinctIndices, NEW docs \in Docs, Fits(index, docs), NEW F, NEW id
  PROVE  Shape(NewBatch, EntriesOf(docs), {}, {}, F, id)
  <1>1. NewBatch \in Batch
    BY EmptySeq DEF Batch, NewBatch
  <1>2. NewBatch.ops = <<>> /\ DOMAIN NewBatch.ops = {}
    BY DEF NewBatch
  <1>3. Ordered(NewBatch.ops) /\ Writes(NewBatch.ops, F, id)
    BY <1>2 DEF Ordered, Writes
  <1>4. \A kind : PathsOf(NewBatch, kind) = {}
    BY <1>2 DEF PathsOf
  <1>5. Above({}) = {}
    BY DEF Above
  <1>6. Gone(EntriesOf(docs), {}) = {}
    <2> SUFFICES ASSUME NEW p \in Gone(EntriesOf(docs), {}) PROVE FALSE
      OBVIOUS
    <2>1. p \in DOMAIN index /\ Len(p) >= 2 /\ \A q \in EntriesOf(docs) : ~Leads(p, q)
      BY DEF Gone
    <2>2. p \in Paths
      BY <2>1, FitsForest
    <2>3. Len(p) # 1
      BY <2>1, <2>2, PathType
    <2>4. \E q \in EntriesOf(docs) : Leads(p, q)
      BY <2>1, <2>3, FitsForest
    <2> QED
      BY <2>1, <2>4
  <1> QED
    BY <1>1, <1>3, <1>4, <1>5, <1>6 DEF Shape

(* A path that is there, or whose insertion is in the batch. *)
LEMMA TargetIsThere ==
  ASSUME DistinctIndices, NEW docs \in Docs, Fits(index, docs),
         NEW T \in SUBSET Paths, NEW p \in Paths, p \in DOMAIN index \cup Above(T)
  PROVE  Above(T \cup {p}) \ DOMAIN index = Above(T) \ DOMAIN index
  <1>1. Above(T \cup {p}) = Above(T) \cup Above({p})
    BY AboveUnion
  <1>2. ASSUME NEW q \in Above({p}) PROVE q \in DOMAIN index \cup Above(T)
    <2>1. q \in Paths /\ Len(q) >= 1 /\ Leads(q, p)
      BY DEF Above
    <2>2. CASE p \in DOMAIN index
      BY <2>1, <2>2, FitsForest
    <2>3. CASE p \in Above(T)
      BY <2>1, <2>3, AboveAbove
    <2> QED
      BY <2>2, <2>3
  <1> QED
    BY <1>1, <1>2

(* Inserting a path whose parent is there or inserted already. *)
LEMMA InsertShape ==
  ASSUME DistinctIndices, NEW docs \in Docs, Fits(index, docs),
         NEW b, NEW E, NEW T \in SUBSET Paths, NEW R, NEW F, NEW id \in Ids,
         Shape(b, E, T, R, F, id),
         NEW p \in Paths, Len(p) >= 2, p \notin DOMAIN index, p \notin Above(T),
         Front(p) \in DOMAIN index \cup Above(T),
         NEW element \in Ids \cup {Tree}, element = IF p \in F THEN id ELSE Tree
  PROVE  Shape(Insert(b, p, element), E, T \cup {p}, R, F, id)
  <1> DEFINE c == Insert(b, p, element)
  <1>1. /\ b \in Batch /\ Ordered(b.ops) /\ Writes(b.ops, F, id)
        /\ PathsOf(b, "insert") = Above(T) \ DOMAIN index
        /\ PathsOf(b, "delete") = Gone(E, R) \ Above(F)
    BY DEF Shape
  <1>2. p \notin PathsOf(b, "insert") \cup PathsOf(b, "delete")
    BY <1>1 DEF Gone
  <1>3. Front(p) \in DOMAIN index \cup PathsOf(b, "insert")
    BY <1>1
  <1>4. /\ c \in Batch
        /\ PathsOf(c, "insert") = PathsOf(b, "insert") \cup {p}
        /\ PathsOf(c, "delete") = PathsOf(b, "delete")
        /\ Writes(c.ops, F, id) /\ Ordered(c.ops)
    <2>1. c \in Batch /\ PathsOf(c, "insert") = PathsOf(b, "insert") \cup {p}
      BY <1>1, InsertOp
    <2>2. PathsOf(c, "delete") = PathsOf(b, "delete")
      BY <1>1, InsertOp
    <2>3. Writes(c.ops, F, id)
      BY <1>1, InsertOp
    <2>4. Ordered(c.ops)
      BY <1>1, <1>2, <1>3, InsertOp
    <2> QED
      BY <2>1, <2>2, <2>3, <2>4
  <1> HIDE DEF c
  <1>5. Above(T \cup {p}) \ DOMAIN index = (Above(T) \ DOMAIN index) \cup {p}
    <2>1. Front(p) \in Paths /\ Len(Front(p)) = Len(p) - 1 /\ Leads(Front(p), p) /\ Len(p) \in Nat
      BY FrontOfPath, PathType
    <2>2. p \in Above({p})
      BY LeadsItself DEF Above
    <2>3. ASSUME NEW q \in Above({p}), q # p PROVE q \in DOMAIN index \cup Above(T)
      <3>1. q \in Paths /\ Len(q) >= 1 /\ Leads(q, p) /\ Len(q) \in Nat
        BY PathType DEF Above
      <3>2. Len(q) <= Len(Front(p))
        <4>1. Len(q) # Len(p)
          BY <2>3, <3>1, LeadsSameLength
        <4>2. Len(q) <= Len(p)
          BY <3>1 DEF Leads
        <4> QED
          BY <2>1, <3>1, <4>1, <4>2
      <3>3. Leads(q, Front(p))
        BY <2>1, <3>1, <3>2, LeadsInOrder
      <3>4. CASE Front(p) \in DOMAIN index
        BY <3>1, <3>3, <3>4, FitsForest
      <3>5. CASE Front(p) \in Above(T)
        BY <3>1, <3>3, <3>5, AboveAbove
      <3> QED
        BY <3>4, <3>5
    <2>4. Above(T \cup {p}) = Above(T) \cup Above({p})
      BY AboveUnion
    <2> QED
      BY <2>2, <2>3, <2>4
  <1>6. PathsOf(c, "insert") = Above(T \cup {p}) \ DOMAIN index
    BY <1>1, <1>4, <1>5
  <1>7. PathsOf(c, "delete") = Gone(E, R) \ Above(F)
    BY <1>1, <1>4
  <1>8. Shape(c, E, T \cup {p}, R, F, id)
    BY <1>4, <1>6, <1>7 DEF Shape
  <1> QED
    BY <1>8 DEF c

(* A tree on the way to an entry. *)
LEMMA TreeOnceShape ==
  ASSUME DistinctIndices, NEW docs \in Docs, Fits(index, docs),
         NEW b, NEW E, NEW T \in SUBSET Paths, NEW R, NEW F, NEW id \in Ids,
         Shape(b, E, T, R, F, id),
         NEW p \in Paths, Len(p) >= 2, p \notin F, Front(p) \in DOMAIN index \cup Above(T)
  PROVE  Shape(TreeOnce(b, p), E, T \cup {p}, R, F, id)
  <1>1. PathsOf(b, "insert") = Above(T) \ DOMAIN index
    BY DEF Shape
  <1>2. CASE p \in DOMAIN index \cup Above(T)
    <2>1. TreeOnce(b, p) = b
      BY <1>1, <1>2 DEF TreeOnce, TreeIfNotExists
    <2>2. Shape(b, E, T \cup {p}, R, F, id)
      BY <1>2, TargetIsThere, SameTargets
    <2> QED
      BY <2>1, <2>2
  <1>3. CASE p \notin DOMAIN index /\ p \notin Above(T)
    <2>1. TreeOnce(b, p) = Insert(b, p, Tree)
      BY <1>1, <1>3 DEF TreeOnce, TreeIfNotExists
    <2>2. Tree \in Ids \cup {Tree} /\ Tree = IF p \in F THEN id ELSE Tree
      OBVIOUS
    <2>3. p \notin DOMAIN index /\ p \notin Above(T)
      BY <1>3
    <2>4. Shape(Insert(b, p, Tree), E, T \cup {p}, R, F, id)
      BY <2>2, <2>3, InsertShape
    <2> QED
      BY <2>1, <2>4
  <1> QED
    BY <1>2, <1>3
-----------------------------------------------------------------------------
LEMMA TreeOnceType ==
  ASSUME NEW b \in Batch, NEW p \in Paths
  PROVE  TreeOnce(b, p) \in Batch /\ TreeOnce(b, p).failed = b.failed
  <1>1. Tree \in Ids \cup {Tree}
    OBVIOUS
  <1>2. Insert(b, p, Tree) \in Batch /\ Insert(b, p, Tree).failed = b.failed
    BY <1>1, InsertOp
  <1> QED
    BY <1>2 DEF TreeOnce, TreeIfNotExists

(* The trees on a path are inserted one after the other. *)
LEMMA TreesRun ==
  ASSUME NEW batch \in Batch, NEW path \in Paths, NEW from \in 1 .. Len(path)
  PROVE  \E run : /\ run \in [0 .. Len(path) + 1 - from -> Batch]
                  /\ run[0] = batch /\ run[Len(path) + 1 - from] = Trees(batch, path, from)
                  /\ \A k \in 1 .. Len(path) + 1 - from :
                       run[k] = TreeOnce(run[k - 1], SubSeq(path, 1, k + from - 1))
  <1> DEFINE n == Len(path) + 1 - from
             seq == [k \in 1 .. n |-> k + from - 1]
             At(m) == SubSeq(path, 1, m)
             F == [x \in (1 .. n) \X Batch |-> TreeOnce(x[2], At(seq[x[1]]))]
             Eq(g) == g = [s \in SUBSET (1 .. n) |->
                             IF s = {} THEN batch
                             ELSE TreeOnce(g[s \ {Max(s)}], At(seq[Max(s)]))]
  <1>1. /\ n \in Nat /\ DOMAIN seq = 1 .. n
        /\ \A k \in 1 .. n : seq[k] = k + from - 1 /\ seq[k] \in 0 .. Len(path)
    BY PathType
  <1>2. Trees(batch, path, from) = (CHOOSE g : Eq(g))[1 .. n]
    BY <1>1 DEF Trees, FoldLeft, MapThenFoldSet
  <1> HIDE DEF seq
  <1>3. \A k \in 1 .. n : At(seq[k]) \in Paths
    BY <1>1, PrefixOfPath
  <1> HIDE DEF At
  <1>4. \A k \in 1 .. n, b \in Batch :
          F[<<k, b>>] = TreeOnce(b, At(seq[k])) /\ F[<<k, b>>] \in Batch
    <2> TAKE k \in 1 .. n, b \in Batch
    <2>1. F[<<k, b>>] = TreeOnce(b, At(seq[k]))
      OBVIOUS
    <2> QED
      BY <1>3, <2>1, TreeOnceType
  <1>5. F \in [(1 .. n) \X Batch -> Batch]
    BY <1>4
  <1> HIDE DEF F, n, Batch
  <1>6. \A s \in SUBSET (1 .. n) : s # {} => Max(s) \in 1 .. n
    BY <1>1, GreatestElement
  <1>7. Eq(CHOOSE g : Eq(g))
    <2>1. PICK g \in [SUBSET (1 .. n) -> Batch] : Folded(g, F, batch, n)
      BY <1>1, <1>5, FoldExists
    <2>2. Eq(g)
      BY <1>4, <1>6, <2>1 DEF Folded
    <2> QED
      BY <2>2, Zenon
  <1> DEFINE g == CHOOSE h : Eq(h)
  <1>8. FoldsIn(g, F, batch, n, Batch)
    <2> HIDE DEF g
    <2>1. g = [s \in SUBSET (1 .. n) |->
                 IF s = {} THEN batch ELSE TreeOnce(g[s \ {Max(s)}], At(seq[Max(s)]))]
      BY <1>7, Zenon DEF g
    <2>2. \A s \in SUBSET (1 .. n) :
            g[s] = IF s = {} THEN batch ELSE TreeOnce(g[s \ {Max(s)}], At(seq[Max(s)]))
      BY <2>1, Zenon
    <2>3. {} \in SUBSET (1 .. n)
      OBVIOUS
    <2> QED
      BY <1>4, <1>6, <2>2, <2>3, Zenon DEF FoldsIn
  <1> HIDE DEF g, Eq
  <1>9. PICK run : IsRun(run, F, batch, n, Batch, g[1 .. n])
    BY <1>1, <1>5, <1>8, FoldSteps, Zenon
  <1>10. /\ run \in [0 .. n -> Batch] /\ run[0] = batch /\ run[n] = g[1 .. n]
         /\ \A k \in 1 .. n : run[k] = F[<<k, run[k - 1]>>]
    BY <1>9 DEF IsRun
  <1>11. \A k \in 1 .. n : run[k] = TreeOnce(run[k - 1], At(k + from - 1))
    <2> TAKE k \in 1 .. n
    <2>1. k - 1 \in 0 .. n
      BY <1>1
    <2>2. run[k - 1] \in Batch
      BY <1>10, <2>1
    <2>3. run[k] = TreeOnce(run[k - 1], At(seq[k]))
      BY <1>4, <1>10, <2>2
    <2> QED
      BY <1>1, <2>3
  <1>12. run[n] = Trees(batch, path, from)
    BY <1>2, <1>10 DEF g
  <1> QED
    BY <1>10, <1>11, <1>12 DEF n, At

(* The trees on a path one after the other. *)
LEMMA NextOnPath ==
  ASSUME NEW q \in Paths, NEW m \in 0 .. Len(q) - 1
  PROVE  /\ SubSeq(q, 1, m) \in Paths /\ Len(SubSeq(q, 1, m)) = m
         /\ SubSeq(q, 1, m + 1) \in Paths /\ Len(SubSeq(q, 1, m + 1)) = m + 1
         /\ Leads(SubSeq(q, 1, m), SubSeq(q, 1, m + 1))
         /\ Front(SubSeq(q, 1, m + 1)) = SubSeq(q, 1, m)
  <1> DEFINE a == SubSeq(q, 1, m)
             c == SubSeq(q, 1, m + 1)
  <1>1. Len(q) \in Nat /\ m \in 0 .. Len(q) /\ m + 1 \in 0 .. Len(q) /\ m \in Nat
    BY PathType
  <1>2. a \in Paths /\ Len(a) = m /\ Leads(a, q)
    BY <1>1, PrefixOfPath
  <1>3. c \in Paths /\ Len(c) = m + 1 /\ Leads(c, q)
    BY <1>1, PrefixOfPath
  <1> HIDE DEF a, c
  <1>4. Leads(a, c)
    <2>1. Len(a) <= Len(c)
      BY <1>1, <1>2, <1>3
    <2> QED
      BY <1>2, <1>3, <2>1, LeadsInOrder
  <1>5. Front(c) = a
    <2>1. Len(c) = Len(a) + 1
      BY <1>2, <1>3
    <2> QED
      BY <1>2, <1>3, <1>4, <2>1, ChildOfPath
  <1> QED
    BY <1>2, <1>3, <1>4, <1>5 DEF a, c

LEMMA WholePath ==
  ASSUME NEW q \in Paths
  PROVE  SubSeq(q, 1, Len(q)) = q
  BY LeadsItself, LeadsIsPrefix

(* The trees on the path of a document. *)
LEMMA TreesShape ==
  ASSUME DistinctIndices, NEW docs \in Docs, Fits(index, docs),
         NEW b, NEW E, NEW T \in SUBSET Paths, NEW R, NEW F, NEW id \in Ids,
         Shape(b, E, T, R, F, id), NEW d \in Documents, F \subseteq EntriesFor(id, d),
         NEW i \in DOMAIN Indices, NEW from \in 2 .. Len(PathIn(i, d)),
         SubSeq(PathIn(i, d), 1, from - 1) \in DOMAIN index
  PROVE  /\ Shape(Trees(b, PathIn(i, d), from), E, T \cup {PathIn(i, d)}, R, F, id)
         /\ Trees(b, PathIn(i, d), from).failed = b.failed
  <1> DEFINE path == PathIn(i, d)
             n == Len(path) + 1 - from
             At(m) == SubSeq(path, 1, m)
  <1>1. path \in Paths /\ Len(path) \in Nat
    BY PathInType, PathType
  <1>2. n \in Nat /\ from - 1 \in Nat /\ from \in 1 .. Len(path) /\ from \in Nat
    BY <1>1
  <1>3. b \in Batch
    BY DEF Shape
  <1>4. PICK run : /\ run \in [0 .. n -> Batch]
                   /\ run[0] = b /\ run[n] = Trees(b, path, from)
                   /\ \A k \in 1 .. n : run[k] = TreeOnce(run[k - 1], At(k + from - 1))
    BY <1>1, <1>2, <1>3, TreesRun
  <1> DEFINE Good == {k \in 0 .. n : /\ Shape(run[k], E, T \cup {At(k + from - 1)}, R, F, id)
                                     /\ run[k].failed = b.failed}
  <1>5. 0 \in Good
    <2>1. 0 \in 0 .. n /\ 0 + from - 1 = from - 1 /\ from - 1 \in 0 .. Len(path)
      BY <1>1, <1>2
    <2>2. At(from - 1) \in Paths
      BY <1>1, <2>1, PrefixOfPath
    <2>3. Shape(b, E, T \cup {At(from - 1)}, R, F, id)
      BY <2>2, TargetIsThere, SameTargets
    <2> QED
      BY <1>4, <2>1, <2>3
  <1>6. ASSUME NEW k \in 0 .. n - 1, k \in Good PROVE k + 1 \in Good
    <2> DEFINE a == At(k + from - 1)
               c == At(k + from)
    <2>1. /\ k + 1 \in 1 .. n /\ k + 1 \in 0 .. n /\ k + 1 - 1 = k /\ k + 1 + from - 1 = k + from
          /\ k + from - 1 \in 0 .. Len(path) - 1 /\ (k + from - 1) + 1 = k + from
          /\ k + from - 1 >= 1 /\ k + from - 1 \in Nat
      BY <1>1, <1>2
    <2>2. /\ a \in Paths /\ Len(a) = k + from - 1 /\ c \in Paths /\ Len(c) = k + from
          /\ Leads(a, c) /\ Front(c) = a
      BY <1>1, <2>1, NextOnPath
    <2>3. c \notin F
      <3> SUFFICES ASSUME c \in F PROVE FALSE
        OBVIOUS
      <3>1. PICK j \in DOMAIN Indices : c = EntryAt(j, d, id)
        BY DEF EntriesFor
      <3>2. Leads(c, path)
        <4>1. k + from \in 0 .. Len(path)
          BY <1>1, <2>1
        <4> QED
          BY <1>1, <4>1, PrefixOfPath
      <3>3. /\ AtZero(j, d) \in Paths /\ EntryAt(j, d, id) \in Paths
            /\ Leads(AtZero(j, d), EntryAt(j, d, id))
        BY AtZeroType, EntryType
      <3> HIDE DEF c
      <3>4. Leads(AtZero(j, d), path)
        BY <1>1, <3>1, <3>2, <3>3, LeadsOn
      <3> QED
        BY <3>4, NoZeroOnPath
    <2>4. Shape(run[k], E, T \cup {a}, R, F, id) /\ run[k].failed = b.failed
      BY <1>6
    <2>5. run[k + 1] = TreeOnce(run[k], c)
      <3>1. run[k + 1] = TreeOnce(run[k + 1 - 1], At(k + 1 + from - 1))
        BY <1>4, <2>1
      <3> QED
        BY <2>1, <3>1
    <2> HIDE DEF a, c
    <2>6. Front(c) \in Above(T \cup {a})
      BY <2>1, <2>2, LeadsItself DEF Above
    <2>7. Len(c) >= 2
      BY <2>1, <2>2
    <2>8. T \cup {a} \in SUBSET Paths
      BY <2>2
    <2>9. /\ Shape(run[k + 1], E, (T \cup {a}) \cup {c}, R, F, id)
          /\ run[k + 1].failed = run[k].failed
      <3> DEFINE U == T \cup {a}
                 r == run[k]
      <3>1. U \in SUBSET Paths /\ Front(c) \in DOMAIN index \cup Above(U)
        BY <2>6, <2>8
      <3>2. Shape(r, E, U, R, F, id)
        BY <2>4
      <3> HIDE DEF U, r
      <3>3. c \in Paths
        BY <2>2
      <3>4. Shape(TreeOnce(r, c), E, U \cup {c}, R, F, id)
        BY <2>3, <2>7, <3>1, <3>2, <3>3, TreeOnceShape
      <3>5. TreeOnce(r, c).failed = r.failed
        <4>1. r \in Batch
          BY <3>2 DEF Shape
        <4> QED
          BY <3>3, <4>1, TreeOnceType
      <3> QED
        BY <2>5, <3>4, <3>5 DEF U, r
    <2>10. Above((T \cup {a}) \cup {c}) = Above(T \cup {c})
      <3>1. Above({a}) \subseteq Above({c})
        BY <2>2, LeadsOn DEF Above
      <3>2. /\ Above((T \cup {a}) \cup {c}) = Above(T \cup {a}) \cup Above({c})
            /\ Above(T \cup {a}) = Above(T) \cup Above({a})
            /\ Above(T \cup {c}) = Above(T) \cup Above({c})
        BY AboveUnion
      <3> QED
        BY <3>1, <3>2
    <2>11. Shape(run[k + 1], E, T \cup {c}, R, F, id)
      BY <2>9, <2>10, SameTargets
    <2>12. k + 1 + from - 1 = k + from
      BY <2>1
    <2> QED
      BY <2>1, <2>4, <2>9, <2>11, <2>12 DEF c
  <1>7. n \in Good
    <2> HIDE DEF Good, n
    <2>1. \A k \in 0 .. n - 1 : k \in Good => k + 1 \in Good
      BY <1>6
    <2>2. \A k \in 0 .. n : k \in Good
      BY <1>2, <1>5, <2>1, SegmentInduction
    <2> QED
      BY <1>2, <2>2
  <1>8. Shape(run[n], E, T \cup {At(n + from - 1)}, R, F, id) /\ run[n].failed = b.failed
    BY <1>7
  <1>9. At(n + from - 1) = path
    <2>1. n + from - 1 = Len(path)
      BY <1>1, <1>2
    <2> QED
      BY <1>1, <2>1, WholePath
  <1> QED
    BY <1>4, <1>8, <1>9

(* The entry of a document, and in an index that is not unique its tree. *)
LEMMA AddEntryShape ==
  ASSUME DistinctIndices, NEW docs \in Docs, Fits(index, docs),
         NEW b, NEW E, NEW T \in SUBSET Paths, NEW R, NEW F, NEW id \in Ids,
         Shape(b, E, T, R, F, id), NEW d \in Documents, F \subseteq EntriesFor(id, d),
         NEW i \in DOMAIN Indices, EntryAt(i, d, id) \in F,
         PathIn(i, d) \in DOMAIN index \cup Above(T), AtZero(i, d) \notin Above(T),
         ~Indices[i].unique => EntryAt(i, d, id) \notin DOMAIN index,
         NEW nulls \in BOOLEAN, Indices[i].unique => ~nulls
  PROVE  Shape(AddEntry(b, Indices[i], d, id, nulls), E, T \cup {EntryAt(i, d, id)}, R, F, id)
  <1> DEFINE z == AtZero(i, d)
             e == EntryAt(i, d, id)
             c == AddEntry(b, Indices[i], d, id, nulls)
  <1>1. /\ z \in Paths /\ Len(z) = 2 * Size(i) + 1 /\ Leads(PathIn(i, d), z)
        /\ PathIn(i, d) \in Paths /\ Len(PathIn(i, d)) = 2 * Size(i)
        /\ Size(i) \in Nat /\ Size(i) >= 1 /\ Indices[i].unique \in BOOLEAN
    BY AtZeroType, PathInType, IndexType
  <1>2. Front(z) = PathIn(i, d) /\ Len(z) >= 2
    BY <1>1, ChildOfPath
  <1>3. e \in Paths /\ Leads(z, e)
        /\ Len(e) = IF Indices[i].unique THEN 2 * Size(i) + 1 ELSE 2 * Size(i) + 2
    BY EntryType
  <1>4. id \in Ids \cup {Tree} /\ Tree \in Ids \cup {Tree}
    OBVIOUS
  <1>5. CASE Indices[i].unique
    <2>1. e = z
      BY <1>5 DEF EntryAt
    <2>2. c = IF z \in DOMAIN index THEN Fail(b) ELSE Insert(b, z, id)
      BY <1>5 DEF AddEntry, AtZero, PathIn
    <2> HIDE DEF c, z, e
    <2>3. CASE z \in DOMAIN index
      <3>1. Shape(b, E, T \cup {z}, R, F, id)
        BY <1>1, <2>3, TargetIsThere, SameTargets
      <3>2. Fail(b) \in Batch /\ Fail(b).ops = b.ops
        BY DEF Shape, Fail, Batch
      <3>3. \A kind : PathsOf(Fail(b), kind) = PathsOf(b, kind)
        BY <3>2 DEF PathsOf
      <3>4. Shape(Fail(b), E, T \cup {z}, R, F, id)
        BY <3>1, <3>2, <3>3 DEF Shape
      <3> QED
        BY <2>1, <2>2, <2>3, <3>4 DEF c, e, z
    <2>4. CASE z \notin DOMAIN index
      <3>1. id = IF z \in F THEN id ELSE Tree
        BY <2>1 DEF e
      <3>2. Front(z) \in DOMAIN index \cup Above(T) /\ z \notin Above(T)
        BY <1>2 DEF z
      <3>3. Shape(Insert(b, z, id), E, T \cup {z}, R, F, id)
        BY <1>1, <1>2, <1>4, <2>4, <3>1, <3>2, InsertShape
      <3> QED
        BY <2>1, <2>2, <2>4, <3>3 DEF c, e, z
    <2> QED
      BY <2>3, <2>4
  <1>6. CASE ~Indices[i].unique
    <2> DEFINE a == TreeIfNotExists(b, z)
    <2>1. e = Append(z, id)
      BY <1>6 DEF EntryAt
    <2>2. c = Insert(a, e, id)
      BY <1>6, <2>1 DEF AddEntry, AtZero, PathIn
    <2>3. z \notin F
      <3> SUFFICES ASSUME z \in F PROVE FALSE
        OBVIOUS
      <3>1. PICK j \in DOMAIN Indices : z = EntryAt(j, d, id)
        BY DEF EntriesFor
      <3>2. Leads(z, EntryAt(j, d, id))
        BY <1>1, <3>1, LeadsItself
      <3>3. i = j
        BY <3>2, ZeroTells
      <3> QED
        BY <1>1, <1>3, <1>6, <3>1, <3>3
    <2> HIDE DEF c, z, e
    <2>4. Shape(a, E, T \cup {z}, R, F, id)
      <3>1. CASE z \in DOMAIN index
        <4>1. Shape(b, E, T \cup {z}, R, F, id)
          BY <1>1, <3>1, TargetIsThere, SameTargets
        <4> QED
          BY <3>1, <4>1 DEF TreeIfNotExists
      <3>2. CASE z \notin DOMAIN index
        <4>1. Tree = IF z \in F THEN id ELSE Tree
          BY <2>3
        <4>2. Front(z) \in DOMAIN index \cup Above(T) /\ z \notin Above(T)
          BY <1>2 DEF z
        <4>3. Shape(Insert(b, z, Tree), E, T \cup {z}, R, F, id)
          BY <1>1, <1>2, <1>4, <3>2, <4>1, <4>2, InsertShape
        <4> QED
          BY <3>2, <4>3 DEF TreeIfNotExists
      <3> QED
        BY <3>1, <3>2
    <2> HIDE DEF a
    <2>5. Len(e) = Len(z) + 1 /\ Len(e) >= 2 /\ ~(Len(e) <= Len(z)) /\ Len(z) >= 1
      BY <1>1, <1>3, <1>6
    <2>6. Front(e) = z
      BY <1>1, <1>3, <2>5, ChildOfPath
    <2> DEFINE U == T \cup {z}
    <2>7. U \in SUBSET Paths
      BY <1>1
    <2>8. Front(e) \in DOMAIN index \cup Above(U)
      BY <1>1, <2>5, <2>6, LeadsItself DEF Above
    <2>9. e \notin Above(U)
      <3>1. e \notin Above(T)
        BY <1>1, <1>3, <2>5, AboveAbove DEF z
      <3>2. e \notin Above({z})
        BY <2>5 DEF Above, Leads
      <3> QED
        BY <3>1, <3>2, AboveUnion
    <2>10. e \notin DOMAIN index /\ id = IF e \in F THEN id ELSE Tree
      BY <1>6 DEF e
    <2>11. Shape(a, E, U, R, F, id)
      BY <2>4
    <2>12. Above(U \cup {e}) = Above(T \cup {e})
      <3>1. Above({z}) \subseteq Above({e})
        BY <1>1, <1>3, LeadsOn DEF Above
      <3>2. /\ Above(U \cup {e}) = Above(U) \cup Above({e})
            /\ Above(U) = Above(T) \cup Above({z})
            /\ Above(T \cup {e}) = Above(T) \cup Above({e})
        BY AboveUnion
      <3> QED
        BY <3>1, <3>2
    <2> HIDE DEF U
    <2>13. Shape(Insert(a, e, id), E, U \cup {e}, R, F, id)
      BY <1>3, <1>4, <2>5, <2>7, <2>8, <2>9, <2>10, <2>11, InsertShape
    <2>14. Shape(c, E, T \cup {e}, R, F, id)
      BY <2>2, <2>12, <2>13, SameTargets
    <2> QED
      BY <2>14 DEF c, e
  <1> QED
    BY <1>1, <1>5, <1>6

(* When adding the entry fails. *)
LEMMA AddEntryFails ==
  ASSUME NEW b \in Batch, NEW i \in DOMAIN Indices, NEW d \in Documents, NEW id \in Ids,
         NEW nulls \in BOOLEAN, Indices[i].unique => ~nulls
  PROVE  /\ AddEntry(b, Indices[i], d, id, nulls) \in Batch
         /\ AddEntry(b, Indices[i], d, id, nulls).failed =
              (b.failed \/ (Indices[i].unique /\ AtZero(i, d) \in DOMAIN index))
  <1> DEFINE z == AtZero(i, d)
  <1>1. /\ z \in Paths /\ Append(z, id) \in Paths /\ Indices[i].unique \in BOOLEAN
    <2>1. z \in Paths
      BY AtZeroType
    <2>2. id \in PathKeys
      BY DEF PathKeys
    <2> QED
      BY <2>1, <2>2, AppendProperties, IndexType DEF Paths
  <1>2. id \in Ids \cup {Tree} /\ Tree \in Ids \cup {Tree}
    OBVIOUS
  <1>3. AddEntry(b, Indices[i], d, id, nulls) =
          IF ~Indices[i].unique THEN Insert(TreeIfNotExists(b, z), Append(z, id), id)
          ELSE IF z \in DOMAIN index THEN Fail(b) ELSE Insert(b, z, id)
    BY <1>1 DEF AddEntry, AtZero, PathIn
  <1> HIDE DEF z
  <1>4. TreeIfNotExists(b, z) \in Batch /\ TreeIfNotExists(b, z).failed = b.failed
    <2>1. Insert(b, z, Tree) \in Batch /\ Insert(b, z, Tree).failed = b.failed
      BY <1>1, <1>2, InsertOp
    <2> QED
      BY <2>1 DEF TreeIfNotExists
  <1> DEFINE a == TreeIfNotExists(b, z)
  <1> HIDE DEF a
  <1>5. a \in Batch /\ a.failed = b.failed
    BY <1>4 DEF a
  <1>6. /\ Insert(a, Append(z, id), id) \in Batch
        /\ Insert(a, Append(z, id), id).failed = a.failed
    BY <1>1, <1>2, <1>5, InsertOp
  <1>7. Insert(b, z, id) \in Batch /\ Insert(b, z, id).failed = b.failed
    BY <1>1, <1>2, InsertOp
  <1>8. Fail(b) \in Batch /\ Fail(b).failed = TRUE
    BY DEF Fail, Batch
  <1>9. b.failed \in BOOLEAN
    BY DEF Batch
  <1>10. CASE ~Indices[i].unique
    BY <1>3, <1>5, <1>6, <1>9, <1>10 DEF a
  <1>11. CASE Indices[i].unique /\ z \in DOMAIN index
    BY <1>3, <1>8, <1>11 DEF z
  <1>12. CASE Indices[i].unique /\ z \notin DOMAIN index
    BY <1>3, <1>7, <1>9, <1>12 DEF z
  <1> QED
    BY <1>10, <1>11, <1>12
-----------------------------------------------------------------------------
(* The upper end of a segment, counted from its last element down. *)
LEMMA CountedDown ==
  ASSUME NEW l \in Nat, NEW D \in SUBSET (2 .. l),
         \A n \in D, m \in 2 .. l : n <= m => m \in D
  PROVE  /\ Cardinality(D) \in Nat
         /\ \A k \in 1 .. Cardinality(D) : l + 1 - k \in D
         /\ \A n \in D : l + 1 - n \in 1 .. Cardinality(D)
  <1>1. CASE D = {}
    <2>1. Cardinality(D) = 0
      BY <1>1, FS_EmptySet
    <2> QED
      BY <1>1, <2>1
  <1>2. CASE D # {}
    <2> DEFINE a == Min(D)
    <2>1. D \in SUBSET Nat
      OBVIOUS
    <2>2. a \in D /\ \A y \in D : a <= y
      BY <1>2, <2>1, LeastElement
    <2> HIDE DEF a
    <2>3. a \in Nat /\ a >= 2 /\ a <= l
      BY <2>2
    <2>4. D = a .. l
      <3>1. ASSUME NEW n \in D PROVE n \in a .. l
        BY <2>2, <2>3, <3>1
      <3>2. ASSUME NEW n \in a .. l PROVE n \in D
        BY <2>2, <2>3, <3>2
      <3> QED
        BY <3>1, <3>2
    <2>5. Cardinality(D) = l - a + 1
      BY <2>3, <2>4, FS_Interval
    <2> QED
      BY <2>3, <2>4, <2>5
  <1> QED
    BY <1>1, <1>2

(* Where the deletion of an entry is to stop for a later insertion, the      *)
(* insertions already there must show it.                                    *)
Shown(T, F, q) ==
  \A p \in Above(F) : Leads(p, q) => \E t \in T : Leads(p, t) /\ ~Leads(q, t) /\ ~Leads(t, q)

(* What the deletion of an entry finds to be empty, and what goes with it. *)
LEMMA EmptiedPrefixes ==
  ASSUME DistinctIndices, NEW docs \in Docs, Fits(index, docs),
         NEW b, NEW T \in SUBSET Paths, NEW R, NEW F \in SUBSET Paths, NEW id,
         Shape(b, EntriesOf(docs), T, R, F, id), Above(T) \subseteq Above(F),
         NEW q \in EntriesOf(docs), Shown(T, F, q), NEW n \in 2 .. Len(q)
  PROVE  /\ (\A m \in n .. Len(q) : BecomesEmpty(b, q, m)) <=>
              SubSeq(q, 1, n) \in Gone(EntriesOf(docs), R \cup {q}) \ Above(F)
  <1> DEFINE E == EntriesOf(docs)
             At(m) == SubSeq(q, 1, m)
  <1>1. q \in Paths /\ E \in SUBSET Paths /\ q \in DOMAIN index /\ Len(q) \in Nat
        /\ n \in Nat /\ n >= 2 /\ n <= Len(q)
    BY EntriesOfType, FitsForest, PathType
  <1>2. /\ b \in Batch /\ PathsOf(b, "insert") = Above(T) \ DOMAIN index
        /\ PathsOf(b, "delete") = Gone(E, R) \ Above(F)
    BY DEF Shape
  <1>3. \A m \in n .. Len(q) : /\ m \in Nat /\ m >= 2 /\ m <= Len(q) /\ m \in 2 .. Len(q)
                               /\ At(m) \in Paths /\ Len(At(m)) = m /\ Leads(At(m), q)
                               /\ At(m) \in DOMAIN index /\ Leads(At(n), At(m))
    <2> TAKE m \in n .. Len(q)
    <2>1. m \in Nat /\ m >= 2 /\ m <= Len(q) /\ m \in 0 .. Len(q) /\ n \in 0 .. Len(q) /\ n <= m
      BY <1>1
    <2>2. At(m) \in Paths /\ Len(At(m)) = m /\ Leads(At(m), q)
      BY <1>1, <2>1, PrefixOfPath
    <2>3. At(n) \in Paths /\ Len(At(n)) = n /\ Leads(At(n), q)
      BY <1>1, <2>1, PrefixOfPath
    <2> HIDE DEF At
    <2>4. Leads(At(n), At(m))
      BY <1>1, <2>1, <2>2, <2>3, LeadsInOrder
    <2>5. At(m) \in DOMAIN index
      BY <1>1, <2>1, <2>2, FitsForest
    <2> QED
      BY <2>1, <2>2, <2>4, <2>5
  <1> HIDE DEF E, At
  <1>4. \A m \in n .. Len(q) : BecomesEmpty(b, q, m) <=>
          (index[At(m)] = Tree =>
             /\ Children(DOMAIN index, At(m)) \subseteq PathsOf(b, "delete") \cup Prefixes(q)
             /\ Children(PathsOf(b, "insert"), At(m)) = {})
    BY DEF BecomesEmpty, At
  <1>5. \A S \in SUBSET Paths, m \in n .. Len(q) : \A c :
          c \in Children(S, At(m)) <=> c \in S /\ Len(c) = m + 1 /\ Leads(At(m), c)
    BY <1>3, ChildOfPath DEF Children
  <1>6. DOMAIN index \in SUBSET Paths /\ PathsOf(b, "insert") \in SUBSET Paths
    BY <1>2, FitsForest DEF Above
  <1>7. ASSUME At(n) \in Gone(E, R \cup {q}) \ Above(F), NEW m \in n .. Len(q)
        PROVE  BecomesEmpty(b, q, m)
    <2>1. ASSUME NEW c \in Children(DOMAIN index, At(m)), c \notin Prefixes(q)
          PROVE  c \in PathsOf(b, "delete")
      <3>1. c \in DOMAIN index /\ c \in Paths /\ Len(c) = m + 1 /\ Leads(At(m), c)
        BY <1>5, <1>6, <2>1
      <3>2. ~Leads(c, q)
        BY <1>1, <2>1, <3>1, PrefixesOfPath
      <3>3. Leads(At(n), c)
        BY <1>1, <1>3, <3>1, LeadsOn
      <3>4. ASSUME NEW e \in E, Leads(c, e) PROVE e \in R
        <4>1. Leads(At(n), e)
          BY <1>1, <1>3, <3>1, <3>3, <3>4, LeadsOn
        <4>2. e \in R \cup {q}
          BY <1>7, <4>1 DEF Gone
        <4> QED
          BY <3>2, <3>4, <4>2
      <3>5. c \notin Above(F)
        <4>1. At(n) \in Paths /\ Len(At(n)) >= 1
          BY <1>1, <1>3
        <4> QED
          BY <1>7, <3>3, <4>1, AboveAbove
      <3>6. Len(c) >= 2
        BY <1>3, <3>1
      <3> QED
        BY <1>2, <3>1, <3>4, <3>5, <3>6 DEF Gone
    <2>2. Children(PathsOf(b, "insert"), At(m)) = {}
      <3> SUFFICES ASSUME NEW c \in Children(PathsOf(b, "insert"), At(m)) PROVE FALSE
        OBVIOUS
      <3>1. c \in PathsOf(b, "insert") /\ c \in Paths /\ Leads(At(m), c)
        BY <1>5, <1>6
      <3>2. c \in Above(F)
        BY <1>2, <3>1
      <3>3. Leads(At(n), c)
        BY <1>1, <1>3, <3>1, LeadsOn
      <3>4. At(n) \in Paths /\ Len(At(n)) >= 1
        BY <1>1, <1>3
      <3> QED
        BY <1>7, <3>2, <3>3, <3>4, AboveAbove
    <2> QED
      BY <1>4, <2>1, <2>2
  <1>8. ASSUME \A m \in n .. Len(q) : BecomesEmpty(b, q, m)
        PROVE  At(n) \in Gone(E, R \cup {q}) \ Above(F)
    <2>0. At(n) \in Paths /\ Len(At(n)) = n /\ Leads(At(n), q) /\ At(n) \in DOMAIN index
      <3>1. n \in n .. Len(q)
        BY <1>1
      <3> QED
        BY <1>3, <3>1
    (* Where another path leaves that of q, below At(n), is a tree. *)
    <2>1. ASSUME NEW t \in Paths, Leads(At(n), t), ~Leads(q, t), ~Leads(t, q)
          PROVE  \E m \in n .. Len(q), c \in Paths :
                   /\ Len(c) = m + 1 /\ Leads(At(m), c) /\ Leads(c, t) /\ c \notin Prefixes(q)
                   /\ index[At(m)] = Tree
      <3>1. PICK m \in Nat : /\ m < Len(q) /\ m < Len(t) /\ q[m + 1] # t[m + 1]
                             /\ \A k \in 1 .. m : q[k] = t[k]
        BY <1>1, <2>1, PathsPart
      <3>2. Len(t) \in Nat
        BY PathType
      <3>3. n <= m
        <4> SUFFICES ASSUME m + 1 <= n PROVE FALSE
          BY <1>1, <3>1
        <4>1. m + 1 \in 1 .. n
          BY <3>1
        <4>2. At(n)[m + 1] = t[m + 1] /\ At(n)[m + 1] = q[m + 1]
          BY <2>0, <2>1, <4>1 DEF Leads
        <4> QED
          BY <3>1, <4>2
      <3> DEFINE c == SubSeq(t, 1, m + 1)
      <3>4. m \in n .. Len(q) /\ m + 1 \in 0 .. Len(t) /\ m + 1 \in 1 .. m + 1
        BY <1>1, <3>1, <3>2, <3>3
      <3>5. c \in Paths /\ Len(c) = m + 1 /\ Leads(c, t) /\ \A k \in 1 .. m + 1 : c[k] = t[k]
        BY <3>4, PrefixOfPath
      <3> HIDE DEF c
      <3>6. c \notin Prefixes(q)
        <4> SUFFICES ASSUME Leads(c, q) PROVE FALSE
          BY <1>1, PrefixesOfPath
        <4>1. c[m + 1] = q[m + 1]
          BY <3>4, <3>5 DEF Leads
        <4> QED
          BY <3>1, <3>4, <3>5, <4>1
      <3>7. Leads(At(m), c)
        <4>1. At(m) \in Paths /\ Len(At(m)) = m /\ Leads(At(m), q)
          BY <1>3, <3>4
        <4>2. \A k \in 1 .. m : At(m)[k] = q[k]
          BY <4>1 DEF Leads
        <4>3. \A k \in 1 .. m : k \in 1 .. m + 1
          BY <3>1
        <4>4. \A k \in 1 .. m : At(m)[k] = c[k]
          BY <3>1, <3>5, <4>2, <4>3
        <4>5. Len(At(m)) <= Len(c)
          BY <3>1, <3>5, <4>1
        <4> QED
          BY <4>1, <4>4, <4>5 DEF Leads
      <3>8. index[At(m)] = Tree
        <4>1. At(m) \in Paths /\ Len(At(m)) = m /\ Leads(At(m), q) /\ At(m) \in DOMAIN index
          BY <1>3, <3>4
        <4>2. At(m) # q
          BY <1>1, <3>1, <4>1
        <4>3. At(m) \notin E
          BY <4>1, <4>2, StoredLeaves DEF E
        <4> QED
          BY <4>1, <4>3, FitsForest DEF E
      <3> QED
        BY <3>4, <3>5, <3>6, <3>7, <3>8
    <2>2. ASSUME NEW e \in E, Leads(At(n), e) PROVE e \in R \cup {q}
      <3> SUFFICES ASSUME e # q PROVE e \in R
        OBVIOUS
      <3>1. e \in Paths /\ e \in DOMAIN index /\ ~Leads(q, e) /\ ~Leads(e, q)
        BY <1>1, StoredLeaves, FitsForest DEF E
      <3>2. PICK m \in n .. Len(q), c \in Paths :
              /\ Len(c) = m + 1 /\ Leads(At(m), c) /\ Leads(c, e) /\ c \notin Prefixes(q)
              /\ index[At(m)] = Tree
        BY <2>1, <2>2, <3>1
      <3>3. Len(c) >= 1
        BY <1>3, <3>2
      <3>4. c \in DOMAIN index
        BY <3>1, <3>2, <3>3, FitsForest
      <3>5. c \in Children(DOMAIN index, At(m))
        BY <1>5, <1>6, <3>2, <3>4
      <3>6. c \in PathsOf(b, "delete")
        BY <1>4, <1>8, <3>2, <3>5
      <3> QED
        BY <1>2, <3>2, <3>6 DEF Gone
    <2>3. At(n) \notin Above(F)
      <3> SUFFICES ASSUME At(n) \in Above(F) PROVE FALSE
        OBVIOUS
      <3>1. PICK t \in T : Leads(At(n), t) /\ ~Leads(q, t) /\ ~Leads(t, q)
        BY <2>0 DEF Shown
      <3>2. PICK m \in n .. Len(q), c \in Paths :
              /\ Len(c) = m + 1 /\ Leads(At(m), c) /\ Leads(c, t) /\ c \notin Prefixes(q)
              /\ index[At(m)] = Tree
        BY <2>1, <3>1
      <3>3. Len(c) >= 1
        BY <1>3, <3>2
      <3>4. c \in Above(T)
        BY <3>2, <3>3 DEF Above
      <3>5. CASE c \in DOMAIN index
        <4>1. c \in Children(DOMAIN index, At(m))
          BY <1>5, <1>6, <3>2, <3>5
        <4>2. c \in PathsOf(b, "delete")
          BY <1>4, <1>8, <3>2, <4>1
        <4> QED
          BY <1>2, <3>4, <4>2
      <3>6. CASE c \notin DOMAIN index
        <4>1. c \in PathsOf(b, "insert")
          BY <1>2, <3>4, <3>6
        <4>2. c \in Children(PathsOf(b, "insert"), At(m))
          BY <1>5, <1>6, <3>2, <4>1
        <4> QED
          BY <1>4, <1>8, <3>2, <4>2
      <3> QED
        BY <3>5, <3>6
    <2>4. Len(At(n)) >= 2
      BY <1>1, <2>0
    <2> QED
      BY <2>0, <2>2, <2>3, <2>4 DEF Gone
  <1> QED
    BY <1>7, <1>8 DEF E, At

LEMMA DeleteType ==
  ASSUME NEW b \in Batch, NEW q \in Paths
  PROVE  /\ DeleteUpTreeWhileEmpty(b, q) \in Batch
         /\ q \in DOMAIN index => DeleteUpTreeWhileEmpty(b, q).failed = b.failed
  <1> DEFINE l == Len(q)
             D == {n \in 2 .. l : \A m \in n .. l : BecomesEmpty(b, q, m)}
             more == [k \in 1 .. Cardinality(D) |-> DeleteOp(SubSeq(q, 1, l + 1 - k))]
  <1>1. l \in Nat
    BY PathType
  <1>2. D \in SUBSET (2 .. l) /\ \A n \in D, m \in 2 .. l : n <= m => m \in D
    BY <1>1
  <1> HIDE DEF D
  <1>3. Cardinality(D) \in Nat /\ \A k \in 1 .. Cardinality(D) : l + 1 - k \in D
    <2> HIDE DEF l
    <2> QED
      BY <1>1, <1>2, CountedDown
  <1>4. \A k \in 1 .. Cardinality(D) : SubSeq(q, 1, l + 1 - k) \in Paths
    <2> TAKE k \in 1 .. Cardinality(D)
    <2>1. l + 1 - k \in 0 .. l
      BY <1>1, <1>2, <1>3
    <2> QED
      BY <2>1, PrefixOfPath
  <1>5. \A k \in 1 .. Cardinality(D) : DeleteOp(SubSeq(q, 1, l + 1 - k)) \in Op
    BY <1>4 DEF DeleteOp, Op
  <1>6. more \in Seq(Op)
    <2>1. more \in [1 .. Cardinality(D) -> Op]
      BY <1>5
    <2> HIDE DEF more
    <2> QED
      BY <1>3, <2>1, SeqDef
  <1>7. DeleteUpTreeWhileEmpty(b, q) =
          IF q \notin DOMAIN index THEN Fail(b) ELSE [b EXCEPT !.ops = @ \o more]
    BY DEF DeleteUpTreeWhileEmpty, D
  <1> HIDE DEF more, Op
  <1>8. b.ops \o more \in Seq(Op)
    BY <1>6, BatchType, ConcatParts
  <1> QED
    BY <1>7, <1>8 DEF Batch, Fail

(* Deleting an entry takes what goes with it. *)
LEMMA DeleteShape ==
  ASSUME DistinctIndices, NEW docs \in Docs, Fits(index, docs),
         NEW b, NEW T \in SUBSET Paths, NEW R, NEW F \in SUBSET Paths, NEW id,
         Shape(b, EntriesOf(docs), T, R, F, id), Above(T) \subseteq Above(F),
         NEW q \in EntriesOf(docs), q \notin R, Shown(T, F, q)
  PROVE  /\ Shape(DeleteUpTreeWhileEmpty(b, q), EntriesOf(docs), T, R \cup {q}, F, id)
         /\ DeleteUpTreeWhileEmpty(b, q).failed = b.failed
  <1> DEFINE E == EntriesOf(docs)
             At(n) == SubSeq(q, 1, n)
             l == Len(q)
             D == {n \in 2 .. l : \A m \in n .. l : BecomesEmpty(b, q, m)}
             list == [k \in 1 .. Cardinality(D) |-> At(l + 1 - k)]
             c == [b EXCEPT !.ops = @ \o [k \in 1 .. Len(list) |-> DeleteOp(list[k])]]
  <1>1. q \in Paths /\ E \in SUBSET Paths /\ q \in DOMAIN index /\ l \in Nat
    BY EntriesOfType, FitsForest, PathType
  <1>2. /\ b \in Batch /\ Ordered(b.ops) /\ Writes(b.ops, F, id)
        /\ PathsOf(b, "insert") = Above(T) \ DOMAIN index
        /\ PathsOf(b, "delete") = Gone(E, R) \ Above(F)
    BY DEF Shape
  <1>3. \A n \in 2 .. l : n \in D <=> At(n) \in Gone(E, R \cup {q}) \ Above(F)
    BY EmptiedPrefixes
  <1>4. \A n \in D, m \in 2 .. l : n <= m => m \in D
    BY <1>1
  <1>5. D \in SUBSET (2 .. l)
    OBVIOUS
  <1>6. \A n \in D : BecomesEmpty(b, q, n)
    <2> TAKE n \in D
    <2>1. n \in n .. l
      BY <1>1
    <2> QED
      BY <2>1
  <1>7. \A n \in 0 .. l : At(n) \in Paths /\ Len(At(n)) = n /\ Leads(At(n), q)
    BY <1>1, PrefixOfPath
  <1> HIDE DEF At, D, E
  <1>8. /\ Cardinality(D) \in Nat
        /\ \A k \in 1 .. Cardinality(D) : l + 1 - k \in D
        /\ \A n \in D : l + 1 - n \in 1 .. Cardinality(D)
    <2> HIDE DEF l
    <2> QED
      BY <1>1, <1>4, <1>5, CountedDown
  <1>9. \A n \in D : n \in Nat /\ n >= 2 /\ n <= l /\ n \in 0 .. l /\ n \in 2 .. l
    BY <1>1, <1>5
  <1>10. \A k \in 1 .. Cardinality(D) : list[k] = At(l + 1 - k) /\ list[k] \in Paths
    BY <1>7, <1>8, <1>9
  <1>11. list \in Seq(Paths) /\ Len(list) = Cardinality(D)
    <2>1. list \in [1 .. Cardinality(D) -> Paths] /\ DOMAIN list = 1 .. Cardinality(D)
      BY <1>10
    <2> HIDE DEF list
    <2>2. list \in Seq(Paths)
      BY <1>8, <2>1, SeqDef
    <2>3. Len(list) \in Nat /\ DOMAIN list = 1 .. Len(list)
      BY <2>2, LenProperties
    <2> QED
      BY <1>8, <2>1, <2>2, <2>3, SameSegment
  <1>12. DeleteUpTreeWhileEmpty(b, q) = c
    <2>1. \A k \in 1 .. Cardinality(D) : DeleteOp(list[k]) = DeleteOp(At(l + 1 - k))
      BY <1>10
    <2>2. [k \in 1 .. Len(list) |-> DeleteOp(list[k])] =
          [k \in 1 .. Cardinality(D) |-> DeleteOp(At(l + 1 - k))]
      <3> HIDE DEF list
      <3> QED
        BY <1>11, <2>1
    <2>3. DeleteUpTreeWhileEmpty(b, q) =
            [b EXCEPT !.ops = @ \o [k \in 1 .. Cardinality(D) |-> DeleteOp(At(l + 1 - k))]]
      BY <1>1 DEF DeleteUpTreeWhileEmpty, D, At
    <2> HIDE DEF list
    <2> QED
      BY <2>2, <2>3
  <1> HIDE DEF list
  <1>13. \A m, n \in 1 .. Len(list) : list[m] = list[n] => m = n
    <2> SUFFICES ASSUME NEW m \in 1 .. Len(list), NEW n \in 1 .. Len(list), list[m] = list[n]
                 PROVE  m = n
      OBVIOUS
    <2>1. /\ l + 1 - m \in 0 .. l /\ list[m] = At(l + 1 - m)
          /\ l + 1 - n \in 0 .. l /\ list[n] = At(l + 1 - n)
      BY <1>8, <1>9, <1>10, <1>11
    <2>2. l + 1 - m = l + 1 - n
      BY <1>7, <2>1
    <2> QED
      BY <1>1, <2>2
  <1>14. {list[n] : n \in 1 .. Len(list)} = {At(n) : n \in D}
    <2>1. \A n \in 1 .. Len(list) : l + 1 - n \in D /\ list[n] = At(l + 1 - n)
      BY <1>8, <1>10, <1>11
    <2>2. ASSUME NEW n \in D PROVE \E m \in 1 .. Len(list) : list[m] = At(n)
      <3>1. l + 1 - n \in 1 .. Len(list) /\ l + 1 - (l + 1 - n) = n
        BY <1>1, <1>8, <1>9, <1>11
      <3>2. list[l + 1 - n] = At(n)
        BY <2>1, <3>1
      <3> QED
        BY <3>1, <3>2
    <2> QED
      BY <2>1, <2>2
  <1>15. \A n \in D : At(n) \in DOMAIN index /\ At(n) \notin Above(F) /\ At(n) \notin Gone(E, R)
    <2> TAKE n \in D
    <2>1. At(n) \in Gone(E, R \cup {q}) \ Above(F) /\ Leads(At(n), q)
      BY <1>3, <1>7, <1>9
    <2> QED
      BY <2>1 DEF Gone, E
  <1>16. \A n \in 1 .. Len(list) : list[n] \notin PathsOf(b, "insert") \cup PathsOf(b, "delete")
    <2> TAKE n \in 1 .. Len(list)
    <2>1. l + 1 - n \in D /\ list[n] = At(l + 1 - n)
      BY <1>8, <1>10, <1>11
    <2> QED
      BY <1>2, <1>15, <2>1
  <1>17. \A n \in 1 .. Len(list) : \A p \in Children(DOMAIN index, list[n]) :
           p \in PathsOf(b, "delete") \/ \E m \in 1 .. n - 1 : list[m] = p
    <2> SUFFICES ASSUME NEW n \in 1 .. Len(list), NEW p \in Children(DOMAIN index, list[n])
                 PROVE  p \in PathsOf(b, "delete") \/ \E m \in 1 .. n - 1 : list[m] = p
      OBVIOUS
    <2> DEFINE x == l + 1 - n
    <2>1. x \in D /\ list[n] = At(x) /\ x \in Nat /\ x >= 2 /\ x <= l /\ x \in 0 .. l
      BY <1>8, <1>9, <1>10, <1>11
    <2>2. At(x) \in Paths /\ Len(At(x)) = x /\ At(x) \in DOMAIN index
      BY <1>7, <1>15, <2>1
    <2>3. p \in DOMAIN index /\ p \in Paths /\ Len(p) = x + 1 /\ Leads(At(x), p)
      <3>1. p \in DOMAIN index /\ Len(p) = x + 1 /\ Front(p) = At(x)
        BY <2>1, <2>2 DEF Children
      <3>2. p \in Paths
        BY <3>1, FitsForest
      <3> QED
        BY <2>2, <3>1, <3>2, ChildOfPath
    <2> HIDE DEF x
    <2>4. index[At(x)] = Tree
      <3> SUFFICES ASSUME At(x) \in E PROVE FALSE
        BY <2>2, FitsForest DEF E
      <3>1. Len(p) # 1
        BY <2>1, <2>3
      <3>2. PICK e \in E : Leads(p, e)
        BY <2>3, <3>1, FitsForest DEF E
      <3>3. Leads(At(x), e) /\ e \in Paths
        BY <1>1, <2>2, <2>3, <3>2, LeadsOn
      <3>4. At(x) = e
        BY <3>2, <3>3, StoredLeaves DEF E
      <3>5. Len(p) <= x
        BY <2>2, <3>2, <3>4 DEF Leads
      <3> QED
        BY <2>1, <2>3, <3>5
    <2>5. p \in PathsOf(b, "delete") \cup Prefixes(q)
      BY <1>6, <2>1, <2>4 DEF BecomesEmpty, At
    <2>6. CASE p \in Prefixes(q)
      <3>1. Leads(p, q)
        BY <1>1, <2>6, PrefixesOfPath
      <3>2. p = At(x + 1) /\ x + 1 \in 0 .. l
        BY <1>1, <2>3, <3>1, LeadsIsPrefix DEF At
      <3>3. n - 1 \in 1 .. n - 1 /\ n - 1 \in 1 .. Cardinality(D) /\ l + 1 - (n - 1) = x + 1
        BY <1>1, <1>8, <1>11, <3>2 DEF x
      <3>4. list[n - 1] = At(x + 1)
        BY <1>10, <3>3
      <3> QED
        BY <3>2, <3>3, <3>4
    <2> QED
      BY <2>5, <2>6
  <1>18. /\ c \in Batch /\ c.failed = b.failed
         /\ PathsOf(c, "insert") = PathsOf(b, "insert")
         /\ PathsOf(c, "delete") = PathsOf(b, "delete") \cup {list[n] : n \in 1 .. Len(list)}
         /\ Writes(c.ops, F, id) /\ Ordered(c.ops)
    <2>1. c \in Batch
      BY <1>1, <1>2, <1>12, DeleteType
    <2>2. c.failed = b.failed
      OBVIOUS
    <2>3. PathsOf(c, "insert") = PathsOf(b, "insert")
      BY <1>2, <1>11, <1>13, <1>16, <1>17, DeleteOps
    <2>4. PathsOf(c, "delete") = PathsOf(b, "delete") \cup {list[n] : n \in 1 .. Len(list)}
      BY <1>2, <1>11, <1>13, <1>16, <1>17, DeleteOps
    <2>5. Writes(c.ops, F, id)
      BY <1>2, <1>11, <1>13, <1>16, <1>17, DeleteOps
    <2>6. Ordered(c.ops)
      BY <1>2, <1>11, <1>13, <1>16, <1>17, DeleteOps
    <2> QED
      BY <2>1, <2>2, <2>3, <2>4, <2>5, <2>6
  <1> HIDE DEF c
  <1>19. PathsOf(c, "delete") = Gone(E, R \cup {q}) \ Above(F)
    <2>1. \A n \in D : At(n) \in Gone(E, R \cup {q}) \ Above(F)
      BY <1>3, <1>9
    <2>2. Gone(E, R) \subseteq Gone(E, R \cup {q})
      BY DEF Gone
    <2>3. ASSUME NEW p \in Gone(E, R \cup {q}) \ Above(F), p \notin Gone(E, R)
          PROVE  \E n \in D : p = At(n)
      <3>1. p \in DOMAIN index /\ Len(p) >= 2 /\ Leads(p, q)
        BY <2>3 DEF Gone
      <3>2. p \in Paths /\ Len(p) \in Nat
        BY <3>1, FitsForest, PathType
      <3>3. p = At(Len(p)) /\ Len(p) \in 2 .. l
        BY <1>1, <3>1, <3>2, LeadsIsPrefix DEF At
      <3>4. Len(p) \in D
        BY <1>3, <2>3, <3>3
      <3> QED
        BY <3>3, <3>4
    <2>4. PathsOf(c, "delete") = (Gone(E, R) \ Above(F)) \cup {At(n) : n \in D}
      BY <1>2, <1>14, <1>18
    <2> QED
      BY <2>1, <2>2, <2>3, <2>4
  <1>20. Shape(c, E, T, R \cup {q}, F, id)
    BY <1>2, <1>18, <1>19 DEF Shape
  <1> QED
    BY <1>12, <1>18, <1>20 DEF E

LEMMA TreesType ==
  ASSUME NEW b \in Batch, NEW path \in Paths, NEW from \in 1 .. Len(path)
  PROVE  Trees(b, path, from) \in Batch /\ Trees(b, path, from).failed = b.failed
  <1> DEFINE n == Len(path) + 1 - from
  <1>1. n \in Nat /\ from - 1 \in Nat /\ Len(path) \in Nat
    BY PathType
  <1>2. PICK run : /\ run \in [0 .. n -> Batch]
                   /\ run[0] = b /\ run[n] = Trees(b, path, from)
                   /\ \A k \in 1 .. n :
                        run[k] = TreeOnce(run[k - 1], SubSeq(path, 1, k + from - 1))
    BY TreesRun
  <1> DEFINE Good == {k \in 0 .. n : run[k].failed = b.failed}
  <1>3. 0 \in Good
    BY <1>1, <1>2
  <1>4. ASSUME NEW k \in 0 .. n - 1, k \in Good PROVE k + 1 \in Good
    <2>1. /\ k + 1 \in 1 .. n /\ k + 1 - 1 = k /\ k \in 0 .. n /\ k + 1 \in 0 .. n
          /\ k + 1 + from - 1 \in 0 .. Len(path)
      BY <1>1
    <2>2. run[k + 1] = TreeOnce(run[k], SubSeq(path, 1, k + 1 + from - 1)) /\ run[k] \in Batch
      <3>1. run[k + 1] = TreeOnce(run[k + 1 - 1], SubSeq(path, 1, k + 1 + from - 1))
        BY <1>2, <2>1
      <3>2. run[k] \in Batch
        BY <1>2, <2>1
      <3> QED
        BY <2>1, <3>1, <3>2
    <2>3. SubSeq(path, 1, k + 1 + from - 1) \in Paths
      BY <2>1, PrefixOfPath
    <2>4. run[k + 1].failed = run[k].failed
      BY <2>2, <2>3, TreeOnceType
    <2> QED
      BY <1>4, <2>1, <2>4
  <1>5. n \in Good
    <2> HIDE DEF Good, n
    <2>1. \A k \in 0 .. n - 1 : k \in Good => k + 1 \in Good
      BY <1>4
    <2>2. \A k \in 0 .. n : k \in Good
      BY <1>1, <1>3, <2>1, SegmentInduction
    <2> QED
      BY <1>1, <2>2
  <1>6. n \in 0 .. n
    BY <1>1
  <1> QED
    BY <1>2, <1>5, <1>6

(* From where the trees on the new path of a document may be missing. *)
LEMMA FirstTreeType ==
  ASSUME NEW i \in DOMAIN Indices, NEW old \in Documents, NEW d \in Documents,
         ~SameOn(Indices[i], old, d)
  PROVE  LET from == FirstTree(Indices[i], old, d)
         IN  /\ from \in 2 .. Len(PathIn(i, d))
             /\ from = 2 \/ Leads(SubSeq(PathIn(i, d), 1, from - 1), PathIn(i, old))
  <1> DEFINE props == Indices[i].properties
             Differ == {n \in 1 .. Len(props) : d[props[n]] # old[props[n]]}
             first == Min(Differ)
             from == FirstTree(Indices[i], old, d)
  <1>1. /\ Size(i) \in Nat /\ Size(i) >= 1 /\ DOMAIN props = 1 .. Size(i) /\ Len(props) = Size(i)
    BY IndexType DEF Size
  <1>2. Differ # {} /\ Differ \in SUBSET Nat
    BY <1>1 DEF SameOn
  <1>3. first \in Differ /\ \A n \in Differ : first <= n
    <2> HIDE DEF Differ
    <2> QED
      BY <1>2, LeastElement
  <1>4. from = IF first = 1 THEN 2 ELSE 2 * first - 1
    BY <1>2 DEF FirstTree, SelectInSeq
  <1> HIDE DEF first, from
  <1>5. first \in 1 .. Size(i) /\ first \in Nat
    BY <1>1, <1>3
  <1>6. /\ PathIn(i, d) \in Paths /\ Len(PathIn(i, d)) = 2 * Size(i) /\ KeysOf(PathIn(i, d), i, d)
        /\ PathIn(i, old) \in Paths /\ Len(PathIn(i, old)) = 2 * Size(i)
        /\ KeysOf(PathIn(i, old), i, old)
    BY PathInType
  <1>7. from \in 2 .. Len(PathIn(i, d))
    BY <1>1, <1>4, <1>5, <1>6
  <1>8. ASSUME first # 1 PROVE Leads(SubSeq(PathIn(i, d), 1, from - 1), PathIn(i, old))
    <2> DEFINE s == SubSeq(PathIn(i, d), 1, from - 1)
    <2>1. from - 1 = 2 * (first - 1) /\ from - 1 \in 0 .. Len(PathIn(i, d)) /\ first - 1 \in Nat
      BY <1>1, <1>4, <1>5, <1>6, <1>8
    <2>2. Len(s) = from - 1 /\ \A k \in 1 .. from - 1 : s[k] = PathIn(i, d)[k]
      BY <1>6, <2>1, PrefixOfPath
    <2> HIDE DEF s
    <2>3. ASSUME NEW m \in 1 .. from - 1 PROVE s[m] = PathIn(i, old)[m]
      <3>1. PICK k \in 1 .. first - 1 : m = 2 * k - 1 \/ m = 2 * k
        BY <2>1, OddOrEven
      <3>2. k \in 1 .. Size(i) /\ k \notin Differ
        BY <1>1, <1>3, <1>5, <3>1
      <3>3. d[props[k]] = old[props[k]]
        BY <1>1, <3>2
      <3>4. /\ PathIn(i, d)[2 * k - 1] = props[k] /\ PathIn(i, old)[2 * k - 1] = props[k]
            /\ PathIn(i, d)[2 * k] = d[props[k]] /\ PathIn(i, old)[2 * k] = old[props[k]]
        BY <1>6, <3>2 DEF KeysOf
      <3> QED
        BY <2>2, <3>1, <3>3, <3>4
    <2>4. Len(s) <= Len(PathIn(i, old))
      BY <1>1, <1>5, <1>6, <2>1, <2>2
    <2>5. Leads(s, PathIn(i, old))
      BY <2>2, <2>3, <2>4 DEF Leads
    <2> QED
      BY <2>5 DEF s
  <1>9. first = 1 => from = 2
    BY <1>4
  <1> QED
    BY <1>7, <1>8, <1>9 DEF from

LEMMA NullsType ==
  ASSUME NoUniqueNulls, NEW i \in DOMAIN Indices, NEW d \in Documents
  PROVE  /\ AnyNull(Indices[i], d) \in BOOLEAN /\ AllNull(Indices[i], d) \in BOOLEAN
         /\ Indices[i].unique => ~AnyNull(Indices[i], d) /\ ~AllNull(Indices[i], d)
  <1>1. AnyNull(Indices[i], d) \in BOOLEAN /\ AllNull(Indices[i], d) \in BOOLEAN
    BY DEF AnyNull, AllNull
  <1>2. Indices[i].unique => ~AnyNull(Indices[i], d)
    BY DEF NoUniqueNulls
  <1>3. AllNull(Indices[i], d) => AnyNull(Indices[i], d)
    <2>1. 1 \in DOMAIN Indices[i].properties
      <3>1. /\ Size(i) \in Nat /\ Size(i) >= 1 /\ DOMAIN Indices[i].properties = 1 .. Size(i)
        BY IndexType
      <3> QED
        BY <3>1
    <2> QED
      BY <2>1 DEF AllNull, AnyNull
  <1> QED
    BY <1>1, <1>2, <1>3

(* When the operations on one index fail. *)
LEMMA AddToIndexFails ==
  ASSUME NoUniqueNulls, NEW b \in Batch, NEW i \in DOMAIN Indices, NEW d \in Documents,
         NEW id \in Ids
  PROVE  /\ AddToIndex(b, Indices[i], d, id) \in Batch
         /\ AddToIndex(b, Indices[i], d, id).failed =
              (b.failed \/ (Indices[i].unique /\ AtZero(i, d) \in DOMAIN index))
  <1> DEFINE c == Trees(b, PathIn(i, d), 2)
  <1>1. PathIn(i, d) \in Paths /\ Len(PathIn(i, d)) = 2 * Size(i) /\ Size(i) \in Nat /\ Size(i) >= 1
    BY PathInType, IndexType
  <1>2. 2 \in 1 .. Len(PathIn(i, d))
    BY <1>1
  <1>3. c \in Batch /\ c.failed = b.failed
    BY <1>1, <1>2, TreesType
  <1>4. AddToIndex(b, Indices[i], d, id) = AddEntry(c, Indices[i], d, id, AnyNull(Indices[i], d))
    BY DEF AddToIndex, PathIn
  <1> HIDE DEF c
  <1>5. /\ AnyNull(Indices[i], d) \in BOOLEAN
        /\ Indices[i].unique => ~AnyNull(Indices[i], d)
    BY NullsType
  <1> QED
    BY <1>3, <1>4, <1>5, AddEntryFails

LEMMA RemoveEntryIs ==
  ASSUME NEW b, NEW i \in DOMAIN Indices, NEW d, NEW id
  PROVE  RemoveEntry(b, Indices[i], d, id) = DeleteUpTreeWhileEmpty(b, EntryAt(i, d, id))
  BY DEF RemoveEntry, EntryAt, AtZero, PathIn

LEMMA MoveInIndexFails ==
  ASSUME NoUniqueNulls, NEW b \in Batch, NEW i \in DOMAIN Indices, NEW old \in Documents,
         NEW d \in Documents, NEW id \in Ids
  PROVE  /\ MoveInIndex(b, Indices[i], old, d, id) \in Batch
         /\ EntryAt(i, old, id) \in DOMAIN index =>
              MoveInIndex(b, Indices[i], old, d, id).failed =
                (b.failed \/ (/\ ~SameOn(Indices[i], old, d)
                              /\ Indices[i].unique /\ AtZero(i, d) \in DOMAIN index))
  <1>1. CASE SameOn(Indices[i], old, d)
    BY <1>1 DEF MoveInIndex, Batch
  <1>2. CASE ~SameOn(Indices[i], old, d)
    <2> DEFINE from == FirstTree(Indices[i], old, d)
               c == Trees(b, PathIn(i, d), from)
               e == DeleteUpTreeWhileEmpty(c, EntryAt(i, old, id))
               nulls == AllNull(Indices[i], d)
    <2>1. PathIn(i, d) \in Paths /\ Len(PathIn(i, d)) \in Nat
      BY PathInType, PathType
    <2>2. from \in 2 .. Len(PathIn(i, d))
      BY <1>2, FirstTreeType
    <2>3. MoveInIndex(b, Indices[i], old, d, id) = AddEntry(e, Indices[i], d, id, nulls)
      BY <1>2, RemoveEntryIs DEF MoveInIndex, PathIn
    <2> HIDE DEF from
    <2>4. from \in 1 .. Len(PathIn(i, d))
      BY <2>1, <2>2
    <2>5. c \in Batch /\ c.failed = b.failed
      BY <2>1, <2>4, TreesType
    <2> HIDE DEF c
    <2>6. EntryAt(i, old, id) \in Paths
      BY EntryType
    <2>7. e \in Batch /\ (EntryAt(i, old, id) \in DOMAIN index => e.failed = c.failed)
      BY <2>5, <2>6, DeleteType
    <2> HIDE DEF e
    <2>8. nulls \in BOOLEAN /\ (Indices[i].unique => ~nulls)
      BY NullsType
    <2> HIDE DEF nulls
    <2>9. /\ AddEntry(e, Indices[i], d, id, nulls) \in Batch
          /\ AddEntry(e, Indices[i], d, id, nulls).failed =
               (e.failed \/ (Indices[i].unique /\ AtZero(i, d) \in DOMAIN index))
      BY <2>7, <2>8, AddEntryFails
    <2> QED
      BY <1>2, <2>3, <2>5, <2>7, <2>9
  <1> QED
    BY <1>1, <1>2

LEMMA RemoveEntryFails ==
  ASSUME NEW b \in Batch, NEW i \in DOMAIN Indices, NEW old \in Documents, NEW id \in Ids
  PROVE  /\ RemoveEntry(b, Indices[i], old, id) \in Batch
         /\ EntryAt(i, old, id) \in DOMAIN index =>
              RemoveEntry(b, Indices[i], old, id).failed = b.failed
  <1>1. EntryAt(i, old, id) \in Paths
    BY EntryType
  <1> QED
    BY <1>1, DeleteType, RemoveEntryIs
-----------------------------------------------------------------------------
(* A batch is made index by index. *)
LEMMA InsertRun ==
  ASSUME NoUniqueNulls, NEW id \in Ids, NEW d \in Documents
  PROVE  \E run : /\ run \in [0 .. Len(Indices) -> Batch]
                  /\ run[0] = NewBatch /\ run[Len(Indices)] = InsertBatch(id, d)
                  /\ \A k \in 1 .. Len(Indices) : run[k] = AddToIndex(run[k - 1], Indices[k], d, id)
  <1> DEFINE n == Len(Indices)
             F == [x \in (1 .. n) \X Batch |-> AddToIndex(x[2], Indices[x[1]], d, id)]
             Eq(g) == g = [s \in SUBSET (1 .. n) |->
                             IF s = {} THEN NewBatch
                             ELSE AddToIndex(g[s \ {Max(s)}], Indices[Max(s)], d, id)]
  <1>1. n \in Nat /\ DOMAIN Indices = 1 .. n
    BY IndicesAssumption, LenProperties
  <1>2. InsertBatch(id, d) = (CHOOSE g : Eq(g))[1 .. n]
    BY <1>1 DEF InsertBatch, FoldLeft, MapThenFoldSet
  <1>3. NewBatch \in Batch
    BY EmptySeq DEF Batch, NewBatch
  <1>4. \A k \in 1 .. n, b \in Batch :
          /\ F[<<k, b>>] = AddToIndex(b, Indices[k], d, id)
          /\ F[<<k, b>>] \in Batch
    <2> TAKE k \in 1 .. n, b \in Batch
    <2>1. F[<<k, b>>] = AddToIndex(b, Indices[k], d, id)
      OBVIOUS
    <2>2. AddToIndex(b, Indices[k], d, id) \in Batch
      BY <1>1, AddToIndexFails
    <2> QED
      BY <2>1, <2>2
  <1>5. F \in [(1 .. n) \X Batch -> Batch]
    BY <1>4
  <1> HIDE DEF F, n, Batch
  <1>6. \A s \in SUBSET (1 .. n) : s # {} => Max(s) \in 1 .. n
    BY <1>1, GreatestElement
  <1>7. Eq(CHOOSE g : Eq(g))
    <2>1. PICK g \in [SUBSET (1 .. n) -> Batch] : Folded(g, F, NewBatch, n)
      BY <1>1, <1>3, <1>5, FoldExists
    <2>2. Eq(g)
      BY <1>4, <1>6, <2>1 DEF Folded
    <2> QED
      BY <2>2, Zenon
  <1> DEFINE g == CHOOSE h : Eq(h)
  <1>8. FoldsIn(g, F, NewBatch, n, Batch)
    <2> HIDE DEF g
    <2>1. g = [s \in SUBSET (1 .. n) |->
                 IF s = {} THEN NewBatch
                 ELSE AddToIndex(g[s \ {Max(s)}], Indices[Max(s)], d, id)]
      BY <1>7, Zenon DEF g
    <2>2. \A s \in SUBSET (1 .. n) :
            g[s] = IF s = {} THEN NewBatch
                   ELSE AddToIndex(g[s \ {Max(s)}], Indices[Max(s)], d, id)
      BY <2>1, Zenon
    <2>3. {} \in SUBSET (1 .. n)
      OBVIOUS
    <2> QED
      BY <1>4, <1>6, <2>2, <2>3, Zenon DEF FoldsIn
  <1> HIDE DEF g, Eq
  <1>9. PICK run : IsRun(run, F, NewBatch, n, Batch, g[1 .. n])
    BY <1>1, <1>3, <1>5, <1>8, FoldSteps, Zenon
  <1>10. /\ run \in [0 .. n -> Batch] /\ run[0] = NewBatch /\ run[n] = g[1 .. n]
         /\ \A k \in 1 .. n : run[k] = F[<<k, run[k - 1]>>]
    BY <1>9 DEF IsRun
  <1>11. \A k \in 1 .. n : run[k] = AddToIndex(run[k - 1], Indices[k], d, id)
    <2> TAKE k \in 1 .. n
    <2>1. k - 1 \in 0 .. n
      BY <1>1
    <2>2. run[k - 1] \in Batch
      BY <1>10, <2>1
    <2> QED
      BY <1>4, <1>10, <2>2
  <1>12. run[n] = InsertBatch(id, d)
    BY <1>2, <1>10 DEF g
  <1> QED
    BY <1>10, <1>11, <1>12 DEF n

(* The same for an update ... *)
LEMMA UpdateRun ==
  ASSUME NoUniqueNulls, NEW id \in Ids, NEW d \in Documents, Current(id) \in Documents
  PROVE  \E run : /\ run \in [0 .. Len(Indices) -> Batch]
                  /\ run[0] = NewBatch /\ run[Len(Indices)] = UpdateBatch(id, d)
                  /\ \A k \in 1 .. Len(Indices) :
                       run[k] = MoveInIndex(run[k - 1], Indices[k], Current(id), d, id)
  <1> DEFINE n == Len(Indices)
             F == [x \in (1 .. n) \X Batch |-> MoveInIndex(x[2], Indices[x[1]], Current(id), d, id)]
             Eq(g) == g = [s \in SUBSET (1 .. n) |->
                             IF s = {} THEN NewBatch
                             ELSE MoveInIndex(g[s \ {Max(s)}], Indices[Max(s)], Current(id), d, id)]
  <1>1. n \in Nat /\ DOMAIN Indices = 1 .. n
    BY IndicesAssumption, LenProperties
  <1>2. UpdateBatch(id, d) = (CHOOSE g : Eq(g))[1 .. n]
    BY <1>1 DEF UpdateBatch, FoldLeft, MapThenFoldSet
  <1>3. NewBatch \in Batch
    BY EmptySeq DEF Batch, NewBatch
  <1>4. \A k \in 1 .. n, b \in Batch :
          /\ F[<<k, b>>] = MoveInIndex(b, Indices[k], Current(id), d, id)
          /\ F[<<k, b>>] \in Batch
    <2> TAKE k \in 1 .. n, b \in Batch
    <2>1. F[<<k, b>>] = MoveInIndex(b, Indices[k], Current(id), d, id)
      OBVIOUS
    <2>2. MoveInIndex(b, Indices[k], Current(id), d, id) \in Batch
      BY <1>1, MoveInIndexFails
    <2> QED
      BY <2>1, <2>2
  <1>5. F \in [(1 .. n) \X Batch -> Batch]
    BY <1>4
  <1> HIDE DEF F, n, Batch
  <1>6. \A s \in SUBSET (1 .. n) : s # {} => Max(s) \in 1 .. n
    BY <1>1, GreatestElement
  <1>7. Eq(CHOOSE g : Eq(g))
    <2>1. PICK g \in [SUBSET (1 .. n) -> Batch] : Folded(g, F, NewBatch, n)
      BY <1>1, <1>3, <1>5, FoldExists
    <2>2. Eq(g)
      BY <1>4, <1>6, <2>1 DEF Folded
    <2> QED
      BY <2>2, Zenon
  <1> DEFINE g == CHOOSE h : Eq(h)
  <1>8. FoldsIn(g, F, NewBatch, n, Batch)
    <2> HIDE DEF g
    <2>1. g = [s \in SUBSET (1 .. n) |->
                 IF s = {} THEN NewBatch
                 ELSE MoveInIndex(g[s \ {Max(s)}], Indices[Max(s)], Current(id), d, id)]
      BY <1>7, Zenon DEF g
    <2>2. \A s \in SUBSET (1 .. n) :
            g[s] = IF s = {} THEN NewBatch
                   ELSE MoveInIndex(g[s \ {Max(s)}], Indices[Max(s)], Current(id), d, id)
      BY <2>1, Zenon
    <2>3. {} \in SUBSET (1 .. n)
      OBVIOUS
    <2> QED
      BY <1>4, <1>6, <2>2, <2>3, Zenon DEF FoldsIn
  <1> HIDE DEF g, Eq
  <1>9. PICK run : IsRun(run, F, NewBatch, n, Batch, g[1 .. n])
    BY <1>1, <1>3, <1>5, <1>8, FoldSteps, Zenon
  <1>10. /\ run \in [0 .. n -> Batch] /\ run[0] = NewBatch /\ run[n] = g[1 .. n]
         /\ \A k \in 1 .. n : run[k] = F[<<k, run[k - 1]>>]
    BY <1>9 DEF IsRun
  <1>11. \A k \in 1 .. n : run[k] = MoveInIndex(run[k - 1], Indices[k], Current(id), d, id)
    <2> TAKE k \in 1 .. n
    <2>1. k - 1 \in 0 .. n
      BY <1>1
    <2>2. run[k - 1] \in Batch
      BY <1>10, <2>1
    <2> QED
      BY <1>4, <1>10, <2>2
  <1>12. run[n] = UpdateBatch(id, d)
    BY <1>2, <1>10 DEF g
  <1> QED
    BY <1>10, <1>11, <1>12 DEF n

(* ... and for a deletion. *)
LEMMA DeleteRun ==
  ASSUME NEW id \in Ids, Current(id) \in Documents
  PROVE  \E run : /\ run \in [0 .. Len(Indices) -> Batch]
                  /\ run[0] = NewBatch /\ run[Len(Indices)] = DeleteBatch(id)
                  /\ \A k \in 1 .. Len(Indices) :
                       run[k] = RemoveEntry(run[k - 1], Indices[k], Current(id), id)
  <1> DEFINE n == Len(Indices)
             F == [x \in (1 .. n) \X Batch |-> RemoveEntry(x[2], Indices[x[1]], Current(id), id)]
             Eq(g) == g = [s \in SUBSET (1 .. n) |->
                             IF s = {} THEN NewBatch
                             ELSE RemoveEntry(g[s \ {Max(s)}], Indices[Max(s)], Current(id), id)]
  <1>1. n \in Nat /\ DOMAIN Indices = 1 .. n
    BY IndicesAssumption, LenProperties
  <1>2. DeleteBatch(id) = (CHOOSE g : Eq(g))[1 .. n]
    BY <1>1 DEF DeleteBatch, FoldLeft, MapThenFoldSet
  <1>3. NewBatch \in Batch
    BY EmptySeq DEF Batch, NewBatch
  <1>4. \A k \in 1 .. n, b \in Batch :
          /\ F[<<k, b>>] = RemoveEntry(b, Indices[k], Current(id), id)
          /\ F[<<k, b>>] \in Batch
    <2> TAKE k \in 1 .. n, b \in Batch
    <2>1. F[<<k, b>>] = RemoveEntry(b, Indices[k], Current(id), id)
      OBVIOUS
    <2>2. RemoveEntry(b, Indices[k], Current(id), id) \in Batch
      BY <1>1, RemoveEntryFails
    <2> QED
      BY <2>1, <2>2
  <1>5. F \in [(1 .. n) \X Batch -> Batch]
    BY <1>4
  <1> HIDE DEF F, n, Batch
  <1>6. \A s \in SUBSET (1 .. n) : s # {} => Max(s) \in 1 .. n
    BY <1>1, GreatestElement
  <1>7. Eq(CHOOSE g : Eq(g))
    <2>1. PICK g \in [SUBSET (1 .. n) -> Batch] : Folded(g, F, NewBatch, n)
      BY <1>1, <1>3, <1>5, FoldExists
    <2>2. Eq(g)
      BY <1>4, <1>6, <2>1 DEF Folded
    <2> QED
      BY <2>2, Zenon
  <1> DEFINE g == CHOOSE h : Eq(h)
  <1>8. FoldsIn(g, F, NewBatch, n, Batch)
    <2> HIDE DEF g
    <2>1. g = [s \in SUBSET (1 .. n) |->
                 IF s = {} THEN NewBatch
                 ELSE RemoveEntry(g[s \ {Max(s)}], Indices[Max(s)], Current(id), id)]
      BY <1>7, Zenon DEF g
    <2>2. \A s \in SUBSET (1 .. n) :
            g[s] = IF s = {} THEN NewBatch
                   ELSE RemoveEntry(g[s \ {Max(s)}], Indices[Max(s)], Current(id), id)
      BY <2>1, Zenon
    <2>3. {} \in SUBSET (1 .. n)
      OBVIOUS
    <2> QED
      BY <1>4, <1>6, <2>2, <2>3, Zenon DEF FoldsIn
  <1> HIDE DEF g, Eq
  <1>9. PICK run : IsRun(run, F, NewBatch, n, Batch, g[1 .. n])
    BY <1>1, <1>3, <1>5, <1>8, FoldSteps, Zenon
  <1>10. /\ run \in [0 .. n -> Batch] /\ run[0] = NewBatch /\ run[n] = g[1 .. n]
         /\ \A k \in 1 .. n : run[k] = F[<<k, run[k - 1]>>]
    BY <1>9 DEF IsRun
  <1>11. \A k \in 1 .. n : run[k] = RemoveEntry(run[k - 1], Indices[k], Current(id), id)
    <2> TAKE k \in 1 .. n
    <2>1. k - 1 \in 0 .. n
      BY <1>1
    <2>2. run[k - 1] \in Batch
      BY <1>10, <2>1
    <2> QED
      BY <1>4, <1>10, <2>2
  <1>12. run[n] = DeleteBatch(id)
    BY <1>2, <1>10 DEF g
  <1> QED
    BY <1>10, <1>11, <1>12 DEF n
-----------------------------------------------------------------------------
(* The entries of the indices in G. *)
EntriesIn(G, d, id) == {EntryAt(i, d, id) : i \in G}

LEMMA EntriesInType ==
  ASSUME NEW G \in SUBSET DOMAIN Indices, NEW d \in Documents, NEW id \in Ids
  PROVE  EntriesIn(G, d, id) \in SUBSET Paths
  BY EntryType DEF EntriesIn

(* The tree at [0] of an index is not on the way to the other entries. *)
LEMMA ZeroNotAbove ==
  ASSUME DistinctIndices, NEW G \in SUBSET DOMAIN Indices, NEW i \in DOMAIN Indices, i \notin G,
         NEW d \in Documents, NEW id \in Ids
  PROVE  AtZero(i, d) \notin Above(EntriesIn(G, d, id) \cup {PathIn(i, d)})
  <1> SUFFICES ASSUME NEW q \in EntriesIn(G, d, id) \cup {PathIn(i, d)}, Leads(AtZero(i, d), q)
               PROVE  FALSE
    BY DEF Above
  <1>1. CASE q = PathIn(i, d)
    BY <1>1, NoZeroOnPath
  <1>2. ASSUME NEW j \in G, q = EntryAt(j, d, id) PROVE FALSE
    <2>1. i = j
      BY <1>2, ZeroTells
    <2> QED
      BY <2>1
  <1> QED
    BY <1>1, <1>2 DEF EntriesIn

(* What is there at the place of a new entry is another document's. *)
LEMMA PlaceTaken ==
  ASSUME DistinctIndices, NEW docs \in Docs, Fits(index, docs),
         NEW id \in Ids, NEW d \in Documents, NEW i \in DOMAIN Indices,
         docs[id] = Missing \/ ~SameOn(Indices[i], docs[id], d)
  PROVE  /\ ~Indices[i].unique => EntryAt(i, d, id) \notin DOMAIN index
         /\ Indices[i].unique =>
              (AtZero(i, d) \in DOMAIN index <=>
                 \E other \in Ids \ {id} :
                   docs[other] # Missing /\ SameOn(Indices[i], d, docs[other]))
  <1>1. ASSUME EntryAt(i, d, id) \in DOMAIN index
        PROVE  \E other \in Ids : /\ docs[other] # Missing /\ SameOn(Indices[i], d, docs[other])
                                  /\ ~Indices[i].unique => other = id
    <2>1. EntryAt(i, d, id) \in Paths /\ Len(EntryAt(i, d, id)) # 1
      <3>1. /\ Size(i) \in Nat /\ Size(i) >= 1 /\ EntryAt(i, d, id) \in Paths
            /\ Len(EntryAt(i, d, id)) =
                 IF Indices[i].unique THEN 2 * Size(i) + 1 ELSE 2 * Size(i) + 2
        BY IndexType, EntryType
      <3> QED
        BY <3>1
    <2>2. PICK q \in EntriesOf(docs) : Leads(EntryAt(i, d, id), q)
      BY <1>1, <2>1, FitsForest
    <2>3. PICK j \in DOMAIN Indices, other \in StoredIn(docs) :
            other \in Ids /\ docs[other] \in Documents /\ q = EntryAt(j, docs[other], other)
      BY EntriesOfType
    <2>4. Leads(EntryAt(i, d, id), EntryAt(j, docs[other], other))
      BY <2>2, <2>3
    <2>5. SameOn(Indices[i], d, docs[other]) /\ (~Indices[i].unique => id = other)
      BY <2>3, <2>4, EntriesAreLeaves
    <2>6. docs[other] # Missing
      BY <2>3 DEF StoredIn
    <2> QED
      BY <2>3, <2>5, <2>6
  <1>2. ASSUME NEW other \in Ids, docs[other] # Missing, SameOn(Indices[i], d, docs[other])
        PROVE  other # id
    BY <1>2 DEF SameOn
  <1>3. ASSUME ~Indices[i].unique PROVE EntryAt(i, d, id) \notin DOMAIN index
    BY <1>1, <1>2, <1>3
  <1>4. ASSUME Indices[i].unique, AtZero(i, d) \in DOMAIN index
        PROVE  \E other \in Ids \ {id} : docs[other] # Missing /\ SameOn(Indices[i], d, docs[other])
    <2>1. EntryAt(i, d, id) \in DOMAIN index
      BY <1>4 DEF EntryAt
    <2> QED
      BY <1>1, <1>2, <2>1
  <1>5. ASSUME Indices[i].unique, NEW other \in Ids \ {id}, docs[other] # Missing,
               SameOn(Indices[i], d, docs[other])
        PROVE  AtZero(i, d) \in DOMAIN index
    <2>1. docs[other] \in Documents /\ other \in StoredIn(docs)
      BY <1>5 DEF Docs, StoredIn
    <2>2. PathIn(i, d) = PathIn(i, docs[other])
      BY <1>5, <2>1, SamePathIn
    <2>3. AtZero(i, d) = EntryAt(i, docs[other], other)
      BY <1>5, <2>2 DEF AtZero, EntryAt
    <2>4. EntryAt(i, docs[other], other) \in EntriesOf(docs)
      BY <2>1 DEF EntriesOf, EntriesFor
    <2> QED
      BY <2>3, <2>4, FitsForest
  <1> QED
    BY <1>3, <1>4, <1>5

(* The last part of adding a document to an index: the entry, when the path  *)
(* to it is there or in the batch.                                           *)
LEMMA EntryShape ==
  ASSUME DistinctIndices, NEW docs \in Docs, Fits(index, docs),
         NEW id \in Ids, NEW d \in Documents, NEW i \in DOMAIN Indices,
         docs[id] = Missing \/ ~SameOn(Indices[i], docs[id], d),
         NEW G \in SUBSET DOMAIN Indices, i \notin G, NEW b, NEW R,
         Shape(b, EntriesOf(docs), EntriesIn(G, d, id) \cup {PathIn(i, d)}, R,
               EntriesFor(id, d), id),
         NEW nulls \in BOOLEAN, Indices[i].unique => ~nulls
  PROVE  Shape(AddEntry(b, Indices[i], d, id, nulls), EntriesOf(docs),
               EntriesIn(G \cup {i}, d, id), R, EntriesFor(id, d), id)
  <1> DEFINE E == EntriesOf(docs)
             F == EntriesFor(id, d)
             T == EntriesIn(G, d, id)
             U == T \cup {PathIn(i, d)}
             e == EntryAt(i, d, id)
             c == AddEntry(b, Indices[i], d, id, nulls)
  <1>1. /\ PathIn(i, d) \in Paths /\ e \in Paths /\ Leads(PathIn(i, d), e)
        /\ Len(PathIn(i, d)) >= 1
    <2>1. Size(i) \in Nat /\ Size(i) >= 1 /\ Len(PathIn(i, d)) = 2 * Size(i)
      BY IndexType, PathInType
    <2>2. Len(PathIn(i, d)) >= 1
      BY <2>1
    <2> QED
      BY <2>2, PathInType, EntryType
  <1>2. U \in SUBSET Paths
    BY <1>1, EntriesInType
  <1>3. e \in F /\ F \subseteq EntriesFor(id, d)
    BY DEF EntriesFor
  <1>4. PathIn(i, d) \in DOMAIN index \cup Above(U)
    BY <1>1, LeadsItself DEF Above
  <1>5. AtZero(i, d) \notin Above(U)
    BY ZeroNotAbove
  <1>6. ~Indices[i].unique => e \notin DOMAIN index
    BY PlaceTaken
  <1> HIDE DEF U, F, E, c
  <1>7. Shape(b, E, U, R, F, id)
    BY DEF E, U, F
  <1>8. Shape(c, E, U \cup {e}, R, F, id)
    BY <1>2, <1>3, <1>4, <1>5, <1>6, <1>7, AddEntryShape DEF c
  <1>9. Above(U \cup {e}) = Above(EntriesIn(G \cup {i}, d, id))
    <2>1. EntriesIn(G \cup {i}, d, id) = T \cup {e}
      BY DEF EntriesIn
    <2> HIDE DEF e, T
    <2>2. Above({PathIn(i, d)}) \subseteq Above({e})
      BY <1>1, LeadsOn DEF Above
    <2>3. /\ Above(U \cup {e}) = Above(U) \cup Above({e})
          /\ Above(U) = Above(T) \cup Above({PathIn(i, d)})
          /\ Above(T \cup {e}) = Above(T) \cup Above({e})
      BY AboveUnion DEF U
    <2> QED
      BY <2>1, <2>2, <2>3
  <1>10. Shape(c, E, EntriesIn(G \cup {i}, d, id), R, F, id)
    BY <1>8, <1>9, SameTargets
  <1> QED
    BY <1>10 DEF E, F, c

LEMMA AddStep ==
  ASSUME DistinctIndices, NoUniqueNulls, NEW docs \in Docs, Fits(index, docs),
         NEW id \in Ids, docs[id] = Missing, NEW d \in Documents, NEW i \in DOMAIN Indices,
         NEW G \in SUBSET DOMAIN Indices, i \notin G, NEW b,
         Shape(b, EntriesOf(docs), EntriesIn(G, d, id), {}, EntriesFor(id, d), id)
  PROVE  Shape(AddToIndex(b, Indices[i], d, id), EntriesOf(docs),
               EntriesIn(G \cup {i}, d, id), {}, EntriesFor(id, d), id)
  <1> DEFINE E == EntriesOf(docs)
             F == EntriesFor(id, d)
             T == EntriesIn(G, d, id)
             path == PathIn(i, d)
             c == Trees(b, path, 2)
  <1>1. /\ path \in Paths /\ Len(path) = 2 * Size(i) /\ Size(i) \in Nat /\ Size(i) >= 1
        /\ EntryAt(i, d, id) \in Paths /\ Leads(path, EntryAt(i, d, id))
    BY PathInType, IndexType, EntryType
  <1>2. 2 \in 2 .. Len(path) /\ 1 \in 0 .. Len(path)
    BY <1>1
  <1>3. SubSeq(path, 1, 2 - 1) \in DOMAIN index
    <2> DEFINE s == SubSeq(path, 1, 1)
    <2>1. s \in Paths /\ Len(s) = 1 /\ Leads(s, path)
      BY <1>1, <1>2, PrefixOfPath
    <2> HIDE DEF s, path
    <2>2. Leads(s, EntryAt(i, d, id))
      BY <1>1, <2>1, LeadsOn
    <2>3. s \in TopTrees
      BY <2>1, <2>2, TopOfEntry
    <2> QED
      BY <2>3 DEF Fits, s
  <1>4. T \in SUBSET Paths /\ F \subseteq EntriesFor(id, d)
    BY EntriesInType
  <1> HIDE DEF E, F, T
  <1>5. Shape(b, E, T, {}, F, id)
    BY DEF E, F, T
  <1>6. Shape(c, E, T \cup {path}, {}, F, id)
    BY <1>2, <1>3, <1>4, <1>5, TreesShape
  <1> HIDE DEF c
  <1>7. Shape(c, EntriesOf(docs), EntriesIn(G, d, id) \cup {PathIn(i, d)}, {},
              EntriesFor(id, d), id)
    BY <1>6 DEF E, F, T
  <1>8. /\ AnyNull(Indices[i], d) \in BOOLEAN
        /\ Indices[i].unique => ~AnyNull(Indices[i], d)
    BY NullsType
  <1>9. AddToIndex(b, Indices[i], d, id) = AddEntry(c, Indices[i], d, id, AnyNull(Indices[i], d))
    BY DEF AddToIndex, PathIn, c
  <1>10. Shape(AddEntry(c, Indices[i], d, id, AnyNull(Indices[i], d)), EntriesOf(docs),
               EntriesIn(G \cup {i}, d, id), {}, EntriesFor(id, d), id)
    BY <1>7, <1>8, EntryShape
  <1> QED
    BY <1>9, <1>10

LEMMA MoveStep ==
  ASSUME DistinctIndices, NoUniqueNulls, NEW docs \in Docs, Fits(index, docs),
         NEW id \in Ids, docs[id] # Missing, NEW d \in Documents, NEW i \in DOMAIN Indices,
         ~SameOn(Indices[i], docs[id], d),
         NEW G \in SUBSET DOMAIN Indices, i \notin G, NEW b,
         Shape(b, EntriesOf(docs), EntriesIn(G, d, id), EntriesIn(G, docs[id], id),
               EntriesFor(id, d), id)
  PROVE  Shape(MoveInIndex(b, Indices[i], docs[id], d, id), EntriesOf(docs),
               EntriesIn(G \cup {i}, d, id), EntriesIn(G \cup {i}, docs[id], id),
               EntriesFor(id, d), id)
  <1> DEFINE E == EntriesOf(docs)
             F == EntriesFor(id, d)
             T == EntriesIn(G, d, id)
             old == docs[id]
             R == EntriesIn(G, old, id)
             path == PathIn(i, d)
             U == T \cup {path}
             q == EntryAt(i, old, id)
             from == FirstTree(Indices[i], old, d)
             c == Trees(b, path, from)
             e == DeleteUpTreeWhileEmpty(c, q)
             nulls == AllNull(Indices[i], d)
  <1>0. old \in Documents /\ id \in StoredIn(docs)
    BY DEF Docs, StoredIn
  <1>1. /\ path \in Paths /\ Len(path) \in Nat /\ PathIn(i, old) \in Paths
        /\ EntryAt(i, d, id) \in Paths /\ Leads(path, EntryAt(i, d, id))
        /\ q \in Paths /\ Leads(PathIn(i, old), q)
    BY <1>0, PathInType, PathType, EntryType
  <1>2. from \in 2 .. Len(path) /\ (from = 2 \/ Leads(SubSeq(path, 1, from - 1), PathIn(i, old)))
    BY <1>0, FirstTreeType
  <1>3. q \in E /\ q \in DOMAIN index
    <2>1. q \in E
      BY <1>0 DEF EntriesOf, EntriesFor
    <2> QED
      BY <2>1, FitsForest
  <1>4. T \in SUBSET Paths /\ F \in SUBSET Paths /\ U \in SUBSET Paths
    <2>1. F = EntriesIn(DOMAIN Indices, d, id)
      BY DEF EntriesFor, EntriesIn
    <2> QED
      BY <1>1, <2>1, EntriesInType
  <1> HIDE DEF from
  <1>5. SubSeq(path, 1, from - 1) \in DOMAIN index
    <2> DEFINE s == SubSeq(path, 1, from - 1)
    <2>1. from - 1 \in 0 .. Len(path) /\ from - 1 >= 1
      BY <1>1, <1>2
    <2>2. s \in Paths /\ Len(s) = from - 1 /\ Leads(s, path)
      BY <1>1, <2>1, PrefixOfPath
    <2> HIDE DEF s, path
    <2>3. CASE from = 2
      <3>1. Leads(s, EntryAt(i, d, id)) /\ Len(s) = 1
        BY <1>1, <2>2, <2>3, LeadsOn
      <3>2. s \in TopTrees
        BY <2>2, <3>1, TopOfEntry
      <3> QED
        BY <3>2 DEF Fits, s
    <2>4. CASE Leads(s, PathIn(i, old))
      <3>1. Leads(s, q) /\ Len(s) >= 1
        BY <1>1, <2>1, <2>2, <2>4, LeadsOn
      <3> QED
        BY <1>3, <2>2, <3>1, FitsForest DEF s
    <2> QED
      BY <1>2, <2>3, <2>4 DEF s
  <1>6. Shape(c, E, U, R, F, id)
    <2> HIDE DEF E, F, T, R
    <2>1. Shape(b, E, T, R, F, id) /\ F \subseteq EntriesFor(id, d)
      BY DEF E, F, T, R
    <2> QED
      BY <1>2, <1>4, <1>5, <2>1, TreesShape
  <1>7. Above(U) \subseteq Above(F)
    <2>1. \A t \in U : \E f \in F : Leads(t, f)
      <3>1. \A t \in T : t \in F
        BY DEF EntriesIn, EntriesFor
      <3>2. EntryAt(i, d, id) \in F
        BY DEF EntriesFor
      <3> QED
        BY <1>1, <1>4, <3>1, <3>2, LeadsItself
    <2> HIDE DEF U, F
    <2> QED
      BY <1>4, <2>1, LeadsOn DEF Above
  <1>8. q \notin R
    <2> SUFFICES ASSUME NEW j \in G, q = EntryAt(j, old, id) PROVE FALSE
      BY DEF EntriesIn
    <2>1. Leads(EntryAt(i, old, id), EntryAt(j, old, id))
      BY <1>1, LeadsItself
    <2>2. i = j
      BY <1>0, <2>1, EntriesAreLeaves
    <2> QED
      BY <2>2
  <1>9. Shown(U, F, q)
    <2> SUFFICES ASSUME NEW p \in Above(F), Leads(p, q)
                 PROVE  Leads(p, path) /\ ~Leads(q, path) /\ ~Leads(path, q)
      BY DEF Shown
    <2>1. PICK j \in DOMAIN Indices : Leads(p, EntryAt(j, d, id)) /\ p \in Paths
      BY DEF Above, EntriesFor
    <2>2. Leads(p, path)
      BY <1>0, <2>1, StaysAbove
    <2> QED
      BY <1>0, <2>2, PathsOfIndexPart
  <1>10. Shape(e, E, U, R \cup {q}, F, id)
    <2> HIDE DEF F, U, R, q, c
    <2>1. Shape(c, EntriesOf(docs), U, R, F, id) /\ q \in EntriesOf(docs)
      BY <1>3, <1>6
    <2> QED
      BY <1>4, <1>7, <1>8, <1>9, <2>1, DeleteShape
  <1>11. R \cup {q} = EntriesIn(G \cup {i}, old, id)
    BY DEF EntriesIn
  <1>12. nulls \in BOOLEAN /\ (Indices[i].unique => ~nulls)
    BY NullsType
  <1>13. MoveInIndex(b, Indices[i], old, d, id) = AddEntry(e, Indices[i], d, id, nulls)
    BY RemoveEntryIs DEF MoveInIndex, PathIn, from
  <1> HIDE DEF e, nulls
  <1>14. Shape(e, EntriesOf(docs), EntriesIn(G, d, id) \cup {PathIn(i, d)},
               EntriesIn(G \cup {i}, old, id), EntriesFor(id, d), id)
    BY <1>10, <1>11
  <1>15. Shape(AddEntry(e, Indices[i], d, id, nulls), EntriesOf(docs),
               EntriesIn(G \cup {i}, d, id), EntriesIn(G \cup {i}, old, id), EntriesFor(id, d), id)
    BY <1>12, <1>14, EntryShape
  <1> QED
    BY <1>13, <1>15

LEMMA RemoveStep ==
  ASSUME DistinctIndices, NEW docs \in Docs, Fits(index, docs),
         NEW id \in Ids, docs[id] # Missing, NEW i \in DOMAIN Indices,
         NEW G \in SUBSET DOMAIN Indices, i \notin G, NEW b,
         Shape(b, EntriesOf(docs), {}, EntriesIn(G, docs[id], id), {}, id)
  PROVE  Shape(RemoveEntry(b, Indices[i], docs[id], id), EntriesOf(docs), {},
               EntriesIn(G \cup {i}, docs[id], id), {}, id)
  <1> DEFINE old == docs[id]
             q == EntryAt(i, old, id)
             R == EntriesIn(G, old, id)
             none == {}
  <1>1. old \in Documents /\ id \in StoredIn(docs)
    BY DEF Docs, StoredIn
  <1>2. q \in EntriesOf(docs) /\ q \in Paths
    BY <1>1, EntryType DEF EntriesOf, EntriesFor
  <1>3. q \notin R
    <2> SUFFICES ASSUME NEW j \in G, q = EntryAt(j, old, id) PROVE FALSE
      BY DEF EntriesIn
    <2>1. Leads(EntryAt(i, old, id), EntryAt(j, old, id))
      BY <1>2, LeadsItself
    <2>2. i = j
      BY <1>1, <2>1, EntriesAreLeaves
    <2> QED
      BY <2>2
  <1>4. none \in SUBSET Paths /\ Above(none) \subseteq Above(none) /\ Shown(none, none, q)
    BY DEF Shown, Above
  <1>5. R \cup {q} = EntriesIn(G \cup {i}, old, id)
    BY DEF EntriesIn
  <1>6. Shape(b, EntriesOf(docs), none, R, none, id)
    OBVIOUS
  <1> HIDE DEF none, R, q
  <1>7. Shape(DeleteUpTreeWhileEmpty(b, q), EntriesOf(docs), none, R \cup {q}, none, id)
    BY <1>2, <1>3, <1>4, <1>6, DeleteShape
  <1> QED
    BY <1>5, <1>7, RemoveEntryIs DEF none, q
-----------------------------------------------------------------------------
LEMMA IndicesType ==
  Len(Indices) \in Nat /\ DOMAIN Indices = 1 .. Len(Indices)
  BY IndicesAssumption, LenProperties

(* The batch of an insertion. *)
LEMMA InsertBatchShape ==
  ASSUME DistinctIndices, NoUniqueNulls, NEW docs \in Docs, Fits(index, docs),
         NEW id \in Ids, docs[id] = Missing, NEW d \in Documents
  PROVE  /\ Shape(InsertBatch(id, d), EntriesOf(docs), EntriesFor(id, d), {},
                  EntriesFor(id, d), id)
         /\ InsertBatch(id, d).failed =
              \E i \in DOMAIN Indices : Indices[i].unique /\ AtZero(i, d) \in DOMAIN index
  <1> DEFINE n == Len(Indices)
             Full(i) == Indices[i].unique /\ AtZero(i, d) \in DOMAIN index
  <1>1. n \in Nat /\ DOMAIN Indices = 1 .. n
    BY IndicesType
  <1>2. PICK run : /\ run \in [0 .. n -> Batch]
                   /\ run[0] = NewBatch /\ run[n] = InsertBatch(id, d)
                   /\ \A k \in 1 .. n : run[k] = AddToIndex(run[k - 1], Indices[k], d, id)
    BY InsertRun
  <1> HIDE DEF n, Full
  <1> DEFINE Good == {k \in 0 .. n :
                        /\ Shape(run[k], EntriesOf(docs), EntriesIn(1 .. k, d, id), {},
                                 EntriesFor(id, d), id)
                        /\ run[k].failed = \E i \in 1 .. k : Full(i)}
  <1>3. 0 \in Good
    <2>1. 1 .. 0 = {} /\ EntriesIn(1 .. 0, d, id) = {} /\ 0 \in 0 .. n
      BY <1>1 DEF EntriesIn
    <2>2. Shape(run[0], EntriesOf(docs), EntriesIn(1 .. 0, d, id), {}, EntriesFor(id, d), id)
      BY <1>2, <2>1, ShapeOfNone
    <2>3. run[0].failed = FALSE
      BY <1>2 DEF NewBatch
    <2> QED
      BY <2>1, <2>2, <2>3
  <1>4. ASSUME NEW k \in 0 .. n - 1, k \in Good PROVE k + 1 \in Good
    <2>1. /\ k + 1 \in DOMAIN Indices /\ k + 1 \in 1 .. n /\ k + 1 - 1 = k /\ k \in 0 .. n
          /\ k + 1 \in 0 .. n /\ 1 .. k \in SUBSET DOMAIN Indices /\ k + 1 \notin 1 .. k
          /\ (1 .. k) \cup {k + 1} = 1 .. k + 1
      BY <1>1
    <2>2. run[k + 1] = AddToIndex(run[k], Indices[k + 1], d, id) /\ run[k] \in Batch
      <3>1. run[k + 1] = AddToIndex(run[k + 1 - 1], Indices[k + 1], d, id) /\ run[k] \in Batch
        BY <1>2, <2>1
      <3> QED
        BY <2>1, <3>1
    <2>3. Shape(run[k + 1], EntriesOf(docs), EntriesIn((1 .. k) \cup {k + 1}, d, id), {},
                EntriesFor(id, d), id)
      <3> DEFINE b == run[k]
                 i == k + 1
                 G == 1 .. k
      <3>1. Shape(b, EntriesOf(docs), EntriesIn(G, d, id), {}, EntriesFor(id, d), id)
        BY <1>4
      <3>2. i \in DOMAIN Indices /\ G \in SUBSET DOMAIN Indices /\ i \notin G
        BY <2>1
      <3>3. run[k + 1] = AddToIndex(b, Indices[i], d, id)
        BY <2>2
      <3> HIDE DEF b, i, G
      <3>4. Shape(AddToIndex(b, Indices[i], d, id), EntriesOf(docs),
                  EntriesIn(G \cup {i}, d, id), {}, EntriesFor(id, d), id)
        BY <3>1, <3>2, AddStep
      <3> QED
        BY <3>3, <3>4 DEF i, G
    <2>4. run[k + 1].failed = (run[k].failed \/ Full(k + 1))
      BY <2>1, <2>2, AddToIndexFails DEF Full
    <2>5. run[k].failed = \E i \in 1 .. k : Full(i)
      BY <1>4
    <2>6. run[k + 1].failed = \E i \in 1 .. k + 1 : Full(i)
      <3>1. (\E i \in (1 .. k) \cup {k + 1} : Full(i)) =
              ((\E i \in 1 .. k : Full(i)) \/ Full(k + 1))
        OBVIOUS
      <3> QED
        BY <2>1, <2>4, <2>5, <3>1
    <2> QED
      BY <2>1, <2>3, <2>6
  <1>5. n \in Good
    <2> HIDE DEF Good
    <2>1. \A k \in 0 .. n - 1 : k \in Good => k + 1 \in Good
      BY <1>4
    <2>2. \A k \in 0 .. n : k \in Good
      BY <1>1, <1>3, <2>1, SegmentInduction
    <2> QED
      BY <1>1, <2>2
  <1>6. EntriesIn(1 .. n, d, id) = EntriesFor(id, d)
    BY <1>1 DEF EntriesIn, EntriesFor
  <1>7. /\ Shape(run[n], EntriesOf(docs), EntriesIn(1 .. n, d, id), {}, EntriesFor(id, d), id)
        /\ run[n].failed = \E i \in 1 .. n : Full(i)
    BY <1>5
  <1> QED
    BY <1>1, <1>2, <1>6, <1>7 DEF Full

(* The batch of an update: the indices in which the document moves. *)
Moved(old, d) == {i \in DOMAIN Indices : ~SameOn(Indices[i], old, d)}

LEMMA UpdateBatchShape ==
  ASSUME DistinctIndices, NoUniqueNulls, NEW docs \in Docs, Fits(index, docs),
         NEW id \in Ids, docs[id] # Missing, docs[id] = Current(id), NEW d \in Documents
  PROVE  /\ Shape(UpdateBatch(id, d), EntriesOf(docs), EntriesIn(Moved(docs[id], d), d, id),
                  EntriesIn(Moved(docs[id], d), docs[id], id), EntriesFor(id, d), id)
         /\ UpdateBatch(id, d).failed =
              \E i \in Moved(docs[id], d) : Indices[i].unique /\ AtZero(i, d) \in DOMAIN index
  <1> DEFINE n == Len(Indices)
             old == docs[id]
             Full(i) == Indices[i].unique /\ AtZero(i, d) \in DOMAIN index
             Upto(k) == {i \in 1 .. k : ~SameOn(Indices[i], old, d)}
  <1>1. n \in Nat /\ DOMAIN Indices = 1 .. n
    BY IndicesType
  <1>2. old \in Documents /\ Current(id) = old
    BY DEF Docs
  <1> HIDE DEF old
  <1>3. PICK run : /\ run \in [0 .. n -> Batch]
                   /\ run[0] = NewBatch /\ run[n] = UpdateBatch(id, d)
                   /\ \A k \in 1 .. n : run[k] = MoveInIndex(run[k - 1], Indices[k], old, d, id)
    BY <1>2, UpdateRun
  <1> HIDE DEF n, Full
  <1> DEFINE S(k) == Shape(run[k], EntriesOf(docs), EntriesIn(Upto(k), d, id),
                           EntriesIn(Upto(k), old, id), EntriesFor(id, d), id)
             Good == {k \in 0 .. n : S(k) /\ run[k].failed = \E i \in Upto(k) : Full(i)}
  <1>4. 0 \in Good
    <2>1. Upto(0) = {} /\ 0 \in 0 .. n
      BY <1>1
    <2>2. EntriesIn(Upto(0), d, id) = {} /\ EntriesIn(Upto(0), old, id) = {}
      BY <2>1 DEF EntriesIn
    <2>3. S(0)
      BY <1>3, <2>2, ShapeOfNone
    <2>4. run[0].failed = FALSE
      BY <1>3 DEF NewBatch
    <2> QED
      BY <2>1, <2>3, <2>4
  <1>5. ASSUME NEW k \in 0 .. n - 1, k \in Good PROVE k + 1 \in Good
    <2>1. /\ k + 1 \in DOMAIN Indices /\ k + 1 \in 1 .. n /\ k + 1 - 1 = k /\ k \in 0 .. n
          /\ k + 1 \in 0 .. n /\ 1 .. k \in SUBSET DOMAIN Indices /\ k + 1 \notin 1 .. k
          /\ (1 .. k) \cup {k + 1} = 1 .. k + 1
      BY <1>1
    <2>2. run[k + 1] = MoveInIndex(run[k], Indices[k + 1], old, d, id) /\ run[k] \in Batch
      <3>1. run[k + 1] = MoveInIndex(run[k + 1 - 1], Indices[k + 1], old, d, id) /\ run[k] \in Batch
        BY <1>3, <2>1
      <3> QED
        BY <2>1, <3>1
    <2>3. EntryAt(k + 1, old, id) \in DOMAIN index
      <3>1. EntryAt(k + 1, old, id) \in EntriesOf(docs)
        BY <2>1 DEF EntriesOf, EntriesFor, StoredIn, old
      <3> QED
        BY <3>1, FitsForest
    <2>4. run[k + 1].failed = (run[k].failed \/ (~SameOn(Indices[k + 1], old, d) /\ Full(k + 1)))
      BY <1>2, <2>1, <2>2, <2>3, MoveInIndexFails DEF Full
    <2>5. S(k) /\ run[k].failed = \E i \in Upto(k) : Full(i)
      BY <1>5
    <2>6. CASE SameOn(Indices[k + 1], old, d)
      <3>1. Upto(k + 1) = Upto(k)
        BY <2>1, <2>6
      <3>2. run[k + 1] = run[k]
        BY <2>2, <2>6 DEF MoveInIndex
      <3> QED
        BY <2>1, <2>5, <3>1, <3>2
    <2>7. CASE ~SameOn(Indices[k + 1], old, d)
      <3>1. Upto(k + 1) = Upto(k) \cup {k + 1}
        BY <2>1, <2>7
      <3>2. Upto(k) \in SUBSET DOMAIN Indices /\ k + 1 \notin Upto(k)
        BY <2>1
      <3> HIDE DEF Upto
      <3>3. S(k + 1)
        <4> DEFINE b == run[k]
                   i == k + 1
                   G == Upto(k)
        <4>1. Shape(b, EntriesOf(docs), EntriesIn(G, d, id), EntriesIn(G, docs[id], id),
                    EntriesFor(id, d), id)
          BY <2>5 DEF old
        <4>2. /\ i \in DOMAIN Indices /\ G \in SUBSET DOMAIN Indices /\ i \notin G
              /\ ~SameOn(Indices[i], docs[id], d)
          BY <2>1, <2>7, <3>2 DEF old
        <4>3. run[k + 1] = MoveInIndex(b, Indices[i], docs[id], d, id) /\ Upto(k + 1) = G \cup {i}
          BY <2>2, <3>1 DEF old
        <4> HIDE DEF b, i, G
        <4>4. Shape(MoveInIndex(b, Indices[i], docs[id], d, id), EntriesOf(docs),
                    EntriesIn(G \cup {i}, d, id), EntriesIn(G \cup {i}, docs[id], id),
                    EntriesFor(id, d), id)
          BY <4>1, <4>2, MoveStep
        <4> QED
          BY <4>3, <4>4 DEF old
      <3>4. (\E i \in Upto(k) \cup {k + 1} : Full(i)) =
              ((\E i \in Upto(k) : Full(i)) \/ Full(k + 1))
        OBVIOUS
      <3>5. run[k + 1].failed = \E i \in Upto(k + 1) : Full(i)
        BY <2>4, <2>5, <2>7, <3>1, <3>4
      <3> QED
        BY <2>1, <3>3, <3>5
    <2> QED
      BY <2>6, <2>7
  <1>6. n \in Good
    <2> HIDE DEF Good
    <2>1. \A k \in 0 .. n - 1 : k \in Good => k + 1 \in Good
      BY <1>5
    <2>2. \A k \in 0 .. n : k \in Good
      BY <1>1, <1>4, <2>1, SegmentInduction
    <2> QED
      BY <1>1, <2>2
  <1>7. Upto(n) = Moved(old, d)
    BY <1>1 DEF Moved
  <1> HIDE DEF Upto
  <1>8. S(n) /\ run[n].failed = \E i \in Upto(n) : Full(i)
    BY <1>6
  <1> QED
    BY <1>3, <1>7, <1>8 DEF Full, old

(* The batch of a deletion. *)
LEMMA DeleteBatchShape ==
  ASSUME DistinctIndices, NEW docs \in Docs, Fits(index, docs),
         NEW id \in Ids, docs[id] # Missing, docs[id] = Current(id)
  PROVE  /\ Shape(DeleteBatch(id), EntriesOf(docs), {}, EntriesFor(id, docs[id]), {}, id)
         /\ DeleteBatch(id).failed = FALSE
  <1> DEFINE n == Len(Indices)
             old == docs[id]
  <1>1. n \in Nat /\ DOMAIN Indices = 1 .. n
    BY IndicesType
  <1>2. old \in Documents /\ Current(id) = old
    BY DEF Docs
  <1> HIDE DEF old
  <1>3. PICK run : /\ run \in [0 .. n -> Batch]
                   /\ run[0] = NewBatch /\ run[n] = DeleteBatch(id)
                   /\ \A k \in 1 .. n : run[k] = RemoveEntry(run[k - 1], Indices[k], old, id)
    BY <1>2, DeleteRun
  <1> HIDE DEF n
  <1> DEFINE S(k) == Shape(run[k], EntriesOf(docs), {}, EntriesIn(1 .. k, old, id), {}, id)
             Good == {k \in 0 .. n : S(k) /\ run[k].failed = FALSE}
  <1>4. 0 \in Good
    <2>1. 1 .. 0 = {} /\ EntriesIn(1 .. 0, old, id) = {} /\ 0 \in 0 .. n
      BY <1>1 DEF EntriesIn
    <2>2. S(0)
      BY <1>3, <2>1, ShapeOfNone
    <2>3. run[0].failed = FALSE
      BY <1>3 DEF NewBatch
    <2> QED
      BY <2>1, <2>2, <2>3
  <1>5. ASSUME NEW k \in 0 .. n - 1, k \in Good PROVE k + 1 \in Good
    <2>1. /\ k + 1 \in DOMAIN Indices /\ k + 1 \in 1 .. n /\ k + 1 - 1 = k /\ k \in 0 .. n
          /\ k + 1 \in 0 .. n /\ 1 .. k \in SUBSET DOMAIN Indices /\ k + 1 \notin 1 .. k
          /\ (1 .. k) \cup {k + 1} = 1 .. k + 1
      BY <1>1
    <2>2. run[k + 1] = RemoveEntry(run[k], Indices[k + 1], old, id) /\ run[k] \in Batch
      <3>1. run[k + 1] = RemoveEntry(run[k + 1 - 1], Indices[k + 1], old, id) /\ run[k] \in Batch
        BY <1>3, <2>1
      <3> QED
        BY <2>1, <3>1
    <2>3. EntryAt(k + 1, old, id) \in DOMAIN index
      <3>1. EntryAt(k + 1, old, id) \in EntriesOf(docs)
        BY <2>1 DEF EntriesOf, EntriesFor, StoredIn, old
      <3> QED
        BY <3>1, FitsForest
    <2>4. S(k) /\ run[k].failed = FALSE
      BY <1>5
    <2>5. run[k + 1].failed = FALSE
      BY <1>2, <2>1, <2>2, <2>3, <2>4, RemoveEntryFails
    <2>6. S(k + 1)
      <3> DEFINE b == run[k]
                 i == k + 1
                 G == 1 .. k
      <3>1. Shape(b, EntriesOf(docs), {}, EntriesIn(G, docs[id], id), {}, id)
        BY <2>4 DEF old
      <3>2. i \in DOMAIN Indices /\ G \in SUBSET DOMAIN Indices /\ i \notin G
        BY <2>1
      <3>3. run[k + 1] = RemoveEntry(b, Indices[i], docs[id], id) /\ 1 .. k + 1 = G \cup {i}
        BY <2>1, <2>2 DEF old
      <3> HIDE DEF b, i, G
      <3>4. Shape(RemoveEntry(b, Indices[i], docs[id], id), EntriesOf(docs), {},
                  EntriesIn(G \cup {i}, docs[id], id), {}, id)
        BY <3>1, <3>2, RemoveStep
      <3> QED
        BY <3>3, <3>4 DEF old
    <2> QED
      BY <2>1, <2>5, <2>6
  <1>6. n \in Good
    <2> HIDE DEF Good
    <2>1. \A k \in 0 .. n - 1 : k \in Good => k + 1 \in Good
      BY <1>5
    <2>2. \A k \in 0 .. n : k \in Good
      BY <1>1, <1>4, <2>1, SegmentInduction
    <2> QED
      BY <1>1, <2>2
  <1>7. EntriesIn(1 .. n, old, id) = EntriesFor(id, old)
    BY <1>1 DEF EntriesIn, EntriesFor
  <1>8. S(n) /\ run[n].failed = FALSE
    BY <1>6
  <1> QED
    BY <1>3, <1>7, <1>8 DEF old
-----------------------------------------------------------------------------
(* What a batch of a known shape leaves when it is applied. *)
Leaves(idx, E, T, R, F, id) ==
  /\ DOMAIN idx = (DOMAIN index \ (Gone(E, R) \ Above(F))) \cup (Above(T) \ DOMAIN index)
  /\ \A p \in Above(T) \ DOMAIN index : idx[p] = IF p \in F THEN id ELSE Tree
  /\ \A p \in DOMAIN idx \cap DOMAIN index : idx[p] = index[p]

LEMMA AppliedBatch ==
  ASSUME NEW b, NEW E, NEW T, NEW R, NEW F, NEW id \in Ids, Shape(b, E, T, R, F, id), Apply(b)
  PROVE  Leaves(index', E, T, R, F, id)
  <1> DEFINE Ins == PathsOf(b, "insert")
             Del == PathsOf(b, "delete")
             I == {n \in DOMAIN b.ops : b.ops[n].kind = "insert"}
             El(p) == b.ops[CHOOSE n \in I : b.ops[n].path = p].element
  <1>1. Ins = Above(T) \ DOMAIN index /\ Del = Gone(E, R) \ Above(F) /\ Writes(b.ops, F, id)
    BY DEF Shape
  <1>2. index' = [p \in (DOMAIN index \ Del) \cup Ins |-> IF p \in Ins THEN El(p) ELSE index[p]]
    BY DEF Apply
  <1>3. ASSUME NEW p \in Ins PROVE El(p) = IF p \in F THEN id ELSE Tree
    <2>1. \E n \in I : b.ops[n].path = p
      BY <1>3, PathsOfOps
    <2> DEFINE n == CHOOSE n \in I : b.ops[n].path = p
    <2>2. n \in I /\ b.ops[n].path = p
      BY <2>1
    <2> HIDE DEF n
    <2>3. n \in DOMAIN b.ops /\ b.ops[n].kind = "insert" /\ b.ops[n].path = p
      BY <2>2
    <2>4. b.ops[n].element = IF p \in F THEN id ELSE Tree
      BY <1>1, <2>3 DEF Writes
    <2>5. El(p) = b.ops[n].element
      BY DEF n
    <2> QED
      BY <2>4, <2>5
  <1> HIDE DEF Ins, Del, El
  <1>4. /\ DOMAIN index' = (DOMAIN index \ Del) \cup Ins
        /\ \A p \in Ins : index'[p] = El(p)
        /\ \A p \in DOMAIN index \ Del : p \notin Ins => index'[p] = index[p]
    BY <1>2
  <1>5. \A p \in Above(T) \ DOMAIN index : index'[p] = IF p \in F THEN id ELSE Tree
    BY <1>1, <1>3, <1>4
  <1>6. \A p \in DOMAIN index' \cap DOMAIN index : index'[p] = index[p]
    BY <1>1, <1>4
  <1> QED
    BY <1>1, <1>4, <1>5, <1>6 DEF Leaves

(* The entries of the other documents. *)
EntriesBut(docs, id) == UNION {EntriesFor(other, docs[other]) : other \in StoredIn(docs) \ {id}}

LEMMA EntriesWith ==
  ASSUME DistinctIndices, NEW docs \in Docs, NEW idx, Fits(idx, docs), NEW id \in Ids
  PROVE  /\ docs[id] = Missing => EntriesOf(docs) = EntriesBut(docs, id)
         /\ docs[id] # Missing =>
              /\ EntriesOf(docs) = EntriesBut(docs, id) \cup EntriesFor(id, docs[id])
              /\ EntriesBut(docs, id) \cap EntriesFor(id, docs[id]) = {}
  <1>1. ASSUME docs[id] = Missing PROVE EntriesOf(docs) = EntriesBut(docs, id)
    <2>1. StoredIn(docs) = StoredIn(docs) \ {id}
      BY <1>1 DEF StoredIn
    <2> QED
      BY <2>1 DEF EntriesOf, EntriesBut
  <1>2. ASSUME docs[id] # Missing
        PROVE  EntriesOf(docs) = EntriesBut(docs, id) \cup EntriesFor(id, docs[id])
    <2>1. id \in StoredIn(docs)
      BY <1>2 DEF StoredIn
    <2>2. \A e : e \in EntriesOf(docs) <=>
                 e \in EntriesBut(docs, id) \cup EntriesFor(id, docs[id])
      BY <2>1 DEF EntriesOf, EntriesBut
    <2> QED
      BY <2>2
  <1>3. ASSUME docs[id] # Missing, NEW e \in EntriesBut(docs, id), e \in EntriesFor(id, docs[id])
        PROVE  FALSE
    <2>1. PICK other \in StoredIn(docs) \ {id} : e \in EntriesFor(other, docs[other])
      BY <1>3 DEF EntriesBut
    <2>2. PICK i \in DOMAIN Indices : e = EntryAt(i, docs[other], other)
      BY <2>1 DEF EntriesFor
    <2>3. PICK j \in DOMAIN Indices : e = EntryAt(j, docs[id], id)
      BY <1>3 DEF EntriesFor
    <2>4. id \in StoredIn(docs)
      BY <1>3 DEF StoredIn
    <2>5. idx[e] = other /\ idx[e] = id
      BY <2>1, <2>2, <2>3, <2>4 DEF Fits
    <2> QED
      BY <2>1, <2>5
  <1> QED
    BY <1>1, <1>2, <1>3

(* The documents after an operation on one of them. *)
After(docs, id, d) == [docs EXCEPT ![id] = d]

LEMMA EntriesAfter ==
  ASSUME NEW docs \in Docs, NEW id \in Ids, NEW d \in Documents \cup {Missing},
         NEW new, new = After(docs, id, d)
  PROVE  /\ new \in Docs
         /\ d = Missing => EntriesOf(new) = EntriesBut(docs, id)
         /\ d # Missing => EntriesOf(new) = EntriesBut(docs, id) \cup EntriesFor(id, d)
         /\ \A other \in StoredIn(new) \ {id} : other \in StoredIn(docs) /\ new[other] = docs[other]
         /\ id \in StoredIn(new) => new[id] = d /\ d \in Documents
  <1>1. new \in Docs /\ new[id] = d /\ \A other \in Ids \ {id} : new[other] = docs[other]
    BY DEF Docs, After
  <1>2. StoredIn(new) \ {id} = StoredIn(docs) \ {id}
    BY <1>1 DEF StoredIn
  <1>3. \A other \in StoredIn(docs) \ {id} : new[other] = docs[other]
    BY <1>1 DEF StoredIn
  <1>4. EntriesBut(new, id) = EntriesBut(docs, id)
    BY <1>2, <1>3 DEF EntriesBut
  <1>5. id \in StoredIn(new) <=> d # Missing
    BY <1>1 DEF StoredIn
  <1>6. /\ d = Missing => EntriesOf(new) = EntriesBut(new, id)
        /\ d # Missing => EntriesOf(new) = EntriesBut(new, id) \cup EntriesFor(id, d)
    <2>1. \A e : e \in EntriesOf(new) <=>
                 \/ e \in EntriesBut(new, id)
                 \/ id \in StoredIn(new) /\ e \in EntriesFor(id, new[id])
      BY DEF EntriesOf, EntriesBut
    <2> QED
      BY <1>1, <1>5, <2>1
  <1> QED
    BY <1>1, <1>2, <1>3, <1>4, <1>5, <1>6

LEMMA AtLeastTwo ==
  ASSUME NEW n \in Nat, n >= 1, n # 1
  PROVE  n >= 2
  OBVIOUS

(* A batch of the right shape leaves the index of the documents as they are  *)
(* after it: the entries R are gone and the entries F are there.             *)
LEMMA AppliedFits ==
  ASSUME DistinctIndices, NEW docs \in Docs, Fits(index, docs),
         NEW id \in Ids, NEW d \in Documents \cup {Missing},
         NEW F, d = Missing => F = {}, d # Missing => F = EntriesFor(id, d),
         NEW b, NEW T, NEW R, Shape(b, EntriesOf(docs), T, R, F, id), Apply(b),
         Above(T) \subseteq Above(F), Above(F) \subseteq Above(T) \cup DOMAIN index,
         \A f \in F \cap DOMAIN index : index[f] = id,
         NEW new, new = After(docs, id, d), EntriesOf(new) = (EntriesOf(docs) \ R) \cup F
  PROVE  Fits(index', new)
  <1> DEFINE E == EntriesOf(docs)
             G == Gone(E, R)
  <1>1. /\ DOMAIN index' = (DOMAIN index \ (G \ Above(F))) \cup (Above(T) \ DOMAIN index)
        /\ \A p \in Above(T) \ DOMAIN index : index'[p] = IF p \in F THEN id ELSE Tree
        /\ \A p \in DOMAIN index' \cap DOMAIN index : index'[p] = index[p]
    <2> HIDE DEF E, G
    <2>1. Shape(b, E, T, R, F, id) /\ G = Gone(E, R)
      BY DEF E, G
    <2>2. Leaves(index', E, T, R, F, id)
      BY <2>1, AppliedBatch
    <2> QED
      BY <2>1, <2>2 DEF Leaves
  <1>2. /\ new \in Docs
        /\ \A other \in StoredIn(new) \ {id} : other \in StoredIn(docs) /\ new[other] = docs[other]
        /\ id \in StoredIn(new) => new[id] = d /\ d \in Documents /\ d # Missing
    <2>1. \A other \in StoredIn(new) \ {id} : other \in StoredIn(docs) /\ new[other] = docs[other]
      BY EntriesAfter
    <2>2. new \in Docs /\ (id \in StoredIn(new) => new[id] = d /\ d \in Documents)
      BY EntriesAfter
    <2> QED
      BY <2>1, <2>2 DEF StoredIn
  <1>3. E \in SUBSET Paths /\ E \subseteq DOMAIN index
    BY EntriesOfType, FitsForest
  <1>4. \A p \in DOMAIN index : p \in Paths /\ Len(p) \in Nat /\ Len(p) >= 1
    BY FitsForest, PathType
  <1>5. Above(EntriesOf(new)) = Above(E \ R) \cup Above(F)
    BY AboveUnion
  <1> HIDE DEF E
  <1>6. ASSUME NEW p \in DOMAIN index' PROVE p \in TopTrees \cup Above(EntriesOf(new))
    <2>1. CASE p \in Above(F)
      BY <1>5, <2>1
    <2>2. CASE p \notin Above(F)
      <3>1. p \in DOMAIN index /\ p \notin G
        BY <1>1, <2>2
      <3>2. CASE Len(p) = 1
        BY <3>1, <3>2, FitsForest
      <3>3. CASE Len(p) # 1
        <4>1. PICK q \in E : Leads(p, q) /\ q \notin R
          <5>1. Len(p) \in Nat /\ Len(p) >= 1 /\ Len(p) # 1
            BY <1>4, <3>1, <3>3
          <5>2. Len(p) >= 2
            BY <5>1, AtLeastTwo
          <5> QED
            BY <3>1, <5>2 DEF Gone
        <4>2. p \in Above(E \ R)
          BY <1>4, <3>1, <4>1 DEF Above
        <4> QED
          BY <1>5, <4>2
      <3> QED
        BY <3>2, <3>3
    <2> QED
      BY <2>1, <2>2
  <1>7. ASSUME NEW p \in TopTrees PROVE p \in DOMAIN index'
    <2>1. p \in DOMAIN index /\ Len(p) = 1
      BY TopTreesType DEF Fits
    <2>2. ~(Len(p) >= 2)
      BY <2>1
    <2>3. p \notin G
      BY <2>2 DEF Gone
    <2> QED
      BY <1>1, <2>1, <2>3
  <1>8. ASSUME NEW p \in Above(EntriesOf(new)) PROVE p \in DOMAIN index'
    <2>1. CASE p \in Above(F)
      BY <1>1, <2>1
    <2>2. CASE p \in Above(E \ R)
      <3>1. PICK q \in E : q \notin R /\ Leads(p, q) /\ p \in Paths /\ Len(p) >= 1
        BY <2>2 DEF Above
      <3>2. p \in DOMAIN index
        BY <1>3, <3>1, FitsForest
      <3>3. p \notin G
        BY <3>1 DEF Gone
      <3> QED
        BY <1>1, <3>2, <3>3
    <2> QED
      BY <1>5, <2>1, <2>2
  <1>9. DOMAIN index' = TopTrees \cup Above(EntriesOf(new))
    BY <1>6, <1>7, <1>8
  <1>10. \A e \in EntriesOf(new) : e \in DOMAIN index'
    <2> TAKE e \in EntriesOf(new)
    <2>1. e \in Paths /\ Len(e) >= 1
      <3>1. PICK i \in DOMAIN Indices, o \in StoredIn(new) :
              o \in Ids /\ new[o] \in Documents /\ e = EntryAt(i, new[o], o)
        BY <1>2, EntriesOfType
      <3>2. /\ e \in Paths /\ Size(i) \in Nat
            /\ Len(e) = IF Indices[i].unique THEN 2 * Size(i) + 1 ELSE 2 * Size(i) + 2
        BY <3>1, EntryType, IndexType
      <3> QED
        BY <3>2
    <2>2. e \in Above(EntriesOf(new))
      BY <2>1, LeadsItself DEF Above
    <2> QED
      BY <1>9, <2>2
  <1>11. ASSUME NEW i \in DOMAIN Indices, NEW o \in StoredIn(new)
         PROVE  index'[EntryAt(i, new[o], o)] = o
    <2> DEFINE e == EntryAt(i, new[o], o)
    <2>1. e \in EntriesOf(new)
      BY DEF EntriesOf, EntriesFor
    <2>2. e \in DOMAIN index'
      BY <1>10, <2>1
    <2>3. CASE o # id
      <3>1. e = EntryAt(i, docs[o], o) /\ o \in StoredIn(docs)
        BY <1>2, <2>3
      <3>2. e \in E
        BY <3>1 DEF E, EntriesOf, EntriesFor
      <3>3. index[e] = o
        BY <3>1 DEF Fits
      <3> QED
        BY <1>1, <1>3, <2>2, <3>2, <3>3
    <2>4. CASE o = id
      <3>1. e \in F
        BY <1>2, <2>4 DEF EntriesFor
      <3> HIDE DEF e
      <3>2. CASE e \in DOMAIN index
        BY <1>1, <2>2, <2>4, <3>1, <3>2 DEF e
      <3>3. CASE e \notin DOMAIN index
        <4>1. e \in Above(T) \ DOMAIN index
          BY <1>1, <2>2, <3>3
        <4> QED
          BY <1>1, <2>4, <3>1, <4>1 DEF e
      <3> QED
        BY <3>2, <3>3
    <2> QED
      BY <2>3, <2>4
  <1>12. ASSUME NEW p \in DOMAIN index', p \notin EntriesOf(new) PROVE index'[p] = Tree
    <2>1. p \notin F
      BY <1>12
    <2>2. CASE p \notin DOMAIN index
      <3>1. p \in Above(T) \ DOMAIN index
        BY <1>1, <2>2
      <3> QED
        BY <1>1, <2>1, <3>1
    <2>3. CASE p \in DOMAIN index /\ p \notin E
      BY <1>1, <2>3 DEF Fits, E
    <2>4. CASE p \in E
      <3>1. p \in R
        BY <1>12, <2>4 DEF E
      <3>2. PICK i \in DOMAIN Indices, o \in StoredIn(docs) :
              o \in Ids /\ docs[o] \in Documents /\ p = EntryAt(i, docs[o], o)
        BY <2>4, EntriesOfType DEF E
      <3>3. p \in DOMAIN index /\ Len(p) >= 2
        <4>1. /\ Size(i) \in Nat /\ Size(i) >= 1
              /\ Len(p) = IF Indices[i].unique THEN 2 * Size(i) + 1 ELSE 2 * Size(i) + 2
          BY <3>2, EntryType, IndexType
        <4> QED
          BY <1>3, <2>4, <4>1
      <3>4. \A q \in E : Leads(p, q) => q \in R
        BY <2>4, <3>1, StoredLeaves DEF E
      <3>5. p \in G
        BY <3>3, <3>4 DEF Gone
      <3>6. p \in Above(F)
        BY <1>1, <3>3, <3>5
      <3>7. PICK f \in F : Leads(p, f)
        BY <3>6 DEF Above
      <3>8. d # Missing /\ d \in Documents /\ f \in EntriesFor(id, d)
        BY <3>7
      <3>9. PICK j \in DOMAIN Indices : f = EntryAt(j, d, id)
        BY <3>8 DEF EntriesFor
      <3>10. Leads(EntryAt(i, docs[o], o), EntryAt(j, d, id))
        BY <3>2, <3>7, <3>9
      <3>11. p = f
        BY <3>2, <3>8, <3>9, <3>10, EntriesAreLeaves
      <3> QED
        BY <2>1, <3>7, <3>11
    <2> QED
      BY <2>2, <2>3, <2>4
  <1> QED
    BY <1>9, <1>11, <1>12 DEF Fits

(* A batch of the right shape can be applied in any order. *)
LEMMA ShapeApplies ==
  ASSUME NEW E, NEW R, NEW F, NEW id, NEW T \in SUBSET Paths,
         NEW b, Shape(b, E, T, R, F, id), Above(T) \subseteq Above(F)
  PROVE  Applicable(b)
  <1>1. /\ Ordered(b.ops) /\ PathsOf(b, "insert") = Above(T) \ DOMAIN index
        /\ PathsOf(b, "delete") = Gone(E, R) \ Above(F)
    BY DEF Shape
  <1>2. ASSUME NEW n \in DOMAIN b.ops, b.ops[n].kind = "insert"
        PROVE  Front(b.ops[n].path) \notin PathsOf(b, "delete")
    <2> DEFINE p == b.ops[n].path
    <2>1. p \in Above(T)
      BY <1>1, <1>2, PathsOfOps
    <2>2. p \in Paths /\ Len(p) >= 1
      BY <2>1 DEF Above
    <2> HIDE DEF p
    <2>3. Front(p) \in Paths /\ Leads(Front(p), p) /\ Len(Front(p)) \in Nat
      BY <2>2, FrontOfPath, PathType
    <2>4. ASSUME Front(p) \in Gone(E, R) PROVE Front(p) \in Above(T)
      <3>1. Len(Front(p)) >= 1
        BY <2>3, <2>4 DEF Gone
      <3> QED
        BY <2>1, <2>3, <3>1, AboveAbove
    <2> QED
      BY <1>1, <2>4 DEF p
  <1> QED
    BY <1>1, <1>2 DEF Ordered, Applicable

(* Another document has the values of d in a unique index. *)
Clash(docs, id, d) ==
  \E i \in DOMAIN Indices, other \in Ids \ {id} :
    Indices[i].unique /\ docs[other] # Missing /\ SameOn(Indices[i], d, docs[other])

LEMMA AboveSome ==
  ASSUME NEW S, NEW T, S \subseteq T
  PROVE  Above(S) \subseteq Above(T)
  BY DEF Above

(* An insertion: its batch, when it fails and what it leaves. *)
LEMMA Insertion ==
  ASSUME DistinctIndices, NoUniqueNulls, NEW docs \in Docs, Fits(index, docs),
         NEW id \in Ids, docs[id] = Missing, NEW d \in Documents
  PROVE  /\ Applicable(InsertBatch(id, d))
         /\ InsertBatch(id, d).failed <=> Clash(docs, id, d)
         /\ ~InsertBatch(id, d).failed /\ Apply(InsertBatch(id, d)) =>
              Fits(index', After(docs, id, d))
  <1> DEFINE b == InsertBatch(id, d)
             E == EntriesOf(docs)
             F == EntriesFor(id, d)
             none == {}
  <1>1. F \in SUBSET Paths
    <2>1. F = EntriesIn(DOMAIN Indices, d, id)
      BY DEF EntriesFor, EntriesIn
    <2> QED
      BY <2>1, EntriesInType
  <1> HIDE DEF b, none
  <1>2. Shape(b, EntriesOf(docs), EntriesFor(id, d), none, EntriesFor(id, d), id)
    BY InsertBatchShape DEF b, none
  <1>3. b.failed = \E i \in DOMAIN Indices : Indices[i].unique /\ AtZero(i, d) \in DOMAIN index
    BY InsertBatchShape DEF b
  <1>4. Applicable(b)
    <2> HIDE DEF E, F
    <2>1. Shape(b, E, F, none, F, id)
      BY <1>2 DEF E, F
    <2> QED
      BY <1>1, <2>1, ShapeApplies
  <1>5. b.failed <=> Clash(docs, id, d)
    <2>1. \A i \in DOMAIN Indices : Indices[i].unique =>
            (AtZero(i, d) \in DOMAIN index <=>
               \E other \in Ids \ {id} :
                 docs[other] # Missing /\ SameOn(Indices[i], d, docs[other]))
      BY PlaceTaken
    <2> QED
      BY <1>3, <2>1 DEF Clash
  <1>6. ASSUME ~b.failed, Apply(b) PROVE Fits(index', After(docs, id, d))
    <2>1. \A f \in F : f \notin DOMAIN index
      <3> SUFFICES ASSUME NEW i \in DOMAIN Indices PROVE EntryAt(i, d, id) \notin DOMAIN index
        BY DEF EntriesFor
      <3>1. CASE Indices[i].unique
        BY <1>3, <1>6, <3>1 DEF EntryAt
      <3>2. CASE ~Indices[i].unique
        BY <3>2, PlaceTaken
      <3> QED
        BY <3>1, <3>2
    <2> DEFINE new == After(docs, id, d)
    <2>2. EntriesOf(new) = (E \ none) \cup F
      <3>1. d # Missing => EntriesOf(new) = EntriesBut(docs, id) \cup EntriesFor(id, d)
        BY EntriesAfter
      <3>2. E = EntriesBut(docs, id) /\ d # Missing
        BY EntriesWith, DocumentsAssumption
      <3> QED
        BY <3>1, <3>2 DEF none
    <2> HIDE DEF new, F
    <2>3. /\ d \in Documents \cup {Missing} /\ (d = Missing => F = {})
          /\ d # Missing => F = EntriesFor(id, d)
      BY DocumentsAssumption DEF F
    <2>4. Shape(b, EntriesOf(docs), F, none, F, id)
      BY <1>2 DEF F
    <2>5. /\ Above(F) \subseteq Above(F) /\ Above(F) \subseteq Above(F) \cup DOMAIN index
          /\ \A f \in F \cap DOMAIN index : index[f] = id
      BY <2>1
    <2>6. new = After(docs, id, d) /\ EntriesOf(new) = (EntriesOf(docs) \ none) \cup F
      BY <2>2 DEF new
    <2>7. Fits(index', new)
      BY <1>6, <2>3, <2>4, <2>5, <2>6, AppliedFits
    <2> QED
      BY <2>7 DEF new
  <1> QED
    BY <1>4, <1>5, <1>6 DEF b

(* Where an update leaves the values the entry stays the document's. *)
LEMMA Unmoved ==
  ASSUME DistinctIndices, NEW docs \in Docs, Fits(index, docs),
         NEW id \in Ids, docs[id] # Missing, NEW d \in Documents,
         NEW i \in DOMAIN Indices, SameOn(Indices[i], docs[id], d)
  PROVE  /\ EntryAt(i, d, id) = EntryAt(i, docs[id], id)
         /\ EntryAt(i, d, id) \in DOMAIN index /\ index[EntryAt(i, d, id)] = id
         /\ Indices[i].unique =>
              \A other \in Ids \ {id} : docs[other] # Missing => ~SameOn(Indices[i], d, docs[other])
  <1> DEFINE old == docs[id]
  <1>1. old \in Documents /\ id \in StoredIn(docs)
    BY DEF Docs, StoredIn
  <1>2. PathIn(i, old) = PathIn(i, d)
    BY <1>1, SamePathIn
  <1>3. EntryAt(i, d, id) = EntryAt(i, old, id)
    BY <1>2 DEF EntryAt, AtZero
  <1>4. index[EntryAt(i, old, id)] = id /\ EntryAt(i, old, id) \in EntriesOf(docs)
    BY <1>1 DEF Fits, EntriesOf, EntriesFor
  <1>5. EntryAt(i, old, id) \in DOMAIN index
    BY <1>4, FitsForest
  <1>6. ASSUME Indices[i].unique, NEW other \in Ids \ {id}, docs[other] # Missing,
               SameOn(Indices[i], d, docs[other])
        PROVE  FALSE
    <2>1. docs[other] \in Documents /\ other \in StoredIn(docs)
      BY <1>6 DEF Docs, StoredIn
    <2>2. PathIn(i, d) = PathIn(i, docs[other])
      BY <1>6, <2>1, SamePathIn
    <2>3. EntryAt(i, d, id) = EntryAt(i, docs[other], other)
      BY <1>6, <2>2 DEF EntryAt, AtZero
    <2>4. index[EntryAt(i, docs[other], other)] = other
      BY <2>1 DEF Fits
    <2> QED
      BY <1>3, <1>4, <1>6, <2>3, <2>4
  <1> QED
    BY <1>3, <1>4, <1>5, <1>6

(* An update. *)
LEMMA Change ==
  ASSUME DistinctIndices, NoUniqueNulls, NEW docs \in Docs, Fits(index, docs),
         NEW id \in Ids, docs[id] # Missing, docs[id] = Current(id), NEW d \in Documents
  PROVE  /\ Applicable(UpdateBatch(id, d))
         /\ UpdateBatch(id, d).failed <=> Clash(docs, id, d)
         /\ ~UpdateBatch(id, d).failed /\ Apply(UpdateBatch(id, d)) =>
              Fits(index', After(docs, id, d))
  <1> DEFINE b == UpdateBatch(id, d)
             E == EntriesOf(docs)
             F == EntriesFor(id, d)
             old == docs[id]
             M == Moved(old, d)
             T == EntriesIn(M, d, id)
             R == EntriesIn(M, old, id)
  <1>0. old \in Documents /\ M \in SUBSET DOMAIN Indices
    BY DEF Docs, Moved
  <1>1. F \in SUBSET Paths /\ T \in SUBSET Paths /\ T \subseteq F
    <2>1. F = EntriesIn(DOMAIN Indices, d, id)
      BY DEF EntriesFor, EntriesIn
    <2>2. T \subseteq F
      BY <1>0 DEF EntriesIn, EntriesFor
    <2> QED
      BY <1>0, <2>1, <2>2, EntriesInType
  <1> HIDE DEF b
  <1>2. Shape(b, EntriesOf(docs), EntriesIn(Moved(docs[id], d), d, id),
              EntriesIn(Moved(docs[id], d), docs[id], id), EntriesFor(id, d), id)
    BY UpdateBatchShape DEF b
  <1>3. b.failed = \E i \in M : Indices[i].unique /\ AtZero(i, d) \in DOMAIN index
    BY UpdateBatchShape DEF b
  <1>4. Above(T) \subseteq Above(F)
    BY <1>1, AboveSome
  <1>5. Applicable(b)
    <2> HIDE DEF E, F, T, R
    <2>1. Shape(b, E, T, R, F, id)
      BY <1>2 DEF E, F, T, R
    <2> QED
      BY <1>1, <1>4, <2>1, ShapeApplies
  <1>6. \A i \in DOMAIN Indices : i \notin M => SameOn(Indices[i], old, d)
    BY DEF Moved
  <1>7. \A i \in M : ~SameOn(Indices[i], old, d)
    BY DEF Moved
  <1>8. b.failed <=> Clash(docs, id, d)
    <2>1. \A i \in M : Indices[i].unique =>
            (AtZero(i, d) \in DOMAIN index <=>
               \E other \in Ids \ {id} :
                 docs[other] # Missing /\ SameOn(Indices[i], d, docs[other]))
      BY <1>0, <1>7, PlaceTaken
    <2>2. \A i \in DOMAIN Indices \ M : Indices[i].unique =>
            \A other \in Ids \ {id} : docs[other] # Missing => ~SameOn(Indices[i], d, docs[other])
      BY <1>6, Unmoved
    <2> HIDE DEF M
    <2> QED
      BY <1>0, <1>3, <2>1, <2>2 DEF Clash
  <1>9. ASSUME ~b.failed, Apply(b) PROVE Fits(index', After(docs, id, d))
    <2>1. \A f \in F : \/ f \in T /\ f \notin DOMAIN index
                       \/ f \in DOMAIN index /\ index[f] = id
      <3> SUFFICES ASSUME NEW i \in DOMAIN Indices
                   PROVE  LET f == EntryAt(i, d, id)
                          IN  \/ f \in T /\ f \notin DOMAIN index
                              \/ f \in DOMAIN index /\ index[f] = id
        BY DEF EntriesFor
      <3>1. CASE i \in M
        <4>1. EntryAt(i, d, id) \in T
          BY <3>1 DEF EntriesIn
        <4>2. EntryAt(i, d, id) \notin DOMAIN index
          <5>1. CASE Indices[i].unique
            BY <1>3, <1>9, <3>1, <5>1 DEF EntryAt
          <5>2. CASE ~Indices[i].unique
            BY <1>7, <3>1, <5>2, PlaceTaken
          <5> QED
            BY <5>1, <5>2
        <4> QED
          BY <4>1, <4>2
      <3>2. CASE i \notin M
        BY <1>6, <3>2, Unmoved
      <3> QED
        BY <3>1, <3>2
    <2>2. Above(F) \subseteq Above(T) \cup DOMAIN index
      <3> SUFFICES ASSUME NEW p \in Above(F) PROVE p \in Above(T) \cup DOMAIN index
        OBVIOUS
      <3>1. PICK f \in F : Leads(p, f) /\ p \in Paths /\ Len(p) >= 1
        BY DEF Above
      <3>2. f \in T => p \in Above(T)
        BY <3>1 DEF Above
      <3>3. f \in DOMAIN index => p \in DOMAIN index
        BY <3>1, FitsForest
      <3> QED
        BY <2>1, <3>1, <3>2, <3>3
    <2> DEFINE new == After(docs, id, d)
    <2>3. EntriesOf(new) = (E \ R) \cup F
      <3>1. d # Missing => EntriesOf(new) = EntriesBut(docs, id) \cup EntriesFor(id, d)
        BY EntriesAfter
      <3>2. d # Missing
        BY DocumentsAssumption
      <3>3. E = EntriesBut(docs, id) \cup EntriesFor(id, old)
        BY EntriesWith
      <3>4. EntriesBut(docs, id) \cap EntriesFor(id, old) = {}
        BY EntriesWith
      <3>5. R \subseteq EntriesFor(id, old)
        BY <1>0 DEF EntriesIn, EntriesFor
      <3>6. EntriesFor(id, old) \ R \subseteq F
        <4> SUFFICES ASSUME NEW i \in DOMAIN Indices, EntryAt(i, old, id) \notin R
                     PROVE  EntryAt(i, old, id) \in F
          BY DEF EntriesFor
        <4>1. i \notin M
          BY DEF EntriesIn
        <4>2. EntryAt(i, old, id) = EntryAt(i, d, id)
          BY <1>6, <4>1, Unmoved
        <4> QED
          BY <4>2 DEF EntriesFor
      <3> HIDE DEF new, E, R
      <3> QED
        BY <3>1, <3>2, <3>3, <3>4, <3>5, <3>6
    <2> HIDE DEF new, F, T, R
    <2>4. /\ d \in Documents \cup {Missing} /\ (d = Missing => F = {})
          /\ d # Missing => F = EntriesFor(id, d)
      BY DocumentsAssumption DEF F
    <2>5. Shape(b, EntriesOf(docs), T, R, F, id)
      BY <1>2 DEF F, T, R
    <2>6. \A f \in F \cap DOMAIN index : index[f] = id
      BY <2>1
    <2>7. new = After(docs, id, d) /\ EntriesOf(new) = (EntriesOf(docs) \ R) \cup F
      BY <2>3 DEF new
    <2>8. Fits(index', new)
      BY <1>4, <1>9, <2>2, <2>4, <2>5, <2>6, <2>7, AppliedFits
    <2> QED
      BY <2>8 DEF new
  <1> QED
    BY <1>5, <1>8, <1>9 DEF b

(* A deletion. *)
LEMMA Removal ==
  ASSUME DistinctIndices, NEW docs \in Docs, Fits(index, docs),
         NEW id \in Ids, docs[id] # Missing, docs[id] = Current(id)
  PROVE  /\ Applicable(DeleteBatch(id)) /\ ~DeleteBatch(id).failed
         /\ Apply(DeleteBatch(id)) => Fits(index', After(docs, id, Missing))
  <1> DEFINE b == DeleteBatch(id)
             E == EntriesOf(docs)
             R == EntriesFor(id, docs[id])
             none == {}
             new == After(docs, id, Missing)
  <1> HIDE DEF b, none, R
  <1>1. Shape(b, EntriesOf(docs), none, R, none, id)
    BY DeleteBatchShape DEF b, none, R
  <1>2. ~b.failed
    BY DeleteBatchShape DEF b
  <1>3. none \in SUBSET Paths /\ Above(none) \subseteq Above(none)
    BY DEF none
  <1>4. Applicable(b)
    BY <1>1, <1>3, ShapeApplies
  <1>5. EntriesOf(new) = (EntriesOf(docs) \ R) \cup none
    <2>1. EntriesOf(new) = EntriesBut(docs, id)
      BY EntriesAfter
    <2>2. E = EntriesBut(docs, id) \cup EntriesFor(id, docs[id])
      BY EntriesWith
    <2>3. EntriesBut(docs, id) \cap EntriesFor(id, docs[id]) = {}
      BY EntriesWith
    <2> QED
      BY <2>1, <2>2, <2>3 DEF none, R
  <1>6. ASSUME Apply(b) PROVE Fits(index', After(docs, id, Missing))
    <2>1. /\ Missing \in Documents \cup {Missing} /\ (Missing = Missing => none = {})
          /\ (Missing # Missing => none = EntriesFor(id, Missing))
      BY DEF none
    <2>2. /\ Above(none) \subseteq Above(none) \cup DOMAIN index
          /\ \A f \in none \cap DOMAIN index : index[f] = id
      BY DEF none
    <2> HIDE DEF new
    <2>3. new = After(docs, id, Missing)
      BY DEF new
    <2>4. Fits(index', new)
      BY <1>1, <1>3, <1>5, <1>6, <2>1, <2>2, <2>3, AppliedFits
    <2> QED
      BY <2>3, <2>4
  <1> QED
    BY <1>2, <1>4, <1>6 DEF b
-----------------------------------------------------------------------------
(* The documents stored, and what primary storage may hold of one.          *)
Present == [id \in Ids |-> Current(id)]
Kept == {x \in PrimaryElements : x.latest \in DOMAIN x.versions}
PrimaryOK == primary \in [Ids -> Kept \cup {Missing}]

LEMMA PresentType ==
  ASSUME PrimaryOK
  PROVE  /\ Present \in Docs
         /\ \A id \in Ids : /\ Present[id] = Current(id)
                            /\ Present[id] = Missing <=> primary[id] = Missing
  <1>1. ASSUME NEW id \in Ids, primary[id] # Missing
        PROVE  Current(id) \in Documents /\ Current(id) # Missing
    <2> DEFINE x == primary[id]
    <2>1. x \in PrimaryElements /\ x.latest \in DOMAIN x.versions
      BY <1>1 DEF PrimaryOK, Kept
    <2>2. x.versions \in Versions
      BY <2>1 DEF PrimaryElements
    <2>3. PICK T \in SUBSET (Times \cup {Missing}) : x.versions \in [T -> Documents]
      BY <2>2 DEF Versions
    <2>4. x.versions[x.latest] \in Documents
      BY <2>1, <2>3
    <2>5. Current(id) = x.versions[x.latest]
      BY <1>1 DEF Current
    <2> HIDE DEF x
    <2> QED
      BY <2>4, <2>5, DocumentsAssumption
  <1>2. \A id \in Ids : primary[id] = Missing => Current(id) = Missing
    BY DEF Current
  <1> QED
    BY <1>1, <1>2 DEF Present, Docs

(* A write adds the version of its block to the versions there. *)
LEMMA StoredType ==
  ASSUME PrimaryOK, NEW id \in Ids, NEW d \in Documents, NEW time \in Times
  PROVE  LET x == Stored(id, d, time)
         IN  /\ x \in Kept /\ x # Missing /\ x.versions[x.latest] = d
             /\ primary[id] # Missing =>
                  /\ DOMAIN primary[id].versions \subseteq DOMAIN x.versions
                  /\ \A t \in DOMAIN primary[id].versions :
                       t # x.latest => x.versions[t] = primary[id].versions[t]
  <1> DEFINE now == VersionAt(time)
             old == IF primary[id] = Missing THEN <<>> ELSE primary[id].versions
             new == [t \in {now} \cup DOMAIN old |-> IF t = now THEN d ELSE old[t]]
             x == Stored(id, d, time)
  <1>1. now \in Times \cup {Missing}
    BY DEF VersionAt
  <1>2. PICK T \in SUBSET (Times \cup {Missing}) : old \in [T -> Documents]
    <2>1. CASE primary[id] = Missing
      <3>1. old \in [{} -> Documents]
        BY <2>1
      <3> QED
        BY <3>1
    <2>2. CASE primary[id] # Missing
      <3>1. primary[id] \in PrimaryElements
        BY <2>2 DEF PrimaryOK, Kept
      <3>2. primary[id].versions \in Versions
        BY <3>1 DEF PrimaryElements
      <3> QED
        BY <2>2, <3>2 DEF Versions
    <2> QED
      BY <2>1, <2>2
  <1>3. x = [versions |-> new, latest |-> now]
    BY DEF Stored
  <1> HIDE DEF now, old
  <1>4. /\ DOMAIN new = {now} \cup T /\ DOMAIN old = T /\ new[now] = d
        /\ \A t \in T : t # now => new[t] = old[t]
        /\ new \in [{now} \cup T -> Documents]
    BY <1>2
  <1>5. new \in Versions
    <2> DEFINE U == {now} \cup T
    <2>1. U \in SUBSET (Times \cup {Missing}) /\ new \in [U -> Documents]
      BY <1>1, <1>4
    <2> HIDE DEF U, new
    <2> QED
      BY <2>1 DEF Versions
  <1> HIDE DEF new, x
  <1>6. x.versions = new /\ x.latest = now /\ x \in PrimaryElements
    BY <1>1, <1>3, <1>5 DEF PrimaryElements
  <1>7. x \in Kept /\ x # Missing /\ x.versions[x.latest] = d
    BY <1>4, <1>6, ElementsAssumption DEF Kept
  <1>8. primary[id] # Missing => old = primary[id].versions
    BY DEF old
  <1> QED
    BY <1>4, <1>6, <1>7, <1>8 DEF x

LEMMA Finished ==
  ASSUME PrimaryOK, NEW b, NEW id \in Ids, NEW x \in Kept \cup {Missing}, Finish(b, id, x)
  PROVE  /\ b.failed => outcome' = "error" /\ UNCHANGED <<primary, index>>
         /\ ~b.failed => /\ Apply(b) /\ outcome' = "ok" /\ PrimaryOK'
                         /\ primary' = [primary EXCEPT ![id] = x]
                         /\ x = Missing => Present' = After(Present, id, Missing)
                         /\ x # Missing => Present' = After(Present, id, x.versions[x.latest])
  <1>1. ASSUME b.failed PROVE outcome' = "error" /\ UNCHANGED <<primary, index>>
    BY <1>1 DEF Finish
  <1>2. ASSUME ~b.failed
        PROVE  Apply(b) /\ outcome' = "ok" /\ primary' = [primary EXCEPT ![id] = x]
    BY <1>2 DEF Finish
  <1>3. ASSUME ~b.failed PROVE PrimaryOK'
    BY <1>2, <1>3 DEF PrimaryOK
  <1>4. ASSUME ~b.failed
        PROVE  Present' = After(Present, id, IF x = Missing THEN Missing ELSE x.versions[x.latest])
    <2>1. primary'[id] = x /\ \A other \in Ids \ {id} : primary'[other] = primary[other]
      BY <1>2, <1>4 DEF PrimaryOK
    <2>2. Present' = [other \in Ids |->
                        IF primary'[other] = Missing THEN Missing
                        ELSE primary'[other].versions[primary'[other].latest]]
      BY DEF Present, Current
    <2>3. Present = [other \in Ids |->
                       IF primary[other] = Missing THEN Missing
                       ELSE primary[other].versions[primary[other].latest]]
      BY DEF Present, Current
    <2> QED
      BY <2>1, <2>2, <2>3 DEF After
  <1> QED
    BY <1>1, <1>2, <1>3, <1>4
-----------------------------------------------------------------------------
(* With history an id is not added again: the code does not look whether it  *)
(* is new, and the entries of the document that is there would stay.         *)
AddsOnce == KeepsHistory => "addAgain" \notin Operations

(* The inductive invariant: the index is that of the stored documents, tree  *)
(* by tree.                                                                  *)
StoreInv ==
  /\ PrimaryOK
  /\ Fits(index, Present)
  /\ outcome \in {"none", "ok", "error", "panicked"}

LEMMA StoreInit ==
  ASSUME Init
  PROVE  StoreInv
  <1>1. PrimaryOK
    BY DEF Init, PrimaryOK
  <1>2. StoredIn(Present) = {}
    BY <1>1, PresentType DEF Init, StoredIn
  <1>3. EntriesOf(Present) = {}
    BY <1>2 DEF EntriesOf
  <1>4. Above(EntriesOf(Present)) = {}
    BY <1>3 DEF Above
  <1>5. Fits(index, Present)
    BY <1>2, <1>4 DEF Init, Fits
  <1> QED
    BY <1>1, <1>5 DEF Init, StoreInv

(* What changes when nothing is written. *)
LEMMA NothingWritten ==
  ASSUME StoreInv, UNCHANGED <<primary, index>>, outcome' \in {"none", "ok", "error", "panicked"}
  PROVE  StoreInv' /\ Present' = Present
  <1>1. Present' = Present
    BY DEF Present, Current
  <1>2. PrimaryOK' = PrimaryOK
    BY DEF PrimaryOK
  <1>3. Fits(index', Present')
    BY <1>1 DEF StoreInv
  <1> QED
    BY <1>1, <1>2, <1>3 DEF StoreInv

(* Each operation: what it leaves in the database, in the index and in the   *)
(* map of documents.                                                         *)
Done(id, d) == outcome' = "ok" /\ Present' = After(Present, id, d)
Undone == outcome' = "error" /\ Present' = Present

LEMMA Inserted ==
  ASSUME DistinctIndices, NoUniqueNulls, StoreInv, NEW id \in Ids, primary[id] = Missing,
         NEW d \in Documents, NEW time \in Times,
         Finish(InsertBatch(id, d), id, Stored(id, d, time))
  PROVE  StoreInv' /\ IF Clash(Present, id, d) THEN Undone ELSE Done(id, d)
  <1> DEFINE b == InsertBatch(id, d)
             x == Stored(id, d, time)
             docs == Present
  <1>1. docs \in Docs /\ docs[id] = Missing /\ PrimaryOK /\ Fits(index, docs)
    BY PresentType DEF StoreInv
  <1>2. x \in Kept /\ x # Missing /\ x.versions[x.latest] = d
    BY <1>1, StoredType
  <1> HIDE DEF b, x, docs
  <1>3. /\ b.failed <=> Clash(docs, id, d)
        /\ ~b.failed /\ Apply(b) => Fits(index', After(docs, id, d))
    BY <1>1, Insertion DEF b
  <1>4. Finish(b, id, x)
    BY DEF b, x
  <1>5. CASE b.failed
    <2>1. outcome' = "error" /\ UNCHANGED <<primary, index>>
      BY <1>1, <1>2, <1>4, <1>5, Finished
    <2>2. StoreInv' /\ Present' = Present
      BY <2>1, NothingWritten
    <2> QED
      BY <1>3, <1>5, <2>1, <2>2 DEF Undone, docs
  <1>6. CASE ~b.failed
    <2>1. Apply(b) /\ outcome' = "ok" /\ PrimaryOK'
      BY <1>1, <1>2, <1>4, <1>6, Finished
    <2>2. Present' = After(Present, id, d)
      BY <1>1, <1>2, <1>4, <1>6, Finished
    <2>3. Fits(index', Present')
      BY <1>3, <1>6, <2>1, <2>2 DEF docs
    <2> QED
      BY <1>3, <1>6, <2>1, <2>2, <2>3 DEF Done, StoreInv, docs
  <1> QED
    BY <1>5, <1>6

LEMMA Updated ==
  ASSUME DistinctIndices, NoUniqueNulls, StoreInv, NEW id \in Ids, primary[id] # Missing,
         NEW d \in Documents, NEW time \in Times,
         Finish(UpdateBatch(id, d), id, Stored(id, d, time))
  PROVE  StoreInv' /\ IF Clash(Present, id, d) THEN Undone ELSE Done(id, d)
  <1> DEFINE b == UpdateBatch(id, d)
             x == Stored(id, d, time)
             docs == Present
  <1>1. /\ docs \in Docs /\ docs[id] # Missing /\ docs[id] = Current(id)
        /\ PrimaryOK /\ Fits(index, docs)
    BY PresentType DEF StoreInv
  <1>2. x \in Kept /\ x # Missing /\ x.versions[x.latest] = d
    BY <1>1, StoredType
  <1> HIDE DEF b, x, docs
  <1>3. /\ b.failed <=> Clash(docs, id, d)
        /\ ~b.failed /\ Apply(b) => Fits(index', After(docs, id, d))
    BY <1>1, Change DEF b
  <1>4. Finish(b, id, x)
    BY DEF b, x
  <1>5. CASE b.failed
    <2>1. outcome' = "error" /\ UNCHANGED <<primary, index>>
      BY <1>1, <1>2, <1>4, <1>5, Finished
    <2>2. StoreInv' /\ Present' = Present
      BY <2>1, NothingWritten
    <2> QED
      BY <1>3, <1>5, <2>1, <2>2 DEF Undone, docs
  <1>6. CASE ~b.failed
    <2>1. Apply(b) /\ outcome' = "ok" /\ PrimaryOK'
      BY <1>1, <1>2, <1>4, <1>6, Finished
    <2>2. Present' = After(Present, id, d)
      BY <1>1, <1>2, <1>4, <1>6, Finished
    <2>3. Fits(index', Present')
      BY <1>3, <1>6, <2>1, <2>2 DEF docs
    <2> QED
      BY <1>3, <1>6, <2>1, <2>2, <2>3 DEF Done, StoreInv, docs
  <1> QED
    BY <1>5, <1>6

LEMMA Deleted ==
  ASSUME DistinctIndices, StoreInv, NEW id \in Ids, primary[id] # Missing,
         Finish(DeleteBatch(id), id, Missing)
  PROVE  StoreInv' /\ Done(id, Missing)
  <1> DEFINE b == DeleteBatch(id)
             docs == Present
  <1>1. /\ docs \in Docs /\ docs[id] # Missing /\ docs[id] = Current(id)
        /\ PrimaryOK /\ Fits(index, docs)
    BY PresentType DEF StoreInv
  <1> HIDE DEF b, docs
  <1>2. ~b.failed /\ (Apply(b) => Fits(index', After(docs, id, Missing)))
    BY <1>1, Removal DEF b
  <1>3. Finish(b, id, Missing) /\ Missing \in Kept \cup {Missing}
    BY DEF b
  <1>4. Apply(b) /\ outcome' = "ok" /\ PrimaryOK'
    BY <1>1, <1>2, <1>3, Finished
  <1>5. Present' = After(Present, id, Missing)
    BY <1>1, <1>2, <1>3, Finished
  <1>6. Fits(index', Present')
    BY <1>2, <1>4, <1>5 DEF docs
  <1> QED
    BY <1>4, <1>5, <1>6 DEF Done, StoreInv
-----------------------------------------------------------------------------
(* The operations, each as the map of documents sees it. *)
LEMMA WasRefused ==
  ASSUME StoreInv, Refused
  PROVE  StoreInv' /\ Undone
  <1>1. UNCHANGED <<primary, index>> /\ outcome' = "error"
    BY DEF Refused
  <1> QED
    BY <1>1, NothingWritten DEF Undone

LEMMA AddResult ==
  ASSUME DistinctIndices, NoUniqueNulls, AddsOnce, StoreInv,
         NEW id \in Ids, NEW d \in Documents, NEW time \in Times, AddDocument(id, d, time)
  PROVE  /\ StoreInv'
         /\ IF primary[id] = Missing /\ ~Clash(Present, id, d) THEN Done(id, d) ELSE Undone
  <1>1. CASE primary[id] = Missing
    <2>1. Finish(InsertBatch(id, d), id, Stored(id, d, time))
      BY <1>1 DEF AddDocument
    <2> QED
      BY <1>1, <2>1, Inserted
  <1>2. CASE primary[id] # Missing
    <2>1. ~KeepsHistory
      BY <1>2 DEF AddDocument, AddsOnce
    <2>2. Refused
      BY <1>2, <2>1 DEF AddDocument
    <2> QED
      BY <1>2, <2>2, WasRefused
  <1> QED
    BY <1>1, <1>2

LEMMA UpdateResult ==
  ASSUME DistinctIndices, NoUniqueNulls, StoreInv,
         NEW id \in Ids, NEW d \in Documents, NEW time \in Times, WriteUpdate(id, d, time)
  PROVE  /\ StoreInv'
         /\ IF Mutable /\ primary[id] # Missing /\ ~Clash(Present, id, d)
            THEN Done(id, d) ELSE Undone
  <1>1. CASE ~Mutable \/ primary[id] = Missing
    <2>1. Refused
      BY <1>1 DEF WriteUpdate
    <2> QED
      BY <1>1, <2>1, WasRefused
  <1>2. CASE Mutable /\ primary[id] # Missing
    <2>1. Finish(UpdateBatch(id, d), id, Stored(id, d, time))
      BY <1>2 DEF WriteUpdate
    <2> QED
      BY <1>2, <2>1, Updated
  <1> QED
    BY <1>1, <1>2, FlagsAssumption

LEMMA OverrideResult ==
  ASSUME DistinctIndices, NoUniqueNulls, StoreInv,
         NEW id \in Ids, NEW d \in Documents, NEW time \in Times, OverrideDocument(id, d, time)
  PROVE  /\ StoreInv'
         /\ IF (primary[id] = Missing \/ Mutable) /\ ~Clash(Present, id, d)
            THEN Done(id, d) ELSE Undone
  <1>1. CASE primary[id] = Missing
    <2>1. Finish(InsertBatch(id, d), id, Stored(id, d, time))
      BY <1>1 DEF OverrideDocument
    <2> QED
      BY <1>1, <2>1, Inserted
  <1>2. CASE primary[id] # Missing
    <2>1. WriteUpdate(id, d, time)
      BY <1>2 DEF OverrideDocument
    <2> QED
      BY <1>2, <2>1, UpdateResult
  <1> QED
    BY <1>1, <1>2

LEMMA DeleteResult ==
  ASSUME DistinctIndices, StoreInv, NEW id \in Ids, DeleteDocument(id)
  PROVE  /\ StoreInv'
         /\ IF ~Mutable \/ primary[id] = Missing THEN Undone
            ELSE IF KeepsHistory THEN outcome' = "panicked" /\ Present' = Present
            ELSE Done(id, Missing)
  <1>1. CASE ~Mutable \/ primary[id] = Missing
    <2>1. Refused
      BY <1>1 DEF DeleteDocument
    <2> QED
      BY <1>1, <2>1, WasRefused
  <1>2. CASE Mutable /\ primary[id] # Missing /\ KeepsHistory
    <2>1. outcome' = "panicked" /\ UNCHANGED <<primary, index>>
      BY <1>2 DEF DeleteDocument
    <2> QED
      BY <1>2, <2>1, NothingWritten
  <1>3. CASE Mutable /\ primary[id] # Missing /\ ~KeepsHistory
    <2>1. Finish(DeleteBatch(id), id, Missing)
      BY <1>3 DEF DeleteDocument
    <2> QED
      BY <1>3, <2>1, Deleted
  <1> QED
    BY <1>1, <1>2, <1>3, FlagsAssumption

LEMMA StoreStep ==
  ASSUME DistinctIndices, NoUniqueNulls, AddsOnce, StoreInv, [Next]_storeVars
  PROVE  StoreInv'
  <1>1. ASSUME UNCHANGED storeVars PROVE StoreInv'
    <2>1. UNCHANGED <<primary, index>> /\ outcome' \in {"none", "ok", "error", "panicked"}
      BY <1>1 DEF storeVars, StoreInv
    <2> QED
      BY <2>1, NothingWritten
  <1>2. ASSUME NEW id \in Ids, NEW d \in Documents, NEW time \in Times, AddDocument(id, d, time)
        PROVE  StoreInv'
    BY <1>2, AddResult
  <1>3. ASSUME NEW id \in Ids, NEW d \in Documents, NEW time \in Times, UpdateDocument(id, d, time)
        PROVE  StoreInv'
    BY <1>3, UpdateResult DEF UpdateDocument
  <1>4. ASSUME NEW id \in Ids, NEW d \in Documents, NEW time \in Times,
               OverrideDocument(id, d, time)
        PROVE  StoreInv'
    BY <1>4, OverrideResult
  <1>5. ASSUME NEW id \in Ids, DeleteDocument(id) PROVE StoreInv'
    BY <1>5, DeleteResult
  <1> QED
    BY <1>1, <1>2, <1>3, <1>4, <1>5 DEF Next

(* The invariant of every behaviour, from which the theorems below follow:   *)
(* whatever was added, changed and deleted, the index has the trees and the  *)
(* entries the stored documents call for, and no others.                     *)
THEOREM StoreInvariant ==
  ASSUME DistinctIndices, NoUniqueNulls, AddsOnce
  PROVE  Spec => []StoreInv
  <1>1. Init => StoreInv
    BY StoreInit
  <1>2. StoreInv /\ [Next]_storeVars => StoreInv'
    BY StoreStep
  <1> QED
    BY <1>1, <1>2, PTL DEF Spec
-----------------------------------------------------------------------------
(* Every variable holds a value of its type, and what is in the index is in  *)
(* a tree of it.                                                             *)
THEOREM StoreTypes ==
  ASSUME DistinctIndices, NoUniqueNulls, AddsOnce
  PROVE  Spec => []TypeOK
  <1>1. ASSUME StoreInv PROVE TypeOK
    <2>1. Present \in Docs /\ PrimaryOK /\ Fits(index, Present)
      BY <1>1, PresentType DEF StoreInv
    <2>2. ASSUME NEW id \in Ids, primary[id] # Missing
          PROVE  /\ primary[id] \in PrimaryElements
                 /\ primary[id].latest \in DOMAIN primary[id].versions
      BY <2>1, <2>2 DEF PrimaryOK, Kept
    <2>3. ASSUME NEW p \in DOMAIN index
          PROVE  /\ index[p] \in Ids \cup {Tree}
                 /\ Len(p) > 1 => Front(p) \in DOMAIN index /\ index[Front(p)] = Tree
      <3>1. p \in Paths /\ Len(p) \in Nat /\ Len(p) >= 1
        BY <2>1, <2>3, FitsForest, PathType
      <3>2. index[p] \in Ids \cup {Tree}
        <4>1. CASE p \in EntriesOf(Present)
          <5>1. PICK i \in DOMAIN Indices, o \in StoredIn(Present) :
                  o \in Ids /\ p = EntryAt(i, Present[o], o)
            BY <2>1, <4>1, EntriesOfType
          <5> QED
            BY <2>1, <5>1 DEF Fits
        <4>2. CASE p \notin EntriesOf(Present)
          BY <2>1, <2>3, <4>2 DEF Fits
        <4> QED
          BY <4>1, <4>2
      <3>3. ASSUME Len(p) > 1 PROVE Front(p) \in DOMAIN index /\ index[Front(p)] = Tree
        <4>1. Front(p) \in Paths /\ Len(Front(p)) = Len(p) - 1 /\ Leads(Front(p), p)
          BY <3>1, FrontOfPath
        <4>2. Len(Front(p)) >= 1 /\ Len(p) # 1 /\ Len(Front(p)) # Len(p)
          BY <3>1, <3>3, <4>1
        <4>3. Front(p) \in DOMAIN index
          BY <2>1, <2>3, <4>1, <4>2, FitsForest
        <4>4. PICK q \in EntriesOf(Present) : Leads(p, q)
          BY <2>1, <2>3, <4>2, FitsForest
        <4>5. q \in Paths
          BY <2>1, EntriesOfType
        <4>6. Leads(Front(p), q)
          BY <3>1, <4>1, <4>4, <4>5, LeadsOn
        <4>7. Front(p) \notin EntriesOf(Present)
          <5>1. ASSUME Front(p) \in EntriesOf(Present) PROVE FALSE
            <6>1. Front(p) = q
              BY <2>1, <4>4, <4>6, <5>1, StoredLeaves
            <6>2. Len(Front(p)) = Len(p) - 1 /\ Len(p) <= Len(Front(p))
              BY <4>1, <4>4, <6>1 DEF Leads
            <6> QED
              BY <3>1, <6>2
          <5> QED
            BY <5>1
        <4> QED
          BY <2>1, <4>3, <4>7 DEF Fits
      <3> QED
        BY <3>2, <3>3
    <2> QED
      BY <1>1, <2>2, <2>3 DEF TypeOK, StoreInv
  <1> QED
    BY <1>1, StoreInvariant, PTL

LEMMA EntryPathIs ==
  ASSUME NoUniqueNulls, PrimaryOK, NEW i \in DOMAIN Indices, NEW id \in Ids, Current(id) # Missing
  PROVE  EntryPath(Indices[i], id) = EntryAt(i, Present[id], id)
  <1>1. Current(id) = Present[id] /\ Present[id] \in Documents
    BY PresentType DEF Docs
  <1>2. Indices[i].unique => ~AnyNull(Indices[i], Current(id))
    BY <1>1 DEF NoUniqueNulls
  <1> QED
    BY <1>1, <1>2 DEF EntryPath, EntryAt, AtZero, PathIn

LEMMA EntriesAre ==
  ASSUME DistinctIndices, StoreInv
  PROVE  Entries = EntriesOf(Present)
  <1>1. Present \in Docs /\ Fits(index, Present)
    BY PresentType DEF StoreInv
  <1> QED
    BY <1>1, FitsForest DEF Entries

(* A document is in each index once, under its present values, and nothing   *)
(* else is: what a query finds by an index is what is stored.                *)
THEOREM IndexIsExact ==
  ASSUME DistinctIndices, NoUniqueNulls, AddsOnce
  PROVE  Spec => []IndexMatchesDocuments
  <1>1. ASSUME StoreInv PROVE IndexMatchesDocuments
    <2>1. PrimaryOK /\ Present \in Docs /\ Fits(index, Present)
      BY <1>1, PresentType DEF StoreInv
    <2>2. \A id \in Ids : Current(id) # Missing <=> id \in StoredIn(Present)
      BY <2>1, PresentType DEF StoredIn
    <2>3. EntriesOf(Present) = {EntryPath(Indices[i], id) :
                                  i \in DOMAIN Indices, id \in {j \in Ids : Current(j) # Missing}}
      <3>1. {j \in Ids : Current(j) # Missing} = StoredIn(Present)
        BY <2>2 DEF StoredIn
      <3>2. \A i \in DOMAIN Indices, id \in StoredIn(Present) :
              EntryPath(Indices[i], id) = EntryAt(i, Present[id], id)
        BY <2>1, <2>2, EntryPathIs DEF StoredIn
      <3>3. \A e : e \in EntriesOf(Present) <=>
                   \E i \in DOMAIN Indices, id \in StoredIn(Present) :
                     e = EntryAt(i, Present[id], id)
        BY DEF EntriesOf, EntriesFor
      <3> QED
        BY <3>1, <3>2, <3>3
    <2>4. ASSUME NEW i \in DOMAIN Indices, NEW id \in Ids, Current(id) # Missing
          PROVE  index[EntryPath(Indices[i], id)] = id
      <3>1. EntryPath(Indices[i], id) = EntryAt(i, Present[id], id) /\ id \in StoredIn(Present)
        BY <2>1, <2>2, <2>4, EntryPathIs
      <3> QED
        BY <2>1, <3>1 DEF Fits
    <2>5. Entries = EntriesOf(Present)
      BY <1>1, EntriesAre
    <2> QED
      BY <2>3, <2>4, <2>5 DEF IndexMatchesDocuments
  <1> QED
    BY <1>1, StoreInvariant, PTL

(* Deleting takes away the trees it empties: below the trees of the contract *)
(* every tree leads to an entry.                                             *)
THEOREM TreesLeadToEntries ==
  ASSUME DistinctIndices, NoUniqueNulls, AddsOnce
  PROVE  Spec => []NothingLeftBehind
  <1>1. ASSUME StoreInv PROVE NothingLeftBehind
    <2>1. Present \in Docs /\ Fits(index, Present) /\ Entries = EntriesOf(Present)
      BY <1>1, PresentType, EntriesAre DEF StoreInv
    <2>2. ASSUME NEW p \in DOMAIN index \ TopTrees
          PROVE  \E q \in Entries : Len(p) <= Len(q) /\ SubSeq(q, 1, Len(p)) = p
      <3>1. p \in Paths /\ Len(p) # 1
        BY <2>1, <2>2, FitsForest
      <3>2. PICK q \in EntriesOf(Present) : Leads(p, q)
        BY <2>1, <2>2, <3>1, FitsForest
      <3>3. q \in Paths
        BY <2>1, EntriesOfType
      <3>4. p = SubSeq(q, 1, Len(p)) /\ Len(p) <= Len(q)
        BY <3>1, <3>2, <3>3, LeadsIsPrefix DEF Leads
      <3> QED
        BY <2>1, <3>2, <3>4
    <2> QED
      BY <2>2 DEF NothingLeftBehind
  <1> QED
    BY <1>1, StoreInvariant, PTL

(* A batch has one operation per path, inserts only into trees that are      *)
(* there or inserted before, and deletes only trees it has emptied: GroveDB  *)
(* can apply it in any order.                                                *)
THEOREM BatchesAlwaysApply ==
  ASSUME DistinctIndices, NoUniqueNulls, AddsOnce
  PROVE  Spec => []BatchesApply
  <1>1. ASSUME StoreInv PROVE BatchesApply
    <2>1. Present \in Docs /\ Fits(index, Present) /\ \A id \in Ids : Present[id] = Current(id)
      BY <1>1, PresentType DEF StoreInv
    <2>2. ASSUME NEW id \in Ids, NEW d \in Documents, Current(id) = Missing
          PROVE  Applicable(InsertBatch(id, d))
      BY <2>1, <2>2, Insertion
    <2>3. ASSUME NEW id \in Ids, NEW d \in Documents, Current(id) # Missing
          PROVE  Applicable(UpdateBatch(id, d)) /\ Applicable(DeleteBatch(id))
      BY <2>1, <2>3, Change, Removal
    <2> QED
      BY <2>2, <2>3 DEF BatchesApply
  <1> QED
    BY <1>1, StoreInvariant, PTL

(* "We need delete all references to the document" (delete.rs): no entry     *)
(* refers to a document that is not stored, if unique indices have no nulls. *)
THEOREM ReferencesAreOfStored ==
  ASSUME DistinctIndices, NoUniqueNulls, AddsOnce
  PROVE  Spec => []ReferencesResolve
  <1>1. ASSUME StoreInv PROVE ReferencesResolve
    <2>1. Present \in Docs /\ Fits(index, Present) /\ Entries = EntriesOf(Present) /\ PrimaryOK
      BY <1>1, PresentType, EntriesAre DEF StoreInv
    <2>2. ASSUME NEW p \in Entries PROVE Current(index[p]) # Missing
      <3>1. PICK i \in DOMAIN Indices, o \in StoredIn(Present) :
              o \in Ids /\ p = EntryAt(i, Present[o], o)
        BY <2>1, EntriesOfType
      <3>2. index[p] = o
        BY <2>1, <3>1 DEF Fits
      <3>3. Present[o] # Missing /\ Present[o] = Current(o)
        BY <2>1, <3>1, PresentType DEF StoredIn
      <3> QED
        BY <3>2, <3>3
    <2> QED
      BY <2>2 DEF ReferencesResolve
  <1> QED
    BY <1>1, StoreInvariant, PTL
-----------------------------------------------------------------------------
(* What a step does to the versions of a document. *)
VersionsKept(id) ==
  primary[id] # Missing =>
    /\ primary'[id] # Missing
    /\ DOMAIN primary[id].versions \subseteq DOMAIN primary'[id].versions
    /\ \A t \in DOMAIN primary[id].versions :
         primary'[id].versions[t] # primary[id].versions[t] => t = primary'[id].latest

LEMMA NotWritten ==
  ASSUME PrimaryOK, primary' = primary
  PROVE  PrimaryOK' /\ \A id \in Ids : VersionsKept(id)
  BY DEF PrimaryOK, VersionsKept

LEMMA Written ==
  ASSUME PrimaryOK, NEW b, NEW id \in Ids, NEW d \in Documents, NEW time \in Times,
         Finish(b, id, Stored(id, d, time))
  PROVE  PrimaryOK' /\ \A other \in Ids : VersionsKept(other)
  <1> DEFINE x == Stored(id, d, time)
  <1>1. /\ x \in Kept /\ x # Missing
        /\ primary[id] # Missing =>
             /\ DOMAIN primary[id].versions \subseteq DOMAIN x.versions
             /\ \A t \in DOMAIN primary[id].versions :
                  t # x.latest => x.versions[t] = primary[id].versions[t]
    BY StoredType
  <1> HIDE DEF x
  <1>2. Finish(b, id, x)
    BY DEF x
  <1>3. CASE b.failed
    <2>1. primary' = primary
      BY <1>2, <1>3 DEF Finish
    <2> QED
      BY <2>1, NotWritten
  <1>4. CASE ~b.failed
    <2>1. primary' = [primary EXCEPT ![id] = x]
      BY <1>2, <1>4 DEF Finish
    <2>2. /\ PrimaryOK' /\ primary'[id] = x
          /\ \A other \in Ids \ {id} : primary'[other] = primary[other]
      BY <1>1, <2>1 DEF PrimaryOK
    <2>3. VersionsKept(id)
      BY <1>1, <2>2 DEF VersionsKept
    <2>4. \A other \in Ids \ {id} : VersionsKept(other)
      BY <2>2 DEF VersionsKept
    <2> QED
      BY <2>2, <2>3, <2>4
  <1> QED
    BY <1>3, <1>4

LEMMA HistoryStep ==
  ASSUME KeepsHistory, PrimaryOK, [Next]_storeVars
  PROVE  PrimaryOK' /\ \A id \in Ids : VersionsKept(id)
  <1> DEFINE Goal == PrimaryOK' /\ \A id \in Ids : VersionsKept(id)
  <1>1. ASSUME primary' = primary PROVE Goal
    BY <1>1, NotWritten
  <1>2. ASSUME NEW b, NEW id \in Ids, NEW d \in Documents, NEW time \in Times,
               Finish(b, id, Stored(id, d, time))
        PROVE  Goal
    BY <1>2, Written
  <1> HIDE DEF Goal
  <1>3. ASSUME NEW id \in Ids, NEW d \in Documents, NEW time \in Times, AddDocument(id, d, time)
        PROVE  Goal
    BY <1>1, <1>2, <1>3 DEF AddDocument, Refused
  <1>4. ASSUME NEW id \in Ids, NEW d \in Documents, NEW time \in Times, WriteUpdate(id, d, time)
        PROVE  Goal
    BY <1>1, <1>2, <1>4 DEF WriteUpdate, Refused
  <1>5. ASSUME NEW id \in Ids, NEW d \in Documents, NEW time \in Times,
               OverrideDocument(id, d, time)
        PROVE  Goal
    BY <1>2, <1>4, <1>5 DEF OverrideDocument
  <1>6. ASSUME NEW id \in Ids, DeleteDocument(id) PROVE Goal
    BY <1>1, <1>6 DEF DeleteDocument, Refused
  <1>7. ASSUME UNCHANGED storeVars PROVE Goal
    BY <1>1, <1>7 DEF storeVars
  <1>8. Goal
    BY <1>3, <1>4, <1>5, <1>6, <1>7 DEF Next, UpdateDocument
  <1> QED
    BY <1>8 DEF Goal

(* With history a version is changed only by another of the same block, and  *)
(* the document is the version written last: for any documents and indices.  *)
THEOREM HistoryIsKept ==
  ASSUME KeepsHistory
  PROVE  Spec => EarlierVersionsKept
  <1>1. Init => PrimaryOK
    BY StoreInit DEF StoreInv
  <1>2. PrimaryOK /\ [Next]_storeVars => PrimaryOK'
    BY HistoryStep
  <1>3. PrimaryOK /\ [Next]_storeVars =>
          [\A id \in Ids : primary[id] # Missing =>
             /\ primary'[id] # Missing
             /\ DOMAIN primary[id].versions \subseteq DOMAIN primary'[id].versions
             /\ \A t \in DOMAIN primary[id].versions :
                  primary'[id].versions[t] # primary[id].versions[t] =>
                    t = primary'[id].latest]_storeVars
    BY HistoryStep DEF VersionsKept
  <1> QED
    BY <1>1, <1>2, <1>3, PTL DEF Spec, EarlierVersionsKept
-----------------------------------------------------------------------------
(* A deletion from a type that keeps history panics, where the map deletes.  *)
DeletesAsPromised == KeepsHistory /\ Mutable => "delete" \notin Operations

(* The map's word for a clash. *)
LEMMA ClashIsTaken ==
  ASSUME NoUniqueNulls, NEW id \in Ids, NEW d \in Documents
  PROVE  Clash(Present, id, d) <=> Map!Taken(id, d)
  <1>1. \A i \in DOMAIN Indices : Indices[i].unique => ~Map!AnyNull(Indices[i], d)
    BY DEF NoUniqueNulls, AnyNull, Map!AnyNull
  <1>2. \A i \in DOMAIN Indices : \A e : Map!SameOn(Indices[i], d, e) <=> SameOn(Indices[i], d, e)
    BY DEF SameOn, Map!SameOn
  <1>3. Map!Taken(id, d) <=>
          \E i \in DOMAIN Indices, other \in Ids \ {id} :
            /\ Indices[i].unique /\ ~Map!AnyNull(Indices[i], d)
            /\ Present[other] # Missing
            /\ Map!SameOn(Indices[i], d, Present[other])
    BY DEF Map!Taken, Present
  <1> QED
    BY <1>1, <1>2, <1>3 DEF Clash

LEMMA MapStep ==
  ASSUME DistinctIndices, NoUniqueNulls, AddsOnce, DeletesAsPromised, StoreInv, [Next]_storeVars
  PROVE  [Map!MapNext]_<<Present, outcome>>
  <1> DEFINE Goal == [Map!MapNext]_<<Present, outcome>>
  <1>1. \A id \in Ids : Present[id] = Missing <=> primary[id] = Missing
    BY PresentType DEF StoreInv
  <1>2. \A id, d : Done(id, d) => Map!Become(id, d)
    BY DEF Done, Map!Become, Present, After
  <1>3. Undone => Map!Refuse
    BY DEF Undone, Map!Refuse, Present
  <1>4. \A id \in Ids, d \in Documents : Clash(Present, id, d) <=> Map!Taken(id, d)
    BY ClashIsTaken
  <1>5. ASSUME NEW id \in Ids, NEW d \in Documents, NEW time \in Times, AddDocument(id, d, time)
        PROVE  Map!Add(id, d)
    <2>1. IF primary[id] = Missing /\ ~Clash(Present, id, d) THEN Done(id, d) ELSE Undone
      BY <1>5, AddResult
    <2> QED
      BY <1>1, <1>2, <1>3, <1>4, <2>1 DEF Map!Add, Present
  <1>6. ASSUME NEW id \in Ids, NEW d \in Documents, NEW time \in Times, UpdateDocument(id, d, time)
        PROVE  Map!Update(id, d)
    <2>1. IF Mutable /\ primary[id] # Missing /\ ~Clash(Present, id, d) THEN Done(id, d) ELSE Undone
      BY <1>6, UpdateResult DEF UpdateDocument
    <2> QED
      BY <1>1, <1>2, <1>3, <1>4, <2>1 DEF Map!Update, Present
  <1>7. ASSUME NEW id \in Ids, NEW d \in Documents, NEW time \in Times,
               OverrideDocument(id, d, time)
        PROVE  Map!Put(id, d)
    <2>1. IF (primary[id] = Missing \/ Mutable) /\ ~Clash(Present, id, d)
          THEN Done(id, d) ELSE Undone
      BY <1>7, OverrideResult
    <2> QED
      BY <1>1, <1>2, <1>3, <1>4, <2>1 DEF Map!Put, Map!Add, Map!Update, Present
  <1>8. ASSUME NEW id \in Ids, DeleteDocument(id)
        PROVE  Map!Delete(id)
    <2>1. ~(Mutable /\ KeepsHistory)
      BY <1>8, FlagsAssumption DEF DeleteDocument, DeletesAsPromised
    <2>2. IF ~Mutable \/ primary[id] = Missing THEN Undone ELSE Done(id, Missing)
      BY <1>8, <2>1, DeleteResult
    <2> QED
      BY <1>1, <1>2, <1>3, <2>2 DEF Map!Delete, Present
  <1>9. ASSUME UNCHANGED storeVars PROVE UNCHANGED <<Present, outcome>>
    BY <1>9 DEF storeVars, Present, Current
  <1> QED
    BY <1>5, <1>6, <1>7, <1>8, <1>9 DEF Next, Map!MapNext

(* The operations are those of a map with unique indices: they succeed and   *)
(* fail exactly when the map's do, and a failed one leaves nothing behind.   *)
THEOREM DocumentsAreAMap ==
  ASSUME DistinctIndices, NoUniqueNulls, AddsOnce, DeletesAsPromised
  PROVE  Spec => ImplementsDocumentMap
  <1>1. Init => Map!MapInit
    <2>1. ASSUME Init PROVE [id \in Ids |-> Current(id)] = [id \in Ids |-> Missing]
      BY <2>1 DEF Init, Current
    <2> QED
      BY <2>1 DEF Init, Map!MapInit
  <1>2. StoreInv /\ [Next]_storeVars => [Map!MapNext]_(Map!mapVars)
    BY MapStep DEF Map!mapVars, Present
  <1> QED
    BY <1>1, <1>2, StoreInvariant, PTL DEF Spec, ImplementsDocumentMap, Map!MapSpec
=============================================================================
