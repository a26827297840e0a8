----------------------- MODULE InMemoryStorageProofs -----------------------
(***************************************************************************)
(* The in-memory storage keeps its indexes exact, so it never lets two     *)
(* resources share a unique value, for every set of types, identifiers,    *)
(* attributes and values.                                                  *)
(***************************************************************************)
EXTENDS InMemoryStorage, TLAPS

(***************************************************************************)
(* The inductive invariant.  NoSharedUniqueValue is not inductive: the     *)
(* uniqueness check reads the index only, so it needs the index to be      *)
(* exact, and removing a value from the index needs uniqueValues to be.    *)
(***************************************************************************)
IInv == TypeOK /\ UniqueIndexExact /\ EqualityIndexExact

USE DEF Keys

\* The form an attribute compares a value in, whatever the value.
LEMMA HeldType ==
    ASSUME NEW d \in [Attrs -> Values \cup {Missing}], NEW a \in Attrs
    PROVE  Held(d, a) \in Folded \cup {Missing}
BY DataAssumption DEF Held

\* What _values_of returns: a form or nothing, for each unique attribute.
LEMMA UniqueValuesType ==
    ASSUME NEW d \in [Attrs -> Values \cup {Missing}]
    PROVE  UniqueValues(d) \in [UniqueAttrs -> Folded \cup {Missing}]
BY HeldType, DataAssumption DEF UniqueValues

\* A new storage satisfies the invariant.
LEMMA InitInv == Init => IInv
<1> SUFFICES ASSUME Init PROVE IInv
    OBVIOUS
<1>1. Stored = {}
    BY DEF Init, Stored
<1>2. TypeOK
    BY <1>1, StorageAssumption DEF Init, TypeOK, NoValues, NoEntries
<1>3. UniqueIndexExact
    BY <1>1, DataAssumption, StorageAssumption DEF Init, UniqueIndexExact, NoValues
<1>4. EqualityIndexExact
    BY <1>1, StorageAssumption DEF Init, EqualityIndexExact, NoEntries
<1> QED
    BY <1>2, <1>3, <1>4 DEF IInv

\* Storing a resource none of whose unique values is taken keeps the indexes exact.
LEMMA StoreInv ==
    ASSUME IInv, NEW k \in Keys, NEW r \in Resource, r.data \in Data(k[1]),
           ~Taken(k, r.data), Store(k, r), versions' \in 1 .. MaxVersion + 1
    PROVE  IInv'
<1> DEFINE unique == UniqueValues(r.data)
           equal == EntriesFor(k, r.data)
<1> USE DEF IInv
<1>1. r.data \in [Attrs -> Values \cup {Missing}]
    BY DEF Resource
<1>2. unique \in [UniqueAttrs -> Folded \cup {Missing}]
    BY <1>1, UniqueValuesType
<1>3. equal \in [Attrs -> Folded \cup {Missing, NotIndexed}]
    BY <1>1, HeldType DEF EntriesFor
<1>4. resources' = [resources EXCEPT ![k] = r] /\ Stored' = Stored \cup {k}
    BY NoResourceAssumption DEF Store, Stored, TypeOK
<1>5. /\ uniqueValues' = [uniqueValues EXCEPT ![k] = unique]
      /\ equalValues' = [equalValues EXCEPT ![k] = equal]
      /\ owners' = [a \in UniqueAttrs |-> [w \in Folded |->
                       IF unique[a] = w THEN k ELSE OwnersWithout(k)[a][w]]]
      /\ equalities' = EqualitiesWithout(k)
             \cup {EntryOf(k, a, equal[a]) : a \in {b \in Attrs : <<k[1], b>> \in indexed}}
      /\ indexed' = indexed
    BY DEF Store
<1>6. TypeOK'
  <2>1. owners' \in [UniqueAttrs -> [Folded -> Keys \cup {NoKey}]]
      BY <1>5 DEF TypeOK, OwnersWithout
  <2>2. equalities' \in SUBSET (Types \X Attrs \X (Folded \cup {Missing}) \X Ids)
    <3>1. \A a \in Attrs : <<k[1], a>> \in indexed => equal[a] \in Folded \cup {Missing}
        BY <1>1, HeldType DEF EntriesFor
    <3>2. \A a \in Attrs, w \in Folded \cup {Missing} :
             EntryOf(k, a, w) \in Types \X Attrs \X (Folded \cup {Missing}) \X Ids
        BY DEF EntryOf
    <3>3. EqualitiesWithout(k) \subseteq equalities
        BY DEF EqualitiesWithout
    <3> DEFINE Entries == Types \X Attrs \X (Folded \cup {Missing}) \X Ids
    <3>4. equalities \subseteq Entries
        BY DEF TypeOK
    <3>5. \A a \in Attrs : <<k[1], a>> \in indexed => EntryOf(k, a, equal[a]) \in Entries
        BY <3>1, <3>2
    <3> HIDE DEF equal, Entries
    <3>6. equalities' \subseteq Entries
        BY <1>5, <3>3, <3>4, <3>5
    <3> QED
        BY <3>6 DEF Entries
  <2>3. resources' \in [Keys -> Resource \cup {NoResource}]
      BY <1>4 DEF TypeOK
  <2>4. \A q \in Stored' : resources'[q].data \in Data(q[1])
      BY <1>4 DEF TypeOK
  <2> QED
      BY <1>2, <1>3, <1>5, <2>1, <2>2, <2>3, <2>4 DEF TypeOK
<1>7. UniqueIndexExact'
  <2>1. \A q \in Keys : uniqueValues'[q] = IF q \in Stored'
                                           THEN UniqueValues(resources'[q].data) ELSE NoValues
      BY <1>4, <1>5 DEF UniqueIndexExact, TypeOK
  <2>2. ASSUME NEW a \in UniqueAttrs, NEW w \in Folded, NEW q \in Keys
        PROVE  owners'[a][w] = q <=> uniqueValues'[q][a] = w
    <3>1. owners'[a][w] = IF unique[a] = w THEN k
                          ELSE IF uniqueValues[k][a] = w THEN NoKey ELSE owners[a][w]
        BY <1>5 DEF OwnersWithout
    <3>2. unique[a] = w => owners[a][w] \in {NoKey, k}
        BY DEF Taken
    <3>3. \A p \in Keys : owners[a][w] = p <=> uniqueValues[p][a] = w
        BY DEF UniqueIndexExact
    <3>4. uniqueValues'[q] = IF q = k THEN unique ELSE uniqueValues[q]
        BY <1>5 DEF TypeOK
    <3> QED
        BY <3>1, <3>2, <3>3, <3>4, StorageAssumption
  <2> QED
      BY <2>1, <2>2 DEF UniqueIndexExact
<1>8. EqualityIndexExact'
  <2>1. ASSUME NEW q \in Keys, NEW a \in Attrs
        PROVE  equalValues'[q][a] = IF q \in Stored' /\ <<q[1], a>> \in indexed'
                                    THEN Held(resources'[q].data, a) ELSE NotIndexed
      BY <1>4, <1>5 DEF EqualityIndexExact, TypeOK, EntriesFor
  <2>2. ASSUME NEW q \in Keys, NEW a \in Attrs, NEW w \in Folded \cup {Missing}
        PROVE  EntryOf(q, a, w) \in equalities' <=> equalValues'[q][a] = w
    <3>1. EntryOf(q, a, w) \in equalities <=> equalValues[q][a] = w
        BY DEF EqualityIndexExact
    <3>2. ASSUME NEW b \in Attrs, NEW x, NEW p \in Keys
          PROVE  EntryOf(q, a, w) = EntryOf(p, b, x) <=> q = p /\ a = b /\ w = x
        BY DEF EntryOf
    <3>3. EntryOf(q, a, w) \in EqualitiesWithout(k)
              <=> q # k /\ EntryOf(q, a, w) \in equalities
        BY <3>1, <3>2 DEF EqualitiesWithout
    <3>4. EntryOf(q, a, w) \in {EntryOf(k, b, equal[b]) : b \in {c \in Attrs : <<k[1], c>> \in indexed}}
              <=> q = k /\ <<k[1], a>> \in indexed /\ equal[a] = w
        BY <3>2
    <3>5. equal[a] = w => <<k[1], a>> \in indexed
        BY StorageAssumption DEF EntriesFor
    <3>6. equalValues'[q] = IF q = k THEN equal ELSE equalValues[q]
        BY <1>5 DEF TypeOK
    <3> HIDE DEF equal
    <3> QED
        BY <1>5, <3>1, <3>3, <3>4, <3>5, <3>6
  <2> QED
      BY <2>1, <2>2 DEF EqualityIndexExact
<1> QED
    BY <1>6, <1>7, <1>8

\* Deleting a resource keeps the indexes exact.
LEMMA RemoveInv ==
    ASSUME IInv, NEW k \in Keys, Remove(k), UNCHANGED versions
    PROVE  IInv'
<1> USE DEF IInv
<1>1. resources' = [resources EXCEPT ![k] = NoResource] /\ Stored' = Stored \ {k}
    BY DEF Remove, Stored, TypeOK
<1>2. /\ uniqueValues' = [uniqueValues EXCEPT ![k] = NoValues]
      /\ equalValues' = [equalValues EXCEPT ![k] = NoEntries]
      /\ owners' = OwnersWithout(k)
      /\ equalities' = EqualitiesWithout(k)
      /\ indexed' = indexed
    BY DEF Remove
<1>3. TypeOK'
  <2>1. owners' \in [UniqueAttrs -> [Folded -> Keys \cup {NoKey}]]
      BY <1>2 DEF TypeOK, OwnersWithout
  <2>2. equalities' \subseteq equalities
      BY <1>2 DEF EqualitiesWithout
  <2>3. resources' \in [Keys -> Resource \cup {NoResource}]
      BY <1>1 DEF TypeOK
  <2>4. \A q \in Stored' : resources'[q].data \in Data(q[1])
      BY <1>1 DEF TypeOK
  <2> QED
      BY <1>2, <2>1, <2>2, <2>3, <2>4 DEF TypeOK, NoValues, NoEntries
<1>4. UniqueIndexExact'
  <2>1. \A q \in Keys : uniqueValues'[q] = IF q \in Stored'
                                           THEN UniqueValues(resources'[q].data) ELSE NoValues
      BY <1>1, <1>2 DEF UniqueIndexExact, TypeOK
  <2>2. ASSUME NEW a \in UniqueAttrs, NEW w \in Folded, NEW q \in Keys
        PROVE  owners'[a][w] = q <=> uniqueValues'[q][a] = w
    <3>1. owners'[a][w] = IF uniqueValues[k][a] = w THEN NoKey ELSE owners[a][w]
        BY <1>2 DEF OwnersWithout
    <3>2. \A p \in Keys : owners[a][w] = p <=> uniqueValues[p][a] = w
        BY DEF UniqueIndexExact
    <3>3. uniqueValues'[q] = IF q = k THEN NoValues ELSE uniqueValues[q]
        BY <1>2 DEF TypeOK
    <3> QED
        BY <3>1, <3>2, <3>3, StorageAssumption, DataAssumption DEF NoValues
  <2> QED
      BY <2>1, <2>2 DEF UniqueIndexExact
<1>5. EqualityIndexExact'
  <2>1. ASSUME NEW q \in Keys, NEW a \in Attrs
        PROVE  equalValues'[q][a] = IF q \in Stored' /\ <<q[1], a>> \in indexed'
                                    THEN Held(resources'[q].data, a) ELSE NotIndexed
      BY <1>1, <1>2 DEF EqualityIndexExact, TypeOK, NoEntries
  <2>2. ASSUME NEW q \in Keys, NEW a \in Attrs, NEW w \in Folded \cup {Missing}
        PROVE  EntryOf(q, a, w) \in equalities' <=> equalValues'[q][a] = w
    <3>1. EntryOf(q, a, w) \in equalities <=> equalValues[q][a] = w
        BY DEF EqualityIndexExact
    <3>2. EntryOf(q, a, w) \in EqualitiesWithout(k)
              <=> q # k /\ EntryOf(q, a, w) \in equalities
        BY <3>1 DEF EqualitiesWithout, EntryOf
    <3>3. equalValues'[q] = IF q = k THEN NoEntries ELSE equalValues[q]
        BY <1>2 DEF TypeOK
    <3> QED
        BY <1>2, <3>1, <3>2, <3>3, StorageAssumption DEF NoEntries
  <2> QED
      BY <2>1, <2>2 DEF EqualityIndexExact
<1> QED
    BY <1>3, <1>4, <1>5

\* The first search that can use an index builds it exact.
LEMMA BuildIndexInv ==
    ASSUME IInv, NEW t \in Types, NEW a \in Attrs, BuildIndex(t, a),
           UNCHANGED <<resources, owners, uniqueValues, versions>>
    PROVE  IInv'
<1> USE DEF IInv
<1>1. CASE <<t, a>> \in indexed
    BY <1>1 DEF BuildIndex, TypeOK, UniqueIndexExact, EqualityIndexExact, Stored
<1>2. CASE <<t, a>> \notin indexed
  <2> DEFINE held == {k \in Stored : k[1] = t}
  <2>1. /\ indexed' = indexed \cup {<<t, a>>}
        /\ equalities' = equalities
               \cup {EntryOf(k, a, Held(resources[k].data, a)) : k \in held}
        /\ equalValues' = [k \in Keys |->
               IF k \in held THEN [equalValues[k] EXCEPT ![a] = Held(resources[k].data, a)]
                             ELSE equalValues[k]]
      BY <1>2 DEF BuildIndex
  <2>2. Stored' = Stored /\ held \subseteq Keys
      BY DEF Stored
  <2>3. \A k \in held : Held(resources[k].data, a) \in Folded \cup {Missing}
      BY HeldType, NoResourceAssumption DEF Stored, TypeOK, Resource
  <2>4. TypeOK'
    <3>1. \A k \in held, w \in Folded \cup {Missing} :
             EntryOf(k, a, w) \in Types \X Attrs \X (Folded \cup {Missing}) \X Ids
        BY <2>2 DEF EntryOf
    <3>2. equalities' \in SUBSET (Types \X Attrs \X (Folded \cup {Missing}) \X Ids)
        BY <2>1, <2>3, <3>1 DEF TypeOK
    <3>3. equalValues' \in [Keys -> [Attrs -> Folded \cup {Missing, NotIndexed}]]
        BY <2>1, <2>2, <2>3 DEF TypeOK
    <3> QED
        BY <2>1, <2>2, <3>2, <3>3 DEF TypeOK
  <2>5. UniqueIndexExact'
      BY <2>2 DEF UniqueIndexExact
  <2>6. EqualityIndexExact'
    <3>1. ASSUME NEW q \in Keys, NEW b \in Attrs
          PROVE  equalValues'[q][b] = IF q \in Stored' /\ <<q[1], b>> \in indexed'
                                      THEN Held(resources'[q].data, b) ELSE NotIndexed
        BY <1>2, <2>1, <2>2 DEF EqualityIndexExact, TypeOK
    <3>2. ASSUME NEW q \in Keys, NEW b \in Attrs, NEW w \in Folded \cup {Missing}
          PROVE  EntryOf(q, b, w) \in equalities' <=> equalValues'[q][b] = w
      <4>1. EntryOf(q, b, w) \in equalities <=> equalValues[q][b] = w
          BY DEF EqualityIndexExact
      <4>2. EntryOf(q, b, w) \in {EntryOf(k, a, Held(resources[k].data, a)) : k \in held}
                <=> q \in held /\ b = a /\ w = Held(resources[q].data, a)
          BY <2>2 DEF EntryOf
      <4>3. equalValues'[q][b] = IF q \in held /\ b = a THEN Held(resources[q].data, a)
                                                         ELSE equalValues[q][b]
          BY <2>1, <2>2 DEF TypeOK
      <4>4. q \in held /\ b = a => equalValues[q][b] = NotIndexed
          BY <1>2, <2>2 DEF EqualityIndexExact
      <4> HIDE DEF held
      <4> QED
          BY <2>1, <4>1, <4>2, <4>3, <4>4, StorageAssumption
    <3> QED
        BY <3>1, <3>2 DEF EqualityIndexExact
  <2> QED
      BY <2>4, <2>5, <2>6
<1> QED
    BY <1>1, <1>2

\* Assigning a list of resources leaves indexes that describe this list.
LEMMA SetResourcesInv ==
    ASSUME IInv, NEW content \in Loads, SetResources(content)
    PROVE  IInv'
<1> USE DEF IInv
<1>1. /\ content \in [Keys -> Resource \cup {NoResource}]
      /\ \A k \in Keys : content[k] # NoResource =>
            content[k].data \in Data(k[1]) /\ ~Clashes(content, k, content[k].data)
    BY LoadsAssumption
<1>2. Stored' = {k \in Keys : content[k] # NoResource}
    BY DEF SetResources, Stored
<1>3. \A k \in Keys : uniqueValues'[k] =
          IF k \in Stored' THEN UniqueValues(content[k].data) ELSE NoValues
    BY <1>2 DEF SetResources
<1>4. uniqueValues' \in [Keys -> [UniqueAttrs -> Folded \cup {Missing}]]
    BY <1>1, UniqueValuesType DEF SetResources, NoValues, Resource
<1>5. ASSUME NEW a \in UniqueAttrs, NEW w \in Folded, NEW k1 \in Keys, NEW k2 \in Keys,
             uniqueValues'[k1][a] = w, uniqueValues'[k2][a] = w
      PROVE  k1 = k2
  <2>1. k1 \in Stored' /\ k2 \in Stored'
      BY <1>3, <1>5, DataAssumption DEF NoValues
  <2>2. Held(content[k1].data, a) = w /\ Held(content[k2].data, a) = w
      BY <1>3, <1>5, <2>1 DEF UniqueValues
  <2> QED
      BY <1>1, <1>2, <2>1, <2>2, DataAssumption DEF Clashes
<1>6. ASSUME NEW a \in UniqueAttrs, NEW w \in Folded, NEW k \in Keys
      PROVE  owners'[a][w] = k <=> uniqueValues'[k][a] = w
  <2>1. owners'[a][w] = IF \E q \in Keys : uniqueValues'[q][a] = w
                        THEN CHOOSE q \in Keys : uniqueValues'[q][a] = w
                        ELSE NoKey
      BY DEF SetResources
  <2> QED
      BY <1>5, <2>1, StorageAssumption
<1>7. owners' \in [UniqueAttrs -> [Folded -> Keys \cup {NoKey}]]
    BY DEF SetResources
<1>8. TypeOK'
    BY <1>1, <1>2, <1>4, <1>7 DEF SetResources, TypeOK, NoEntries
<1>9. UniqueIndexExact'
    BY <1>3, <1>6 DEF UniqueIndexExact, SetResources
<1>10. EqualityIndexExact'
    BY StorageAssumption DEF EqualityIndexExact, SetResources, NoEntries
<1> QED
    BY <1>8, <1>9, <1>10

\* A write that is stored, or refused for a taken value, keeps the indexes exact.
LEMMA WriteInv ==
    ASSUME IInv, NEW op, NEW k \in Keys, NEW d \in Data(k[1]), Write(op, k, d)
    PROVE  IInv'
<1>1. versions \in Nat /\ versions' \in 1 .. MaxVersion + 1
    BY StorageAssumption DEF Write, IInv, TypeOK
<1>2. CASE Taken(k, d)
    BY <1>1, <1>2 DEF Write, IInv, TypeOK, UniqueIndexExact, EqualityIndexExact, indexes, Stored
<1>3. CASE ~Taken(k, d)
  <2> DEFINE r == [data |-> d, version |-> versions]
  <2>1. r \in Resource /\ r.data = d
      BY <1>1 DEF Resource, Data
  <2>2. Store(k, r)
      BY <1>3 DEF Write
  <2> HIDE DEF r
  <2> QED
      BY <1>1, <1>3, <2>1, <2>2, StoreInv
<1> QED
    BY <1>2, <1>3

\* Every step keeps the invariant.
LEMMA NextInv == IInv /\ [Next]_vars => IInv'
<1> SUFFICES ASSUME IInv, [Next]_vars PROVE IInv'
    OBVIOUS
<1>1. ASSUME UNCHANGED <<resources, indexes, versions>> PROVE IInv'
    BY <1>1 DEF IInv, TypeOK, UniqueIndexExact, EqualityIndexExact, indexes, Stored
<1>2. ASSUME NEW k \in Keys, NEW d \in Data(k[1]), Create(k, d) PROVE IInv'
    BY <1>2, WriteInv DEF Create
<1>3. ASSUME NEW k \in Keys, NEW e \in Expected, Update(k, e) PROVE IInv'
    BY <1>1, <1>3, WriteInv DEF Update, Fails
<1>4. ASSUME NEW k \in Keys, NEW e \in Expected, Delete(k, e) PROVE IInv'
    BY <1>1, <1>4, RemoveInv DEF Delete, Fails
<1>5. ASSUME NEW k \in Keys, Get(k) PROVE IInv'
    BY <1>1, <1>5 DEF Get
<1>6. ASSUME NEW t \in Types, NEW a \in Attrs, NEW v \in Values, SearchIndex(t, a, v)
      PROVE  IInv'
    BY <1>6, BuildIndexInv DEF SearchIndex
<1>7. ASSUME NEW t \in Types, NEW a \in Attrs, NEW v \in Values, SearchUncomparable(t, a, v)
      PROVE  IInv'
    BY <1>1, <1>7 DEF SearchUncomparable
<1>8. ASSUME NEW types \in SUBSET Types, NEW a \in Attrs, NEW v \in Values,
             SearchWalk(types, a, v)
      PROVE  IInv'
    BY <1>1, <1>8 DEF SearchWalk
<1>9. ASSUME NEW content \in Loads, SetResources(content) PROVE IInv'
    BY <1>9, SetResourcesInv
<1>10. CASE UNCHANGED vars
    BY <1>1, <1>10 DEF vars
<1> QED
    BY <1>2, <1>3, <1>4, <1>5, <1>6, <1>7, <1>8, <1>9, <1>10 DEF Next

\* The storage keeps its types and both indexes exact, for all time.
THEOREM StorageInvariant == Spec => []IInv
BY InitInv, NextInv, PTL DEF Spec

\* The type invariant: in particular, no resource holds a value for an
\* attribute its resource type does not declare.
THEOREM StorageTyping == Spec => []TypeOK
<1>1. IInv => TypeOK
    BY DEF IInv
<1> QED
    BY <1>1, StorageInvariant, PTL

\* The two indexes describe exactly the stored resources.
THEOREM StorageIndexes == Spec => []IndexesExact
<1>1. IInv => IndexesExact
    BY DEF IInv, IndexesExact
<1> QED
    BY <1>1, StorageInvariant, PTL

\* No two resources, of whatever resource types, share a unique value: an owner
\* is a single key.
THEOREM StorageUniqueness == Spec => []NoSharedUniqueValue
<1>1. IInv => NoSharedUniqueValue
  <2> SUFFICES ASSUME IInv, NEW k1 \in Stored, NEW k2 \in Stored, NEW a \in UniqueAttrs,
                      Held(resources[k1].data, a) # Missing,
                      Held(resources[k1].data, a) = Held(resources[k2].data, a)
               PROVE  k1 = k2
      BY DEF NoSharedUniqueValue
  <2> DEFINE w == Held(resources[k1].data, a)
  <2>1. k1 \in Keys /\ k2 \in Keys /\ a \in Attrs
      BY DataAssumption DEF Stored
  <2>2. w \in Folded
    <3>1. resources[k1].data \in [Attrs -> Values \cup {Missing}]
        BY <2>1 DEF IInv, TypeOK, Stored, Resource
    <3> QED
        BY <2>1, <3>1, HeldType
  <2>3. uniqueValues[k1][a] = w /\ uniqueValues[k2][a] = w
    <3>1. /\ uniqueValues[k1] = UniqueValues(resources[k1].data)
          /\ uniqueValues[k2] = UniqueValues(resources[k2].data)
        BY <2>1 DEF IInv, UniqueIndexExact
    <3>2. Held(resources[k2].data, a) = w
        OBVIOUS
    <3> HIDE DEF w
    <3> QED
        BY <3>1, <3>2 DEF UniqueValues, w
  <2> QED
      BY <2>1, <2>2, <2>3 DEF IInv, UniqueIndexExact
<1> QED
    BY <1>1, StorageInvariant, PTL
-----------------------------------------------------------------------------
(***************************************************************************)
(* The storage implements its contract, when the versions of the resources *)
(* it is loaded with are none the counter gives.                           *)
(***************************************************************************)
LoadsForeign ==
    \A content \in Loads, k \in Keys : content[k] # NoResource => content[k].version = 0

\* Looking a value up in the index finds a clash exactly when a stored resource
\* makes one.
LEMMA TakenIsClash ==
    ASSUME IInv, NEW k \in Keys, NEW d \in Data(k[1])
    PROVE  Taken(k, d) <=> Clashes(resources, k, d)
<1>1. d \in [Attrs -> Values \cup {Missing}]
    BY DEF Data
<1>2. ASSUME NEW a \in UniqueAttrs
      PROVE  Held(d, a) \in Folded \cup {Missing} /\ UniqueValues(d)[a] = Held(d, a)
    BY <1>1, HeldType, DataAssumption DEF UniqueValues
<1>3. ASSUME NEW a \in UniqueAttrs, NEW w \in Folded, NEW q \in Keys
      PROVE  owners[a][w] = q <=> resources[q] # NoResource /\ Held(resources[q].data, a) = w
  <2>1. owners[a][w] = q <=> uniqueValues[q][a] = w
      BY DEF IInv, UniqueIndexExact
  <2>2. uniqueValues[q] = IF q \in Stored THEN UniqueValues(resources[q].data) ELSE NoValues
      BY DEF IInv, UniqueIndexExact
  <2> QED
      BY <2>1, <2>2, DataAssumption DEF UniqueValues, NoValues, Stored
<1>4. ASSUME NEW a \in UniqueAttrs, NEW w \in Folded PROVE owners[a][w] \in Keys \cup {NoKey}
    BY DEF IInv, TypeOK
<1>5. Taken(k, d) => Clashes(resources, k, d)
  <2> SUFFICES ASSUME NEW a \in UniqueAttrs, NEW w \in Folded,
                      UniqueValues(d)[a] = w, owners[a][w] \notin {NoKey, k}
               PROVE  Clashes(resources, k, d)
      BY DEF Taken
  <2> DEFINE q == owners[a][w]
  <2>1. q \in Keys \ {k}
      BY <1>4
  <2>2. resources[q] # NoResource /\ Held(resources[q].data, a) = w
      BY <1>3, <2>1
  <2>3. Held(d, a) = w /\ w # Missing
      BY <1>2, DataAssumption
  <2> QED
      BY <2>1, <2>2, <2>3 DEF Clashes
<1>6. Clashes(resources, k, d) => Taken(k, d)
  <2> SUFFICES ASSUME NEW q \in Keys \ {k}, NEW a \in UniqueAttrs,
                      resources[q] # NoResource, Held(d, a) # Missing,
                      Held(resources[q].data, a) = Held(d, a)
               PROVE  Taken(k, d)
      BY DEF Clashes
  <2> DEFINE w == Held(d, a)
  <2>1. w \in Folded /\ UniqueValues(d)[a] = w
      BY <1>2
  <2> HIDE DEF w
  <2>2. owners[a][w] = q
      BY <1>3, <2>1 DEF w
  <2> QED
      BY <2>1, <2>2, StorageAssumption DEF Taken
<1> QED
    BY <1>5, <1>6

\* A write of the code is a write of the contract.
LEMMA WriteStores ==
    ASSUME IInv, NEW op, NEW k \in Keys, NEW d \in Data(k[1]), Write(op, k, d)
    PROVE  \/ Clashes(resources, k, d) /\ Contract!Refuses(op, "uniqueness")
           \/ ~Clashes(resources, k, d) /\ Contract!Stores(op, k, d)
<1>1. versions \in 1 .. MaxVersion /\ versions' = versions + 1
    BY StorageAssumption DEF Write, IInv, TypeOK
<1>2. versions \in (0 .. MaxVersion) \ (0 .. versions - 1)
    BY <1>1, StorageAssumption
<1>3. 0 .. versions' - 1 = (0 .. versions - 1) \cup {versions}
    BY <1>1, StorageAssumption
<1>4. CASE Taken(k, d)
    BY <1>2, <1>3, <1>4, TakenIsClash
       DEF Write, Answer, Reply, Contract!Refuses, Contract!Reply
<1>5. CASE ~Taken(k, d)
    BY <1>2, <1>3, <1>5, TakenIsClash
       DEF Write, Answer, Reply, Store, Contract!Stores, Contract!Reply
<1> QED
    BY <1>4, <1>5

\* A read of the index answers what walking the resources would.
LEMMA IndexAnswers ==
    ASSUME IInv, NEW t \in Types, NEW a \in Attrs, NEW v \in Values, SearchIndex(t, a, v)
    PROVE  /\ Candidates(t, a, v) \subseteq Stored
           /\ \A k \in Stored : k[1] = t /\ Matches(resources[k], a, v)
                                   => k \in Candidates(t, a, v)
<1>1. IInv'
    BY BuildIndexInv DEF SearchIndex
<1>2. Stored' = Stored /\ resources' = resources
    BY DEF SearchIndex, Stored
<1>3. <<t, a>> \in indexed'
    BY DEF SearchIndex, BuildIndex
<1>4. Comparable[a][v] \in Folded
    BY DataAssumption DEF SearchIndex
<1>5. \A k \in Keys : k \in Candidates(t, a, v)
          <=> k[1] = t /\ equalValues'[k][a] = Comparable[a][v]
    BY <1>1, <1>4 DEF IInv, EqualityIndexExact, Candidates
<1>6. \A k \in Keys : k[1] = t =>
          equalValues'[k][a] = IF k \in Stored THEN Held(resources[k].data, a) ELSE NotIndexed
    BY <1>1, <1>2, <1>3 DEF IInv, EqualityIndexExact
<1>7. Candidates(t, a, v) \subseteq Stored
    BY <1>4, <1>5, <1>6, StorageAssumption DEF Candidates
<1> QED
    BY <1>5, <1>6, <1>7 DEF Matches, Stored

\* The contract of storage.py holds of every step of the in-memory storage.
LEMMA StepRefines ==
    ASSUME IInv, LoadsForeign, [Next]_vars
    PROVE  [Contract!Next]_(Contract!contractVars)
<1> DEFINE Same == UNCHANGED <<resources, versions>>
<1>1. \A e : e \in Expected <=> e \in 0 .. MaxVersion \cup {NoVersion}
    BY DEF Expected
<1>2. ASSUME NEW k \in Keys, NEW d \in Data(k[1]), Create(k, d) PROVE Contract!Create(k, d)
    BY <1>2, WriteStores DEF Create, Stored, Contract!Create, Clashes, Contract!Clashes,
       Held, Contract!Held, Contract!Keys
<1>3. ASSUME NEW op, NEW outcome, Fails(op, outcome) PROVE Contract!Refuses(op, outcome)
    BY <1>3 DEF Fails, Answer, Reply, Contract!Refuses, Contract!Reply
<1>4. ASSUME NEW k \in Keys, NEW e \in Expected, Update(k, e) PROVE Contract!Update(k, e)
  <2>1. CASE k \notin Stored /\ Fails("update", "notFound")
      BY <1>3, <2>1 DEF Contract!Update, Stored
  <2>2. CASE k \in Stored /\ VersionRefused(k, e) /\ Fails("update", "preconditionFailed")
      BY <1>3, <2>2 DEF Contract!Update, Stored, VersionRefused, Contract!VersionMet
  <2>3. CASE /\ k \in Stored /\ ~VersionRefused(k, e)
             /\ \E d \in Data(k[1]) : Write("update", k, d)
    <3>1. PICK d \in Data(k[1]) : Write("update", k, d)
        BY <2>3
    <3>2. d \in Contract!Data(k[1])
        BY <3>1 DEF Data, Contract!Data
    <3>3. Clashes(resources, k, d) <=> Contract!Clashes(resources, k, d)
        BY DEF Clashes, Contract!Clashes, Held, Contract!Held, Contract!Keys
    <3>4. resources[k] # NoResource /\ Contract!VersionMet(resources[k], e)
        BY <2>3 DEF Stored, VersionRefused, Contract!VersionMet
    <3> QED
        BY <3>1, <3>2, <3>3, <3>4, WriteStores DEF Contract!Update
  <2> QED
      BY <1>4, <2>1, <2>2, <2>3 DEF Update
<1>5. ASSUME NEW k \in Keys, NEW e \in Expected, Delete(k, e) PROVE Contract!Delete(k, e)
  <2>1. CASE k \notin Stored /\ Fails("delete", "notFound")
      BY <1>3, <2>1 DEF Contract!Delete, Stored
  <2>2. CASE k \in Stored /\ VersionRefused(k, e) /\ Fails("delete", "preconditionFailed")
      BY <1>3, <2>2 DEF Contract!Delete, Stored, VersionRefused, Contract!VersionMet
  <2>3. CASE /\ k \in Stored /\ ~VersionRefused(k, e)
             /\ Remove(k) /\ Answer("delete", "done", {k}) /\ UNCHANGED versions
      BY <2>3 DEF Contract!Delete, Stored, VersionRefused, Contract!VersionMet, Remove,
         Answer, Reply, Contract!Reply
  <2> QED
      BY <1>5, <2>1, <2>2, <2>3 DEF Delete
<1>6. ASSUME NEW k \in Keys, Get(k) PROVE Contract!Get(k)
    BY <1>6 DEF Get, Answer, Reply, Stored, Contract!Get, Contract!Reply
<1>7. ASSUME NEW types \in SUBSET Types, NEW a \in Attrs, NEW v \in Values, Same,
             NEW found, Answer("search", "done", found),
             found = {k \in Stored : k[1] \in types /\ Matches(resources[k], a, v)}
      PROVE  Contract!Search(types, a, v)
  <2>1. found = {k \in Contract!Keys : /\ k[1] \in types /\ resources[k] # NoResource
                                       /\ Contract!Matches(resources[k], a, v)}
      BY <1>7 DEF Stored, Matches, Contract!Matches, Held, Contract!Held, Contract!Keys
  <2> QED
      BY <1>7, <2>1 DEF Contract!Search, Answer, Reply, Contract!Reply
<1>8. ASSUME NEW t \in Types, NEW a \in Attrs, NEW v \in Values, SearchIndex(t, a, v)
      PROVE  Contract!Search({t}, a, v)
  <2> DEFINE found == {k \in Candidates(t, a, v) : Matches(resources[k], a, v)}
  <2>1. found = {k \in Stored : k[1] \in {t} /\ Matches(resources[k], a, v)}
      BY <1>8, IndexAnswers DEF Candidates
  <2>2. Answer("search", "done", found) /\ Same
      BY <1>8, IndexAnswers DEF SearchIndex
  <2> HIDE DEF found, Same
  <2> QED
      BY <1>7, <2>1, <2>2
<1>9. ASSUME NEW t \in Types, NEW a \in Attrs, NEW v \in Values, SearchUncomparable(t, a, v)
      PROVE  Contract!Search({t}, a, v)
  <2>1. {} = {k \in Stored : k[1] \in {t} /\ Matches(resources[k], a, v)}
      BY <1>9 DEF SearchUncomparable, Matches
  <2>2. Answer("search", "done", {}) /\ Same
      BY <1>9 DEF SearchUncomparable
  <2> HIDE DEF Same
  <2> QED
      BY <1>7, <2>1, <2>2
<1>10. ASSUME NEW types \in SUBSET Types, NEW a \in Attrs, NEW v \in Values,
              SearchWalk(types, a, v)
       PROVE  Contract!Search(types, a, v)
    BY <1>7, <1>10 DEF SearchWalk
<1>11. ASSUME NEW content \in Loads, SetResources(content) PROVE Contract!Load(content)
  <2>1. versions \in Nat /\ 0 \in 0 .. versions - 1
      BY StorageAssumption DEF IInv, TypeOK
  <2>2. \A k \in Keys : content[k] # NoResource => content[k].version \in 0 .. versions - 1
      BY <2>1 DEF LoadsForeign
  <2> QED
      BY <1>11, <2>2 DEF SetResources, Answer, Reply, Contract!Load, Contract!Reply, Contract!Keys
<1>12. CASE UNCHANGED vars
    BY <1>12 DEF vars, Contract!contractVars
<1> QED
    BY <1>1, <1>2, <1>4, <1>5, <1>6, <1>8, <1>9, <1>10, <1>11, <1>12
       DEF Next, Contract!Next, Contract!Keys, Contract!Data, Data

\* The in-memory storage implements the contract of a storage: its indexes
\* never show through what it answers.
THEOREM StorageImplementsContract == LoadsForeign /\ Spec => ContractHolds
<1>1. Init => Contract!Init
    BY StorageAssumption DEF Init, Reply, Contract!Init, Contract!Reply, Contract!Keys
<1>2. IInv /\ LoadsForeign /\ [Next]_vars => [Contract!Next]_(Contract!contractVars)
    BY StepRefines
<1>3. LoadsForeign => []LoadsForeign
    OBVIOUS
<1> QED
    BY <1>1, <1>2, <1>3, StorageInvariant, PTL DEF Spec, ContractHolds, Contract!Spec

-----------------------------------------------------------------------------
(***************************************************************************)
(* Versions, when those of the resources the storage is loaded with are    *)
(* foreign: the counter is ahead of every version that is stored.          *)
(***************************************************************************)
VersionsBehind == \A k \in Stored : resources[k].version < versions

\* Each call leaves the counter ahead of what it stored.
LEMMA VersionsStayBehind ==
    ASSUME IInv, LoadsForeign, VersionsBehind, [Next]_vars
    PROVE  VersionsBehind'
<1>1. versions \in Nat \ {0} /\ \A k \in Stored : resources[k].version \in Nat
    BY StorageAssumption DEF IInv, TypeOK, Stored, Resource
<1>2. ASSUME NEW op, NEW k \in Keys, NEW d \in Data(k[1]), Write(op, k, d)
      PROVE  VersionsBehind'
  <2>1. versions' = versions + 1
      BY <1>2 DEF Write
  <2>2. CASE UNCHANGED resources
      BY <1>1, <2>1, <2>2 DEF VersionsBehind, Stored
  <2>3. CASE Store(k, [data |-> d, version |-> versions])
      BY <1>1, <2>1, <2>3 DEF VersionsBehind, Stored, Store, IInv, TypeOK
  <2> QED
      BY <1>2, <2>2, <2>3 DEF Write
<1>3. ASSUME NEW k \in Keys, Remove(k), UNCHANGED versions PROVE VersionsBehind'
    BY <1>3 DEF VersionsBehind, Stored, Remove, IInv, TypeOK
<1>4. ASSUME UNCHANGED <<resources, versions>> PROVE VersionsBehind'
    BY <1>4 DEF VersionsBehind, Stored
<1>5. ASSUME NEW content \in Loads, SetResources(content) PROVE VersionsBehind'
    BY <1>1, <1>5 DEF VersionsBehind, Stored, SetResources, LoadsForeign
<1>6. ASSUME NEW k \in Keys, NEW e \in Expected, Update(k, e) PROVE VersionsBehind'
    BY <1>2, <1>4, <1>6 DEF Update, Fails
<1>7. ASSUME NEW k \in Keys, NEW e \in Expected, Delete(k, e) PROVE VersionsBehind'
    BY <1>3, <1>4, <1>7 DEF Delete, Fails
<1>8. ASSUME NEW k \in Keys, NEW d \in Data(k[1]), Create(k, d) PROVE VersionsBehind'
    BY <1>2, <1>8 DEF Create
<1> QED
    BY <1>4, <1>5, <1>6, <1>7, <1>8
       DEF Next, Get, SearchIndex, SearchUncomparable, SearchWalk, vars

\* An update that changes a resource gives it another version, when the versions of
\* the loaded resources are foreign: the counter gives none twice, so a client with
\* the entity tag of the former content is refused (memory.py next_version).
THEOREM UpdatesChangeVersions == LoadsForeign /\ Spec => VersionChangesWithResource
<1> DEFINE Changes ==
        \A k \in Keys :
            (k \in Stored /\ k \in Stored' /\ reply'.op = "update"
               /\ resources'[k].data # resources[k].data)
            => resources'[k].version # resources[k].version
<1>1. Init => VersionsBehind
    BY DEF Init, VersionsBehind, Stored
<1>2. IInv /\ VersionsBehind /\ [Next]_vars => [Changes]_vars
  <2> SUFFICES ASSUME IInv, VersionsBehind, Next, NEW k \in Stored, reply'.op = "update",
                      resources'[k].data # resources[k].data
               PROVE  resources'[k].version # resources[k].version
      BY DEF Stored
  <2>1. PICK q \in Keys : \E d \in Data(q[1]) : Write("update", q, d)
    <3>0. \A op, outcome, keys : Answer(op, outcome, keys) => op = "update"
        BY DEF Answer, Reply
    <3>1. PICK q \in Keys, e \in Expected : Update(q, e)
      <4>1. \A q \in Keys : ~Get(q) /\ \A d \in Data(q[1]) : ~Create(q, d)
          BY <3>0 DEF Get, Create, Write
      <4>2. \A q \in Keys, e \in Expected : ~Delete(q, e)
          BY <3>0 DEF Delete, Fails
      <4>3. \A t \in Types, a \in Attrs, v \in Values :
                ~SearchIndex(t, a, v) /\ ~SearchUncomparable(t, a, v)
          BY <3>0 DEF SearchIndex, SearchUncomparable
      <4>4. \A types \in SUBSET Types, a \in Attrs, v \in Values : ~SearchWalk(types, a, v)
          BY <3>0 DEF SearchWalk
      <4>5. \A content \in Loads : ~SetResources(content)
          BY <3>0 DEF SetResources
      <4> QED
          BY <4>1, <4>2, <4>3, <4>4, <4>5 DEF Next
    <3>2. ~ UNCHANGED resources
        OBVIOUS
    <3> QED
        BY <3>1, <3>2 DEF Update, Fails
  <2>2. PICK d \in Data(q[1]) : Store(q, [data |-> d, version |-> versions])
      BY <2>1 DEF Write
  <2>3. q = k /\ resources'[k].version = versions
      BY <2>2 DEF Store, IInv, TypeOK, Stored
  <2>4. resources[k].version < versions /\ resources[k].version \in Nat /\ versions \in Nat
      BY StorageAssumption DEF VersionsBehind, IInv, TypeOK, Stored, Resource
  <2> QED
      BY <2>3, <2>4
<1>3. IInv /\ LoadsForeign /\ VersionsBehind /\ [Next]_vars => VersionsBehind'
    BY VersionsStayBehind
<1>4. LoadsForeign => []LoadsForeign
    OBVIOUS
<1> QED
    BY <1>1, <1>2, <1>3, <1>4, StorageInvariant, PTL DEF Spec, VersionChangesWithResource
=============================================================================
