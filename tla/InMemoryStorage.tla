-------------------------- MODULE InMemoryStorage --------------------------
(***************************************************************************)
(* The storage of memory.py: the resources, the index of the unique        *)
(* values, the equality indexes it builds on the first search that can use *)
(* one, and the counter its versions come from.  Each method holds the     *)
(* lock (or, in the asynchronous variant, never awaits), so it is one step *)
(* here.                                                                   *)
(*                                                                         *)
(* A dict is a total function whose range has one more value for "no       *)
(* entry"; the index of equal values, a dict of dicts of sets of           *)
(* identifiers, is the set of its <<type, attribute, value, id>> entries.  *)
(***************************************************************************)
EXTENDS ScimResources

CONSTANTS
    NoKey,        \* no resource owns a unique value
    NotIndexed,   \* no equality index holds a value of this resource
    MaxVersion,   \* bound: the versions next_version gives in a behaviour
    Loads         \* the lists of resources the program assigns to the storage

ASSUME StorageAssumption ==
    /\ NoKey \notin Keys
    /\ NotIndexed \notin Folded \cup {Missing}
    /\ MaxVersion \in Nat

\* The setter checks nothing: the lists it is given hold resources of distinct
\* keys, no two of which share a unique value.
ASSUME LoadsAssumption ==
    \A content \in Loads :
        /\ content \in [Keys -> Resource \cup {NoResource}]
        /\ \A k \in Keys : content[k] # NoResource =>
               content[k].data \in Data(k[1]) /\ ~Clashes(content, k, content[k].data)

VARIABLES
    resources,      \* _resources
    owners,         \* _owners: for each unique attribute, the key holding a value
    uniqueValues,   \* _unique_values: what each key put in owners
    indexed,        \* the <<type, attribute>> pairs that have an equality index
    equalities,     \* _equalities: the entries of these indexes
    equalValues,    \* _equal_values: what each key put in equalities
    versions,       \* the next value of the counter
    reply           \* the last answer

indexes == <<owners, uniqueValues, indexed, equalities, equalValues>>
vars == <<resources, indexes, versions, reply>>

Stored == {k \in Keys : resources[k] # NoResource}

NoValues == [a \in UniqueAttrs |-> Missing]
NoEntries == [a \in Attrs |-> NotIndexed]

Reply(op, outcome, keys) == [op |-> op, outcome |-> outcome, keys |-> keys]

Answer(op, outcome, keys) == reply' = Reply(op, outcome, keys)

\* Mutant: the counter starts at its default, 0, as a foreign version may.
CountFromZero ==
    /\ resources = [k \in Keys |-> NoResource]
    /\ owners = [a \in UniqueAttrs |-> [w \in Folded |-> NoKey]]
    /\ uniqueValues = [k \in Keys |-> NoValues]
    /\ indexed = {}
    /\ equalities = {}
    /\ equalValues = [k \in Keys |-> NoEntries]
    /\ versions = 0
    /\ reply = Reply("start", "done", {})

Init ==
    /\ resources = [k \in Keys |-> NoResource]
    /\ owners = [a \in UniqueAttrs |-> [w \in Folded |-> NoKey]]
    /\ uniqueValues = [k \in Keys |-> NoValues]
    /\ indexed = {}
    /\ equalities = {}
    /\ equalValues = [k \in Keys |-> NoEntries]
    /\ versions = 1
    /\ reply = Reply("start", "done", {})

-----------------------------------------------------------------------------
(***************************************************************************)
(* The helpers of the indexes.                                             *)
(***************************************************************************)

\* The entry of a resource in the equality index of one of its attributes.
EntryOf(k, a, w) == <<k[1], a, w, k[2]>>

\* _remove, on the two indexes: the values this key put there are dropped.
OwnersWithout(k) ==
    [a \in UniqueAttrs |-> [w \in Folded |->
        IF uniqueValues[k][a] = w THEN NoKey ELSE owners[a][w]]]

\* Mutant: the former value of a resource stays in the equality index.
KeepFormerEqualities(k) == equalities

EqualitiesWithout(k) ==
    equalities \ {EntryOf(k, a, equalValues[k][a]) : a \in Attrs}

\* What _store puts in the equality indexes of its resource type.
EntriesFor(k, d) ==
    [a \in Attrs |-> IF <<k[1], a>> \in indexed THEN Held(d, a) ELSE NotIndexed]

Store(k, r) ==
    LET unique == UniqueValues(r.data)
        equal == EntriesFor(k, r.data)
    IN  /\ resources' = [resources EXCEPT ![k] = r]
        /\ uniqueValues' = [uniqueValues EXCEPT ![k] = unique]
        /\ owners' = [a \in UniqueAttrs |-> [w \in Folded |->
                         IF unique[a] = w THEN k ELSE OwnersWithout(k)[a][w]]]
        /\ equalValues' = [equalValues EXCEPT ![k] = equal]
        /\ equalities' = EqualitiesWithout(k)
               \cup {EntryOf(k, a, equal[a]) : a \in {b \in Attrs : <<k[1], b>> \in indexed}}
        /\ UNCHANGED indexed

Remove(k) ==
    /\ resources' = [resources EXCEPT ![k] = NoResource]
    /\ uniqueValues' = [uniqueValues EXCEPT ![k] = NoValues]
    /\ owners' = OwnersWithout(k)
    /\ equalValues' = [equalValues EXCEPT ![k] = NoEntries]
    /\ equalities' = EqualitiesWithout(k)
    /\ UNCHANGED indexed

\* Mutant: the uniqueness is enforced among the resources of a type only.
TakenInType(k, d) ==
    \E a \in UniqueAttrs, w \in Folded :
        /\ UniqueValues(d)[a] = w
        /\ owners[a][w] \notin {NoKey, k}
        /\ owners[a][w][1] = k[1]

\* _check_uniqueness: a value of the resource has another owner.
Taken(k, d) ==
    \E a \in UniqueAttrs, w \in Folded :
        UniqueValues(d)[a] = w /\ owners[a][w] \notin {NoKey, k}

\* _check_version
VersionRefused(k, expected) ==
    expected # NoVersion /\ resources[k].version # expected
-----------------------------------------------------------------------------
(***************************************************************************)
(* The methods.                                                            *)
(***************************************************************************)

\* next_version has been called: the counter moves on, even when the write is
\* then refused for a unique value.
Write(op, k, d) ==
    /\ versions <= MaxVersion
    /\ versions' = versions + 1
    /\ \/ /\ Taken(k, d)
          /\ Answer(op, "uniqueness", {})
          /\ UNCHANGED <<resources, indexes>>
       \/ /\ ~Taken(k, d)
          /\ Store(k, [data |-> d, version |-> versions])
          /\ Answer(op, "done", {k})

\* generate_id gives an identifier no stored resource has.
Create(k, d) == k \notin Stored /\ Write("create", k, d)

Fails(op, outcome) ==
    Answer(op, outcome, {}) /\ UNCHANGED <<resources, indexes, versions>>

Update(k, expected) ==
    \/ k \notin Stored /\ Fails("update", "notFound")
    \/ k \in Stored /\ VersionRefused(k, expected) /\ Fails("update", "preconditionFailed")
    \/ /\ k \in Stored /\ ~VersionRefused(k, expected)
       /\ \E d \in Data(k[1]) : Write("update", k, d)

Delete(k, expected) ==
    \/ k \notin Stored /\ Fails("delete", "notFound")
    \/ k \in Stored /\ VersionRefused(k, expected) /\ Fails("delete", "preconditionFailed")
    \/ /\ k \in Stored /\ ~VersionRefused(k, expected)
       /\ Remove(k)
       /\ Answer("delete", "done", {k})
       /\ UNCHANGED versions

Get(k) ==
    /\ Answer("get", IF k \in Stored THEN "done" ELSE "notFound", {k} \cap Stored)
    /\ UNCHANGED <<resources, indexes, versions>>
-----------------------------------------------------------------------------
(***************************************************************************)
(* The search.  Comparing one string attribute of one resource type with   *)
(* eq goes through an index; any other search walks the resources.         *)
(***************************************************************************)

\* Mutant: building an index does not note what it holds for each resource.
BuildIndexUnnoted(t, a) ==
    /\ indexed' = indexed \cup {<<t, a>>}
    /\ equalities' = equalities \cup
          {EntryOf(k, a, Held(resources[k].data, a)) : k \in {q \in Stored : q[1] = t}}
    /\ UNCHANGED equalValues

\* _equality_index: the values of every stored resource, on the first search.
BuildIndex(t, a) ==
    LET held == {k \in Stored : k[1] = t}
    IN  IF <<t, a>> \in indexed
        THEN UNCHANGED <<indexed, equalities, equalValues>>
        ELSE /\ indexed' = indexed \cup {<<t, a>>}
             /\ equalities' = equalities
                    \cup {EntryOf(k, a, Held(resources[k].data, a)) : k \in held}
             /\ equalValues' = [k \in Keys |->
                    IF k \in held THEN [equalValues[k] EXCEPT ![a] = Held(resources[k].data, a)]
                                  ELSE equalValues[k]]

\* The keys the index of an attribute gives for a value.  A key whose resource
\* is gone would raise a KeyError.
Candidates(t, a, v) == {k \in Keys : k[1] = t /\ EntryOf(k, a, Comparable[a][v]) \in equalities'}

SearchIndex(t, a, v) ==
    /\ a \in Declares[t]
    /\ Comparable[a][v] # Missing
    /\ BuildIndex(t, a)
    /\ IF Candidates(t, a, v) \subseteq Stored
       THEN Answer("search", "done", {k \in Candidates(t, a, v) : Matches(resources[k], a, v)})
       ELSE Answer("search", "KeyError", {})
    /\ UNCHANGED <<resources, owners, uniqueValues, versions>>

\* The filter holds a string its attribute cannot compare: nothing matches.
SearchUncomparable(t, a, v) ==
    /\ a \in Declares[t]
    /\ Comparable[a][v] = Missing
    /\ Answer("search", "done", {})
    /\ UNCHANGED <<resources, indexes, versions>>

SearchWalk(types, a, v) ==
    /\ ~ \E t \in types : types = {t} /\ a \in Declares[t]
    /\ Answer("search", "done", {k \in Stored : k[1] \in types /\ Matches(resources[k], a, v)})
    /\ UNCHANGED <<resources, indexes, versions>>

\* The setter of resources: it empties the indexes and stores each resource
\* as it comes, with the version it comes with.
SetResources(content) ==
    /\ resources' = content
    /\ uniqueValues' = [k \in Keys |->
           IF content[k] = NoResource THEN NoValues ELSE UniqueValues(content[k].data)]
    /\ owners' = [a \in UniqueAttrs |-> [w \in Folded |->
           IF \E k \in Keys : uniqueValues'[k][a] = w
           THEN CHOOSE k \in Keys : uniqueValues'[k][a] = w
           ELSE NoKey]]
    /\ indexed' = {}
    /\ equalities' = {}
    /\ equalValues' = [k \in Keys |-> NoEntries]
    /\ Answer("load", "done", {})
    /\ UNCHANGED versions

Expected == 0 .. MaxVersion \cup {NoVersion}

Next ==
    \/ \E k \in Keys : Get(k) \/ \E d \in Data(k[1]) : Create(k, d)
    \/ \E k \in Keys, e \in Expected : Update(k, e) \/ Delete(k, e)
    \/ \E t \in Types, a \in Attrs, v \in Values :
          SearchIndex(t, a, v) \/ SearchUncomparable(t, a, v)
    \/ \E types \in SUBSET Types, a \in Attrs, v \in Values : SearchWalk(types, a, v)
    \/ \E content \in Loads : SetResources(content)

Spec == Init /\ [][Next]_vars

-----------------------------------------------------------------------------
(***************************************************************************)
(* Properties.                                                             *)
(***************************************************************************)

TypeOK ==
    /\ resources \in [Keys -> Resource \cup {NoResource}]
    /\ \A k \in Stored : resources[k].data \in Data(k[1])
    /\ owners \in [UniqueAttrs -> [Folded -> Keys \cup {NoKey}]]
    /\ uniqueValues \in [Keys -> [UniqueAttrs -> Folded \cup {Missing}]]
    /\ indexed \in SUBSET (Types \X Attrs)
    /\ equalities \in SUBSET (Types \X Attrs \X (Folded \cup {Missing}) \X Ids)
    /\ equalValues \in [Keys -> [Attrs -> Folded \cup {Missing, NotIndexed}]]
    /\ versions \in 1 .. MaxVersion + 1

\* No two stored resources, whatever their resource types, hold the same value
\* of a unique attribute: _check_uniqueness only looks at the index, so this
\* rests on every write, move and deletion of a value keeping the index right.
NoSharedUniqueValue ==
    \A k1, k2 \in Stored, a \in UniqueAttrs :
        (k1 # k2 /\ Held(resources[k1].data, a) # Missing)
            => Held(resources[k1].data, a) # Held(resources[k2].data, a)

\* The index of the unique values holds exactly the values of the stored
\* resources: a value freed by an update or a deletion can be taken again, and
\* "del owners[urn][value]" never raises.
UniqueIndexExact ==
    /\ \A k \in Keys :
          uniqueValues[k] = IF k \in Stored THEN UniqueValues(resources[k].data) ELSE NoValues
    /\ \A a \in UniqueAttrs, w \in Folded, k \in Keys :
          owners[a][w] = k <=> uniqueValues[k][a] = w

\* An equality index, once built, holds exactly the values of the resources of
\* its type, whether they were written before or after it was built: no search
\* misses a resource, and none looks up one that is gone.
EqualityIndexExact ==
    /\ \A k \in Keys, a \in Attrs :
          equalValues[k][a] = IF k \in Stored /\ <<k[1], a>> \in indexed
                              THEN Held(resources[k].data, a) ELSE NotIndexed
    /\ \A k \in Keys, a \in Attrs, w \in Folded \cup {Missing} :
          EntryOf(k, a, w) \in equalities <=> equalValues[k][a] = w

IndexesExact == UniqueIndexExact /\ EqualityIndexExact

\* The storage keeps the contract of storage.py: each call answers what the
\* stored resources alone decide, an index never shows through, and every write
\* that is stored gets a version none had before.
Contract == INSTANCE ScimStorage WITH
    store <- resources,
    spent <- 0 .. versions - 1,
    Versions <- 0 .. MaxVersion

ContractHolds == Contract!Spec

\* An update that changes a stored resource changes its version (storage.py,
\* "The version changes whenever the resource changes").
VersionChangesWithResource ==
    [][\A k \in Keys :
          (k \in Stored /\ k \in Stored' /\ reply'.op = "update"
             /\ resources'[k].data # resources[k].data)
          => resources'[k].version # resources[k].version]_vars
=============================================================================
