--------------------------- MODULE ScimResources ---------------------------
(***************************************************************************)
(* The data every module of this project shares: resources, the values     *)
(* their attributes hold, and what a storage answers.                      *)
(*                                                                         *)
(* A resource is the attributes the client set and the version the storage *)
(* gave to its last write.  The dates and the location of meta are left    *)
(* out: no decision of the code depends on them.                           *)
(***************************************************************************)
EXTENDS Naturals

CONSTANTS
    Types,        \* the resource types the service serves
    Ids,          \* the identifiers generate_id may give
    Attrs,        \* single-valued string attributes, each standing for a URN
    UniqueAttrs,  \* those whose uniqueness is server or global
    Declares,     \* the attributes the schemas of each resource type declare
    Values,       \* the values a client may send
    Folded,       \* the forms values are compared in
    Comparable,   \* the form in which an attribute compares a value
    Missing,      \* no value
    NoResource,   \* no resource is stored under a key
    NoVersion     \* the caller expects no particular version

(***************************************************************************)
(* A policy may refuse to compare a string: Comparable then gives Missing. *)
(***************************************************************************)
ASSUME DataAssumption ==
    /\ UniqueAttrs \subseteq Attrs
    /\ Declares \in [Types -> SUBSET Attrs]
    /\ Comparable \in [Attrs -> [Values -> Folded \cup {Missing}]]
    /\ Missing \notin Values \cup Folded
    /\ NoVersion \notin Nat

\* A resource is stored under its resource type and its identifier.
Keys == Types \X Ids

\* The attributes of a resource: those its schemas do not declare hold no value.
Data(t) == {d \in [Attrs -> Values \cup {Missing}] :
               \A a \in Attrs \ Declares[t] : d[a] = Missing}

Resource == [data : [Attrs -> Values \cup {Missing}], version : Nat]

ASSUME NoResourceAssumption == NoResource \notin Resource

\* The value an attribute holds, in the form it is compared in.
Held(d, a) == IF d[a] = Missing THEN Missing ELSE Comparable[a][d[a]]

\* What a resource puts in the index of the unique values.
UniqueValues(d) == [a \in UniqueAttrs |-> Held(d, a)]

\* Whether a stored resource answers the filter "a eq v": a value the policy
\* cannot compare equals none, not even itself.
Matches(r, a, v) == Comparable[a][v] # Missing /\ Held(r.data, a) = Comparable[a][v]

(***************************************************************************)
(* What the contract of a storage makes of a write, given what it holds.   *)
(* ScimStorage states the contract with these, and the modules that use a  *)
(* storage call it through them.                                           *)
(***************************************************************************)

\* A resource with data d under key k would share a unique value with another.
Clashes(held, k, d) ==
    \E other \in Keys \ {k}, a \in UniqueAttrs :
        /\ held[other] # NoResource
        /\ Held(d, a) # Missing
        /\ Held(held[other].data, a) = Held(d, a)

VersionMet(r, expected) == expected = NoVersion \/ r.version = expected

CreateOutcome(held, k, d) == IF Clashes(held, k, d) THEN "uniqueness" ELSE "done"

UpdateOutcome(held, k, d, expected) ==
    CASE held[k] = NoResource -> "notFound"
      [] held[k] # NoResource /\ ~VersionMet(held[k], expected) -> "preconditionFailed"
      [] held[k] # NoResource /\ VersionMet(held[k], expected) -> CreateOutcome(held, k, d)

DeleteOutcome(held, k, expected) ==
    CASE held[k] = NoResource -> "notFound"
      [] held[k] # NoResource /\ ~VersionMet(held[k], expected) -> "preconditionFailed"
      [] held[k] # NoResource /\ VersionMet(held[k], expected) -> "done"
=============================================================================
