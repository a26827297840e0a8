------------------------------ MODULE BulkPlan ------------------------------
(***************************************************************************)
(* The order in which bulk.py runs the operations of a bulk request: a     *)
(* depth-first walk, without recursion, of the "bulkId:" references.       *)
(*                                                                         *)
(* Operations are numbered from 1.  The stack holds the operations the     *)
(* walk is in the middle of, each with the iterator over its references.   *)
(***************************************************************************)
EXTENDS Naturals, Sequences

CONSTANTS
    BulkIds,        \* the bulkIds of a request
    NoBulkId,       \* the operation has no bulkId
    BulkRequests    \* the lists of operations a client may send

(***************************************************************************)
(* What a plan needs to know of an operation: its method, its bulkId and   *)
(* the bulkIds it references, those of its path before those of its data.  *)
(***************************************************************************)
ASSUME BulkRequestsAssumption ==
    /\ NoBulkId \notin BulkIds
    /\ \A request \in BulkRequests :
          /\ DOMAIN request = 1 .. Len(request) /\ Len(request) \in Nat
          /\ \A i \in DOMAIN request :
                /\ request[i].bulkId \in BulkIds \cup {NoBulkId}
                /\ request[i].refs \in Seq(BulkIds)

VARIABLES
    operations,   \* the operations of the request
    root,         \* the next operation the walk starts from
    stack,        \* the operations on the path of the walk, with their iterators
    visited,      \* the operations that have their place in the order
    steps         \* the order, as far as it is known

planVars == <<operations, root, stack, visited, steps>>

Indexes == 1 .. Len(operations)

(***************************************************************************)
(* The creation a bulkId references: the first POST that has it.           *)
(***************************************************************************)
Creating(b) == {i \in Indexes : operations[i].method = "post" /\ operations[i].bulkId = b}

IsCreation(i, b) == i \in Creating(b) /\ \A j \in Creating(b) : i <= j

PlanInit ==
    /\ operations \in BulkRequests
    /\ root = 1
    /\ stack = <<>>
    /\ visited = {}
    /\ steps = <<>>

Planned == stack = <<>> /\ root > Len(operations)

OnPath == {stack[n].index : n \in DOMAIN stack}

Top == stack[Len(stack)]

Frame(i) == [index |-> i, next |-> 1]

\* The reference the iterator of the top of the stack is about to yield.
Reference == operations[Top.index].refs[Top.next]

HasReference == Top.next <= Len(operations[Top.index].refs)

Advanced == [stack EXCEPT ![Len(stack)].next = @ + 1]

\* Mutant: the references of a referenced creation are not walked.
FollowsFromRoot(d) == IsCreation(d, Reference) /\ d \notin visited \cup OnPath /\ Len(stack) = 1

\* Mutant: every POST is walked, referenced or not.
FollowsEveryPost(d) == operations[d].method = "post" /\ d \notin visited \cup OnPath

\* Mutant: a creation the walk is in the middle of is walked again.
FollowsOnPath(d) == IsCreation(d, Reference) /\ d \notin visited

\* The reference leads to a creation the walk has not met yet.
Follows(d) == IsCreation(d, Reference) /\ d \notin visited \cup OnPath

-----------------------------------------------------------------------------
NextRoot ==
    /\ stack = <<>> /\ root \in Indexes /\ root \in visited
    /\ root' = root + 1
    /\ UNCHANGED <<operations, stack, visited, steps>>

StartRoot ==
    /\ stack = <<>> /\ root \in Indexes /\ root \notin visited
    /\ stack' = <<Frame(root)>>
    /\ UNCHANGED <<operations, root, visited, steps>>

Follow ==
    /\ stack # <<>> /\ HasReference
    /\ \E d \in Indexes : Follows(d) /\ stack' = Append(Advanced, Frame(d))
    /\ UNCHANGED <<operations, root, visited, steps>>

\* Mutant: the iterator is looked at, and does not advance.
SkipForever ==
    /\ stack # <<>> /\ HasReference
    /\ ~ \E d \in Indexes : Follows(d)
    /\ UNCHANGED planVars

\* The reference has no creation, or one the walk already met.
Skip ==
    /\ stack # <<>> /\ HasReference
    /\ ~ \E d \in Indexes : Follows(d)
    /\ stack' = Advanced
    /\ UNCHANGED <<operations, root, visited, steps>>

\* Mutant: the operation is not noted as visited.
FinishUnvisited ==
    /\ stack # <<>> /\ ~HasReference
    /\ stack' = SubSeq(stack, 1, Len(stack) - 1)
    /\ visited' = visited
    /\ steps' = Append(steps, Top.index)
    /\ root' = IF Len(stack) = 1 THEN root + 1 ELSE root
    /\ UNCHANGED operations

Finish ==
    /\ stack # <<>> /\ ~HasReference
    /\ stack' = SubSeq(stack, 1, Len(stack) - 1)
    /\ visited' = visited \cup {Top.index}
    /\ steps' = Append(steps, Top.index)
    /\ UNCHANGED <<operations, root>>

Plan == NextRoot \/ StartRoot \/ Follow \/ Skip \/ Finish
-----------------------------------------------------------------------------
(***************************************************************************)
(* Properties.                                                             *)
(***************************************************************************)

PlanTypeOK ==
    /\ operations \in BulkRequests
    /\ root \in 1 .. Len(operations) + 1
    /\ stack \in Seq([index : Indexes, next : Nat \ {0}])
    /\ visited \subseteq Indexes
    /\ steps \in Seq(Indexes)

\* The creations an operation references.
DependsOn(i) ==
    {d \in Indexes : \E n \in DOMAIN operations[i].refs : IsCreation(d, operations[i].refs[n])}

\* Operation i references j, directly or through other creations: j is in every
\* set that holds what i references and what its own members reference.
Reaches(i, j) ==
    LET first == DependsOn(i)
        depends == [k \in Indexes |-> DependsOn(k)]
    IN  \A set \in SUBSET Indexes :
            (first \subseteq set /\ \A k \in set : depends[k] \subseteq set) => j \in set

Before(i, j) == \E m, n \in DOMAIN steps : m < n /\ steps[m] = i /\ steps[n] = j

\* Every operation has one place in the order, and only one: none runs twice,
\* none is forgotten, however the references cross.
EachOperationOnce ==
    Planned => \A i \in Indexes : \E n \in DOMAIN steps :
                   steps[n] = i /\ \A m \in DOMAIN steps : steps[m] = i => m = n

\* A creation comes before the operations that reference it, unless it
\* references them in turn.
CreationsFirst ==
    Planned => \A i \in Indexes : \A d \in DependsOn(i) : Before(d, i) \/ Reaches(d, i)

\* The order of the request is only left for a creation that an operation
\* before it in the request needs.
OrderOfTheRequest ==
    Planned => \A m, n \in DOMAIN steps :
        (m < n /\ steps[m] > steps[n]) => \E i \in 1 .. steps[n] : Reaches(i, steps[m])

\* The operations the walk has not met, and what is left to do where it is.
Unmet == Indexes \ (visited \cup OnPath)
LeftHere == IF stack = <<>> THEN Len(operations) + 1 - root
                           ELSE Len(operations[Top.index].refs) + 1 - Top.next

\* The walk cannot go on forever, cycles or not: each step meets an operation for
\* good, or meets none and leaves one of the path behind, or advances on the path
\* it is on (bulk.py plan_steps, "visited" and "on_path").
WalkDescends ==
    [][/\ Unmet' \subseteq Unmet
       /\ Unmet' = Unmet =>
              \/ Len(stack') < Len(stack)
              \/ Len(stack') = Len(stack) /\ LeftHere' < LeftHere /\ LeftHere > 0]_planVars
=============================================================================
