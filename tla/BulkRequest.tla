---------------------------- MODULE BulkRequest ----------------------------
(***************************************************************************)
(* A bulk request: its plan (BulkPlan), then its operations one by one, on *)
(* a storage other requests write to between two operations.               *)
(*                                                                         *)
(* Each operation holds operation() of the storage for itself only, and    *)
(* Handler models the read and the write inside it, so applying one is one *)
(* step here.  The resources of the storage are their identifiers.         *)
(***************************************************************************)
EXTENDS BulkPlan, FiniteSets

CONSTANTS
    Ids,             \* the identifiers of resources
    NoId,            \* no identifier
    StoredAtStart,   \* the resources stored before the request
    Limits,          \* the values of failOnErrors
    NoLimit,         \* the client does not cap the errors
    PatchSupported,  \* whether the configuration announces PATCH
    MaxOthers        \* bound: the writes of other requests

(***************************************************************************)
(* Besides what BulkPlan asks, an operation has the reason why it is not   *)
(* routed, if any ("unreadable": no method or no path), the identifier or  *)
(* the bulkId of its target, whether the client may do it and whether its  *)
(* data is valid.  The path of a POST is an endpoint: it has no target.    *)
(***************************************************************************)
ASSUME BulkAssumption ==
    /\ NoId \notin Ids \cup BulkIds /\ Ids \cap BulkIds = {}
    /\ StoredAtStart \subseteq Ids
    /\ Limits \subseteq Nat \cup {NoLimit} /\ NoLimit \notin Nat
    /\ PatchSupported \in BOOLEAN /\ MaxOthers \in Nat
    /\ \A request \in BulkRequests : \A i \in DOMAIN request :
          /\ request[i].route \in {"routed", "unreadable", "notFound", "methodNotAllowed", "invalid"}
          /\ request[i].target \in Ids \cup BulkIds \cup {NoId}
          /\ request[i].target \in BulkIds =>
                /\ Len(request[i].refs) > 0
                /\ request[i].refs[1] = request[i].target
          /\ request[i].allowed \in BOOLEAN /\ request[i].valid \in BOOLEAN
          /\ request[i].route = "unreadable" => ~request[i].valid
          /\ request[i].method = "post" /\ request[i].route = "routed" => request[i].target = NoId

VARIABLES
    failOnErrors,   \* the errors the client accepts
    turn,           \* the next step of the plan
    results,        \* the status of each operation that ran
    created,        \* the identifier of the resource each bulkId created
    errors,         \* how many operations failed
    stored,         \* the resources stored now
    acted,          \* the resource each operation that succeeded acted on
    passed,         \* the identifiers it passed to the storage in place of references
    others          \* how many writes other requests did

runVars == <<failOnErrors, turn, results, created, errors, stored, acted, passed,
            others>>
vars == <<planVars, runVars>>

Init ==
    /\ PlanInit
    /\ failOnErrors \in Limits
    /\ turn = 1
    /\ results = [i \in Indexes |-> "none"]
    /\ created = [b \in BulkIds |-> NoId]
    /\ errors = 0
    /\ stored = StoredAtStart
    /\ acted = [i \in Indexes |-> NoId]
    /\ passed = [i \in Indexes |-> {}]
    /\ others = 0

Failures == {"notFound", "methodNotAllowed", "invalid", "conflict", "forbidden",
             "notImplemented", "refused"}

\* Mutant: the request stops once it is beyond the errors the client accepts.
StoppedBeyond == failOnErrors # NoLimit /\ errors > failOnErrors

Stopped == failOnErrors # NoLimit /\ errors > 0 /\ errors >= failOnErrors

\* The step the plan yields.
Current == steps[turn]

Running == Planned /\ turn <= Len(steps) /\ ~Stopped

Answered == Planned /\ (turn > Len(steps) \/ Stopped)

-----------------------------------------------------------------------------
(***************************************************************************)
(* Before the storage: the path, the references, the rights of the client  *)
(* and the validation of the data, in this order.                          *)
(***************************************************************************)

Duplicate(i) ==
    /\ operations[i].method = "post"
    /\ operations[i].bulkId # NoBulkId
    /\ ~IsCreation(i, operations[i].bulkId)

\* Mutant: only a reference no POST has is refused.
UnresolvedIfUnknown(i) ==
    \E n \in DOMAIN operations[i].refs : Creating(operations[i].refs[n]) = {}

\* A reference has no created resource: the POST failed, or did not run yet.
Unresolved(i) == \E n \in DOMAIN operations[i].refs : created[operations[i].refs[n]] = NoId

Refusal(i) ==
    LET op == operations[i]
    IN  IF op.route \notin {"routed", "unreadable"} THEN op.route
        ELSE IF Duplicate(i) THEN "invalid"
        ELSE IF Unresolved(i) THEN "conflict"
        ELSE IF op.route = "routed" /\ ~op.allowed THEN "forbidden"
        ELSE IF ~op.valid THEN "invalid"
        ELSE IF op.method = "patch" /\ ~PatchSupported THEN "notImplemented"
        ELSE "none"

\* The identifiers an operation holds once its references are replaced.
Resolved(i) == {created[operations[i].refs[n]] : n \in DOMAIN operations[i].refs}

Target(i) ==
    IF operations[i].target \in BulkIds THEN created[operations[i].target]
                                        ELSE operations[i].target

\* Mutant: the resource of any operation is recorded under its bulkId.
RecordsAny(i, status, id) ==
    /\ turn' = turn + 1
    /\ results' = [results EXCEPT ![i] = status]
    /\ errors' = errors + (IF status \in Failures THEN 1 ELSE 0)
    /\ created' = IF status \notin Failures /\ operations[i].bulkId # NoBulkId
                  THEN [created EXCEPT ![operations[i].bulkId] = id] ELSE created
    /\ UNCHANGED <<planVars, failOnErrors, others>>

\* plan.record
Records(i, status, id) ==
    /\ turn' = turn + 1
    /\ results' = [results EXCEPT ![i] = status]
    /\ errors' = errors + (IF status \in Failures THEN 1 ELSE 0)
    /\ created' = [b \in BulkIds |->
           IF status \notin Failures /\ id # NoId /\ IsCreation(i, b) THEN id ELSE created[b]]
    /\ UNCHANGED <<planVars, failOnErrors, others>>

Fails(i, status) == Records(i, status, NoId) /\ UNCHANGED <<stored, acted, passed>>

\* What the storage gets from an operation it accepts.
Passes(i, id) ==
    /\ acted' = [acted EXCEPT ![i] = id]
    /\ passed' = [passed EXCEPT ![i] = Resolved(i)]
-----------------------------------------------------------------------------
Refuse ==
    /\ Running /\ Refusal(Current) # "none"
    /\ Fails(Current, Refusal(Current))

\* storage.create, which may refuse a unique value.
ApplyPost ==
    /\ Running /\ Refusal(Current) = "none" /\ operations[Current].method = "post"
    /\ \/ Fails(Current, "refused")
       \/ \E id \in Ids \ stored :
             /\ stored' = stored \cup {id}
             /\ Passes(Current, id)
             /\ Records(Current, "ok", id)

ApplyChange ==
    /\ Running /\ Refusal(Current) = "none" /\ operations[Current].method \in {"put", "patch"}
    /\ \/ Target(Current) \notin stored /\ Fails(Current, "notFound")
       \/ Target(Current) \in stored /\ Fails(Current, "refused")
       \/ /\ Target(Current) \in stored
          /\ Passes(Current, Target(Current))
          /\ Records(Current, "ok", Target(Current))
          /\ UNCHANGED stored

ApplyDelete ==
    /\ Running /\ Refusal(Current) = "none" /\ operations[Current].method = "delete"
    /\ \/ Target(Current) \notin stored /\ Fails(Current, "notFound")
       \/ Target(Current) \in stored /\ Fails(Current, "refused")
       \/ /\ Target(Current) \in stored
          /\ stored' = stored \ {Target(Current)}
          /\ Passes(Current, Target(Current))
          /\ Records(Current, "ok", NoId)

\* Another request creates or deletes a resource between two operations.
Others ==
    /\ Planned /\ ~Answered /\ others < MaxOthers
    /\ others' = others + 1
    /\ \E id \in Ids : stored' \in {stored \cup {id}, stored \ {id}} \ {stored}
    /\ UNCHANGED <<planVars, failOnErrors, turn, results, created, errors, acted,
                   passed>>

Progress ==
    \/ Plan /\ UNCHANGED runVars
    \/ Refuse \/ ApplyPost \/ ApplyChange \/ ApplyDelete

Done == Answered /\ UNCHANGED vars

Next == Progress \/ Others \/ Done

\* The handler runs the plan to its end: it waits for nobody.
Spec == Init /\ [][Next]_vars /\ WF_vars(Progress)
-----------------------------------------------------------------------------
(***************************************************************************)
(* Properties.                                                             *)
(***************************************************************************)

Succeeded(i) == results[i] = "ok"
Failed(i) == results[i] \in Failures

TypeOK ==
    /\ results \in [Indexes -> Failures \cup {"none", "ok"}]
    /\ created \in [BulkIds -> Ids \cup {NoId}]
    /\ stored \subseteq Ids
    /\ acted \in [Indexes -> Ids \cup {NoId}]
    /\ passed \in [Indexes -> SUBSET Ids]
    /\ turn \in 1 .. Len(operations) + 1

\* An operation only reaches the storage once every creation it references did,
\* and what it passes are the identifiers of their resources: never a reference,
\* nor the identifier another operation recorded (bulk.rst, "The storage never
\* receives it").
ReferencesAreCreations ==
    \A i \in Indexes : Succeeded(i) =>
        /\ passed[i] = {acted[d] : d \in DependsOn(i)}
        /\ \A d \in DependsOn(i) : Succeeded(d) /\ Before(d, i)
        /\ operations[i].target \in BulkIds =>
               \E d \in DependsOn(i) :
                   IsCreation(d, operations[i].target) /\ acted[i] = acted[d]

\* An operation is refused for its references for a reason the client can see:
\* one has no POST, its POST failed, or it is part of a circular reference.
ConflictsExplained ==
    \A i \in Indexes : results[i] = "conflict" =>
        \/ \E n \in DOMAIN operations[i].refs : Creating(operations[i].refs[n]) = {}
        \/ \E d \in DependsOn(i) : Failed(d) \/ Reaches(d, i)

\* The operations of a cycle that are routed are all answered 409.
CyclesConflict ==
    \A i \in Indexes :
        (results[i] \notin {"none", "conflict"} /\ operations[i].route \in {"routed", "unreadable"})
            => ~Reaches(i, i)

\* The request never counts more errors than the client accepts, the first one
\* aside, counts each failed operation, and leaves an operation out only when it
\* reached them.
ErrorsCapped ==
    /\ errors = Cardinality({i \in Indexes : Failed(i)})
    /\ failOnErrors # NoLimit => errors <= failOnErrors \/ errors = 1
    /\ (Answered /\ \E i \in Indexes : results[i] = "none")
           => failOnErrors # NoLimit /\ errors > 0 /\ errors >= failOnErrors

\* What the same request would answer alone, at this instant, if it failed.
AloneFailures(i) ==
    LET op == operations[i]
    IN  IF ~op.allowed THEN {"forbidden"}
        ELSE IF op.method = "patch" /\ ~PatchSupported THEN {"notImplemented"}
        ELSE IF ~op.valid /\ op.method \in {"post", "patch"} THEN {"invalid"}
        ELSE IF op.method # "post" /\ Target(i) \notin stored THEN {"notFound"}
        ELSE IF ~op.valid THEN {"invalid"}
        ELSE {"refused"}

\* A failed operation has the status the same request would get on its own
\* (bulk.rst), once its references are resolved.
StatusAsAlone ==
    [][\A i \in Indexes :
          /\ results'[i] # results[i] /\ results'[i] \in Failures
          /\ operations[i].route = "routed" /\ ~Duplicate(i) /\ ~Unresolved(i)
          => results'[i] \in AloneFailures(i)]_vars

\* The request is answered.
BulkAnswered == <>Answered
=============================================================================
