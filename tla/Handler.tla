------------------------------ MODULE Handler ------------------------------
(***************************************************************************)
(* The handlers of handler.py serving concurrent requests on resources.    *)
(* The storage is its contract (ScimStorage), called one atomic method at  *)
(* a time.  A behaviour with a lock is the synchronous handler over the    *)
(* in-memory storage, whose operation() holds it from the first call to    *)
(* the last; one without is the asynchronous handler, whose calls other    *)
(* coroutines interleave with, or any storage that keeps the default       *)
(* operation().                                                            *)
(*                                                                         *)
(* A request that reached the storage is one of four kinds of steps:       *)
(* entering operation(), reading the resource and deciding what becomes of *)
(* it, writing, and leaving operation() to answer.  What happens between   *)
(* two calls of the storage is local to the request.                       *)
(***************************************************************************)
EXTENDS Requests

CONSTANTS
    Contents,      \* what the storage may hold at the start
    FirstVersion,  \* the next version the storage gives at the start
    NoRequest,     \* nobody holds the lock
    NoLock         \* operation() takes no lock

ASSUME HandlerAssumption ==
    /\ NoRequest \notin Requests
    /\ NoLock \notin Requests \cup {NoRequest}
    /\ FirstVersion \in Nat
    /\ \A content \in Contents :
          /\ content \in [Keys -> Resource \cup {NoResource}]
          /\ \A k \in Keys : content[k] # NoResource =>
                /\ content[k].data \in Data(k[1])
                /\ content[k].version < FirstVersion

VARIABLES
    store,      \* what the storage holds
    versions,   \* the next version the storage gives
    lock,       \* the request that holds the lock of the storage, if there is one
    pc,         \* how far each request is
    job,        \* what each request asks
    current,    \* the copy of the resource each request read
    answer      \* the answer to each request, once it is known

vars == <<store, versions, lock, pc, job, current, answer>>

Init ==
    /\ store \in Contents
    /\ versions = FirstVersion
    /\ lock \in {NoRequest, NoLock}
    /\ pc = [p \in Requests |-> "received"]
    /\ job \in [Requests -> Jobs]
    /\ current = [p \in Requests |-> NoResource]
    /\ answer = [p \in Requests |-> NoAnswer]

\* Whether operation() holds the lock of the storage.
Locked == lock # NoLock

Goto(p, l) == pc' = [pc EXCEPT ![p] = l]

Settles(p, a) == answer' = [answer EXCEPT ![p] = a] /\ Goto(p, "leaving")

-----------------------------------------------------------------------------
(***************************************************************************)
(* The calls of the storage.                                               *)
(***************************************************************************)

\* Mutant: the handler forgets to pass the version it read.
ExpectNothing(p) == NoVersion

\* Mutant: the version is not passed when the If-Match of the client was checked.
ExpectUnlessMatched(p) == IF job[p].ifMatch = NoHeader THEN current[p].version ELSE NoVersion

\* The version the handler passes to storage.update and storage.delete.
ExpectedVersion(p) == current[p].version

\* Mutant: the resource is stored before its unique values are looked up.
StoresThenChecks(p, k, d) ==
    /\ versions' = versions + 1
    /\ store' = [store EXCEPT ![k] = [data |-> d, version |-> versions]]
    /\ Settles(p, IF Clashes(store, k, d) THEN Answer("uniqueness", NoResource)
                                         ELSE Answer("ok", store'[k]))

\* A write whose version was drawn: stored, or refused for a unique value.
Stores(p, k, d) ==
    /\ versions' = versions + 1
    /\ \/ /\ Clashes(store, k, d)
          /\ Settles(p, Answer("uniqueness", NoResource))
          /\ UNCHANGED store
       \/ /\ ~Clashes(store, k, d)
          /\ store' = [store EXCEPT ![k] = [data |-> d, version |-> versions]]
          /\ Settles(p, Answer("ok", store'[k]))

StorageFails(p, outcome) ==
    Settles(p, Answer(outcome, NoResource)) /\ UNCHANGED <<store, versions>>

StorageUpdate(p, k, d, expected) ==
    LET outcome == UpdateOutcome(store, k, d, expected)
    IN  \/ outcome \in {"notFound", "preconditionFailed"} /\ StorageFails(p, outcome)
        \/ outcome \in {"uniqueness", "done"} /\ Stores(p, k, d)

\* Mutant: a deletion takes whatever is stored now.
DeleteAnyVersion(p, k, expected) ==
    \/ store[k] = NoResource /\ StorageFails(p, "notFound")
    \/ /\ store[k] # NoResource
       /\ store' = [store EXCEPT ![k] = NoResource]
       /\ Settles(p, Answer("ok", NoResource))
       /\ UNCHANGED versions

\* Mutant: a deletion leaves an empty resource behind.
LeaveTombstone(p, k, expected) ==
    /\ store' = [store EXCEPT ![k] = [data |-> <<>>, version |-> expected]]
    /\ Settles(p, Answer("ok", NoResource))
    /\ UNCHANGED versions

StorageDelete(p, k, expected) ==
    LET outcome == DeleteOutcome(store, k, expected)
    IN  \/ outcome \in {"notFound", "preconditionFailed"} /\ StorageFails(p, outcome)
        \/ /\ outcome = "done"
           /\ store' = [store EXCEPT ![k] = NoResource]
           /\ Settles(p, Answer("ok", NoResource))
           /\ UNCHANGED versions
-----------------------------------------------------------------------------
(***************************************************************************)
(* The steps of a request.                                                 *)
(***************************************************************************)

\* Mutant: operation() is the default one, which takes no lock.
EnterUnlocked(p) ==
    /\ pc[p] = "received"
    /\ Goto(p, "entered")
    /\ UNCHANGED <<store, versions, lock, job, current, answer>>

\* "with self.storage.operation()"
Enter(p) ==
    /\ pc[p] = "received"
    /\ \/ Locked /\ lock = NoRequest /\ lock' = p
       \/ ~Locked /\ UNCHANGED lock
    /\ Goto(p, "entered")
    /\ UNCHANGED <<store, versions, job, current, answer>>

Create(p) ==
    /\ pc[p] = "entered" /\ job[p].op = "post"
    /\ \E i \in Ids : LET k == <<job[p].key[1], i>>
                      IN  store[k] = NoResource /\ Stores(p, k, job[p].data)
    /\ UNCHANGED <<lock, job, current>>

\* storage.get, then the checks of the service and the change, on a copy.
Read(p) ==
    LET r == store[job[p].key]
    IN  /\ pc[p] = "entered" /\ job[p].op # "post"
        /\ current' = [current EXCEPT ![p] = r]
        /\ \/ Writes(job[p], r) /\ Goto(p, "read") /\ UNCHANGED answer
           \/ ~Writes(job[p], r) /\ Settles(p, ReadAnswer(job[p], r))
        /\ UNCHANGED <<store, versions, lock, job>>

Write(p) ==
    LET k == job[p].key
    IN  /\ pc[p] = "read"
        /\ \/ /\ job[p].op = "delete"
              /\ StorageDelete(p, k, ExpectedVersion(p))
           \/ /\ job[p].op # "delete"
              /\ StorageUpdate(p, k, NewData(job[p], current[p].data), ExpectedVersion(p))
        /\ UNCHANGED <<lock, job, current>>

\* Mutant: the lock is released at the end of the block, not in a finally.
LeaveOnSuccess(p) ==
    /\ pc[p] = "leaving"
    /\ lock' = IF Locked /\ answer[p].status \in {"ok", "notModified"} THEN NoRequest ELSE lock
    /\ Goto(p, "answered")
    /\ UNCHANGED <<store, versions, job, current, answer>>

\* The context manager ends, whether an exception ends it or not.
Leave(p) ==
    /\ pc[p] = "leaving"
    /\ lock' = IF Locked THEN NoRequest ELSE lock
    /\ Goto(p, "answered")
    /\ UNCHANGED <<store, versions, job, current, answer>>

Step(p) == Enter(p) \/ Create(p) \/ Read(p) \/ Write(p) \/ Leave(p)

Answered == \A p \in Requests : pc[p] = "answered"

\* Every request is served: nothing is left to do.
Done == Answered /\ UNCHANGED vars

Next == (\E p \in Requests : Step(p)) \/ Done

Spec == Init /\ [][Next]_vars

(***************************************************************************)
(* A thread or a coroutine that can run runs in the end.  Each request is  *)
(* served once, so a weakly fair lock is enough.                           *)
(***************************************************************************)
FairSpec == Spec /\ \A p \in Requests : WF_vars(Step(p))
-----------------------------------------------------------------------------
(***************************************************************************)
(* Properties.                                                             *)
(***************************************************************************)

Labels == {"received", "entered", "read", "leaving", "answered"}

TypeOK ==
    /\ store \in [Keys -> Resource \cup {NoResource}]
    /\ \A k \in Keys : store[k] # NoResource => store[k].data \in Data(k[1])
    /\ versions \in Nat
    /\ lock \in Requests \cup {NoRequest, NoLock}
    /\ pc \in [Requests -> Labels]
    /\ job \in [Requests -> Jobs]
    /\ current \in [Requests -> Resource \cup {NoResource}]
    /\ \A p \in Requests :
          current[p] # NoResource => current[p].data \in Data(job[p].key[1])
    /\ DOMAIN answer = Requests

\* The resource a request is about to write changed since it read it.
Overtaken(p) == pc[p] = "read" /\ store[job[p].key] # current[p]

Overwrites(p) == pc[p] = "read" /\ store'[job[p].key] # store[job[p].key]
                 /\ pc'[p] = "leaving"

\* A PUT, a PATCH or a DELETE only overwrites the resource it was computed
\* from: the change another request made in between is never lost, even when
\* the resource was deleted and another one took its identifier.
NoLostUpdate ==
    [][\A p \in Requests : Overwrites(p) => store[job[p].key] = current[p]]_vars

\* The resource a request overwrites satisfies its conditional headers at that
\* instant, although they were evaluated on an earlier copy.
ConditionsHoldAtWrite ==
    [][\A p \in Requests : Overwrites(p) =>
          /\ ~IfMatchFails(job[p], store[job[p].key])
          /\ ~IfNoneMatchFails(job[p], store[job[p].key])]_vars

\* Under the lock, nothing happens to a resource between its read and its
\* write, so no request is refused for a change its conditions do not mention.
LockSerializes == Locked => \A p \in Requests : ~Overtaken(p)

\* Each request takes effect at one instant, as if it were alone; a 412 no
\* conditional header explains is only sent when another request changed the
\* resource between the read and the write.
Server == INSTANCE ScimServer WITH
    overtaken <- {p \in Requests : Overtaken(p)}

Linearizable == Server!Spec

\* Every request is answered: no path out of operation() keeps the lock.
EveryRequestAnswered == <>Answered
=============================================================================
