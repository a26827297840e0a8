--------------------------- MODULE HandlerProofs ---------------------------
(***************************************************************************)
(* Concurrent requests never lose an update, and each takes effect at one  *)
(* instant, for every number of requests, with or without the lock.        *)
(***************************************************************************)
EXTENDS Handler, TLAPS

(***************************************************************************)
(* The inductive invariant.                                                *)
(***************************************************************************)

\* A version identifies what is stored: if the stored resource has the version
\* a request read, it is the resource the request read.
VersionsIdentify ==
    /\ \A k \in Keys : store[k] # NoResource => store[k].version < versions
    /\ \A p \in Requests : current[p] # NoResource => current[p].version < versions
    /\ \A p \in Requests :
          LET r == store[job[p].key]
          IN  (pc[p] = "read" /\ r # NoResource /\ r.version = current[p].version)
                  => r = current[p]

\* A request that read its resource is a write that nothing refused yet.
Progress ==
    \A p \in Requests :
       /\ pc[p] = "read" => job[p].op # "post" /\ Writes(job[p], current[p])
       /\ pc[p] \in {"received", "entered", "read"} => answer[p] = NoAnswer
       /\ pc[p] \in {"leaving", "answered"} => answer[p] # NoAnswer

\* The lock is held exactly by the request inside operation().
LockHeld ==
    Locked => \A p \in Requests : pc[p] \in {"entered", "read", "leaving"} <=> lock = p

IInv == TypeOK /\ VersionsIdentify /\ Progress /\ LockHeld /\ LockSerializes

\* A job is one of the records of Job.
LEMMA JobType ==
    ASSUME NEW j \in Jobs
    PROVE  /\ j.key \in Keys
           /\ j.op \in {"post", "get", "put", "patch", "delete"}
           /\ j.op = "post" => j.data \in Data(j.key[1])
           /\ \A d \in Data(j.key[1]) : NewData(j, d) \in Data(j.key[1])
BY JobsAssumption DEF Job

\* Data of a resource and a version make a resource.
LEMMA ResourceType ==
    ASSUME NEW k \in Keys, NEW d \in Data(k[1]), NEW v \in Nat
    PROVE  /\ [data |-> d, version |-> v] \in Resource
           /\ [data |-> d, version |-> v] # NoResource
BY NoResourceAssumption DEF Resource, Data

\* An answer with a status is no missing answer.
LEMMA AnswerGiven ==
    ASSUME NEW s, NEW r, s # "none"
    PROVE  Answer(s, r) # NoAnswer
BY DEF Answer, NoAnswer

\* Neither is the answer to a request that writes nothing.
LEMMA ReadAnswerGiven ==
    ASSUME NEW j, NEW r
    PROVE  ReadAnswer(j, r) # NoAnswer
BY AnswerGiven DEF ReadAnswer, Verdict

\* The handler starts in the invariant.
LEMMA InitInv == Init => IInv
<1> SUFFICES ASSUME Init PROVE IInv
    OBVIOUS
<1>1. TypeOK
    BY HandlerAssumption DEF Init, TypeOK, Labels
<1>2. VersionsIdentify
    BY HandlerAssumption DEF Init, VersionsIdentify
<1>3. Progress /\ LockHeld /\ LockSerializes
    BY HandlerAssumption DEF Init, Progress, LockHeld, LockSerializes, Locked, Overtaken
<1> QED
    BY <1>1, <1>2, <1>3 DEF IInv

\* What a write of a resource by request p under key k leaves true, when p was
\* inside operation() and now leaves it.
LEMMA StoreInv ==
    ASSUME IInv, NEW p \in Requests, NEW k \in Keys, NEW r \in Resource \cup {NoResource},
           pc[p] \in {"entered", "read"},
           r # NoResource => r.data \in Data(k[1]) /\ r.version < versions',
           r = store[k] \/ r = NoResource \/ r.version = versions,
           store' = [store EXCEPT ![k] = r],
           versions' \in {versions, versions + 1},
           NEW a, a # NoAnswer, Settles(p, a), UNCHANGED <<lock, job, current>>
    PROVE  IInv'
<1> USE DEF IInv
<1>1. /\ pc' = [pc EXCEPT ![p] = "leaving"]
      /\ answer' = [answer EXCEPT ![p] = a]
    BY DEF Settles, Goto
<1>2. versions \in Nat /\ versions' \in Nat /\ versions <= versions'
    BY DEF TypeOK
<1>3. \A q \in Requests : job[q].key \in Keys
    BY JobType DEF TypeOK
<1>4. TypeOK'
    BY <1>1, <1>2 DEF TypeOK, Labels
<1>5. VersionsIdentify'
  <2>1. \A q \in Keys : store'[q] # NoResource => store'[q].version < versions'
      BY <1>2 DEF TypeOK, VersionsIdentify, Resource
  <2>2. \A q \in Requests : current'[q] # NoResource => current'[q].version < versions'
      BY <1>2 DEF TypeOK, VersionsIdentify, Resource
  <2>3. ASSUME NEW q \in Requests, pc'[q] = "read", store'[job[q].key] # NoResource,
               store'[job[q].key].version = current[q].version
        PROVE  store'[job[q].key] = current[q]
    <3>1. pc[q] = "read" /\ current[q] # NoResource
        BY <1>1, <2>3 DEF TypeOK, Progress, Writes
    <3>2. current[q].version # versions
        BY <1>2, <3>1 DEF TypeOK, VersionsIdentify, Resource
    <3>3. store'[job[q].key] = store[job[q].key]
        BY <1>3, <2>3, <3>2 DEF TypeOK
    <3> QED
        BY <2>3, <3>1, <3>3 DEF VersionsIdentify
  <2> QED
      BY <2>1, <2>2, <2>3 DEF VersionsIdentify
<1>6. Progress'
    BY <1>1 DEF TypeOK, Progress
<1>7. LockHeld'
    BY <1>1 DEF TypeOK, LockHeld, Locked
<1>8. LockSerializes'
    BY <1>1 DEF TypeOK, LockHeld, LockSerializes, Locked, Overtaken
<1> QED
    BY <1>4, <1>5, <1>6, <1>7, <1>8

\* A call of the storage that draws a version keeps the invariant.
LEMMA StoresInv ==
    ASSUME IInv, NEW p \in Requests, NEW k \in Keys, NEW d \in Data(k[1]),
           pc[p] \in {"entered", "read"}, Stores(p, k, d), UNCHANGED <<lock, job, current>>
    PROVE  IInv'
<1>1. versions \in Nat /\ versions' = versions + 1
    BY DEF IInv, TypeOK, Stores
<1>2. store \in [Keys -> Resource \cup {NoResource}]
    BY DEF IInv, TypeOK
<1>3. CASE Clashes(store, k, d)
  <2>1. store' = [store EXCEPT ![k] = store[k]]
      BY <1>2, <1>3 DEF Stores
  <2>2. store[k] # NoResource => store[k].data \in Data(k[1]) /\ store[k].version < versions'
      BY <1>1, <1>2 DEF IInv, TypeOK, VersionsIdentify, Resource
  <2>3. Settles(p, Answer("uniqueness", NoResource))
      BY <1>3 DEF Stores
  <2>4. store[k] \in Resource \cup {NoResource}
      BY <1>2
  <2> QED
      BY <1>1, <2>1, <2>2, <2>3, <2>4, AnswerGiven, StoreInv
<1>4. CASE ~Clashes(store, k, d)
  <2> DEFINE r == [data |-> d, version |-> versions]
  <2>1. r \in Resource /\ r.data = d /\ r.version = versions
      BY <1>1, ResourceType
  <2>2. store' = [store EXCEPT ![k] = r] /\ Settles(p, Answer("ok", store'[k]))
      BY <1>4 DEF Stores
  <2>3. versions < versions'
      BY <1>1
  <2> HIDE DEF r
  <2> QED
      BY <1>1, <2>1, <2>2, <2>3, AnswerGiven, StoreInv
<1> QED
    BY <1>3, <1>4

\* A call of the storage that fails keeps the invariant.
LEMMA FailsInv ==
    ASSUME IInv, NEW p \in Requests, pc[p] \in {"entered", "read"},
           NEW a, a # NoAnswer, Settles(p, a),
           UNCHANGED <<store, versions, lock, job, current>>
    PROVE  IInv'
<1>1. job[p].key \in Keys
    BY JobType DEF IInv, TypeOK
<1> DEFINE k == job[p].key
<1>2. /\ store' = [store EXCEPT ![k] = store[k]]
      /\ store[k] \in Resource \cup {NoResource}
      /\ store[k] # NoResource => store[k].data \in Data(k[1]) /\ store[k].version < versions'
    BY <1>1 DEF IInv, TypeOK, VersionsIdentify
<1> HIDE DEF k
<1> QED
    BY <1>1, <1>2, StoreInv DEF k

\* Writing a resource keeps the invariant.
LEMMA WriteInv ==
    ASSUME IInv, NEW p \in Requests, Write(p)
    PROVE  IInv'
<1> DEFINE k == job[p].key
<1>1. /\ k \in Keys /\ pc[p] = "read" /\ UNCHANGED <<lock, job, current>>
      /\ current[p] # NoResource /\ current[p].data \in Data(k[1])
      /\ NewData(job[p], current[p].data) \in Data(k[1])
    BY JobType DEF Write, IInv, TypeOK, Progress, Writes
<1>2. ASSUME NEW outcome \in {"notFound", "preconditionFailed"}, StorageFails(p, outcome)
      PROVE  IInv'
    BY <1>1, <1>2, FailsInv, AnswerGiven DEF StorageFails
<1>3. CASE StorageDelete(p, k, ExpectedVersion(p))
  <2>1. CASE /\ store' = [store EXCEPT ![k] = NoResource]
             /\ Settles(p, Answer("ok", NoResource))
             /\ UNCHANGED versions
      BY <1>1, <2>1, StoreInv, AnswerGiven
  <2> QED
      BY <1>2, <1>3, <2>1 DEF StorageDelete
<1>4. CASE StorageUpdate(p, k, NewData(job[p], current[p].data), ExpectedVersion(p))
    BY <1>1, <1>2, <1>4, StoresInv DEF StorageUpdate
<1> QED
    BY <1>3, <1>4 DEF Write

\* Every step keeps the invariant.
LEMMA NextInv == IInv /\ [Next]_vars => IInv'
<1> SUFFICES ASSUME IInv, [Next]_vars PROVE IInv'
    OBVIOUS
<1>1. ASSUME NEW p \in Requests, Enter(p) PROVE IInv'
  <2>1. TypeOK' /\ VersionsIdentify' /\ Progress'
      BY <1>1 DEF Enter, Goto, IInv, TypeOK, Labels, VersionsIdentify, Progress
  <2>2. LockHeld' /\ LockSerializes'
      BY <1>1, HandlerAssumption
         DEF Enter, Goto, IInv, TypeOK, LockHeld, LockSerializes, Locked, Overtaken
  <2> QED
      BY <2>1, <2>2 DEF IInv
<1>2. ASSUME NEW p \in Requests, Create(p) PROVE IInv'
  <2>1. PICK i \in Ids : Stores(p, <<job[p].key[1], i>>, job[p].data)
      BY <1>2 DEF Create
  <2>2. /\ job[p].key[1] \in Types
        /\ job[p].data \in Data(job[p].key[1])
      BY <1>2, JobType DEF Create, IInv, TypeOK, Keys
  <2> QED
      BY <1>2, <2>1, <2>2, StoresInv DEF Create, Keys
<1>3. ASSUME NEW p \in Requests, Read(p) PROVE IInv'
  <2> DEFINE r == store[job[p].key]
  <2>1. /\ job[p].key \in Keys /\ r \in Resource \cup {NoResource}
        /\ r # NoResource => r.data \in Data(job[p].key[1]) /\ r.version < versions
      BY JobType DEF IInv, TypeOK, VersionsIdentify
  <2>2. /\ pc[p] = "entered" /\ job[p].op # "post"
        /\ current' = [current EXCEPT ![p] = r]
        /\ UNCHANGED <<store, versions, lock, job>>
      BY <1>3 DEF Read
  <2>3. \/ Writes(job[p], r) /\ pc' = [pc EXCEPT ![p] = "read"] /\ UNCHANGED answer
        \/ /\ pc' = [pc EXCEPT ![p] = "leaving"]
           /\ answer' = [answer EXCEPT ![p] = ReadAnswer(job[p], r)]
      BY <1>3 DEF Read, Goto, Settles
  <2>4. TypeOK'
      BY <2>1, <2>2, <2>3 DEF IInv, TypeOK, Labels
  <2>5. VersionsIdentify'
      BY <2>1, <2>2, <2>3 DEF IInv, TypeOK, VersionsIdentify
  <2>6. Progress'
      BY <2>2, <2>3, ReadAnswerGiven DEF IInv, TypeOK, Progress
  <2>7. LockHeld' /\ LockSerializes'
      BY <2>2, <2>3 DEF IInv, TypeOK, LockHeld, LockSerializes, Locked, Overtaken
  <2> QED
      BY <2>4, <2>5, <2>6, <2>7 DEF IInv
<1>4. ASSUME NEW p \in Requests, Write(p) PROVE IInv'
    BY <1>4, WriteInv
<1>5. ASSUME NEW p \in Requests, Leave(p) PROVE IInv'
  <2>1. TypeOK' /\ VersionsIdentify' /\ Progress'
      BY <1>5 DEF Leave, Goto, IInv, TypeOK, Labels, VersionsIdentify, Progress
  <2>2. LockHeld' /\ LockSerializes'
      BY <1>5, HandlerAssumption
         DEF Leave, Goto, IInv, TypeOK, LockHeld, LockSerializes, Locked, Overtaken
  <2> QED
      BY <2>1, <2>2 DEF IInv
<1>6. CASE UNCHANGED vars
    BY <1>6 DEF vars, IInv, TypeOK, VersionsIdentify, Progress, LockHeld, LockSerializes,
       Locked, Overtaken
<1> QED
    BY <1>1, <1>2, <1>3, <1>4, <1>5, <1>6 DEF Next, Step, Done

\* The handler keeps its types, its versions and its lock straight.
THEOREM HandlerInvariant == Spec => []IInv
BY InitInv, NextInv, PTL DEF Spec

\* The type invariant of the handler.
THEOREM HandlerTyping == Spec => []TypeOK
<1>1. IInv => TypeOK
    BY DEF IInv
<1> QED
    BY <1>1, HandlerInvariant, PTL

\* Holding the lock for the whole operation keeps every other request away from
\* the resource between its read and its write.
THEOREM LockedOperations == Spec => []LockSerializes
<1>1. IInv => LockSerializes
    BY DEF IInv
<1> QED
    BY <1>1, HandlerInvariant, PTL

-----------------------------------------------------------------------------
(***************************************************************************)
(* What a write finds.                                                     *)
(***************************************************************************)

\* The resource a request overwrites is the one it read: its version is the
\* one the request passed to the storage, and a version identifies a resource.
LEMMA OverwriteFindsWhatWasRead ==
    ASSUME IInv, [Next]_vars, NEW p \in Requests, Overwrites(p)
    PROVE  /\ job[p].key \in Keys
           /\ store[job[p].key] = current[p]
           /\ Writes(job[p], current[p])
<1> DEFINE k == job[p].key
<1>1. /\ k \in Keys /\ pc[p] = "read" /\ pc'[p] = "leaving" /\ store'[k] # store[k]
      /\ Writes(job[p], current[p]) /\ current[p] # NoResource
    BY JobType DEF Overwrites, IInv, TypeOK, Progress, Writes
<1>2. current[p].version # NoVersion
    BY <1>1, DataAssumption DEF IInv, TypeOK, Resource
<1>3. Write(p)
  <2>1. ASSUME NEW q \in Requests, Step(q) PROVE q = p
      BY <1>1, <2>1 DEF Step, Enter, Create, Read, Write, Leave, Goto, Settles, Stores,
         StorageUpdate, StorageDelete, StorageFails, IInv, TypeOK
  <2> QED
      BY <1>1, <2>1 DEF Next, Done, vars, Step, Enter, Create, Read, Leave
<1>4. store[k] # NoResource /\ VersionMet(store[k], current[p].version)
    BY <1>1, <1>3 DEF Write, StorageUpdate, StorageDelete, StorageFails, Stores,
       ExpectedVersion, UpdateOutcome, DeleteOutcome
<1> QED
    BY <1>1, <1>2, <1>4 DEF VersionMet, IInv, VersionsIdentify

\* No update is ever lost.
THEOREM LostUpdatesExcluded == Spec => NoLostUpdate
<1>1. IInv /\ [Next]_vars =>
          \A p \in Requests : Overwrites(p) => store[job[p].key] = current[p]
    BY OverwriteFindsWhatWasRead
<1> QED
    BY <1>1, HandlerInvariant, PTL DEF Spec, NoLostUpdate

\* The conditional headers hold of the resource a request overwrites.
THEOREM ConditionsAreCurrent == Spec => ConditionsHoldAtWrite
<1>1. IInv /\ [Next]_vars => \A p \in Requests : Overwrites(p) =>
          /\ ~IfMatchFails(job[p], store[job[p].key])
          /\ ~IfNoneMatchFails(job[p], store[job[p].key])
    BY OverwriteFindsWhatWasRead DEF Writes, Verdict
<1> QED
    BY <1>1, HandlerInvariant, PTL DEF Spec, ConditionsHoldAtWrite

-----------------------------------------------------------------------------
(***************************************************************************)
(* Every step of the handler is one of the server, or changes nothing the  *)
(* server shows.                                                           *)
(***************************************************************************)

\* The requests another one overtook, the "overtaken" of the server.
Late == {p \in Requests : Overtaken(p)}

\* The two specifications mean the same by a request and by a clash.
LEMMA SameWords ==
    /\ Server!NoAnswer = NoAnswer
    /\ \A s, r : Server!Answer(s, r) = Answer(s, r)
    /\ \A j, r : Server!ReadAnswer(j, r) = ReadAnswer(j, r)
    /\ \A j, r : Server!Writes(j, r) <=> Writes(j, r)
    /\ \A j, d : Server!NewData(j, d) = NewData(j, d)
    /\ \A k, d : Server!Clashes(store, k, d) <=> Clashes(store, k, d)
<1>1. /\ \A j, r : Server!IfMatchFails(j, r) <=> IfMatchFails(j, r)
      /\ \A j, r : Server!IfNoneMatchFails(j, r) <=> IfNoneMatchFails(j, r)
    BY DEF Server!IfMatchFails, IfMatchFails, Server!IfNoneMatchFails, IfNoneMatchFails,
       Server!TagsMatch, TagsMatch, Server!VersionOf, VersionOf
<1>2. \A j, r : Server!BreaksImmutable(j, r) <=> BreaksImmutable(j, r)
    BY DEF Server!BreaksImmutable, BreaksImmutable
<1>3. \A j, d : Server!NewData(j, d) = NewData(j, d)
    BY DEF Server!NewData, NewData
<1>4. \A j, r : Server!Verdict(j, r) = Verdict(j, r)
    BY <1>1, <1>2, <1>3 DEF Server!Verdict, Verdict
<1>5. \A s, r : Server!Answer(s, r) = Answer(s, r)
    BY DEF Server!Answer, Answer
<1>6. \A j, r : Server!ReadAnswer(j, r) = ReadAnswer(j, r)
    BY <1>4, <1>5 DEF Server!ReadAnswer, ReadAnswer
<1>7. \A j, r : Server!Writes(j, r) <=> Writes(j, r)
    BY <1>4 DEF Server!Writes, Writes
<1>8. ASSUME NEW k, NEW d PROVE Server!Clashes(store, k, d) <=> Clashes(store, k, d)
    BY DEF Server!Clashes, Clashes, Server!Held, Held, Server!Keys, Keys
<1>9. Server!NoAnswer = NoAnswer
    BY <1>5 DEF Server!NoAnswer, NoAnswer
<1> QED
    BY <1>3, <1>5, <1>6, <1>7, <1>8, <1>9

\* A step that only moves a request that was overtaken by nobody, or that ends
\* it, overtakes the others only by what it stores.
LEMMA LateBound ==
    ASSUME IInv, NEW p \in Requests,
           \A q \in Requests \ {p} : pc'[q] = pc[q] /\ current'[q] = current[q],
           pc'[p] # "read", UNCHANGED job
    PROVE  Late' \subseteq Late \cup {q \in Requests : store'[job[q].key] # store[job[q].key]}
BY DEF Late, Overtaken

\* A call of the storage that draws a version does what the server does.
LEMMA StoresServes ==
    ASSUME IInv, NEW p \in Requests, NEW k \in Keys, NEW d, Stores(p, k, d)
    PROVE  Server!Stores(p, k, d)
BY SameWords DEF Stores, Settles, Server!Stores, Server!Replies

\* Writing the resource that was read is serving the request now; writing
\* another one is refused, as it was, because the resource changed meanwhile.
LEMMA WriteServes ==
    ASSUME IInv, NEW p \in Requests, Write(p)
    PROVE  Server!Serve(p) \/ Server!Conflict(p)
<1> DEFINE k == job[p].key
<1> DEFINE r == store[k]
<1>1. /\ k \in Keys /\ pc[p] = "read" /\ UNCHANGED <<lock, job, current>>
      /\ answer[p] = NoAnswer /\ job[p].op # "post"
      /\ Writes(job[p], current[p]) /\ current[p] # NoResource
      /\ current[p] \in Resource
    BY JobType DEF Write, IInv, TypeOK, Progress, Writes
<1>2. /\ pc' = [pc EXCEPT ![p] = "leaving"]
      /\ Late' \subseteq Late \cup {q \in Requests : store'[job[q].key] # store[job[q].key]}
  <2>1. pc' = [pc EXCEPT ![p] = "leaving"]
      BY DEF Write, StorageUpdate, StorageDelete, StorageFails, Stores, Settles, Goto
  <2> QED
      BY <1>1, <2>1, LateBound DEF IInv, TypeOK
<1>3. CASE r = NoResource
  <2>1. StorageFails(p, "notFound")
      BY <1>3 DEF Write, StorageUpdate, StorageDelete, UpdateOutcome, DeleteOutcome
  <2>2. ~Writes(job[p], r) /\ ReadAnswer(job[p], r) = Answer("notFound", NoResource)
      BY <1>3 DEF Writes, ReadAnswer
  <2>3. Server!Effect(p)
      BY <1>1, <2>1, <2>2, SameWords DEF StorageFails, Settles, Server!Effect, Server!Replies
  <2> QED
      BY <1>1, <1>2, <2>3, SameWords DEF Server!Serve, Late
<1>4. CASE r # NoResource /\ ~VersionMet(r, current[p].version)
  <2>1. StorageFails(p, "preconditionFailed")
      BY <1>4 DEF Write, StorageUpdate, StorageDelete, UpdateOutcome, DeleteOutcome,
         ExpectedVersion
  <2>2. p \in Late
      BY <1>1, <1>4 DEF Late, Overtaken, VersionMet
  <2>3. Late' \subseteq Late
      BY <1>2, <2>1 DEF StorageFails
  <2> QED
      BY <1>1, <2>1, <2>2, <2>3, SameWords
         DEF StorageFails, Settles, Server!Conflict, Server!Replies, Late
<1>5. CASE r # NoResource /\ VersionMet(r, current[p].version)
  <2>1. r = current[p]
      BY <1>1, <1>5, DataAssumption DEF VersionMet, IInv, VersionsIdentify, Resource
  <2>2. CASE job[p].op = "delete"
    <3>1. Server!Erases(p, k)
        BY <1>5, <2>2, SameWords DEF Write, StorageDelete, StorageFails, DeleteOutcome,
           ExpectedVersion, Settles, Server!Erases, Server!Replies
    <3>2. Server!Effect(p)
        BY <1>1, <2>1, <2>2, <3>1, SameWords DEF Server!Effect
    <3> QED
        BY <1>1, <1>2, <3>2, SameWords DEF Server!Serve, Late
  <2>3. CASE job[p].op # "delete"
    <3>1. Stores(p, k, NewData(job[p], r.data))
        BY <1>5, <2>1, <2>3 DEF Write, StorageUpdate, StorageFails, UpdateOutcome,
           CreateOutcome, ExpectedVersion
    <3>2. Server!Stores(p, k, NewData(job[p], r.data))
        BY <1>1, <3>1, StoresServes
    <3>3. Server!Effect(p)
        BY <1>1, <2>1, <2>3, <3>2, SameWords DEF Server!Effect
    <3> QED
        BY <1>1, <1>2, <3>3, SameWords DEF Server!Serve, Late
  <2> QED
      BY <2>2, <2>3
<1> QED
    BY <1>3, <1>4, <1>5

\* Entering and leaving operation() is invisible to the server; every other
\* step serves a request or refuses it for a conflict.
LEMMA StepServes ==
    ASSUME IInv, [Next]_vars
    PROVE  [Server!Next]_<<store, versions, job, answer, Late>>
<1> DEFINE Stutters == UNCHANGED <<store, versions, job, answer, Late>>
<1>1. ASSUME NEW p \in Requests, Enter(p) PROVE Stutters
    BY <1>1 DEF Enter, Goto, IInv, TypeOK, Late, Overtaken
<1>2. ASSUME NEW p \in Requests, Leave(p) PROVE Stutters
    BY <1>2 DEF Leave, Goto, IInv, TypeOK, Late, Overtaken
<1>3. ASSUME NEW p \in Requests, Create(p) PROVE Server!Serve(p)
  <2>1. PICK i \in Ids : /\ store[<<job[p].key[1], i>>] = NoResource
                         /\ Stores(p, <<job[p].key[1], i>>, job[p].data)
      BY <1>3 DEF Create
  <2>2. <<job[p].key[1], i>> \in Keys
      BY JobType DEF IInv, TypeOK, Keys
  <2>3. Server!Stores(p, <<job[p].key[1], i>>, job[p].data)
      BY <2>1, <2>2, StoresServes
  <2>4. Server!Effect(p)
      BY <1>3, <2>1, <2>3 DEF Create, Server!Effect
  <2>5. /\ pc' = [pc EXCEPT ![p] = "leaving"] /\ current' = current /\ job' = job
        /\ answer[p] = NoAnswer
      BY <1>3, <2>1 DEF Create, Stores, Settles, Goto, IInv, Progress
  <2>6. Late' \subseteq Late \cup {q \in Requests : store'[job[q].key] # store[job[q].key]}
      BY <2>5, LateBound DEF IInv, TypeOK
  <2> QED
      BY <2>4, <2>5, <2>6, SameWords DEF Server!Serve, Late
<1>4. ASSUME NEW p \in Requests, Read(p) PROVE Server!Serve(p) \/ Stutters
  <2> DEFINE r == store[job[p].key]
  <2>1. /\ pc[p] = "entered" /\ job[p].op # "post" /\ answer[p] = NoAnswer
        /\ current' = [current EXCEPT ![p] = r]
        /\ UNCHANGED <<store, versions, lock, job>>
      BY <1>4 DEF Read, IInv, Progress
  <2>2. CASE Writes(job[p], r) /\ Goto(p, "read") /\ UNCHANGED answer
      BY <2>1, <2>2 DEF Goto, IInv, TypeOK, Late, Overtaken
  <2>3. CASE ~Writes(job[p], r) /\ Settles(p, ReadAnswer(job[p], r))
    <3>1. Server!Effect(p)
        BY <2>1, <2>3, SameWords DEF Settles, Server!Effect, Server!Replies
    <3>2. Late' \subseteq Late
        BY <2>1, <2>3, LateBound DEF Settles, Goto, IInv, TypeOK
    <3> QED
        BY <2>1, <3>1, <3>2, SameWords DEF Server!Serve, Late
  <2> QED
      BY <1>4, <2>2, <2>3 DEF Read
<1>5. ASSUME NEW p \in Requests, Write(p) PROVE Server!Serve(p) \/ Server!Conflict(p)
    BY <1>5, WriteServes
<1>6. CASE UNCHANGED vars
    BY <1>6 DEF vars, Late, Overtaken
<1> QED
    BY <1>1, <1>2, <1>3, <1>4, <1>5, <1>6 DEF Next, Step, Done, Server!Next

\* The handler serves every request as the server promises, under concurrency.
THEOREM HandlerLinearizable == Spec => Linearizable
<1>1. Init => Server!Init
    BY SameWords DEF Init, Server!Init, Overtaken
<1>2. IInv /\ [Next]_vars => [Server!Next]_(Server!serverVars)
    BY StepServes DEF Server!serverVars, Late
<1> QED
    BY <1>1, <1>2, HandlerInvariant, PTL DEF Spec, Linearizable, Server!Spec
=============================================================================
