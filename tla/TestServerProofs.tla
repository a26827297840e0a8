-------------------------- MODULE TestServerProofs --------------------------
(***************************************************************************)
(* The tenants of the command never share nor lose a resource, for every   *)
(* number of requests and tenants: the lock makes the application of a     *)
(* tenant, and the storage the main thread dumps, one and the same.        *)
(***************************************************************************)
EXTENDS TestServer, SequenceTheorems, TLAPS

\* What each variable of the threads may hold.
Typed ==
    /\ tenant \in [Requests -> Tenants \cup {NoTenant}]
    /\ pc \in [Requests -> {"sent", "selected", "looking", "built", "dispatched",
                            "created", "answered"}]
    /\ answer \in [Requests -> {"none", "unknown", "refused", "created"}]
    /\ lock \in Requests \cup {NoStorage}
    /\ applications \in [Tenants -> Requests \cup {NoStorage}]
    /\ served \in [Requests -> Requests \cup {NoStorage}]
    /\ storages \in [Tenants -> Requests \cup {NoStorage}]
    /\ names \in Seq(Tenants)
    /\ content \in [Requests -> SUBSET Requests]

\* A request that left the dispatcher's door holds a tenant, and its lock while
\* it looks and builds.
Locked ==
    /\ \A p \in Requests : pc[p] \in {"looking", "built"} => lock = p
    /\ \A p \in Requests :
          pc[p] \in {"selected", "looking", "built", "dispatched", "created"}
              => tenant[p] \in Tenants
    /\ \A p \in Requests : answer[p] = "created" => tenant[p] \in Tenants /\ pc[p] = "answered"

\* The storage of the application of a tenant is the one the main thread knows;
\* only the request that holds the lock may be between the two.
OneStorage ==
    /\ \A t \in Tenants :
          applications[t] # NoStorage => storages[t] = applications[t]
    /\ \A p \in Requests : pc[p] = "built" =>
          storages[tenant[p]] = p /\ applications[tenant[p]] = NoStorage
    /\ \A p \in Requests : pc[p] \in {"dispatched", "created"} =>
          served[p] = applications[tenant[p]] /\ served[p] # NoStorage

Created(p) == pc[p] = "created" \/ answer[p] = "created"

\* The resources created are those of the storages, each in that of its tenant.
Stored ==
    \A p \in Requests :
        /\ Created(p) => applications[tenant[p]] # NoStorage
        /\ \A q \in Requests :
              p \in content[q] <=> Created(p) /\ applications[tenant[p]] = q

TenantInv == Typed /\ Locked /\ OneStorage /\ Stored

\* The invariant holds of a server that starts.
LEMMA TenantsAtStart == Init => TenantInv
<1> SUFFICES ASSUME Init PROVE TenantInv
    OBVIOUS
<1> USE ServerAssumption DEF Init
<1>1. Typed
    BY EmptySeq DEF Typed
<1>2. Locked
    BY DEF Locked
<1>3. OneStorage
    BY DEF OneStorage
<1>4. Stored
    BY DEF Stored, Created
<1> QED BY <1>1, <1>2, <1>3, <1>4 DEF TenantInv

\* Each step of a thread keeps the invariant.
LEMMA ThreadsKeepTenants ==
    ASSUME TenantInv, NEW p \in Requests, Step(p)
    PROVE  TenantInv'
<1> USE ServerAssumption DEF TenantInv, Typed, Locked, OneStorage, Stored, Created,
        Goto, Answers
<1>1. CASE Accept(p)
    BY <1>1 DEF Accept
<1>2. CASE Acquire(p)
    BY <1>2 DEF Acquire
<1>3. CASE Find(p)
    BY <1>3 DEF Find
<1>4. CASE RefuseTenant(p)
    BY <1>4 DEF RefuseTenant
<1>5. CASE Build(p)
  <2>1. names' \in Seq(Tenants)
      BY <1>5, AppendProperties DEF Build
  <2>2. tenant[p] \in Tenants /\ applications[tenant[p]] = NoStorage
      BY <1>5 DEF Build
  <2>3. Typed'
      BY <1>5, <2>1, <2>2 DEF Build
  <2>4. \A q \in Requests : pc[q] = "built" => q = p
      BY <1>5 DEF Build
  <2>5. Locked'
      BY <1>5, <2>2 DEF Build
  <2>6. OneStorage'
    <3>1. storages' = [storages EXCEPT ![tenant[p]] = p] /\ pc' = [pc EXCEPT ![p] = "built"]
          /\ UNCHANGED <<applications, tenant, served>>
        BY <1>5 DEF Build
    <3>2. \A t \in Tenants : applications'[t] # NoStorage => storages'[t] = applications'[t]
        BY <2>2, <3>1
    <3>3. \A q \in Requests : pc'[q] = "built" => q = p
        BY <2>4, <3>1
    <3> QED BY <2>2, <3>1, <3>2, <3>3
  <2>7. Stored'
      BY <1>5 DEF Build
  <2> QED BY <2>3, <2>5, <2>6, <2>7
<1>6. CASE Keep(p)
    BY <1>6 DEF Keep
<1>7. CASE Serve(p)
  <2>1. Typed' /\ Locked'
      BY <1>7 DEF Serve
  <2>2. OneStorage'
      BY <1>7 DEF Serve
  <2>3. ~Created(p) /\ tenant[p] \in Tenants /\ served[p] \in Requests
        /\ served[p] = applications[tenant[p]]
      BY <1>7 DEF Serve
  <2>4. \A q \in Requests \ {p} : Created(q)' <=> Created(q)
      BY <1>7 DEF Serve
  <2>5. UNCHANGED <<applications, tenant>>
      BY <1>7 DEF Serve
  <2>6. CASE Answers(p, "refused") /\ UNCHANGED content
    <3>1. ~Created(p)'
        BY <2>6
    <3> QED BY <2>1, <2>2, <2>3, <2>4, <2>5, <2>6, <3>1
  <2>7. CASE /\ content' = [content EXCEPT ![served[p]] = @ \cup {p}]
             /\ Goto(p, "created")
    <3>1. Created(p)'
        BY <2>7
    <3>2. \A q, r \in Requests :
              r \in content'[q] <=> r \in content[q] \/ (r = p /\ q = served[p])
        BY <2>3, <2>7
    <3>3. Stored'
        BY <2>3, <2>4, <2>5, <3>1, <3>2
    <3> QED BY <2>1, <2>2, <3>3
  <2> QED BY <1>7, <2>6, <2>7 DEF Serve
<1>8. CASE Respond(p)
    BY <1>8 DEF Respond
<1> QED BY <1>1, <1>2, <1>3, <1>4, <1>5, <1>6, <1>7, <1>8 DEF Step

\* The main thread changes nothing of the threads.
LEMMA StepsKeepTenants == TenantInv /\ [Next]_vars => TenantInv'
<1> SUFFICES ASSUME TenantInv, [Next]_vars PROVE TenantInv'
    OBVIOUS
<1>1. ASSUME UNCHANGED threadVars PROVE TenantInv'
    BY <1>1 DEF TenantInv, Typed, Locked, OneStorage, Stored, Created, threadVars
<1>2. CASE \E p \in Requests : Thread(p) \/ StorageGrew(p)
    BY <1>2, ThreadsKeepTenants DEF Thread, StorageGrew, Step
<1>3. CASE Main
    BY <1>1, <1>3 DEF Main, Stop, DumpTenant, DictGrew, EndDump, Exit
<1>4. CASE Ended \/ UNCHANGED vars
    BY <1>1, <1>4 DEF Ended, vars
<1> QED BY <1>2, <1>3, <1>4 DEF Next

LEMMA TenantInvariant == Spec => []TenantInv
  BY TenantsAtStart, StepsKeepTenants, PTL DEF Spec

\* Each request that was created is in the storage of its tenant that the main
\* thread dumps, and in no other.
THEOREM TenantsKeepTheirResources == Spec => []CreatedInItsTenant
<1>1. TenantInv => CreatedInItsTenant
    BY ServerAssumption
       DEF TenantInv, Typed, Locked, OneStorage, Stored, Created, CreatedInItsTenant
<1> QED BY <1>1, TenantInvariant, PTL

-----------------------------------------------------------------------------
\* The dump goes over the tenants there were when it began, each of which stays
\* where it is in the dict, and misses none of the resources wanted there.
DumpInv ==
    /\ phase \in {"serving", "dumping", "failed", "written", "ended"}
    /\ size \in Nat /\ position \in Nat \ {0}
    /\ \A t \in Tenants : storages[t] # NoStorage => \E n \in 1 .. Len(names) : names[n] = t
    /\ \A n \in 1 .. Len(names) : storages[names[n]] # NoStorage
    /\ size <= Len(names)
    /\ \A p \in wanted : p \in Requests /\ answer[p] = "created"
    /\ \A p \in wanted : \E n \in 1 .. size :
          names[n] = tenant[p] /\ (n < position => p \in dump)
    /\ \A p \in dump \cup file : p \in Requests /\ Created(p)
    /\ phase = "written" => wanted \subseteq file
    /\ phase = "serving" => wanted = {} /\ dump = {} /\ position = 1

\* Nothing is wanted yet when the server starts.
LEMMA DumpAtStart == Init => DumpInv
<1> SUFFICES ASSUME Init PROVE DumpInv
    OBVIOUS
<1>1. Len(names) = 0
    BY DEF Init
<1> QED BY <1>1 DEF Init, DumpInv

\* A thread only adds tenants at the end of the dict, and takes nothing back,
\* whether its step makes the dump fail or not.
LEMMA ThreadsKeepDump ==
    ASSUME TenantInv, DumpInv, NEW p \in Requests, Step(p),
           phase' \in {phase, "failed"}, UNCHANGED <<size, position, dump, file, wanted>>
    PROVE  DumpInv'
<1> USE ServerAssumption
<1>1. UNCHANGED tenant
    BY DEF Step, Accept, Acquire, Find, RefuseTenant, Build, Keep, Serve, Respond
<1>2. \A q \in Requests : /\ answer[q] = "created" => answer'[q] = "created"
                          /\ Created(q) => Created(q)'
    BY DEF Step, Accept, Acquire, Find, RefuseTenant, Build, Keep, Serve, Respond,
           Answers, Goto, Created, TenantInv, Typed, Locked
<1>3. /\ Len(names') >= Len(names) /\ Len(names') \in Nat /\ Len(names) \in Nat
      /\ \A n \in 1 .. Len(names) : names'[n] = names[n]
      /\ \A t \in Tenants : storages'[t] # NoStorage => \E n \in 1 .. Len(names') : names'[n] = t
      /\ \A n \in 1 .. Len(names') : storages'[names'[n]] # NoStorage
  <2>1. CASE UNCHANGED <<names, storages>>
      BY <2>1 DEF DumpInv, TenantInv, Typed
  <2>2. CASE Build(p)
    <3>1. names \in Seq(Tenants) /\ tenant[p] \in Tenants
        BY <2>2 DEF Build, TenantInv, Typed, Locked
    <3>2. CASE storages[tenant[p]] = NoStorage
      <4>1. /\ names' = Append(names, tenant[p])
            /\ storages' = [storages EXCEPT ![tenant[p]] = p]
          BY <2>2, <3>2 DEF Build
      <4>2. /\ Len(names') = Len(names) + 1
            /\ \A n \in 1 .. Len(names) : names'[n] = names[n]
            /\ names'[Len(names) + 1] = tenant[p]
          BY <3>1, <4>1, AppendProperties
      <4> QED BY <3>1, <4>1, <4>2 DEF DumpInv, TenantInv, Typed
    <3>3. CASE storages[tenant[p]] # NoStorage
        BY <2>2, <3>1, <3>3 DEF Build, DumpInv, TenantInv, Typed
    <3> QED BY <3>2, <3>3
  <2> QED BY <2>1, <2>2
          DEF Step, Accept, Acquire, Find, RefuseTenant, Keep, Serve, Respond
<1> QED BY <1>1, <1>2, <1>3 DEF DumpInv

\* The main thread reads each tenant it has not read yet, in order.
LEMMA MainKeepsDump ==
    ASSUME TenantInv, DumpInv, Main
    PROVE  DumpInv'
<1> USE ServerAssumption DEF DumpInv
<1>1. /\ Len(names) \in Nat
      /\ \A p \in Requests : answer[p] = "created" =>
             tenant[p] \in Tenants /\ storages[tenant[p]] # NoStorage
             /\ p \in content[storages[tenant[p]]]
    BY DEF TenantInv, Typed, Locked, OneStorage, Stored, Created
<1>2. UNCHANGED threadVars
    BY DEF Main, Stop, DumpTenant, DictGrew, EndDump, Exit
<1>3. \A p \in Requests : Created(p) <=> Created(p)'
    BY <1>2 DEF Created, threadVars
<1>4. CASE Stop
    BY <1>1, <1>2, <1>3, <1>4 DEF Stop, threadVars
<1>5. CASE DumpTenant
  <2>1. \A p \in content[storages[names[position]]] : p \in Requests /\ Created(p)
    <3>1. position \in 1 .. Len(names) /\ names[position] \in Tenants
        BY <1>1, <1>5 DEF DumpTenant, TenantInv, Typed
    <3>2. storages[names[position]] \in Requests
      <4>1. storages[names[position]] # NoStorage
          BY <3>1
      <4> QED BY <3>1, <4>1 DEF TenantInv, Typed
    <3> QED BY <3>2 DEF TenantInv, Typed, Stored
  <2> QED BY <1>1, <1>2, <1>3, <1>5, <2>1 DEF DumpTenant, threadVars
<1>6. CASE DictGrew
    BY <1>2, <1>3, <1>6 DEF DictGrew, threadVars
<1>7. CASE EndDump
    BY <1>1, <1>2, <1>3, <1>7 DEF EndDump, threadVars
<1>8. CASE Exit
    BY <1>2, <1>3, <1>8 DEF Exit, threadVars
<1> QED BY <1>4, <1>5, <1>6, <1>7, <1>8 DEF Main

\* The dump keeps its invariant.
LEMMA DumpInvariant == Spec => []DumpInv
<1>1. TenantInv /\ DumpInv /\ [Next]_vars => DumpInv'
  <2> SUFFICES ASSUME TenantInv, DumpInv, [Next]_vars PROVE DumpInv'
      OBVIOUS
  <2>1. CASE \E p \in Requests : Thread(p) \/ StorageGrew(p)
      BY <2>1, ThreadsKeepDump DEF Thread, StorageGrew, Step, dumpVars
  <2>2. CASE Main
      BY <2>2, MainKeepsDump
  <2>3. CASE Ended \/ UNCHANGED vars
      BY <2>3 DEF Ended, vars, threadVars, dumpVars, DumpInv, Created
  <2> QED BY <2>1, <2>2, <2>3 DEF Next
<1> QED BY <1>1, TenantInvariant, DumpAtStart, PTL DEF Spec

\* A dump that is written holds every resource the clients knew of when the
\* server stopped, and none that was not created.
THEOREM WrittenDumpsAreComplete == Spec => []WrittenDumpComplete
<1>1. DumpInv => WrittenDumpComplete
    BY DEF DumpInv, WrittenDumpComplete, Created
<1> QED BY <1>1, DumpInvariant, PTL

-----------------------------------------------------------------------------
(***************************************************************************)
(* The resources of a server whose threads are quiet while it dumps them:  *)
(* no tenant is built, and nothing is created.                             *)
(***************************************************************************)
QuietWhileDumping == phase = "dumping" => UNCHANGED <<names, content>>

\* The dump never fails, and the file has all when the process ends.
NothingLost ==
    /\ phase # "failed"
    /\ phase = "dumping" => Len(names) = size
    /\ phase \in {"written", "ended"} => wanted \subseteq file

\* Without growth, no step makes the dump fail.
LEMMA QuietStepsKeepAll ==
    ASSUME DumpInv, DumpInv', NothingLost, [Next]_vars, [QuietWhileDumping]_vars
    PROVE  NothingLost'
<1>1. CASE UNCHANGED vars
    BY <1>1 DEF NothingLost, vars, threadVars, dumpVars
<1>2. CASE \E p \in Requests : Thread(p)
  <2>1. UNCHANGED dumpVars /\ (phase = "dumping" => names' = names)
      BY <1>2 DEF Thread, QuietWhileDumping, vars, threadVars
  <2> QED BY <2>1 DEF NothingLost, dumpVars
<1>3. CASE \E p \in Requests : StorageGrew(p)
  <2>1. phase = "dumping" /\ content' # content
      BY <1>3 DEF StorageGrew
  <2> QED BY <1>1, <2>1 DEF QuietWhileDumping
<1>4. CASE Main
  <2>1. names' = names
      BY <1>4 DEF Main, Stop, DumpTenant, DictGrew, EndDump, Exit, threadVars
  <2>2. CASE Stop
      BY <2>1, <2>2 DEF Stop, NothingLost
  <2>3. CASE DumpTenant
      BY <2>1, <2>3 DEF DumpTenant, NothingLost
  <2>4. CASE DictGrew
      BY <2>4 DEF DictGrew, NothingLost
  <2>5. CASE EndDump
      BY <2>5 DEF EndDump, NothingLost, DumpInv
  <2>6. CASE Exit
      BY <2>6 DEF Exit, NothingLost
  <2> QED BY <1>4, <2>2, <2>3, <2>4, <2>5, <2>6 DEF Main
<1> QED BY <1>1, <1>2, <1>3, <1>4 DEF Next, Ended

\* When Ctrl+C stops the server, every resource its clients knew of is written,
\* if no thread builds a tenant or creates a resource while the main thread reads
\* them: that threads go on is the one reason why resources are lost (cli.py).
THEOREM QuietServersKeepResources ==
    Spec /\ [][QuietWhileDumping]_vars => []ResourcesKept
<1>1. Init => NothingLost
    BY DEF Init, NothingLost
<1>2. DumpInv /\ DumpInv' /\ NothingLost /\ [Next]_vars /\ [QuietWhileDumping]_vars => NothingLost'
    BY QuietStepsKeepAll
<1>3. NothingLost => ResourcesKept
    BY DEF NothingLost, ResourcesKept
<1> QED BY <1>1, <1>2, <1>3, DumpInvariant, PTL DEF Spec
=============================================================================
