----------------------------- MODULE TestServer -----------------------------
(***************************************************************************)
(* The scim2-server command with tenants (testserver/cli.py): a thread per *)
(* request, the TenantDispatcher of applications/wsgi.py that builds the   *)
(* application of a tenant on its first request, and the main thread that, *)
(* on Ctrl+C, writes the resources of every tenant to a file.              *)
(*                                                                         *)
(* The threads are daemons: closing the server does not wait for them, and *)
(* they run on until the process exits.  Each request is a creation, and   *)
(* is also the name of the resource it creates and of the storage it       *)
(* builds, if any.                                                         *)
(***************************************************************************)
EXTENDS Naturals, Sequences

CONSTANTS
    Requests,    \* the requests in flight
    Tenants,     \* the names a tenant may have
    Known,       \* those the factory builds an application for
    NoTenant,    \* the path has no valid tenant
    NoStorage    \* no storage was built for a tenant

ASSUME ServerAssumption ==
    /\ Known \subseteq Tenants
    /\ NoTenant \notin Tenants
    /\ NoStorage \notin Requests

VARIABLES
    phase,          \* what the main thread does
    tenant,         \* the tenant in the path of each request
    pc,             \* how far each request is
    answer,         \* the answer to each request, once it was sent
    lock,           \* the request that holds the lock of the dispatcher
    applications,   \* the storage of the application the dispatcher keeps
    served,         \* the storage of the application that serves each request
    storages,       \* the storage make_application noted for each tenant
    names,          \* the keys of storages, in the order of the dict
    content,        \* the resources of each storage
    size,           \* how many tenants there were when the dump began
    position,       \* the next tenant of the dump
    dump,           \* the resources read so far
    file,           \* the resources in the file
    wanted          \* the resources the clients knew of when the server stopped

threadVars == <<tenant, pc, answer, lock, applications, served, storages, names, content>>
dumpVars == <<phase, size, position, dump, file, wanted>>
vars == <<threadVars, dumpVars>>

Init ==
    /\ phase = "serving"
    /\ tenant \in [Requests -> Tenants \cup {NoTenant}]
    /\ pc = [p \in Requests |-> "sent"]
    /\ answer = [p \in Requests |-> "none"]
    /\ lock = NoStorage
    /\ applications = [t \in Tenants |-> NoStorage]
    /\ served = [p \in Requests |-> NoStorage]
    /\ storages = [t \in Tenants |-> NoStorage]
    /\ names = <<>>
    /\ content = [p \in Requests |-> {}]
    /\ size = 0 /\ position = 1
    /\ dump = {} /\ file = {} /\ wanted = {}

Goto(p, l) == pc' = [pc EXCEPT ![p] = l]

Answers(p, status) == answer' = [answer EXCEPT ![p] = status] /\ Goto(p, "answered")

-----------------------------------------------------------------------------
(***************************************************************************)
(* The thread of a request.                                                *)
(***************************************************************************)

\* serve_forever starts a thread, whose path names a tenant or not.
Accept(p) ==
    /\ phase = "serving" /\ pc[p] = "sent"
    /\ \/ tenant[p] = NoTenant /\ Answers(p, "unknown")
       \/ tenant[p] # NoTenant /\ Goto(p, "selected") /\ UNCHANGED answer
    /\ UNCHANGED <<tenant, lock, applications, served, storages, names, content>>

\* Mutant: the dispatcher has no lock.
AcquireNothing(p) ==
    /\ pc[p] = "selected"
    /\ Goto(p, "looking")
    /\ UNCHANGED <<tenant, answer, lock, applications, served, storages, names, content>>

Acquire(p) ==
    /\ pc[p] = "selected" /\ lock = NoStorage
    /\ lock' = p
    /\ Goto(p, "looking")
    /\ UNCHANGED <<tenant, answer, applications, served, storages, names, content>>

\* The application of the tenant is there already.
Find(p) ==
    /\ pc[p] = "looking" /\ applications[tenant[p]] # NoStorage
    /\ served' = [served EXCEPT ![p] = applications[tenant[p]]]
    /\ lock' = NoStorage
    /\ Goto(p, "dispatched")
    /\ UNCHANGED <<tenant, answer, applications, storages, names, content>>

\* Mutant: the lock stays held when the tenant does not exist.
RefuseTenantLocked(p) ==
    /\ pc[p] = "looking" /\ applications[tenant[p]] = NoStorage
    /\ tenant[p] \notin Known
    /\ Answers(p, "unknown")
    /\ UNCHANGED <<tenant, lock, applications, served, storages, names, content>>

\* The factory returns None, which is not kept.
RefuseTenant(p) ==
    /\ pc[p] = "looking" /\ applications[tenant[p]] = NoStorage
    /\ tenant[p] \notin Known
    /\ lock' = NoStorage
    /\ Answers(p, "unknown")
    /\ UNCHANGED <<tenant, applications, served, storages, names, content>>

\* The factory notes a new storage, in the dict the main thread dumps.
Build(p) ==
    LET t == tenant[p]
    IN  /\ pc[p] = "looking" /\ applications[t] = NoStorage /\ t \in Known
        /\ names' = IF storages[t] = NoStorage THEN Append(names, t) ELSE names
        /\ storages' = [storages EXCEPT ![t] = p]
        /\ Goto(p, "built")
        /\ UNCHANGED <<tenant, answer, lock, applications, served, content>>

Keep(p) ==
    /\ pc[p] = "built"
    /\ applications' = [applications EXCEPT ![tenant[p]] = p]
    /\ served' = [served EXCEPT ![p] = p]
    /\ lock' = NoStorage
    /\ Goto(p, "dispatched")
    /\ UNCHANGED <<tenant, answer, storages, names, content>>

\* The application refuses the request, or its storage creates the resource.
Serve(p) ==
    /\ pc[p] = "dispatched"
    /\ \/ Answers(p, "refused") /\ UNCHANGED content
       \/ /\ content' = [content EXCEPT ![served[p]] = @ \cup {p}]
          /\ Goto(p, "created")
          /\ UNCHANGED answer
    /\ UNCHANGED <<tenant, lock, applications, served, storages, names>>

Respond(p) ==
    /\ pc[p] = "created"
    /\ Answers(p, "created")
    /\ UNCHANGED <<tenant, lock, applications, served, storages, names, content>>

Step(p) ==
    \/ Accept(p) \/ Acquire(p) \/ Find(p) \/ RefuseTenant(p) \/ Build(p) \/ Keep(p)
    \/ Serve(p) \/ Respond(p)

Thread(p) == phase # "ended" /\ Step(p) /\ UNCHANGED dumpVars

-----------------------------------------------------------------------------
(***************************************************************************)
(* The main thread.                                                        *)
(***************************************************************************)

\* Ctrl+C ends serve_forever; nothing more is accepted.
Stop ==
    /\ phase = "serving"
    /\ phase' = "dumping"
    /\ size' = Len(names)
    /\ wanted' = {p \in Requests : answer[p] = "created"}
    /\ UNCHANGED <<threadVars, position, dump, file>>

\* The comprehension over storages.items(): the next tenant's resources are
\* copied.  A dict that grew since the iteration began raises a RuntimeError,
\* and the process ends with the file as it was emptied at the start.
DumpTenant ==
    /\ phase = "dumping" /\ position <= size /\ Len(names) = size
    /\ dump' = dump \cup content[storages[names[position]]]
    /\ position' = position + 1
    /\ UNCHANGED <<threadVars, phase, size, file, wanted>>

DictGrew ==
    /\ phase = "dumping" /\ Len(names) # size
    /\ phase' = "failed"
    /\ UNCHANGED <<threadVars, size, position, dump, file, wanted>>

\* The resources of a storage are walked without its lock: a creation in the
\* middle of the walk raises a RuntimeError too.
StorageGrew(p) ==
    /\ phase = "dumping" /\ position <= size /\ Len(names) = size
    /\ served[p] = storages[names[position]]
    /\ Serve(p) /\ content' # content
    /\ phase' = "failed"
    /\ UNCHANGED <<size, position, dump, file, wanted>>

EndDump ==
    /\ phase = "dumping" /\ position > size /\ Len(names) = size
    /\ phase' = "written"
    /\ file' = dump
    /\ UNCHANGED <<threadVars, size, position, dump, wanted>>

\* The process exits, and its threads with it.
Exit ==
    /\ phase \in {"written", "failed"}
    /\ phase' = "ended"
    /\ UNCHANGED <<threadVars, size, position, dump, file, wanted>>

Main == Stop \/ DumpTenant \/ DictGrew \/ EndDump \/ Exit

Ended == phase = "ended" /\ UNCHANGED vars

Next == (\E p \in Requests : Thread(p) \/ StorageGrew(p)) \/ Main \/ Ended

(***************************************************************************)
(* A thread that can run runs in the end.  Each request takes the lock     *)
(* once, so a weakly fair lock is enough.  Nothing says that Ctrl+C comes. *)
(***************************************************************************)
Spec == Init /\ [][Next]_vars
             /\ \A p \in Requests : WF_vars(Thread(p))
             /\ WF_vars(DumpTenant \/ DictGrew \/ EndDump \/ Exit)
-----------------------------------------------------------------------------
(***************************************************************************)
(* Properties.                                                             *)
(***************************************************************************)

\* Each request that was created is in the storage the main thread knows of for
\* its tenant, and in no other: however many first requests a tenant gets at
\* once, they share one application, whose storage is never replaced.
CreatedInItsTenant ==
    \A p \in Requests, q \in Requests :
        pc[p] = "created" \/ answer[p] = "created" =>
            (p \in content[q] <=> storages[tenant[p]] = q)

\* A dump that is written holds every resource the clients knew of when the
\* server stopped, and none that was not created.
WrittenDumpComplete ==
    phase = "written" =>
        /\ wanted \subseteq file
        /\ \A p \in file : pc[p] = "created" \/ answer[p] = "created"

\* A request that was accepted is answered, unless the process ends first: no
\* path out of get_application keeps the lock.
EveryRequestAnswered ==
    \A p \in Requests :
        pc[p] = "selected" ~> (pc[p] = "answered" \/ phase = "ended")

\* The server writes every resource to the file when it stops (cli.rst, "Keep
\* the resources of a run"): those the clients knew of, at least.
ResourcesKept == phase = "ended" => wanted \subseteq file
=============================================================================
