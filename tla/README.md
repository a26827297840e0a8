# Formal models of scim2-server

These TLA+ modules model scim2-server from the first byte of a request to what is
stored: routing, bodies, credentials and the steps of the service; the handlers
that read, decide and write; bulk requests; cursor paging; the in-memory storage
and its indexes; the SQLite storages of the documentation and their transactions;
and the tenants of the `scim2-server` command. TLC checks them on small instances;
TLAPS proves every safety property of them, and more, for every value of the
constants. Paths below are relative to `src/`.

To check a run: `tlc -workers 2 -config Storage.cfg MCInMemoryStorage`. To check the
proofs of a module: `tlapm HandlerProofs.tla`.

## 1. The system

| Component | State it keeps | Operations | What makes it correct |
|---|---|---|---|
| `memory.py` InMemoryStorage | resources by type and identifier; the owner of each unique value; equality indexes built by the first search that can use them; a version counter; a reentrant lock | `get`, `search`, `create`, `update`, `delete`, `resources` (getter, setter), `operation` | the indexes agree with the resources; unique values are unique across types; a version is never given twice |
| `storage.py` contract | none: what every storage promises | the same | writes are atomic; `expected_version` is compared with what is stored |
| `handler.py` handlers | a request's copy of the resource, between two calls of the storage | one method per SCIM operation, inside `storage.operation()`; an asynchronous twin | no lost update; conditional headers hold when the write happens; each request acts at one instant |
| `service.py` service | none (configuration, cursor keys) | the steps between two calls of the storage: validate, authorize, apply, publish | same status for the same request, wherever it is sent |
| `conditions.py` | none | If-Match, If-None-Match | evaluation order; `*` |
| `bulk.py` plan | order of the steps, results, created resources, errors | `plan_steps`, `resolve`, `record`, `stopped` | a creation before what references it; cycles refused; `failOnErrors` |
| cursor paging (`memory.py` `_page`, `cursor.py`, `service.py`) | none on the server; the cursor holds the position | first page, next, previous | a resource that does not change is returned exactly once |
| `applications/wsgi.py` TenantDispatcher | the application of each tenant; a lock | `get_application` | one application per tenant |
| `testserver/cli.py` command | the storage of each tenant; the dump file | serve; dump on Ctrl+C | the dump holds every resource |
| `routing.py` | a constant table | `match` | a path and a method have one operation, a 405 or a 404 |
| `applications/base.py`, `asgi.py`, `wsgi.py` | what was read of a body | read a body, dispatch, answer | the limit of a body is exact; a client that leaves keeps nothing waiting and has nothing written |
| `testserver/application.py` | tokens and passwords | `check_auth`, the schemes to announce | a 401 comes with the challenges the application accepts |
| `doc/_examples/*.py` SQLite storages | rows and versions; the transaction of each connection | `get`, `create`, `update`, `delete`; `writing()` | what is answered is committed; a version means one content; no transaction stays open; every process serves the same rows |
| `testing.py`, `errors.py`, `precis.py`, ... | none | test suites, value classes | - |

The application turns a WSGI or ASGI request into a `ScimRequest` and calls the
handler. The handler calls the steps of the service and, inside
`storage.operation()`, the storage. Threads (WSGI) or coroutines (ASGI) run
several handlers at once on one storage. `ScimHandler` over `InMemoryStorage`
holds the storage's lock for the whole operation. `AsyncScimHandler` holds
nothing: another coroutine may run at each `await` of the storage, and only
`expected_version` tells two writers apart. A bulk request calls `operation()`
once per operation, so other requests run between two of its operations. The
command adds a thread per request, a dispatcher that builds the application of a
tenant on its first request, and the main thread, which reads every storage when
the server stops. Over the SQLite storages each method is several statements, and the
commit is one of them: synchronous processes have a connection each, and the coroutines
of an asynchronous process share one.

What is hard here: interleavings between the read and the write of a handler; two
kinds of index that each write must keep exact; the order of a bulk request with
circular references; pages of a collection that changes; the dump while threads
still run; refusals that must come in one order whatever is wrong with a request;
transactions that several requests share. `PROJECT.json` lists each hazard at its
line, with the property that covers it or the reason why none does.

## 2. The modules

| Module | What it is |
|---|---|
| `ScimResources` | the data all modules share: resources, comparable values, outcomes of a write |
| `ScimStorage` | the contract of `storage.py`: a map with atomic writes and fresh versions |
| `InMemoryStorage` | `memory.py`, which implements `ScimStorage` |
| `Routing` | `routing.py`: the table and `match` |
| `RequestPipeline` | the applications, the steps of every handler method, and the calls that reach the storage |
| `Requests` | the requests on one resource, and what the service decides from the resource it read |
| `ScimServer` | the abstract server: each request takes effect at one instant |
| `Handler` | `handler.py` over the contract, with or without the lock; implements `ScimServer` |
| `BulkPlan` | `BulkPlan.plan_steps`, one iteration of its loop per step |
| `BulkRequest` | extends `BulkPlan`: the steps run one by one among other requests |
| `StablePages` | the stable pages a storage with cursors promises |
| `CursorPaging` | `_page`, `_bounds`, the cursors and a client that pages; implements `StablePages` |
| `SqlStorage` | the four SQLite storages of `doc/_examples`, one statement or commit per step, over `Requests` |
| `TestServer` | the threads, the dispatcher and the dump of the command |
| `InMemoryStorageProofs`, `HandlerProofs`, `BulkProofs`, `CursorPagingProofs`, `StablePagesProofs`, `RequestPipelineProofs`, `SqlStorageProofs`, `TestServerProofs` | theorems |
| `MCInMemoryStorage`, `MCHandler`, `MCBulkRequest`, `MCCursorPaging`, `MCTestServer`, `MCRequestPipeline`, `MCSqlStorage` | small instances for TLC |

### How they correspond to the code

**InMemoryStorage.** The five dicts of `__init__` are `resources`, `owners`,
`uniqueValues`, `equalities` and `equalValues`; `indexed` says which equality
indexes exist. A dict is a total function with a value for "no entry". Each
method holds the lock, so it is one action, and includes what it calls:
`Update` checks the existence and the version, draws a version, looks up the
unique values, and only then stores, as `update` does, so a write refused for a
unique value has used a version. `Store` is `_remove` then the new index entries.
`SearchIndex` builds the index if there is none, then looks up; a key that is
gone would answer `KeyError`. `SetResources` empties the indexes and keeps the
versions it is given. The asynchronous variant calls the same methods and never
awaits, so it has the same steps.

**RequestPipeline.** The steps before the storage keep no state, so one request at
a time is enough: a behaviour takes one *case*, a configuration and a request, and
serves it. `ReceiveAsgi`, `DisconnectAsgi` and `ReadWsgi` are the two readers of
bodies, `Dispatch` is `dispatch_request`, and `Serve` is the next step of the
handler. `Steps` is the order of the calls in each method of `handler.py`, and
`Refusal` what each step of `service.py` raises. A body is the number of bytes that
were kept, which `Cut` and `Keep` limit; it is valid if all of it is there. The
calls the storage got are in `called`, and what a search asked of it in `search`.
A path is the sequence of its segments, and `Match` the first route of `ROUTES`
whose pattern and method it has. Whether a resource is stored is part of the case:
what a write then does is the subject of the other modules.

**Handler.** A request enters `operation()` (`Enter`), creates (`Create`), or reads
its resource and decides (`Read`), writes with the version of its copy (`Write`),
and leaves (`Leave`). Between two calls of the storage all is local to the
request, so each step has one call. `Locked` chooses between the synchronous
handler and the asynchronous one. `Verdict` keeps the order of the code: body,
If-Match, If-None-Match, immutable attributes, then whether anything changes.

**BulkPlan, BulkRequest.** The stack of `(index, iterator)` pairs is `stack`; an
iterator is the position of its next reference. The steps of `run_bulk_step`
before the storage are `Refusal`, in their order: route, duplicate bulkId and
references, rights, validation, PATCH support. Applying an operation is one step,
since `Handler` covers what happens inside `operation()`.

**CursorPaging.** Sort keys are triples: whether the value is missing, the value,
the identifier. `Bounds` is `_bounds`, where a page nobody bounds (`NoCount`) has
the whole collection, and a cursor is the record that `seal` encrypts. Time is counted in half seconds, because `seal` keeps whole seconds and
`open` does not. The client pages to the last page, turns, and pages back; it may
send its cursor with any query and count.

**SqlStorage.** A request of `Requests` over tables, one step per statement that
another connection can tell: `Read` is `get` with the checks of the service,
`Insert` and `Write` execute a statement, which opens the transaction of the
connection, `Commit` and `Rollback` are the two ends of `writing()`, `Explain` asks
why no row matched, `Reread` is the read of the row that is returned. `open` holds
the rows as a transaction sees them.

Three actions are the errors that end a wait of five seconds, `database is locked`:
`Locked` when another connection writes, `CommitLocked` when another transaction
reads, `LockedRead` when another one waits to commit. What happens then is `Fails`.
The `with self.connection` of the synchronous storages rolls back on any error; the
asynchronous `writing()` rolls back on `sqlite3.IntegrityError` alone, so that the
transaction stays on the connection its process shares. `left` says in what state:
begun by the driver without a lock, `reading` once a coroutine read in it,
`pending` once a commit failed, whose rows its process alone still sees. `Cancel` is
a server that cancels a coroutine at an `await`, with the same effect; `Crash` stops
a process: its transaction is undone, its clients have no answer.

`SQLiteStorage` counts the versions of a row and gives each identifier once;
`LibraryStorage` has the time as version, a new row takes the identifier after the
greatest, which may be that of a deleted one, and only keeps what it has columns
for. A UNIQUE column compares the rows of one type (`Taken`). A deployment is
one of these, synchronous, with a connection for each request, or asynchronous, with
one for each of `Processes` and the process of each request.
`given` collects the rows that were committed or that a client was answered.

**TestServer.** A step of a thread is what it does between two accesses to shared
state: taking the lock, looking up, inserting in `storages`, inserting in
`applications` and releasing, creating the resource, answering. The main thread
copies one tenant per step; when the dict of the storages, or the storage it is
walking, grows meanwhile, Python raises a `RuntimeError` (`DictGrew`,
`StorageGrew`).

## 3. The runs

| Run | Question | Result |
|---|---|---|
| `storage` | do the indexes stay exact, and do they never show through? | holds |
| `storage_loaded` | does a version change with its resource, after a load? | **violated** |
| `handler` | with the lock or without, is an update lost, a condition stale, or an operation more than one step? | holds |
| `bulk_request` | is the order of the plan right for all references, cycles included, does each step of the walk come closer to its end, and are references, conflicts and `failOnErrors` right as the plan runs? | holds |
| `bulk_status` | has a failed operation the status it would have alone? | **violated** |
| `paging` | is each unchanged resource seen once, do neighbours meet, does paging end, and how early may a cursor expire? | holds |
| `tenants` | is there one storage per tenant, and is the dump complete? | holds |
| `tenants_dump` | does the server write every resource when it stops? | **violated** |
| `pipeline` | what does a refused client learn, how much of a body is read, which searches reach the storage, and does a bulk operation fail as it would alone? | holds |
| `sqlite` | are answered writes committed and refused ones not, is a version one content, is a commit the whole effect of one request, which transactions end, with locks and processes that stop? | holds |
| `sqlite_locked` | do the processes serve the same resources? | **violated** |
| `sqlite_shared` | with a shared connection, is each answered write committed? | **violated** |

### Bounds, and why they are enough

- `storage`: two types, two identifiers each, a unique attribute both types share
  and one that only users have, a value compared without case and one that cannot
  be compared, three versions (`MaxVersion = 2`), a load at any time. Two
  resources of different types compete for a value, a value moves and is freed,
  and an index is built before or after any write. Identifiers are symmetric.
- `handler`: three requests on two users, with the lock and without it, twelve jobs (plain and conditional
  PUT, PATCH and DELETE, an invalid PUT, POSTs that take a freed identifier, a
  conditional GET), all combinations. Three requests are enough for a write
  between the deletion and the creation of another.
- `bulk_request`, `bulk_status`: all sequences of up to three out of 17 operations,
  `failOnErrors` absent, 0 or 2, and one write of another request (`MaxOthers`) at any
  moment. `bulk_request` adds two families for the plan, of operations that are all
  refused: up to three operations over two bulkIds with up to two references each, in
  either order, and four creations over four bulkIds, the first two with up to two
  references and the last two with one: duplicates, diamonds, cycles of length one to
  four and chains into them.
- `paging`: three resources, one sort value or none, so ties and missing values
  both occur; counts 1, 2 and none; both orders; two changes of other clients
  (`MaxChanges`), enough to delete a resource and store it again; a timeout of one
  second out of `MaxTime = 4` half seconds, so a cursor expires in the middle of a
  second and at its end.
- `tenants*`: three requests over two known tenants, an unknown one, or none.
  Two may race for the first request of a tenant while the third meets the dump.
- `pipeline`: five families of cases, each around a configuration that announces
  everything and a request that succeeds. *Routes and rights*: five methods, 14
  paths (each kind of route, an unknown endpoint, `/Me`, a version prefix, a path
  that is too long), three sets of rights, data valid or not, stored or not.
  *Bodies*: both gateways, three ways to tell a length, limits absent, 0 and 2, and
  six ways to cut 1 to 4 bytes into messages, an empty one included: below, at and
  beyond the limit, in one message or several. *Searches*: limits absent, 1 and 2,
  counts absent, 0, 1 and 3, own cursors sealed with the same count, another one or
  none. *Credentials*: both schemes, alone or together. *Bulk operations*: one
  operation of every method on every path, with the version prefix an operation may
  have, three sets of rights, PATCH supported or not, data valid or not, stored or
  not. All of a family's combinations are initial states: 188 thousand states in all.
- `sqlite`: a scenario is a deployment, the jobs of four requests and the rows at the
  start. *Races*: three requests out of five jobs (two creations, with a name that is
  free or taken, a PUT, a PATCH, a conditional DELETE) and a GET, on one user stored
  or two, with both storages, synchronous or in one asynchronous process; three of
  these jobs also in two asynchronous processes. *Locks*: a creation, a PATCH or a GET
  for each request, in three asynchronous processes, enough for one to leave a
  transaction, read in it, and lock out the commit of another and the reads of a
  third. Requests that are interchangeable have their jobs in one order only, and
  there is an identifier for each creation (`Fits`). At most one process stops or one
  coroutine is cancelled (`MaxCrashes`), at any moment. The clock moves at each write:
  two writes in one microsecond are left out.
- `sqlite_shared`, `sqlite_locked`: three requests of the races in one asynchronous
  process, or of the locks in two; nothing stops.

Deadlock is checked except in the paging runs, where a client that read all pages
while the bounds of time and changes are reached has nothing left to do.

### Fairness

- `Handler`: weak fairness of each request's steps. A thread or coroutine that
  can run is scheduled in the end. Each request takes the lock once, so a lock
  that is free is taken by somebody and all are served: no strong fairness is
  needed.
- `BulkRequest`: the handler is a loop that waits for nobody.
- `RequestPipeline`: weak fairness of the next step. The server of the gateway
  gives the next message or `http.disconnect`, and no step of a request waits for
  another request.
- `CursorPaging`: the client goes on paging. It is an assumption on the client;
  without it nothing needs to end.
- `TestServer`: threads that can run do, and the dump goes on once begun.
  Nothing says that Ctrl+C comes.
- `SqlStorage`: none. What waits for a lock gives up after five seconds (`Locked`,
  `LockedRead`, `CommitLocked`), so that a request is answered is no question; that
  no transaction stays open, which would lock every writer out, is the invariant
  `TransactionsEnd`.

### What the violated runs show

1. `storage_loaded`: load a resource of version 1 in a new storage and update it:
   the update gets version 1 too (`memory.py:228`). `memory.py:248` says that two
   writes never share a version.
2. `bulk_status`: a PUT with invalid data on a missing resource is 404 alone and
   400 in a bulk request (`handler.py:290` against `handler.py:121`);
   `doc/explanation/bulk.rst:67` promises the same status.
3. `tenants_dump`: a first request to a new tenant, or a creation in the storage
   being copied, makes the dump raise, and the file is left empty
   (`testserver/cli.py:262`), where `doc/reference/cli.rst:115` says that the
   server writes every resource when it stops with Ctrl+C.
4. `sqlite_shared`: coroutines execute on one connection, hence in one transaction.
   When one is refused for a name that is taken, its rollback
   (`doc/_examples/async_sqlite_storage.py:153`) also undoes what another executed
   and has not committed; the commit of that one commits nothing, and its client
   is answered 200 (`doc/how-to/write-a-storage.rst:155` says that the example
   commits each write). `sqlite` shows that nothing else loses a write.
5. `sqlite_locked`: in an asynchronous process, a statement that fails with
   `database is locked` leaves the transaction the driver began
   (`doc/_examples/async_sqlite_storage.py:152` catches `sqlite3.IntegrityError`
   only), and the next read keeps its lock in it. The commit of the process that was
   writing then fails too, and leaves its transaction with its row, neither committed
   nor undone: that process alone serves the row, and no other can write any more.
   `doc/how-to/write-a-storage.rst:26` says that the processes serve the same
   resources. `sqlite` shows that a transaction stays open in no other way than a lock
   or a cancellation.

Each of the five properties is also a theorem under the condition the code lacks,
so the counterexample is the only kind there is: `VersionChangesWithResource` when
loaded versions are foreign to the counter (`LoadsForeign`), `StatusAsAlone` when
the data a single request reads last are valid (`LaterDataValid`), `ResourcesKept`
when nothing is built or created while the server dumps (`QuietWhileDumping`), and
`AcknowledgedIsApplied` and `ServeTheSame` when each process has a connection of its
own, and `writing()` rolls back on every error.

One observation is no finding: `seal` keeps whole seconds (`cursor.py:59`) and
`open` does not (`cursor.py:104`), so a cursor may be refused up to one second
early. `ExpiryWithinASecond` bounds it on both sides.

## 4. What is proved

| Theorem | Establishes |
|---|---|
| `StorageInvariant`, `StorageTyping`, `StorageIndexes` | the indexes hold exactly the values of the stored resources |
| `StorageUniqueness` | no two resources share a unique value |
| `StorageImplementsContract` | `InMemoryStorage` implements `ScimStorage` |
| `UpdatesChangeVersions` | a version changes with its resource, if loaded versions are foreign |
| `HandlerInvariant`, `HandlerTyping` | versions identify contents; the lock is held inside `operation()` |
| `LockedOperations` | under the lock, nothing happens between a read and its write |
| `LostUpdatesExcluded`, `ConditionsAreCurrent` | a write overwrites what it was computed from, under its conditions |
| `HandlerLinearizable` | `Handler` implements `ScimServer` |
| `PlanInvariant`, `OperationsRunOnce`, `CreationsRunFirst`, `PlanFollowsTheRequest` | a bulk plan holds each operation once, creations first, and otherwise in the order of the request |
| `WalkEnds` | each step of the walk comes closer to its end, on every graph of references |
| `BulkInvariant`, `BulkTyping`, `ReferencesResolved` | a reference is the resource this request created |
| `ConflictsHaveReasons`, `CyclesAreConflicts`, `ErrorsAreCapped` | a 409 has a cause, every operation of a cycle gets one, `failOnErrors` stops on time |
| `FailuresAsAlone` | a failed operation has the status it would have alone, if later data are valid |
| `PipelineInvariant`, `RefusedClients`, `SearchesAsAnnounced` | a client that is refused learns nothing; the storage sees only the searches announced |
| `BodiesAreRead`, `PipelineTyping`, `BodiesWithinLimits` | what is kept of a body is its beginning, to a byte beyond the limit; a 413 means that it was larger |
| `BulkOperationsFailAlike` | an operation is refused when its single request would be, on every route |
| `SqlInvariant`, `SqlTyping`, `AnsweredWritesAreCommitted` | one transaction writes at a time; what is answered is committed unless another request rolled it back |
| `TransactionsEndUnlessInterrupted` | a synchronous storage leaves no transaction open; an asynchronous one only when a coroutine met a lock or was cancelled |
| `OwnConnectionsKeepWrites`, `OwnConnectionsServeTheSame` | with a connection per process, every answered write is committed, and every process serves the committed rows |
| `RefusalsWriteNothing`, `AnswersAreTrue` | no commit saves a statement of a request that was refused: answers tell what is written |
| `OwnConnections`, `EtagsMeanContents`, `FailuresHaveCauses`, `UpdatesAreNotLost` | with a connection per process, a version is one content and no update is lost |
| `CommitsAreServed` | with a connection per process, a commit is the whole effect of one request on the committed rows |
| `PagingInvariant`, `ResourcesSeenOnce`, `NeighboursLeadBack` | a resource that does not change is on one page; paging back and forward again leads to the same place |
| `CursorsGiveStablePages` | `CursorPaging` implements `StablePages` |
| `ExpiryBounded` | no page is older than its timeout; a cursor expires at most a second early |
| `StablePagesSeeOnce` | stable pages return each steady resource exactly once |
| `TenantsKeepTheirResources` | each created resource is in the one storage of its tenant |
| `WrittenDumpsAreComplete` | a dump that is written misses nothing |
| `QuietServersKeepResources` | a server that stops writes every resource, if nothing is created meanwhile |

They hold for any number of types, attributes, values, requests, operations,
references, tenants, pages, counts, limits and messages, under the named assumptions
of the modules, which TLC evaluates on each instance.

- *Storage.* Uniqueness is not inductive: `_check_uniqueness` looks at the index
  only, so it needs the index to be exact, and `IInv` adds `UniqueIndexExact` and
  `EqualityIndexExact`. One step per action; `Store` and `Remove` have lemmas of
  their own. The proof that the storage implements its contract has the
  hypothesis `LoadsForeign`: a loaded version is none the counter gives. The run
  `storage_loaded` is what happens without it. Lists given to the setter are
  assumed to share no unique value, since the setter checks nothing.
- *Handler.* `NoLostUpdate` compares resources while the code compares versions, so
  `IInv` needs `VersionsIdentify`: the copy of a request and what is stored now
  are equal if their versions are, even when the resource was deleted and its
  identifier taken again. The conditional headers then hold of what is stored
  because they held of an equal copy. For `HandlerLinearizable` a request takes
  effect at its read when it writes nothing, and at its write otherwise.
- *Bulk plan.* The order is not inductive: it needs the shape of the walk.
  `PlanInv` says that the stack is a path of references from an operation of the
  request (`Rooted`, `PathOfReferences`), that what left it has its place and
  everything it references is placed or on the stack (`PlacedOnce`, `Yielded`), and
  that places were given in order (`PlacedInOrder`, `PlacedFromRoots`). A creation
  that is not placed before its reader is then on the stack below it: a cycle.
  `WalkEnds` says why the walk ends, as a property of steps: each one meets an
  operation for the first time; or leaves those that were met and shortens the
  path; or leaves both and has less left to look at in the operation at its end
  (`Unmet`, `Len(stack)`, `LeftHere`). All three are natural numbers in a bounded
  range. The run checks deadlock, so the walk goes on until the plan is whole, and
  `BulkAnswered` checks that every bulk request ends in an answer.
- *Bulk request.* `RunInv` extends `PlanInv` to the run: the results are those of
  the steps taken (`TurnTaken`), what is recorded under a bulkId is the resource
  of the creation it names (`Recorded`), and the number of errors is that of
  the results that failed. `CyclesConflict` follows for cycles of any length: the
  operation of the cycle that runs first has a reference that is not recorded.
  For `FailuresAsAlone`, the refusals of `run_bulk_step` are compared with those of
  a single request one by one: only data read too early tell them apart.
- *Pipeline.* `PipelineInv` is `Progress` (every step before `at` let the request
  go, and the storage got the calls of those steps) and `Explained` (an answer is
  that of `Dispatch`, of the step that refused, or of the last one).
  `RefusedClients` then is a walk along `Steps`: in each method the rights come
  before the first step that could tell anything else. `BodyRead` relates the two
  readers to the bytes that were sent: what is kept is the smaller of what arrived
  and the room there is. The size of a body is a recursive function of its messages;
  that it is a sum which grows with each of them is proved by induction on sets of
  numbers (`LeastNat`, `SetInduction`), since the library's induction theorems take
  operators. `BulkFailsAlike` compares two walks: the one of `run_bulk_step`, and
  the one along the `Steps` of the method that the route of the operation names;
  `VerdictOfFirst` says that a request is refused by the first step that refuses.
- *SQLite storages.* `AnyInv` holds in every deployment: one transaction at a time has
  rows, a connection holds one only for a request between its statement and its end
  (`InTransaction`) or after a coroutine that met a lock or was cancelled
  (`Interrupted`) (`Started`, `OpenForWriters`), and a write is in one, committed, or undone by a
  refusal on the same connection (`Saved`). `OwnInv` holds with a connection per
  process, where no error leaves anything (`OwnSteps`, `OwnLocked`): a transaction differs from the committed rows in the row of its
  request (`Pending`), whose new version was never given (`RowsIdentified`). The
  clock makes it new for `LibraryStorage`, the counter for `SQLiteStorage`, whose
  identifiers are never given again. `NoLostUpdate` then follows
  from the version in the WHERE clause as in `Handler`, and `ServedAtCommit` from
  `PendingApplies`: an open transaction is what its request makes of the committed
  rows, which nobody else changes while it is open. `RefusedWritesNothing` needs
  `SavedSucceed`: a statement that a commit may still save is that of a request on
  its way to a success, in every deployment.
- *Stable pages.* A steady resource was seen once if its place was passed, and not
  at all otherwise (`SeenAsPassed`).
- *Cursor paging.* The storage cuts pages by number, a cursor names a place. The rank
  of a resource is the number of those before it, and a set closed downwards in the
  order holds exactly the ranks below its size (`RankBelowSize`). So a page holds
  what stands between two places, whatever was created or deleted since the last
  one (`PageAfter`, `PageBefore`); that ranks leave no gap (`RankOfSome`) gives the
  neighbours their places. `PagingInv` says that the cursors of a page are of its
  query, time and side. Each step is then one of `StablePages` or a stutter.
- *Tenants.* The lock makes the application of a tenant and the storage the main
  thread knows the same (`OneStorage`); the dump then only needs that the dict
  keeps its order and grows at its end (`DumpInv`). With quiet threads the dict
  keeps its size too, so the dump never fails (`NothingLost`).

Every invariant and every property of steps that a run checks is a theorem. Only
model-checked is liveness (`EveryRequestAnswered`, `BulkAnswered`, `PagingEnds`,
`Answered`), which rests on fairness and `ENABLED`, out of the prover's
reach.

## 5. What is not modelled

- Index paging (the service's part of it is in `RequestPipeline`; the slice itself
  is one expression of `memory.py`) and `count=0`; the cryptography of cursors (a
  cursor cannot be forged); the publication of resources (locations, `$ref`,
  attribute projection) and of errors; `ForwardedHeaders`; the formatting of
  headers and responses.
- The searches of the SQLite storages: a `SELECT` for each type, then filter, sort and
  slice in Python.
- `connect()` of the asynchronous storages (`doc/_examples/async_sqlite_storage.py:35`):
  two first coroutines may both find no connection and open one, of which the second
  replaces the first. The model begins with the connection of each process open.
- How a server cancels a coroutine: the model lets it do so at any `await`, once a
  request (`Cancel`), and leaves the transaction as the code does.
- SQLite itself: its locks (one writer, a commit that waits for readers, the rollback
  journal being the default of the examples) and the implicit transactions of
  `sqlite3` and `aiosqlite` are assumptions, marked external in `PROJECT.json`.
- Multi-valued and complex attributes, and filters other than `eq` on a string:
  scim2-models evaluates them; `SearchWalk` stands for any search that walks the
  resources.
- Identifiers: `generate_id` gives one that is not stored, and identifiers are
  unique across types, as RFC 7643 section 3.1 demands.
- The setter of `resources` while requests run; resources without a version.
- `testing.py`, a test suite for authors of storages, which we read as a statement
  of the contract; `doc/conf.py`; the options of the command and its server without
  tenants; PRECIS and the comparison of strings; value classes.
- Six hazards of `PROJECT.json` have no property. Three need input the documentation
  rules out: lists whose resources share a unique value, a `generate_id` that repeats
  itself, and two types that share an identifier. A method of `InMemoryStorage` that
  lost its lock would not be seen, since each is one action; the getter and setter of
  `resources` take no lock, and only the dump's use of the getter is modelled; and no
  document promises a way back from an empty page.

## 6. Plan

Done, in order of importance: storage and contract, handlers, bulk requests, paging,
tenants, the request pipeline with routing and the readers of bodies, the SQLite
storages, with the theorems above. What is left:

1. Index paging and `count=0` in `CursorPaging`, with a fourth resource.
2. The SQLite storages with a connection per process against an abstract server that
   may refuse a locked request and lose an answer: `ServedAtCommit` is the step of
   its writes, and what is left are its answers.
3. The searches of the SQLite storages against those of the in-memory one.
