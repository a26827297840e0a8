----------------------------- MODULE SqlStorage -----------------------------
(***************************************************************************)
(* The storages the documentation builds over SQLite: SQLiteStorage, which *)
(* counts the writes of each row, and LibraryStorage, which serves tables  *)
(* that are already there, and versions a row with the time of its last    *)
(* write.  A method of theirs is no atomic step: it executes a statement   *)
(* in a transaction, commits it, and only then reads the row again.        *)
(*                                                                         *)
(* Each process of a synchronous deployment has a connection of its own,   *)
(* and the database lets one of them write at a time.  Each process of an  *)
(* asynchronous deployment shares one connection, and the transaction open *)
(* on it, among the coroutines that serve its requests.  Their writing()   *)
(* ends the transaction when it commits and when a UNIQUE column refused a *)
(* row, and leaves it open on any other error (async_sqlite_storage.py,    *)
(* async_library_storage.py).                                              *)
(***************************************************************************)
EXTENDS Requests, FiniteSets

CONSTANTS
    Scenarios,        \* the deployments, the jobs of the requests, the tables at the start
    Processes,        \* the processes of an asynchronous deployment
    Columns,          \* the attributes the tables of the library have a column for
    Default,          \* what a column holds when the attribute has no value
    Contents,         \* what the tables may hold at the start
    FirstTime,        \* the time at the start, later than that of any row
    NoTransaction,    \* no transaction is open on a connection
    NoKey,            \* the request is not about a row yet
    MaxCrashes        \* bound: how many times a process, or a coroutine, stops

Tables == [Keys -> Resource \cup {NoResource}]

\* The storage, whether requests share connections, and the process of each request.
Deployments == [library : BOOLEAN, shared : BOOLEAN, process : [Requests -> Processes]]

ASSUME SqlAssumption ==
    /\ Scenarios \subseteq
           [deployment : Deployments, job : [Requests -> Jobs], table : Contents]
    /\ Ids \subseteq Nat \ {0}
    /\ Columns \subseteq Attrs /\ Default \in [Attrs -> Values \cup {Missing}]
    /\ Contents \subseteq Tables
    /\ FirstTime \in Nat /\ MaxCrashes \in Nat
    /\ \A content \in Contents, k \in Keys : content[k] # NoResource =>
           /\ content[k].data \in Data(k[1]) /\ content[k].version < FirstTime
           /\ \A a \in Attrs : content[k].data[a] = Missing \/ a \in Columns
           /\ \A a \in Columns : content[k].data[a] = Missing => Default[a] = Missing
    /\ Processes \cap Requests = {}
    /\ NoTransaction \notin Tables /\ NoKey \notin Keys

Connections == Requests \cup Processes

VARIABLES
    deployment,  \* which of the storages serves the requests
    table,       \* the committed rows
    open,        \* the rows as the transaction open on each connection sees them
    left,        \* what an error left of the transaction of each connection
    unsaved,     \* the requests that wrote in the transaction of each connection
    applied,     \* the requests whose write was committed
    used,        \* the keys a creation gave, or found in the tables
    clock,       \* the time
    pc,          \* how far each request is
    job,         \* what each request asks
    key,         \* the row each request is about
    current,     \* the copy of the resource each request read
    answer,      \* the answer to each request, once it is known
    given,       \* the rows that were committed, or that a client was answered
    crashes      \* how many times a process, or a coroutine, stopped

vars == <<deployment, table, open, left, unsaved, applied, used, clock, pc, job, key,
          current, answer, given, crashes>>

Rows(t) == {[key |-> k, row |-> t[k]] : k \in {l \in Keys : t[l] # NoResource}}

Init ==
    /\ \E scenario \in Scenarios :
           /\ deployment = scenario.deployment
           /\ job = scenario.job
           /\ table = scenario.table
    /\ open = [c \in Connections |-> NoTransaction]
    /\ left = [c \in Connections |-> "none"]
    /\ unsaved = [c \in Connections |-> {}]
    /\ applied = {}
    /\ used = {k \in Keys : table[k] # NoResource}
    /\ clock = FirstTime
    /\ pc = [p \in Requests |-> "received"]
    /\ key = [p \in Requests |-> IF job[p].op = "post" THEN NoKey ELSE job[p].key]
    /\ current = [p \in Requests |-> NoResource]
    /\ answer = [p \in Requests |-> NoAnswer]
    /\ given = Rows(table)
    /\ crashes = 0

Goto(p, l) == pc' = [pc EXCEPT ![p] = l]

\* The answer the client gets, and the row it shows.
Settles(p, status, r) ==
    /\ answer' = [answer EXCEPT ![p] = Answer(status, r)]
    /\ given' = given \cup {x \in {[key |-> key[p], row |-> r]} : r # NoResource}
    /\ Goto(p, "answered")

-----------------------------------------------------------------------------
(***************************************************************************)
(* The database.                                                           *)
(***************************************************************************)

\* The connection a request writes and reads with.
Connection(p) == IF deployment.shared THEN deployment.process[p] ELSE p

\* The rows a connection sees: those of its own transaction, if one is open.
View(c) == IF open[c] = NoTransaction THEN table ELSE open[c]

\* The database lets one connection write at a time.
Free(c) == \A other \in Connections \ {c} : open[other] = NoTransaction

\* A commit that waits for its readers lets no new one in.
CanRead(c) == left[c] = "reading" \/ \A other \in Connections \ {c} : left[other] # "pending"

\* A transaction that wrote waits until no other reads.
CanCommit(c) ==
    open[c] = NoTransaction \/ \A other \in Connections \ {c} : left[other] # "reading"

\* Outside of a transaction a read gives its lock back; a transaction keeps it.
Reads(c) == left' = [left EXCEPT ![c] = IF @ = "begun" THEN "reading" ELSE @]

\* A statement opens the transaction of the connection, if none is.
Executes(p, rows, writers) ==
    LET c == Connection(p)
    IN  /\ open' = [open EXCEPT ![c] = rows]
        /\ left' = [left EXCEPT ![c] = IF @ = "pending" THEN @ ELSE "none"]
        /\ unsaved' = [unsaved EXCEPT ![c] = @ \cup writers]

Ends(c) ==
    /\ open' = [open EXCEPT ![c] = NoTransaction]
    /\ left' = [left EXCEPT ![c] = "none"]
    /\ unsaved' = [unsaved EXCEPT ![c] = {}]

\* An error other than a refused value: "with connection" rolls back, while the
\* asynchronous writing() leaves the transaction as it is.
Fails(c, state) ==
    IF deployment.shared
    THEN left' = [left EXCEPT ![c] = state] /\ UNCHANGED <<open, unsaved>>
    ELSE Ends(c)

\* Committing saves what any request wrote in the transaction.
Commits(p) ==
    LET c == Connection(p)
    IN  /\ table' = View(c)
        /\ applied' = applied \cup unsaved[c]
        /\ Ends(c)

-----------------------------------------------------------------------------
(***************************************************************************)
(* The rows.                                                               *)
(***************************************************************************)

\* What a row keeps of a resource: all of it, or what the library has columns for.
RowOf(d) ==
    [a \in Attrs |->
        IF ~deployment.library THEN d[a]
        ELSE IF a \notin Columns THEN Missing
        ELSE IF d[a] = Missing THEN Default[a] ELSE d[a]]

\* Mutant: an update keeps the version of the row.
FirstAndSameVersion(r) ==
    IF deployment.library THEN clock ELSE IF r = NoResource THEN 1 ELSE r.version

\* The version a write gives: the time of the write, or one more than before.
NextVersion(r) ==
    IF deployment.library THEN clock ELSE IF r = NoResource THEN 1 ELSE r.version + 1

\* The identifiers a creation may give: the one after the greatest for a row of
\* the library, which a deletion sets free again; a new one otherwise.
NewIds(rows, t) ==
    LET taken == {i \in Ids : rows[<<t, i>>] # NoResource}
    IN  IF deployment.library
        THEN {i \in Ids : (\A j \in taken : j < i)
                              /\ (i = 1 \/ i - 1 \in taken)}
        ELSE {i \in Ids : <<t, i>> \notin used}

\* Mutant: the row is written whatever its version is.
RowIsThere(r, version) == r # NoResource

\* Mutant: the version is compared once it was incremented.
RowWillMatch(r, version) == r # NoResource /\ r.version + 1 = version

\* "WHERE id = ? AND version = ?"
RowMatches(r, version) == r # NoResource /\ r.version = version

\* A UNIQUE column compares the rows of one resource type.
Taken(rows, k, d) ==
    Clashes([other \in Keys |-> IF other[1] = k[1] THEN rows[other] ELSE NoResource], k, d)

-----------------------------------------------------------------------------
(***************************************************************************)
(* The steps of a request.                                                 *)
(***************************************************************************)

\* get, then the checks of the service and the change, on a copy.
Read(p) ==
    LET r == View(Connection(p))[job[p].key]
    IN  /\ pc[p] = "received" /\ job[p].op # "post"
        /\ CanRead(Connection(p)) /\ Reads(Connection(p))
        /\ current' = [current EXCEPT ![p] = r]
        /\ \/ /\ Writes(job[p], r)
              /\ Goto(p, "writing") /\ UNCHANGED <<answer, given>>
           \/ /\ ~Writes(job[p], r)
              /\ Settles(p, ReadAnswer(job[p], r).status, ReadAnswer(job[p], r).resource)
        /\ UNCHANGED <<deployment, table, open, unsaved, applied, used, clock, job, key,
                       crashes>>

\* Another connection waits to commit for longer than the five seconds a statement
\* waits: the request is answered a 500, before its statement or after it.
LockedRead(p) ==
    /\ \/ pc[p] = "received" /\ job[p].op # "post" /\ Settles(p, "locked", NoResource)
       \/ pc[p] \in {"committed", "explain"} /\ Settles(p, "failed", NoResource)
    /\ ~CanRead(Connection(p))
    /\ UNCHANGED <<deployment, table, open, left, unsaved, applied, used, clock, job, key,
                   current, crashes>>

\* Mutant: a PATCH stores the attributes it names, and no other.
StoreRequested(p, k, d, old) ==
    LET row == [data |-> job[p].data, version |-> NextVersion(old)]
    IN  /\ Executes(p, [View(Connection(p)) EXCEPT ![k] = row], {p})
        /\ Goto(p, "wrote")

\* A statement that a UNIQUE column refuses writes nothing, in the transaction.
Store(p, k, d, old) ==
    LET rows == View(Connection(p))
        row == [data |-> RowOf(d), version |-> NextVersion(old)]
    IN  \/ /\ Taken(rows, k, row.data)
           /\ Executes(p, rows, {}) /\ Goto(p, "refused")
        \/ /\ ~Taken(rows, k, row.data)
           /\ Executes(p, [rows EXCEPT ![k] = row], {p})
           /\ Goto(p, "wrote")

\* INSERT, with a new identifier.
Insert(p) ==
    /\ pc[p] = "received" /\ job[p].op = "post"
    /\ Free(Connection(p))
    /\ \E i \in NewIds(View(Connection(p)), job[p].key[1]) :
          LET k == <<job[p].key[1], i>>
          IN  /\ Store(p, k, job[p].data, NoResource)
              /\ key' = [key EXCEPT ![p] = k]
              /\ used' = used \cup {k}
    /\ clock' = clock + 1
    /\ UNCHANGED <<deployment, table, applied, job, current, answer, given, crashes>>

\* Mutant: the statement runs, and the version is compared afterwards.
WriteThenCheck(p) ==
    LET rows == View(Connection(p))
        r == rows[key[p]]
        row == [data |-> RowOf(NewData(job[p], current[p].data)), version |-> NextVersion(r)]
    IN  /\ pc[p] = "writing" /\ r # NoResource
        /\ Free(Connection(p))
        /\ Executes(p, [rows EXCEPT ![key[p]] = IF job[p].op = "delete" THEN NoResource ELSE row],
                    {p})
        /\ Goto(p, IF RowMatches(r, current[p].version) THEN "wrote" ELSE "missed")
        /\ clock' = clock + 1
        /\ UNCHANGED <<deployment, table, applied, used, job, key, current, answer,
                       given, crashes>>

\* UPDATE or DELETE the row, in the version the request read.
Write(p) ==
    LET rows == View(Connection(p))
        r == rows[key[p]]
        hits == RowMatches(r, current[p].version)
    IN  /\ pc[p] = "writing"
        /\ Free(Connection(p))
        /\ \/ ~hits /\ Executes(p, rows, {}) /\ Goto(p, "missed")
           \/ /\ hits /\ job[p].op = "delete"
              /\ Executes(p, [rows EXCEPT ![key[p]] = NoResource], {p})
              /\ Goto(p, "wrote")
           \/ /\ hits /\ job[p].op # "delete"
              /\ Store(p, key[p], NewData(job[p], current[p].data), r)
        /\ clock' = clock + 1
        /\ UNCHANGED <<deployment, table, applied, used, job, key, current, answer,
                       given, crashes>>

\* Another connection writes for those five seconds: the driver began a transaction
\* and its statement fails, "database is locked".
Locked(p) ==
    LET c == Connection(p)
    IN  /\ pc[p] = (IF job[p].op = "post" THEN "received" ELSE "writing")
        /\ ~Free(c)
        /\ Fails(c, IF left[c] = "none" THEN "begun" ELSE left[c])
        /\ Settles(p, "locked", NoResource)
        /\ UNCHANGED <<deployment, table, applied, used, clock, job, key, current, crashes>>

\* Mutant: the storage explains a failure inside of writing(), without committing.
CommitWritten(p) ==
    /\ \/ /\ pc[p] = "missed" /\ Goto(p, "explain")
          /\ UNCHANGED <<table, open, left, unsaved, applied>>
       \/ pc[p] = "wrote" /\ Goto(p, "committed") /\ Commits(p)
    /\ given' = given \cup Rows(table')
    /\ UNCHANGED <<deployment, used, clock, job, key, current, answer, crashes>>

\* The end of writing().  A DELETE has no row to read again.
Commit(p) ==
    /\ pc[p] \in {"wrote", "missed"}
    /\ CanCommit(Connection(p)) /\ Commits(p)
    /\ \/ pc[p] = "missed" /\ Goto(p, "explain") /\ UNCHANGED answer
       \/ pc[p] = "wrote" /\ job[p].op # "delete" /\ Goto(p, "committed") /\ UNCHANGED answer
       \/ /\ pc[p] = "wrote" /\ job[p].op = "delete"
          /\ answer' = [answer EXCEPT ![p] = Answer("ok", NoResource)]
          /\ Goto(p, "answered")
    /\ given' = given \cup Rows(table')
    /\ UNCHANGED <<deployment, used, clock, job, key, current, crashes>>

\* Another connection reads for five seconds, in a transaction that was left open: the
\* commit fails, and goes on waiting for that reader.
CommitLocked(p) ==
    LET c == Connection(p)
    IN  /\ pc[p] \in {"wrote", "missed"}
        /\ ~CanCommit(c)
        /\ Fails(c, "pending")
        /\ Settles(p, "failed", NoResource)
        /\ UNCHANGED <<deployment, table, applied, used, clock, job, key, current, crashes>>

\* "except sqlite3.IntegrityError": the whole transaction is undone.
Rollback(p) ==
    /\ pc[p] = "refused"
    /\ Ends(Connection(p))
    /\ Settles(p, "uniqueness", NoResource)
    /\ UNCHANGED <<deployment, table, applied, used, clock, job, key, current, crashes>>

\* The resource the storage returns is the row as it is now.
Reread(p) ==
    LET r == View(Connection(p))[key[p]]
    IN  /\ pc[p] = "committed"
        /\ CanRead(Connection(p)) /\ Reads(Connection(p))
        /\ Settles(p, IF r = NoResource THEN "notFound" ELSE "ok", r)
        /\ UNCHANGED <<deployment, table, open, unsaved, applied, used, clock, job, key,
                       current, crashes>>

\* "if cursor.rowcount == 0": the row is gone, or has another version.
Explain(p) ==
    /\ pc[p] = "explain"
    /\ CanRead(Connection(p)) /\ Reads(Connection(p))
    /\ Settles(p, IF View(Connection(p))[key[p]] = NoResource
                  THEN "notFound" ELSE "preconditionFailed", NoResource)
    /\ UNCHANGED <<deployment, table, open, unsaved, applied, used, clock, job, key,
                   current, crashes>>

\* The server cancels a coroutine while it awaits the database.
Cancel(p) ==
    /\ deployment.shared /\ pc[p] # "answered" /\ crashes < MaxCrashes
    /\ Settles(p, "lost", NoResource)
    /\ crashes' = crashes + 1
    /\ UNCHANGED <<deployment, table, open, left, unsaved, applied, used, clock, job, key,
                   current>>

\* A process stops: the database undoes its transaction, its clients have no answer.
Crash(c) ==
    LET victims == {p \in Requests : Connection(p) = c /\ pc[p] # "answered"}
    IN  /\ crashes < MaxCrashes
        /\ victims # {} \/ open[c] # NoTransaction \/ left[c] # "none"
        /\ Ends(c)
        /\ answer' = [p \in Requests |->
                          IF p \in victims THEN Answer("lost", NoResource) ELSE answer[p]]
        /\ pc' = [p \in Requests |-> IF p \in victims THEN "answered" ELSE pc[p]]
        /\ crashes' = crashes + 1
        /\ UNCHANGED <<deployment, table, applied, used, clock, job, key, current, given>>

Step(p) ==
    \/ Read(p) \/ Insert(p) \/ Write(p) \/ Commit(p) \/ Rollback(p)
    \/ Reread(p) \/ Explain(p)
    \/ LockedRead(p) \/ Locked(p) \/ CommitLocked(p) \/ Cancel(p)

Answered == \A p \in Requests : pc[p] = "answered"

Done == Answered /\ UNCHANGED vars

Next ==
    \/ \E p \in Requests : Step(p)
    \/ \E c \in Connections : Crash(c)
    \/ Done

Spec == Init /\ [][Next]_vars
-----------------------------------------------------------------------------
(***************************************************************************)
(* Properties.                                                             *)
(***************************************************************************)

Labels == {"received", "writing", "wrote", "missed", "refused", "committed", "explain",
           "answered"}

Statuses == {"none", "ok", "notModified", "invalid", "mutability", "notFound",
             "preconditionFailed", "uniqueness", "locked", "failed", "lost"}

Leftovers == {"none", "begun", "reading", "pending"}

\* Each connection has at most the rows of one transaction, and a request that
\* writes read the row it changes.
TypeOK ==
    /\ deployment \in Deployments
    /\ table \in Tables
    /\ open \in [Connections -> Tables \cup {NoTransaction}]
    /\ left \in [Connections -> Leftovers]
    /\ unsaved \in [Connections -> SUBSET Requests]
    /\ applied \subseteq Requests
    /\ used \subseteq Keys
    /\ clock \in Nat /\ crashes \in Nat
    /\ pc \in [Requests -> Labels]
    /\ job \in [Requests -> Jobs]
    /\ key \in [Requests -> Keys \cup {NoKey}]
    /\ current \in [Requests -> Resource \cup {NoResource}]
    /\ answer \in [Requests -> [status : Statuses, resource : Resource \cup {NoResource}]]
    /\ given \subseteq [key : Keys, row : Resource]

\* A request that had something to write.
Wrote(p) == job[p].op = "post" \/ Writes(job[p], current[p])

\* A request that wrote a row, and said so.
Acknowledged(p) == answer[p].status = "ok" /\ Wrote(p)

\* The storages commit each write (write-a-storage.rst, "The example commits each
\* write"): a client that got its answer finds its write in the database.
AcknowledgedIsApplied == \A p \in Requests : Acknowledged(p) => p \in applied

\* Another request on the connection of p was refused for a unique value.
RolledBack(p) ==
    /\ deployment.shared
    /\ \E q \in Requests \ {p} : Connection(q) = Connection(p) /\ answer[q].status = "uniqueness"

\* A write that was answered is in the database, unless another request on the
\* same connection was refused for a unique value: "rollback()" undoes what any
\* coroutine executed.
AcknowledgedUnlessRolledBack ==
    \A p \in Requests : Acknowledged(p) /\ p \notin applied => RolledBack(p)

\* A coroutine of connection c failed on its way through writing().
Interrupted(c) ==
    /\ deployment.shared
    /\ \E p \in Requests : Connection(p) = c /\ answer[p].status \in {"locked", "failed", "lost"}

\* Once its requests are answered, a connection holds no transaction, whose lock would
\* keep every other writer out: "with connection" ends it on every path.  The
\* asynchronous writing() does so too, unless one of its coroutines met a lock or was
\* cancelled.
TransactionsEnd ==
    \A c \in Connections :
        (\A p \in Requests : Connection(p) = c => pc[p] \in {"received", "answered"}) =>
            (open[c] = NoTransaction /\ left[c] = "none") \/ Interrupted(c)

\* Every process reaches the same database: "the processes then serve the same
\* resources" (write-a-storage.rst).
ServeTheSame == Answered => \A c \in Connections : View(c) = table

Refusals == {"notModified", "invalid", "mutability", "preconditionFailed", "uniqueness", "locked"}

\* A request that is refused writes nothing, now or later: no commit, of its own or
\* of another request on its connection, finds a statement of it to save.  A request
\* that failed or was lost after its statement is no refusal: its client knows nothing.
RefusedWritesNothing ==
    \A p \in Requests :
        answer[p].status \in Refusals =>
            p \notin applied /\ \A c \in Connections : p \notin unsaved[c]

\* The answer to a write tells whether it is in the database, but for a rollback on
\* a shared connection.
AnswersTellWrites == AcknowledgedUnlessRolledBack /\ RefusedWritesNothing

\* With a connection for each process, a key and a version mean one content, ever:
\* neither the clock nor the counter gives a version again, though a row of the
\* library takes the identifier of a deleted one ("It must change on every write").
EtagMeansContent ==
    ~deployment.shared =>
        \A x, y \in given : x.key = y.key /\ x.row.version = y.row.version => x = y

\* With a connection for each process, a write that found nothing to write, or
\* that no longer finds its row, was overtaken by the write of another request: a
\* deletion, if its client is told that the resource is gone.
FailuresExplained ==
    ~deployment.shared =>
        \A p \in Requests :
            answer[p].status \in {"notFound", "preconditionFailed"} /\ Wrote(p) =>
                \E q \in applied \ {p} :
                    key[q] = key[p] /\ (answer[p].status = "notFound" => job[q].op = "delete")

\* With a connection for each process, a PATCH changes nothing but the attributes
\* it names, whoever else wrote the row since it read it (storage.rst, "Lost
\* updates").
NoLostUpdate ==
    [][\A k \in Keys :
          table[k] # NoResource /\ table'[k] \notin {table[k], NoResource} /\ ~deployment.shared =>
              \E p \in Requests :
                  /\ key[p] = k /\ p \in applied' \ applied
                  /\ \A a \in Attrs \ DOMAIN job[p].data :
                         table'[k].data[a] = table[k].data[a]]_vars

\* Rows u are what job j on row k, served alone and at once, makes of rows t.
Applies(j, k, t, u) ==
    LET d == IF j.op = "post" THEN j.data ELSE NewData(j, t[k].data)
    IN  /\ IF j.op = "post" THEN t[k] = NoResource ELSE Writes(j, t[k])
        /\ \/ /\ j.op = "delete"
              /\ u = [t EXCEPT ![k] = NoResource]
           \/ /\ j.op # "delete"
              /\ ~Taken(t, k, RowOf(d)) /\ u[k] # NoResource
              /\ u = [t EXCEPT ![k] = [data |-> RowOf(d), version |-> u[k].version]]

\* With a connection for each process, requests take effect one at a time, when they
\* commit: the conditions and the changes each one computed from the row it read, and
\* the unique values it was checked against, are those of the rows it then replaces.
ServedAtCommit ==
    [][~deployment.shared =>
          \/ UNCHANGED <<table, applied>>
          \/ \E p \in Requests \ applied :
                 applied' = applied \cup {p} /\ Applies(job[p], key[p], table, table')]_vars
=============================================================================
