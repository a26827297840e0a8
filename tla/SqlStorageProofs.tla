-------------------------- MODULE SqlStorageProofs --------------------------
(***************************************************************************)
(* What the storages over SQLite promise, for every number of requests and *)
(* of crashes, whatever the tables hold: only a lock or a cancellation on  *)
(* a shared connection leaves a transaction open, only a rollback there    *)
(* undoes an answered write, and with a connection for each process every  *)
(* process serves the same rows, no update is lost, an entity tag stands   *)
(* for one content, and every failure has a cause.                         *)
(***************************************************************************)
EXTENDS SqlStorage, TLAPS

(***************************************************************************)
(* The inductive invariant, for every deployment.                          *)
(***************************************************************************)

\* The labels of a request whose statement was executed and not yet ended.
Executed == {"wrote", "missed", "refused"}

\* A request that writes is a creation, or read the row it writes.
Started ==
    \A p \in Requests :
        /\ pc[p] # "answered" => answer[p] = NoAnswer
        /\ job[p].op # "post" \/ pc[p] \notin {"received", "answered"} => key[p] \in Keys
        /\ job[p].op # "post" => key[p] = job[p].key
        /\ pc[p] \notin {"received", "answered"} => Wrote(p)
        /\ pc[p] \in {"writing", "missed", "explain"} => job[p].op # "post"

\* A request of connection c executed a statement, and will end its transaction.
InTransaction(c) == \E p \in Requests : Connection(p) = c /\ pc[p] \in Executed

\* Only one transaction has rows.  It belongs to a request that executed a statement,
\* or to a coroutine that was interrupted, which alone leaves something behind.
OpenForWriters ==
    /\ \A c \in Connections :
           /\ open[c] # NoTransaction => InTransaction(c) \/ Interrupted(c)
           /\ left[c] # "none" => Interrupted(c)
    /\ \A c, d \in Connections :
           open[c] # NoTransaction /\ open[d] # NoTransaction => c = d

\* A write is in the transaction of its connection, or committed, or undone.
Saved ==
    \A p \in Requests :
        /\ pc[p] = "wrote" => p \in unsaved[Connection(p)] \cup applied \/ RolledBack(p)
        /\ pc[p] = "committed" \/ Acknowledged(p) => p \in applied \/ RolledBack(p)

AnyInv == TypeOK /\ Started /\ OpenForWriters /\ Saved

-----------------------------------------------------------------------------
\* Facts about the data.

\* Each request has a connection.
LEMMA ConnectionType ==
    ASSUME TypeOK
    PROVE  \A p \in Requests : Connection(p) \in Connections
BY SqlAssumption DEF Connection, Connections, TypeOK, Deployments

\* The transactions of the connections, and what errors left of them.
TransactionsTyped ==
    /\ open \in [Connections -> Tables \cup {NoTransaction}]
    /\ left \in [Connections -> Leftovers]
    /\ unsaved \in [Connections -> SUBSET Requests]

\* A connection sees rows.
LEMMA ViewType ==
    ASSUME TypeOK, NEW c \in Connections
    PROVE  View(c) \in Tables
BY DEF TypeOK, View

\* The rows a write stores are resources.
LEMMA RowType ==
    ASSUME TypeOK, NEW d \in [Attrs -> Values \cup {Missing}], NEW old \in Resource \cup {NoResource}
    PROVE  [data |-> RowOf(d), version |-> NextVersion(old)] \in Resource
<1>1. RowOf(d) \in [Attrs -> Values \cup {Missing}]
    BY SqlAssumption DEF RowOf
<1>2. NextVersion(old) \in Nat
    BY DEF NextVersion, Resource, TypeOK
<1> QED
    BY <1>1, <1>2 DEF Resource

\* So is what a job makes of the resource it read.
LEMMA NewDataType ==
    ASSUME NEW j \in Jobs, NEW d \in [Attrs -> Values \cup {Missing}]
    PROVE  NewData(j, d) \in [Attrs -> Values \cup {Missing}]
BY JobsAssumption DEF Job, NewData

\* A job is about a row, and a creation has the data of one.
LEMMA JobType ==
    ASSUME NEW j \in Jobs
    PROVE  /\ j.key \in Keys
           /\ j.op = "post" => j.data \in [Attrs -> Values \cup {Missing}]
BY JobsAssumption DEF Job, Data

\* A request that writes nothing is told why, or what it read.
LEMMA ReadAnswerType ==
    ASSUME NEW j, NEW r \in Resource \cup {NoResource}
    PROVE  /\ ReadAnswer(j, r).status \in Statuses \cup {"write"}
           /\ ~Writes(j, r) => ReadAnswer(j, r).status \in Statuses
           /\ ReadAnswer(j, r).status \in Statuses \ {"none"} \/ Writes(j, r)
           /\ ReadAnswer(j, r).resource \in {r, NoResource}
BY DEF ReadAnswer, Answer, Verdict, Statuses, Writes

\* The rows of a table are resources under keys.
LEMMA RowsType ==
    ASSUME NEW t \in Tables
    PROVE  Rows(t) \subseteq [key : Keys, row : Resource]
BY DEF Rows, Tables

\* What the answer to a request leaves typed.
LEMMA SettlesType ==
    ASSUME TypeOK, NEW p \in Requests, NEW s \in Statuses, NEW r \in Resource \cup {NoResource},
           r # NoResource => key[p] \in Keys,
           Settles(p, s, r)
    PROVE  /\ answer' \in [Requests -> [status : Statuses, resource : Resource \cup {NoResource}]]
           /\ given' \subseteq [key : Keys, row : Resource]
           /\ pc' \in [Requests -> Labels]
BY DEF TypeOK, Settles, Goto, Answer, Labels

\* What a statement leaves typed.
LEMMA ExecutesType ==
    ASSUME TypeOK, NEW p \in Requests, NEW t \in Tables, NEW w \in SUBSET Requests,
           Executes(p, t, w)
    PROVE  TransactionsTyped'
<1>1. open' \in [Connections -> Tables \cup {NoTransaction}]
    BY ConnectionType DEF TypeOK, Executes
<1>2. left' \in [Connections -> Leftovers]
    BY ConnectionType DEF TypeOK, Executes, Leftovers
<1>3. unsaved' \in [Connections -> SUBSET Requests]
    BY ConnectionType DEF TypeOK, Executes
<1> QED
    BY <1>1, <1>2, <1>3 DEF TransactionsTyped

\* What the end of a transaction, an error and a read leave typed.
LEMMA EndsType ==
    ASSUME TypeOK, NEW c \in Connections, Ends(c)
    PROVE  TransactionsTyped'
BY DEF TypeOK, Ends, TransactionsTyped, Leftovers

LEMMA FailsType ==
    ASSUME TypeOK, NEW c \in Connections, NEW state \in Leftovers, Fails(c, state)
    PROVE  TransactionsTyped'
<1>1. CASE deployment.shared
    BY <1>1 DEF TypeOK, Fails, TransactionsTyped
<1>2. CASE ~deployment.shared
    BY <1>2, EndsType DEF Fails
<1> QED
    BY <1>1, <1>2

LEMMA ReadsType ==
    ASSUME TypeOK, NEW c \in Connections, Reads(c)
    PROVE  left' \in [Connections -> Leftovers]
BY DEF TypeOK, Reads, Leftovers

\* What an insertion or an update leaves typed, refused or not.
LEMMA StoreType ==
    ASSUME TypeOK, NEW p \in Requests, NEW k \in Keys, NEW d \in [Attrs -> Values \cup {Missing}],
           NEW old \in Resource \cup {NoResource}, Store(p, k, d, old)
    PROVE  TransactionsTyped' /\ pc' \in [Requests -> Labels]
<1>1. View(Connection(p)) \in Tables
    BY ViewType, ConnectionType
<1>2. [View(Connection(p)) EXCEPT ![k] = [data |-> RowOf(d), version |-> NextVersion(old)]] \in Tables
    BY <1>1, RowType DEF Tables
<1>3. pc' \in [Requests -> Labels]
    BY DEF Store, Goto, TypeOK, Labels
<1> QED
    BY <1>1, <1>2, <1>3, ExecutesType DEF Store

-----------------------------------------------------------------------------
\* Each part of the invariant is kept by each action.

\* A server starts with one of the scenarios.
LEMMA ScenarioType ==
    Init => deployment \in Deployments /\ job \in [Requests -> Jobs] /\ table \in Contents
BY SqlAssumption DEF Init

\* A server that starts satisfies the invariant.
LEMMA InvAtStart == Init => AnyInv
<1> SUFFICES ASSUME Init PROVE AnyInv
    OBVIOUS
<1> USE DEF Init
<1>1. \A p \in Requests : job[p] \in Jobs
    BY ScenarioType
<1>2. TypeOK
    <2>1. table \in Tables
        BY ScenarioType, SqlAssumption
    <2>2. given \subseteq [key : Keys, row : Resource]
        BY <2>1, RowsType
    <2>3. key \in [Requests -> Keys \cup {NoKey}]
        BY <1>1, JobType
    <2>4. answer \in [Requests -> [status : Statuses, resource : Resource \cup {NoResource}]]
        BY DEF NoAnswer, Answer, Statuses
    <2> QED
        BY <2>1, <2>2, <2>3, <2>4, ScenarioType, SqlAssumption DEF TypeOK, Labels, Leftovers
<1>3. Started
    BY <1>1, JobType, SqlAssumption DEF Started
<1>4. OpenForWriters
    BY DEF OpenForWriters
<1>5. Saved
    BY DEF Saved, Acknowledged, NoAnswer, Answer
<1> QED
    BY <1>2, <1>3, <1>4, <1>5 DEF AnyInv

\* What each variable holds stays of its kind.
LEMMA TypesKept == TypeOK /\ Started /\ [Next]_vars => TypeOK'
<1> SUFFICES ASSUME TypeOK, Started, [Next]_vars PROVE TypeOK'
    OBVIOUS
<1>a. \A c \in Connections : View(c) \in Tables
    BY ViewType
<1>b. \A p \in Requests : Connection(p) \in Connections
    BY ConnectionType
<1>1. ASSUME NEW p \in Requests, Read(p) PROVE TypeOK'
    <2> DEFINE r == View(Connection(p))[job[p].key]
    <2>1. r \in Resource \cup {NoResource} /\ job[p] \in Jobs /\ key[p] \in Keys
        BY <1>1, <1>a, <1>b, JobType DEF Read, Tables, TypeOK, Started
    <2>2. /\ answer' \in [Requests -> [status : Statuses, resource : Resource \cup {NoResource}]]
          /\ given' \subseteq [key : Keys, row : Resource]
          /\ pc' \in [Requests -> Labels]
        <3>1. CASE Writes(job[p], r)
            BY <1>1, <3>1 DEF Read, TypeOK, Goto, Labels
        <3>2. CASE ~Writes(job[p], r)
            BY <1>1, <2>1, <3>2, ReadAnswerType, SettlesType DEF Read
        <3> QED
            BY <3>1, <3>2
    <2>3. current' \in [Requests -> Resource \cup {NoResource}]
        BY <1>1, <2>1 DEF Read, TypeOK
    <2>4. left' \in [Connections -> Leftovers]
        BY <1>1, <1>b, ReadsType DEF Read
    <2> QED
        BY <1>1, <2>2, <2>3, <2>4 DEF Read, TypeOK
<1>2. ASSUME NEW p \in Requests, Insert(p) PROVE TypeOK'
    <2>1. PICK i \in NewIds(View(Connection(p)), job[p].key[1]) :
              /\ Store(p, <<job[p].key[1], i>>, job[p].data, NoResource)
              /\ key' = [key EXCEPT ![p] = <<job[p].key[1], i>>]
              /\ used' = used \cup {<<job[p].key[1], i>>}
        BY <1>2 DEF Insert
    <2>2. <<job[p].key[1], i>> \in Keys
        BY JobType DEF TypeOK, Keys, NewIds
    <2>3. job[p].data \in [Attrs -> Values \cup {Missing}]
        BY <1>2, JobType DEF TypeOK, Insert
    <2>4. TransactionsTyped' /\ pc' \in [Requests -> Labels]
        BY <2>1, <2>2, <2>3, StoreType
    <2>5. key' \in [Requests -> Keys \cup {NoKey}] /\ used' \subseteq Keys
        BY <2>1, <2>2 DEF TypeOK
    <2> QED
        BY <1>2, <2>4, <2>5 DEF Insert, TypeOK, TransactionsTyped
<1>3. ASSUME NEW p \in Requests, Write(p) PROVE TypeOK'
    <2> DEFINE rows == View(Connection(p))
    <2>1. /\ rows \in Tables /\ key[p] \in Keys /\ rows[key[p]] \in Resource \cup {NoResource}
          /\ current[p] \in Resource /\ job[p] \in Jobs
        BY <1>3, <1>a, <1>b DEF Write, TypeOK, Started, Tables, Wrote, Writes
    <2>2. TransactionsTyped' /\ pc' \in [Requests -> Labels]
        <3>1. CASE Executes(p, rows, {}) /\ Goto(p, "missed")
            BY <2>1, <3>1, ExecutesType DEF Goto, TypeOK, Labels
        <3>2. CASE /\ Executes(p, [rows EXCEPT ![key[p]] = NoResource], {p})
                   /\ Goto(p, "wrote")
            <4>1. [rows EXCEPT ![key[p]] = NoResource] \in Tables
                BY <2>1 DEF Tables
            <4> QED
                BY <3>2, <4>1, ExecutesType DEF Goto, TypeOK, Labels
        <3>3. CASE Store(p, key[p], NewData(job[p], current[p].data), rows[key[p]])
            <4>1. NewData(job[p], current[p].data) \in [Attrs -> Values \cup {Missing}]
                BY <2>1, NewDataType DEF Resource
            <4> QED
                BY <2>1, <3>3, <4>1, StoreType
        <3> QED
            BY <1>3, <3>1, <3>2, <3>3 DEF Write
    <2> QED
        BY <1>3, <2>2 DEF Write, TypeOK, TransactionsTyped
<1>4. ASSUME NEW p \in Requests, Locked(p) PROVE TypeOK'
    <2>1. "locked" \in Statuses
        BY DEF Statuses
    <2>2. \E state \in Leftovers : Fails(Connection(p), state)
        <3>1. \A c \in Connections : left[c] \in Leftovers
            BY DEF TypeOK
        <3> QED
            BY <1>4, <1>b, <3>1 DEF Locked, Leftovers
    <2>3. TransactionsTyped'
        BY <1>b, <2>2, FailsType
    <2> QED
        BY <1>4, <2>1, <2>3, SettlesType DEF Locked, TypeOK, TransactionsTyped
<1>5. ASSUME NEW p \in Requests, Commit(p) PROVE TypeOK'
    <2>1. table' \in Tables
        BY <1>5, <1>a, <1>b DEF Commit, Commits
    <2>2. given' \subseteq [key : Keys, row : Resource]
        BY <1>5, <2>1, RowsType DEF Commit, TypeOK
    <2>3. /\ answer' \in [Requests -> [status : Statuses, resource : Resource \cup {NoResource}]]
          /\ pc' \in [Requests -> Labels]
        <3>1. Answer("ok", NoResource) \in [status : Statuses, resource : Resource \cup {NoResource}]
            BY DEF Answer, Statuses
        <3>2. {"explain", "committed", "answered"} \subseteq Labels
            BY DEF Labels
        <3>3. PICK l \in {"explain", "committed", "answered"} : pc' = [pc EXCEPT ![p] = l]
            BY <1>5 DEF Commit, Goto
        <3>4. answer' \in {answer, [answer EXCEPT ![p] = Answer("ok", NoResource)]}
            BY <1>5 DEF Commit
        <3> QED
            BY <3>1, <3>2, <3>3, <3>4 DEF TypeOK
    <2>4. TransactionsTyped'
        BY <1>5, <1>b, EndsType DEF Commit, Commits
    <2>5. applied' \subseteq Requests
        BY <1>5, <1>b DEF Commit, Commits, TypeOK
    <2> QED
        BY <1>5, <2>1, <2>2, <2>3, <2>4, <2>5 DEF Commit, TypeOK, TransactionsTyped
<1>6. ASSUME NEW p \in Requests, Rollback(p) PROVE TypeOK'
    <2>1. "uniqueness" \in Statuses
        BY DEF Statuses
    <2>2. TransactionsTyped'
        BY <1>6, <1>b, EndsType DEF Rollback
    <2> QED
        BY <1>6, <2>1, <2>2, SettlesType DEF Rollback, TypeOK, TransactionsTyped
<1>7. ASSUME NEW p \in Requests, Reread(p) PROVE TypeOK'
    <2>1. key[p] \in Keys
        BY <1>7 DEF Reread, Started
    <2>2. View(Connection(p))[key[p]] \in Resource \cup {NoResource}
        BY <1>a, <1>b, <2>1 DEF Tables
    <2>3. "notFound" \in Statuses /\ "ok" \in Statuses
        BY DEF Statuses
    <2>4. left' \in [Connections -> Leftovers]
        BY <1>7, <1>b, ReadsType DEF Reread
    <2> QED
        BY <1>7, <2>1, <2>2, <2>3, <2>4, SettlesType DEF Reread, TypeOK
<1>8. ASSUME NEW p \in Requests, Explain(p) PROVE TypeOK'
    <2>1. "notFound" \in Statuses /\ "preconditionFailed" \in Statuses
        BY DEF Statuses
    <2>2. left' \in [Connections -> Leftovers]
        BY <1>8, <1>b, ReadsType DEF Explain
    <2> QED
        BY <1>8, <2>1, <2>2, SettlesType DEF Explain, TypeOK
<1>9. ASSUME NEW c \in Connections, Crash(c) PROVE TypeOK'
    <2>1. /\ answer' \in [Requests -> [status : Statuses, resource : Resource \cup {NoResource}]]
          /\ pc' \in [Requests -> Labels]
        BY <1>9 DEF Crash, TypeOK, Labels, Answer, Statuses
    <2>2. TransactionsTyped'
        BY <1>9, EndsType DEF Crash
    <2> QED
        BY <1>9, <2>1, <2>2 DEF Crash, TypeOK, TransactionsTyped
<1>10. CASE UNCHANGED vars
    BY <1>10 DEF vars, TypeOK
<1>11. ASSUME NEW p \in Requests, LockedRead(p) PROVE TypeOK'
    <2>1. "locked" \in Statuses /\ "failed" \in Statuses
        BY DEF Statuses
    <2>2. Settles(p, "locked", NoResource) \/ Settles(p, "failed", NoResource)
        BY <1>11 DEF LockedRead
    <2> QED
        BY <1>11, <2>1, <2>2, SettlesType DEF LockedRead, TypeOK
<1>12. ASSUME NEW p \in Requests, CommitLocked(p) PROVE TypeOK'
    <2>1. "failed" \in Statuses /\ "pending" \in Leftovers
        BY DEF Statuses, Leftovers
    <2>2. TransactionsTyped'
        BY <1>12, <1>b, <2>1, FailsType DEF CommitLocked
    <2> QED
        BY <1>12, <2>1, <2>2, SettlesType DEF CommitLocked, TypeOK, TransactionsTyped
<1>13. ASSUME NEW p \in Requests, Cancel(p) PROVE TypeOK'
    <2>1. "lost" \in Statuses
        BY DEF Statuses
    <2> QED
        BY <1>13, <2>1, SettlesType DEF Cancel, TypeOK
<1> QED
    BY <1>1, <1>2, <1>3, <1>4, <1>5, <1>6, <1>7, <1>8, <1>9, <1>10, <1>11, <1>12, <1>13
    DEF Next, Step, Done

\* A step of a request moves no other.
LEMMA OthersUnmoved ==
    ASSUME TypeOK, NEW p \in Requests, Step(p), NEW q \in Requests \ {p}
    PROVE  /\ pc'[q] = pc[q] /\ key'[q] = key[q] /\ current'[q] = current[q]
           /\ answer'[q] = answer[q] /\ job'[q] = job[q]
<1> USE DEF TypeOK, Goto, Settles
<1>1. CASE Read(p)
    BY <1>1 DEF Read
<1>2. CASE Insert(p)
    BY <1>2 DEF Insert, Store
<1>3. CASE Write(p)
    BY <1>3 DEF Write, Store
<1>4. CASE Locked(p)
    BY <1>4 DEF Locked
<1>5. CASE Commit(p)
    BY <1>5 DEF Commit
<1>6. CASE Rollback(p)
    BY <1>6 DEF Rollback
<1>7. CASE Reread(p)
    BY <1>7 DEF Reread
<1>8. CASE Explain(p)
    BY <1>8 DEF Explain
<1>9. CASE LockedRead(p) \/ CommitLocked(p) \/ Cancel(p)
    BY <1>9 DEF LockedRead, CommitLocked, Cancel
<1> QED
    BY <1>1, <1>2, <1>3, <1>4, <1>5, <1>6, <1>7, <1>8, <1>9 DEF Step

\* Where a step of a request takes it.
LEMMA StepMoves ==
    ASSUME TypeOK, NEW p \in Requests
    PROVE  /\ Read(p) => \/ pc'[p] = "writing" /\ answer'[p] = answer[p]
                         \/ pc'[p] = "answered"
           /\ Insert(p) => pc'[p] \in {"wrote", "refused"} /\ answer'[p] = answer[p]
           /\ Write(p) => pc'[p] \in Executed /\ answer'[p] = answer[p]
           /\ Commit(p) => \/ pc[p] = "missed" /\ pc'[p] = "explain" /\ answer'[p] = answer[p]
                           \/ pc[p] = "wrote" /\ pc'[p] = "committed" /\ answer'[p] = answer[p]
                           \/ /\ pc[p] = "wrote" /\ pc'[p] = "answered"
                              /\ answer'[p] = Answer("ok", NoResource)
           /\ Locked(p) => pc'[p] = "answered" /\ answer'[p].status = "locked"
           /\ Rollback(p) => pc'[p] = "answered" /\ answer'[p].status = "uniqueness"
           /\ Reread(p) => pc'[p] = "answered"
           /\ Explain(p) => /\ pc'[p] = "answered"
                            /\ answer'[p].status \in {"notFound", "preconditionFailed"}
           /\ LockedRead(p) => /\ pc'[p] = "answered"
                               /\ answer'[p].status =
                                      (IF pc[p] = "received" THEN "locked" ELSE "failed")
           /\ CommitLocked(p) => pc'[p] = "answered" /\ answer'[p].status = "failed"
           /\ Cancel(p) => pc'[p] = "answered" /\ answer'[p].status = "lost"
<1> USE DEF TypeOK, Goto, Settles, Answer
<1>1. Read(p) => \/ pc'[p] = "writing" /\ answer'[p] = answer[p]
                 \/ pc'[p] = "answered"
    BY DEF Read
<1>2. Insert(p) => pc'[p] \in {"wrote", "refused"} /\ answer'[p] = answer[p]
    BY DEF Insert, Store
<1>3. Write(p) => pc'[p] \in Executed /\ answer'[p] = answer[p]
    BY DEF Write, Store, Executed
<1>4. Commit(p) => \/ pc[p] = "missed" /\ pc'[p] = "explain" /\ answer'[p] = answer[p]
                   \/ pc[p] = "wrote" /\ pc'[p] = "committed" /\ answer'[p] = answer[p]
                   \/ /\ pc[p] = "wrote" /\ pc'[p] = "answered"
                      /\ answer'[p] = Answer("ok", NoResource)
    BY DEF Commit
<1>5. Locked(p) => pc'[p] = "answered" /\ answer'[p].status = "locked"
    BY DEF Locked
<1>6. Rollback(p) => pc'[p] = "answered" /\ answer'[p].status = "uniqueness"
    BY DEF Rollback
<1>7. Reread(p) => pc'[p] = "answered"
    BY DEF Reread
<1>8. Explain(p) => /\ pc'[p] = "answered"
                    /\ answer'[p].status \in {"notFound", "preconditionFailed"}
    BY DEF Explain
<1>9. LockedRead(p) => /\ pc'[p] = "answered"
                       /\ answer'[p].status = (IF pc[p] = "received" THEN "locked" ELSE "failed")
    BY DEF LockedRead
<1>10. CommitLocked(p) => pc'[p] = "answered" /\ answer'[p].status = "failed"
    BY DEF CommitLocked
<1>11. Cancel(p) => pc'[p] = "answered" /\ answer'[p].status = "lost"
    BY DEF Cancel
<1> QED
    BY <1>1, <1>2, <1>3, <1>4, <1>5, <1>6, <1>7, <1>8, <1>9, <1>10, <1>11

\* Only a creation, or a request that read its row, writes.
LEMMA StartedKept == TypeOK /\ Started /\ [Next]_vars => Started'
<1> SUFFICES ASSUME TypeOK, Started, [Next]_vars PROVE Started'
    OBVIOUS
<1> DEFINE Begun(p) ==
        /\ pc[p] # "answered" => answer[p] = NoAnswer
        /\ job[p].op # "post" \/ pc[p] \notin {"received", "answered"} => key[p] \in Keys
        /\ job[p].op # "post" => key[p] = job[p].key
        /\ pc[p] \notin {"received", "answered"} => Wrote(p)
        /\ pc[p] \in {"writing", "missed", "explain"} => job[p].op # "post"
<1>1. ASSUME NEW p \in Requests, Step(p) PROVE Started'
    <2>1. ASSUME NEW q \in Requests \ {p} PROVE Begun(q)'
        BY <1>1, OthersUnmoved DEF Started, Wrote
    <2>2. Begun(p)'
        <3>1. CASE Read(p)
            <4>1. current'[p] = View(Connection(p))[job[p].key] /\ key'[p] = key[p] /\ job' = job
                BY <3>1 DEF Read, TypeOK
            <4>2. pc'[p] = "writing" => Writes(job[p], current'[p]) /\ answer'[p] = answer[p]
                BY <3>1, <4>1 DEF Read, TypeOK, Goto, Settles
            <4> QED
                BY <3>1, <4>1, <4>2, StepMoves DEF Started, Read, Wrote
        <3>2. CASE Insert(p)
            <4>1. key'[p] \in Keys
                BY <3>2, JobType DEF Insert, TypeOK, Keys, NewIds
            <4> QED
                BY <3>2, <4>1, StepMoves DEF Insert, Started, Wrote
        <3>3. CASE Write(p)
            <4>1. /\ job[p].op # "post" /\ key'[p] = key[p] /\ job' = job
                  /\ current' = current /\ pc[p] = "writing"
                BY <3>3 DEF Write, Started
            <4> QED
                BY <3>3, <4>1, StepMoves DEF Started, Wrote, Executed
        <3>4. CASE Locked(p)
            BY <3>4, StepMoves DEF Locked, Started
        <3>5. CASE Commit(p)
            BY <3>5, StepMoves DEF Commit, Started, Wrote
        <3>6. CASE Rollback(p)
            BY <3>6, StepMoves DEF Rollback, Started
        <3>7. CASE Reread(p)
            BY <3>7, StepMoves DEF Reread, Started
        <3>8. CASE Explain(p)
            BY <3>8, StepMoves DEF Explain, Started
        <3>9. CASE LockedRead(p) \/ CommitLocked(p) \/ Cancel(p)
            BY <3>9, StepMoves DEF LockedRead, CommitLocked, Cancel, Started
        <3> QED
            BY <1>1, <3>1, <3>2, <3>3, <3>4, <3>5, <3>6, <3>7, <3>8, <3>9 DEF Step
    <2> QED
        BY <2>1, <2>2 DEF Started
<1>2. ASSUME NEW c \in Connections, Crash(c) PROVE Started'
    BY <1>2 DEF Crash, Started, TypeOK, Wrote
<1>3. CASE UNCHANGED vars
    BY <1>3 DEF vars, Started, Wrote
<1> QED
    BY <1>1, <1>2, <1>3 DEF Next, Done

\* The deployment does not change, and a request stays on its connection.
LEMMA DeploymentStays ==
    ASSUME [Next]_vars
    PROVE  /\ deployment' = deployment
           /\ \A p \in Requests : Connection(p)' = Connection(p)
<1>1. deployment' = deployment
    BY DEF Next, Step, Read, Insert, Write, Commit, Rollback, Reread, Explain, LockedRead, Locked,
           CommitLocked, Cancel, Crash, Done, vars
<1> QED
    BY <1>1 DEF Connection

\* What a request was answered stays so.
LEMMA AnswersStay ==
    ASSUME TypeOK, Started, [Next]_vars, NEW w \in Requests, answer[w] # NoAnswer
    PROVE  answer'[w] = answer[w]
<1>1. pc[w] = "answered"
    BY DEF Started
<1>2. ASSUME NEW p \in Requests, Step(p) PROVE answer'[w] = answer[w]
    <2>1. pc[p] # "answered"
        BY <1>2 DEF Step, Read, Insert, Write, Commit, Rollback, Reread, Explain, LockedRead, Locked,
                    CommitLocked, Cancel
    <2> QED
        BY <1>1, <1>2, <2>1, OthersUnmoved
<1>3. ASSUME NEW c \in Connections, Crash(c) PROVE answer'[w] = answer[w]
    BY <1>1, <1>3 DEF Crash, TypeOK
<1> QED
    BY <1>2, <1>3 DEF Next, Done, vars

\* A connection that a coroutine left in a transaction stays one.
LEMMA InterruptedStays ==
    ASSUME TypeOK, Started, [Next]_vars, NEW c \in Connections, Interrupted(c)
    PROVE  Interrupted(c)'
<1>1. PICK w \in Requests : Connection(w) = c /\ answer[w].status \in {"locked", "failed", "lost"}
    BY DEF Interrupted
<1>2. answer'[w] = answer[w]
    BY <1>1, AnswersStay DEF NoAnswer, Answer
<1> QED
    BY <1>1, <1>2, DeploymentStays DEF Interrupted

\* The database lets one connection write at a time, and the request that opened
\* its transaction ends it, or is interrupted.
LEMMA OpenKept == TypeOK /\ Started /\ OpenForWriters /\ [Next]_vars => OpenForWriters'
<1> SUFFICES ASSUME TypeOK, Started, OpenForWriters, [Next]_vars PROVE OpenForWriters'
    OBVIOUS
<1>a. \A p \in Requests : Connection(p) \in Connections
    BY ConnectionType
<1>b. deployment' = deployment /\ \A p \in Requests : Connection(p)' = Connection(p)
    BY DeploymentStays
<1>c. \A c \in Connections : Interrupted(c) => Interrupted(c)'
    BY InterruptedStays
<1>1. ASSUME NEW p \in Requests, Free(Connection(p)), pc'[p] \in Executed, Step(p),
             NEW t, NEW w, Executes(p, t, w)
      PROVE  OpenForWriters'
    <2>1. \A c \in Connections : open'[c] # NoTransaction => c = Connection(p)
        BY <1>1 DEF Free, Executes, TypeOK
    <2>2. InTransaction(Connection(p))'
        BY <1>1, <1>b DEF InTransaction
    <2>3. \A c \in Connections : left'[c] # "none" => left[c] # "none"
        BY <1>1, <1>a DEF Executes, TypeOK
    <2> QED
        BY <1>b, <1>c, <2>1, <2>2, <2>3 DEF OpenForWriters
<1>2. ASSUME NEW p \in Requests, Step(p), Ends(Connection(p)) PROVE OpenForWriters'
    <2>1. ASSUME NEW c \in Connections, open'[c] # NoTransaction
          PROVE  /\ open[c] # NoTransaction
                 /\ InTransaction(c)' \/ Interrupted(c)'
        <3>1. c # Connection(p) /\ open[c] # NoTransaction
            BY <1>2, <1>a, <2>1 DEF Ends, TypeOK
        <3>2. CASE InTransaction(c)
            <4>1. PICK q \in Requests : Connection(q) = c /\ pc[q] \in Executed
                BY <3>2 DEF InTransaction
            <4>2. q # p
                BY <3>1, <4>1
            <4>3. pc'[q] = pc[q] /\ Connection(q)' = c
                BY <1>2, <1>b, <4>1, <4>2, OthersUnmoved
            <4> QED
                BY <3>1, <4>1, <4>3 DEF InTransaction
        <3> QED
            BY <1>c, <3>1, <3>2 DEF OpenForWriters
    <2>2. \A c \in Connections : left'[c] # "none" => left[c] # "none"
        BY <1>2, <1>a DEF Ends, TypeOK
    <2> QED
        BY <1>c, <2>1, <2>2 DEF OpenForWriters
<1>3. ASSUME NEW p \in Requests, Step(p), open' = open,
             pc[p] \in Executed => \A c \in Connections : Connection(p) = c => Interrupted(c)',
             \A c \in Connections : left'[c] # "none" => left[c] # "none" \/ Interrupted(c)'
      PROVE  OpenForWriters'
    <2>1. ASSUME NEW c \in Connections, open[c] # NoTransaction
          PROVE  InTransaction(c)' \/ Interrupted(c)'
        <3>1. CASE InTransaction(c)
            <4>1. PICK q \in Requests : Connection(q) = c /\ pc[q] \in Executed
                BY <3>1 DEF InTransaction
            <4>2. CASE q = p
                BY <1>3, <4>1, <4>2
            <4>3. CASE q # p
                <5>1. pc'[q] = pc[q] /\ Connection(q)' = c
                    BY <1>3, <1>b, <4>1, <4>3, OthersUnmoved
                <5> QED
                    BY <4>1, <5>1 DEF InTransaction
            <4> QED
                BY <4>2, <4>3
        <3> QED
            BY <1>c, <2>1, <3>1 DEF OpenForWriters
    <2> QED
        BY <1>3, <1>c, <2>1 DEF OpenForWriters
<1>4. ASSUME NEW p \in Requests, Step(p) PROVE OpenForWriters'
    <2>1. CASE Read(p) \/ Reread(p) \/ Explain(p)
        <3>1. Reads(Connection(p)) /\ open' = open /\ pc[p] \notin Executed
            BY <2>1 DEF Read, Reread, Explain, Executed
        <3>2. \A c \in Connections : left'[c] # "none" => left[c] # "none"
            BY <1>a, <3>1 DEF Reads, TypeOK
        <3> QED
            BY <1>3, <1>4, <3>1, <3>2
    <2>2. CASE Insert(p)
        <3>1. Free(Connection(p)) /\ pc'[p] \in Executed
            BY <2>2, StepMoves DEF Insert, Executed
        <3>2. \E t, w : Executes(p, t, w)
            BY <2>2 DEF Insert, Store
        <3> QED
            BY <1>1, <1>4, <3>1, <3>2
    <2>3. CASE Write(p)
        <3>1. Free(Connection(p)) /\ pc'[p] \in Executed
            BY <2>3, StepMoves DEF Write
        <3>2. \E t, w : Executes(p, t, w)
            BY <2>3 DEF Write, Store
        <3> QED
            BY <1>1, <1>4, <3>1, <3>2
    <2>4. CASE Commit(p) \/ Rollback(p)
        BY <1>2, <1>4, <2>4 DEF Commit, Commits, Rollback
    <2>5. CASE LockedRead(p)
        BY <1>3, <1>4, <2>5 DEF LockedRead, Executed
    <2>6. CASE Cancel(p)
        <3>1. \A c \in Connections : Connection(p) = c => Interrupted(c)'
            BY <1>b, <2>6, StepMoves DEF Cancel, Interrupted
        <3> QED
            BY <1>3, <1>4, <2>6, <3>1 DEF Cancel
    <2>7. CASE Locked(p) \/ CommitLocked(p)
        <3>1. PICK state : Fails(Connection(p), state)
            BY <2>7 DEF Locked, CommitLocked
        <3>2. CASE deployment.shared
            <4>1. \A c \in Connections : Connection(p) = c => Interrupted(c)'
                BY <1>b, <2>7, <3>2, StepMoves DEF Interrupted
            <4>2. open' = open /\ left' = [left EXCEPT ![Connection(p)] = state]
                BY <3>1, <3>2 DEF Fails
            <4>3. \A c \in Connections \ {Connection(p)} : left'[c] = left[c]
                BY <4>2 DEF TypeOK
            <4> QED
                BY <1>3, <1>4, <4>1, <4>2, <4>3
        <3>3. CASE ~deployment.shared
            BY <1>2, <1>4, <3>1, <3>3 DEF Fails
        <3> QED
            BY <3>2, <3>3
    <2> QED
        BY <1>4, <2>1, <2>2, <2>3, <2>4, <2>5, <2>6, <2>7 DEF Step
<1>5. ASSUME NEW c \in Connections, Crash(c) PROVE OpenForWriters'
    <2>1. \A d \in Connections :
              /\ open'[d] # NoTransaction => d # c /\ open[d] # NoTransaction
              /\ left'[d] # "none" => left[d] # "none"
        BY <1>5 DEF Crash, Ends, TypeOK
    <2>2. \A q \in Requests : Connection(q) # c => pc'[q] = pc[q]
        BY <1>5 DEF Crash
    <2>3. ASSUME NEW d \in Connections \ {c}, InTransaction(d) PROVE InTransaction(d)'
        BY <1>b, <2>2, <2>3 DEF InTransaction
    <2> QED
        BY <1>c, <2>1, <2>3 DEF OpenForWriters
<1>6. CASE UNCHANGED vars
    <2>1. \A c \in Connections : InTransaction(c) => InTransaction(c)'
        BY <1>6, <1>b DEF vars, InTransaction
    <2> QED
        BY <1>6, <1>c, <2>1 DEF vars, OpenForWriters
<1> QED
    BY <1>4, <1>5, <1>6 DEF Next, Done

\* A write that was rolled back stays so.
LEMMA UndoneStays ==
    ASSUME TypeOK, Started, [Next]_vars, NEW q \in Requests, RolledBack(q)
    PROVE  RolledBack(q)'
<1>1. PICK w \in Requests \ {q} : Connection(w) = Connection(q) /\ answer[w].status = "uniqueness"
    BY DEF RolledBack
<1>2. answer'[w] = answer[w]
    BY <1>1, AnswersStay DEF NoAnswer, Answer
<1> QED
    BY <1>1, <1>2, DeploymentStays DEF RolledBack

\* A statement that writes puts its request in the transaction.
LEMMA StatementSaves ==
    ASSUME TypeOK, NEW p \in Requests, Insert(p) \/ Write(p), pc'[p] = "wrote"
    PROVE  p \in unsaved'[Connection(p)]
<1>1. ASSUME NEW rows, Executes(p, rows, {p}) PROVE p \in unsaved'[Connection(p)]
    BY <1>1, ConnectionType DEF Executes, TypeOK
<1>2. ASSUME NEW k, NEW d, NEW old, Store(p, k, d, old) PROVE p \in unsaved'[Connection(p)]
    BY <1>1, <1>2 DEF Store, Goto, TypeOK
<1>3. CASE Insert(p)
    BY <1>2, <1>3 DEF Insert
<1>4. CASE Write(p)
    <2>1. ~Goto(p, "missed")
        BY DEF Goto, TypeOK
    <2> QED
        BY <1>1, <1>2, <1>4, <2>1 DEF Write
<1> QED
    BY <1>3, <1>4

\* A write that was executed is not lost before its request is answered.
LEMMA SavedKept == TypeOK /\ Started /\ Saved /\ [Next]_vars => Saved'
<1> SUFFICES ASSUME TypeOK, Started, Saved, [Next]_vars PROVE Saved'
    OBVIOUS
<1>a. \A p \in Requests : Connection(p) \in Connections
    BY ConnectionType
<1>b. \A p \in Requests : Connection(p)' = Connection(p)
    BY DeploymentStays
<1>c. \A q \in Requests : RolledBack(q) => RolledBack(q)'
    BY UndoneStays
<1> DEFINE Kept(p) ==
        /\ pc[p] = "wrote" => p \in unsaved[Connection(p)] \cup applied \/ RolledBack(p)
        /\ pc[p] = "committed" \/ Acknowledged(p) => p \in applied \/ RolledBack(p)
<1>1. ASSUME NEW p \in Requests, Step(p) PROVE Saved'
    <2>1. applied \subseteq applied'
        BY <1>1 DEF Step, Read, Insert, Write, Commit, Commits, Rollback, Reread, Explain, LockedRead,
                    Locked, CommitLocked, Cancel
    <2>2. ASSUME NEW q \in Requests \ {p}, q \in unsaved[Connection(q)]
          PROVE  q \in unsaved'[Connection(q)] \cup applied' \/ RolledBack(q)'
        <3>1. CASE Read(p) \/ Reread(p) \/ Explain(p) \/ LockedRead(p) \/ Cancel(p)
            BY <2>2, <3>1 DEF Read, Reread, Explain, LockedRead, Cancel
        <3>2. CASE Insert(p) \/ Write(p)
            <4>1. \E w : unsaved' = [unsaved EXCEPT ![Connection(p)] = @ \cup w]
                BY <3>2 DEF Insert, Write, Store, Executes
            <4> QED
                BY <1>a, <2>2, <4>1 DEF TypeOK
        <3>3. CASE Commit(p)
            BY <1>a, <2>2, <3>3 DEF Commit, Commits, Ends, TypeOK
        <3>4. CASE Rollback(p)
            <4>1. CASE Connection(q) = Connection(p)
                <5>1. deployment.shared
                    BY <2>2, <4>1 DEF Connection
                <5>2. answer'[p].status = "uniqueness" /\ deployment' = deployment
                    BY <3>4, StepMoves DEF Rollback
                <5> QED
                    BY <1>b, <2>2, <4>1, <5>1, <5>2 DEF RolledBack
            <4>2. CASE Connection(q) # Connection(p)
                BY <1>a, <2>2, <3>4, <4>2 DEF Rollback, Ends, TypeOK
            <4> QED
                BY <4>1, <4>2
        <3>5. CASE Locked(p) \/ CommitLocked(p)
            <4>1. PICK state : Fails(Connection(p), state)
                BY <3>5 DEF Locked, CommitLocked
            <4>2. CASE deployment.shared
                BY <2>2, <4>1, <4>2 DEF Fails
            <4>3. CASE ~deployment.shared
                <5>1. Connection(q) # Connection(p) /\ Ends(Connection(p))
                    BY <2>2, <4>1, <4>3 DEF Connection, Fails
                <5> QED
                    BY <1>a, <2>2, <5>1 DEF Ends, TypeOK
            <4> QED
                BY <4>2, <4>3
        <3> QED
            BY <1>1, <3>1, <3>2, <3>3, <3>4, <3>5 DEF Step
    <2>3. ASSUME NEW q \in Requests \ {p} PROVE Kept(q)'
        <3>1. /\ pc'[q] = pc[q] /\ current'[q] = current[q] /\ answer'[q] = answer[q]
              /\ job'[q] = job[q]
            BY <1>1, OthersUnmoved
        <3>2. Kept(q) /\ (Acknowledged(q)' <=> Acknowledged(q))
            BY <3>1 DEF Saved, Acknowledged, Wrote
        <3> QED
            BY <1>b, <1>c, <2>1, <2>2, <3>1, <3>2
    <2>4. Kept(p)'
        <3>1. CASE Read(p)
            <4>1. current'[p] = View(Connection(p))[job[p].key] /\ job' = job /\ job[p].op # "post"
                BY <3>1 DEF Read, TypeOK
            <4>2. pc'[p] = "writing" \/ ~Writes(job[p], current'[p])
                BY <3>1, <4>1 DEF Read, TypeOK, Goto
            <4>3. pc'[p] \in {"writing", "answered"} /\ (pc'[p] = "writing" => answer'[p] = NoAnswer)
                BY <3>1, StepMoves DEF Started, Read
            <4> QED
                BY <4>1, <4>2, <4>3 DEF Acknowledged, Wrote, NoAnswer, Answer
        <3>2. CASE Insert(p) \/ Write(p)
            <4>1. pc'[p] \in Executed /\ answer'[p] = NoAnswer
                BY <3>2, StepMoves DEF Insert, Write, Started, Executed
            <4>2. pc'[p] = "wrote" => p \in unsaved'[Connection(p)]
                BY <3>2, StatementSaves
            <4> QED
                BY <1>b, <4>1, <4>2 DEF Executed, Acknowledged, NoAnswer, Answer
        <3>3. CASE Commit(p)
            <4>1. pc[p] = "wrote" => p \in applied' \/ RolledBack(p)'
                BY <1>c, <3>3 DEF Commit, Commits, Saved
            <4>2. pc[p] = "missed" => pc'[p] = "explain" /\ answer'[p] = NoAnswer
                BY <3>3, StepMoves DEF Started
            <4> QED
                BY <3>3, <4>1, <4>2, StepMoves DEF Acknowledged, NoAnswer, Answer, Commit
        <3>4. CASE \/ Rollback(p) \/ Explain(p)
                   \/ LockedRead(p) \/ Locked(p) \/ CommitLocked(p) \/ Cancel(p)
            BY <3>4, StepMoves DEF Acknowledged
        <3>5. CASE Reread(p)
            BY <1>c, <2>1, <3>5, StepMoves DEF Reread, Saved
        <3> QED
            BY <1>1, <3>1, <3>2, <3>3, <3>4, <3>5 DEF Step
    <2> QED
        BY <2>3, <2>4 DEF Saved
<1>2. ASSUME NEW c \in Connections, Crash(c) PROVE Saved'
    <2>1. ASSUME NEW q \in Requests PROVE Kept(q)'
        <3>1. CASE Connection(q) = c /\ pc[q] # "answered"
            BY <1>2, <3>1 DEF Crash, TypeOK, Acknowledged, Answer
        <3>2. CASE pc[q] = "answered"
            <4>1. pc'[q] = "answered" /\ answer'[q] = answer[q] /\ applied' = applied
                  /\ job' = job /\ current' = current
                BY <1>2, <3>2 DEF Crash, TypeOK
            <4>2. Acknowledged(q) => q \in applied \/ RolledBack(q)
                BY DEF Saved
            <4> QED
                BY <1>c, <4>1, <4>2 DEF Acknowledged, Wrote
        <3>3. CASE Connection(q) # c
            <4>1. /\ pc'[q] = pc[q] /\ answer'[q] = answer[q] /\ applied' = applied
                  /\ job' = job /\ current' = current
                  /\ unsaved'[Connection(q)] = unsaved[Connection(q)]
                BY <1>2, <1>a, <3>3 DEF Crash, Ends, TypeOK
            <4>2. Kept(q)
                BY DEF Saved
            <4> QED
                BY <1>b, <1>c, <4>1, <4>2 DEF Acknowledged, Wrote
        <3> QED
            BY <3>1, <3>2, <3>3
    <2> QED
        BY <2>1 DEF Saved
<1>3. CASE UNCHANGED vars
    BY <1>3, <1>b, <1>c DEF vars, Saved, Acknowledged, Wrote
<1> QED
    BY <1>1, <1>2, <1>3 DEF Next, Done

\* The invariant holds at every instant, in every deployment.
THEOREM SqlInvariant == Spec => []AnyInv
<1>1. AnyInv /\ [Next]_vars => AnyInv'
    BY TypesKept, StartedKept, OpenKept, SavedKept DEF AnyInv
<1> QED
    BY <1>1, InvAtStart, PTL DEF Spec

\* What the tables, the transactions and the requests hold stays of its kind.
THEOREM SqlTyping == Spec => []TypeOK
BY SqlInvariant, PTL DEF AnyInv

\* No path of the synchronous storages leaves a transaction open behind it: "with
\* connection" commits or rolls back, and a process that stops loses its connection.
\* The asynchronous writing() leaves one open only after a lock or a cancellation.
THEOREM TransactionsEndUnlessInterrupted == Spec => []TransactionsEnd
<1>1. AnyInv => TransactionsEnd
    BY DEF AnyInv, OpenForWriters, InTransaction, TransactionsEnd, Executed
<1> QED
    BY <1>1, SqlInvariant, PTL

\* With a connection for each process, once the requests are answered every process
\* serves the committed rows: what the documentation says of processes over one
\* database fails when one of their connections is left in a transaction only.
THEOREM OwnConnectionsServeTheSame == Spec => [](~deployment.shared => ServeTheSame)
<1>1. AnyInv => (~deployment.shared => ServeTheSame)
    BY DEF AnyInv, OpenForWriters, InTransaction, Interrupted, Executed, ServeTheSame, Answered, View
<1> QED
    BY <1>1, SqlInvariant, PTL

\* An answered write is committed, unless a coroutine that was refused rolled
\* back the transaction it shared: with a connection for each process, always.
THEOREM AnsweredWritesAreCommitted == Spec => []AcknowledgedUnlessRolledBack
<1>1. AnyInv => AcknowledgedUnlessRolledBack
    BY DEF AnyInv, Saved, AcknowledgedUnlessRolledBack
<1> QED
    BY <1>1, SqlInvariant, PTL

\* With a connection for each process, every answered write is committed: what the
\* documentation says of the storages fails on a shared connection only.
THEOREM OwnConnectionsKeepWrites == Spec => [](~deployment.shared => AcknowledgedIsApplied)
<1>1. AcknowledgedUnlessRolledBack => (~deployment.shared => AcknowledgedIsApplied)
    BY DEF AcknowledgedUnlessRolledBack, AcknowledgedIsApplied, RolledBack
<1> QED
    BY <1>1, AnsweredWritesAreCommitted, PTL

-----------------------------------------------------------------------------
(***************************************************************************)
(* Only a request on its way to a success has a statement to save.         *)
(***************************************************************************)

\* A statement of p was committed, or the next commit on some connection saves it.
MayBeSaved(p) == p \in applied \/ \E c \in Connections : p \in unsaved[c]

\* A request that wrote a row, and was not refused since: an error after its statement
\* is no refusal.
Succeeding(p) ==
    \/ pc[p] \in {"wrote", "committed"}
    \/ pc[p] = "answered" /\ answer[p].status \in {"ok", "notFound", "failed", "lost"}

SavedSucceed == \A p \in Requests : MayBeSaved(p) => Succeeding(p)

\* A step gives a connection no statement to save but that of a write that succeeds.
LEMMA StepSaves ==
    ASSUME TypeOK, NEW p \in Requests, Step(p), NEW q \in Requests, MayBeSaved(q)'
    PROVE  MayBeSaved(q) \/ (q = p /\ pc'[p] = "wrote")
<1>a. Connection(p) \in Connections
    BY ConnectionType
<1>1. CASE Insert(p) \/ Write(p)
    <2> DEFINE Saves(w) == unsaved' = [unsaved EXCEPT ![Connection(p)] = @ \cup w]
    <2>1. applied' = applied /\ (Saves({}) \/ (Saves({p}) /\ Goto(p, "wrote")))
        <3>1. CASE Insert(p)
            BY <3>1 DEF Insert, Store, Executes
        <3>2. CASE Write(p)
            BY <3>2 DEF Write, Store, Executes
        <3> QED
            BY <1>1, <3>1, <3>2
    <2>2. PICK w : Saves(w) /\ (w = {} \/ (w = {p} /\ pc'[p] = "wrote"))
        BY <2>1 DEF Goto, TypeOK
    <2> QED
        BY <1>a, <2>1, <2>2 DEF MayBeSaved, TypeOK
<1>2. CASE Commit(p)
    BY <1>a, <1>2 DEF Commit, Commits, Ends, MayBeSaved, TypeOK
<1>3. CASE Rollback(p)
    BY <1>a, <1>3 DEF Rollback, Ends, MayBeSaved, TypeOK
<1>4. CASE Read(p) \/ Reread(p) \/ Explain(p) \/ LockedRead(p) \/ Cancel(p)
    BY <1>4 DEF Read, Reread, Explain, LockedRead, Cancel, MayBeSaved
<1>5. CASE Locked(p) \/ CommitLocked(p)
    <2>1. applied' = applied /\ \E state : Fails(Connection(p), state)
        BY <1>5 DEF Locked, CommitLocked
    <2>2. \A c \in Connections : unsaved'[c] \subseteq unsaved[c]
        BY <1>a, <2>1 DEF Fails, Ends, TypeOK
    <2> QED
        BY <2>1, <2>2 DEF MayBeSaved
<1> QED
    BY <1>1, <1>2, <1>3, <1>4, <1>5 DEF Step

\* A request that has something to save stays one that succeeds.
LEMMA SavedSucceedKept == AnyInv /\ SavedSucceed /\ [Next]_vars => SavedSucceed'
<1> SUFFICES ASSUME AnyInv, SavedSucceed, [Next]_vars PROVE SavedSucceed'
    OBVIOUS
<1> USE DEF AnyInv
<1>1. ASSUME NEW p \in Requests, Step(p), NEW q \in Requests, MayBeSaved(q)'
      PROVE  Succeeding(q)'
    <2>1. Succeeding(q) \/ (q = p /\ pc'[p] = "wrote")
        BY <1>1, StepSaves DEF SavedSucceed
    <2>2. CASE q # p
        BY <1>1, <2>1, <2>2, OthersUnmoved DEF Succeeding
    <2>3. CASE q = p /\ pc'[p] # "wrote"
        <3>1. pc[p] \in {"wrote", "committed"}
            BY <1>1, <2>1, <2>3
            DEF Succeeding, Step, Read, Insert, Write, Commit, Rollback, Reread, Explain,
                LockedRead, Locked, CommitLocked, Cancel
        <3>2. CASE Commit(p)
            BY <2>3, <3>1, <3>2, StepMoves DEF Succeeding, Answer
        <3>3. CASE Reread(p)
            BY <2>3, <3>3, StepMoves DEF Reread, Settles, Answer, TypeOK, Succeeding
        <3>4. CASE LockedRead(p) \/ CommitLocked(p) \/ Cancel(p)
            BY <2>3, <3>1, <3>4, StepMoves DEF Succeeding
        <3> QED
            BY <1>1, <3>1, <3>2, <3>3, <3>4 DEF Step, Read, Insert, Write, Locked, Rollback, Explain
    <2> QED
        BY <2>2, <2>3 DEF Succeeding
<1>2. ASSUME NEW c \in Connections, Crash(c), NEW q \in Requests, MayBeSaved(q)'
      PROVE  Succeeding(q)'
    <2>1. MayBeSaved(q)
        BY <1>2 DEF Crash, Ends, MayBeSaved, TypeOK
    <2>2. CASE Connection(q) = c /\ pc[q] # "answered"
        BY <1>2, <2>2 DEF Crash, Succeeding, Answer
    <2>3. CASE ~(Connection(q) = c /\ pc[q] # "answered")
        BY <1>2, <2>1, <2>3 DEF Crash, SavedSucceed, Succeeding
    <2> QED
        BY <2>2, <2>3
<1>3. CASE UNCHANGED vars
    BY <1>3 DEF vars, SavedSucceed, MayBeSaved, Succeeding
<1> QED
    BY <1>1, <1>2, <1>3 DEF Next, Done, SavedSucceed

\* A request that is refused writes nothing, on whatever connection: each way to a
\* refusal leaves it no statement that its own commit, or that of another request
\* in the same transaction, could save.
THEOREM RefusalsWriteNothing == Spec => []RefusedWritesNothing
<1>1. Init => SavedSucceed
    BY DEF Init, SavedSucceed, MayBeSaved
<1>2. AnyInv /\ SavedSucceed => RefusedWritesNothing
    <2> SUFFICES ASSUME AnyInv, SavedSucceed, NEW p \in Requests, answer[p].status \in Refusals
                 PROVE  ~MayBeSaved(p)
        BY DEF RefusedWritesNothing, MayBeSaved
    <2>1. answer[p].status \notin {"none", "ok", "notFound", "failed", "lost"}
        BY DEF Refusals
    <2>2. pc[p] = "answered"
        BY <2>1 DEF AnyInv, Started, NoAnswer, Answer
    <2> QED
        BY <2>1, <2>2 DEF SavedSucceed, Succeeding
<1> QED
    BY <1>1, <1>2, SavedSucceedKept, SqlInvariant, PTL DEF Spec

\* The answer to a write tells whether it is in the database, in every deployment, but
\* for what the refusal of another coroutine rolls back.
THEOREM AnswersAreTrue == Spec => []AnswersTellWrites
<1>1. AcknowledgedUnlessRolledBack /\ RefusedWritesNothing => AnswersTellWrites
    BY DEF AnswersTellWrites
<1> QED
    BY <1>1, AnsweredWritesAreCommitted, RefusalsWriteNothing, PTL

-----------------------------------------------------------------------------
(***************************************************************************)
(* The inductive invariant of a deployment where each process has its own  *)
(* connection: there is one transaction at a time, so it is computed from  *)
(* the committed rows, and differs from them in one row.                   *)
(***************************************************************************)

\* Another request wrote the row of p.
Overtaken(p) == \E q \in applied \ {p} : key[q] = key[p]

\* Another request deleted it.
Deleted(p) == \E q \in applied \ {p} : key[q] = key[p] /\ job[q].op = "delete"

\* A row of the transaction of p is as the table stores them, has a version no
\* row of its key ever had, and what the job of p does not name is unchanged.
NewRow(p, r) ==
    /\ \A x \in given : x.key = key[p] => x.row.version # r.version
    /\ deployment.library => r.version < clock
    /\ ~deployment.library =>
           /\ key[p] \in used
           /\ \A x \in given : x.key = key[p] => x.row.version < r.version
    /\ RowOf(r.data) = r.data
    /\ table[key[p]] # NoResource =>
           \A a \in Attrs \ DOMAIN job[p].data : r.data[a] = table[key[p]].data[a]

\* The transaction of p is the table, but for the row of p.
PendingOf(p) ==
    /\ pc[p] \in Executed => open[p] # NoTransaction
    /\ pc[p] \in {"missed", "refused"} => open[p] = table
    /\ pc[p] = "wrote" =>
           /\ \A k \in Keys \ {key[p]} : open[p][k] = table[k]
           /\ job[p].op = "delete" \/ open[p][key[p]] # NoResource
           /\ open[p][key[p]] # NoResource => NewRow(p, open[p][key[p]])
    /\ unsaved[p] \subseteq {p} /\ (pc[p] # "wrote" => unsaved[p] = {})
    /\ p \in applied => pc[p] \in {"committed", "answered"}

Pending == \A p \in Requests : PendingOf(p)

\* The rows that were committed: a key and a version tell one of them.
RowsIdentified ==
    /\ Rows(table) \subseteq given
    /\ \A x, y \in given : x.key = y.key /\ x.row.version = y.row.version => x = y
    /\ \A x \in given : RowOf(x.row.data) = x.row.data
    /\ deployment.library => \A x \in given : x.row.version < clock
    /\ ~deployment.library => \A x \in given :
           /\ x.key \in used
           /\ table[x.key] # NoResource => x.row.version <= table[x.key].version

\* What a request read is still there, or another one wrote it.
ExplainedOf(p) ==
    /\ pc[p] = "writing" =>
           /\ [key |-> key[p], row |-> current[p]] \in given
           /\ table[key[p]] = current[p] \/ Overtaken(p)
    /\ pc[p] \in {"missed", "explain"} => Overtaken(p)
    /\ pc[p] \in {"writing", "missed", "explain", "committed"} /\ table[key[p]] = NoResource =>
           Deleted(p)
    /\ answer[p].status \in {"notFound", "preconditionFailed"} /\ Wrote(p) => Overtaken(p)
    /\ answer[p].status = "notFound" /\ Wrote(p) => Deleted(p)

Explained == \A p \in Requests : ExplainedOf(p)

OwnInv == ~deployment.shared => Pending /\ RowsIdentified /\ Explained

-----------------------------------------------------------------------------
\* What is stored is stored again as it is.
LEMMA RowOfTwice ==
    ASSUME NEW d \in [Attrs -> Values \cup {Missing}]
    PROVE  RowOf(RowOf(d)) = RowOf(d)
BY DEF RowOf

\* A request that has no transaction sees the committed rows.
LEMMA OwnConnection ==
    ASSUME OpenForWriters, ~deployment.shared, NEW p \in Requests
    PROVE  /\ Connection(p) = p /\ p \in Connections
           /\ pc[p] \notin Executed => open[p] = NoTransaction /\ View(p) = table
<1>1. \A q \in Requests : Connection(q) = q
    BY DEF Connection
<1> QED
    BY <1>1 DEF OpenForWriters, InTransaction, Interrupted, View, Connections

\* No statement fails but for a writer, and none is cancelled.
LEMMA OwnSteps ==
    ASSUME OpenForWriters, ~deployment.shared, NEW p \in Requests, Step(p)
    PROVE  \/ Read(p) \/ Insert(p) \/ Write(p) \/ Commit(p) \/ Rollback(p)
           \/ Reread(p) \/ Explain(p) \/ Locked(p)
<1>1. \A c \in Connections : left[c] = "none"
    BY DEF OpenForWriters, Interrupted
<1>2. CanRead(Connection(p)) /\ CanCommit(Connection(p))
    BY <1>1 DEF CanRead, CanCommit
<1> QED
    BY <1>2 DEF Step, LockedRead, CommitLocked, Cancel

\* A statement that met a writer is rolled back.
LEMMA OwnLocked ==
    ASSUME OpenForWriters, ~deployment.shared, NEW p \in Requests, Locked(p)
    PROVE  /\ Connection(p) = p /\ p \in Connections /\ Ends(p) /\ given' = given
           /\ UNCHANGED <<deployment, table, applied, used, clock, job, key, current>>
BY OwnConnection DEF Locked, Fails, Settles

\* The version of a write is one its row never had.
LEMMA FreshVersion ==
    ASSUME TypeOK, RowsIdentified, NEW k \in Keys,
           deployment.library \/ table[k] # NoResource \/ k \notin used
    PROVE  /\ \A x \in given : x.key = k => x.row.version # NextVersion(table[k])
           /\ deployment.library => NextVersion(table[k]) < clock + 1
           /\ ~deployment.library =>
                  \A x \in given : x.key = k => x.row.version < NextVersion(table[k])
<1>1. \A x \in given : x.row.version \in Nat /\ x.key \in Keys
    BY DEF TypeOK, Resource
<1>2. clock \in Nat /\ (table[k] # NoResource => table[k].version \in Nat)
    BY DEF TypeOK, Tables, Resource
<1>3. CASE deployment.library
    BY <1>1, <1>2, <1>3 DEF NextVersion, RowsIdentified
<1>4. CASE ~deployment.library /\ table[k] # NoResource
    BY <1>1, <1>2, <1>4 DEF NextVersion, RowsIdentified
<1>5. CASE ~deployment.library /\ k \notin used
    BY <1>5 DEF RowsIdentified
<1> QED
    BY <1>3, <1>4, <1>5

\* A stored row was committed once.
LEMMA TableGiven ==
    ASSUME TypeOK, RowsIdentified, NEW k \in Keys, table[k] # NoResource
    PROVE  /\ [key |-> k, row |-> table[k]] \in given
           /\ ~deployment.library => k \in used
<1>1. [key |-> k, row |-> table[k]] \in given
    BY DEF RowsIdentified, Rows
<1> QED
    BY <1>1 DEF RowsIdentified

\* What a request tells its client was committed.
LEMMA ReadsGiveNothing ==
    ASSUME AnyInv, ~deployment.shared, RowsIdentified, NEW p \in Requests,
           Read(p) \/ Reread(p)
    PROVE  given' = given
<1> USE DEF AnyInv
<1>1. Connection(p) = p /\ View(p) = table /\ key[p] \in Keys
    BY OwnConnection, JobType DEF Read, Reread, Executed, TypeOK, Started
<1>2. table[key[p]] # NoResource => [key |-> key[p], row |-> table[key[p]]] \in given
    BY <1>1, TableGiven
<1>3. CASE Read(p)
    <2>1. key[p] = job[p].key
        BY <1>3 DEF Read, Started
    <2>2. CASE Writes(job[p], table[key[p]])
        BY <1>1, <1>3, <2>1, <2>2 DEF Read
    <2>3. CASE ~Writes(job[p], table[key[p]])
        <3>1. Settles(p, ReadAnswer(job[p], table[key[p]]).status,
                         ReadAnswer(job[p], table[key[p]]).resource)
            BY <1>1, <1>3, <2>1, <2>3 DEF Read
        <3>2. ReadAnswer(job[p], table[key[p]]).resource \in {table[key[p]], NoResource}
            BY DEF ReadAnswer, Answer
        <3> QED
            BY <1>2, <3>1, <3>2 DEF Settles
    <2> QED
        BY <2>2, <2>3
<1>4. CASE Reread(p)
    BY <1>1, <1>2, <1>4 DEF Reread, Settles
<1> QED
    BY <1>3, <1>4

\* A write that was stored in the transaction of p leaves there a new row.
LEMMA StorePending ==
    ASSUME AnyInv, ~deployment.shared, RowsIdentified, NEW p \in Requests, PendingOf(p),
           pc[p] \notin Executed, p \notin applied,
           NEW k \in Keys, NEW d \in [Attrs -> Values \cup {Missing}],
           Store(p, k, d, table[k]), key'[p] = k,
           UNCHANGED <<deployment, table, given, applied, job>>,
           clock' = clock + 1, used \subseteq used', deployment.library \/ k \in used',
           deployment.library \/ table[k] # NoResource \/ k \notin used,
           table[k] # NoResource =>
               \A a \in Attrs \ DOMAIN job[p].data : RowOf(d)[a] = table[k].data[a]
    PROVE  PendingOf(p)'
<1> USE DEF AnyInv
<1> DEFINE row == [data |-> RowOf(d), version |-> NextVersion(table[k])]
<1>1. Connection(p) = p /\ p \in Connections /\ View(p) = table /\ table \in Tables
    BY OwnConnection DEF TypeOK
<1>2. table[k] \in Resource \cup {NoResource}
    BY <1>1 DEF Tables
<1>3. PICK r \in Resource : r = row /\ r # NoResource
    <2>1. row \in Resource
        BY <1>2, RowType
    <2>2. row # NoResource
        BY <2>1, NoResourceAssumption
    <2> QED
        BY <2>1, <2>2
<1>4. [table EXCEPT ![k] = r] \in Tables
    BY <1>1, <1>3 DEF Tables
<1>5. CASE Executes(p, table, {}) /\ Goto(p, "refused")
    <2>1. open'[p] = table /\ unsaved'[p] = unsaved[p] /\ pc'[p] = "refused"
        BY <1>1, <1>5 DEF Executes, Goto, TypeOK
    <2>2. table # NoTransaction
        BY <1>1, SqlAssumption
    <2> QED
        BY <2>1, <2>2 DEF PendingOf, Executed
<1>6. CASE Executes(p, [table EXCEPT ![k] = r], {p}) /\ Goto(p, "wrote")
    <2>1. /\ open'[p] = [table EXCEPT ![k] = r] /\ pc'[p] = "wrote"
          /\ unsaved'[p] = unsaved[p] \cup {p}
        BY <1>1, <1>6 DEF Executes, Goto, TypeOK
    <2>2. open'[p] # NoTransaction
        BY <1>4, <2>1, SqlAssumption
    <2>3. open'[p][k] = r /\ \A l \in Keys \ {k} : open'[p][l] = table[l]
        BY <1>1, <2>1 DEF Tables
    <2>4. NewRow(p, r)'
        <3>1. /\ \A x \in given : x.key = k => x.row.version # r.version
              /\ deployment.library => r.version < clock + 1
              /\ ~deployment.library => \A x \in given : x.key = k => x.row.version < r.version
            BY <1>3, FreshVersion
        <3>2. r.data = RowOf(d) /\ RowOf(r.data) = r.data
            BY <1>3, RowOfTwice
        <3>3. RowOf(r.data)' = r.data
            BY <3>2 DEF RowOf
        <3>4. table[k] # NoResource =>
                  \A a \in Attrs \ DOMAIN job[p].data : r.data[a] = table[k].data[a]
            BY <3>2
        <3> QED
            BY <3>1, <3>3, <3>4 DEF NewRow
    <2>5. unsaved'[p] \subseteq {p}
        BY <2>1 DEF PendingOf
    <2> QED
        BY <1>3, <2>1, <2>2, <2>3, <2>4, <2>5 DEF PendingOf
<1> QED
    BY <1>1, <1>3, <1>5, <1>6 DEF Store

\* A new identifier has no row.
LEMMA NewIdsAreFree ==
    ASSUME TypeOK, RowsIdentified, NEW t \in Types, NEW i \in NewIds(table, t)
    PROVE  /\ <<t, i>> \in Keys /\ table[<<t, i>>] = NoResource
           /\ ~deployment.library => <<t, i>> \notin used
<1>1. i \in Ids /\ i \in Nat /\ <<t, i>> \in Keys
    BY SqlAssumption DEF NewIds, Keys
<1>2. CASE deployment.library
    BY <1>1, <1>2 DEF NewIds
<1>3. CASE ~deployment.library
    <2>1. <<t, i>> \notin used
        BY <1>3 DEF NewIds
    <2> QED
        BY <1>1, <1>3, <2>1, TableGiven
<1> QED
    BY <1>1, <1>2, <1>3

\* A row that has the version a request read is the row it read.
LEMMA RowWasRead ==
    ASSUME AnyInv, RowsIdentified, NEW p \in Requests, ExplainedOf(p), pc[p] = "writing",
           RowMatches(table[key[p]], current[p].version)
    PROVE  table[key[p]] = current[p]
<1>1. table[key[p]] # NoResource /\ key[p] \in Keys /\ table[key[p]].version = current[p].version
    BY DEF AnyInv, Started, RowMatches
<1>2. [key |-> key[p], row |-> table[key[p]]] \in given
    BY <1>1, TableGiven DEF AnyInv
<1>3. [key |-> key[p], row |-> current[p]] \in given
    BY DEF ExplainedOf
<1> QED
    BY <1>1, <1>2, <1>3 DEF RowsIdentified

\* The transaction of a request that is in its own statement.
LEMMA StatementPending ==
    ASSUME AnyInv, ~deployment.shared, RowsIdentified, NEW p \in Requests, PendingOf(p),
           ExplainedOf(p), Insert(p) \/ Write(p)
    PROVE  PendingOf(p)'
<1> USE DEF AnyInv
<1>1. pc[p] \notin Executed /\ p \notin applied
    BY DEF Insert, Write, Executed, PendingOf
<1>2. Connection(p) = p /\ p \in Connections /\ View(p) = table /\ table \in Tables
    BY <1>1, OwnConnection DEF TypeOK
<1>3. CASE Insert(p)
    <2>1. PICK i \in NewIds(table, job[p].key[1]) :
              /\ Store(p, <<job[p].key[1], i>>, job[p].data, NoResource)
              /\ key' = [key EXCEPT ![p] = <<job[p].key[1], i>>]
              /\ used' = used \cup {<<job[p].key[1], i>>}
        BY <1>2, <1>3 DEF Insert
    <2> DEFINE k == <<job[p].key[1], i>>
    <2>2. job[p].key[1] \in Types /\ job[p].data \in [Attrs -> Values \cup {Missing}]
        BY <1>3, JobType DEF TypeOK, Insert, Keys
    <2>3. k \in Keys /\ table[k] = NoResource /\ (~deployment.library => k \notin used)
        BY <2>2, NewIdsAreFree
    <2>4. key'[p] = k
        BY <2>1 DEF TypeOK
    <2>5. UNCHANGED <<deployment, table, given, applied, job>> /\ clock' = clock + 1
        BY <1>3 DEF Insert
    <2> HIDE DEF k
    <2>6. Store(p, k, job[p].data, table[k]) /\ used \subseteq used' /\ k \in used'
        BY <2>1, <2>3 DEF k
    <2> QED
        BY <1>1, <2>2, <2>3, <2>4, <2>5, <2>6, StorePending
<1>4. CASE Write(p)
    <2>1. /\ pc[p] = "writing" /\ key[p] \in Keys /\ key'[p] = key[p] /\ current[p] \in Resource
          /\ job[p] \in Jobs
          /\ UNCHANGED <<deployment, table, given, applied, job, used>> /\ clock' = clock + 1
        BY <1>4 DEF Write, Started, TypeOK, Wrote, Writes
    <2>2. table # NoTransaction
        BY <1>2, SqlAssumption
    <2>3. CASE Executes(p, table, {}) /\ Goto(p, "missed")
        <3>1. open'[p] = table /\ unsaved'[p] = unsaved[p] /\ pc'[p] = "missed"
            BY <1>2, <2>3 DEF Executes, Goto, TypeOK
        <3> QED
            BY <2>1, <2>2, <3>1 DEF PendingOf, Executed
    <2>4. CASE /\ job[p].op = "delete" /\ Goto(p, "wrote")
               /\ Executes(p, [table EXCEPT ![key[p]] = NoResource], {p})
        <3> DEFINE rows == [table EXCEPT ![key[p]] = NoResource]
        <3>1. rows \in Tables /\ rows # NoTransaction
            BY <1>2, SqlAssumption DEF Tables
        <3>2. open'[p] = rows /\ unsaved'[p] = unsaved[p] \cup {p} /\ pc'[p] = "wrote"
            BY <1>2, <2>4 DEF Executes, Goto, TypeOK
        <3>3. rows[key[p]] = NoResource /\ \A l \in Keys \ {key[p]} : rows[l] = table[l]
            BY <1>2, <2>1 DEF Tables
        <3> HIDE DEF rows
        <3> QED
            BY <1>1, <2>1, <2>4, <3>1, <3>2, <3>3 DEF PendingOf
    <2>5. CASE /\ RowMatches(table[key[p]], current[p].version)
               /\ Store(p, key[p], NewData(job[p], current[p].data), table[key[p]])
        <3> DEFINE d == NewData(job[p], current[p].data)
        <3>1. d \in [Attrs -> Values \cup {Missing}]
            BY <2>1, NewDataType DEF Resource
        <3>2. table[key[p]] = current[p] /\ table[key[p]] # NoResource
            BY <2>1, <2>5, RowWasRead DEF RowMatches
        <3>3. RowOf(current[p].data) = current[p].data
            BY <2>1, <3>2, TableGiven DEF RowsIdentified
        <3>4. \A a \in Attrs \ DOMAIN job[p].data : RowOf(d)[a] = RowOf(current[p].data)[a]
            BY DEF RowOf, NewData
        <3>5. ~deployment.library => key[p] \in used
            BY <2>1, <3>2, TableGiven
        <3> HIDE DEF d
        <3>6. Store(p, key[p], d, table[key[p]])
            BY <2>5 DEF d
        <3> QED
            BY <1>1, <2>1, <3>1, <3>2, <3>3, <3>4, <3>5, <3>6, StorePending
    <2> QED
        BY <1>2, <1>4, <2>3, <2>4, <2>5 DEF Write
<1> QED
    BY <1>3, <1>4

\* The transaction of a request that is between its statements.
LEMMA IdlePending ==
    ASSUME NEW q \in Requests, PendingOf(q), pc'[q] \notin Executed,
           unsaved'[q] = {}, q \in applied' => pc'[q] \in {"committed", "answered"}
    PROVE  PendingOf(q)'
BY DEF PendingOf, Executed

\* A transaction that nobody touches.
LEMMA StillPending ==
    ASSUME NEW q \in Requests, PendingOf(q), pc'[q] = pc[q], key'[q] = key[q],
           open'[q] = open[q], unsaved'[q] = unsaved[q],
           UNCHANGED <<deployment, table, given, applied, used, clock, job>>
    PROVE  PendingOf(q)'
<1>1. \A r : NewRow(q, r) => NewRow(q, r)'
    BY DEF NewRow, RowOf
<1> QED
    BY <1>1 DEF PendingOf

\* The transaction of another request stays what it is.
LEMMA OthersPending ==
    ASSUME AnyInv, ~deployment.shared, RowsIdentified, NEW p \in Requests, Step(p),
           PendingOf(p), NEW q \in Requests \ {p}, PendingOf(q)
    PROVE  PendingOf(q)'
<1> USE DEF AnyInv
<1>1. /\ Connection(p) = p /\ p \in Connections /\ Connection(q) = q /\ q \in Connections
      /\ (pc[p] \notin Executed => open[p] = NoTransaction)
    BY OwnConnection
<1>2. pc'[q] = pc[q] /\ key'[q] = key[q] /\ job'[q] = job[q]
    BY OthersUnmoved
<1>3. CASE Read(p) \/ Reread(p)
    BY <1>2, <1>3, ReadsGiveNothing, StillPending DEF Read, Reread
<1>4. CASE Explain(p)
    <2>1. given' = given
        BY <1>4 DEF Explain, Settles
    <2> QED
        BY <1>2, <1>4, <2>1, StillPending DEF Explain
<1>8. CASE Locked(p)
    <2>1. /\ open'[q] = open[q] /\ unsaved'[q] = unsaved[q]
          /\ UNCHANGED <<deployment, table, given, applied, used, clock, job>>
        BY <1>1, <1>8, OwnLocked DEF Ends, TypeOK
    <2> QED
        BY <1>2, <2>1, StillPending
<1>5. CASE Insert(p) \/ Write(p)
    <2>1. open[q] = NoTransaction /\ applied' = applied
        BY <1>1, <1>5 DEF Insert, Write, Free
    <2>2. \E w : unsaved' = [unsaved EXCEPT ![p] = @ \cup w]
        BY <1>1, <1>5 DEF Insert, Write, Store, Executes
    <2>3. unsaved'[q] = unsaved[q]
        BY <2>2 DEF TypeOK
    <2> QED
        BY <1>2, <2>1, <2>3, IdlePending DEF PendingOf, Executed
<1>6. CASE Commit(p)
    <2>1. open[p] # NoTransaction
        BY <1>6 DEF Commit, PendingOf, Executed
    <2>2. open[q] = NoTransaction
        BY <1>1, <2>1 DEF OpenForWriters
    <2>3. unsaved'[q] = unsaved[q] /\ applied' \subseteq applied \cup {p}
        BY <1>1, <1>6 DEF Commit, Commits, Ends, TypeOK, PendingOf
    <2> QED
        BY <1>2, <2>2, <2>3, IdlePending DEF PendingOf, Executed
<1>7. CASE Rollback(p)
    <2>1. open'[q] = open[q] /\ unsaved'[q] = unsaved[q]
        BY <1>1, <1>7 DEF Rollback, Ends, TypeOK
    <2>2. given' = given
        BY <1>7 DEF Rollback, Settles
    <2> QED
        BY <1>2, <1>7, <2>1, <2>2, StillPending DEF Rollback
<1> QED
    BY <1>3, <1>4, <1>5, <1>6, <1>7, <1>8, OwnSteps

\* Each open transaction stays the table, but for one row.
LEMMA PendingKept ==
    ASSUME AnyInv, ~deployment.shared, Pending, RowsIdentified, Explained, [Next]_vars
    PROVE  Pending'
<1> USE DEF AnyInv
<1>1. ASSUME NEW p \in Requests, Step(p) PROVE Pending'
    <2>1. ASSUME NEW q \in Requests \ {p} PROVE PendingOf(q)'
        BY <1>1, OthersPending DEF Pending
    <2>2. PendingOf(p)'
        <3>1. /\ Connection(p) = p /\ p \in Connections /\ PendingOf(p) /\ ExplainedOf(p)
              /\ pc[p] # "answered" /\ (pc[p] # "committed" => p \notin applied)
            BY <1>1, OwnConnection, OwnSteps
            DEF Pending, PendingOf, Explained, Read, Insert, Write, Locked, Commit, Rollback,
                Reread, Explain
        <3>2. CASE Read(p)
            BY <3>1, <3>2, StepMoves, IdlePending DEF Read, Executed, PendingOf
        <3>3. CASE Insert(p) \/ Write(p)
            BY <3>1, <3>3, StatementPending
        <3>4. CASE Reread(p) \/ Explain(p)
            BY <3>1, <3>4, StepMoves, IdlePending DEF Reread, Explain, Executed, PendingOf
        <3>7. CASE Locked(p)
            <4>1. unsaved'[p] = {} /\ applied' = applied
                BY <3>7, OwnLocked DEF Ends, TypeOK
            <4> QED
                BY <3>1, <3>7, <4>1, StepMoves, IdlePending DEF Executed
        <3>5. CASE Commit(p)
            <4>1. unsaved'[p] = {} /\ applied' = applied \cup unsaved[p]
                BY <3>1, <3>5 DEF Commit, Commits, Ends, TypeOK
            <4>2. CASE pc[p] = "wrote"
                BY <3>1, <3>5, <4>1, <4>2, StepMoves, IdlePending DEF Executed
            <4>3. CASE pc[p] = "missed"
                <5>1. p \notin unsaved[p]
                    BY <3>1, <4>3 DEF PendingOf
                <5> QED
                    BY <3>1, <3>5, <4>1, <4>3, <5>1, StepMoves, IdlePending DEF Executed
            <4> QED
                BY <3>5, <4>2, <4>3 DEF Commit
        <3>6. CASE Rollback(p)
            <4>1. unsaved'[p] = {} /\ applied' = applied
                BY <3>1, <3>6 DEF Rollback, Ends, TypeOK
            <4> QED
                BY <3>1, <3>6, <4>1, StepMoves, IdlePending DEF Executed
        <3> QED
            BY <1>1, <3>2, <3>3, <3>4, <3>5, <3>6, <3>7, OwnSteps
    <2> QED
        BY <2>1, <2>2 DEF Pending
<1>2. ASSUME NEW c \in Connections, Crash(c) PROVE Pending'
    <2>1. ASSUME NEW q \in Requests PROVE PendingOf(q)'
        <3>1. Connection(q) = q /\ q \in Connections /\ PendingOf(q)
            BY OwnConnection DEF Pending
        <3>2. CASE q = c /\ pc[q] # "answered"
            <4>1. pc'[q] = "answered" /\ unsaved'[q] = {}
                BY <1>2, <3>1, <3>2 DEF Crash, Ends, TypeOK
            <4> QED
                BY <3>1, <4>1, IdlePending DEF Executed
        <3>3. CASE pc[q] = "answered"
            <4>1. pc'[q] = "answered" /\ unsaved'[q] \subseteq unsaved[q]
                BY <1>2, <3>1, <3>3 DEF Crash, Ends, TypeOK
            <4>2. unsaved'[q] = {}
                BY <3>1, <3>3, <4>1 DEF PendingOf
            <4> QED
                BY <3>1, <4>1, <4>2, IdlePending DEF Executed
        <3>4. CASE q # c
            <4>1. pc'[q] = pc[q] /\ open'[q] = open[q] /\ unsaved'[q] = unsaved[q]
                BY <1>2, <3>1, <3>4 DEF Crash, Ends, TypeOK
            <4> QED
                BY <1>2, <3>1, <4>1, StillPending DEF Crash
        <3> QED
            BY <3>2, <3>3, <3>4
    <2> QED
        BY <2>1 DEF Pending
<1>3. CASE UNCHANGED vars
    BY <1>3, StillPending DEF vars, Pending
<1> QED
    BY <1>1, <1>2, <1>3 DEF Next, Done

\* The committed rows, while nothing is committed.
LEMMA RowsStill ==
    ASSUME TypeOK, RowsIdentified, UNCHANGED <<deployment, table, given>>,
           used \subseteq used', clock' \in {clock, clock + 1}
    PROVE  RowsIdentified'
<1>1. \A x \in given : x.row.version \in Nat
    BY DEF TypeOK, Resource
<1>2. \A d : RowOf(d)' = RowOf(d)
    BY DEF RowOf
<1>3. clock \in Nat
    BY DEF TypeOK
<1>4. deployment.library => \A x \in given : x.row.version < clock'
    BY <1>1, <1>3 DEF RowsIdentified
<1> QED
    BY <1>2, <1>4 DEF RowsIdentified, Rows

\* What a commit makes of the committed rows: the row of its request is another.
LEMMA CommitOwn ==
    ASSUME AnyInv, ~deployment.shared, NEW p \in Requests, PendingOf(p), Commit(p)
    PROVE  /\ pc[p] = "missed" => table' = table /\ p \notin applied'
           /\ pc[p] = "wrote" => p \in applied' /\ table' = open[p] /\ p \notin applied
           /\ \A k \in Keys \ {key[p]} : table'[k] = table[k]
           /\ given' = given \cup Rows(table') /\ applied' \subseteq applied \cup {p}
           /\ UNCHANGED <<deployment, clock, used, job, key, current>>
<1>1. Connection(p) = p /\ p \in Connections
    BY OwnConnection DEF AnyInv
<1>2. open[p] # NoTransaction /\ table' = open[p] /\ applied' = applied \cup unsaved[p]
    BY <1>1 DEF Commit, Commits, View, PendingOf, Executed
<1>3. pc[p] = "wrote" => p \in unsaved[p]
    <2>1. ~RolledBack(p)
        BY DEF RolledBack
    <2> QED
        BY <1>1, <2>1 DEF AnyInv, Saved, PendingOf
<1> QED
    BY <1>2, <1>3 DEF Commit, PendingOf

\* A key and a version keep telling one committed row.
LEMMA RowsKept ==
    ASSUME AnyInv, ~deployment.shared, Pending, RowsIdentified, [Next]_vars
    PROVE  RowsIdentified'
<1> USE DEF AnyInv
<1>1. ASSUME NEW p \in Requests, Step(p) PROVE RowsIdentified'
    <2>1. CASE Read(p) \/ Reread(p)
        BY <2>1, ReadsGiveNothing, RowsStill DEF Read, Reread
    <2>2. CASE Locked(p) \/ Explain(p) \/ Rollback(p)
        <3>1. given' = given
            BY <2>2 DEF Locked, Explain, Rollback, Settles
        <3> QED
            BY <2>2, <3>1, RowsStill DEF Locked, Explain, Rollback
    <2>3. CASE Insert(p) \/ Write(p)
        BY <2>3, RowsStill DEF Insert, Write
    <2>4. CASE Commit(p)
        <3>1. CASE pc[p] = "missed"
            <4>1. table' = table /\ given' = given
                BY <2>4, <3>1, CommitOwn DEF Pending, RowsIdentified
            <4> QED
                BY <2>4, <4>1, RowsStill DEF Commit
        <3>2. CASE pc[p] = "wrote"
            <4> DEFINE k == key[p]
                       r == open[p][k]
            <4>1. /\ k \in Keys /\ PendingOf(p) /\ table' = open[p] /\ given' = given \cup Rows(table')
                  /\ UNCHANGED <<deployment, clock, used, key>>
                  /\ \A l \in Keys \ {k} : table'[l] = table[l]
                BY <2>4, <3>2, CommitOwn DEF Pending, Started
            <4>2. /\ \A x \in given : x.row.version \in Nat /\ x.key \in Keys
                  /\ r # NoResource => r.version \in Nat
                <5>1. TypeOK'
                    BY TypesKept
                <5>2. r \in Resource \cup {NoResource}
                    BY <4>1, <5>1 DEF TypeOK, Tables
                <5> QED
                    BY <5>2 DEF TypeOK, Resource
            <4>3. \A x \in given' : x \in given \/ (x = [key |-> k, row |-> r] /\ r # NoResource)
                BY <4>1 DEF RowsIdentified, Rows
            <4>4. r # NoResource => NewRow(p, r)
                BY <3>2, <4>1 DEF PendingOf
            <4>5. \A d : RowOf(d)' = RowOf(d)
                BY <4>1 DEF RowOf
            <4> HIDE DEF r
            <4>6. Rows(table') \subseteq given'
                BY <4>1
            <4>7. \A x, y \in given' : x.key = y.key /\ x.row.version = y.row.version => x = y
                BY <4>3, <4>4 DEF RowsIdentified, NewRow
            <4>8. \A x \in given' : RowOf(x.row.data) = x.row.data
                BY <4>3, <4>4 DEF RowsIdentified, NewRow
            <4>9. deployment.library => \A x \in given' : x.row.version < clock
                BY <4>3, <4>4 DEF RowsIdentified, NewRow
            <4>10. ASSUME ~deployment.library, NEW x \in given'
                   PROVE  /\ x.key \in used
                          /\ table'[x.key] # NoResource => x.row.version <= table'[x.key].version
                <5>1. CASE x.key = k
                    <6>1. table'[x.key] = r
                        BY <4>1, <5>1 DEF r
                    <6> QED
                        BY <4>2, <4>3, <4>4, <4>10, <5>1, <6>1 DEF RowsIdentified, NewRow
                <5>2. CASE x.key # k
                    BY <4>1, <4>2, <4>3, <4>10, <5>2 DEF RowsIdentified
                <5> QED
                    BY <5>1, <5>2
            <4> QED
                BY <4>1, <4>5, <4>6, <4>7, <4>8, <4>9, <4>10 DEF RowsIdentified, Rows
        <3> QED
            BY <2>4, <3>1, <3>2 DEF Commit
    <2> QED
        BY <1>1, <2>1, <2>2, <2>3, <2>4, OwnSteps
<1>2. ASSUME NEW c \in Connections, Crash(c) PROVE RowsIdentified'
    BY <1>2, RowsStill DEF Crash
<1>3. CASE UNCHANGED vars
    BY <1>3, RowsStill DEF vars
<1> QED
    BY <1>1, <1>2, <1>3 DEF Next, Done

\* A request that was overtaken stays so.
LEMMA OvertakenStays ==
    ASSUME AnyInv, NEW q \in Requests, key'[q] = key[q], job' = job,
           applied \subseteq applied', \A w \in applied : key'[w] = key[w]
    PROVE  (Overtaken(q) => Overtaken(q)') /\ (Deleted(q) => Deleted(q)')
BY DEF Overtaken, Deleted

\* What is applied or committed stays so, under its key.
LEMMA KeysStay ==
    ASSUME AnyInv, Pending, NEW p \in Requests, Step(p)
    PROVE  /\ applied \subseteq applied' /\ given \subseteq given'
           /\ \A w \in applied : key'[w] = key[w]
<1> USE DEF AnyInv
<1>1. applied \subseteq applied' /\ given \subseteq given'
    BY DEF Step, Read, Insert, Write, Commit, Commits, Rollback, Reread, Explain, LockedRead, Locked,
           CommitLocked, Cancel, Settles
<1>2. Insert(p) => p \notin applied
    BY DEF Insert, Pending, PendingOf
<1>3. ~Insert(p) => key' = key
    BY DEF Step, Read, Write, Commit, Rollback, Reread, Explain, LockedRead, Locked, CommitLocked,
           Cancel
<1>4. \A w \in Requests \ {p} : key'[w] = key[w]
    BY OthersUnmoved
<1> QED
    BY <1>1, <1>2, <1>3, <1>4 DEF TypeOK

\* A request that no longer finds what it read was overtaken.
LEMMA ExplainedKept ==
    ASSUME AnyInv, ~deployment.shared, Pending, RowsIdentified, Explained, [Next]_vars
    PROVE  Explained'
<1> USE DEF AnyInv
<1>1. ASSUME NEW p \in Requests, Step(p) PROVE Explained'
    <2>a. /\ applied \subseteq applied' /\ given \subseteq given'
          /\ \A w \in applied : key'[w] = key[w]
        BY <1>1, KeysStay
    <2>b. \A q \in Requests :
              key'[q] = key[q] => (Overtaken(q) => Overtaken(q)') /\ (Deleted(q) => Deleted(q)')
        <3>1. job' = job
            BY <1>1, OwnSteps DEF Read, Insert, Write, Locked, Commit, Rollback, Reread, Explain
        <3> QED
            BY <2>a, <3>1, OvertakenStays
    <2>c. ~Commit(p) => table' = table
        BY <1>1, OwnSteps DEF Read, Insert, Write, Locked, Rollback, Reread, Explain
    <2>1. ASSUME NEW q \in Requests \ {p} PROVE ExplainedOf(q)'
        <3>1. /\ pc'[q] = pc[q] /\ key'[q] = key[q] /\ current'[q] = current[q]
              /\ answer'[q] = answer[q] /\ job'[q] = job[q]
            BY <1>1, OthersUnmoved
        <3>2. /\ ExplainedOf(q) /\ (Wrote(q)' <=> Wrote(q))
              /\ (Overtaken(q) => Overtaken(q)') /\ (Deleted(q) => Deleted(q)')
            BY <2>b, <3>1 DEF Explained, Wrote
        <3>3. pc[q] \in {"writing", "missed", "explain", "committed"} =>
                  \/ table'[key[q]] = table[key[q]]
                  \/ Overtaken(q)' /\ (table'[key[q]] = NoResource => Deleted(q)')
            <4>1. CASE ~Commit(p)
                BY <2>c, <4>1
            <4>2. CASE Commit(p)
                <5>1. pc[q] \in {"writing", "missed", "explain", "committed"} => key[q] \in Keys
                    BY DEF Started
                <5>2. CASE key[q] = key[p] /\ pc[p] = "wrote"
                    <6>1. p \in applied' /\ key'[p] = key[p] /\ job' = job /\ table' = open[p]
                        BY <4>2, <5>2, CommitOwn DEF Pending
                    <6>2. table'[key[q]] = NoResource => job[p].op = "delete"
                        BY <5>2, <6>1 DEF Pending, PendingOf
                    <6> QED
                        BY <3>1, <5>2, <6>1, <6>2 DEF Overtaken, Deleted
                <5>3. CASE pc[p] = "missed"
                    BY <4>2, <5>3, CommitOwn DEF Pending
                <5>4. CASE key[q] # key[p]
                    BY <4>2, <5>1, <5>4, CommitOwn DEF Pending
                <5> QED
                    BY <4>2, <5>2, <5>3, <5>4 DEF Commit
            <4> QED
                BY <4>1, <4>2
        <3> QED
            BY <2>a, <3>1, <3>2, <3>3 DEF ExplainedOf
    <2>2. ExplainedOf(p)'
        <3>0. /\ Connection(p) = p /\ (pc[p] \notin Executed => View(p) = table)
              /\ ExplainedOf(p) /\ PendingOf(p)
            BY OwnConnection DEF Explained, Pending
        <3>1. CASE Read(p)
            <4>1. /\ key[p] = job[p].key /\ key'[p] = key[p] /\ key[p] \in Keys /\ job' = job
                  /\ job[p].op # "post" /\ current'[p] = table[key[p]] /\ table' = table
                BY <3>0, <3>1 DEF Read, Started, TypeOK, Executed
            <4>2. pc'[p] = "writing" => current'[p] # NoResource
                BY <3>0, <3>1, <4>1 DEF Read, Goto, Settles, TypeOK, Writes, Executed
            <4>3. pc'[p] = "writing" => [key |-> key'[p], row |-> current'[p]] \in given'
                BY <2>a, <4>1, <4>2, TableGiven
            <4>4. pc'[p] = "writing" \/ ~Wrote(p)'
                BY <3>0, <3>1, <4>1 DEF Read, Goto, TypeOK, Wrote, Executed
            <4>5. pc'[p] = "writing" => answer'[p] = NoAnswer
                BY <3>1, StepMoves DEF Started, Read
            <4>6. pc'[p] \in {"writing", "answered"}
                BY <3>1, StepMoves
            <4> QED
                BY <4>1, <4>2, <4>3, <4>4, <4>5, <4>6 DEF ExplainedOf, NoAnswer, Answer
        <3>2. CASE Insert(p)
            <4>1. pc'[p] \in {"wrote", "refused"} /\ answer'[p] = NoAnswer
                BY <3>2, StepMoves DEF Insert, Started
            <4> QED
                BY <4>1 DEF ExplainedOf, NoAnswer, Answer
        <3>3. CASE Write(p)
            <4>1. pc'[p] \in Executed /\ answer'[p] = NoAnswer /\ key' = key
                BY <3>3, StepMoves DEF Write, Started
            <4>2. pc'[p] = "missed" => ~RowMatches(table[key[p]], current[p].version)
                BY <3>0, <3>3 DEF Write, Store, Goto, TypeOK, Executed
            <4>5. table' = table /\ (table[key[p]] = NoResource => Deleted(p)')
                BY <2>b, <3>0, <3>3, <4>1 DEF Write, ExplainedOf
            <4>3. current[p] # NoResource
                BY <3>3 DEF Write, Started, Wrote, Writes
            <4>4. pc'[p] = "missed" => Overtaken(p)'
                BY <2>b, <3>0, <3>3, <4>1, <4>2, <4>3 DEF Write, ExplainedOf, RowMatches
            <4> QED
                BY <4>1, <4>4, <4>5 DEF ExplainedOf, NoAnswer, Answer, Executed
        <3>4. CASE Locked(p) \/ Rollback(p)
            BY <3>4, StepMoves DEF ExplainedOf
        <3>5. CASE Commit(p)
            <4>1. key' = key
                BY <3>5 DEF Commit
            <4>2. CASE pc[p] = "missed"
                <5>1. pc'[p] = "explain" /\ answer'[p] = NoAnswer /\ Overtaken(p)'
                    BY <2>b, <3>0, <3>5, <4>1, <4>2, StepMoves DEF Started, ExplainedOf
                <5>2. table' = table
                    BY <3>0, <3>5, <4>2, CommitOwn
                <5>3. table[key[p]] = NoResource => Deleted(p)'
                    BY <2>b, <3>0, <4>1, <4>2 DEF ExplainedOf
                <5> QED
                    BY <4>1, <5>1, <5>2, <5>3 DEF ExplainedOf, NoAnswer, Answer
            <4>3. CASE pc[p] = "wrote"
                <5>1. answer[p] = NoAnswer /\ table' = open[p]
                    BY <3>0, <3>5, <4>3, CommitOwn DEF Started
                <5>2. pc'[p] = "committed" => job[p].op # "delete"
                    BY <3>5, <4>3 DEF Commit, Goto, TypeOK
                <5>3. pc'[p] = "committed" => table'[key'[p]] # NoResource
                    BY <3>0, <4>1, <4>3, <5>1, <5>2 DEF PendingOf
                <5>4. pc'[p] \in {"committed", "answered"} /\ answer'[p].status \in {"none", "ok"}
                    BY <3>5, <4>3, <5>1, StepMoves DEF NoAnswer, Answer
                <5> QED
                    BY <5>3, <5>4 DEF ExplainedOf
            <4> QED
                BY <3>5, <4>2, <4>3 DEF Commit
        <3>6. CASE Reread(p)
            <4>1. pc[p] = "committed" /\ key' = key /\ pc'[p] = "answered"
                BY <3>6, StepMoves DEF Reread
            <4>2. answer'[p].status = (IF table[key[p]] = NoResource THEN "notFound" ELSE "ok")
                BY <3>0, <3>6 DEF Reread, Settles, Answer, TypeOK, Executed
            <4>3. table[key[p]] = NoResource => Overtaken(p)' /\ Deleted(p)'
                BY <2>b, <3>0, <4>1 DEF ExplainedOf, Overtaken, Deleted
            <4> QED
                BY <4>1, <4>2, <4>3 DEF ExplainedOf
        <3>7. CASE Explain(p)
            <4>1. key' = key /\ pc'[p] = "answered" /\ Overtaken(p)
                BY <3>0, <3>7, StepMoves DEF Explain, ExplainedOf
            <4>2. table[key[p]] = NoResource => Deleted(p)
                BY <3>0, <3>7 DEF Explain, ExplainedOf
            <4>3. answer'[p].status = (IF table[key[p]] = NoResource
                                       THEN "notFound" ELSE "preconditionFailed")
                BY <3>0, <3>7 DEF Explain, Settles, Answer, TypeOK, Executed
            <4> QED
                BY <2>b, <4>1, <4>2, <4>3 DEF ExplainedOf
        <3> QED
            BY <1>1, <3>1, <3>2, <3>3, <3>4, <3>5, <3>6, <3>7, OwnSteps
    <2> QED
        BY <2>1, <2>2 DEF Explained
<1>2. ASSUME NEW c \in Connections, Crash(c) PROVE Explained'
    <2>1. ASSUME NEW q \in Requests PROVE ExplainedOf(q)'
        <3>1. UNCHANGED <<table, applied, given, key, current, job>>
            BY <1>2 DEF Crash
        <3>2. CASE Connection(q) = c /\ pc[q] # "answered"
            <4>1. pc'[q] = "answered" /\ answer'[q].status = "lost"
                BY <1>2, <3>2 DEF Crash, Answer, TypeOK
            <4> QED
                BY <4>1 DEF ExplainedOf
        <3>3. CASE ~(Connection(q) = c /\ pc[q] # "answered")
            <4>1. pc'[q] = pc[q] /\ answer'[q] = answer[q] /\ ExplainedOf(q)
                BY <1>2, <3>3 DEF Crash, TypeOK, Explained
            <4> QED
                BY <3>1, <4>1 DEF ExplainedOf, Overtaken, Deleted, Wrote
        <3> QED
            BY <3>2, <3>3
    <2> QED
        BY <2>1 DEF Explained
<1>3. CASE UNCHANGED vars
    BY <1>3 DEF vars, Explained, ExplainedOf, Overtaken, Deleted, Wrote
<1> QED
    BY <1>1, <1>2, <1>3 DEF Next, Done

\* A server that starts finds rows that were committed, each under a key of its
\* own, and no request has written yet.
LEMMA OwnAtStart == Init => OwnInv
<1> SUFFICES ASSUME Init, ~deployment.shared PROVE Pending /\ RowsIdentified /\ Explained
    BY DEF OwnInv
<1> USE DEF Init
<1>1. Pending
    BY DEF Pending, PendingOf, Executed, Connections
<1>2. RowsIdentified
    <2>1. \A x \in given : x.key \in Keys /\ x.row = table[x.key] /\ x.row # NoResource
        BY DEF Rows
    <2>2. \A x, y \in given : x.key = y.key => x = y
        BY <2>1 DEF Rows
    <2>3. \A x \in given : x.row \in Resource /\ x.row.version < clock
        <3>1. table \in Contents /\ table \in Tables
            BY ScenarioType, SqlAssumption
        <3> QED
            BY <2>1, <3>1, SqlAssumption DEF Tables
    <2>4. \A x \in given : RowOf(x.row.data) = x.row.data
        <3>1. ASSUME NEW x \in given PROVE RowOf(x.row.data) = x.row.data
            <4>1. x.row.data \in [Attrs -> Values \cup {Missing}]
                BY <2>3 DEF Resource
            <4>2. /\ \A a \in Attrs : x.row.data[a] = Missing \/ a \in Columns
                  /\ \A a \in Columns : x.row.data[a] = Missing => Default[a] = Missing
                BY <2>1, ScenarioType, SqlAssumption
            <4> QED
                BY <4>1, <4>2 DEF RowOf
        <3> QED
            BY <3>1
    <2>5. \A x \in given : x.row.version \in Nat
        BY <2>3 DEF Resource
    <2> QED
        BY <2>1, <2>2, <2>3, <2>4, <2>5 DEF RowsIdentified
<1>3. Explained
    BY DEF Explained, ExplainedOf, NoAnswer, Answer
<1> QED
    BY <1>1, <1>2, <1>3

\* Both invariants hold at every instant.
THEOREM OwnConnections == Spec => [](AnyInv /\ OwnInv)
<1>1. Init => AnyInv /\ OwnInv
    BY InvAtStart, OwnAtStart
<1>2. AnyInv /\ OwnInv /\ [Next]_vars => (AnyInv /\ OwnInv)'
    <2> SUFFICES ASSUME AnyInv, OwnInv, [Next]_vars PROVE (AnyInv /\ OwnInv)'
        OBVIOUS
    <2>1. AnyInv'
        BY TypesKept, StartedKept, OpenKept, SavedKept DEF AnyInv
    <2>2. deployment' = deployment
        BY DeploymentStays
    <2>3. ~deployment.shared => Pending' /\ RowsIdentified' /\ Explained'
        BY PendingKept, RowsKept, ExplainedKept DEF OwnInv
    <2> QED
        BY <2>1, <2>2, <2>3 DEF OwnInv
<1> QED
    BY <1>1, <1>2, PTL DEF Spec

\* An entity tag stands for one content: the version a write of the four storages
\* gives is one its row never had, even when it takes a deleted row's identifier.
THEOREM EtagsMeanContents == Spec => []EtagMeansContent
<1>1. OwnInv => EtagMeansContent
    BY DEF OwnInv, RowsIdentified, EtagMeansContent
<1> QED
    BY <1>1, OwnConnections, PTL

\* A 404 or a 412 that answers a write has a cause: another request, applied,
\* wrote the row since it was read, and deleted it if the answer is a 404.
THEOREM FailuresHaveCauses == Spec => []FailuresExplained
<1>1. OwnInv => FailuresExplained
    BY DEF OwnInv, Explained, ExplainedOf, Overtaken, Deleted, FailuresExplained
<1> QED
    BY <1>1, OwnConnections, PTL

\* No update is lost: the version in the WHERE clause makes what a request writes
\* a change of what is stored, whatever other processes wrote since it read it.
THEOREM UpdatesAreNotLost == Spec => NoLostUpdate
<1> DEFINE Kept ==
        \A k \in Keys :
            table[k] # NoResource /\ table'[k] \notin {table[k], NoResource} /\ ~deployment.shared =>
                \E p \in Requests :
                    /\ key[p] = k /\ p \in applied' \ applied
                    /\ \A a \in Attrs \ DOMAIN job[p].data :
                           table'[k].data[a] = table[k].data[a]
<1>1. AnyInv /\ OwnInv /\ [Next]_vars => [Kept]_vars
    <2> SUFFICES ASSUME AnyInv, OwnInv, Next,
                        NEW k \in Keys, table[k] # NoResource,
                        table'[k] \notin {table[k], NoResource}, ~deployment.shared
                 PROVE  \E p \in Requests :
                            /\ key[p] = k /\ p \in applied' \ applied
                            /\ \A a \in Attrs \ DOMAIN job[p].data :
                                   table'[k].data[a] = table[k].data[a]
        BY DEF Kept
    <2>1. PICK p \in Requests : Commit(p)
        BY OwnSteps DEF AnyInv, Next, Read, Insert, Write, Locked, Rollback, Reread, Explain, Crash,
                        Done, vars
    <2>2. PendingOf(p)
        BY DEF OwnInv, Pending
    <2>3. pc[p] = "wrote" /\ key[p] = k
        BY <2>1, <2>2, CommitOwn DEF Commit
    <2>4. p \in applied' \ applied /\ table' = open[p]
        BY <2>1, <2>2, <2>3, CommitOwn
    <2>5. \A a \in Attrs \ DOMAIN job[p].data : table'[k].data[a] = table[k].data[a]
        BY <2>2, <2>3, <2>4 DEF PendingOf, NewRow
    <2> QED
        BY <2>3, <2>4, <2>5
<1> QED
    BY <1>1, OwnConnections, PTL DEF Spec, NoLostUpdate

-----------------------------------------------------------------------------
(***************************************************************************)
(* With a connection for each process, a commit is the whole effect of one *)
(* request.                                                                *)
(***************************************************************************)

\* An open transaction is what its request makes of the committed rows.
PendingApplies ==
    ~deployment.shared =>
        \A p \in Requests : pc[p] = "wrote" => Applies(job[p], key[p], table, open[p])

\* What a request makes of rows that nobody writes stays so.
LEMMA AppliesStill ==
    ASSUME NEW p \in Requests, UNCHANGED <<deployment, table, job>>,
           Applies(job[p], key'[p], table, open'[p])
    PROVE  Applies(job[p], key[p], table, open[p])'
<1>1. \A d : RowOf(d)' = RowOf(d)
    BY DEF RowOf
<1> QED
    BY <1>1 DEF Applies

\* A row that was stored in a transaction is there, and clashes with no other.
LEMMA StoreApplies ==
    ASSUME AnyInv, ~deployment.shared, NEW p \in Requests, pc[p] \notin Executed,
           NEW k \in Keys, NEW d \in [Attrs -> Values \cup {Missing}],
           Store(p, k, d, table[k]), pc'[p] = "wrote"
    PROVE  /\ ~Taken(table, k, RowOf(d)) /\ open'[p][k] # NoResource
           /\ open'[p] = [table EXCEPT ![k] = [data |-> RowOf(d), version |-> open'[p][k].version]]
<1> USE DEF AnyInv
<1>1. Connection(p) = p /\ p \in Connections /\ View(p) = table /\ table \in Tables
    BY OwnConnection DEF TypeOK
<1>2. PICK row \in Resource : row = [data |-> RowOf(d), version |-> NextVersion(table[k])]
    BY <1>1, RowType DEF Tables
<1>3. row # NoResource
    BY NoResourceAssumption
<1>4. ~Taken(table, k, RowOf(d)) /\ Executes(p, [table EXCEPT ![k] = row], {p})
    BY <1>1, <1>2 DEF Store, Goto, TypeOK
<1>5. open'[p] = [table EXCEPT ![k] = row]
    BY <1>1, <1>4 DEF Executes, TypeOK
<1>6. open'[p][k] = row /\ row = [data |-> RowOf(d), version |-> open'[p][k].version]
    BY <1>1, <1>2, <1>5 DEF Tables
<1> QED
    BY <1>3, <1>4, <1>5, <1>6

\* A statement makes of the committed rows what its request asks.
LEMMA StatementApplies ==
    ASSUME AnyInv, OwnInv, ~deployment.shared, NEW p \in Requests, Insert(p) \/ Write(p),
           pc'[p] = "wrote"
    PROVE  Applies(job[p], key'[p], table, open'[p])
<1> USE DEF AnyInv
<1>1. pc[p] \notin Executed /\ RowsIdentified /\ ExplainedOf(p)
    BY DEF Insert, Write, Executed, OwnInv, Explained
<1>2. Connection(p) = p /\ p \in Connections /\ View(p) = table
    BY <1>1, OwnConnection
<1>3. CASE Insert(p)
    <2>1. PICK i \in NewIds(table, job[p].key[1]) :
              /\ Store(p, <<job[p].key[1], i>>, job[p].data, NoResource)
              /\ key' = [key EXCEPT ![p] = <<job[p].key[1], i>>]
        BY <1>2, <1>3 DEF Insert
    <2> DEFINE k == <<job[p].key[1], i>>
    <2>2. /\ job[p].key[1] \in Types /\ job[p].data \in [Attrs -> Values \cup {Missing}]
          /\ job[p].op = "post"
        BY <1>3, JobType DEF TypeOK, Insert, Keys
    <2>3. k \in Keys /\ table[k] = NoResource
        BY <1>1, <2>2, NewIdsAreFree
    <2>4. key'[p] = k
        BY <2>1 DEF TypeOK
    <2> HIDE DEF k
    <2>5. Store(p, k, job[p].data, table[k])
        BY <2>1, <2>3 DEF k
    <2> QED
        BY <1>1, <2>2, <2>3, <2>4, <2>5, StoreApplies DEF Applies
<1>4. CASE Write(p)
    <2>1. /\ pc[p] = "writing" /\ key[p] \in Keys /\ key'[p] = key[p] /\ current[p] \in Resource
          /\ job[p] \in Jobs /\ job[p].op # "post" /\ Writes(job[p], current[p])
        BY <1>4 DEF Write, Started, TypeOK, Wrote, Writes
    <2>2. RowMatches(table[key[p]], current[p].version)
        BY <1>2, <1>4 DEF Write, Goto, TypeOK
    <2>3. table[key[p]] = current[p]
        BY <1>1, <2>1, <2>2, RowWasRead
    <2>4. CASE job[p].op = "delete"
        <3>1. Executes(p, [table EXCEPT ![key[p]] = NoResource], {p})
            BY <1>2, <1>4, <2>2, <2>4 DEF Write
        <3>2. open'[p] = [table EXCEPT ![key[p]] = NoResource]
            BY <1>2, <3>1 DEF Executes, TypeOK
        <3> QED
            BY <2>1, <2>3, <2>4, <3>2 DEF Applies
    <2>5. CASE job[p].op # "delete"
        <3> DEFINE d == NewData(job[p], current[p].data)
        <3>1. d \in [Attrs -> Values \cup {Missing}]
            BY <2>1, NewDataType DEF Resource
        <3>2. Store(p, key[p], d, table[key[p]])
            BY <1>2, <1>4, <2>2, <2>5 DEF Write
        <3> HIDE DEF d
        <3>3. /\ ~Taken(table, key[p], RowOf(d)) /\ open'[p][key[p]] # NoResource
              /\ open'[p] = [table EXCEPT
                     ![key[p]] = [data |-> RowOf(d), version |-> open'[p][key[p]].version]]
            BY <1>1, <2>1, <3>1, <3>2, StoreApplies
        <3>4. d = NewData(job[p], table[key[p]].data)
            BY <2>3 DEF d
        <3> QED
            BY <2>1, <2>3, <2>5, <3>3, <3>4 DEF Applies
    <2> QED
        BY <2>4, <2>5
<1> QED
    BY <1>3, <1>4

\* While a transaction is open, nobody else commits.
LEMMA PendingAppliesKept ==
    AnyInv /\ OwnInv /\ PendingApplies /\ [Next]_vars => PendingApplies'
<1> SUFFICES ASSUME AnyInv, OwnInv, PendingApplies, [Next]_vars PROVE PendingApplies'
    OBVIOUS
<1>b. deployment' = deployment
    BY DeploymentStays
<1> SUFFICES ASSUME ~deployment.shared
             PROVE  \A q \in Requests :
                        pc'[q] = "wrote" => Applies(job[q], key[q], table, open[q])'
    BY <1>b DEF PendingApplies
<1> USE DEF AnyInv
<1>a. \A q \in Requests : /\ Connection(q) = q /\ q \in Connections
                          /\ pc[q] = "wrote" => open[q] # NoTransaction
    BY OwnConnection DEF OwnInv, Pending, PendingOf, Executed
<1>1. ASSUME NEW p \in Requests, Step(p), NEW q \in Requests, pc'[q] = "wrote"
      PROVE  Applies(job[q], key[q], table, open[q])'
    <2>1. CASE q = p
        <3>1. Insert(p) \/ Write(p)
            BY <1>1, <2>1, OwnSteps, StepMoves DEF Read, Locked, Commit, Rollback, Reread, Explain
        <3>2. UNCHANGED <<deployment, table, job>>
            BY <3>1 DEF Insert, Write
        <3> QED
            BY <1>1, <2>1, <3>1, <3>2, StatementApplies, AppliesStill
    <2>2. CASE q # p
        <3>1. pc[q] = "wrote" /\ key'[q] = key[q] /\ open[q] # NoTransaction
            BY <1>1, <1>a, <2>2, OthersUnmoved
        <3>2. Applies(job[q], key[q], table, open[q])
            BY <3>1 DEF PendingApplies
        <3>3. open[p] = NoTransaction
            BY <1>a, <2>2, <3>1 DEF OpenForWriters
        <3>4. ~Commit(p) /\ ~Rollback(p)
            BY <3>3 DEF Commit, Rollback, OwnInv, Pending, PendingOf, Executed
        <3>5. UNCHANGED <<deployment, table, job>> /\ open'[q] = open[q]
            <4>1. CASE Insert(p)
                BY <1>a, <2>2, <4>1 DEF Insert, Store, Executes, TypeOK
            <4>2. CASE Write(p)
                BY <1>a, <2>2, <4>2 DEF Write, Store, Executes, TypeOK
            <4>3. CASE Read(p) \/ Reread(p) \/ Explain(p)
                BY <4>3 DEF Read, Reread, Explain
            <4>4. CASE Locked(p)
                BY <1>a, <2>2, <4>4, OwnLocked DEF Ends, TypeOK
            <4> QED
                BY <1>1, <3>4, <4>1, <4>2, <4>3, <4>4, OwnSteps
        <3> QED
            BY <3>1, <3>2, <3>5, AppliesStill
    <2> QED
        BY <2>1, <2>2
<1>2. ASSUME NEW c \in Connections, Crash(c), NEW q \in Requests, pc'[q] = "wrote"
      PROVE  Applies(job[q], key[q], table, open[q])'
    <2>1. pc[q] = "wrote" /\ q # c
        BY <1>2, <1>a DEF Crash
    <2>2. UNCHANGED <<deployment, table, job, key>> /\ open'[q] = open[q]
        BY <1>2, <1>a, <2>1 DEF Crash, Ends, TypeOK
    <2> QED
        BY <2>1, <2>2, AppliesStill DEF PendingApplies
<1>3. CASE UNCHANGED vars
    BY <1>3, AppliesStill DEF vars, PendingApplies
<1> QED
    BY <1>1, <1>2, <1>3 DEF Next, Done

\* Requests of processes that have their own connections take effect one at a time,
\* when they commit: what one read before its transaction, and the version in the
\* WHERE clause confirmed, is what it would have read at that instant.
THEOREM CommitsAreServed == Spec => ServedAtCommit
<1> DEFINE Served ==
        ~deployment.shared =>
            \/ UNCHANGED <<table, applied>>
            \/ \E p \in Requests \ applied :
                   applied' = applied \cup {p} /\ Applies(job[p], key[p], table, table')
<1>1. AnyInv /\ OwnInv /\ PendingApplies /\ [Next]_vars => [Served]_vars
    <2> SUFFICES ASSUME AnyInv, OwnInv, PendingApplies, Next, ~deployment.shared,
                        ~UNCHANGED <<table, applied>>
                 PROVE  \E p \in Requests \ applied :
                            applied' = applied \cup {p} /\ Applies(job[p], key[p], table, table')
        BY DEF Served
    <2>1. PICK p \in Requests : Commit(p)
        BY OwnSteps DEF AnyInv, Next, Read, Insert, Write, Locked, Rollback, Reread, Explain, Crash,
                        Done, vars
    <2>2. PendingOf(p)
        BY DEF OwnInv, Pending
    <2>3. applied \subseteq applied'
        BY <2>1 DEF Commit, Commits
    <2>4. pc[p] = "wrote"
        BY <2>1, <2>2, <2>3, CommitOwn DEF Commit
    <2>5. p \in applied' \ applied /\ applied' \subseteq applied \cup {p} /\ table' = open[p]
        BY <2>1, <2>2, <2>4, CommitOwn
    <2>6. applied' = applied \cup {p}
        BY <2>3, <2>5
    <2> QED
        BY <2>4, <2>5, <2>6 DEF PendingApplies
<1>2. Init => PendingApplies
    BY DEF Init, PendingApplies
<1> QED
    BY <1>1, <1>2, PendingAppliesKept, OwnConnections, PTL DEF Spec, ServedAtCommit
=============================================================================
