---------------------------- MODULE MCSqlStorage ----------------------------
(***************************************************************************)
(* Four requests on one user or two, over each of the storages and of the  *)
(* deployments.  They create a user whose name is free or taken, rename,   *)
(* change or delete one, so that a write may be refused, overtaken or find *)
(* its row gone, and a deleted row may give its identifier away.  With     *)
(* processes that share connections, they may meet each other's locks.     *)
(***************************************************************************)
EXTENDS SqlStorage

MCTypes == {"User"}
MCIds == 1 .. 4
\* The library has no column for the nickName, and one for active, true unless set.
MCAttrs == {"userName", "nick", "active"}
MCColumns == {"userName", "active"}
MCDefault == [a \in MCAttrs |-> IF a = "active" THEN "a" ELSE Missing]
MCUniqueAttrs == {"userName"}
MCDeclares == [t \in MCTypes |-> MCAttrs]
MCValues == {"a", "b"}
MCComparable == [a \in MCAttrs |-> [v \in MCValues |-> v]]

User(name, nick, active) ==
    [a \in MCAttrs |-> CASE a = "userName" -> name [] a = "nick" -> nick
                         [] a = "active" -> active]
Only(a, v) == [b \in {a} |-> v]

A == <<"User", 1>>

JobOf(op, data, ifMatch) ==
    [op |-> op, key |-> A, data |-> data, valid |-> TRUE,
     ifMatch |-> ifMatch, ifNoneMatch |-> NoHeader]

\* Two creations, of which the first takes a name that is taken, and a change or a
\* deletion of user A.
MCJobs == <<
    JobOf("post", User("a", Missing, "b"), NoHeader),
    JobOf("post", User("b", Missing, Missing), NoHeader),
    JobOf("put", User("b", "a", Missing), NoHeader),
    JobOf("patch", Only("nick", "b"), NoHeader),
    JobOf("delete", <<>>, {1}) >>

Get == JobOf("get", <<>>, NoHeader)

AllJobs == {MCJobs[i] : i \in DOMAIN MCJobs} \cup {Get}

One == [k \in Keys |-> IF k = A THEN [data |-> User("a", Missing, "b"), version |-> 1]
                                ELSE NoResource]
MCContents == { One,
    [One EXCEPT ![<<"User", 2>>] = [data |-> User("b", Missing, "a"), version |-> 1]] }

\* The processes of an asynchronous deployment: all requests in one, the first apart,
\* or the first two apart.
CONSTANTS w1, w2, w3

OnOne == [p \in Requests |-> w1]
OnTwo == [OnOne EXCEPT ![1] = w2]
OnThree == [OnTwo EXCEPT ![2] = w3]

Deployment(library, shared, process) ==
    [library |-> library, shared |-> shared, process |-> process]

Scenario(d, j, t) == [deployment |-> d, job |-> j, table |-> t]

\* There is an identifier for each creation.
Fits(scenario) ==
    Cardinality(Rows(scenario.table))
        + Cardinality({p \in Requests : scenario.job[p].op = "post"}) <= Cardinality(Ids)

\* The storages, with a connection for each request or one process.
OneGroup == {Deployment(l, s, OnOne) : l, s \in BOOLEAN}

(***************************************************************************)
(* Three requests write, and the fourth, if there is one, reads.  Requests *)
(* are interchangeable if they are in one process, or each has a           *)
(* connection of its own: only one order of their jobs is listed.          *)
(***************************************************************************)
Writing(f) == [p \in Requests |-> IF p \in 1 .. 3 THEN MCJobs[f[p]] ELSE Get]

Picks(jobs) == {f \in [1 .. 3 -> jobs] : f[2] <= f[3]}

OnePicks == {f \in Picks(DOMAIN MCJobs) : f[1] <= f[2]}

Races ==
    {Scenario(d, Writing(f), t) : d \in OneGroup, t \in MCContents, f \in OnePicks}
    \cup
    {Scenario(Deployment(FALSE, TRUE, OnTwo), Writing(f), One) : f \in Picks({1, 2, 4})}

\* What is enough to meet locks: a creation, a change and a read.
LockJobs == <<MCJobs[2], MCJobs[4], Get>>

Locking(f) == [p \in Requests |-> LockJobs[f[p]]]

LockPicks == [Requests -> DOMAIN LockJobs]

Locks ==
    {Scenario(Deployment(FALSE, TRUE, OnThree), Locking(f), One) :
         f \in {g \in LockPicks : g[1] <= g[2] /\ g[3] <= g[4]}}

MCScenarios == {s \in Races \cup Locks : Fits(s)}

\* The asynchronous storages, in one process.
SharedScenarios == {s \in Races : Fits(s) /\ s.deployment.shared /\ s.deployment.process = OnOne}

\* The asynchronous storages, in two processes.
LockScenarios ==
    {Scenario(Deployment(l, TRUE, OnTwo), Locking(f), One) : l \in BOOLEAN, f \in LockPicks}
=============================================================================
