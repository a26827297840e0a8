----------------------------- MODULE ScimServer -----------------------------
(***************************************************************************)
(* What a server promises its clients: each request takes effect at one    *)
(* instant, between its arrival and its answer, as if it were alone.  The  *)
(* one exception: a write may be refused with a 412 because another        *)
(* request changed its resource meanwhile.                                 *)
(***************************************************************************)
EXTENDS Requests

CONSTANTS
    Contents,      \* what the storage may hold at the start
    FirstVersion   \* the next version the storage gives at the start

VARIABLES
    store,      \* the resource stored under each key
    versions,   \* the next version
    job,        \* what each request asks
    answer,     \* the answer to each request, once it has one
    overtaken   \* the requests whose resource was changed by another one

serverVars == <<store, versions, job, answer, overtaken>>

Init ==
    /\ store \in Contents
    /\ versions = FirstVersion
    /\ job \in [Requests -> Jobs]
    /\ answer = [p \in Requests |-> NoAnswer]
    /\ overtaken = {}

Replies(p, a) == answer' = [answer EXCEPT ![p] = a]

\* Data d is stored under key k for request p, or refused for a unique value.
Stores(p, k, d) ==
    \/ /\ Clashes(store, k, d)
       /\ Replies(p, Answer("uniqueness", NoResource))
       /\ versions' \in {versions, versions + 1}
       /\ UNCHANGED store
    \/ /\ ~Clashes(store, k, d)
       /\ store' = [store EXCEPT ![k] = [data |-> d, version |-> versions]]
       /\ versions' = versions + 1
       /\ Replies(p, Answer("ok", store'[k]))

Erases(p, k) ==
    /\ store' = [store EXCEPT ![k] = NoResource]
    /\ Replies(p, Answer("ok", NoResource))
    /\ UNCHANGED versions

Effect(p) ==
    LET k == job[p].key
    IN  \/ /\ job[p].op = "post"
           /\ \E i \in Ids : store[<<k[1], i>>] = NoResource
                             /\ Stores(p, <<k[1], i>>, job[p].data)
        \/ /\ job[p].op # "post"
           /\ ~Writes(job[p], store[k])
           /\ Replies(p, ReadAnswer(job[p], store[k]))
           /\ UNCHANGED <<store, versions>>
        \/ /\ job[p].op # "post"
           /\ Writes(job[p], store[k])
           /\ IF job[p].op = "delete" THEN Erases(p, k)
              ELSE Stores(p, k, NewData(job[p], store[k].data))

\* A change of a resource may overtake the requests on it that have no answer.
Serve(p) ==
    /\ answer[p] = NoAnswer
    /\ Effect(p)
    /\ overtaken' \subseteq overtaken
           \cup {q \in Requests : store'[job[q].key] # store[job[q].key]}
    /\ UNCHANGED job

Conflict(p) ==
    /\ answer[p] = NoAnswer
    /\ p \in overtaken
    /\ Replies(p, Answer("preconditionFailed", NoResource))
    /\ overtaken' \subseteq overtaken
    /\ UNCHANGED <<store, versions, job>>

Next == \E p \in Requests : Serve(p) \/ Conflict(p)

Spec == Init /\ [][Next]_serverVars
=============================================================================
