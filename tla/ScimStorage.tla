---------------------------- MODULE ScimStorage ----------------------------
(***************************************************************************)
(* The contract of a storage, as storage.py states it and as the server    *)
(* relies on it: a map from keys to resources, whose writes are atomic,    *)
(* refuse to share a unique value, and give each resource they store a     *)
(* version no write gave before.                                           *)
(***************************************************************************)
EXTENDS ScimResources

CONSTANTS
    Versions,   \* the versions the storage can give
    Loads       \* the contents the program may start the storage with

VARIABLES
    store,   \* the resource stored under each key
    spent,   \* the versions given so far
    reply    \* the last answer

contractVars == <<store, spent, reply>>

Reply(op, outcome, keys) == [op |-> op, outcome |-> outcome, keys |-> keys]

Init ==
    /\ store = [k \in Keys |-> NoResource]
    /\ spent \in SUBSET Versions
    /\ reply = Reply("start", "done", {})

(***************************************************************************)
(* A write that is stored spends a fresh version; a write refused after    *)
(* its version was drawn may have spent one too.                           *)
(***************************************************************************)
Stores(op, k, d) ==
    /\ reply' = Reply(op, "done", {k})
    /\ \E v \in Versions \ spent :
          /\ store' = [store EXCEPT ![k] = [data |-> d, version |-> v]]
          /\ spent' = spent \cup {v}

Refuses(op, outcome) ==
    /\ reply' = Reply(op, outcome, {})
    /\ UNCHANGED store
    /\ spent' \in {spent} \cup {spent \cup {v} : v \in Versions}

Create(k, d) ==
    /\ store[k] = NoResource
    /\ IF Clashes(store, k, d) THEN Refuses("create", "uniqueness")
                               ELSE Stores("create", k, d)

Update(k, expected) ==
    \/ store[k] = NoResource /\ Refuses("update", "notFound")
    \/ /\ store[k] # NoResource /\ ~VersionMet(store[k], expected)
       /\ Refuses("update", "preconditionFailed")
    \/ /\ store[k] # NoResource /\ VersionMet(store[k], expected)
       /\ \E d \in Data(k[1]) :
             IF Clashes(store, k, d) THEN Refuses("update", "uniqueness")
                                     ELSE Stores("update", k, d)

Delete(k, expected) ==
    \/ store[k] = NoResource /\ Refuses("delete", "notFound")
    \/ /\ store[k] # NoResource /\ ~VersionMet(store[k], expected)
       /\ Refuses("delete", "preconditionFailed")
    \/ /\ store[k] # NoResource /\ VersionMet(store[k], expected)
       /\ reply' = Reply("delete", "done", {k})
       /\ store' = [store EXCEPT ![k] = NoResource]
       /\ UNCHANGED spent

Get(k) ==
    /\ reply' = IF store[k] = NoResource THEN Reply("get", "notFound", {})
                                         ELSE Reply("get", "done", {k})
    /\ UNCHANGED <<store, spent>>

\* Every matching resource of the searched types, and nothing else.
Search(types, a, v) ==
    /\ reply' = Reply("search", "done",
           {k \in Keys : k[1] \in types /\ store[k] # NoResource /\ Matches(store[k], a, v)})
    /\ UNCHANGED <<store, spent>>

\* The program replaces the content, with resources whose versions count as given.
Load(content) ==
    /\ store' = content
    /\ spent' = spent \cup {content[k].version : k \in {q \in Keys : content[q] # NoResource}}
    /\ reply' = Reply("load", "done", {})

Next ==
    \/ \E k \in Keys : Get(k) \/ \E d \in Data(k[1]) : Create(k, d)
    \/ \E k \in Keys, e \in Versions \cup {NoVersion} : Update(k, e) \/ Delete(k, e)
    \/ \E types \in SUBSET Types, a \in Attrs, v \in Values : Search(types, a, v)
    \/ \E content \in Loads : Load(content)

Spec == Init /\ [][Next]_contractVars
=============================================================================
