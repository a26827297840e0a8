---------------------------- MODULE StablePages ----------------------------
(***************************************************************************)
(* The stable pages storage.py promises to a client that pages with        *)
(* cursors (doc/explanation/pagination.rst): whatever changes meanwhile, a *)
(* page holds the resources that stand at the places it goes over, no      *)
(* place is gone over twice, and the paging ends when nothing stands at a  *)
(* place that was not.                                                     *)
(***************************************************************************)
EXTENDS Naturals

CONSTANTS
    Resources,   \* the resources that may be stored
    Places,      \* where a resource can stand in the order of the search
    Absent       \* the resource is not stored

VARIABLES
    place,    \* where each resource stands
    seen,     \* how many times each resource was on a page
    steady,   \* the resources that stood at the same place since the first page
    passed,   \* the places the pages read so far went over
    more      \* whether a page remains

pagesVars == <<place, seen, steady, passed, more>>

Stored == {r \in Resources : place[r] # Absent}

AllPassed == \A r \in Stored : place[r] \in passed

\* The first page has been read.
Init ==
    /\ place \in [Resources -> Places \cup {Absent}]
    /\ passed \in SUBSET Places
    /\ seen = [r \in Resources |-> IF place[r] \in passed THEN 1 ELSE 0]
    /\ steady = Stored
    /\ more \in BOOLEAN
    /\ ~more => AllPassed

ReadPage ==
    /\ more
    /\ passed' \in SUBSET Places /\ passed \subseteq passed'
    /\ seen' = [r \in Resources |->
           IF place[r] \in passed' \ passed THEN seen[r] + 1 ELSE seen[r]]
    /\ more' \in BOOLEAN
    /\ UNCHANGED <<place, steady>>
    /\ ~more' => AllPassed'

\* The client turns back, and pages over the places before its last page.
Restart ==
    /\ seen' = [r \in Resources |-> 0]
    /\ passed' \in SUBSET Places
    /\ steady' = {r \in Stored : place[r] \notin passed'}
    /\ more' = TRUE
    /\ UNCHANGED place

\* Another client creates, updates or deletes a resource.
Change(r) ==
    /\ \E p \in Places \cup {Absent} : place' = [place EXCEPT ![r] = p]
    /\ steady' = steady \ {r}
    /\ UNCHANGED <<seen, passed, more>>

Next == ReadPage \/ Restart \/ \E r \in Resources : Change(r)

Spec == Init /\ [][Next]_pagesVars
-----------------------------------------------------------------------------
\* A resource that exists during the whole paging, and whose sort value does
\* not change, is returned exactly once (storage.py, ScimStorage.search).
SeenExactlyOnce == \A r \in steady : seen[r] <= 1 /\ (~more => seen[r] = 1)
=============================================================================
