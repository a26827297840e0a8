---------------------------- MODULE CursorPaging ----------------------------
(***************************************************************************)
(* A client reads a collection page by page with the cursors of the        *)
(* in-memory storage, while other clients change it.  The storage sorts    *)
(* the collection anew for each page (memory.py, _page); the service seals *)
(* the position of the next page with the query, the count and the time it *)
(* belongs to (cursor.py), and keeps no state.                             *)
(*                                                                         *)
(* Time is counted in half seconds: a cursor holds whole ones.             *)
(***************************************************************************)
EXTENDS Naturals, FiniteSets

CONSTANTS
    Resources,    \* the resources that may match the search
    Identifier,   \* the identifier of each of them, unique (RFC 7643, section 3.1)
    Listed,       \* the order in which the storage walks them
    SortValues,   \* the values of the attribute the search sorts by
    Missing,      \* the attribute has no value
    Absent,       \* the resource is not stored
    Queries,      \* the searches a client may send: "ascending", "descending"
    Counts,       \* the counts a client may ask for
    NoCount,      \* neither the client nor the service bounds the page
    Timeout,      \* cursorTimeout, in seconds
    NoCursor,     \* the page has no such cursor
    MaxTime,      \* bound: how long time goes on, in half seconds
    MaxChanges    \* bound: the changes of other clients

\* The keys the resources are ordered by: whether the value is missing, the
\* value, and the identifier.
SortKeys == Nat \X Nat \X Nat

\* A position in that order, and what a cursor holds.
Positions == [way : {"first", "next", "previous"}, key : SortKeys]
Cursors == [query : Queries, count : Counts, time : Nat, position : Positions]

ASSUME PagingAssumption ==
    /\ IsFiniteSet(Resources)
    /\ Absent \notin SortKeys /\ NoCursor \notin Cursors
    /\ SortValues \subseteq Nat /\ Identifier \in [Resources -> Nat]
    /\ Listed \in [Resources -> Nat]
    /\ \A r, s \in Resources :
           Listed[r] = Listed[s] \/ Identifier[r] = Identifier[s] => r = s
    /\ Queries \subseteq {"ascending", "descending"}
    /\ Counts \subseteq (Nat \ {0}) \cup {NoCount} /\ NoCount \notin Nat
    /\ Timeout \in Nat /\ MaxTime \in Nat /\ MaxChanges \in Nat

VARIABLES
    value,      \* the sort value of each stored resource
    now,        \* the time
    issued,     \* when the last page was read, and its cursors sealed
    query,      \* the search the client is paging
    count,      \* the count the client asks for
    page,       \* the last page, with the cursors of its neighbours
    walk,       \* which neighbour of the page the client asks for
    seen,       \* how many times each resource was on a page
    steady,     \* the resources nobody changed since the first page
    expired,    \* whether the client was told that its cursor expired
    changes     \* how many changes the other clients made

vars == <<value, now, issued, query, count, page, walk, seen, steady, expired, changes>>

Stored == {r \in Resources : value[r] # Absent}

-----------------------------------------------------------------------------
(***************************************************************************)
(* The page of the storage.                                                *)
(***************************************************************************)

\* Mutant: the resources are ordered by their sort value only.
SortKeyOfValue(r) ==
    IF value[r] = Missing THEN <<1, 0, 0>> ELSE <<0, value[r], 0>>

\* _sort_key: missing values last, then the value, then the identifier.
SortKey(r) ==
    IF value[r] = Missing THEN <<1, 0, Identifier[r]>> ELSE <<0, value[r], Identifier[r]>>

\* The order of Python tuples.
Less(x, y) ==
    \/ x[1] < y[1]
    \/ x[1] = y[1] /\ x[2] < y[2]
    \/ x[1] = y[1] /\ x[2] = y[2] /\ x[3] < y[3]

Precedes(q, x, y) == IF q = "descending" THEN Less(y, x) ELSE Less(x, y)

\* The sort is stable: equal keys stay in the order the resources are walked.
Ahead(q, r, s) ==
    \/ Precedes(q, SortKey(r), SortKey(s))
    \/ SortKey(r) = SortKey(s) /\ Listed[r] < Listed[s]

\* How many resources come before this one.
Rank(q, r) == Cardinality({s \in Stored : Ahead(q, s, r)})

Least(x, y) == IF x < y THEN x ELSE y

\* The end of a page that starts after so many resources, and the start of one
\* that ends after so many.
EndOf(n, start, total) == IF n = NoCount THEN total ELSE Least(start + n, total)
StartOf(n, end) == IF n = NoCount \/ end < n THEN 0 ELSE end - n

\* A position: the page starts after, or ends before, a sort key.
Position(way, key) == [way |-> way, key |-> key]

FirstPosition == Position("first", <<0, 0, 0>>)

\* Mutant: the page before a position is cut from the first resource on.
BoundsFromFirst(q, n, position) ==
    LET total == Cardinality(Stored)
        before == Cardinality({r \in Stored : Precedes(q, SortKey(r), position.key)})
        at == Cardinality({r \in Stored : SortKey(r) = position.key})
    IN  CASE position.way = "first"    -> <<0, EndOf(n, 0, total)>>
          [] position.way = "next"     -> <<before + at, EndOf(n, before + at, total)>>
          [] position.way = "previous" -> <<0, EndOf(n, 0, before)>>

\* _bounds: how many resources come before the page, and before its end.
Bounds(q, n, position) ==
    LET total == Cardinality(Stored)
        before == Cardinality({r \in Stored : Precedes(q, SortKey(r), position.key)})
        at == Cardinality({r \in Stored : SortKey(r) = position.key})
    IN  CASE position.way = "first"    -> <<0, EndOf(n, 0, total)>>
          [] position.way = "next"     -> <<before + at, EndOf(n, before + at, total)>>
          [] position.way = "previous" -> <<StartOf(n, before), before>>

\* Mutant: the time of a cursor is rounded to the nearest second.
SealRounded(q, n, position) ==
    [query |-> q, count |-> n, time |-> (now + 1) \div 2, position |-> position]

\* The cursor the service seals for a position.
Seal(q, n, position) == [query |-> q, count |-> n, time |-> now \div 2, position |-> position]

\* The resources between two bounds, and the key of the one at a rank.
Between(q, bounds) == {r \in Stored : bounds[1] <= Rank(q, r) /\ Rank(q, r) < bounds[2]}

KeyAt(q, rank) == SortKey(CHOOSE r \in Stored : Rank(q, r) = rank)

\* _page: the resources between two bounds, and the positions of its neighbours.
PageBetween(q, n) == [bounds \in Nat \X Nat |->
    LET found == Between(q, bounds)
    IN  [resources |-> found,
         next |-> IF found # {} /\ bounds[2] < Cardinality(Stored)
                  THEN Seal(q, n, Position("next", KeyAt(q, bounds[2] - 1))) ELSE NoCursor,
         previous |-> IF found # {} /\ bounds[1] > 0
                      THEN Seal(q, n, Position("previous", KeyAt(q, bounds[1]))) ELSE NoCursor]]

PageOf(q, n, position) == PageBetween(q, n)[Bounds(q, n, position)]

-----------------------------------------------------------------------------
(***************************************************************************)
(* The paging of the client.                                               *)
(***************************************************************************)

Sees(p) == seen' = [r \in Resources |-> IF r \in p.resources THEN seen[r] + 1 ELSE seen[r]]

\* The first page is read when the paging starts, in the middle of a second.
Init ==
    /\ value \in [Resources -> SortValues \cup {Missing, Absent}]
    /\ now = 1 /\ issued = now
    /\ query \in Queries /\ count \in Counts
    /\ page = PageOf(query, count, FirstPosition)
    /\ walk = "next"
    /\ seen = [r \in Resources |-> IF r \in page.resources THEN 1 ELSE 0]
    /\ steady = Stored
    /\ expired = FALSE
    /\ changes = 0

\* Mutant: a cursor serves any query with its count.
RefusalOfAnyQuery(cursor, q, n) ==
    IF cursor.count # n THEN "invalidCount"
    ELSE IF now - 2 * cursor.time > 2 * Timeout THEN "expiredCursor"
    ELSE "none"

\* Mutant: the digest of a query holds its cursor, so it is never the same again.
RefusalOfEveryCursor(cursor, q, n) ==
    IF cursor # NoCursor THEN "invalidCursor" ELSE "none"

\* Cursors.open, for a client that sends the cursor with a query and a count.
Refusal(cursor, q, n) ==
    IF cursor.query # q THEN "invalidCursor"
    ELSE IF cursor.count # n THEN "invalidCount"
    ELSE IF now - 2 * cursor.time > 2 * Timeout THEN "expiredCursor"
    ELSE "none"

Cursor == IF walk = "previous" THEN page.previous ELSE page.next

\* The client has no use for a cursor that expired.
Paging == Cursor # NoCursor /\ ~expired

\* The client asks for the page of a cursor.  A cursor sent with another query
\* or another count than its own is refused, and may be sent again.
Follow(q, n) ==
    LET refusal == Refusal(Cursor, q, n)
    IN  /\ Paging
        /\ UNCHANGED <<value, now, walk, steady, changes>>
        /\ \/ /\ refusal = "none"
              /\ page' = PageOf(q, n, Cursor.position)
              /\ query' = q /\ count' = n /\ issued' = now
              /\ Sees(page')
              /\ UNCHANGED expired
           \/ /\ refusal = "expiredCursor"
              /\ expired' = TRUE
              /\ UNCHANGED <<page, issued, query, count, seen>>
           \/ /\ refusal \in {"invalidCursor", "invalidCount"}
              /\ UNCHANGED <<page, issued, query, count, seen, expired>>

\* Having read the last page, the client pages back to the first one.
Turn ==
    /\ walk = "next" /\ page.next = NoCursor /\ page.previous # NoCursor
    /\ ~expired
    /\ walk' = "previous"
    /\ seen' = [r \in Resources |-> 0]
    /\ steady' = {r \in Stored : Precedes(query, SortKey(r), page.previous.position.key)}
    /\ UNCHANGED <<value, now, issued, query, count, page, expired, changes>>

\* Another client creates, updates or deletes a resource.
Change(r) ==
    /\ changes < MaxChanges
    /\ \E v \in (SortValues \cup {Missing, Absent}) \ {value[r]} :
           value' = [value EXCEPT ![r] = v]
    /\ steady' = steady \ {r}
    /\ changes' = changes + 1
    /\ UNCHANGED <<now, issued, query, count, page, walk, seen, expired>>

Tick ==
    /\ now < MaxTime
    /\ now' = now + 1
    /\ UNCHANGED <<value, issued, query, count, page, walk, seen, steady, expired,
                   changes>>

Ended == ~Paging

Next ==
    \/ \E q \in Queries, n \in Counts : Follow(q, n)
    \/ Turn
    \/ \E r \in Resources : Change(r)
    \/ Tick

Spec == Init /\ [][Next]_vars

\* The client goes on paging, with the query and the count it started with.
FairSpec == Spec /\ WF_vars(Follow(query, count))
-----------------------------------------------------------------------------
(***************************************************************************)
(* Properties.                                                             *)
(***************************************************************************)

\* A resource that exists during the whole paging, and whose sort value does
\* not change, is returned exactly once, whatever is created, deleted or moved
\* around it (storage.py, "The cursors give stable pages").
SeenExactlyOnce ==
    \A r \in steady : seen[r] <= 1 /\ (Cursor = NoCursor => seen[r] = 1)

\* The places of the pages read so far, up to the one the cursor starts from.
Places == {0, 1} \X (SortValues \cup {0}) \X {Identifier[r] : r \in Resources}

Passed ==
    {p \in Places :
        Cursor # NoCursor =>
            IF walk = "next" THEN ~Precedes(query, Cursor.position.key, p)
                             ELSE ~Precedes(query, p, Cursor.position.key)}

\* Where each resource stands in the order of the search.
Place == [r \in Resources |-> IF value[r] = Absent THEN Absent ELSE SortKey(r)]

\* The pages are the stable pages of the contract of a storage: no place in the
\* order of the search is gone over twice, and none is left out.
Contract == INSTANCE StablePages WITH
    place <- Place,
    passed <- Passed,
    more <- Cursor # NoCursor

PagesStable == Contract!Spec

\* Two neighbours meet: while nothing changes, paging back then forward again
\* leads to the first resource of the page, or to what stands there now.
NeighboursMeet ==
    page.previous # NoCursor =>
        LET key == page.previous.position.key
            before == PageOf(query, count, page.previous.position)
            after == {r \in Stored : ~Precedes(query, SortKey(r), key)}
            again == PageOf(query, count, before.next.position).resources
        IN  before.resources # {} =>
                /\ before.next = NoCursor <=> after = {}
                /\ before.next # NoCursor =>
                      /\ again \subseteq after
                      /\ \A r \in after \ again, s \in again : Ahead(query, s, r)

\* Each time it pages, the client reaches the last page, or is told that its
\* cursor expired.
PagingEnds == []<>Ended

\* A page served from a cursor is never older than cursorTimeout, and a cursor
\* is refused as expired at most a second before: it holds whole seconds, and
\* its age is compared with fractions of one (cursor.py, seal and open).
ExpiryWithinASecond ==
    [][/\ issued' # issued => now - issued <= 2 * Timeout
       /\ expired' # expired => now - issued > 2 * Timeout - 2]_vars
=============================================================================
