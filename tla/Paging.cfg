\* The pages a client reads forward, then back, while the collection changes,
\* up to the last page or to the expiry of its cursor.
SPECIFICATION FairSpec
CONSTANTS
    u1 = u1
    u2 = u2
    u3 = u3
    Resources = {u1, u2, u3}
    Identifier <- MCIdentifier
    Listed <- MCIdentifier
    SortValues = {1}
    Missing = Missing
    Absent = Absent
    Queries = {"ascending", "descending"}
    NoCount = NoCount
    Counts = {1, 2, NoCount}
    Timeout = 1
    NoCursor = NoCursor
    MaxTime = 4
    MaxChanges = 2
INVARIANTS
    SeenExactlyOnce
    NeighboursMeet
PROPERTIES
    PagesStable
    PagingEnds
    ExpiryWithinASecond
CHECK_DEADLOCK FALSE
