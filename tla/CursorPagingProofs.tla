------------------------ MODULE CursorPagingProofs -------------------------
(***************************************************************************)
(* The cursors of the in-memory storage give the stable pages of the       *)
(* contract, for any number of resources: the rank of a resource among the *)
(* sorted ones tells on which side of a position it is, so a page holds    *)
(* what stands between the position it starts from and the one it leads    *)
(* to, whatever was inserted or removed on either side of them.            *)
(***************************************************************************)
EXTENDS CursorPaging, FiniteSetTheorems, TLAPS

-----------------------------------------------------------------------------
(***************************************************************************)
(* The order of the resources.                                             *)
(***************************************************************************)

\* The keys are in a strict total order, in both directions.
LEMMA TotalOrder ==
    ASSUME NEW q, NEW x \in SortKeys, NEW y \in SortKeys, NEW z \in SortKeys
    PROVE  /\ ~Precedes(q, x, x)
           /\ Precedes(q, x, y) => ~Precedes(q, y, x)
           /\ Precedes(q, x, y) /\ Precedes(q, y, z) => Precedes(q, x, z)
           /\ x # y => Precedes(q, x, y) \/ Precedes(q, y, x)
<1>1. /\ x = <<x[1], x[2], x[3]>> /\ x[1] \in Nat /\ x[2] \in Nat /\ x[3] \in Nat
      /\ y = <<y[1], y[2], y[3]>> /\ y[1] \in Nat /\ y[2] \in Nat /\ y[3] \in Nat
      /\ z = <<z[1], z[2], z[3]>> /\ z[1] \in Nat /\ z[2] \in Nat /\ z[3] \in Nat
    BY DEF SortKeys
<1>2. ~Less(x, x) /\ (Less(x, y) => ~Less(y, x))
    BY <1>1 DEF Less
<1>3. (Less(x, y) /\ Less(y, z) => Less(x, z)) /\ (Less(z, y) /\ Less(y, x) => Less(z, x))
    BY <1>1 DEF Less
<1>4. x # y => Less(x, y) \/ Less(y, x)
    <2>1. x # y => x[1] # y[1] \/ x[2] # y[2] \/ x[3] # y[3]
        BY <1>1
    <2> QED
        BY <1>1, <2>1 DEF Less
<1> QED
    BY <1>2, <1>3, <1>4 DEF Precedes

\* The sort values are those of the attribute.
Valued == value \in [Resources -> SortValues \cup {Missing, Absent}]

\* Each stored resource has a place of its own.
LEMMA OwnPlace ==
    ASSUME Valued
    PROVE  /\ \A r \in Stored : SortKey(r) \in Places /\ SortKey(r) \in SortKeys
           /\ Places \subseteq SortKeys
           /\ \A r, s \in Stored : SortKey(r) = SortKey(s) => r = s
           /\ IsFiniteSet(Stored)
<1>1. /\ \A r \in Resources : Identifier[r] \in Nat
      /\ SortValues \subseteq Nat /\ IsFiniteSet(Resources)
      /\ \A r, s \in Resources : Identifier[r] = Identifier[s] => r = s
    BY PagingAssumption
<1>2. IsFiniteSet(Stored)
    BY <1>1, FS_Subset DEF Stored
<1>3. \A r \in Stored : SortKey(r) \in Places
    <2> SUFFICES ASSUME NEW r \in Stored PROVE SortKey(r) \in Places
        OBVIOUS
    <2>1. r \in Resources /\ value[r] \in SortValues \cup {Missing}
        BY DEF Stored, Valued
    <2> QED
        BY <2>1 DEF SortKey, Places
<1>4. Places \subseteq SortKeys
    <2>1. {0, 1} \subseteq Nat /\ SortValues \cup {0} \subseteq Nat
          /\ {Identifier[r] : r \in Resources} \subseteq Nat
        BY <1>1
    <2> QED
        BY <2>1 DEF Places, SortKeys
<1>5. \A r, s \in Stored : SortKey(r) = SortKey(s) => r = s
    <2> SUFFICES ASSUME NEW r \in Stored, NEW s \in Stored, SortKey(r) = SortKey(s) PROVE r = s
        OBVIOUS
    <2>1. SortKey(r)[3] = Identifier[r] /\ SortKey(s)[3] = Identifier[s]
        BY DEF SortKey
    <2> QED
        BY <1>1, <2>1 DEF Stored
<1> QED
    BY <1>2, <1>3, <1>4, <1>5

\* The stable sort orders the stored resources by their keys alone.
LEMMA AheadIsBefore ==
    ASSUME Valued, NEW q, NEW r \in Stored, NEW s \in Stored
    PROVE  Ahead(q, r, s) <=> Precedes(q, SortKey(r), SortKey(s))
<1>1. SortKey(r) = SortKey(s) => r = s
    BY OwnPlace
<1>2. ~(Listed[r] < Listed[r])
    BY PagingAssumption DEF Stored
<1> QED
    BY <1>1, <1>2 DEF Ahead

\* The resources before a place, and those up to it.
Before(q, key) == {s \in Stored : Precedes(q, SortKey(s), key)}
UpTo(q, key) == {s \in Stored : ~Precedes(q, key, SortKey(s))}

\* The rank of a resource is the number of those before its own place.
LEMMA RankCounts ==
    ASSUME Valued, NEW q, NEW r \in Stored
    PROVE  /\ Rank(q, r) = Cardinality(Before(q, SortKey(r)))
           /\ Rank(q, r) \in Nat
<1>1. {s \in Stored : Ahead(q, s, r)} = Before(q, SortKey(r))
    BY AheadIsBefore DEF Before
<1>2. IsFiniteSet(Before(q, SortKey(r)))
    BY OwnPlace, FS_Subset DEF Before
<1> QED
    BY <1>1, <1>2, FS_CardinalityType DEF Rank

\* A set of resources that is closed downwards holds those whose rank is below
\* its size.
LEMMA RankBelowSize ==
    ASSUME Valued, NEW q, NEW S \in SUBSET Stored, NEW r \in Stored,
           \A s \in S, t \in Stored : Precedes(q, SortKey(t), SortKey(s)) => t \in S
    PROVE  Rank(q, r) < Cardinality(S) <=> r \in S
<1> DEFINE B == Before(q, SortKey(r))
<1>1. IsFiniteSet(S) /\ IsFiniteSet(B) /\ Cardinality(S) \in Nat /\ Cardinality(B) \in Nat
    BY OwnPlace, FS_Subset, FS_CardinalityType DEF Before
<1>2. CASE r \in S
    <2>1. B \subseteq S
        BY <1>2 DEF Before
    <2>2. r \notin B
        BY OwnPlace, TotalOrder DEF Before
    <2>3. Cardinality(B) <= Cardinality(S) /\ Cardinality(B) # Cardinality(S)
        BY <1>1, <1>2, <2>1, <2>2, FS_Subset
    <2> QED
        BY <1>1, <1>2, <2>3, RankCounts
<1>3. CASE r \notin S
    <2>1. \A s \in S : Precedes(q, SortKey(s), SortKey(r))
        <3> SUFFICES ASSUME NEW s \in S PROVE Precedes(q, SortKey(s), SortKey(r))
            OBVIOUS
        <3>1. SortKey(s) # SortKey(r) /\ ~Precedes(q, SortKey(r), SortKey(s))
            BY <1>3, OwnPlace
        <3>2. SortKey(s) \in SortKeys /\ SortKey(r) \in SortKeys
            BY OwnPlace
        <3> QED
            BY <3>1, <3>2, TotalOrder
    <2>2. S \subseteq B
        BY <2>1 DEF Before
    <2>3. Cardinality(S) <= Cardinality(B)
        BY <1>1, <2>2, FS_Subset
    <2> QED
        BY <1>1, <1>3, <2>3, RankCounts
<1> QED
    BY <1>2, <1>3

\* The rank of a resource tells on which side of a place it stands.
LEMMA RankTellsSide ==
    ASSUME Valued, NEW q, NEW key \in SortKeys, NEW r \in Stored
    PROVE  /\ Rank(q, r) < Cardinality(Before(q, key)) <=> Precedes(q, SortKey(r), key)
           /\ Rank(q, r) < Cardinality(UpTo(q, key)) <=> ~Precedes(q, key, SortKey(r))
<1>1. \A s, t \in Stored : Precedes(q, SortKey(t), SortKey(s)) /\ s \in Before(q, key) =>
          t \in Before(q, key)
    <2> SUFFICES ASSUME NEW s \in Stored, NEW t \in Stored,
                        Precedes(q, SortKey(t), SortKey(s)), Precedes(q, SortKey(s), key)
                 PROVE  Precedes(q, SortKey(t), key)
        BY DEF Before
    <2>1. SortKey(s) \in SortKeys /\ SortKey(t) \in SortKeys
        BY OwnPlace
    <2> QED
        BY <2>1, TotalOrder
<1>2. \A s, t \in Stored : Precedes(q, SortKey(t), SortKey(s)) /\ s \in UpTo(q, key) =>
          t \in UpTo(q, key)
    <2> SUFFICES ASSUME NEW s \in Stored, NEW t \in Stored,
                        Precedes(q, SortKey(t), SortKey(s)), Precedes(q, key, SortKey(t))
                 PROVE  Precedes(q, key, SortKey(s))
        BY DEF UpTo
    <2>1. SortKey(s) \in SortKeys /\ SortKey(t) \in SortKeys
        BY OwnPlace
    <2> QED
        BY <2>1, TotalOrder
<1>3. Before(q, key) \in SUBSET Stored /\ UpTo(q, key) \in SUBSET Stored
    BY DEF Before, UpTo
<1>4. Rank(q, r) < Cardinality(Before(q, key)) <=> r \in Before(q, key)
    BY <1>1, <1>3, RankBelowSize
<1>5. Rank(q, r) < Cardinality(UpTo(q, key)) <=> r \in UpTo(q, key)
    BY <1>2, <1>3, RankBelowSize
<1> QED
    BY <1>4, <1>5 DEF Before, UpTo

\* Resources are in the order of their ranks.
LEMMA RankOrders ==
    ASSUME Valued, NEW q, NEW r \in Stored, NEW s \in Stored
    PROVE  Rank(q, r) < Rank(q, s) <=> Precedes(q, SortKey(r), SortKey(s))
BY RankTellsSide, RankCounts, OwnPlace

\* Every rank below the number of resources is that of one of them.
LEMMA RankOfSome ==
    ASSUME Valued, NEW q, NEW i \in Nat, i < Cardinality(Stored)
    PROVE  \E r \in Stored : Rank(q, r) = i
<1> DEFINE n == Cardinality(Stored)
           f == [r \in Stored |-> Rank(q, r)]
<1>1. n \in Nat /\ IsFiniteSet(Stored)
    BY OwnPlace, FS_CardinalityType
<1>2. \A r \in Stored : Rank(q, r) \in Nat /\ Rank(q, r) < n
    BY RankCounts, RankBelowSize
<1>3. IsFiniteSet(0 .. n - 1) /\ Cardinality(0 .. n - 1) = n
    <2>1. 0 \in Int /\ n - 1 \in Int /\ (0 > n - 1 <=> n = 0)
        BY <1>1
    <2>2. IsFiniteSet(0 .. n - 1)
          /\ Cardinality(0 .. n - 1) = IF 0 > n - 1 THEN 0 ELSE n - 1 - 0 + 1
        BY <2>1, FS_Interval
    <2> QED
        BY <1>1, <2>1, <2>2
<1>4. \A r, s \in Stored : Rank(q, r) = Rank(q, s) => r = s
    <2> SUFFICES ASSUME NEW r \in Stored, NEW s \in Stored, Rank(q, r) = Rank(q, s) PROVE r = s
        OBVIOUS
    <2>1. SortKey(r) \in SortKeys /\ SortKey(s) \in SortKeys
        BY OwnPlace
    <2>2. ~Precedes(q, SortKey(r), SortKey(s)) /\ ~Precedes(q, SortKey(s), SortKey(r))
        BY <1>2, RankOrders
    <2>3. SortKey(r) = SortKey(s)
        BY <2>1, <2>2, TotalOrder
    <2> QED
        BY <2>3, OwnPlace
<1>5. f \in Injection(Stored, 0 .. n - 1)
    BY <1>1, <1>2, <1>4 DEF Injection, IsInjective
<1>6. f \in Surjection(Stored, 0 .. n - 1)
    BY <1>3, <1>5, FS_Injection
<1>7. i \in 0 .. n - 1
    BY <1>1
<1> QED
    BY <1>6, <1>7 DEF Surjection

-----------------------------------------------------------------------------
(***************************************************************************)
(* The pages.                                                              *)
(***************************************************************************)

\* The cursor of a neighbour leads on from a resource.
Leads(cursor, q, n, way, r) ==
    /\ cursor \in Cursors
    /\ cursor.query = q /\ cursor.count = n /\ cursor.time = now \div 2
    /\ cursor.position = Position(way, SortKey(r))

\* A page holds the resources whose rank is between its bounds, and has a
\* neighbour on a side when it holds some and others stand there.
LEMMA PageHoldsRanks ==
    ASSUME Valued, now \in Nat, NEW q \in Queries, NEW n \in Counts,
           NEW low \in Nat, NEW high \in Nat, high <= Cardinality(Stored),
           NEW p, p = PageBetween(q, n)[<<low, high>>]
    PROVE  /\ p.resources = {r \in Stored : low <= Rank(q, r) /\ Rank(q, r) < high}
           /\ IF low < high /\ high < Cardinality(Stored)
              THEN \E r \in Stored : Rank(q, r) = high - 1 /\ Leads(p.next, q, n, "next", r)
              ELSE p.next = NoCursor
           /\ IF low < high /\ low > 0
              THEN \E r \in Stored : Rank(q, r) = low /\ Leads(p.previous, q, n, "previous", r)
              ELSE p.previous = NoCursor
<1> DEFINE found == Between(q, <<low, high>>)
<1>1. /\ p.resources = found
      /\ p.next = IF found # {} /\ high < Cardinality(Stored)
                  THEN Seal(q, n, Position("next", KeyAt(q, high - 1))) ELSE NoCursor
      /\ p.previous = IF found # {} /\ low > 0
                      THEN Seal(q, n, Position("previous", KeyAt(q, low))) ELSE NoCursor
    BY DEF PageBetween
<1> HIDE DEF found
<1>0. found = {r \in Stored : low <= Rank(q, r) /\ Rank(q, r) < high}
    BY DEF found, Between
<1>2. \A r \in Stored : Rank(q, r) \in Nat
    BY RankCounts
<1>3. \A i \in Nat : low <= i /\ i < high => \E r \in found : Rank(q, r) = i
    <2> SUFFICES ASSUME NEW i \in Nat, low <= i, i < high PROVE \E r \in found : Rank(q, r) = i
        OBVIOUS
    <2>1. Cardinality(Stored) \in Nat
        BY OwnPlace, FS_CardinalityType
    <2>2. i < Cardinality(Stored)
        BY <2>1
    <2>3. PICK r \in Stored : Rank(q, r) = i
        BY <2>2, RankOfSome
    <2> QED
        BY <1>0, <2>3
<1>4. found # {} <=> low < high
    <2>1. ASSUME NEW r \in found PROVE low < high
        BY <1>0, <1>2
    <2> QED
        BY <1>3, <2>1
<1>5. \A way \in {"next", "previous"}, r \in Stored :
          Leads(Seal(q, n, Position(way, SortKey(r))), q, n, way, r)
    <2> SUFFICES ASSUME NEW way \in {"next", "previous"}, NEW r \in Stored
                 PROVE  Leads(Seal(q, n, Position(way, SortKey(r))), q, n, way, r)
        OBVIOUS
    <2>1. SortKey(r) \in SortKeys
        BY OwnPlace
    <2>2. now \div 2 \in Nat
        OBVIOUS
    <2> QED
        BY <2>1, <2>2 DEF Leads, Seal, Cursors, Position, Positions
<1>6. \A i \in Nat : low <= i /\ i < high =>
          \E r \in Stored : Rank(q, r) = i /\ KeyAt(q, i) = SortKey(r)
    BY <1>0, <1>3 DEF KeyAt
<1>7. CASE low < high
    <2>1. high - 1 \in Nat /\ low <= high - 1 /\ high - 1 < high
        BY <1>7
    <2>2. PICK last \in Stored : Rank(q, last) = high - 1 /\ KeyAt(q, high - 1) = SortKey(last)
        BY <1>6, <2>1
    <2>3. PICK first \in Stored : Rank(q, first) = low /\ KeyAt(q, low) = SortKey(first)
        BY <1>6, <1>7
    <2> QED
        BY <1>1, <1>4, <1>5, <1>7, <2>2, <2>3, <1>0
<1>8. CASE ~(low < high)
    BY <1>1, <1>4, <1>8, <1>0
<1> QED
    BY <1>7, <1>8

\* What the service seals is what a client may follow: the cursors of a page are
\* those of its query and its time, and start at the place of a resource.
Neighbour(cursor, q, time, way) ==
    cursor # NoCursor =>
        /\ cursor \in Cursors /\ cursor.query = q /\ cursor.time = time \div 2
        /\ cursor.position.way = way /\ cursor.position.key \in Places

LEMMA LeadsToNeighbour ==
    ASSUME Valued, NEW q, NEW n, NEW way, NEW r \in Stored, NEW cursor,
           Leads(cursor, q, n, way, r)
    PROVE  /\ cursor # NoCursor /\ Neighbour(cursor, q, now, way)
           /\ cursor.position.key = SortKey(r)
BY OwnPlace, PagingAssumption DEF Leads, Neighbour, Position

\* The bounds of a page, in number of resources.
LEMMA CountsInOrder ==
    ASSUME Valued, NEW q, NEW key \in SortKeys
    PROVE  /\ Cardinality(Stored) \in Nat
           /\ Cardinality(Before(q, key)) \in Nat
           /\ Cardinality(Before(q, key)) <= Cardinality(Stored)
           /\ Cardinality(UpTo(q, key)) \in Nat
           /\ Cardinality(UpTo(q, key)) <= Cardinality(Stored)
           /\ Cardinality(UpTo(q, key)) =
                  Cardinality(Before(q, key)) + Cardinality({r \in Stored : SortKey(r) = key})
<1> DEFINE At == {r \in Stored : SortKey(r) = key}
<1>1. /\ IsFiniteSet(Stored) /\ IsFiniteSet(Before(q, key)) /\ IsFiniteSet(UpTo(q, key))
      /\ IsFiniteSet(At)
      /\ Cardinality(Before(q, key)) <= Cardinality(Stored)
      /\ Cardinality(UpTo(q, key)) <= Cardinality(Stored)
    BY OwnPlace, FS_Subset DEF Before, UpTo
<1>2. \A r \in Stored :
          /\ ~Precedes(q, key, SortKey(r)) <=> Precedes(q, SortKey(r), key) \/ SortKey(r) = key
          /\ ~(Precedes(q, SortKey(r), key) /\ SortKey(r) = key)
    BY OwnPlace, TotalOrder
<1>3. UpTo(q, key) = Before(q, key) \cup At /\ Before(q, key) \cap At = {}
    BY <1>2 DEF Before, UpTo
<1>4. Cardinality({}) = 0
    BY FS_EmptySet
<1>5. Cardinality(UpTo(q, key)) = Cardinality(Before(q, key)) + Cardinality(At) - 0
    BY <1>1, <1>3, <1>4, FS_Union
<1> QED
    BY <1>1, <1>5, FS_CardinalityType

\* A page leads on to pages of its query.
Neighbours(p, q, time) ==
    Neighbour(p.next, q, time, "next") /\ Neighbour(p.previous, q, time, "previous")

\* The page that starts at a rank holds what stands from there on, up to the
\* place its next page starts after.
LEMMA PageOnwards ==
    ASSUME Valued, now \in Nat, NEW q \in Queries, NEW n \in Counts,
           NEW low \in Nat, low <= Cardinality(Stored),
           NEW p, p = PageBetween(q, n)[<<low, EndOf(n, low, Cardinality(Stored))>>]
    PROVE  /\ p.resources = {r \in Stored : low <= Rank(q, r) /\
                  (p.next # NoCursor => ~Precedes(q, p.next.position.key, SortKey(r)))}
           /\ p.next # NoCursor =>
                  \E r \in Stored : low <= Rank(q, r) /\ p.next.position.key = SortKey(r)
           /\ Neighbours(p, q, now)
<1> DEFINE total == Cardinality(Stored)
           high == EndOf(n, low, total)
<1>1. (n = NoCount \/ n \in Nat \ {0}) /\ total \in Nat
    BY OwnPlace, FS_CardinalityType, PagingAssumption
<1>2. /\ high \in Nat /\ high <= total
      /\ ~(low < high) => high = total
    BY <1>1 DEF EndOf, Least
<1> HIDE DEF total, high
<1>3. /\ p.resources = {r \in Stored : low <= Rank(q, r) /\ Rank(q, r) < high}
      /\ IF low < high /\ high < total
         THEN \E r \in Stored : Rank(q, r) = high - 1 /\ Leads(p.next, q, n, "next", r)
         ELSE p.next = NoCursor
      /\ IF low < high /\ low > 0
         THEN \E r \in Stored : Rank(q, r) = low /\ Leads(p.previous, q, n, "previous", r)
         ELSE p.previous = NoCursor
    BY <1>2, PageHoldsRanks DEF total, high
<1>4. \A r \in Stored : Rank(q, r) \in Nat /\ Rank(q, r) < total
    BY RankCounts, RankBelowSize DEF total
<1>5. Neighbour(p.previous, q, now, "previous")
    BY <1>3, LeadsToNeighbour DEF Neighbour
<1>6. CASE low < high /\ high < total
    <2>1. PICK last \in Stored : Rank(q, last) = high - 1 /\ Leads(p.next, q, n, "next", last)
        BY <1>3, <1>6
    <2>2. /\ p.next # NoCursor /\ Neighbour(p.next, q, now, "next")
          /\ p.next.position.key = SortKey(last)
        BY <2>1, LeadsToNeighbour
    <2>3. \A r \in Stored : Rank(q, r) < high <=> ~Precedes(q, SortKey(last), SortKey(r))
        <3> SUFFICES ASSUME NEW r \in Stored
                     PROVE  Rank(q, r) < high <=> ~Precedes(q, SortKey(last), SortKey(r))
            OBVIOUS
        <3>1. Rank(q, last) < Rank(q, r) <=> Precedes(q, SortKey(last), SortKey(r))
            BY RankOrders
        <3> QED
            BY <3>1, <2>1, <1>2, <1>4
    <2>4. low <= Rank(q, last)
        BY <1>2, <1>6, <2>1
    <2> QED
        BY <1>3, <1>5, <2>2, <2>3, <2>4 DEF Neighbours
<1>7. CASE ~(low < high /\ high < total)
    <2>1. p.next = NoCursor /\ Neighbour(p.next, q, now, "next")
        BY <1>3, <1>7 DEF Neighbour
    <2>2. high = total
        BY <1>1, <1>2, <1>7
    <2> QED
        BY <1>3, <1>4, <1>5, <2>1, <2>2 DEF Neighbours
<1> QED
    BY <1>6, <1>7

\* The page after a place holds what stands between it and the next one.
LEMMA PageAfter ==
    ASSUME Valued, now \in Nat, NEW q \in Queries, NEW n \in Counts, NEW key \in SortKeys,
           NEW p, p = PageOf(q, n, Position("next", key))
    PROVE  /\ p.resources = {r \in Stored : Precedes(q, key, SortKey(r)) /\
                  (p.next # NoCursor => ~Precedes(q, p.next.position.key, SortKey(r)))}
           /\ p.next # NoCursor => Precedes(q, key, p.next.position.key)
           /\ Neighbours(p, q, now)
<1> DEFINE low == Cardinality(UpTo(q, key))
<1>1. /\ Bounds(q, n, Position("next", key)) = <<low, EndOf(n, low, Cardinality(Stored))>>
      /\ low \in Nat /\ low <= Cardinality(Stored)
    BY CountsInOrder DEF Bounds, Position, Before
<1>2. \A r \in Stored : low <= Rank(q, r) <=> Precedes(q, key, SortKey(r))
    <2> SUFFICES ASSUME NEW r \in Stored
                 PROVE  low <= Rank(q, r) <=> Precedes(q, key, SortKey(r))
        OBVIOUS
    <2>1. Rank(q, r) < low <=> ~Precedes(q, key, SortKey(r))
        BY RankTellsSide
    <2> QED
        BY <1>1, <2>1, RankCounts
<1> HIDE DEF low
<1> QED
    BY <1>1, <1>2, PageOnwards DEF PageOf

\* The first page holds what stands before the place the next one starts after.
LEMMA FirstPage ==
    ASSUME Valued, now \in Nat, NEW q \in Queries, NEW n \in Counts,
           NEW p, p = PageOf(q, n, FirstPosition)
    PROVE  /\ p.resources = {r \in Stored :
                  p.next # NoCursor => ~Precedes(q, p.next.position.key, SortKey(r))}
           /\ Neighbours(p, q, now)
<1>1. /\ Cardinality(Stored) \in Nat
      /\ \A r \in Stored : 0 <= Rank(q, r)
    BY OwnPlace, FS_CardinalityType, RankCounts
<1>2. Bounds(q, n, FirstPosition) = <<0, EndOf(n, 0, Cardinality(Stored))>>
    BY DEF Bounds, FirstPosition, Position
<1> QED
    BY <1>1, <1>2, PageOnwards DEF PageOf

\* The page before a place holds what stands between it and the previous one.
LEMMA PageBefore ==
    ASSUME Valued, now \in Nat, NEW q \in Queries, NEW n \in Counts, NEW key \in SortKeys,
           NEW p, p = PageOf(q, n, Position("previous", key))
    PROVE  /\ p.resources = {r \in Stored : Precedes(q, SortKey(r), key) /\
                  (p.previous # NoCursor => ~Precedes(q, SortKey(r), p.previous.position.key))}
           /\ p.previous # NoCursor => Precedes(q, p.previous.position.key, key)
           /\ Neighbours(p, q, now)
<1> DEFINE high == Cardinality(Before(q, key))
           low == StartOf(n, high)
           total == Cardinality(Stored)
<1>1. Bounds(q, n, Position("previous", key)) = <<low, high>>
    BY DEF Bounds, Position, Before
<1>2. high \in Nat /\ high <= total /\ total \in Nat /\ (n = NoCount \/ n \in Nat \ {0})
    BY CountsInOrder, PagingAssumption
<1>3. \A r \in Stored : Rank(q, r) < high <=> Precedes(q, SortKey(r), key)
    BY RankTellsSide
<1> HIDE DEF high, total
<1>4. low \in Nat /\ low <= high /\ (~(low < high) => low = 0)
    BY <1>2 DEF StartOf
<1> HIDE DEF low
<1>5. /\ p.resources = {r \in Stored : low <= Rank(q, r) /\ Rank(q, r) < high}
      /\ IF low < high /\ high < total
         THEN \E r \in Stored : Rank(q, r) = high - 1 /\ Leads(p.next, q, n, "next", r)
         ELSE p.next = NoCursor
      /\ IF low < high /\ low > 0
         THEN \E r \in Stored : Rank(q, r) = low /\ Leads(p.previous, q, n, "previous", r)
         ELSE p.previous = NoCursor
    BY <1>1, <1>2, <1>4, PageHoldsRanks DEF PageOf, total
<1>6. \A r \in Stored : Rank(q, r) \in Nat
    BY RankCounts
<1>7. Neighbour(p.next, q, now, "next")
    BY <1>5, LeadsToNeighbour DEF Neighbour
<1>8. CASE low < high /\ low > 0
    <2>1. PICK first \in Stored :
              Rank(q, first) = low /\ Leads(p.previous, q, n, "previous", first)
        BY <1>5, <1>8
    <2>2. /\ p.previous # NoCursor /\ Neighbour(p.previous, q, now, "previous")
          /\ p.previous.position.key = SortKey(first)
        BY <2>1, LeadsToNeighbour
    <2>3. \A r \in Stored : low <= Rank(q, r) <=> ~Precedes(q, SortKey(r), SortKey(first))
        <3> SUFFICES ASSUME NEW r \in Stored
                     PROVE  low <= Rank(q, r) <=> ~Precedes(q, SortKey(r), SortKey(first))
            OBVIOUS
        <3>1. Rank(q, r) < Rank(q, first) <=> Precedes(q, SortKey(r), SortKey(first))
            BY RankOrders
        <3> QED
            BY <3>1, <2>1, <1>4, <1>6
    <2>4. Precedes(q, SortKey(first), key)
        BY <1>3, <1>8, <2>1
    <2> QED
        BY <1>3, <1>5, <1>7, <2>2, <2>3, <2>4 DEF Neighbours
<1>9. CASE ~(low < high /\ low > 0)
    <2>1. p.previous = NoCursor /\ Neighbour(p.previous, q, now, "previous")
        BY <1>5, <1>9 DEF Neighbour
    <2>2. \A r \in Stored : low <= Rank(q, r)
        BY <1>4, <1>6, <1>9
    <2> QED
        BY <1>3, <1>5, <1>7, <2>1, <2>2 DEF Neighbours
<1> QED
    BY <1>8, <1>9

\* The page before a place leads on to that place again.
LEMMA PageBeforeLeadsBack ==
    ASSUME Valued, now \in Nat, NEW q \in Queries, NEW n \in Counts, NEW key \in SortKeys,
           NEW p, p = PageOf(q, n, Position("previous", key)), p.resources # {}
    PROVE  /\ p.next = NoCursor <=> \A r \in Stored : Precedes(q, SortKey(r), key)
           /\ p.next # NoCursor => \A r \in Stored :
                  Precedes(q, p.next.position.key, SortKey(r)) <=> ~Precedes(q, SortKey(r), key)
<1> DEFINE high == Cardinality(Before(q, key))
           low == StartOf(n, high)
           total == Cardinality(Stored)
<1>1. Bounds(q, n, Position("previous", key)) = <<low, high>>
    BY DEF Bounds, Position, Before
<1>2. high \in Nat /\ high <= total /\ total \in Nat /\ (n = NoCount \/ n \in Nat \ {0})
    BY CountsInOrder, PagingAssumption
<1>3. \A r \in Stored : Rank(q, r) < high <=> Precedes(q, SortKey(r), key)
    BY RankTellsSide
<1>4. \A r \in Stored : Rank(q, r) \in Nat /\ Rank(q, r) < total
    BY RankCounts, RankBelowSize
<1> HIDE DEF high, total
<1>9. low \in Nat
    BY <1>2 DEF StartOf
<1> HIDE DEF low
<1>5. /\ p.resources = {r \in Stored : low <= Rank(q, r) /\ Rank(q, r) < high}
      /\ IF low < high /\ high < total
         THEN \E r \in Stored : Rank(q, r) = high - 1 /\ Leads(p.next, q, n, "next", r)
         ELSE p.next = NoCursor
    BY <1>1, <1>2, <1>9, PageHoldsRanks DEF PageOf, total
<1>6. low < high
    BY <1>2, <1>4, <1>5, <1>9
<1>7. CASE high < total
    <2>1. PICK last \in Stored : Rank(q, last) = high - 1 /\ Leads(p.next, q, n, "next", last)
        BY <1>5, <1>6, <1>7
    <2>2. p.next # NoCursor /\ p.next.position.key = SortKey(last)
        BY <2>1, LeadsToNeighbour
    <2>3. \A r \in Stored : high <= Rank(q, r) <=> Precedes(q, SortKey(last), SortKey(r))
        <3> SUFFICES ASSUME NEW r \in Stored
                     PROVE  high <= Rank(q, r) <=> Precedes(q, SortKey(last), SortKey(r))
            OBVIOUS
        <3>1. Rank(q, last) < Rank(q, r) <=> Precedes(q, SortKey(last), SortKey(r))
            BY RankOrders
        <3> QED
            BY <3>1, <2>1, <1>2, <1>4
    <2>4. PICK other \in Stored : Rank(q, other) = high
        BY <1>2, <1>7, RankOfSome DEF total
    <2> QED
        BY <1>2, <1>3, <1>4, <2>2, <2>3, <2>4
<1>8. CASE ~(high < total)
    <2>1. p.next = NoCursor /\ high = total
        BY <1>2, <1>5, <1>8
    <2> QED
        BY <1>3, <1>4, <2>1
<1> QED
    BY <1>7, <1>8

-----------------------------------------------------------------------------
(***************************************************************************)
(* The paging.                                                             *)
(***************************************************************************)

\* A client always has a page of its query, sealed when it was issued.
PagingInv ==
    /\ Valued
    /\ now \in Nat /\ issued \in Nat
    /\ query \in Queries /\ count \in Counts
    /\ walk \in {"next", "previous"}
    /\ Neighbours(page, query, issued)

\* The cursor a client follows is one of its page.
LEMMA CursorOfPage ==
    ASSUME PagingInv, Cursor # NoCursor
    PROVE  /\ Cursor.query = query /\ Cursor.time = issued \div 2
           /\ Cursor.position = Position(walk, Cursor.position.key)
           /\ Cursor.position.key \in Places /\ Cursor.position.key \in SortKeys
<1>1. Neighbour(Cursor, query, issued, walk)
    BY DEF PagingInv, Neighbours, Cursor
<1>2. Cursor.position \in Positions
    BY <1>1 DEF Neighbour, Cursors
<1> QED
    BY <1>1, <1>2, OwnPlace DEF Neighbour, Positions, Position, PagingInv

\* A page that is served is the one of the cursor, with its query.
LEMMA Served ==
    ASSUME PagingInv, NEW q \in Queries, NEW n \in Counts, Follow(q, n),
           Refusal(Cursor, q, n) = "none"
    PROVE  /\ Cursor # NoCursor /\ q = query /\ query' = query /\ count' = n /\ issued' = now
           /\ page' = PageOf(query, n, Position(walk, Cursor.position.key))
           /\ Sees(page')
           /\ UNCHANGED <<value, now, walk, steady, changes, expired>>
<1>1. Cursor # NoCursor
    BY DEF Follow, Paging
<1>2. q = query
    BY <1>1, CursorOfPage DEF Refusal
<1> QED
    BY <1>1, <1>2, CursorOfPage DEF Follow

\* A cursor that is refused changes nothing but whether it expired.
LEMMA Refused ==
    ASSUME NEW q, NEW n, Follow(q, n), Refusal(Cursor, q, n) # "none"
    PROVE  /\ UNCHANGED <<value, now, issued, query, count, page, walk, seen, steady, changes>>
           /\ expired' # expired => Refusal(Cursor, q, n) = "expiredCursor"
BY DEF Follow

LEMMA PagingAtStart == Init => PagingInv
<1> SUFFICES ASSUME Init PROVE PagingInv
    OBVIOUS
<1>1. Valued /\ now = 1 /\ issued = now /\ query \in Queries /\ count \in Counts
    BY DEF Init, Valued
<1>2. Neighbours(page, query, now)
    BY <1>1, FirstPage DEF Init
<1> QED
    BY <1>1, <1>2 DEF PagingInv, Init

LEMMA PagingKept == PagingInv /\ [Next]_vars => PagingInv'
<1> SUFFICES ASSUME PagingInv, [Next]_vars PROVE PagingInv'
    OBVIOUS
<1> USE DEF PagingInv, Valued, Neighbours, Neighbour
<1>1. ASSUME NEW q \in Queries, NEW n \in Counts, Follow(q, n) PROVE PagingInv'
    <2>1. CASE Refusal(Cursor, q, n) = "none"
        <3> DEFINE key == Cursor.position.key
        <3>1. /\ page' = PageOf(query, n, Position(walk, key))
              /\ Cursor # NoCursor /\ query' = query /\ count' = n /\ issued' = now
              /\ UNCHANGED <<value, now, walk>>
            BY <1>1, <2>1, Served
        <3>2. key \in SortKeys
            BY <3>1, CursorOfPage
        <3>3. Neighbours(page', query, now)
            <4> HIDE DEF key, Neighbours, Neighbour
            <4>1. CASE walk = "next"
                BY <3>1, <3>2, <4>1, PageAfter
            <4>2. CASE walk = "previous"
                BY <3>1, <3>2, <4>2, PageBefore
            <4> QED
                BY <4>1, <4>2
        <3> QED
            BY <3>1, <3>3
    <2>2. CASE Refusal(Cursor, q, n) # "none"
        BY <1>1, <2>2, Refused
    <2> QED
        BY <2>1, <2>2
<1>2. CASE Turn
    BY <1>2 DEF Turn
<1>3. ASSUME NEW r \in Resources, Change(r) PROVE PagingInv'
    BY <1>3 DEF Change
<1>4. CASE Tick
    BY <1>4 DEF Tick
<1>5. CASE UNCHANGED vars
    BY <1>5 DEF vars
<1> QED
    BY <1>1, <1>2, <1>3, <1>4, <1>5 DEF Next

\* Every cursor a client gets is one of its query, sealed when its page was.
THEOREM PagingInvariant == Spec => []PagingInv
BY PagingAtStart, PagingKept, PTL DEF Spec

\* A page is served within the timeout of its cursor, and a cursor is refused as
\* expired at most a second before (cursor.py seal and open).
THEOREM ExpiryBounded == Spec => ExpiryWithinASecond
<1>1. PagingInv /\ [Next]_vars =>
          [/\ issued' # issued => now - issued <= 2 * Timeout
           /\ expired' # expired => now - issued > 2 * Timeout - 2]_vars
    <2> SUFFICES ASSUME PagingInv, Next
                 PROVE  /\ issued' # issued => now - issued <= 2 * Timeout
                        /\ expired' # expired => now - issued > 2 * Timeout - 2
        OBVIOUS
    <2>1. ASSUME NEW q \in Queries, NEW n \in Counts, Follow(q, n)
          PROVE  /\ issued' # issued => now - issued <= 2 * Timeout
                 /\ expired' # expired => now - issued > 2 * Timeout - 2
        <3>1. Cursor.time = issued \div 2
            BY <2>1, CursorOfPage DEF Follow, Paging
        <3>2. now \in Nat /\ issued \in Nat /\ Timeout \in Nat
            BY PagingAssumption DEF PagingInv
        <3>3. 2 * (issued \div 2) <= issued /\ issued <= 2 * (issued \div 2) + 1
            BY <3>2
        <3>4. CASE Refusal(Cursor, q, n) = "none"
            BY <2>1, <3>1, <3>2, <3>3, <3>4, Served DEF Refusal
        <3>5. CASE Refusal(Cursor, q, n) # "none"
            BY <2>1, <3>1, <3>2, <3>3, <3>5, Refused DEF Refusal
        <3> QED
            BY <3>4, <3>5
    <2>2. CASE ~\E q \in Queries, n \in Counts : Follow(q, n)
        BY <2>2 DEF Next, Turn, Change, Tick
    <2> QED
        BY <2>1, <2>2
<1> QED
    BY <1>1, PagingInvariant, PTL DEF Spec, ExpiryWithinASecond

\* Paging back and then forward again leads to the first resource of a page, or
\* to what stands there now (memory.py _page).
THEOREM NeighboursLeadBack == Spec => []NeighboursMeet
<1>1. PagingInv => NeighboursMeet
    <2> DEFINE key == page.previous.position.key
               before == PageOf(query, count, page.previous.position)
               after == {r \in Stored : ~Precedes(query, SortKey(r), key)}
               again == PageOf(query, count, before.next.position)
    <2> SUFFICES ASSUME PagingInv, page.previous # NoCursor, before.resources # {}
                 PROVE  /\ before.next = NoCursor <=> after = {}
                        /\ before.next # NoCursor =>
                              /\ again.resources \subseteq after
                              /\ \A r \in after \ again.resources, s \in again.resources :
                                     Ahead(query, s, r)
        BY Zenon DEF NeighboursMeet
    <2>1. Neighbour(page.previous, query, issued, "previous")
        BY DEF PagingInv, Neighbours
    <2>2. /\ page.previous.position \in Positions /\ page.previous.position.way = "previous"
          /\ Valued /\ now \in Nat /\ query \in Queries /\ count \in Counts
        BY <2>1 DEF PagingInv, Neighbour, Cursors
    <2>3. page.previous.position = Position("previous", key) /\ key \in SortKeys
        BY <2>2 DEF Positions, Position
    <2> HIDE DEF key
    <2>4. before = PageOf(query, count, Position("previous", key))
        BY <2>3
    <2>5. Neighbours(before, query, now)
        BY <2>2, <2>3, <2>4, PageBefore
    <2> HIDE DEF before
    <2>6. /\ before.next = NoCursor <=> \A r \in Stored : Precedes(query, SortKey(r), key)
          /\ before.next # NoCursor => \A r \in Stored :
                 Precedes(query, before.next.position.key, SortKey(r))
                     <=> ~Precedes(query, SortKey(r), key)
        BY <2>2, <2>3, <2>4, PageBeforeLeadsBack
    <2>7. ASSUME before.next # NoCursor
          PROVE  /\ again.resources \subseteq after
                 /\ \A r \in after \ again.resources, s \in again.resources :
                        Ahead(query, s, r)
        <3> DEFINE edge == before.next.position.key
        <3>1. before.next.position \in Positions /\ before.next.position.way = "next"
            BY <2>5, <2>7 DEF Neighbours, Neighbour, Cursors
        <3>2. before.next.position = Position("next", edge) /\ edge \in SortKeys
            BY <3>1 DEF Positions, Position
        <3> HIDE DEF edge
        <3>3. again = PageOf(query, count, Position("next", edge))
            BY <3>2
        <3> HIDE DEF again
        <3>4. /\ again.resources = {r \in Stored : Precedes(query, edge, SortKey(r)) /\
                     (again.next # NoCursor =>
                          ~Precedes(query, again.next.position.key, SortKey(r)))}
              /\ Neighbours(again, query, now)
            BY <2>2, <3>2, <3>3, PageAfter
        <3>5. again.resources \subseteq after
            BY <2>6, <2>7, <3>4 DEF edge
        <3>6. ASSUME NEW r \in after \ again.resources, NEW s \in again.resources
              PROVE  Ahead(query, s, r)
            <4>1. /\ r \in Stored /\ s \in Stored /\ again.next # NoCursor
                  /\ Precedes(query, again.next.position.key, SortKey(r))
                  /\ ~Precedes(query, again.next.position.key, SortKey(s))
                BY <2>6, <2>7, <3>4, <3>6 DEF edge
            <4>2. /\ again.next.position.key \in SortKeys
                  /\ SortKey(r) \in SortKeys /\ SortKey(s) \in SortKeys
                BY <2>2, <3>4, <4>1, OwnPlace DEF Neighbours, Neighbour
            <4>3. Precedes(query, SortKey(s), SortKey(r))
                BY <4>1, <4>2, TotalOrder
            <4> QED
                BY <2>2, <4>1, <4>3, AheadIsBefore
        <3> QED
            BY <3>5, <3>6
    <2> QED
        BY <2>6, <2>7
<1> QED
    BY <1>1, PagingInvariant, PTL

-----------------------------------------------------------------------------
(***************************************************************************)
(* The stable pages.                                                       *)
(***************************************************************************)

\* A resource has a place if it is stored.
LEMMA PlaceOfStored ==
    ASSUME Valued
    PROVE  /\ Place \in [Resources -> Places \cup {Absent}]
           /\ \A r \in Resources :
                  /\ Place[r] \in Places <=> r \in Stored
                  /\ Place[r] # Absent <=> r \in Stored
                  /\ r \in Stored => Place[r] = SortKey(r)
<1>1. \A r \in Resources : Place[r] = IF value[r] = Absent THEN Absent ELSE SortKey(r)
    BY DEF Place
<1>2. Absent \notin Places
    BY OwnPlace, PagingAssumption
<1> HIDE DEF Place
<1>3. \A r \in Resources : r \in Stored <=> value[r] # Absent
    BY DEF Stored
<1>4. \A r \in Stored : SortKey(r) \in Places
    BY OwnPlace
<1>5. \A r \in Resources :
          /\ Place[r] \in Places <=> r \in Stored
          /\ Place[r] # Absent <=> r \in Stored
          /\ r \in Stored => Place[r] = SortKey(r)
          /\ Place[r] \in Places \cup {Absent}
    BY <1>1, <1>2, <1>3, <1>4
<1> QED
    BY <1>5 DEF Place

\* The contract stores the same resources, at places of the search.
PlacesKnown ==
    Place \in [Resources -> Places \cup {Absent}] /\ Contract!Stored = Stored

LEMMA PlacesAreKnown == Valued => PlacesKnown
BY PlaceOfStored DEF PlacesKnown, Contract!Stored, Stored

\* So it does after each step.
LEMMA PlacesStayKnown == (Valued => PlacesKnown)'
BY PlacesAreKnown, PTL

\* The first page is one of the contract.
LEMMA FirstPageStable == Init => Contract!Init
<1> SUFFICES ASSUME Init PROVE Contract!Init
    OBVIOUS
<1>1. Valued /\ now = 1 /\ query \in Queries /\ count \in Counts /\ walk = "next"
    BY DEF Init, Valued
<1>2. page.resources = {r \in Stored :
          page.next # NoCursor => ~Precedes(query, page.next.position.key, SortKey(r))}
    BY <1>1, FirstPage DEF Init
<1>3. \A r \in Resources : Place[r] \in Passed <=> r \in page.resources
    BY <1>1, <1>2, PlaceOfStored DEF Passed, Cursor, Stored
<1>4. Contract!Stored = Stored
    BY <1>1, PlacesAreKnown DEF PlacesKnown
<1>5. Cursor = NoCursor => Passed = Places
    BY DEF Passed
<1> QED
    BY <1>1, <1>3, <1>4, <1>5, PlaceOfStored
    DEF Init, Contract!Init, Contract!AllPassed, Passed, Stored

\* The places that a page of a cursor goes over hold the resources of the page.
LEMMA FollowReadsPlaces ==
    ASSUME PagingInv, NEW q \in Queries, NEW n \in Counts, Follow(q, n),
           Refusal(Cursor, q, n) = "none"
    PROVE  /\ Passed \subseteq Passed'
           /\ \A r \in Resources : Place[r] \in Passed' \ Passed <=> r \in page'.resources
<1> DEFINE key == Cursor.position.key
           next == page'.next.position.key
           previous == page'.previous.position.key
<1>1. /\ page' = PageOf(query, n, Position(walk, key))
      /\ Cursor # NoCursor /\ query' = query /\ walk' = walk
      /\ walk \in {"next", "previous"}
    BY Served DEF PagingInv
<1>2. key \in SortKeys /\ Valued /\ now \in Nat /\ query \in Queries
    BY <1>1, CursorOfPage DEF PagingInv
<1>3. Places \subseteq SortKeys
    BY <1>2, OwnPlace
<1>4. CASE walk = "next"
    <2>1. /\ page'.resources = {r \in Stored : Precedes(query, key, SortKey(r)) /\
                 (page'.next # NoCursor => ~Precedes(query, next, SortKey(r)))}
          /\ page'.next # NoCursor => Precedes(query, key, next) /\ next \in Places
        BY <1>1, <1>2, <1>4, PageAfter DEF Neighbours, Neighbour
    <2>2. /\ Passed = {x \in Places : ~Precedes(query, key, x)}
          /\ Passed' = {x \in Places :
                 page'.next # NoCursor => ~Precedes(query, next, x)}
        BY <1>1, <1>4 DEF Passed, Cursor, Places
    <2> HIDE DEF key, next
    <2>3. ASSUME NEW x \in Passed, page'.next # NoCursor PROVE ~Precedes(query, next, x)
        <3>1. x \in SortKeys /\ next \in SortKeys /\ ~Precedes(query, key, x)
            BY <1>3, <2>1, <2>2, <2>3
        <3> QED
            BY <1>2, <2>1, <2>3, <3>1, TotalOrder
    <2> QED
        BY <1>2, <2>1, <2>2, <2>3, PlaceOfStored DEF Stored
<1>5. CASE walk = "previous"
    <2>1. /\ page'.resources = {r \in Stored : Precedes(query, SortKey(r), key) /\
                 (page'.previous # NoCursor => ~Precedes(query, SortKey(r), previous))}
          /\ page'.previous # NoCursor => Precedes(query, previous, key) /\ previous \in Places
        BY <1>1, <1>2, <1>5, PageBefore DEF Neighbours, Neighbour
    <2>2. /\ Passed = {x \in Places : ~Precedes(query, x, key)}
          /\ Passed' = {x \in Places :
                 page'.previous # NoCursor => ~Precedes(query, x, previous)}
        BY <1>1, <1>5 DEF Passed, Cursor, Places
    <2> HIDE DEF key, previous
    <2>3. ASSUME NEW x \in Passed, page'.previous # NoCursor PROVE ~Precedes(query, x, previous)
        <3>1. x \in SortKeys /\ previous \in SortKeys /\ ~Precedes(query, x, key)
            BY <1>3, <2>1, <2>2, <2>3
        <3> QED
            BY <1>2, <2>1, <2>3, <3>1, TotalOrder
    <2> QED
        BY <1>2, <2>1, <2>2, <2>3, PlaceOfStored DEF Stored
<1> QED
    BY <1>1, <1>4, <1>5

\* Every step of the paging is one of the contract, or changes nothing of it.
LEMMA StepsStable == PagingInv /\ [Next]_vars => [Contract!Next]_(Contract!pagesVars)
<1> SUFFICES ASSUME PagingInv, [Next]_vars PROVE [Contract!Next]_(Contract!pagesVars)
    OBVIOUS
<1>0. Valued
    BY DEF PagingInv
<1>1. ASSUME NEW q \in Queries, NEW n \in Counts, Follow(q, n)
      PROVE  [Contract!Next]_(Contract!pagesVars)
    <2>1. CASE Refusal(Cursor, q, n) = "none"
        <3>1. Cursor # NoCursor /\ Sees(page') /\ UNCHANGED <<value, steady, walk>>
            BY <1>1, <2>1, Served
        <3>2. Place' = Place /\ Stored' = Stored
            BY <3>1 DEF Place, SortKey, Stored
        <3>3. /\ Passed \subseteq Passed'
              /\ \A r \in Resources : Place[r] \in Passed' \ Passed <=> r \in page'.resources
            BY <1>1, <2>1, FollowReadsPlaces
        <3>4. seen' = [r \in Resources |->
                  IF Place[r] \in Passed' \ Passed THEN seen[r] + 1 ELSE seen[r]]
            BY <3>1, <3>3 DEF Sees
        <3>5. Passed' \subseteq Places /\ (Cursor' = NoCursor => Passed' = Places)
            BY DEF Passed, Places
        <3>6. Cursor' = NoCursor => Contract!AllPassed'
            BY <1>0, <3>2, <3>5, PlaceOfStored DEF Contract!AllPassed, Contract!Stored
        <3> QED
            BY <3>1, <3>2, <3>3, <3>4, <3>5, <3>6 DEF Contract!Next, Contract!ReadPage
    <2>2. CASE Refusal(Cursor, q, n) # "none"
        <3>1. UNCHANGED <<value, query, page, walk, seen, steady>>
            BY <1>1, <2>2, Refused
        <3> QED
            BY <3>1 DEF Contract!pagesVars, Place, SortKey, Passed, Cursor, Places
    <2> QED
        BY <2>1, <2>2
<1>2. CASE Turn
    <2>1. /\ UNCHANGED <<value, query, page>> /\ walk' = "previous"
          /\ page.previous # NoCursor
          /\ seen' = [r \in Resources |-> 0]
          /\ steady' = {r \in Stored : Precedes(query, SortKey(r), page.previous.position.key)}
        BY <1>2 DEF Turn
    <2>2. Place' = Place /\ Cursor' = page.previous
        BY <2>1 DEF Place, SortKey, Cursor
    <2>3. Passed' = {x \in Places : ~Precedes(query, x, page.previous.position.key)}
        BY <2>1, <2>2 DEF Passed, Places
    <2>4. steady' = {r \in Contract!Stored : Place[r] \notin Passed'}
        BY <1>0, <2>1, <2>3, PlaceOfStored DEF Contract!Stored, Stored
    <2> QED
        BY <2>1, <2>2, <2>3, <2>4 DEF Contract!Next, Contract!Restart
<1>3. ASSUME NEW r \in Resources, Change(r) PROVE [Contract!Next]_(Contract!pagesVars)
    <2>1. UNCHANGED <<query, page, walk, seen>> /\ steady' = steady \ {r}
        BY <1>3 DEF Change
    <2>2. PICK v \in SortValues \cup {Missing, Absent} : value' = [value EXCEPT ![r] = v]
        BY <1>3 DEF Change
    <2>3. Valued'
        BY <1>0, <2>2 DEF Valued
    <2>4. Place' \in [Resources -> Places \cup {Absent}]
        BY <2>3, PlacesStayKnown DEF PlacesKnown, Places
    <2>5. \A s \in Resources \ {r} : Place'[s] = Place[s]
        BY <1>0, <2>2 DEF Place, SortKey, Valued
    <2>6. Place' = [Place EXCEPT ![r] = Place'[r]] /\ Place'[r] \in Places \cup {Absent}
        BY <1>0, <2>4, <2>5, PlaceOfStored
    <2>7. Passed' = Passed /\ Cursor' = Cursor
        BY <2>1 DEF Passed, Cursor, Places
    <2> QED
        BY <2>1, <2>6, <2>7 DEF Contract!Next, Contract!Change
<1>4. CASE Tick
    BY <1>4 DEF Tick, Contract!pagesVars, Place, SortKey, Passed, Cursor, Places
<1>5. CASE UNCHANGED vars
    BY <1>5 DEF vars, Contract!pagesVars, Place, SortKey, Passed, Cursor, Places
<1> QED
    BY <1>1, <1>2, <1>3, <1>4, <1>5 DEF Next

\* The cursors give the stable pages that the contract of a storage promises
\* (storage.py, ScimStorage.search).
THEOREM CursorsGiveStablePages == Spec => PagesStable
BY FirstPageStable, StepsStable, PagingInvariant, PTL DEF Spec, PagesStable, Contract!Spec

\* A steady resource was seen once if its place was gone over, and not at all
\* otherwise.
SeenAsPassed ==
    /\ steady \subseteq Stored
    /\ seen \in [Resources -> Nat]
    /\ \A r \in steady : seen[r] = IF Place[r] \in Passed THEN 1 ELSE 0

\* Every step of stable pages keeps it.
LEMMA SeenAsPassedKept ==
    PagingInv /\ PagingInv' /\ SeenAsPassed /\ [Contract!Next]_(Contract!pagesVars)
        => SeenAsPassed'
<1> SUFFICES ASSUME PagingInv, PagingInv', SeenAsPassed, [Contract!Next]_(Contract!pagesVars)
             PROVE  SeenAsPassed'
    OBVIOUS
<1>1. Valued /\ Valued'
    BY DEF PagingInv
<1>2. Contract!Stored = Stored /\ Contract!Stored' = Stored'
    BY <1>1, PlacesAreKnown, PlacesStayKnown DEF PlacesKnown
<1>3. CASE Contract!ReadPage
    BY <1>2, <1>3 DEF Contract!ReadPage, SeenAsPassed, Contract!Stored
<1>4. CASE Contract!Restart
    BY <1>2, <1>4 DEF Contract!Restart, SeenAsPassed, Contract!Stored
<1>5. ASSUME NEW r \in Resources, Contract!Change(r) PROVE SeenAsPassed'
    BY <1>2, <1>5 DEF Contract!Change, SeenAsPassed, Contract!Stored
<1>6. CASE UNCHANGED Contract!pagesVars
    BY <1>2, <1>6 DEF Contract!pagesVars, SeenAsPassed, Contract!Stored
<1> QED
    BY <1>3, <1>4, <1>5, <1>6 DEF Contract!Next

\* A resource that exists during the whole paging, and whose sort value does not
\* change, is returned exactly once, whatever is created, deleted or moved around
\* it (storage.py, "The cursors give stable pages").
THEOREM ResourcesSeenOnce == Spec => []SeenExactlyOnce
<1>1. Init => SeenAsPassed
    <2> SUFFICES ASSUME Init PROVE SeenAsPassed
        OBVIOUS
    <2>1. Contract!Init /\ steady = Stored
        BY FirstPageStable DEF Init
    <2> QED
        BY <2>1 DEF Contract!Init, SeenAsPassed, Stored
<1>2. PagingInv /\ SeenAsPassed => SeenExactlyOnce
    <2> SUFFICES ASSUME PagingInv, SeenAsPassed, NEW r \in steady
                 PROVE  seen[r] <= 1 /\ (Cursor = NoCursor => seen[r] = 1)
        BY DEF SeenExactlyOnce
    <2>1. Place[r] \in Places
        BY PlaceOfStored DEF PagingInv, SeenAsPassed, Stored
    <2>2. Cursor = NoCursor => Place[r] \in Passed
        BY <2>1 DEF Passed
    <2> QED
        BY <2>2 DEF SeenAsPassed
<1> QED
    BY <1>1, <1>2, StepsStable, SeenAsPassedKept, PagingInvariant, PTL DEF Spec
=============================================================================
