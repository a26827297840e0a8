--------------------------- MODULE MCBulkRequest ---------------------------
(***************************************************************************)
(* Three families of requests.                                             *)
(*                                                                         *)
(* Runs: up to three operations, drawn from MCOperations: two bulkIds with *)
(* creations that succeed, fail or reference each other or themselves,     *)
(* operations on their resources and on a stored one, and operations       *)
(* refused at each step before the storage.                                *)
(*                                                                         *)
(* Few: up to three operations: each is a POST with one of two bulkIds, so *)
(* duplicates occur, that references up to two of them in either order, or *)
(* a PUT that references one or both.                                      *)
(*                                                                         *)
(* Four: four creations, which reference others of the four, the first two *)
(* up to two of them and the last two up to one: diamonds, cycles of two   *)
(* to four creations, and chains that lead into them.                      *)
(*                                                                         *)
(* Few and Four are about the plan: their data is invalid, so that every   *)
(* operation is refused.                                                   *)
(***************************************************************************)
EXTENDS BulkRequest

CONSTANTS a, b, c, d, unknown, x

Op(method, bulkId, target, refs) ==
    [method |-> method, bulkId |-> bulkId, target |-> target, refs |-> refs,
     route |-> "routed", allowed |-> TRUE, valid |-> TRUE]

Post(bulkId, refs) == Op("post", bulkId, NoId, refs)

MCOperations == {
    Post(a, <<>>), Post(a, <<b>>), Post(a, <<a>>), Post(b, <<>>), Post(b, <<a>>),
    Post(NoBulkId, <<a>>),
    [Post(a, <<>>) EXCEPT !.valid = FALSE],
    [Post(b, <<>>) EXCEPT !.route = "notFound"],
    [Post(b, <<a>>) EXCEPT !.route = "unreadable", !.valid = FALSE],
    Op("put", NoBulkId, b, <<b, a>>),
    Op("put", a, x, <<>>),
    [Op("put", NoBulkId, x, <<>>) EXCEPT !.valid = FALSE],
    [Op("put", NoBulkId, x, <<unknown>>) EXCEPT !.allowed = FALSE],
    [Op("patch", NoBulkId, x, <<b>>) EXCEPT !.allowed = FALSE],
    Op("patch", NoBulkId, x, <<b>>),
    Op("delete", NoBulkId, a, <<a>>),
    Op("delete", NoBulkId, x, <<>>) }

Runs == UNION {[1 .. n -> MCOperations] : n \in 0 .. 3}

\* Operations that have a place in the plan, and are then refused.
Invalid(op) == [op EXCEPT !.valid = FALSE]

Refs(ids) == {<<>>} \cup {<<i>> : i \in ids} \cup {<<i, j>> : i, j \in ids}

Few ==
    LET refs == Refs({a, b}) \ {<<a, a>>, <<b, b>>}
        ops == {Invalid(Post(i, r)) : i \in {a, b}, r \in refs}
                   \cup {Invalid(Op("put", NoBulkId, x, r)) : r \in {<<b>>, <<a, b>>}}
    IN  UNION {[1 .. n -> ops] : n \in 0 .. 3}

Rank == [i \in {a, b, c, d} |-> CASE i = a -> 1 [] i = b -> 2 [] i = c -> 3 [] i = d -> 4]

Four ==
    LET refs == {r \in Refs({a, b, c, d}) : Len(r) = 2 => Rank[r[1]] < Rank[r[2]]}
        posts(i, most) == {Invalid(Post(i, r)) :
            r \in {s \in refs : Len(s) <= most /\ \A n \in DOMAIN s : s[n] # i}}
    IN  {<<p, q, r, s>> :
            p \in posts(a, 2), q \in posts(b, 2), r \in posts(c, 1), s \in posts(d, 1)}

MCBulkRequests == Runs \cup Few \cup Four
=============================================================================
