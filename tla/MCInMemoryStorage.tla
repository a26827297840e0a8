------------------------- MODULE MCInMemoryStorage -------------------------
(***************************************************************************)
(* A small instance: two resource types that share the unique attribute    *)
(* "ext" of a schema extension, and an attribute "nick" of users only.     *)
(* "ext" compares without case; "nick" cannot compare "A".                 *)
(***************************************************************************)
EXTENDS InMemoryStorage, TLC

MCTypes == {"User", "Group"}
MCAttrs == {"ext", "nick"}
MCUniqueAttrs == {"ext"}
MCDeclares == [t \in MCTypes |-> IF t = "User" THEN {"ext", "nick"} ELSE {"ext"}]
MCValues == {"a", "A"}
MCFolded == {"x"}
MCComparable == [a \in MCAttrs |-> [v \in MCValues |->
    IF a = "nick" /\ v = "A" THEN Missing ELSE "x"]]

\* A list that holds one user, as another storage would have stored it.
LoadOf(i, version) == [k \in Keys |->
    IF k = <<"User", i>>
    THEN [data |-> [a \in Attrs |-> IF a = "ext" THEN "A" ELSE "a"], version |-> version]
    ELSE NoResource]

\* The version of a loaded resource is foreign: the counter never gives 0.
MCLoads == {LoadOf(i, 0) : i \in Ids}

\* The version of a loaded resource comes from a counter that started at 1 too.
MCLoadsFromStorage == {LoadOf(i, 1) : i \in Ids}

Symmetry == Permutations(Ids)
=============================================================================
