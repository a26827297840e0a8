--------------------------- MODULE MCCursorPaging ---------------------------
(***************************************************************************)
(* Three users, with a sort value or none, paged one by one or two by two, *)
(* ascending or descending, while another client makes one or two changes. *)
(***************************************************************************)
EXTENDS CursorPaging

CONSTANTS u1, u2, u3

MCIdentifier == [r \in Resources |->
    CASE r = u1 -> 1 [] r = u2 -> 2 [] r = u3 -> 3]
=============================================================================
