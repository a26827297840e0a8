------------------------------ MODULE Routing ------------------------------
(***************************************************************************)
(* The routes of the server (routing.py).  A path is the sequence of its   *)
(* segments; a pattern has placeholders for the endpoint of a resource     *)
(* type and for an identifier.                                             *)
(***************************************************************************)
EXTENDS Sequences, Integers

\* The names no endpoint of a resource type can take.
RESERVED_NAMES == {"ServiceProviderConfig", "ResourceTypes", "Schemas", "Bulk", "Me"}

Route(method, pattern, operation) ==
    [method |-> method, pattern |-> pattern, operation |-> operation]

Item == <<"{endpoint}", "{resource_id}">>

ROUTES == <<
    Route("GET", <<"ServiceProviderConfig">>, "service_provider_config"),
    Route("GET", <<"ResourceTypes">>, "resource_types"),
    Route("GET", <<"ResourceTypes", "{resource_id}">>, "resource_type"),
    Route("GET", <<"Schemas">>, "schemas"),
    Route("GET", <<"Schemas", "{resource_id}">>, "schema"),
    Route("POST", <<"Bulk">>, "bulk"),
    Route("GET", <<"Me">>, "query"),
    Route("PUT", <<"Me">>, "replace"),
    Route("PATCH", <<"Me">>, "patch"),
    Route("DELETE", <<"Me">>, "delete"),
    Route("POST", <<"Me">>, "create"),
    Route("GET", <<>>, "search"),
    Route("POST", <<".search">>, "search_with_body"),
    Route("POST", <<"{endpoint}", ".search">>, "search_with_body"),
    Route("GET", <<"{endpoint}">>, "search"),
    Route("POST", <<"{endpoint}">>, "create"),
    Route("GET", Item, "query"),
    Route("PUT", Item, "replace"),
    Route("PATCH", Item, "patch"),
    Route("DELETE", Item, "delete") >>

MatchPattern(pattern, path) ==
    /\ Len(pattern) = Len(path)
    /\ \A i \in DOMAIN pattern :
           CASE pattern[i] = "{endpoint}" -> path[i] \notin RESERVED_NAMES \cup {".search"}
             [] pattern[i] = "{resource_id}" -> TRUE
             [] OTHER -> pattern[i] = path[i]

\* The routes of a path, whatever their method.
RoutesOf(path) == {i \in DOMAIN ROUTES : MatchPattern(ROUTES[i].pattern, path)}

\* The operation of the first route that matches, or why there is none.
Match(method, path) ==
    LET routes == RoutesOf(path)
        found == {i \in routes : ROUTES[i].method = method}
    IN  IF found # {} THEN ROUTES[CHOOSE i \in found : \A j \in found : i <= j].operation
        ELSE IF routes # {} THEN "methodNotAllowed" ELSE "notFound"

Matched(operation) == operation \notin {"methodNotAllowed", "notFound"}
=============================================================================
