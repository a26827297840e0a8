------------------------- MODULE MCRequestPipeline -------------------------
(***************************************************************************)
(* Five families of cases, each one around a configuration that announces  *)
(* everything and a request that succeeds: the routes and the rights, the  *)
(* bodies, the searches, the credentials and the bulk operations.          *)
(***************************************************************************)
EXTENDS RequestPipeline

CONSTANTS User, Group

MCTypes == {User, Group}

MCEndpoints == [name \in {"Users", "users", "Groups"} |-> IF name = "Groups" THEN Group ELSE User]

Configuration ==
    [patch |-> TRUE, bulk |-> TRUE, limit |-> None, maxOperations |-> None,
     filter |-> TRUE, sort |-> TRUE, maxResults |-> None,
     index |-> TRUE, cursor |-> TRUE, default |-> None,
     defaultPageSize |-> None, maxPageSize |-> None,
     tokens |-> FALSE, basic |-> FALSE, schemes |-> {}]

Query ==
    [gateway |-> "wsgi", method |-> "GET", path |-> <<"Users", "1">>,
     scheme |-> "none", secret |-> "wrong", rights |-> MCTypes,
     stored |-> TRUE, media |-> "json", valid |-> TRUE, chunks |-> <<1>>,
     length |-> "declared", parameters |-> TRUE, filter |-> FALSE, sort |-> FALSE,
     startIndex |-> None, count |-> None, cursor |-> None, sealedCount |-> None,
     operations |-> <<>>]

Case(c, r) == [config |-> c, request |-> r]

Methods == {"GET", "POST", "PUT", "PATCH", "DELETE"}

Paths == {<<>>, <<".search">>, <<"Users">>, <<"users", ".search">>, <<"Users", "1">>,
          <<"v2", "Groups", "1">>, <<"Ghosts">>, <<"Ghosts", "1">>, <<"Me">>, <<"Schemas">>,
          <<"Schemas", "1">>, <<"ResourceTypes", "1">>, <<"ServiceProviderConfig">>,
          <<"Users", "1", "2">>}

RouteCases ==
    {Case([Configuration EXCEPT !.patch = patch],
          [Query EXCEPT !.method = method, !.path = path, !.rights = rights, !.stored = stored,
                        !.valid = valid, !.parameters = asks[1], !.filter = asks[2]]) :
        patch \in BOOLEAN, method \in Methods, path \in Paths,
        rights \in {{}, {User}, MCTypes}, stored \in BOOLEAN, valid \in BOOLEAN,
        asks \in {<<TRUE, FALSE>>, <<FALSE, FALSE>>, <<TRUE, TRUE>>}}

Creation == [method |-> "POST", path |-> <<"Users">>, valid |-> TRUE, stored |-> TRUE]

BodyCases ==
    {Case([Configuration EXCEPT !.limit = limit, !.bulk = bulk, !.maxOperations = max],
          [Query EXCEPT !.gateway = from[1], !.length = from[2], !.method = target[1],
                        !.path = target[2], !.chunks = chunks, !.media = media,
                        !.operations = operations]) :
        limit \in {None, 0, 2}, bulk \in BOOLEAN, max \in {None, 1},
        from \in {<<"asgi", "unknown">>, <<"wsgi", "declared">>, <<"wsgi", "terminated">>,
                  <<"wsgi", "unknown">>},
        target \in {<<"POST", <<"Bulk">>>>, <<"PUT", <<"Users", "1">>>>,
                    <<"POST", <<"Users", "1">>>>},
        chunks \in {<<1>>, <<3>>, <<1, 1>>, <<2, 1>>, <<1, 1, 0, 1>>, <<2, 2>>},
        media \in {"absent", "other"},
        operations \in {<<Creation>>, <<Creation, Creation>>}}

SearchCases ==
    {Case([Configuration EXCEPT !.filter = filter[1], !.sort = filter[1], !.index = ways[1],
                                !.cursor = ways[2], !.default = ways[3],
                                !.defaultPageSize = page, !.maxResults = bounds[1],
                                !.maxPageSize = bounds[2]],
          [Query EXCEPT !.path = <<"Users">>, !.filter = filter[2], !.sort = ~filter[2],
                        !.cursor = cursor[1], !.sealedCount = cursor[2],
                        !.startIndex = start, !.count = count]) :
        filter \in {<<TRUE, TRUE>>, <<FALSE, TRUE>>, <<FALSE, FALSE>>},
        ways \in {<<TRUE, FALSE, None>>, <<FALSE, TRUE, None>>, <<TRUE, TRUE, "cursor">>,
                  <<TRUE, FALSE, "cursor">>},
        page \in {None, 2}, bounds \in {<<None, None>>, <<1, None>>, <<2, 1>>, <<None, 2>>},
        cursor \in {<<None, None>>, <<"first", None>>, <<"foreign", None>>, <<"own", None>>,
                    <<"own", 1>>, <<"own", 3>>},
        start \in {None, 0, 2}, count \in {None, 0, 1, 3}}

CredentialCases ==
    {Case([Configuration EXCEPT !.tokens = tokens, !.basic = basic, !.schemes = schemes],
          [Query EXCEPT !.method = target[1], !.path = target[2], !.scheme = by[1],
                        !.secret = by[2]]) :
        tokens \in BOOLEAN, basic \in BOOLEAN,
        schemes \in {{}, {"oauth"}, {"bearer"}, {"basic", "oauth"}},
        target \in {<<"GET", <<"Users", "1">>>>, <<"GET", <<>>>>, <<"POST", <<"Bulk">>>>,
                    <<"GET", <<"Schemas">>>>, <<"GET", <<"ServiceProviderConfig">>>>,
                    <<"PUT", <<"Users">>>>, <<"GET", <<"Users", "1", "2">>>>},
        by \in {<<"none", "wrong">>, <<"bearer", "token">>, <<"basic", "password">>,
                <<"bearer", "password">>}}

BulkOperations ==
    {op \in [method : Methods \ {"GET"},
             path : Paths \cup {<<"Bulk">>, <<"Groups", "1">>},
             valid : BOOLEAN, stored : BOOLEAN] : op.method = "DELETE" => op.valid}

BulkCases ==
    {Case([Configuration EXCEPT !.patch = patch],
          [Query EXCEPT !.method = "POST", !.path = <<"Bulk">>, !.rights = rights,
                        !.operations = <<op>>]) :
        patch \in BOOLEAN, rights \in {{}, {User}, MCTypes}, op \in BulkOperations}

MCFamilies == {RouteCases, BodyCases, SearchCases, CredentialCases, BulkCases}
=============================================================================
