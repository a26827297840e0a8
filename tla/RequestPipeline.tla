-------------------------- MODULE RequestPipeline --------------------------
(***************************************************************************)
(* What happens to a request from the socket to its answer: the WSGI or    *)
(* the ASGI application reads its body, routes it and authenticates its    *)
(* client (applications/*.py, testserver/application.py), then its handler *)
(* calls the steps of the service in turn (handler.py, service.py), and    *)
(* the storage once none of them refused the request.                      *)
(*                                                                         *)
(* A body is a number of bytes, and whether they are valid once they are   *)
(* all there: what is missing of a JSON document makes it invalid.  What   *)
(* the storage makes of a write, the conditional headers and the order of  *)
(* a bulk request are the subject of Handler, Requests and BulkPlan.       *)
(***************************************************************************)
EXTENDS Routing, FiniteSetsExt

CONSTANTS
    Types,      \* the resource types the service serves
    Endpoints,  \* the names of their endpoints, and the type each one serves
    NoType,     \* no resource type is served at an endpoint
    None,       \* a setting, a parameter or an answer is missing
    Families    \* sets of cases: a configuration, and a request sent to it

ASSUME PipelineAssumption ==
    /\ NoType \notin Types
    /\ \A name \in DOMAIN Endpoints : Endpoints[name] \in Types
    /\ DOMAIN Endpoints \cap RESERVED_NAMES = {}
    /\ None \notin Nat \cup {"first", "own", "foreign"}
    /\ \A family \in Families : \A case \in family :
           LET c == case.config
               r == case.request
           IN  /\ {c.maxResults, c.maxPageSize, c.defaultPageSize, c.limit, r.count}
                      \subseteq Nat \cup {None}
               /\ r.gateway \in {"asgi", "wsgi"}
               \* The end of a body is a message, if an empty one.
               /\ r.chunks \in Seq(Nat) \ {<<>>}
               /\ {"method", "path", "valid", "stored", "parameters", "media"}
                      \subseteq DOMAIN r
               \* A DELETE has no data that could be invalid.
               /\ \A i \in DOMAIN r.operations :
                      /\ r.operations[i].path \in Seq(STRING)
                      /\ r.operations[i].method = "DELETE" => r.operations[i].valid

(***************************************************************************)
(* A configuration announces capabilities, limits, methods of paging and   *)
(* authentication schemes, and tells which credentials the application     *)
(* accepts.  The rights of a request are the resource types authorize()    *)
(* lets its client act on.                                                 *)
(***************************************************************************)
VARIABLES
    config,    \* the configuration of the service
    request,   \* the request
    operation, \* the operation its path and its method ask for, if any
    sent,      \* how many messages of its body the client sent
    gone,      \* whether the client left before the end of its body
    body,      \* how many bytes of the body the application kept
    more,      \* whether the application waits for the rest of the body
    at,        \* the step of the handler to take, 0 before its first one
    called,    \* the calls the storage got
    search,    \* what a search asked of the storage
    answer     \* the answer, once it is known

vars ==
    <<config, request, operation, sent, gone, body, more, at, called, search, answer>>

\* split_path: the version of the protocol is an optional prefix of the path.
Path(r) ==
    IF r.path # <<>> /\ r.path[1] = "v2" THEN Tail(r.path) ELSE r.path

Init ==
    /\ \E family \in Families : \E case \in family :
           config = case.config /\ request = case.request
    /\ operation = Match(request.method, Path(request))
    /\ sent = 0 /\ body = 0 /\ more = TRUE /\ gone = FALSE
    /\ at = 0
    /\ called = {}
    /\ search = None
    /\ answer = None

-----------------------------------------------------------------------------
(***************************************************************************)
(* The routing of a request, and the authentication of its client.         *)
(***************************************************************************)

\* The resource type of the endpoint of a path, if there is one.
TypeAt(path) ==
    IF path # <<>> /\ path[1] \in DOMAIN Endpoints THEN Endpoints[path[1]] ELSE NoType

IsMe(path) == path = <<"Me">>

\* StaticCredentialsApplication.check_auth
Accepts(c, r) ==
    \/ ~c.tokens /\ ~c.basic
    \/ r.scheme = "bearer" /\ c.tokens /\ r.secret = "token"
    \/ r.scheme = "basic" /\ c.basic /\ r.secret = "password"

\* announce_authentication_schemes
Schemes(c) ==
    c.schemes \cup (IF c.tokens \/ ~(c.basic \/ c.schemes # {}) THEN {"bearer"} ELSE {})
              \cup (IF c.basic THEN {"basic"} ELSE {})

\* www_authenticate: the challenges of a 401.
Challenges(c) == Schemes(c) \cap {"bearer", "basic"}

NeedsAuth == operation # "service_provider_config"

\* dispatch_request: needs_auth routes the request before check_auth refuses it.
Turned ==
    IF ~Matched(operation) THEN operation
    ELSE IF NeedsAuth /\ ~Accepts(config, request) THEN "unauthorized" ELSE "none"

-----------------------------------------------------------------------------
(***************************************************************************)
(* The body of a request.                                                  *)
(***************************************************************************)

\* How many bytes the first messages hold.
SizeOf(chunks, n) ==
    LET size[i \in 0..Len(chunks)] == IF i = 0 THEN 0 ELSE size[i - 1] + chunks[i]
    IN  size[n]

Size(r) == SizeOf(r.chunks, Len(r.chunks))

\* max_body_size: a request that fails whatever its body has a limit of 0.
MaxBodySize ==
    IF ~Matched(operation) THEN 0
    ELSE IF operation # "bulk" THEN None
    ELSE IF ~config.bulk THEN 0 ELSE config.limit

\* Mutant: what is asked of the input is taken for what it gave.
CutToRead(limit, size) == IF limit = None THEN size ELSE limit + 1

\* One byte beyond the limit tells that a body is too large.
Cut(limit, size) == IF limit = None \/ size <= limit THEN size ELSE limit + 1

\* Mutant: a message that comes when the limit is reached is dropped.
KeepBelow(limit, kept, size) ==
    IF limit = None \/ kept < limit THEN kept + size ELSE kept

Keep(limit, kept, size) ==
    IF limit = None \/ kept <= limit THEN kept + size ELSE kept

\* read_body and decode_body
BodyRefusal(r, kept) ==
    IF r.media = "other" THEN "unsupportedMediaType"
    ELSE IF kept = Size(r) /\ r.valid THEN "none" ELSE "invalid"

-----------------------------------------------------------------------------
(***************************************************************************)
(* A search: how it pages, and how many resources it asks for.             *)
(***************************************************************************)

PagesBy(c) == {way \in {"index", "cursor"} : c[way]}

DefaultPaging(c) ==
    IF c.default # None THEN c.default ELSE IF c.index THEN "index" ELSE "cursor"

PagingOf(c, r) ==
    IF r.cursor # None THEN "cursor"
    ELSE IF r.startIndex # None THEN "index" ELSE DefaultPaging(c)

Bounds(c) == {c.maxResults, c.maxPageSize} \ {None}

\* Mutant: the default page size escapes the bounds.
BoundGivenCount(c, count) ==
    IF count = None THEN c.defaultPageSize
    ELSE IF Bounds(c) # {} /\ count > Min(Bounds(c)) THEN Min(Bounds(c)) ELSE count

BoundCount(c, count) ==
    LET asked == IF count = None THEN c.defaultPageSize ELSE count
    IN  IF Bounds(c) # {} /\ (asked = None \/ asked > Min(Bounds(c)))
        THEN Min(Bounds(c)) ELSE asked

\* _seal gave the cursor with the bound of the count the client had asked for,
\* _open_cursor opens it with the bound of the one it asks for now.
OpensCursor(c, r) == BoundCount(c, r.count) = BoundCount(c, r.sealedCount)

\* read_search
SearchRefusal(c, r) ==
    IF r.filter /\ ~c.filter THEN "notImplemented"
    ELSE IF r.sort /\ ~c.sort THEN "notImplemented"
    ELSE IF ~r.parameters \/ (r.cursor # None /\ r.startIndex # None) THEN "invalid"
    ELSE IF PagingOf(c, r) \notin PagesBy(c) THEN "notImplemented"
    ELSE IF r.cursor = "foreign" THEN "invalidCursor"
    ELSE IF r.cursor = "own" /\ ~OpensCursor(c, r) THEN "invalidCount"
    ELSE "none"

\* What the storage is asked for.  A start index of 0 is the first.
SearchOf(c, r) ==
    [by |-> PagingOf(c, r),
     startIndex |-> IF PagingOf(c, r) = "cursor" THEN None
                    ELSE IF r.startIndex \in {None, 0} THEN 1 ELSE r.startIndex,
     count |-> BoundCount(c, r.count),
     positioned |-> r.cursor = "own"]

\* searched_types: every type at the root.
SearchedTypes(r) ==
    IF Path(r) \in {<<>>, <<".search">>} THEN Types ELSE {TypeAt(Path(r))}

\* authorized_types
AuthorizedTypes(r) == SearchedTypes(r) \cap r.rights

-----------------------------------------------------------------------------
(***************************************************************************)
(* An operation of a bulk request: [method, path, valid, stored], whether  *)
(* its data are valid and whether its resource is stored.                  *)
(***************************************************************************)

Writes == {"create", "replace", "patch", "delete"}

\* Mutant: the validation error of an operation comes before its rights.
AdmissionValidatedFirst(c, r, op) ==
    LET asked == Match(op.method, op.path)
        type == TypeAt(op.path)
    IN  IF ~Matched(asked) THEN asked
        ELSE IF IsMe(op.path) \/ asked \notin Writes THEN "invalid"
        ELSE IF type = NoType THEN "notFound"
        ELSE IF ~op.valid THEN "invalid"
        ELSE IF type \notin r.rights THEN "forbidden"
        ELSE IF asked = "patch" /\ ~c.patch THEN "notImplemented" ELSE "none"

\* run_bulk_step, until the storage is called.
Admission(c, r, op) ==
    LET asked == Match(op.method, op.path)
        type == TypeAt(op.path)
    IN  IF ~Matched(asked) THEN asked
        ELSE IF IsMe(op.path) \/ asked \notin Writes THEN "invalid"
        ELSE IF type = NoType THEN "notFound"
        ELSE IF type \notin r.rights THEN "forbidden"
        ELSE IF ~op.valid THEN "invalid"
        ELSE IF asked = "patch" /\ ~c.patch THEN "notImplemented" ELSE "none"

\* The status of an operation once it ran, and the calls it made.
Outcome(c, r, op) ==
    LET admission == Admission(c, r, op)
    IN  IF admission # "none" THEN admission
        ELSE IF op.method # "POST" /\ ~op.stored THEN "notFound" ELSE "done"

Call(name, type) == [name |-> name, type |-> type]

OperationCalls(c, r, op) ==
    {Call(name, TypeAt(op.path)) : name \in
        IF Admission(c, r, op) # "none" THEN {}
        ELSE IF op.method = "POST" THEN {"write"}
        ELSE IF op.stored THEN {"get", "write"} ELSE {"get"}}

-----------------------------------------------------------------------------
(***************************************************************************)
(* The steps of the service.  Each one refuses the request or lets it go.  *)
(***************************************************************************)

\* route: /Me is not supported, unless an integration overrides me_target.
MeRefusal(r) == IF IsMe(Path(r)) THEN "notImplemented" ELSE "none"

\* resource_type_at
TypeRefusal(types) == IF NoType \in types THEN "notFound" ELSE "none"

\* authorize: at the root, the types without rights are left out.
RightsRefusal(r, types) == IF types \cap r.rights = {} THEN "forbidden" ELSE "none"

\* read_response_parameters
ParametersRefusal(r) == IF r.parameters THEN "none" ELSE "invalid"

\* ensure_supported
SupportRefusal(capability) == IF capability THEN "none" ELSE "notImplemented"

\* ensure_bulk_payload_size
PayloadRefusal(c, kept) ==
    IF c.limit # None /\ kept > c.limit THEN "payloadTooLarge" ELSE "none"

\* read_bulk, once the body is validated.
OperationsRefusal(c, r) ==
    IF c.maxOperations # None /\ Len(r.operations) > c.maxOperations
    THEN "tooManyOperations" ELSE "none"

\* forbid_filter
FilterRefusal(r) == IF r.filter THEN "forbidden" ELSE "none"

\* What the request names, in the storage or in the discovery endpoints.
MissingRefusal(r) == IF r.stored THEN "none" ELSE "notFound"

\* Why a step refuses a request of which so many bytes were kept.
Refusal(c, r, kept, step) ==
    CASE step = "me" -> MeRefusal(r)
      [] step = "type" -> TypeRefusal({TypeAt(Path(r))})
      [] step = "searchedTypes" -> TypeRefusal(SearchedTypes(r))
      [] step = "authorize" -> RightsRefusal(r, {TypeAt(Path(r))})
      [] step = "authorizedTypes" -> RightsRefusal(r, SearchedTypes(r))
      [] step = "parameters" -> ParametersRefusal(r)
      [] step = "patchSupported" -> SupportRefusal(c.patch)
      [] step = "bulkSupported" -> SupportRefusal(c.bulk)
      [] step = "body" -> BodyRefusal(r, kept)
      [] step = "readSearch" -> SearchRefusal(c, r)
      [] step = "payload" -> PayloadRefusal(c, kept)
      [] step = "operations" -> OperationsRefusal(c, r)
      [] step = "forbidFilter" -> FilterRefusal(r)
      [] step \in {"get", "locate"} -> MissingRefusal(r)
      [] OTHER -> "none"

\* Mutant: a creation and a replacement validate their body before the rights.
StepsBodyFirst(name) ==
    CASE name = "create" -> <<"me", "type", "body", "authorize", "write">>
      [] name = "replace" -> <<"me", "type", "parameters", "body", "authorize", "get", "write">>
      [] name \in {"search", "search_with_body"} ->
             <<"searchedTypes", "authorizedTypes", "readSearch", "find">>
      [] OTHER -> <<"me", "type", "authorize", "get", "write">>

\* The steps of each method of the handler, in their order.
Steps(name) ==
    CASE name = "create" -> <<"me", "type", "authorize", "body", "write">>
      [] name = "query" -> <<"me", "type", "authorize", "parameters", "get">>
      [] name = "replace" ->
             <<"me", "type", "authorize", "parameters", "get", "body", "write">>
      [] name = "patch" ->
             <<"me", "type", "authorize", "parameters", "patchSupported", "body", "get", "write">>
      [] name = "delete" -> <<"me", "type", "authorize", "get", "write">>
      [] name = "search" -> <<"searchedTypes", "authorizedTypes", "readSearch", "find">>
      [] name = "search_with_body" ->
             <<"searchedTypes", "authorizedTypes", "body", "readSearch", "find">>
      [] name = "bulk" -> <<"bulkSupported", "payload", "body", "operations", "run">>
      [] name \in {"resource_type", "schema"} -> <<"forbidFilter", "locate">>
      [] OTHER -> <<"forbidFilter">>

\* The calls of the storage that a step makes.
Calls(c, r, step) ==
    CASE step = "get" -> {Call("get", TypeAt(Path(r)))}
      [] step = "write" -> {Call("write", TypeAt(Path(r)))}
      [] step = "find" -> {Call("search", type) : type \in AuthorizedTypes(r)}
      [] step = "run" -> UNION {OperationCalls(c, r, r.operations[i]) : i \in DOMAIN r.operations}
      [] OTHER -> {}

\* The statuses of the operations of a bulk request.
Outcomes(c, r) == [i \in DOMAIN r.operations |-> Outcome(c, r, r.operations[i])]

\* error_response and the response of the last step.
Answer(status) ==
    [status |-> status,
     challenges |-> IF status = "unauthorized" THEN Challenges(config) ELSE {},
     outcomes |-> IF status = "done" /\ operation = "bulk"
                  THEN Outcomes(config, request) ELSE <<>>]

-----------------------------------------------------------------------------
\* ASGIApplication.read_request: one message of the body, to its last one.
ReceiveAsgi ==
    LET kept == Keep(MaxBodySize, body, request.chunks[sent + 1])
        last == sent + 1 = Len(request.chunks)
    IN  /\ request.gateway = "asgi" /\ more /\ ~gone
        /\ sent' = sent + 1
        /\ body' = IF last THEN Cut(MaxBodySize, kept) ELSE kept
        /\ more' = ~last
        /\ UNCHANGED <<config, request, operation, gone, at, called, search, answer>>

\* Mutant: the application waits for the rest of the body of a client that left.
DisconnectWaits ==
    /\ request.gateway = "asgi" /\ more /\ ~gone
    /\ gone' = TRUE
    /\ body' = Cut(MaxBodySize, body)
    /\ UNCHANGED <<config, request, operation, sent, more, at, called, search, answer>>

\* The client leaves: http.disconnect has no body, and no more of it.
DisconnectAsgi ==
    /\ request.gateway = "asgi" /\ more /\ ~gone
    /\ gone' = TRUE
    /\ body' = Cut(MaxBodySize, body)
    /\ more' = FALSE
    /\ UNCHANGED <<config, request, operation, sent, at, called, search, answer>>

\* WSGIApplication.read_body: the input ends where the client left, and there
\* is none when neither its length nor its end is known.
ReadWsgi ==
    /\ request.gateway = "wsgi" /\ more
    /\ sent' \in 0..Len(request.chunks)
    /\ gone' = (sent' < Len(request.chunks))
    /\ body' = IF request.length = "unknown" THEN 0
               ELSE Cut(MaxBodySize, SizeOf(request.chunks, sent'))
    /\ more' = FALSE
    /\ UNCHANGED <<config, request, operation, at, called, search, answer>>

\* dispatch_request
Dispatch ==
    /\ ~more /\ at = 0 /\ answer = None
    /\ IF Turned = "none" THEN at' = 1 /\ UNCHANGED answer
       ELSE answer' = Answer(Turned) /\ UNCHANGED at
    /\ UNCHANGED <<config, request, operation, sent, gone, body, more, called, search>>

\* The next step of the handler.  A get calls the storage, found or not.
Serve ==
    LET steps == Steps(operation)
        step == steps[at]
        refusal == Refusal(config, request, body, step)
    IN  /\ at > 0 /\ answer = None
        /\ called' = called \cup Calls(config, request, step)
        /\ search' = IF step = "find" THEN SearchOf(config, request) ELSE search
        /\ IF refusal # "none" THEN answer' = Answer(refusal) /\ UNCHANGED at
           ELSE IF at = Len(steps) THEN answer' = Answer("done") /\ UNCHANGED at
           ELSE at' = at + 1 /\ UNCHANGED answer
        /\ UNCHANGED <<config, request, operation, sent, gone, body, more>>

\* The request is answered.
Done == answer # None /\ UNCHANGED vars

Next == ReceiveAsgi \/ DisconnectAsgi \/ ReadWsgi \/ Dispatch \/ Serve \/ Done

Spec == Init /\ [][Next]_vars

\* The server of the gateway gives a message or tells that the client left, and
\* no step of a request waits for another request.
FairSpec == Spec /\ WF_vars(Next)

-----------------------------------------------------------------------------
Calling(name, type) == Call(name, type) \in called

TypeOK ==
    /\ sent \in 0..Len(request.chunks)
    /\ gone \in BOOLEAN /\ more \in BOOLEAN
    /\ body \in 0..Size(request)
    /\ at \in 0..Len(Steps(operation))
    /\ called \subseteq [name : {"get", "write", "search"}, type : Types]

\* A client without valid credentials gets a 404, a 405 or a 401 with the
\* challenges of the credentials the application accepts, and one without
\* rights on a type gets a 403, whatever the body of its request and whatever
\* is stored.  The storage is never asked anything they may not have
\* (applications/wsgi.py dispatch_request, handler.py, service.py authorize).
RefusedClientLearnsNothing ==
    LET c == config
        r == request
        accepted == (IF c.tokens THEN {"bearer"} ELSE {}) \cup (IF c.basic THEN {"basic"} ELSE {})
        asked == IF operation \in {"search", "search_with_body"} THEN SearchedTypes(r)
                 ELSE IF operation \in Writes \cup {"query"} THEN {TypeAt(Path(r))} ELSE {}
    IN  /\ \A call \in called : call.type \in r.rights /\ Accepts(c, r)
        /\ answer # None /\ Matched(operation) /\ NeedsAuth /\ ~Accepts(c, r) =>
               /\ answer.status = "unauthorized"
               /\ answer.challenges # {} /\ accepted \subseteq answer.challenges
        /\ answer # None /\ Accepts(c, r) /\ asked # {} /\ asked \subseteq Types \ r.rights =>
               answer.status = "forbidden"

\* No more than a byte beyond the limit is kept of a body, a bulk request gets a
\* 413 exactly when its body is larger than the limit, however it was cut into
\* messages, and what a client left unfinished is never written, but for a
\* deletion, which reads no body (asgi.py read_request, wsgi.py read_body).
BodyLimits ==
    /\ ~more /\ MaxBodySize # None => body <= MaxBodySize + 1
    /\ answer # None /\ operation = "bulk" /\ config.bulk /\ config.limit # None
           /\ answer.status # "unauthorized" /\ ~gone
           /\ (request.gateway = "wsgi" => request.length # "unknown") =>
               (answer.status = "payloadTooLarge" <=> Size(request) > config.limit)
    /\ (\E type \in Types : Calling("write", type)) /\ operation # "delete" =>
           body = Size(request) /\ request.valid

\* A search reaches the storage only with a method of paging the configuration
\* announces and a count within its bounds, and the next page of a search is
\* never refused for its count when the client repeats the count it asked for
\* (service.py read_search, _bound_count, _open_cursor).
SearchAsAnnounced ==
    /\ search # None =>
           /\ search.by \in PagesBy(config)
           /\ search.positioned => search.by = "cursor"
           /\ \A bound \in Bounds(config) : search.count # None /\ search.count <= bound
    /\ answer # None /\ answer.status = "invalidCount" => request.count # request.sealedCount

\* The request an operation of a bulk request stands for: its path follows the
\* base URL, which ends with the version.
Single(r, op) ==
    [r EXCEPT !.method = op.method, !.path = <<"v2">> \o op.path, !.valid = op.valid,
              !.stored = op.stored, !.parameters = TRUE, !.media = "json"]

\* The status of a request, once it is read and its client authenticated.
Verdict(c, r) ==
    LET asked == Match(r.method, Path(r))
        steps == Steps(asked)
        refused == {i \in 1..Len(steps) : Refusal(c, r, Size(r), steps[i]) # "none"}
    IN  IF ~Matched(asked) THEN asked
        ELSE IF refused = {} THEN "done"
        ELSE Refusal(c, r, Size(r), steps[Min(refused)])

\* An operation of a bulk request fails as the single request it stands for
\* does, but that a bulk operation cannot be on /Me or a search, and that its
\* invalid data come before a missing resource and an unsupported PATCH
\* (service.py route_bulk_operation, handler.py run_bulk_step).
BulkFailsAlike ==
    answer # None => \A i \in DOMAIN answer.outcomes :
        LET op == request.operations[i]
            alone == Verdict(config, Single(request, op))
        IN  \/ answer.outcomes[i] = alone
            \/ /\ answer.outcomes[i] = "invalid"
               /\ \/ IsMe(op.path)
                  \/ Match(op.method, op.path) \notin Writes
                  \/ ~op.valid /\ alone \in {"notFound", "notImplemented"}

\* Every request is answered, even when its client leaves in the middle of its
\* body: the end of the body is not waited for (asgi.py read_request).
Answered == <>(answer # None)
=============================================================================
