----------------------- MODULE RequestPipelineProofs -----------------------
(***************************************************************************)
(* A client that is not let in learns nothing of what is stored, whatever  *)
(* the types, the endpoints, the configuration and the request: each step  *)
(* of a handler that calls the storage comes after one that asks for the   *)
(* rights of the client, and nothing is asked before authentication.       *)
(***************************************************************************)
EXTENDS RequestPipeline, SequenceTheorems, WellFoundedInduction, TLAPS

\* Why the step i of the operation refuses the request, if it does.
RefusalAt(i) == Refusal(config, request, body, Steps(operation)[i])

CallsAt(i) == Calls(config, request, Steps(operation)[i])

\* The steps before the current one let the request go, and the storage got the
\* calls of the steps that were taken.
Progress ==
    /\ at \in 0..Len(Steps(operation))
    /\ at > 0 => ~more /\ Turned = "none"
    /\ \A i \in 1..(at - 1) : RefusalAt(i) = "none"
    /\ \A call \in called : \E i \in 1..at : call \in CallsAt(i)

\* An answer comes from authentication, from the step that refused the request,
\* or from the last one.
Explained ==
    answer # None =>
        \/ at = 0 /\ Turned # "none" /\ answer = Answer(Turned)
        \/ at > 0 /\ RefusalAt(at) # "none" /\ answer = Answer(RefusalAt(at))
        \/ /\ at = Len(Steps(operation)) /\ at > 0 /\ RefusalAt(at) = "none"
           /\ answer = Answer("done")

PipelineInv == Progress /\ Explained

\* Each operation has a first step.
LEMMA StepsAreASequence == \A name : Len(Steps(name)) \in Nat /\ Len(Steps(name)) > 0
BY DEF Steps

\* A request that was received has taken no step.
LEMMA PipelineAtStart == Init => PipelineInv
BY StepsAreASequence DEF Init, PipelineInv, Progress, Explained

\* Reading a body, or a part of it, comes before every step.
LEMMA ReadingKeepsInv ==
    ASSUME PipelineInv, more,
           UNCHANGED <<config, request, operation, at, called, search, answer>>
    PROVE  PipelineInv'
<1>1. at = 0
    BY StepsAreASequence DEF PipelineInv, Progress
<1> QED
    BY <1>1 DEF PipelineInv, Progress, Explained, Answer, Turned, NeedsAuth, CallsAt

\* Every step of a request keeps the invariant.
LEMMA PipelineKept == PipelineInv /\ [Next]_vars => PipelineInv'
<1> SUFFICES ASSUME PipelineInv, [Next]_vars PROVE PipelineInv'
    OBVIOUS
<1>1. CASE ReceiveAsgi
    BY <1>1, ReadingKeepsInv DEF ReceiveAsgi
<1>2. CASE DisconnectAsgi
    BY <1>2, ReadingKeepsInv DEF DisconnectAsgi
<1>3. CASE ReadWsgi
    BY <1>3, ReadingKeepsInv DEF ReadWsgi
<1>4. CASE Dispatch
    <2> USE <1>4 DEF Dispatch
    <2>1. CASE Turned = "none"
        BY <2>1, StepsAreASequence
        DEF PipelineInv, Progress, Explained, Turned, NeedsAuth, CallsAt
    <2>2. CASE Turned # "none"
        BY <2>2 DEF PipelineInv, Progress, Explained, Turned, NeedsAuth, Answer, CallsAt
    <2> QED
        BY <2>1, <2>2
<1>5. CASE Serve
    <2> DEFINE steps == Steps(operation)
    <2>1. /\ at > 0 /\ answer = None /\ at \in 1..Len(steps)
          /\ called' = called \cup CallsAt(at)
          /\ UNCHANGED <<config, request, operation, body, more>>
        BY <1>5, StepsAreASequence DEF Serve, CallsAt, PipelineInv, Progress
    <2>2. at' \in 1..Len(steps) /\ at' >= at
        BY <1>5, <2>1, StepsAreASequence DEF Serve
    <2>3. \A i \in 1..(at' - 1) : RefusalAt(i) = "none"
        <3>1. at' = at \/ (at' = at + 1 /\ RefusalAt(at) = "none")
            BY <1>5 DEF Serve, RefusalAt
        <3>2. \A i \in 1..(at - 1) : RefusalAt(i) = "none"
            BY DEF PipelineInv, Progress
        <3>3. at \in Int /\ \A i \in 1..(at' - 1) : i \in 1..(at - 1) \/ (i = at /\ at' = at + 1)
            BY <3>1, <2>1, StepsAreASequence
        <3> QED
            BY <3>1, <3>2, <3>3
    <2>4. \A call \in called' : \E i \in 1..at' : call \in CallsAt(i)
        <3>1. \A call \in called : \E i \in 1..at : call \in CallsAt(i)
            BY DEF PipelineInv, Progress
        <3>2. 1..at \subseteq 1..at' /\ at \in 1..at'
            BY <2>1, <2>2, StepsAreASequence
        <3>3. TAKE call \in called'
        <3>4. CASE call \in called
            BY <3>1, <3>2, <3>4
        <3>5. CASE call \in CallsAt(at)
            BY <3>2, <3>5
        <3> QED
            BY <2>1, <3>4, <3>5
    <2>5. Progress'
        <3>1. (at \in 0..Len(Steps(operation)))'
            BY <2>1, <2>2, StepsAreASequence
        <3>2. (at > 0 => ~more /\ Turned = "none")'
            BY <2>1 DEF PipelineInv, Progress, Turned, NeedsAuth
        <3>3. (\A i \in 1..(at - 1) : RefusalAt(i) = "none")'
            BY <2>1, <2>3 DEF RefusalAt
        <3>4. (\A call \in called : \E i \in 1..at : call \in CallsAt(i))'
            BY <2>1, <2>4 DEF CallsAt
        <3> QED
            BY <3>1, <3>2, <3>3, <3>4 DEF Progress
    <2>6. Explained'
        BY <1>5, <2>1 DEF Serve, Explained, RefusalAt, Answer
    <2> QED
        BY <2>5, <2>6 DEF PipelineInv
<1>6. CASE UNCHANGED vars
    BY <1>6
    DEF vars, PipelineInv, Progress, Explained, RefusalAt, CallsAt, Turned, NeedsAuth, Answer
<1> QED
    BY <1>1, <1>2, <1>3, <1>4, <1>5, <1>6 DEF Next, Done

\* The invariant holds at every instant.
THEOREM PipelineInvariant == Spec => []PipelineInv
BY PipelineAtStart, PipelineKept, PTL DEF Spec

-----------------------------------------------------------------------------
\* The operations on one resource type ask for the rights before anything else
\* of their request, and so do the searches.
LEMMA RightsComeFirst ==
    /\ \A name \in Writes \cup {"query"} :
           /\ Len(Steps(name)) > 3 /\ Steps(name)[1] = "me"
           /\ Steps(name)[2] = "type" /\ Steps(name)[3] = "authorize"
    /\ \A name \in {"search", "search_with_body"} :
           /\ Len(Steps(name)) > 2 /\ Steps(name)[1] = "searchedTypes"
           /\ Steps(name)[2] = "authorizedTypes"
BY DEF Steps, Writes

\* Only an operation on one resource type gets a resource or writes one.
LEMMA StorageOfOneType ==
    ASSUME NEW name, NEW i \in 1..Len(Steps(name)), Steps(name)[i] \in {"get", "write"}
    PROVE  name \in Writes \cup {"query"} /\ i > 3
BY DEF Steps, Writes

\* An operation of a bulk request calls the storage on a type its client has the
\* rights on.
LEMMA BulkCallsHaveRights ==
    ASSUME NEW op, NEW call \in OperationCalls(config, request, op)
    PROVE  call.type \in request.rights
<1>1. call.type = TypeAt(op.path) /\ Admission(config, request, op) = "none"
    BY DEF OperationCalls, Call
<1> QED
    BY <1>1 DEF Admission, Matched

\* A step that calls the storage comes after the one that asks for the rights.
LEMMA CallsHaveRights ==
    ASSUME NEW i \in 1..Len(Steps(operation)), NEW call \in CallsAt(i),
           \A j \in 1..(i - 1) : RefusalAt(j) = "none"
    PROVE  call.type \in request.rights
<1> DEFINE step == Steps(operation)[i]
<1>1. CASE step \in {"get", "write"}
    <2>1. i > 3 /\ Steps(operation)[3] = "authorize"
        BY <1>1, StorageOfOneType, RightsComeFirst
    <2>2. RightsRefusal(request, {TypeAt(Path(request))}) = "none"
        <3>1. RefusalAt(3) = "none"
            BY <2>1, StepsAreASequence
        <3> QED
            BY <2>1, <3>1 DEF RefusalAt, Refusal
    <2>3. TypeAt(Path(request)) \in request.rights
        BY <2>2 DEF RightsRefusal
    <2> QED
        BY <1>1, <2>3 DEF CallsAt, Calls, Call
<1>2. CASE step = "find"
    BY <1>2 DEF CallsAt, Calls, Call, AuthorizedTypes
<1>3. CASE step = "run"
    BY <1>3, BulkCallsHaveRights DEF CallsAt, Calls
<1> QED
    BY <1>1, <1>2, <1>3 DEF CallsAt, Calls

\* The storage is asked only what the client of the request may ask.
LEMMA CallsAllowed ==
    ASSUME PipelineInv, NEW call \in called
    PROVE  call.type \in request.rights /\ Accepts(config, request)
<1>1. PICK i \in 1..at : call \in CallsAt(i)
    BY DEF PipelineInv, Progress
<1>2. at > 0 /\ i \in 1..Len(Steps(operation)) /\ \A j \in 1..(i - 1) : RefusalAt(j) = "none"
    BY <1>1, StepsAreASequence DEF PipelineInv, Progress
<1>3. call.type \in request.rights
    BY <1>1, <1>2, CallsHaveRights
<1>4. operation # "service_provider_config"
    <2> SUFFICES ASSUME operation = "service_provider_config" PROVE FALSE
        OBVIOUS
    <2>1. Steps(operation) = <<"forbidFilter">>
        BY DEF Steps
    <2> QED
        BY <1>1, <1>2, <2>1 DEF CallsAt, Calls
<1>5. Accepts(config, request)
    BY <1>2, <1>4 DEF PipelineInv, Progress, Turned, NeedsAuth, Matched
<1> QED
    BY <1>3, <1>5

\* A client that is not authenticated gets the 401 and its challenges.
LEMMA ChallengesOfRefused ==
    ASSUME PipelineInv, answer # None, Matched(operation), NeedsAuth,
           ~Accepts(config, request)
    PROVE  /\ answer.status = "unauthorized" /\ answer.challenges # {}
           /\ config.tokens => "bearer" \in answer.challenges
           /\ config.basic => "basic" \in answer.challenges
<1>1. Turned = "unauthorized" /\ at = 0
    BY StepsAreASequence DEF PipelineInv, Progress, Turned
<1>2. answer.status = "unauthorized" /\ answer.challenges = Challenges(config)
    BY <1>1, StepsAreASequence DEF PipelineInv, Explained, Answer
<1>3. config.tokens \/ config.basic
    BY DEF Accepts
<1>4. config.tokens => "bearer" \in Challenges(config)
    BY DEF Challenges, Schemes
<1>5. config.basic => "basic" \in Challenges(config)
    BY DEF Challenges, Schemes
<1> QED
    BY <1>2, <1>3, <1>4, <1>5

\* A type a request names is not a reserved name, so its path is not /Me.
LEMMA TypesAreNotMe == TypeAt(Path(request)) \in Types => ~IsMe(Path(request))
BY PipelineAssumption DEF TypeAt, IsMe, RESERVED_NAMES

\* The step that refuses a client without rights.
LEMMA RightsRefused ==
    ASSUME PipelineInv, answer # None, Turned = "none",
           NEW n \in 1..(Len(Steps(operation)) - 1),
           RefusalAt(n) = "forbidden",
           \A i \in 1..(n - 1) : RefusalAt(i) = "none"
    PROVE  answer.status = "forbidden"
<1>1. at > 0 /\ at \in 1..Len(Steps(operation)) /\ at <= n
    BY StepsAreASequence DEF PipelineInv, Progress, Explained
<1>2. at # Len(Steps(operation))
    BY <1>1, StepsAreASequence
<1>3. RefusalAt(at) # "none" /\ answer = Answer(RefusalAt(at))
    BY <1>1, <1>2, StepsAreASequence DEF PipelineInv, Explained
<1>4. at = n
    BY <1>1, <1>3, StepsAreASequence
<1> QED
    BY <1>3, <1>4 DEF Answer

\* A client without rights on the type of its path is refused there.
LEMMA ForbiddenOnOneType ==
    ASSUME PipelineInv, answer # None, Accepts(config, request),
           operation \in Writes \cup {"query"},
           TypeAt(Path(request)) \in Types \ request.rights
    PROVE  answer.status = "forbidden"
<1>1. Turned = "none"
    BY DEF Turned, Matched, Writes
<1>2. /\ Len(Steps(operation)) > 3 /\ Steps(operation)[1] = "me"
      /\ Steps(operation)[2] = "type" /\ Steps(operation)[3] = "authorize"
    BY RightsComeFirst
<1>3. RefusalAt(1) = "none"
    <2>1. MeRefusal(request) = "none"
        BY TypesAreNotMe DEF MeRefusal
    <2> QED
        BY <1>2, <2>1 DEF RefusalAt, Refusal
<1>4. RefusalAt(2) = "none"
    <2>1. TypeRefusal({TypeAt(Path(request))}) = "none"
        BY PipelineAssumption DEF TypeRefusal
    <2> QED
        BY <1>2, <2>1 DEF RefusalAt, Refusal
<1>5. RefusalAt(3) = "forbidden"
    <2>1. RightsRefusal(request, {TypeAt(Path(request))}) = "forbidden"
        BY DEF RightsRefusal
    <2> QED
        BY <1>2, <2>1 DEF RefusalAt, Refusal
<1>6. 3 \in 1..(Len(Steps(operation)) - 1) /\ \A i \in 1..(3 - 1) : i = 1 \/ i = 2
    BY <1>2, StepsAreASequence
<1> QED
    BY <1>1, <1>3, <1>4, <1>5, <1>6, RightsRefused

\* A client without rights on any type it searches is refused before its search
\* is read.
LEMMA ForbiddenSearch ==
    ASSUME PipelineInv, answer # None, Accepts(config, request),
           operation \in {"search", "search_with_body"},
           SearchedTypes(request) \subseteq Types \ request.rights
    PROVE  answer.status = "forbidden"
<1>1. Turned = "none"
    BY DEF Turned, Matched
<1>2. /\ Len(Steps(operation)) > 2 /\ Steps(operation)[1] = "searchedTypes"
      /\ Steps(operation)[2] = "authorizedTypes"
    BY RightsComeFirst
<1>3. RefusalAt(1) = "none"
    <2>1. TypeRefusal(SearchedTypes(request)) = "none"
        BY PipelineAssumption DEF TypeRefusal
    <2> QED
        BY <1>2, <2>1 DEF RefusalAt, Refusal
<1>4. RefusalAt(2) = "forbidden"
    <2>1. RightsRefusal(request, SearchedTypes(request)) = "forbidden"
        BY DEF RightsRefusal
    <2> QED
        BY <1>2, <2>1 DEF RefusalAt, Refusal
<1>5. 2 \in 1..(Len(Steps(operation)) - 1) /\ \A i \in 1..(2 - 1) : i = 1
    BY <1>2, StepsAreASequence
<1> QED
    BY <1>1, <1>3, <1>4, <1>5, RightsRefused

\* A client without valid credentials, or without rights on a type, gets a 401
\* or a 403 whatever is stored and whatever its body is, and the storage is
\* never asked for it: the order of the steps of every handler method.
THEOREM RefusedClients == Spec => []RefusedClientLearnsNothing
<1>1. PipelineInv => RefusedClientLearnsNothing
    <2> SUFFICES ASSUME PipelineInv PROVE RefusedClientLearnsNothing
        OBVIOUS
    <2>1. \A call \in called : call.type \in request.rights /\ Accepts(config, request)
        BY CallsAllowed
    <2>2. answer # None /\ Matched(operation) /\ NeedsAuth /\ ~Accepts(config, request) =>
              /\ answer.status = "unauthorized" /\ answer.challenges # {}
              /\ ((IF config.tokens THEN {"bearer"} ELSE {})
                      \cup (IF config.basic THEN {"basic"} ELSE {})) \subseteq answer.challenges
        BY ChallengesOfRefused
    <2>3. answer # None /\ Accepts(config, request) /\ operation \in Writes \cup {"query"}
              /\ {TypeAt(Path(request))} \subseteq Types \ request.rights =>
              answer.status = "forbidden"
        BY ForbiddenOnOneType
    <2>4. answer # None /\ Accepts(config, request)
              /\ operation \in {"search", "search_with_body"}
              /\ SearchedTypes(request) \subseteq Types \ request.rights =>
              answer.status = "forbidden"
        BY ForbiddenSearch
    <2> QED
        BY <2>1, <2>2, <2>3, <2>4 DEF RefusedClientLearnsNothing
<1> QED
    BY <1>1, PipelineInvariant, PTL


-----------------------------------------------------------------------------
\* The request that is served is one of the cases.
Sent == \E family \in Families : \E case \in family :
            config = case.config /\ request = case.request

\* A search that reached the storage was read and not refused.
SearchRead ==
    /\ Sent
    /\ search # None =>
           /\ SearchRefusal(config, request) = "none"
           /\ search = SearchOf(config, request)

\* A search is read before the storage is asked for it.
LEMMA SearchReadFirst ==
    ASSUME PipelineInv, at > 0, Steps(operation)[at] = "find"
    PROVE  SearchRefusal(config, request) = "none"
<1>1. at \in 1..Len(Steps(operation))
    BY StepsAreASequence DEF PipelineInv, Progress
<1>2. PICK i \in 1..(at - 1) : Steps(operation)[i] = "readSearch"
    BY <1>1 DEF Steps
<1>3. RefusalAt(i) = "none"
    BY <1>2 DEF PipelineInv, Progress
<1> QED
    BY <1>2, <1>3 DEF RefusalAt, Refusal

\* Every step keeps it.
LEMMA SearchReadKept == PipelineInv /\ SearchRead /\ [Next]_vars => SearchRead'
<1> SUFFICES ASSUME PipelineInv, SearchRead, [Next]_vars PROVE SearchRead'
    OBVIOUS
<1>1. CASE ReceiveAsgi \/ DisconnectAsgi \/ ReadWsgi
    <2>1. at = 0 /\ UNCHANGED <<config, request, operation, at, called, search, answer>>
        BY <1>1, StepsAreASequence
        DEF ReceiveAsgi, DisconnectAsgi, ReadWsgi, PipelineInv, Progress
    <2> QED
        BY <2>1 DEF SearchRead, Sent
<1>2. CASE Dispatch
    BY <1>2 DEF Dispatch, SearchRead, Sent
<1>3. CASE Serve
    <2>1. /\ at > 0 /\ UNCHANGED <<config, request, operation, body>>
          /\ search' = IF Steps(operation)[at] = "find" THEN SearchOf(config, request) ELSE search
          /\ IF RefusalAt(at) # "none" THEN answer' = Answer(RefusalAt(at)) /\ UNCHANGED at
             ELSE IF at = Len(Steps(operation)) THEN answer' = Answer("done") /\ UNCHANGED at
             ELSE at' = at + 1 /\ answer' = None
        BY <1>3 DEF Serve, RefusalAt
    <2>2. search' # None =>
              SearchRefusal(config, request) = "none" /\ search' = SearchOf(config, request)
        BY <2>1, SearchReadFirst DEF SearchRead
    <2> QED
        BY <2>1, <2>2 DEF SearchRead, Sent
<1>4. CASE UNCHANGED vars
    BY <1>4 DEF vars, SearchRead, Sent
<1> QED
    BY <1>1, <1>2, <1>3, <1>4 DEF Next, Done

\* What a search asked of the storage was read from its request.
LEMMA SearchIsRead == Spec => []SearchRead
<1>1. Init => SearchRead
    BY DEF Init, SearchRead, Sent
<1> QED
    BY <1>1, SearchReadKept, PipelineInvariant, PTL DEF Spec

\* The limits of a configuration are numbers.
LEMMA LimitsAreNumbers ==
    ASSUME Sent
    PROVE  /\ Bounds(config) \subseteq Nat
           /\ BoundCount(config, request.count) \in Nat \cup {None}
<1>1. {config.maxResults, config.maxPageSize, config.defaultPageSize, request.count}
          \subseteq Nat \cup {None}
    BY PipelineAssumption DEF Sent
<1>2. Bounds(config) \subseteq Nat
    BY <1>1 DEF Bounds
<1>3. Bounds(config) # {} => Min(Bounds(config)) \in Bounds(config)
    BY <1>1 DEF Bounds, Min
<1> QED
    BY <1>1, <1>2, <1>3 DEF BoundCount

\* The count of a search is within each bound of its configuration.
LEMMA CountIsBound ==
    ASSUME Sent, NEW bound \in Bounds(config)
    PROVE  /\ BoundCount(config, request.count) # None
           /\ BoundCount(config, request.count) <= bound
<1>1. {config.maxResults, config.maxPageSize, config.defaultPageSize, request.count}
          \subseteq Nat \cup {None} /\ None \notin Nat
    BY PipelineAssumption DEF Sent
<1>2. /\ Bounds(config) \subseteq Nat /\ bound \in Nat
      /\ Min(Bounds(config)) \in Nat
      /\ Min(Bounds(config)) <= bound
    BY <1>1 DEF Bounds, Min
<1> DEFINE asked == IF request.count = None THEN config.defaultPageSize ELSE request.count
<1>3. asked \in Nat \cup {None}
    BY <1>1
<1>4. BoundCount(config, request.count) =
          IF asked = None \/ asked > Min(Bounds(config)) THEN Min(Bounds(config)) ELSE asked
    BY DEF BoundCount
<1> HIDE DEF asked
<1>5. CASE asked = None \/ asked > Min(Bounds(config))
    BY <1>1, <1>2, <1>4, <1>5
<1>6. CASE asked \in Nat /\ ~(asked > Min(Bounds(config)))
    <2>1. BoundCount(config, request.count) = asked
        BY <1>1, <1>4, <1>6
    <2> QED
        BY <1>1, <1>2, <1>6, <2>1
<1> QED
    BY <1>3, <1>5, <1>6

\* Only a refused step answers that the count of a cursor has changed.
LEMMA InvalidCountIsRefused ==
    ASSUME PipelineInv, answer # None, answer.status = "invalidCount"
    PROVE  at > 0 /\ RefusalAt(at) = "invalidCount"
<1>1. Turned # "invalidCount"
    BY DEF Turned, Matched
<1>2. CASE at > 0 /\ RefusalAt(at) # "none" /\ answer = Answer(RefusalAt(at))
    BY <1>2 DEF Answer
<1> QED
    BY <1>1, <1>2 DEF PipelineInv, Explained, Answer

\* Only the reading of a search refuses it for its count.
LEMMA InvalidCountOfReading ==
    ASSUME RefusalAt(at) = "invalidCount"
    PROVE  Steps(operation)[at] = "readSearch"
BY DEF RefusalAt, Refusal, MeRefusal, TypeRefusal, RightsRefusal, ParametersRefusal,
       SupportRefusal, BodyRefusal, PayloadRefusal, OperationsRefusal, FilterRefusal,
       MissingRefusal

\* A search reaches the storage only with a method of paging the configuration
\* announces and a count within its bounds, and a cursor is never refused for
\* its count when the client repeats the count (service.py read_search,
\* _bound_count, _open_cursor).
THEOREM SearchesAsAnnounced == Spec => []SearchAsAnnounced
<1>1. PipelineInv /\ SearchRead => SearchAsAnnounced
    <2> SUFFICES ASSUME PipelineInv, SearchRead PROVE SearchAsAnnounced
        OBVIOUS
    <2>1. ASSUME search # None
          PROVE  /\ search.by \in PagesBy(config)
                 /\ search.positioned => search.by = "cursor"
                 /\ \A bound \in Bounds(config) : search.count # None /\ search.count <= bound
        <3>1. /\ search.by = PagingOf(config, request)
              /\ search.positioned = (request.cursor = "own")
              /\ search.count = BoundCount(config, request.count)
            BY <2>1 DEF SearchRead, SearchOf
        <3>2. PagingOf(config, request) \in PagesBy(config)
            BY <2>1 DEF SearchRead, SearchRefusal
        <3>3. request.cursor = "own" => PagingOf(config, request) = "cursor"
            BY PipelineAssumption DEF PagingOf
        <3> QED
            BY <3>1, <3>2, <3>3, CountIsBound DEF SearchRead
    <2>2. ASSUME answer # None, answer.status = "invalidCount"
          PROVE  request.count # request.sealedCount
        <3>1. at > 0 /\ RefusalAt(at) = "invalidCount"
            BY <2>2, InvalidCountIsRefused
        <3>2. Steps(operation)[at] = "readSearch"
            BY <3>1, InvalidCountOfReading
        <3>3. request.cursor = "own" /\ ~OpensCursor(config, request)
            BY <3>1, <3>2 DEF RefusalAt, Refusal, SearchRefusal
        <3> QED
            BY <3>3 DEF OpensCursor
    <2> QED
        BY <2>1, <2>2 DEF SearchAsAnnounced
<1> QED
    BY <1>1, SearchIsRead, PipelineInvariant, PTL

-----------------------------------------------------------------------------
(***************************************************************************)
(* The size of a body.  Induction is over sets of numbers: one that holds  *)
(* 0 and, with each number, the next one holds them all.                   *)
(***************************************************************************)

\* A set of numbers that is not empty has a least one.
LEMMA LeastNat ==
    ASSUME NEW S \in SUBSET Nat, S # {}
    PROVE  \E n \in S : \A m \in S : n <= m
<1> DEFINE R == OpToRel(<, Nat)
<1>1. IsWellFoundedOn(R, Nat)
    BY NatLessThanWellFounded
<1>2. \A m, n \in Nat : <<m, n>> \notin R => ~(m < n)
    BY DEF OpToRel
<1> HIDE DEF R
<1>3. PICK n \in S : \A m \in S : <<m, n>> \notin R
    BY <1>1, WFMin
<1>4. \A m \in S : ~(m < n)
    BY <1>2, <1>3
<1> HIDE <1>2, <1>3
<1> QED
    BY <1>4

LEMMA SetInduction ==
    ASSUME NEW S, 0 \in S, \A n \in Nat : n \in S => n + 1 \in S
    PROVE  Nat \subseteq S
<1> SUFFICES ASSUME Nat \ S # {} PROVE FALSE
    OBVIOUS
<1>1. PICK n \in Nat \ S : \A m \in Nat \ S : n <= m
    BY LeastNat
<1>2. n - 1 \in Nat /\ n - 1 < n
    BY <1>1
<1> QED
    BY <1>1, <1>2

\* The equation of the recursive function in SizeOf.
Sums(chunks, size) ==
    size = [i \in 0..Len(chunks) |-> IF i = 0 THEN 0 ELSE size[i - 1] + chunks[i]]

SumsUpTo(chunks, size, n) ==
    \A i \in 0..n : size[i] = IF i = 0 THEN 0 ELSE size[i - 1] + chunks[i]

\* A solution up to n extends to n + 1.
LEMMA SumsExtend ==
    ASSUME NEW chunks \in Seq(Nat), NEW n \in Nat, n + 1 \in 1..Len(chunks),
           NEW size \in [0..Len(chunks) -> Nat], SumsUpTo(chunks, size, n)
    PROVE  \E longer \in [0..Len(chunks) -> Nat] : SumsUpTo(chunks, longer, n + 1)
<1> DEFINE longer == [size EXCEPT ![n + 1] = size[n] + chunks[n + 1]]
<1>1. Len(chunks) \in Nat /\ n \in 0..Len(chunks) /\ n + 1 \in 0..Len(chunks)
    OBVIOUS
<1>2. chunks[n + 1] \in Nat
    OBVIOUS
<1>3. size[n] \in Nat
    BY <1>1
<1>4. size[n] + chunks[n + 1] \in Nat
    BY <1>2, <1>3
<1>5. longer \in [0..Len(chunks) -> Nat]
    BY <1>4
<1>6. \A i \in 0..n : longer[i] = size[i]
    BY <1>1
<1>7. longer[n + 1] = longer[n] + chunks[n + 1]
    BY <1>1
<1> HIDE DEF longer
<1>8. ASSUME NEW i \in 0..(n + 1)
      PROVE  longer[i] = IF i = 0 THEN 0 ELSE longer[i - 1] + chunks[i]
    <2>1. CASE i = n + 1
        BY <1>7, <2>1
    <2>2. CASE i = 0
        BY <1>6, <2>2 DEF SumsUpTo
    <2>3. CASE i \in 1..n
        <3>1. longer[i] = size[i] /\ longer[i - 1] = size[i - 1]
            BY <1>6, <2>3
        <3> QED
            BY <2>3, <3>1 DEF SumsUpTo
    <2> QED
        BY <2>1, <2>2, <2>3
<1> QED
    BY <1>5, <1>8 DEF SumsUpTo

\* There is a solution.
LEMMA SumsExist ==
    ASSUME NEW chunks \in Seq(Nat)
    PROVE  \E size : Sums(chunks, size)
<1> DEFINE Solved(n) == \E size \in [0..Len(chunks) -> Nat] : SumsUpTo(chunks, size, n)
           S == {n \in Nat : n <= Len(chunks) => Solved(n)}
<1>1. Len(chunks) \in Nat
    OBVIOUS
<1>2. Solved(0)
    <2> DEFINE size == [i \in 0..Len(chunks) |-> 0]
    <2>1. size \in [0..Len(chunks) -> Nat] /\ size[0] = 0
        BY <1>1
    <2> HIDE DEF size
    <2>2. SumsUpTo(chunks, size, 0)
        BY <2>1 DEF SumsUpTo
    <2> QED
        BY <2>1, <2>2
<1>3. \A n \in Nat : n + 1 \in 1..Len(chunks) /\ Solved(n) => Solved(n + 1)
    BY SumsExtend
<1> HIDE DEF Solved
<1>4. 0 \in S
    BY <1>2
<1>5. \A n \in Nat : n \in S => n + 1 \in S
    BY <1>1, <1>3
<1> HIDE DEF S
<1>6. Nat \subseteq S
    BY <1>4, <1>5, SetInduction
<1>7. Solved(Len(chunks))
    BY <1>1, <1>6 DEF S
<1>8. PICK size \in [0..Len(chunks) -> Nat] : SumsUpTo(chunks, size, Len(chunks))
    BY <1>7 DEF Solved
<1>9. size = [i \in 0..Len(chunks) |-> IF i = 0 THEN 0 ELSE size[i - 1] + chunks[i]]
    BY <1>8 DEF SumsUpTo
<1> QED
    BY <1>9 DEF Sums

\* The size of the first messages is that of those before the last, and its own.
LEMMA SizeOfSums ==
    ASSUME NEW chunks \in Seq(Nat)
    PROVE  /\ SizeOf(chunks, 0) = 0
           /\ \A n \in 1..Len(chunks) : SizeOf(chunks, n) = SizeOf(chunks, n - 1) + chunks[n]
<1> DEFINE size == CHOOSE size : Sums(chunks, size)
<1>1. Sums(chunks, size)
    BY SumsExist
<1>2. \A n : SizeOf(chunks, n) = size[n]
    BY DEF SizeOf, Sums
<1> HIDE DEF size
<1>3. \A n \in 0..Len(chunks) : size[n] = IF n = 0 THEN 0 ELSE size[n - 1] + chunks[n]
    BY <1>1 DEF Sums
<1>4. 0 \in 0..Len(chunks) /\ \A n \in 1..Len(chunks) : n \in 0..Len(chunks) /\ n # 0
    OBVIOUS
<1>5. size[0] = 0 /\ \A n \in 1..Len(chunks) : size[n] = size[n - 1] + chunks[n]
    BY <1>3, <1>4
<1> QED
    BY <1>2, <1>5

LEMMA SizeOfType ==
    ASSUME NEW chunks \in Seq(Nat)
    PROVE  \A n \in 0..Len(chunks) : SizeOf(chunks, n) \in Nat
<1> DEFINE S == {n \in Nat : n <= Len(chunks) => SizeOf(chunks, n) \in Nat}
<1>1. Len(chunks) \in Nat /\ \A i \in 1..Len(chunks) : chunks[i] \in Nat
    OBVIOUS
<1>2. 0 \in S
    BY SizeOfSums
<1>3. ASSUME NEW n \in Nat, n \in S PROVE n + 1 \in S
    <2> SUFFICES ASSUME n + 1 <= Len(chunks) PROVE SizeOf(chunks, n + 1) \in Nat
        OBVIOUS
    <2>1. SizeOf(chunks, n + 1) = SizeOf(chunks, (n + 1) - 1) + chunks[n + 1]
        BY <1>1, SizeOfSums
    <2>2. (n + 1) - 1 = n /\ SizeOf(chunks, n) \in Nat /\ chunks[n + 1] \in Nat
        BY <1>1, <1>3
    <2> QED
        BY <2>1, <2>2
<1> HIDE DEF S
<1>4. Nat \subseteq S
    BY <1>2, <1>3, SetInduction
<1> QED
    BY <1>1, <1>4 DEF S

\* More messages hold at least as many bytes.
LEMMA SizeGrows ==
    ASSUME NEW chunks \in Seq(Nat), NEW m \in 0..Len(chunks), NEW n \in m..Len(chunks)
    PROVE  SizeOf(chunks, m) <= SizeOf(chunks, n)
<1> DEFINE S == {k \in Nat : m + k <= Len(chunks) =>
                                 SizeOf(chunks, m) <= SizeOf(chunks, m + k)}
<1>1. Len(chunks) \in Nat /\ \A i \in 1..Len(chunks) : chunks[i] \in Nat
    OBVIOUS
<1>2. 0 \in S
    BY SizeOfType
<1>3. ASSUME NEW k \in Nat, k \in S PROVE k + 1 \in S
    <2> SUFFICES ASSUME m + (k + 1) <= Len(chunks)
                 PROVE  SizeOf(chunks, m) <= SizeOf(chunks, m + (k + 1))
        OBVIOUS
    <2>1. SizeOf(chunks, m + (k + 1)) = SizeOf(chunks, m + k) + chunks[m + (k + 1)]
        <3>1. m + (k + 1) \in 1..Len(chunks) /\ (m + (k + 1)) - 1 = m + k
            BY <1>1
        <3> QED
            BY <3>1, SizeOfSums
    <2>2. SizeOf(chunks, m) \in Nat /\ SizeOf(chunks, m + k) \in Nat
        BY <1>1, SizeOfType
    <2> QED
        BY <1>1, <1>3, <2>1, <2>2
<1> HIDE DEF S
<1>4. Nat \subseteq S
    BY <1>2, <1>3, SetInduction
<1>5. n - m \in S /\ m + (n - m) = n
    BY <1>1, <1>4
<1> QED
    BY <1>1, <1>5 DEF S

-----------------------------------------------------------------------------
(***************************************************************************)
(* The body of a request, message by message.                              *)
(***************************************************************************)

\* What was kept of a body of so many bytes, while it is read: it may be more
\* than the limit, which is cut once it is read.
Held(limit, kept, size) ==
    IF limit = None \/ size <= limit THEN kept = size ELSE limit < kept /\ kept <= size

\* Neither the length of a body nor its end is known.
Unsized == request.gateway = "wsgi" /\ request.length = "unknown"

SentSize == SizeOf(request.chunks, sent)

\* A body is read in order, and what is kept of it is its beginning, up to the
\* limit or a byte more.
Reading ==
    more => /\ answer = None /\ at = 0 /\ ~gone /\ sent < Len(request.chunks)
            /\ Held(MaxBodySize, body, SentSize)

HasRead ==
    ~more => /\ gone \/ sent = Len(request.chunks)
             /\ body = IF Unsized THEN 0 ELSE Cut(MaxBodySize, SentSize)

BodyRead ==
    /\ Sent
    /\ sent \in 0..Len(request.chunks) /\ body \in Nat
    /\ gone \in BOOLEAN /\ more \in BOOLEAN
    /\ Reading /\ HasRead

\* The body of a case, and the limit it is read with.
LEMMA BodyTypes ==
    ASSUME Sent
    PROVE  /\ request.chunks \in Seq(Nat) /\ Len(request.chunks) \in Nat \ {0}
           /\ MaxBodySize \in Nat \cup {None} /\ None \notin Nat
           /\ config.limit \in Nat \cup {None}
           /\ request.gateway \in {"asgi", "wsgi"}
<1>1. /\ config.limit \in Nat \cup {None} /\ request.gateway \in {"asgi", "wsgi"}
      /\ request.chunks \in Seq(Nat) \ {<<>>} /\ None \notin Nat
    BY PipelineAssumption DEF Sent
<1>2. MaxBodySize \in Nat \cup {None}
    BY <1>1 DEF MaxBodySize
<1> QED
    BY <1>1, <1>2

\* What was sent is a part of the body.
LEMMA SentIsPart ==
    ASSUME Sent, sent \in 0..Len(request.chunks)
    PROVE  /\ SentSize \in Nat /\ Size(request) \in Nat /\ SentSize <= Size(request)
           /\ sent = Len(request.chunks) => SentSize = Size(request)
<1>1. request.chunks \in Seq(Nat) /\ Len(request.chunks) \in Nat
    BY BodyTypes
<1>2. Len(request.chunks) \in sent..Len(request.chunks)
    BY <1>1
<1> QED
    BY <1>1, <1>2, SizeOfType, SizeGrows DEF SentSize, Size

LEMMA BodyAtStart == Init => BodyRead
<1> SUFFICES ASSUME Init PROVE BodyRead
    OBVIOUS
<1>1. Sent
    BY DEF Init, Sent
<1>2. sent = 0 /\ body = 0 /\ more = TRUE /\ gone = FALSE /\ at = 0 /\ answer = None
    BY DEF Init
<1>3. request.chunks \in Seq(Nat) /\ Len(request.chunks) \in Nat \ {0}
      /\ MaxBodySize \in Nat \cup {None}
    BY <1>1, BodyTypes
<1>4. SentSize = 0
    BY <1>2, <1>3, SizeOfSums DEF SentSize
<1>5. Held(MaxBodySize, 0, 0)
    BY <1>3 DEF Held
<1>6. Reading
    BY <1>2, <1>3, <1>4, <1>5 DEF Reading
<1>7. HasRead
    BY <1>2 DEF HasRead
<1>8. sent \in 0..Len(request.chunks)
    BY <1>2, <1>3
<1> QED
    BY <1>1, <1>2, <1>6, <1>7, <1>8 DEF BodyRead

\* A message more is kept as a whole, unless too much is there already.
LEMMA KeepHolds ==
    ASSUME NEW limit \in Nat \cup {None}, NEW kept \in Nat, NEW size \in Nat,
           NEW chunk \in Nat, Held(limit, kept, size)
    PROVE  /\ Keep(limit, kept, chunk) \in Nat
           /\ Held(limit, Keep(limit, kept, chunk), size + chunk)
BY PipelineAssumption DEF Held, Keep

\* Once it is cut, what is held is the beginning of the body.
LEMMA CutOfHeld ==
    ASSUME NEW limit \in Nat \cup {None}, NEW kept \in Nat, NEW size \in Nat,
           Held(limit, kept, size)
    PROVE  Cut(limit, kept) = Cut(limit, size) /\ Cut(limit, size) \in Nat
BY PipelineAssumption DEF Held, Cut

\* Every step reads the body in order.
LEMMA BodyReadKept == PipelineInv /\ BodyRead /\ [Next]_vars => BodyRead'
<1> SUFFICES ASSUME PipelineInv, BodyRead, [Next]_vars PROVE BodyRead'
    OBVIOUS
<1>1. /\ Sent /\ SentSize \in Nat
      /\ request.chunks \in Seq(Nat) /\ Len(request.chunks) \in Nat \ {0}
      /\ MaxBodySize \in Nat \cup {None} /\ None \notin Nat
      /\ sent \in 0..Len(request.chunks) /\ body \in Nat
      /\ gone \in BOOLEAN /\ more \in BOOLEAN
    BY SentIsPart, BodyTypes DEF BodyRead
<1>2. CASE ReceiveAsgi
    <2> DEFINE chunk == request.chunks[sent + 1]
               kept == Keep(MaxBodySize, body, chunk)
    <2>1. /\ more /\ ~gone /\ sent' = sent + 1 /\ ~Unsized
          /\ UNCHANGED <<config, request, operation, gone, at, answer>>
          /\ more' = ~(sent' = Len(request.chunks))
          /\ body' = IF sent' = Len(request.chunks) THEN Cut(MaxBodySize, kept) ELSE kept
        BY <1>2 DEF ReceiveAsgi, Unsized
    <2>2. /\ at = 0 /\ answer = None /\ sent + 1 \in 1..Len(request.chunks)
          /\ Held(MaxBodySize, body, SentSize)
        BY <1>1, <2>1 DEF BodyRead, Reading
    <2>3. chunk \in Nat
        BY <1>1, <2>2
    <2>4. SizeOf(request.chunks, sent + 1) = SentSize + chunk
        <3>1. (sent + 1) - 1 = sent
            BY <1>1
        <3> QED
            BY <1>1, <2>2, <3>1, SizeOfSums DEF SentSize
    <2> HIDE DEF chunk
    <2>5. kept \in Nat /\ Held(MaxBodySize, kept, SentSize + chunk)
        BY <1>1, <2>2, <2>3, KeepHolds
    <2> HIDE DEF kept
    <2>6. SentSize + chunk \in Nat
        BY <1>1, <2>3
    <2>7. /\ Cut(MaxBodySize, kept) = Cut(MaxBodySize, SentSize + chunk)
          /\ Cut(MaxBodySize, SentSize + chunk) \in Nat
        BY <1>1, <2>5, <2>6, CutOfHeld
    <2>8. MaxBodySize' = MaxBodySize /\ SentSize' = SentSize + chunk /\ Unsized' = Unsized
          /\ Sent'
        BY <1>1, <2>1, <2>4 DEF MaxBodySize, SentSize, Unsized, Sent
    <2>9. CASE sent' = Len(request.chunks)
        <3>1. more' = FALSE /\ body' = Cut(MaxBodySize, SentSize + chunk) /\ ~Unsized'
            BY <2>1, <2>7, <2>8, <2>9
        <3>2. Reading' /\ HasRead'
            BY <2>1, <2>8, <2>9, <3>1 DEF Reading, HasRead
        <3> QED
            BY <1>1, <2>1, <2>2, <2>7, <2>8, <3>1, <3>2 DEF BodyRead
    <2>10. CASE sent' # Len(request.chunks)
        <3>1. body' = kept /\ sent' < Len(request.chunks)
            BY <1>1, <2>1, <2>2, <2>10
        <3>2. more' = TRUE
            <4>1. more' = ~(sent' = Len(request.chunks))
                BY <2>1
            <4> QED
                BY <2>10, <4>1, Zenon
        <3>3. Reading' /\ HasRead'
            BY <2>1, <2>2, <2>5, <2>8, <3>1, <3>2 DEF Reading, HasRead
        <3> QED
            BY <1>1, <2>1, <2>2, <2>5, <2>8, <3>1, <3>2, <3>3 DEF BodyRead
    <2> QED
        BY <2>9, <2>10
<1>3. CASE DisconnectAsgi
    <2>1. /\ more /\ ~Unsized /\ gone' = TRUE /\ more' = FALSE
          /\ body' = Cut(MaxBodySize, body)
          /\ UNCHANGED <<config, request, operation, sent, at, answer>>
        BY <1>3 DEF DisconnectAsgi, Unsized
    <2>2. body' = Cut(MaxBodySize, SentSize) /\ body' \in Nat
        BY <1>1, <2>1, CutOfHeld DEF BodyRead, Reading
    <2>3. MaxBodySize' = MaxBodySize /\ SentSize' = SentSize /\ Unsized' = Unsized /\ Sent'
        BY <1>1, <2>1 DEF MaxBodySize, SentSize, Unsized, Sent
    <2>4. Reading' /\ HasRead'
        BY <2>1, <2>2, <2>3 DEF Reading, HasRead
    <2> QED
        BY <1>1, <2>1, <2>2, <2>3, <2>4 DEF BodyRead
<1>4. CASE ReadWsgi
    <2>1. /\ sent' \in 0..Len(request.chunks) /\ gone' = (sent' < Len(request.chunks))
          /\ more' = FALSE
          /\ body' = IF Unsized THEN 0 ELSE Cut(MaxBodySize, SizeOf(request.chunks, sent'))
          /\ UNCHANGED <<config, request, operation, at, answer>>
        BY <1>4 DEF ReadWsgi, Unsized
    <2>2. MaxBodySize' = MaxBodySize /\ Unsized' = Unsized /\ Sent'
          /\ SentSize' = SizeOf(request.chunks, sent')
        BY <1>1, <2>1 DEF MaxBodySize, SentSize, Unsized, Sent
    <2>3. SizeOf(request.chunks, sent') \in Nat
        BY <1>1, <2>1, SizeOfType
    <2>4. body' \in Nat
        BY <1>1, <2>1, <2>3 DEF Cut
    <2>5. CASE sent' < Len(request.chunks)
        <3>1. gone' = TRUE
            BY <2>1, <2>5
        <3>2. Reading' /\ HasRead'
            BY <2>1, <2>2, <3>1 DEF Reading, HasRead
        <3> QED
            BY <2>1, <2>2, <2>4, <3>1, <3>2 DEF BodyRead
    <2>6. CASE ~(sent' < Len(request.chunks))
        <3>1. gone' = FALSE
            <4>1. gone' = (sent' < Len(request.chunks))
                BY <2>1
            <4>2. (sent' < Len(request.chunks)) = FALSE
                BY <2>6
            <4> QED
                BY <4>1, <4>2, Zenon
        <3>2. sent' = Len(request.chunks)
            BY <1>1, <2>1, <2>6
        <3>3. Reading' /\ HasRead'
            BY <2>1, <2>2, <3>2 DEF Reading, HasRead
        <3> QED
            BY <2>1, <2>2, <2>4, <3>1, <3>3 DEF BodyRead
    <2> QED
        BY <2>5, <2>6
<1>5. CASE Dispatch \/ Serve
    <2>1. ~more
        BY <1>5, StepsAreASequence DEF Dispatch, Serve, PipelineInv, Progress
    <2>2. UNCHANGED <<config, request, operation, sent, gone, body, more>>
        BY <1>5 DEF Dispatch, Serve
    <2>3. MaxBodySize' = MaxBodySize /\ SentSize' = SentSize /\ Unsized' = Unsized /\ Sent'
        BY <1>1, <2>2 DEF MaxBodySize, SentSize, Unsized, Sent
    <2> QED
        BY <2>1, <2>2, <2>3 DEF BodyRead, Reading, HasRead
<1>6. CASE UNCHANGED vars
    <2>1. MaxBodySize' = MaxBodySize /\ SentSize' = SentSize /\ Unsized' = Unsized /\ Sent'
        BY <1>1, <1>6 DEF vars, MaxBodySize, SentSize, Unsized, Sent
    <2> QED
        BY <1>6, <2>1 DEF vars, BodyRead, Reading, HasRead
<1> QED
    BY <1>2, <1>3, <1>4, <1>5, <1>6 DEF Next, Done

\* The body of each request is read in order, and what is kept is its beginning.
THEOREM BodiesAreRead == Spec => []BodyRead
BY BodyAtStart, BodyReadKept, PipelineInvariant, PTL DEF Spec

\* A type is served at an endpoint, or there is none.
LEMMA TypeAtType == \A path : TypeAt(path) \in Types \cup {NoType}
BY PipelineAssumption DEF TypeAt

\* The types of a search are found before it is made.
LEMMA TypesBeforeSearch ==
    ASSUME NEW name, NEW i \in 1..Len(Steps(name)), Steps(name)[i] = "find"
    PROVE  i > 1 /\ Steps(name)[1] = "searchedTypes"
BY DEF Steps

\* The storage is called on the types the service serves.
LEMMA CallsTyped ==
    ASSUME PipelineInv, NEW call \in called
    PROVE  call \in [name : {"get", "write", "search"}, type : Types]
<1> USE TypeAtType, PipelineAssumption
<1>1. PICK i \in 1..at : call \in CallsAt(i)
    BY DEF PipelineInv, Progress
<1>2. i \in 1..Len(Steps(operation)) /\ \A j \in 1..(i - 1) : RefusalAt(j) = "none"
    BY <1>1, StepsAreASequence DEF PipelineInv, Progress
<1> DEFINE step == Steps(operation)[i]
<1>3. CASE step \in {"get", "write"}
    <2>1. i > 3 /\ Steps(operation)[2] = "type"
        BY <1>2, <1>3, StorageOfOneType, RightsComeFirst
    <2>2. TypeRefusal({TypeAt(Path(request))}) = "none"
        <3>1. RefusalAt(2) = "none"
            BY <1>2, <2>1
        <3> QED
            BY <2>1, <3>1 DEF RefusalAt, Refusal
    <2>3. TypeAt(Path(request)) \in Types
        BY <2>2 DEF TypeRefusal
    <2> QED
        BY <1>1, <1>3, <2>3 DEF CallsAt, Calls, Call
<1>4. CASE step = "find"
    <2>1. i > 1 /\ Steps(operation)[1] = "searchedTypes"
        BY <1>2, <1>4, TypesBeforeSearch
    <2>2. TypeRefusal(SearchedTypes(request)) = "none"
        <3>1. RefusalAt(1) = "none"
            BY <1>2, <2>1
        <3> QED
            BY <2>1, <3>1 DEF RefusalAt, Refusal
    <2>3. AuthorizedTypes(request) \subseteq Types
        BY <2>2 DEF TypeRefusal, AuthorizedTypes, SearchedTypes
    <2> QED
        BY <1>1, <1>4, <2>3 DEF CallsAt, Calls, Call
<1>5. CASE step = "run"
    <2>1. PICK k \in DOMAIN request.operations :
              call \in OperationCalls(config, request, request.operations[k])
        BY <1>1, <1>5 DEF CallsAt, Calls
    <2> DEFINE op == request.operations[k]
    <2>2. /\ Admission(config, request, op) = "none"
          /\ \E name \in {"get", "write"} : call = Call(name, TypeAt(op.path))
        BY <2>1 DEF OperationCalls
    <2>3. TypeAt(op.path) \in Types
        BY <2>2 DEF Admission, Matched
    <2> QED
        BY <2>2, <2>3 DEF Call
<1> QED
    BY <1>1, <1>3, <1>4, <1>5 DEF CallsAt, Calls

\* Every variable has its type.
THEOREM PipelineTyping == Spec => []TypeOK
<1>1. PipelineInv /\ BodyRead => TypeOK
    <2> SUFFICES ASSUME PipelineInv, BodyRead PROVE TypeOK
        OBVIOUS
    <2>1. /\ SentSize \in Nat /\ Size(request) \in Nat /\ SentSize <= Size(request)
          /\ MaxBodySize \in Nat \cup {None} /\ None \notin Nat
        BY SentIsPart, BodyTypes DEF BodyRead
    <2>2. body <= SentSize
        <3>1. CASE more
            BY <2>1, <3>1 DEF BodyRead, Reading, Held
        <3>2. CASE ~more
            BY <2>1, <3>2 DEF BodyRead, HasRead, Cut
        <3> QED
            BY <3>1, <3>2
    <2>3. body \in 0..Size(request)
        BY <2>1, <2>2 DEF BodyRead
    <2> QED
        BY <2>3, CallsTyped DEF TypeOK, BodyRead, PipelineInv, Progress
<1> QED
    BY <1>1, PipelineInvariant, BodiesAreRead, PTL

-----------------------------------------------------------------------------
\* Only a deletion writes without having read its body.
LEMMA BodyComesFirst ==
    ASSUME NEW name, name # "delete", NEW i \in 1..Len(Steps(name)),
           Steps(name)[i] \in {"write", "run"}
    PROVE  \E j \in 1..(i - 1) : Steps(name)[j] = "body"
BY DEF Steps

LEMMA BodyBeforeWrite ==
    ASSUME PipelineInv, NEW call \in called, call.name = "write", operation # "delete"
    PROVE  BodyRefusal(request, body) = "none"
<1>1. PICK i \in 1..at : call \in CallsAt(i)
    BY DEF PipelineInv, Progress
<1>2. i \in 1..Len(Steps(operation)) /\ \A j \in 1..(i - 1) : RefusalAt(j) = "none"
    BY <1>1, StepsAreASequence DEF PipelineInv, Progress
<1>3. Steps(operation)[i] \in {"write", "run"}
    BY <1>1 DEF CallsAt, Calls, Call
<1>4. PICK j \in 1..(i - 1) : Steps(operation)[j] = "body"
    BY <1>2, <1>3, BodyComesFirst
<1>5. RefusalAt(j) = "none"
    BY <1>2, <1>4
<1> QED
    BY <1>4, <1>5 DEF RefusalAt, Refusal

\* The first steps of a bulk request.
LEMMA BulkSteps ==
    /\ Len(Steps("bulk")) = 5 /\ Steps("bulk")[1] = "bulkSupported"
    /\ Steps("bulk")[2] = "payload"
BY DEF Steps

\* Only the step that looks at the size of a body answers that it is too large.
LEMMA TooLargeOfPayload ==
    ASSUME NEW i, RefusalAt(i) = "payloadTooLarge"
    PROVE  Steps(operation)[i] = "payload"
BY DEF RefusalAt, Refusal, MeRefusal, TypeRefusal, RightsRefusal, ParametersRefusal,
       SupportRefusal, BodyRefusal, SearchRefusal, OperationsRefusal, FilterRefusal,
       MissingRefusal

\* A bulk request is answered that its body is too large exactly when more than
\* the limit was kept of it.
LEMMA PayloadAnswered ==
    ASSUME PipelineInv, answer # None, operation = "bulk", config.bulk, config.limit # None,
           answer.status # "unauthorized"
    PROVE  answer.status = "payloadTooLarge" <=> body > config.limit
<1>1. at > 0
    <2>1. Turned \in {"none", "unauthorized"}
        BY DEF Turned, Matched
    <2>2. ~(at = 0 /\ Turned # "none" /\ answer = Answer(Turned))
        BY <2>1 DEF Answer
    <2> QED
        BY <2>2, StepsAreASequence DEF PipelineInv, Progress, Explained
<1>2. at \in 1..5 /\ Len(Steps(operation)) = 5
    <2>1. at \in 0..Len(Steps(operation))
        BY DEF PipelineInv, Progress
    <2>2. Len(Steps(operation)) = 5
        BY BulkSteps
    <2>3. at \in 1..5
        <3>1. at \in 0..5
            BY <2>1, <2>2
        <3> QED
            BY <1>1, <3>1
    <2> QED
        BY <2>2, <2>3
<1>3. RefusalAt(1) = "none"
    BY BulkSteps DEF RefusalAt, Refusal, SupportRefusal
<1>4. RefusalAt(2) = IF body > config.limit THEN "payloadTooLarge" ELSE "none"
    BY BulkSteps DEF RefusalAt, Refusal, PayloadRefusal
<1>5. CASE RefusalAt(at) = "none"
    <2>1. at = 5
        <3>1. at = Len(Steps(operation))
            BY <1>1, <1>2, <1>5 DEF PipelineInv, Explained
        <3> QED
            BY <1>2, <3>1
    <2>2. RefusalAt(2) = "none"
        BY <2>1 DEF PipelineInv, Progress
    <2>3. answer.status = "done"
        BY <1>1, <1>5 DEF PipelineInv, Explained, Answer
    <2> QED
        BY <1>4, <2>2, <2>3
<1>6. CASE RefusalAt(at) # "none"
    <2>1. answer.status = RefusalAt(at)
        BY <1>1, <1>6 DEF PipelineInv, Explained, Answer
    <2>2. ASSUME body > config.limit PROVE at = 2
        <3>1. at <= 2
            BY <1>2, <1>4, <2>2 DEF PipelineInv, Progress
        <3> QED
            BY <1>2, <1>3, <1>6, <3>1
    <2>3. ASSUME RefusalAt(at) = "payloadTooLarge" PROVE body > config.limit
        <3>1. Steps(operation)[at] = "payload"
            BY <2>3, TooLargeOfPayload
        <3> QED
            BY <2>3, <3>1 DEF RefusalAt, Refusal, PayloadRefusal
    <2> QED
        BY <1>4, <2>1, <2>2, <2>3
<1> QED
    BY <1>5, <1>6

\* No more than a byte beyond its limit is kept of a body, a bulk request is
\* refused as too large exactly when its body is, however it was cut, and a body
\* that was not read to its end is never written (asgi.py read_request, wsgi.py
\* read_body, service.py ensure_bulk_payload_size).
THEOREM BodiesWithinLimits == Spec => []BodyLimits
<1>1. PipelineInv /\ BodyRead => BodyLimits
    <2> SUFFICES ASSUME PipelineInv, BodyRead PROVE BodyLimits
        OBVIOUS
    <2>1. /\ SentSize \in Nat /\ Size(request) \in Nat
          /\ sent = Len(request.chunks) => SentSize = Size(request)
          /\ MaxBodySize \in Nat \cup {None} /\ None \notin Nat
          /\ config.limit \in Nat \cup {None} /\ request.gateway \in {"asgi", "wsgi"}
        BY SentIsPart, BodyTypes DEF BodyRead
    <2>2. ~more /\ MaxBodySize # None => body <= MaxBodySize + 1
        BY <2>1 DEF BodyRead, HasRead, Cut
    <2>3. ASSUME answer # None, operation = "bulk", config.bulk, config.limit # None,
                 answer.status # "unauthorized", ~gone,
                 request.gateway = "wsgi" => request.length # "unknown"
          PROVE  answer.status = "payloadTooLarge" <=> Size(request) > config.limit
        <3>1. ~more /\ ~Unsized
            BY <2>3 DEF BodyRead, Reading, Unsized
        <3>2. MaxBodySize = config.limit
            BY <2>3 DEF MaxBodySize, Matched
        <3>3. body = Cut(config.limit, Size(request))
            BY <2>1, <2>3, <3>1, <3>2 DEF BodyRead, HasRead
        <3>4. body > config.limit <=> Size(request) > config.limit
            BY <2>1, <2>3, <3>3 DEF Cut
        <3> QED
            BY <2>3, <3>4, PayloadAnswered
    <2>4. ASSUME NEW type \in Types, Calling("write", type), operation # "delete"
          PROVE  body = Size(request) /\ request.valid
        <3>1. BodyRefusal(request, body) = "none"
            BY <2>4, BodyBeforeWrite DEF Calling, Call
        <3> QED
            BY <3>1 DEF BodyRefusal
    <2> QED
        BY <2>2, <2>3, <2>4 DEF BodyLimits
<1> QED
    BY <1>1, PipelineInvariant, BodiesAreRead, PTL

-----------------------------------------------------------------------------
(***************************************************************************)
(* The operations of a bulk request.                                       *)
(***************************************************************************)

\* The operation of a route that writes tells its method.
MethodTold(route) ==
    route.operation \in Writes =>
        /\ route.operation = "create" <=> route.method = "POST"
        /\ route.operation = "delete" => route.method = "DELETE"

LEMMA MethodsOfRoutes == \A i \in DOMAIN ROUTES : MethodTold(ROUTES[i])
<1>1. \A method, pattern, name : name \notin Writes => MethodTold(Route(method, pattern, name))
    BY DEF MethodTold, Route
<1>2. \A pattern :
          /\ MethodTold(Route("POST", pattern, "create"))
          /\ MethodTold(Route("PUT", pattern, "replace"))
          /\ MethodTold(Route("PATCH", pattern, "patch"))
          /\ MethodTold(Route("DELETE", pattern, "delete"))
    BY DEF MethodTold, Route
<1>3. {"service_provider_config", "resource_types", "resource_type", "schemas", "schema",
       "bulk", "query", "search", "search_with_body"} \cap Writes = {}
    BY DEF Writes
<1>4. /\ MethodTold(ROUTES[1]) /\ MethodTold(ROUTES[2]) /\ MethodTold(ROUTES[3])
      /\ MethodTold(ROUTES[4]) /\ MethodTold(ROUTES[5]) /\ MethodTold(ROUTES[6])
      /\ MethodTold(ROUTES[7]) /\ MethodTold(ROUTES[8]) /\ MethodTold(ROUTES[9])
      /\ MethodTold(ROUTES[10])
    BY <1>1, <1>2, <1>3 DEF ROUTES
<1>5. /\ MethodTold(ROUTES[11]) /\ MethodTold(ROUTES[12]) /\ MethodTold(ROUTES[13])
      /\ MethodTold(ROUTES[14]) /\ MethodTold(ROUTES[15]) /\ MethodTold(ROUTES[16])
      /\ MethodTold(ROUTES[17]) /\ MethodTold(ROUTES[18]) /\ MethodTold(ROUTES[19])
      /\ MethodTold(ROUTES[20])
    BY <1>1, <1>2, <1>3 DEF ROUTES
<1>6. DOMAIN ROUTES = 1..20
    BY DEF ROUTES
<1>7. \A i \in 1..20 :
          i \in {1, 2, 3, 4, 5, 6, 7, 8, 9, 10} \/ i \in {11, 12, 13, 14, 15, 16, 17, 18, 19, 20}
    OBVIOUS
<1> QED
    BY <1>4, <1>5, <1>6, <1>7

\* So does the operation that a path and a method have.
LEMMA MethodOfWrite ==
    ASSUME NEW method, NEW path, Match(method, path) \in Writes
    PROVE  /\ Match(method, path) = "create" <=> method = "POST"
           /\ Match(method, path) = "delete" => method = "DELETE"
<1> DEFINE found == {i \in RoutesOf(path) : ROUTES[i].method = method}
<1>1. found # {} /\ Match(method, path) =
          ROUTES[CHOOSE i \in found : \A j \in found : i <= j].operation
    BY DEF Match, Writes
<1>2. found \subseteq DOMAIN ROUTES
    BY DEF RoutesOf
<1>3. DOMAIN ROUTES \in SUBSET Nat
    BY DEF ROUTES
<1> HIDE DEF found
<1>4. PICK i \in found : Match(method, path) = ROUTES[i].operation
    BY <1>1, <1>2, <1>3, LeastNat
<1>5. ROUTES[i].method = method /\ MethodTold(ROUTES[i])
    BY <1>2, <1>4, MethodsOfRoutes DEF found
<1> QED
    BY <1>4, <1>5 DEF MethodTold

\* The path of a single request follows the base URL.
LEMMA PathAfterVersion ==
    ASSUME NEW path \in Seq(STRING)
    PROVE  /\ <<"v2">> \o path # <<>> /\ (<<"v2">> \o path)[1] = "v2"
           /\ Tail(<<"v2">> \o path) = path
<1> DEFINE segments == {"v2"} \cup STRING
           long == <<"v2">> \o path
<1>1. path \in Seq(segments) /\ <<"v2">> \in Seq(segments)
    OBVIOUS
<1> HIDE DEF segments
<1>2. long \in Seq(segments) /\ Len(long) = Len(path) + 1 /\ Len(path) \in Nat
    BY <1>1, ConcatProperties
<1>3. long[1] = "v2" /\ \A i \in 1..Len(path) : long[i + 1] = path[i]
    BY <1>1, <1>2, ConcatProperties
<1> HIDE DEF long
<1>4. Tail(long) \in Seq(segments) /\ Len(Tail(long)) = Len(path)
    BY <1>2
<1>5. \A i \in 1..Len(path) : Tail(long)[i] = path[i]
    BY <1>2, <1>3
<1>6. Tail(long) = path
    BY <1>1, <1>4, <1>5
<1> QED
    BY <1>2, <1>3, <1>6 DEF long

\* The least of a set of numbers.
LEMMA MinIsLeast ==
    ASSUME NEW S \in SUBSET Nat, NEW n \in S, \A m \in S : n <= m
    PROVE  Min(S) = n
<1>1. \A m \in S : (\A k \in S : m <= k) => m = n
    OBVIOUS
<1> QED
    BY <1>1 DEF Min

\* A request is refused by the first step that refuses it.
LEMMA VerdictOfFirst ==
    ASSUME NEW c, NEW r, Matched(Match(r.method, Path(r))),
           NEW n \in 1..Len(Steps(Match(r.method, Path(r)))),
           Refusal(c, r, Size(r), Steps(Match(r.method, Path(r)))[n]) # "none",
           \A i \in 1..(n - 1) :
               Refusal(c, r, Size(r), Steps(Match(r.method, Path(r)))[i]) = "none"
    PROVE  Verdict(c, r) = Refusal(c, r, Size(r), Steps(Match(r.method, Path(r)))[n])
<1> DEFINE steps == Steps(Match(r.method, Path(r)))
           R(i) == Refusal(c, r, Size(r), steps[i])
           refused == {i \in 1..Len(steps) : R(i) # "none"}
<1>1. Len(steps) \in Nat
    BY StepsAreASequence
<1>2. n \in refused /\ \A i \in refused : i \in Nat /\ n <= i
    BY <1>1
<1>3. Verdict(c, r) = R(Min(refused))
    BY <1>2 DEF Verdict
<1> HIDE DEF refused, R
<1>4. Min(refused) = n
    BY <1>2, MinIsLeast
<1> QED
    BY <1>3, <1>4 DEF R

LEMMA VerdictOfServed ==
    ASSUME NEW c, NEW r, Matched(Match(r.method, Path(r))),
           \A i \in 1..Len(Steps(Match(r.method, Path(r)))) :
               Refusal(c, r, Size(r), Steps(Match(r.method, Path(r)))[i]) = "none"
    PROVE  Verdict(c, r) = "done"
BY DEF Verdict

\* What each step of a single request that writes looks at.
LEMMA SingleRefusals ==
    ASSUME NEW c, NEW r, NEW op, op.path \in Seq(STRING),
           {"method", "path", "valid", "stored", "parameters", "media"} \subseteq DOMAIN r
    PROVE  LET single == Single(r, op)
               R(step) == Refusal(c, single, Size(single), step)
           IN  /\ Match(single.method, Path(single)) = Match(op.method, op.path)
               /\ R("me") = IF IsMe(op.path) THEN "notImplemented" ELSE "none"
               /\ R("type") = IF TypeAt(op.path) = NoType THEN "notFound" ELSE "none"
               /\ R("authorize") = IF TypeAt(op.path) \in r.rights THEN "none" ELSE "forbidden"
               /\ R("parameters") = "none"
               /\ R("patchSupported") = IF c.patch THEN "none" ELSE "notImplemented"
               /\ R("body") = IF op.valid THEN "none" ELSE "invalid"
               /\ R("get") = IF op.stored THEN "none" ELSE "notFound"
               /\ R("write") = "none"
<1> DEFINE single == Single(r, op)
<1>1. /\ single.method = op.method /\ single.path = <<"v2">> \o op.path
      /\ single.valid = op.valid /\ single.stored = op.stored
      /\ single.parameters = TRUE /\ single.media = "json"
      /\ single.rights = r.rights
    BY DEF Single
<1> HIDE DEF single
<1>2. Path(single) = op.path
    BY <1>1, PathAfterVersion DEF Path
<1>3. MeRefusal(single) = IF IsMe(op.path) THEN "notImplemented" ELSE "none"
    BY <1>2 DEF MeRefusal
<1>4. RightsRefusal(single, {TypeAt(op.path)}) =
          IF TypeAt(op.path) \in r.rights THEN "none" ELSE "forbidden"
    BY <1>1 DEF RightsRefusal
<1>5. BodyRefusal(single, Size(single)) = IF op.valid THEN "none" ELSE "invalid"
    BY <1>1 DEF BodyRefusal
<1> QED
    BY <1>1, <1>2, <1>3, <1>4, <1>5
    DEF Refusal, TypeRefusal, ParametersRefusal, SupportRefusal, MissingRefusal, single

\* An operation fails as its single request, or for being invalid.
Alike(c, r, op) ==
    LET alone == Verdict(c, Single(r, op))
    IN  \/ Outcome(c, r, op) = alone
        \/ /\ Outcome(c, r, op) = "invalid"
           /\ \/ IsMe(op.path)
              \/ Match(op.method, op.path) \notin Writes
              \/ ~op.valid /\ alone \in {"notFound", "notImplemented"}

\* The single request of each operation that writes, step by step.
LEMMA WritesFailAlike ==
    ASSUME NEW c, NEW r, NEW op, op.path \in Seq(STRING),
           {"method", "path", "valid", "stored", "parameters", "media"} \subseteq DOMAIN r,
           op.method = "DELETE" => op.valid,
           Match(op.method, op.path) \in Writes, ~IsMe(op.path)
    PROVE  Alike(c, r, op)
<1> DEFINE single == Single(r, op)
           asked == Match(op.method, op.path)
           type == TypeAt(op.path)
           R(step) == Refusal(c, single, Size(single), step)
<1>1. /\ Match(single.method, Path(single)) = asked
      /\ R("me") = "none"
      /\ R("type") = IF type = NoType THEN "notFound" ELSE "none"
      /\ R("authorize") = IF type \in r.rights THEN "none" ELSE "forbidden"
      /\ R("parameters") = "none"
      /\ R("patchSupported") = IF c.patch THEN "none" ELSE "notImplemented"
      /\ R("body") = IF op.valid THEN "none" ELSE "invalid"
      /\ R("get") = IF op.stored THEN "none" ELSE "notFound"
      /\ R("write") = "none"
    BY SingleRefusals
<1>2. Matched(asked)
    BY DEF Matched, Writes
<1>3. ASSUME NEW n \in 1..Len(Steps(asked)), R(Steps(asked)[n]) # "none",
             \A i \in 1..(n - 1) : R(Steps(asked)[i]) = "none"
      PROVE  Verdict(c, single) = R(Steps(asked)[n])
    BY <1>1, <1>2, <1>3, VerdictOfFirst
<1>4. ASSUME \A i \in 1..Len(Steps(asked)) : R(Steps(asked)[i]) = "none"
      PROVE  Verdict(c, single) = "done"
    BY <1>1, <1>2, <1>4, VerdictOfServed
<1>5. Outcome(c, r, op) =
          IF type = NoType THEN "notFound"
          ELSE IF type \notin r.rights THEN "forbidden"
          ELSE IF ~op.valid THEN "invalid"
          ELSE IF asked = "patch" /\ ~c.patch THEN "notImplemented"
          ELSE IF asked # "create" /\ ~op.stored THEN "notFound" ELSE "done"
    <2>1. asked = "create" <=> op.method = "POST"
        BY MethodOfWrite
    <2> QED
        BY <1>2, <2>1 DEF Outcome, Admission
<1>6. asked = "delete" => op.valid
    BY MethodOfWrite
<1>7. asked \in {"create", "replace", "patch", "delete"}
    BY DEF Writes
<1> HIDE DEF single, asked, type, R
<1>8. /\ Len(Steps(asked)) > 3 /\ Steps(asked)[1] = "me"
      /\ Steps(asked)[2] = "type" /\ Steps(asked)[3] = "authorize"
    BY <1>7, RightsComeFirst DEF Writes
<1>9. CASE type = NoType
    <2>1. Verdict(c, single) = "notFound"
        BY <1>1, <1>3, <1>8, <1>9, \A i \in 1..(2 - 1) : i = 1
    <2> QED
        BY <1>5, <1>9, <2>1 DEF Alike, single
<1>10. CASE type # NoType /\ type \notin r.rights
    <2>1. Verdict(c, single) = "forbidden"
        BY <1>1, <1>3, <1>8, <1>10, \A i \in 1..(3 - 1) : i = 1 \/ i = 2
    <2> QED
        BY <1>5, <1>10, <2>1 DEF Alike, single
<1>11. CASE type # NoType /\ type \in r.rights
    <2>1. R(Steps(asked)[1]) = "none" /\ R(Steps(asked)[2]) = "none" /\ R(Steps(asked)[3]) = "none"
        BY <1>1, <1>8, <1>11
    <2>2. CASE asked = "create"
        <3>1. Len(Steps(asked)) = 5 /\ Steps(asked)[4] = "body" /\ Steps(asked)[5] = "write"
            BY <2>2 DEF Steps
        <3>2. CASE op.valid
            BY <1>1, <1>4, <1>5, <1>11, <2>1, <2>2, <3>1, <3>2,
               \A i \in 1..5 : i \in {1, 2, 3, 4, 5} DEF Alike, single
        <3>3. CASE ~op.valid
            <4>1. Verdict(c, single) = "invalid"
                BY <1>1, <1>3, <2>1, <3>1, <3>3, \A i \in 1..(4 - 1) : i \in {1, 2, 3}
            <4> QED
                BY <1>5, <1>11, <3>3, <4>1 DEF Alike, single
        <3> QED
            BY <3>2, <3>3
    <2>3. CASE asked = "replace"
        <3>1. /\ Len(Steps(asked)) = 7 /\ Steps(asked)[4] = "parameters"
              /\ Steps(asked)[5] = "get" /\ Steps(asked)[6] = "body" /\ Steps(asked)[7] = "write"
            BY <2>3 DEF Steps
        <3>2. CASE ~op.stored
            <4>1. Verdict(c, single) = "notFound"
                BY <1>1, <1>3, <2>1, <3>1, <3>2, \A i \in 1..(5 - 1) : i \in {1, 2, 3, 4}
            <4> QED
                BY <1>5, <1>11, <2>3, <3>2, <4>1 DEF Alike, single
        <3>3. CASE op.stored /\ ~op.valid
            <4>1. Verdict(c, single) = "invalid"
                BY <1>1, <1>3, <2>1, <3>1, <3>3, \A i \in 1..(6 - 1) : i \in {1, 2, 3, 4, 5}
            <4> QED
                BY <1>5, <1>11, <3>3, <4>1 DEF Alike, single
        <3>4. CASE op.stored /\ op.valid
            BY <1>1, <1>4, <1>5, <1>11, <2>1, <2>3, <3>1, <3>4,
               \A i \in 1..7 : i \in {1, 2, 3, 4, 5, 6, 7} DEF Alike, single
        <3> QED
            BY <3>2, <3>3, <3>4
    <2>4. CASE asked = "patch"
        <3>1. /\ Len(Steps(asked)) = 8 /\ Steps(asked)[4] = "parameters"
              /\ Steps(asked)[5] = "patchSupported" /\ Steps(asked)[6] = "body"
              /\ Steps(asked)[7] = "get" /\ Steps(asked)[8] = "write"
            BY <2>4 DEF Steps
        <3>2. CASE ~c.patch
            <4>1. Verdict(c, single) = "notImplemented"
                BY <1>1, <1>3, <2>1, <3>1, <3>2, \A i \in 1..(5 - 1) : i \in {1, 2, 3, 4}
            <4> QED
                BY <1>5, <1>11, <2>4, <3>2, <4>1 DEF Alike, single
        <3>3. CASE c.patch /\ ~op.valid
            <4>1. Verdict(c, single) = "invalid"
                BY <1>1, <1>3, <2>1, <3>1, <3>3, \A i \in 1..(6 - 1) : i \in {1, 2, 3, 4, 5}
            <4> QED
                BY <1>5, <1>11, <3>3, <4>1 DEF Alike, single
        <3>4. CASE c.patch /\ op.valid /\ ~op.stored
            <4>1. Verdict(c, single) = "notFound"
                BY <1>1, <1>3, <2>1, <3>1, <3>4, \A i \in 1..(7 - 1) : i \in {1, 2, 3, 4, 5, 6}
            <4> QED
                BY <1>5, <1>11, <2>4, <3>4, <4>1 DEF Alike, single
        <3>5. CASE c.patch /\ op.valid /\ op.stored
            BY <1>1, <1>4, <1>5, <1>11, <2>1, <2>4, <3>1, <3>5,
               \A i \in 1..8 : i \in {1, 2, 3, 4, 5, 6, 7, 8} DEF Alike, single
        <3> QED
            BY <3>2, <3>3, <3>4, <3>5
    <2>5. CASE asked = "delete"
        <3>1. Len(Steps(asked)) = 5 /\ Steps(asked)[4] = "get" /\ Steps(asked)[5] = "write"
            BY <2>5 DEF Steps
        <3>2. CASE ~op.stored
            <4>1. Verdict(c, single) = "notFound"
                BY <1>1, <1>3, <2>1, <3>1, <3>2, \A i \in 1..(4 - 1) : i \in {1, 2, 3}
            <4> QED
                BY <1>5, <1>6, <1>11, <2>5, <3>2, <4>1 DEF Alike, single
        <3>3. CASE op.stored
            BY <1>1, <1>4, <1>5, <1>6, <1>11, <2>1, <2>5, <3>1, <3>3,
               \A i \in 1..5 : i \in {1, 2, 3, 4, 5} DEF Alike, single
        <3> QED
            BY <3>2, <3>3
    <2> QED
        BY <1>7, <2>2, <2>3, <2>4, <2>5
<1> QED
    BY <1>9, <1>10, <1>11

\* An operation that does not write fails, as its single request does or as one
\* that is invalid.
LEMMA OthersFailAlike ==
    ASSUME NEW c, NEW r, NEW op, op.path \in Seq(STRING),
           {"method", "path", "valid", "stored", "parameters", "media"} \subseteq DOMAIN r,
           Match(op.method, op.path) \notin Writes \/ IsMe(op.path)
    PROVE  Alike(c, r, op)
<1> DEFINE asked == Match(op.method, op.path)
<1>1. CASE Matched(asked)
    <2>1. Outcome(c, r, op) = "invalid"
        BY <1>1 DEF Outcome, Admission
    <2> QED
        BY <2>1 DEF Alike
<1>2. CASE ~Matched(asked)
    <2>1. Outcome(c, r, op) = asked
        BY <1>2 DEF Outcome, Admission, Matched
    <2>2. LET single == Single(r, op) IN Match(single.method, Path(single)) = asked
        BY SingleRefusals
    <2>3. Verdict(c, Single(r, op)) = asked
        BY <1>2, <2>2 DEF Verdict
    <2> QED
        BY <2>1, <2>3 DEF Alike
<1> QED
    BY <1>1, <1>2

\* Every operation of a bulk request fails as the single request it stands for,
\* but for the order of two of its checks (service.py route_bulk_operation,
\* handler.py run_bulk_step).
THEOREM BulkOperationsFailAlike == Spec => []BulkFailsAlike
<1>1. PipelineInv /\ BodyRead => BulkFailsAlike
    <2> SUFFICES ASSUME PipelineInv, BodyRead, answer # None,
                        NEW i \in DOMAIN answer.outcomes
                 PROVE  /\ answer.outcomes[i] = Outcome(config, request, request.operations[i])
                        /\ Alike(config, request, request.operations[i])
        BY DEF BulkFailsAlike, Alike
    <2>1. PICK status : answer = Answer(status)
        BY DEF PipelineInv, Explained
    <2>2. answer.outcomes = Outcomes(config, request)
        BY <2>1 DEF Answer
    <2>3. /\ i \in DOMAIN request.operations
          /\ answer.outcomes[i] = Outcome(config, request, request.operations[i])
        BY <2>2 DEF Outcomes
    <2> DEFINE op == request.operations[i]
    <2>4. /\ {"method", "path", "valid", "stored", "parameters", "media"} \subseteq DOMAIN request
          /\ op.path \in Seq(STRING) /\ (op.method = "DELETE" => op.valid)
        BY <2>3, PipelineAssumption DEF BodyRead, Sent
    <2>5. CASE Match(op.method, op.path) \in Writes /\ ~IsMe(op.path)
        BY <2>3, <2>4, <2>5, WritesFailAlike
    <2>6. CASE ~(Match(op.method, op.path) \in Writes /\ ~IsMe(op.path))
        BY <2>3, <2>4, <2>6, OthersFailAlike
    <2> QED
        BY <2>5, <2>6
<1> QED
    BY <1>1, PipelineInvariant, BodiesAreRead, PTL
=============================================================================
