------------------------------ MODULE Requests ------------------------------
(***************************************************************************)
(* The requests on one resource, and what the service makes of them before *)
(* anything is written: the conditional headers, the immutable attributes  *)
(* and the requests that change nothing.  Routing, authorization and the   *)
(* other reasons to refuse a request before it reaches the storage are not *)
(* part of this module.                                                    *)
(***************************************************************************)
EXTENDS ScimResources

CONSTANTS
    Requests,        \* the requests in flight
    Jobs,            \* what a request may ask
    ImmutableAttrs,  \* the attributes that keep their first value
    EtagSupported,   \* whether the configuration announces ETags
    NoHeader,        \* a conditional header is missing
    AnyTag           \* a conditional header is "*"

\* A job changes the attributes in the domain of its data: all of them for a
\* PUT or a POST, the patched ones for a PATCH, none for a GET or a DELETE.
\* The key of a POST only tells its resource type.  An invalid body is only
\* found here in a PUT: the bodies of the others are read before the storage.
Job == [op : {"post", "get", "put", "patch", "delete"},
        key : Keys,
        data : UNION {[A -> Values \cup {Missing}] : A \in SUBSET Attrs},
        valid : BOOLEAN,
        ifMatch : {NoHeader, AnyTag} \cup SUBSET Nat,
        ifNoneMatch : {NoHeader, AnyTag} \cup SUBSET Nat]

NewData(job, d) ==
    [a \in Attrs |-> IF a \in DOMAIN job.data THEN job.data[a] ELSE d[a]]

ASSUME JobsAssumption ==
    /\ Jobs \subseteq Job
    /\ \A job \in Jobs :
          /\ job.op \in {"post", "put"} => job.data \in Data(job.key[1])
          /\ job.op \in {"get", "delete"} => DOMAIN job.data = {}
          /\ ~job.valid => job.op = "put"
          /\ \A d \in Data(job.key[1]) : NewData(job, d) \in Data(job.key[1])
    /\ ImmutableAttrs \subseteq Attrs
    /\ EtagSupported \in BOOLEAN

(***************************************************************************)
(* Conditional headers.  A header holds "*" or entity tags, compared with  *)
(* the version of the resource, or with none when ETags are not supported. *)
(***************************************************************************)
VersionOf(r) == IF EtagSupported THEN r.version ELSE NoVersion

TagsMatch(header, version) ==
    header = AnyTag \/ (version # NoVersion /\ version \in header)

IfMatchFails(job, r) ==
    job.ifMatch # NoHeader /\ ~TagsMatch(job.ifMatch, VersionOf(r))

IfNoneMatchFails(job, r) ==
    job.ifNoneMatch # NoHeader /\ TagsMatch(job.ifNoneMatch, VersionOf(r))

\* The value of an immutable attribute, once set, may not change.
BreaksImmutable(job, r) ==
    \E a \in ImmutableAttrs \cap DOMAIN job.data :
        r.data[a] # Missing /\ job.data[a] # r.data[a]

(***************************************************************************)
(* What a request asks of the stored resource it read: to be written, or   *)
(* the reason why nothing is.  The body of a PUT is read once the resource *)
(* was, so a resource that does not exist hides its errors.                *)
(***************************************************************************)
Verdict(job, r) ==
    IF ~job.valid THEN "invalid"
    ELSE IF IfMatchFails(job, r) THEN "preconditionFailed"
    ELSE IF IfNoneMatchFails(job, r)
         THEN IF job.op = "get" THEN "notModified" ELSE "preconditionFailed"
    ELSE IF job.op = "get" THEN "ok"
    ELSE IF BreaksImmutable(job, r) THEN "mutability"
    ELSE IF job.op # "delete" /\ NewData(job, r.data) = r.data THEN "ok"
    ELSE "write"

Answer(status, r) == [status |-> status, resource |-> r]

NoAnswer == Answer("none", NoResource)

\* The answer to a request that writes nothing, given what it read.
ReadAnswer(job, r) ==
    IF r = NoResource THEN Answer("notFound", NoResource)
    ELSE Answer(Verdict(job, r),
                IF Verdict(job, r) \in {"ok", "notModified"} THEN r ELSE NoResource)

Writes(job, r) == r # NoResource /\ Verdict(job, r) = "write"
=============================================================================
