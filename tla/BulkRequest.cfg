\* The plans of bulk requests of up to four operations, and their runs among the
\* writes of other requests.
SPECIFICATION Spec
CONSTANTS
    a = a
    b = b
    c = c
    d = d
    unknown = unknown
    x = x
    BulkIds = {a, b, c, d, unknown}
    NoBulkId = NoBulkId
    BulkRequests <- MCBulkRequests
    Ids = {x, y, z}
    NoId = NoId
    StoredAtStart = {x}
    NoLimit = NoLimit
    Limits = {NoLimit, 0, 2}
    PatchSupported = TRUE
    MaxOthers = 1
INVARIANTS
    TypeOK
    EachOperationOnce
    CreationsFirst
    OrderOfTheRequest
    ReferencesAreCreations
    ConflictsExplained
    CyclesConflict
    ErrorsCapped
PROPERTIES
    WalkDescends
    BulkAnswered
