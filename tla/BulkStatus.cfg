\* The status of a failed operation, against the status of the same request alone.
SPECIFICATION Spec
CONSTANTS
    a = a
    b = b
    c = c
    d = d
    unknown = unknown
    x = x
    BulkIds = {a, b, c, d, unknown}
    NoBulkId = NoBulkId
    BulkRequests <- Runs
    Ids = {x, y, z}
    NoId = NoId
    StoredAtStart = {x}
    NoLimit = NoLimit
    Limits = {NoLimit, 0, 2}
    PatchSupported = TRUE
    MaxOthers = 1
PROPERTIES
    StatusAsAlone
