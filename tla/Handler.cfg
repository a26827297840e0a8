\* Three concurrent requests, with the lock of the storage and without it.
SPECIFICATION FairSpec
CONSTANTS
    i1 = i1
    i2 = i2
    i3 = i3
    Types <- MCTypes
    Ids <- MCIds
    Attrs <- MCAttrs
    UniqueAttrs <- MCUniqueAttrs
    ImmutableAttrs <- MCImmutableAttrs
    Declares <- MCDeclares
    Values <- MCValues
    Folded <- MCValues
    Comparable <- MCComparable
    Missing = Missing
    NoResource = NoResource
    NoVersion = NoVersion
    NoHeader = NoHeader
    AnyTag = AnyTag
    NoRequest = NoRequest
    NoLock = NoLock
    Requests = {p1, p2, p3}
    Jobs <- MCJobs
    Contents <- MCContents
    FirstVersion = 3
    EtagSupported = TRUE
INVARIANTS
    TypeOK
    LockSerializes
PROPERTIES
    NoLostUpdate
    ConditionsHoldAtWrite
    Linearizable
    EveryRequestAnswered
