\* An acknowledged write is undone by the refusal of another request.
SPECIFICATION Spec
CONSTANTS
    Types <- MCTypes
    Ids <- MCIds
    Attrs <- MCAttrs
    UniqueAttrs <- MCUniqueAttrs
    ImmutableAttrs = {}
    Declares <- MCDeclares
    Values <- MCValues
    Folded <- MCValues
    Comparable <- MCComparable
    Missing = Missing
    NoResource = NoResource
    NoVersion = NoVersion
    NoHeader = NoHeader
    AnyTag = AnyTag
    w1 = w1
    w2 = w2
    w3 = w3
    Processes = {w1, w2, w3}
    NoTransaction = NoTransaction
    NoKey = NoKey
    Requests = {1, 2, 3}
    Jobs <- AllJobs
    Scenarios <- SharedScenarios
    Columns <- MCColumns
    Default <- MCDefault
    Contents <- MCContents
    FirstTime = 2
    EtagSupported = TRUE
    MaxCrashes = 0
INVARIANTS
    AcknowledgedIsApplied
