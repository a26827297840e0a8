\* Every case, from the first byte of the request to its answer.
SPECIFICATION FairSpec
CONSTANTS
    User = User
    Group = Group
    NoType = NoType
    None = None
    Types <- MCTypes
    Endpoints <- MCEndpoints
    Families <- MCFamilies
INVARIANTS
    TypeOK
    RefusedClientLearnsNothing
    BodyLimits
    SearchAsAnnounced
    BulkFailsAlike
PROPERTIES
    Answered
