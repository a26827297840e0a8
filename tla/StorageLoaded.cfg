\* A storage loaded with a resource another in-memory storage stored.
SPECIFICATION Spec
CONSTANTS
    Types <- MCTypes
    Ids = {i1, i2}
    Attrs <- MCAttrs
    UniqueAttrs <- MCUniqueAttrs
    Declares <- MCDeclares
    Values <- MCValues
    Folded <- MCFolded
    Comparable <- MCComparable
    Missing = Missing
    NoResource = NoResource
    NoVersion = NoVersion
    NoKey = NoKey
    NotIndexed = NotIndexed
    MaxVersion = 2
    Loads <- MCLoadsFromStorage
SYMMETRY Symmetry
PROPERTIES
    VersionChangesWithResource
