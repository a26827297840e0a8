\* Every operation of the in-memory storage, on the lists a program loads at will.
SPECIFICATION Spec
CONSTANTS
    Types <- MCTypes
    Ids = {i1, i2}
    Attrs <- MCAttrs
    UniqueAttrs <- MCUniqueAttrs
    Declares <- MCDeclares
    Values <- MCValues
    Folded <- MCFolded
    Comparable <- MCComparable
    Missing = Missing
    NoResource = NoResource
    NoVersion = NoVersion
    NoKey = NoKey
    NotIndexed = NotIndexed
    MaxVersion = 2
    Loads <- MCLoads
SYMMETRY Symmetry
INVARIANTS
    TypeOK
    NoSharedUniqueValue
    IndexesExact
PROPERTIES
    ContractHolds
