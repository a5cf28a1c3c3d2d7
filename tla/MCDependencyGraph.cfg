SPECIFICATION FairSortSpec
CONSTANTS
    Nodes <- MCNodes
    EntryOrder <- MCEntryOrder
    NameOrder <- MCNameOrder
    e1 = e1
    e2 = e2
    e3 = e3
    e4 = e4
INVARIANTS
    SortTypeOK
    DependenciesFirst
    CompleteIffAcyclic
PROPERTIES
    SortEnds
CHECK_DEADLOCK FALSE
