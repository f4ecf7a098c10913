SPECIFICATION FairSpec
CONSTANTS
    Nodes = {n1, n2}
    Handlers = {x1, x2, x3}
    NoNode = NoNode
INVARIANTS
    AckedNodesKept
PROPERTIES
    RegistryHeals
