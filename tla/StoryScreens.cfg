SPECIFICATION Spec
CONSTANTS
    ana = ana  bruno = bruno  cora = cora
    None = None
    People <- MCPeople
    Members <- MCMembers
    Toggles = {1, 2}
SYMMETRY Symmetry
INVARIANTS DriftOnlyFromOverlap HeartTellsTruth
