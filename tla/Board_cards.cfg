\* Two cards, no Auftrag: two people of different rank, a vehicle and material.
SPECIFICATION Spec
CONSTANTS
    c1 = c1
    c2 = c2
    p1 = p1
    p2 = p2
    v1 = v1
    m1 = m1
    g1 = g1
    Cards = {c1, c2}
    Groups = {}
    Personnel = {p1, p2}
    Vehicles = {v1}
    Materials = {m1}
    Rank <- MCRank
    None = None
    RekoPeople = {p1}
    MaxRows = 3
SYMMETRY CardSymmetry
CONSTRAINT PeopleOrRekoOrKinds
INVARIANTS TypeOK OneActiveRowPerResource UndoRecordSound NoCrewWhileUndoPending
PROPERTIES UndoRestoresCrew UndoNeverDoubleBooks LeaderOfRecordKept PinnedLeaderComesBack AutoLeadHandedOn
