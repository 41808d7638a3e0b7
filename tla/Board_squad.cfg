\* Two cards that are or are not stops of one Auftrag, two people of equal rank.
SPECIFICATION Spec
CONSTANTS
    c1 = c1
    c2 = c2
    p1 = p1
    p2 = p2
    v1 = v1
    m1 = m1
    g1 = g1
    Cards = {c1, c2}
    Groups = {g1}
    Personnel = {p1, p2}
    Vehicles = {}
    Materials = {}
    Rank <- EqualRank
    None = None
    RekoPeople = {}
    MaxRows = 3
SYMMETRY CardSymmetry
CONSTRAINT TwoRowsOrSquadOnly
INVARIANTS OneLeader UndoRecordSound
PROPERTIES SquadLeavesWithLastStop AutoLeadHandedOn
