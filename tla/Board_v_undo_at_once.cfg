\* Two cards, one person: the smallest Doppelbelegung.
SPECIFICATION Spec
CONSTANTS
    c1 = c1
    c2 = c2
    p1 = p1
    p2 = p2
    v1 = v1
    m1 = m1
    g1 = g1
    Cards = {c1, c2}
    Groups = {}
    Personnel = {p1}
    Vehicles = {}
    Materials = {}
    Rank <- MCRank
    None = None
    RekoPeople = {}
    MaxRows = 2
SYMMETRY CardSymmetry
PROPERTY UndoAtOnceRestoresAll
