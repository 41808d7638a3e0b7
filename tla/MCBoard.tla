------------------------------ MODULE MCBoard ------------------------------
(* Small instances of Board for TLC. *)
EXTENDS Board, TLC

CONSTANTS c1, c2, g1, p1, p2, v1, m1

MCRank == [p \in Personnel |-> IF p = p1 THEN 1 ELSE 2]
EqualRank == [p \in Personnel |-> 1]

CardSymmetry == Permutations(Cards)

\* Two rows of any kind, or more if all are squad rows: room for a squad that
\* changes after the route is done.
TwoRowsOrSquadOnly ==
    Len(rows) <= 2 \/ \A r \in DOMAIN rows : rows[r].owner \in Groups

OnlyRowsOf(R) == \A r \in DOMAIN rows : rows[r].res \in R

\* Two people, no Reko function. Or two rows, no pick by hand and no delete: of
\* two people and the Reko function, or of a person, a vehicle and material.
PeopleOrRekoOrKinds ==
    \/ reko = {} /\ OnlyRowsOf({p1, p2})
    \/ /\ Len(rows) <= 2
       /\ \A c \in Cards : ~leaderManual[c] /\ place[c] # "deleted"
       /\ \/ OnlyRowsOf({p1, p2})
          \/ reko = {} /\ OnlyRowsOf({p1, v1, m1})

=============================================================================
