------------------------------- MODULE Board -------------------------------
(***************************************************************************)
(* The board of one Ereignis: its cards (incidents), its Auftraege (groups *)
(* of cards, worked as a route by one shared squad), and the assignment    *)
(* rows that put people, vehicles and material onto either.                *)
(*                                                                         *)
(* Every request is one transaction. It takes its row locks first          *)
(* (crud/locking.py) and commits at its end, so a handler is one action; a *)
(* pick of the leader and a delete take none, and lose or fail on a unique *)
(* index where they overlap.                                               *)
(* The six statuses of a card other than "complete" are one here, "open":  *)
(* no handler of this module tells them apart.                             *)
(***************************************************************************)
EXTENDS Naturals, Sequences, FiniteSets

CONSTANTS
    Cards,      \* incident ids
    Groups,     \* Auftrag ids
    Personnel, Vehicles, Materials,
    Rank,       \* leader_rank of every person, lower is more senior
    None,
    RekoPeople, \* bound: the people the Reko function is given to and taken from
    MaxRows     \* bound: assignment rows ever written

Owners    == Cards \cup Groups
Resources == Personnel \cup Vehicles \cup Materials

ASSUME KindsAreDisjoint ==
    /\ Cards \cap Groups = {}
    /\ Personnel \cap Vehicles = {}
    /\ Personnel \cap Materials = {}
    /\ Vehicles \cap Materials = {}
    /\ None \notin Owners \cup Resources

ASSUME RanksAreNumbers == Rank \in [Personnel -> Nat]

ASSUME Bounds == MaxRows \in Nat /\ RekoPeople \subseteq Personnel

VARIABLES
    rows,         \* both assignment tables, in the order of assigned_at
    place,        \* is the card not created yet, on the board, soft-deleted?
    status,       \* "open" or "complete"
    completedAt,  \* "none", "atDelete" (equal to deleted_at) or "set"
    group,        \* the Auftrag the card is a stop of
    groupState,   \* "absent", "live", "deleted"
    released,     \* what the card's latest completion closed, until undone
    leaderManual, \* the Einsatzleiter was picked by hand
    leaderRecord, \* Incident.leader_personnel_id, the leader of record
    reko          \* people holding the Reko function of the Ereignis

cardVars == <<place, status, completedAt, group>>
vars == <<rows, place, status, completedAt, group, groupState, released,
          leaderManual, leaderRecord, reko>>

-----------------------------------------------------------------------------
(* Assignment rows. A row is never removed: releasing it stamps            *)
(* unassigned_at (active = FALSE). Its index is its age; the rows of one   *)
(* transfer share assigned_at and get their indexes in any order.          *)

Row == [owner : Owners, res : Resources, active : BOOLEAN, leader : BOOLEAN]

NewRow(o, res) == [owner |-> o, res |-> res, active |-> TRUE, leader |-> FALSE]

ActiveRows(rs, o) == {r \in DOMAIN rs : rs[r].owner = o /\ rs[r].active}

\* Mutant: rows already released are counted, too.
CrewEver(rs, o) == {r \in DOMAIN rs : rs[r].owner = o /\ rs[r].res \notin Materials}

\* Personnel and vehicles: what a completion sends home. Material stays.
Crew(rs, o)   == {r \in ActiveRows(rs, o) : rs[r].res \notin Materials}
People(rs, o) == {r \in ActiveRows(rs, o) : rs[r].res \in Personnel}

Holds(rs, o, res) == \E r \in ActiveRows(rs, o) : rs[r].res = res

ActiveLeaders(rs, o) == {r \in People(rs, o) : rs[r].leader}

\* The flag goes with the stamp: _release of a card's row (unassign_resource).
Release(rs, S) ==
    [r \in DOMAIN rs |->
        IF r \in S THEN [rs[r] EXCEPT !.active = FALSE, !.leader = FALSE]
                   ELSE rs[r]]

-----------------------------------------------------------------------------
(* Einsatzleiter. *)

\* Highest rank first, then the earliest assigned.
Outranks(rs, r, s) ==
    \/ Rank[rs[r].res] < Rank[rs[s].res]
    \/ Rank[rs[r].res] = Rank[rs[s].res] /\ r < s

Candidates(rs, o) == {r \in People(rs, o) : rs[r].res \notin reko}

MostSenior(rs, S) == {r \in S : \A s \in S \ {r} : Outranks(rs, r, s)}

\* Mutant: Reko people are passed over only after the most senior was picked.
SyncBlockedByReko(rs, o, manual) ==
    [r \in DOMAIN rs |->
        IF ~manual /\ r \in People(rs, o)
        THEN [rs[r] EXCEPT
                !.leader = r \in MostSenior(rs, People(rs, o)) \cap Candidates(rs, o)]
        ELSE rs[r]]

\* The rows after sync_auto_leader / sync_auto_group_leader of o: the flag is
\* taken off everybody on o, then given to the senior candidate.
SyncAutoLeader(rs, o, manual) ==
    [r \in DOMAIN rs |->
        IF ~manual /\ r \in People(rs, o)
        THEN [rs[r] EXCEPT !.leader = r \in MostSenior(rs, Candidates(rs, o))]
        ELSE rs[r]]

\* Mutant: the assignment's id is stamped in place of the person's.
StampRowId(rs, c, manual) ==
    LET winner == MostSenior(rs, Candidates(rs, c))
    IN  IF manual \/ winner = {} THEN leaderRecord
        ELSE [leaderRecord EXCEPT ![c] = CHOOSE r \in winner : TRUE]

\* The leader of record after the same call: moved by a pick, never cleared.
StampLeader(rs, c, manual) ==
    LET winner == MostSenior(rs, Candidates(rs, c))
    IN  IF manual \/ winner = {} THEN leaderRecord
        ELSE [leaderRecord EXCEPT ![c] = rs[CHOOSE r \in winner : TRUE].res]

\* Only a change of personnel calls the sync.
RowsAfterChange(rs, o, res) ==
    IF res \in Personnel THEN SyncAutoLeader(rs, o, leaderManual[o]) ELSE rs

RecordAfterChange(rs, c, res) ==
    IF res \in Personnel THEN StampLeader(rs, c, leaderManual[c]) ELSE leaderRecord

\* The rows after r was marked Einsatzleiter by hand: the holder is demoted
\* in the same transaction, r is flagged whether or not it is still active.
MarkLeader(rs, r) ==
    [s \in DOMAIN rs |->
        IF s = r THEN [rs[s] EXCEPT !.leader = TRUE]
        ELSE IF s \in ActiveRows(rs, rs[r].owner)
             THEN [rs[s] EXCEPT !.leader = FALSE]
             ELSE rs[s]]

UnmarkLeader(rs, r) ==
    SyncAutoLeader([rs EXCEPT ![r].leader = FALSE], rs[r].owner, FALSE)

-----------------------------------------------------------------------------
(* Completion and its undo. *)

NothingReleased == [rows |-> {}, led |-> {}]

\* Mutant: the release promotes on a pinned card, too.
WasLeaderUnpinned(rs, c, r) ==
    IF \A s \in People(rs, c) : s >= r
    THEN rs[r].leader
    ELSE r \in MostSenior(rs, {s \in Candidates(rs, c) : s >= r})

\* was_leader as auto_release_incident_resources reads it, just before the row
\* is released. The crew leaves oldest row first and each person's release
\* re-derives the leader among those still there (unless pinned), so somebody
\* promoted on the way out is written down as well.
WasLeader(rs, c, r) ==
    IF leaderManual[c] \/ \A s \in People(rs, c) : s >= r
    THEN rs[r].leader
    ELSE r \in MostSenior(rs, {s \in Candidates(rs, c) : s >= r})

\* Mutant: the other stops are not asked for.
AnyStop(c) == group[c] # None /\ groupState[group[c]] = "live"

\* Mutant: every release of the cascade stamps, the youngest row last.
LastOut(c) ==
    IF People(rows, c) = {} THEN leaderRecord
    ELSE [leaderRecord EXCEPT
            ![c] = rows[CHOOSE r \in People(rows, c) :
                          \A s \in People(rows, c) : s <= r].res]

\* The leader of record is frozen before anybody is released.
LeaderAtCompletion(c) ==
    IF ActiveLeaders(rows, c) = {} THEN leaderRecord
    ELSE [leaderRecord EXCEPT
            ![c] = rows[CHOOSE r \in ActiveLeaders(rows, c) : TRUE].res]

LastOpenStop(c) ==
    /\ group[c] # None
    /\ groupState[group[c]] = "live"
    /\ \A d \in Cards \ {c} :
          group[d] = group[c] /\ place[d] = "board" => status[d] = "complete"

\* Mutant: squad rows already released are written down again.
SquadEver(c) ==
    IF LastOpenStop(c)
    THEN {r \in DOMAIN rows : rows[r].owner = group[c] /\ rows[r].res \notin Materials}
    ELSE {}

Squad(c) == IF LastOpenStop(c) THEN Crew(rows, group[c]) ELSE {}

\* A squad row keeps its flag when the last stop releases it.
ReleaseSquad(rs, S) ==
    [r \in DOMAIN rs |-> IF r \in S THEN [rs[r] EXCEPT !.active = FALSE] ELSE rs[r]]

\* Mutant: a resource that was ever on another card stays away.
RowsNeverShared(c) ==
    {r \in released[c].rows :
        /\ rows[r].owner \in Cards
        /\ ~rows[r].active
        /\ ~\E s \in DOMAIN rows :
              s # r /\ rows[s].owner \in Cards /\ rows[s].res = rows[r].res}

\* Mutant: only a duplicate on the same card is looked for.
RowsNotOnThisCard(c) ==
    {r \in released[c].rows :
        /\ rows[r].owner \in Cards
        /\ ~rows[r].active
        /\ ~Holds(rows, c, rows[r].res)}

\* The card's rows an undo brings back: not those whose resource stands on
\* any card by then. Rows of an Auftrag are not looked at.
CardRowsBack(c) ==
    {r \in released[c].rows :
        /\ rows[r].owner \in Cards
        /\ ~rows[r].active
        /\ ~\E d \in Cards : Holds(rows, d, rows[r].res)}

\* The squad's rows an undo brings back: only a duplicate on the SAME Auftrag
\* keeps one out.
SquadRowsBack(c) ==
    {r \in released[c].rows :
        /\ rows[r].owner \in Groups
        /\ ~rows[r].active
        /\ ~Holds(rows, rows[r].owner, rows[r].res)}

\* Card rows come back without the flag, squad rows as they are.
RestoredRows(c) ==
    [r \in DOMAIN rows |->
        IF r \in CardRowsBack(c)
        THEN [rows[r] EXCEPT !.active = TRUE, !.leader = FALSE]
        ELSE IF r \in SquadRowsBack(c)
             THEN [rows[r] EXCEPT !.active = TRUE]
             ELSE rows[r]]

\* Mutant: without the index.
NoIndex(c) == FALSE

\* uq_group_assignments_single_leader rejects the flush, the request fails.
SquadLeaderClash(c) ==
    \E g \in Groups : \E r, s \in ActiveLeaders(RestoredRows(c), g) : r # s

FormerLeaders(c) ==
    {r \in released[c].led : r \in People(RestoredRows(c), c)}

\* Every outcome for the card's flag: nobody new while somebody holds it, else
\* whichever former leader the unordered query returns first, else a derived one.
RestoredLeader(c) ==
    LET back == RestoredRows(c)
    IN  IF CardRowsBack(c) = {} \/ ActiveLeaders(back, c) # {} THEN {back}
        ELSE IF FormerLeaders(c) # {}
             THEN {[back EXCEPT ![r].leader = TRUE] : r \in FormerLeaders(c)}
             ELSE {SyncAutoLeader(back, c, leaderManual[c])}

-----------------------------------------------------------------------------
Init ==
    /\ rows = << >>
    /\ place = [c \in Cards |-> "absent"]
    /\ status = [c \in Cards |-> "open"]
    /\ completedAt = [c \in Cards |-> "none"]
    /\ group = [c \in Cards |-> None]
    /\ groupState = [g \in Groups |-> "absent"]
    /\ released = [c \in Cards |-> NothingReleased]
    /\ leaderManual = [o \in Owners |-> FALSE]
    /\ leaderRecord = [c \in Cards |-> None]
    /\ reko = {}

(* Cards. *)

\* The payload names the first status, even "complete".
CreateIncident(c, g, st) ==
    /\ place[c] = "absent"
    /\ g # None => groupState[g] = "live"
    /\ place' = [place EXCEPT ![c] = "board"]
    /\ status' = [status EXCEPT ![c] = st]
    /\ group' = [group EXCEPT ![c] = g]
    /\ UNCHANGED <<rows, completedAt, groupState, released, leaderManual,
                   leaderRecord, reko>>

\* update_incident_status into "complete". Works on a soft-deleted card too.
Complete(c) ==
    LET crew  == Crew(rows, c)
        squad == Squad(c)
        led   == {r \in crew : WasLeader(rows, c, r)}
    IN  /\ place[c] # "absent"
        /\ status[c] = "open"
        /\ status' = [status EXCEPT ![c] = "complete"]
        /\ completedAt' = [completedAt EXCEPT ![c] = "set"]
        /\ rows' = ReleaseSquad(Release(rows, crew), squad)
        /\ leaderRecord' = LeaderAtCompletion(c)
        /\ released' = IF crew \cup squad = {} THEN released
                       ELSE [released EXCEPT ![c] = [rows |-> crew \cup squad, led |-> led]]
        /\ UNCHANGED <<place, group, groupState, leaderManual, reko>>

\* update_incident_status on a closed card. A second "complete" takes the same
\* branch: only entering it from elsewhere is told apart.
LeaveComplete(c, new) ==
    /\ place[c] # "absent"
    /\ status[c] = "complete"
    /\ ~SquadLeaderClash(c)
    /\ status' = [status EXCEPT ![c] = new]
    /\ completedAt' = [completedAt EXCEPT ![c] = "none"]
    /\ rows' \in RestoredLeader(c)
    /\ released' = [released EXCEPT ![c] = NothingReleased]
    /\ UNCHANGED <<place, group, groupState, leaderManual, leaderRecord, reko>>

Reopen(c)          == LeaveComplete(c, "open")
CompleteAgain(c)   == LeaveComplete(c, "complete")

\* A second delete stamps deleted_at anew and leaves completed_at behind.
DeleteIncident(c) ==
    /\ place[c] # "absent"
    /\ place' = [place EXCEPT ![c] = "deleted"]
    /\ completedAt' = [completedAt EXCEPT ![c] = IF @ = "none" THEN "atDelete" ELSE "set"]
    /\ UNCHANGED <<rows, status, group, groupState, released, leaderManual,
                   leaderRecord, reko>>

RestoreIncident(c) ==
    /\ place[c] = "deleted"
    /\ place' = [place EXCEPT ![c] = "board"]
    /\ completedAt' = [completedAt EXCEPT ![c] = IF @ = "atDelete" THEN "none" ELSE @]
    /\ UNCHANGED <<rows, status, group, groupState, released, leaderManual,
                   leaderRecord, reko>>

(* Resources of a card. *)

\* Mutant: a resource the card holds is assigned again.
AssignTwice(c, res) ==
    LET added == Append(rows, NewRow(c, res))
    IN  /\ Len(rows) < MaxRows
        /\ place[c] = "board"
        /\ status[c] = "complete" => res \in Materials
        /\ rows' = RowsAfterChange(added, c, res)
        /\ leaderRecord' = RecordAfterChange(added, c, res)
        /\ UNCHANGED <<cardVars, groupState, released, leaderManual, reko>>

\* Mutant: a closed card takes anybody.
AssignToClosed(c, res) ==
    LET added == Append(rows, NewRow(c, res))
    IN  /\ Len(rows) < MaxRows
        /\ place[c] = "board"
        /\ ~Holds(rows, c, res)
        /\ rows' = RowsAfterChange(added, c, res)
        /\ leaderRecord' = RecordAfterChange(added, c, res)
        /\ UNCHANGED <<cardVars, groupState, released, leaderManual, reko>>

AssignResource(c, res) ==
    LET added == Append(rows, NewRow(c, res))
    IN  /\ Len(rows) < MaxRows
        /\ place[c] = "board"
        /\ status[c] = "complete" => res \in Materials
        /\ ~Holds(rows, c, res)
        /\ rows' = RowsAfterChange(added, c, res)
        /\ leaderRecord' = RecordAfterChange(added, c, res)
        /\ UNCHANGED <<cardVars, groupState, released, leaderManual, reko>>

\* No check that the row is still active: a repeated release succeeds.
UnassignResource(r) ==
    LET gone == Release(rows, {r})
        c    == rows[r].owner
    IN  /\ c \in Cards
        /\ rows' = RowsAfterChange(gone, c, rows[r].res)
        /\ leaderRecord' = RecordAfterChange(gone, c, rows[r].res)
        /\ UNCHANGED <<cardVars, groupState, released, leaderManual, reko>>

PinLeader(r) ==
    /\ rows[r].owner \in Cards
    /\ rows[r].res \in Personnel
    /\ rows' = MarkLeader(rows, r)
    /\ leaderManual' = [leaderManual EXCEPT ![rows[r].owner] = TRUE]
    /\ leaderRecord' = [leaderRecord EXCEPT ![rows[r].owner] = rows[r].res]
    /\ UNCHANGED <<cardVars, groupState, released, reko>>

UnpinLeader(r) ==
    /\ rows[r].owner \in Cards
    /\ rows[r].res \in Personnel
    /\ rows' = UnmarkLeader(rows, r)
    /\ leaderManual' = [leaderManual EXCEPT ![rows[r].owner] = FALSE]
    /\ leaderRecord' = StampLeader(rows, rows[r].owner, FALSE)
    /\ UNCHANGED <<cardVars, groupState, released, reko>>

\* What a transfer takes along: every active row but those of Reko people.
Transferable(c) == {r \in ActiveRows(rows, c) : rows[r].res \notin reko}

Orders(S) == {q \in [1..Cardinality(S) -> S] :
                 \A i, j \in 1..Cardinality(S) : q[i] = q[j] => i = j}

\* The source may be off the board, the target may not.
TransferAssignments(c, d) ==
    LET moved == Transferable(c)
        gone  == Release(rows, moved)
    IN  /\ c # d
        /\ place[c] # "absent"
        /\ place[d] = "board"
        /\ moved # {}
        /\ Len(rows) + Cardinality(moved) <= MaxRows
        /\ \A r \in moved :
              /\ ~Holds(rows, d, rows[r].res)
              /\ status[d] = "complete" => rows[r].res \in Materials
        /\ \E order \in Orders(moved) :
              LET added == [r \in 1..(Len(rows) + Cardinality(moved)) |->
                              IF r <= Len(rows) THEN gone[r]
                              ELSE NewRow(d, rows[order[r - Len(rows)]].res)]
                  left  == SyncAutoLeader(added, c, leaderManual[c])
              IN  /\ rows' = SyncAutoLeader(left, d, leaderManual[d])
                  /\ leaderRecord' =
                        [leaderRecord EXCEPT
                            ![c] = StampLeader(added, c, leaderManual[c])[c],
                            ![d] = StampLeader(left, d, leaderManual[d])[d]]
        /\ UNCHANGED <<cardVars, groupState, released, leaderManual, reko>>

(* Auftraege. *)

CreateGroup(g) ==
    /\ groupState[g] = "absent"
    /\ groupState' = [groupState EXCEPT ![g] = "live"]
    /\ UNCHANGED <<rows, cardVars, released, leaderManual, leaderRecord, reko>>

\* Every active row is released, material too, and every stop detached.
SoftDeleteGroup(g) ==
    /\ groupState[g] = "live"
    /\ groupState' = [groupState EXCEPT ![g] = "deleted"]
    /\ rows' = ReleaseSquad(rows, ActiveRows(rows, g))
    /\ group' = [c \in Cards |-> IF group[c] = g THEN None ELSE group[c]]
    /\ UNCHANGED <<place, status, completedAt, released, leaderManual,
                   leaderRecord, reko>>

AddStop(g, c) ==
    /\ groupState[g] = "live"
    /\ place[c] = "board"
    /\ group[c] # g
    /\ group' = [group EXCEPT ![c] = g]
    /\ UNCHANGED <<rows, place, status, completedAt, groupState, released,
                   leaderManual, leaderRecord, reko>>

RemoveStop(c) ==
    /\ place[c] = "board"
    /\ group[c] # None
    /\ group' = [group EXCEPT ![c] = None]
    /\ UNCHANGED <<rows, place, status, completedAt, groupState, released,
                   leaderManual, leaderRecord, reko>>

\* The Auftrag field of a PATCH (update_incident), soft-deleted cards included.
PatchGroup(c, g) ==
    /\ place[c] # "absent"
    /\ group[c] # g
    /\ g # None => groupState[g] = "live"
    /\ group' = [group EXCEPT ![c] = g]
    /\ UNCHANGED <<rows, place, status, completedAt, groupState, released,
                   leaderManual, leaderRecord, reko>>

\* An Auftrag has no closed state of its own: a finished route takes people.
AssignGroupResource(g, res) ==
    /\ Len(rows) < MaxRows
    /\ groupState[g] = "live"
    /\ ~Holds(rows, g, res)
    /\ rows' = RowsAfterChange(Append(rows, NewRow(g, res)), g, res)
    /\ UNCHANGED <<cardVars, groupState, released, leaderManual, leaderRecord, reko>>

\* Mutant: nobody takes over when the squad's leader goes.
UnassignWithoutSync(r) ==
    /\ rows[r].owner \in Groups
    /\ rows[r].active
    /\ rows' = Release(rows, {r})
    /\ UNCHANGED <<cardVars, groupState, released, leaderManual, leaderRecord, reko>>

UnassignGroupResource(r) ==
    /\ rows[r].owner \in Groups
    /\ rows[r].active
    /\ rows' = RowsAfterChange(Release(rows, {r}), rows[r].owner, rows[r].res)
    /\ UNCHANGED <<cardVars, groupState, released, leaderManual, leaderRecord, reko>>

PinGroupLeader(r) ==
    /\ rows[r].owner \in Groups
    /\ rows[r].res \in Personnel
    /\ rows' = MarkLeader(rows, r)
    /\ leaderManual' = [leaderManual EXCEPT ![rows[r].owner] = TRUE]
    /\ UNCHANGED <<cardVars, groupState, released, leaderRecord, reko>>

UnpinGroupLeader(r) ==
    /\ rows[r].owner \in Groups
    /\ rows[r].res \in Personnel
    /\ rows' = UnmarkLeader(rows, r)
    /\ leaderManual' = [leaderManual EXCEPT ![rows[r].owner] = FALSE]
    /\ UNCHANGED <<cardVars, groupState, released, leaderRecord, reko>>

\* The Reko function of the Ereignis; nobody's leader is derived anew.
GrantReko(p) ==
    /\ p \notin reko
    /\ reko' = reko \cup {p}
    /\ UNCHANGED <<rows, cardVars, groupState, released, leaderManual, leaderRecord>>

RevokeReko(p) ==
    /\ p \in reko
    /\ reko' = reko \ {p}
    /\ UNCHANGED <<rows, cardVars, groupState, released, leaderManual, leaderRecord>>

CardStep ==
    \E c \in Cards :
        \/ \E g \in Groups \cup {None}, st \in {"open", "complete"} :
              CreateIncident(c, g, st)
        \/ \E g \in Groups \cup {None} : PatchGroup(c, g)
        \/ Complete(c)
        \/ Reopen(c)
        \/ CompleteAgain(c)
        \/ DeleteIncident(c)
        \/ RestoreIncident(c)
        \/ RemoveStop(c)
        \/ \E res \in Resources : AssignResource(c, res)
        \/ \E d \in Cards : TransferAssignments(c, d)

GroupStep ==
    \E g \in Groups :
        \/ CreateGroup(g)
        \/ SoftDeleteGroup(g)
        \/ \E c \in Cards : AddStop(g, c)
        \/ \E res \in Resources : AssignGroupResource(g, res)

RowStep ==
    \E r \in DOMAIN rows :
        \/ UnassignResource(r)
        \/ PinLeader(r)
        \/ UnpinLeader(r)
        \/ UnassignGroupResource(r)
        \/ PinGroupLeader(r)
        \/ UnpinGroupLeader(r)

RekoStep == \E p \in RekoPeople : GrantReko(p) \/ RevokeReko(p)

Next == CardStep \/ GroupStep \/ RowStep \/ RekoStep

Spec == Init /\ [][Next]_vars

-----------------------------------------------------------------------------
(* Invariants. *)

\* Every variable has its type.
TypeOK ==
    /\ rows \in Seq(Row)
    /\ place \in [Cards -> {"absent", "board", "deleted"}]
    /\ status \in [Cards -> {"open", "complete"}]
    /\ completedAt \in [Cards -> {"none", "atDelete", "set"}]
    /\ group \in [Cards -> Groups \cup {None}]
    /\ groupState \in [Groups -> {"absent", "live", "deleted"}]
    /\ released \in [Cards -> [rows : SUBSET Nat, led : SUBSET Nat]]
    /\ leaderManual \in [Owners -> BOOLEAN]
    /\ leaderRecord \in [Cards -> Personnel \cup {None}]
    /\ reko \in SUBSET Personnel

\* No card and no Auftrag holds a resource twice. The partial unique indexes
\* uq_assignments_active_resource and uq_group_assignments_active_resource are
\* the last resort; no handler ever runs into them, the undo included.
OneActiveRowPerResource ==
    \A r, s \in DOMAIN rows :
        /\ rows[r].active /\ rows[s].active
        /\ rows[r].owner = rows[s].owner
        /\ rows[r].res = rows[s].res
        => r = s

\* At most one person leads a card or an Auftrag, and never a vehicle or
\* material: picks by hand, derived picks, transfers and undone completions
\* never leave two (uq_assignments_single_leader).
OneLeader ==
    /\ \A r, s \in DOMAIN rows :
          /\ rows[r].active /\ rows[s].active
          /\ rows[r].leader /\ rows[s].leader
          /\ rows[r].owner = rows[s].owner
          => r = s
    /\ \A r \in DOMAIN rows : rows[r].leader => rows[r].res \in Personnel

\* What a completion wrote down stays true until it is undone: the card is
\* closed, the listed rows belong to it or to an Auftrag and are still
\* released, none twice, and no second card lists them. So an undo never replays a release
\* and never undoes one that is not its own (_undo_completion_release).
UndoRecordSound ==
    \A c \in Cards :
        /\ released[c].rows # {} => status[c] = "complete" /\ place[c] # "absent"
        /\ released[c].led \subseteq released[c].rows
        /\ \A r \in released[c].rows :
              /\ r \in DOMAIN rows
              /\ ~rows[r].active
              /\ rows[r].owner \in {c} \cup Groups
        /\ \A r, s \in released[c].rows :
              rows[r].owner = rows[s].owner /\ rows[r].res = rows[s].res => r = s
        /\ \A d \in Cards \ {c} : released[c].rows \cap released[d].rows = {}

\* A closed card whose completion can still be undone holds nobody and no
\* vehicle: ensure_assignable, the transfer and the Doppelbelegung rules
\* together keep everybody off it.
NoCrewWhileUndoPending ==
    \A c \in Cards : released[c].rows # {} => Crew(rows, c) = {}

-----------------------------------------------------------------------------
(* Action properties. *)

Closes(c) == status[c] = "open" /\ status'[c] = "complete"

NotShared(c) ==
    {r \in Crew(rows, c) : \A d \in Cards \ {c} : ~Holds(rows, d, rows[r].res)}

\* Undoing a completion at once brings back everybody it sent home who was on
\* this card only, and nobody it did not send home. (Whether those on a second
\* card come back is the question of UndoAtOnceRestoresAll.)
UndoRestoresCrew ==
    [][\A c \in Cards :
          Closes(c) =>
            /\ NotShared(c) \subseteq CardRowsBack(c)'
            /\ CardRowsBack(c)' \subseteq Crew(rows, c)]_vars

\* What restore_released_assignments says of itself: a row stays away only if
\* its resource was assigned elsewhere since, so an undo at once restores
\* everything (crud/assignments.py:564-567). The code does not: it asks for any
\* active row of the resource, also for one older than the completion.
UndoAtOnceRestoresAll ==
    [][\A c \in Cards : Closes(c) => CardRowsBack(c)' = Crew(rows, c)]_vars

NoSecondCard ==
    \A c \in Cards :
        status[c] = "complete" =>
            \A r \in Crew(rows', c) \ Crew(rows, c) :
                \A d \in Cards \ {c} : ~Holds(rows', d, rows'[r].res)

\* Leaving "complete" never puts a resource onto a second card, whatever was
\* assigned, transferred, deleted or restored since the card was closed.
UndoNeverDoubleBooks == [][NoSecondCard]_vars

\* The leader of record: a completion freezes it on the person who led at that
\* moment, not on whoever was promoted while the crew left; an undo does not
\* move it; nothing ever clears it.
LeaderOfRecordKept ==
    [][\A c \in Cards :
          /\ leaderRecord[c] # None => leaderRecord'[c] # None
          /\ status[c] = "complete" /\ status'[c] = "open"
                => leaderRecord'[c] = leaderRecord[c]
          /\ Closes(c) =>
                \A r \in ActiveLeaders(rows, c) : leaderRecord'[c] = rows[r].res]_vars

\* Whoever joins or leaves, an owner whose leader nobody picked by hand has
\* one afterwards, if anybody but Reko people is there: sync_auto_leader is
\* called at every change of the crew, of both owners of a transfer, and after
\* an undo that could not bring the former leader back. (The undo of an Auftrag
\* derives nobody: its rows come back as they are.)
AutoLeadHandedOn ==
    [][\A o \in Owners :
          /\ ~leaderManual'[o]
          /\ People(rows', o) # People(rows, o)
          /\ o \in Cards \/ DOMAIN rows \cap People(rows', o) \subseteq People(rows, o)
          /\ Candidates(rows, o)' # {}
          => ActiveLeaders(rows', o) # {}]_vars

\* Every outcome of undoing c's completion gives the flag to whoever carries
\* it now, provided the row comes back at all.
LeaderComesBack(c) ==
    \A r \in ActiveLeaders(rows, c) :
        r \in CardRowsBack(c)' => \A rs \in RestoredLeader(c)' : rs[r].leader

\* A leader picked by hand is the leader again after an undo: while the card is
\* pinned the release promotes nobody, so was_leader names one row.
PinnedLeaderComesBack ==
    [][\A c \in Cards : Closes(c) /\ leaderManual[c] => LeaderComesBack(c)]_vars

OpenStops(g) ==
    {d \in Cards : group[d] = g /\ place[d] = "board" /\ status[d] = "open"}

\* The squad goes home with the last open stop of its route and not before:
\* closing a card takes it off the Auftrag if no other stop on the board is
\* open, and then every one of its rows is the undo's to bring back; otherwise,
\* and for every other Auftrag, nobody is moved.
SquadLeavesWithLastStop ==
    [][\A c \in Cards, g \in Groups :
          Closes(c) /\ place[c] # "absent" =>
            IF group[c] = g /\ OpenStops(g) \subseteq {c}
            THEN Crew(rows', g) = {} /\ Crew(rows, g) \subseteq SquadRowsBack(c)'
            ELSE Crew(rows', g) = Crew(rows, g)]_vars

=============================================================================
