---------------------------- MODULE BoardProofs ----------------------------
(* Theorems about Board, for every board: type correctness, the inductive  *)
(* invariant behind its safety invariants, and what no step may ever do.  *)
EXTENDS Board, SequenceTheorems, FiniteSetTheorems, TLAPS

-----------------------------------------------------------------------------
(* What the operators on the rows do. *)

\* A row-by-row rewriting of the assignment rows is a sequence of rows again.
LEMMA RewrittenRows ==
    ASSUME NEW rs \in Seq(Row), NEW f,
           f = [r \in DOMAIN rs |-> f[r]],
           \A r \in DOMAIN rs : f[r] \in Row
    PROVE  f \in Seq(Row) /\ Len(f) = Len(rs) /\ DOMAIN f = DOMAIN rs
<1>1. DOMAIN rs = 1..Len(rs) /\ Len(rs) \in Nat
  BY LenProperties
<1>2. f \in [1..Len(rs) -> Row]
  BY <1>1
<1>3. f \in Seq(Row)
  BY <1>1, <1>2, SeqDef
<1>. QED
  BY <1>1, <1>2, <1>3, LenProperties

\* Appending a row keeps the old ones where they are.
LEMMA AppendedRow ==
    ASSUME NEW rs \in Seq(Row), NEW o \in Owners, NEW res \in Resources
    PROVE  LET f == Append(rs, NewRow(o, res))
           IN  /\ f \in Seq(Row)
               /\ DOMAIN f = DOMAIN rs \cup {Len(rs) + 1}
               /\ Len(rs) + 1 \notin DOMAIN rs
               /\ \A r \in DOMAIN rs : f[r] = rs[r]
               /\ f[Len(rs) + 1] = NewRow(o, res)
<1>1. NewRow(o, res) \in Row
  BY DEF NewRow, Row
<1>2. DOMAIN rs = 1..Len(rs) /\ Len(rs) \in Nat
  BY LenProperties
<1>3. DOMAIN Append(rs, NewRow(o, res)) = 1..(Len(rs) + 1)
  BY <1>1, AppendProperties, LenProperties
<1>. QED
  BY <1>1, <1>2, <1>3, AppendProperties

\* Releasing rows touches only their stamp and their flag.
LEMMA ReleasedRows ==
    ASSUME NEW rs \in Seq(Row), NEW S
    PROVE  LET f == Release(rs, S)
           IN  /\ f \in Seq(Row) /\ Len(f) = Len(rs) /\ DOMAIN f = DOMAIN rs
               /\ \A r \in DOMAIN rs :
                     /\ f[r].owner = rs[r].owner /\ f[r].res = rs[r].res
                     /\ f[r].active <=> rs[r].active /\ r \notin S
                     /\ f[r].leader <=> rs[r].leader /\ r \notin S
<1>. DEFINE f == Release(rs, S)
<1>1. \A r \in DOMAIN rs : rs[r] \in Row
  BY ElementOfSeq, LenProperties
<1>2. \A r \in DOMAIN rs :
          /\ f[r] \in Row
          /\ f[r].owner = rs[r].owner /\ f[r].res = rs[r].res
          /\ f[r].active <=> rs[r].active /\ r \notin S
          /\ f[r].leader <=> rs[r].leader /\ r \notin S
  BY <1>1 DEF Release, Row
<1>3. f = [r \in DOMAIN rs |-> f[r]]
  BY DEF Release
<1>4. f \in Seq(Row) /\ Len(f) = Len(rs) /\ DOMAIN f = DOMAIN rs
  BY <1>2, <1>3, RewrittenRows
<1>. QED
  BY <1>2, <1>4

\* Releasing the squad touches only the stamp.
LEMMA ReleasedSquadRows ==
    ASSUME NEW rs \in Seq(Row), NEW S
    PROVE  LET f == ReleaseSquad(rs, S)
           IN  /\ f \in Seq(Row) /\ Len(f) = Len(rs) /\ DOMAIN f = DOMAIN rs
               /\ \A r \in DOMAIN rs :
                     /\ f[r].owner = rs[r].owner /\ f[r].res = rs[r].res
                     /\ f[r].active <=> rs[r].active /\ r \notin S
                     /\ f[r].leader <=> rs[r].leader
<1>. DEFINE f == ReleaseSquad(rs, S)
<1>1. \A r \in DOMAIN rs : rs[r] \in Row
  BY ElementOfSeq, LenProperties
<1>2. \A r \in DOMAIN rs :
          /\ f[r] \in Row
          /\ f[r].owner = rs[r].owner /\ f[r].res = rs[r].res
          /\ f[r].active <=> rs[r].active /\ r \notin S
          /\ f[r].leader <=> rs[r].leader
  BY <1>1 DEF ReleaseSquad, Row
<1>3. f = [r \in DOMAIN rs |-> f[r]]
  BY DEF ReleaseSquad
<1>4. f \in Seq(Row) /\ Len(f) = Len(rs) /\ DOMAIN f = DOMAIN rs
  BY <1>2, <1>3, RewrittenRows
<1>. QED
  BY <1>2, <1>4

\* Two versions of the rows that differ in flags only.
SameHolders(rs, f) ==
    /\ f \in Seq(Row) /\ Len(f) = Len(rs) /\ DOMAIN f = DOMAIN rs
    /\ \A r \in DOMAIN rs :
          f[r].owner = rs[r].owner /\ f[r].res = rs[r].res
          /\ (f[r].active <=> rs[r].active)

\* The two invariants on rows, of any version of the rows.
ActiveDistinct(rs) ==
    \A r, s \in DOMAIN rs :
        rs[r].active /\ rs[s].active /\ rs[r].owner = rs[s].owner /\ rs[r].res = rs[s].res
        => r = s

LeadersDistinct(rs) ==
    /\ \A r, s \in DOMAIN rs :
          /\ rs[r].active /\ rs[s].active
          /\ rs[r].leader /\ rs[s].leader
          /\ rs[r].owner = rs[s].owner
          => r = s
    /\ \A r \in DOMAIN rs : rs[r].leader => rs[r].res \in Personnel

\* No two rows outrank each other, so at most one is the most senior.
LEMMA OneMostSenior ==
    ASSUME NEW rs \in Seq(Row), NEW o,
           NEW r \in MostSenior(rs, Candidates(rs, o)),
           NEW s \in MostSenior(rs, Candidates(rs, o))
    PROVE  r = s
<1>1. /\ r \in Candidates(rs, o) /\ s \in Candidates(rs, o)
      /\ r # s => Outranks(rs, r, s) /\ Outranks(rs, s, r)
  BY DEF MostSenior
<1>2. r \in Nat /\ s \in Nat /\ rs[r].res \in Personnel /\ rs[s].res \in Personnel
  BY <1>1, LenProperties DEF Candidates, People, ActiveRows
<1>3. Rank[rs[r].res] \in Nat /\ Rank[rs[s].res] \in Nat
  BY <1>2, RanksAreNumbers
<1>. QED
  BY <1>1, <1>2, <1>3 DEF Outranks

\* sync_auto_leader moves flags only, and only on people of o.
LEMMA SyncedRows ==
    ASSUME NEW rs \in Seq(Row), NEW o, NEW manual \in BOOLEAN
    PROVE  LET f == SyncAutoLeader(rs, o, manual)
           IN  /\ SameHolders(rs, f)
               /\ LeadersDistinct(rs) => LeadersDistinct(f)
<1>. DEFINE f == SyncAutoLeader(rs, o, manual)
            top == MostSenior(rs, Candidates(rs, o))
<1>1. \A r \in DOMAIN rs : rs[r] \in Row
  BY ElementOfSeq, LenProperties
<1>2. ASSUME NEW r \in DOMAIN rs
      PROVE  /\ f[r] \in Row
             /\ f[r].owner = rs[r].owner /\ f[r].res = rs[r].res
             /\ f[r].active = rs[r].active
             /\ ~manual /\ r \in People(rs, o) => (f[r].leader <=> r \in top)
             /\ ~(~manual /\ r \in People(rs, o)) => f[r].leader = rs[r].leader
  <2>1. CASE ~manual /\ r \in People(rs, o)
    <3>. DEFINE flag == r \in top
    <3>1. f[r] = [rs[r] EXCEPT !.leader = flag]
      BY <2>1 DEF SyncAutoLeader
    <3>2. flag \in BOOLEAN
      OBVIOUS
    <3>. HIDE DEF flag
    <3>3. f[r] \in Row /\ f[r].leader = flag /\ f[r].owner = rs[r].owner
          /\ f[r].res = rs[r].res /\ f[r].active = rs[r].active
      BY <1>1, <3>1, <3>2 DEF Row
    <3>. QED
      BY <2>1, <3>3 DEF flag
  <2>2. CASE ~(~manual /\ r \in People(rs, o))
    <3>1. f[r] = rs[r]
      BY <2>2 DEF SyncAutoLeader
    <3>. QED
      BY <1>1, <2>2, <3>1
  <2>. QED
    BY <2>1, <2>2
<1>3. f = [r \in DOMAIN rs |-> f[r]]
  BY DEF SyncAutoLeader
<1>4. f \in Seq(Row) /\ Len(f) = Len(rs) /\ DOMAIN f = DOMAIN rs
  BY <1>2, <1>3, RewrittenRows
<1>5. SameHolders(rs, f)
  BY <1>2, <1>4 DEF SameHolders
<1>6. ASSUME LeadersDistinct(rs) PROVE LeadersDistinct(f)
  <2>1. ASSUME NEW r \in DOMAIN f, f[r].leader PROVE f[r].res \in Personnel
    BY <1>2, <1>4, <1>6, <2>1 DEF LeadersDistinct, People
  <2>2. ASSUME NEW r \in DOMAIN f, NEW s \in DOMAIN f,
               f[r].active, f[s].active, f[r].leader, f[s].leader, f[r].owner = f[s].owner
        PROVE  r = s
    <3>1. r \in DOMAIN rs /\ s \in DOMAIN rs
      BY <1>4
    <3>2. rs[r].active /\ rs[s].active /\ rs[r].owner = rs[s].owner
      BY <1>2, <2>2, <3>1
    <3>3. rs[r].res \in Personnel /\ rs[s].res \in Personnel
      BY <1>2, <1>4, <2>1, <2>2, <3>1
    <3>4. CASE ~manual /\ rs[r].owner = o
      <4>1. r \in People(rs, o) /\ s \in People(rs, o)
        BY <3>1, <3>2, <3>3, <3>4 DEF People, ActiveRows
      <4>2. r \in top /\ s \in top
        BY <1>2, <2>2, <3>1, <3>4, <4>1
      <4>. QED
        BY <4>2, OneMostSenior
    <3>5. CASE ~(~manual /\ rs[r].owner = o)
      <4>1. rs[r].leader /\ rs[s].leader
        BY <1>2, <2>2, <3>1, <3>2, <3>5 DEF People, ActiveRows
      <4>. QED
        BY <1>6, <3>1, <3>2, <4>1 DEF LeadersDistinct
    <3>. QED
      BY <3>4, <3>5
  <2>. QED
    BY <2>1, <2>2 DEF LeadersDistinct
<1>. QED
  BY <1>5, <1>6

\* A pick by hand moves flags only, and leaves one leader.
LEMMA MarkedRows ==
    ASSUME NEW rs \in Seq(Row), NEW r \in DOMAIN rs, rs[r].res \in Personnel
    PROVE  LET f == MarkLeader(rs, r)
           IN  /\ SameHolders(rs, f)
               /\ LeadersDistinct(rs) => LeadersDistinct(f)
<1>. DEFINE f == MarkLeader(rs, r)
<1>1. \A s \in DOMAIN rs : rs[s] \in Row
  BY ElementOfSeq, LenProperties
<1>2. \A s \in DOMAIN rs :
          /\ f[s] \in Row
          /\ f[s].owner = rs[s].owner /\ f[s].res = rs[s].res
          /\ f[s].active = rs[s].active
          /\ f[s].leader <=> \/ s = r
                             \/ s \notin ActiveRows(rs, rs[r].owner) /\ rs[s].leader
  BY <1>1 DEF MarkLeader, Row
<1>3. f = [s \in DOMAIN rs |-> f[s]]
  BY DEF MarkLeader
<1>4. f \in Seq(Row) /\ Len(f) = Len(rs) /\ DOMAIN f = DOMAIN rs
  BY <1>2, <1>3, RewrittenRows
<1>5. SameHolders(rs, f)
  BY <1>2, <1>4 DEF SameHolders
<1>6. ASSUME LeadersDistinct(rs) PROVE LeadersDistinct(f)
  <2>1. ASSUME NEW s \in DOMAIN f, f[s].leader PROVE f[s].res \in Personnel
    BY <1>2, <1>4, <1>6, <2>1 DEF LeadersDistinct
  <2>2. ASSUME NEW s \in DOMAIN f, NEW t \in DOMAIN f,
               f[s].active, f[t].active, f[s].leader, f[t].leader, f[s].owner = f[t].owner
        PROVE  s = t
    <3>1. /\ s \in DOMAIN rs /\ t \in DOMAIN rs
          /\ rs[s].active /\ rs[t].active /\ rs[s].owner = rs[t].owner
          /\ s = r \/ (rs[s].owner # rs[r].owner /\ rs[s].leader)
          /\ t = r \/ (rs[t].owner # rs[r].owner /\ rs[t].leader)
      BY <1>2, <1>4, <2>2 DEF ActiveRows
    <3>. QED
      BY <1>6, <3>1 DEF LeadersDistinct
  <2>. QED
    BY <2>1, <2>2 DEF LeadersDistinct
<1>. QED
  BY <1>5, <1>6

\* Handing the choice back moves flags only, and leaves at most one leader.
LEMMA UnmarkedRows ==
    ASSUME NEW rs \in Seq(Row), NEW r \in DOMAIN rs
    PROVE  LET f == UnmarkLeader(rs, r)
           IN  /\ SameHolders(rs, f)
               /\ LeadersDistinct(rs) => LeadersDistinct(f)
<1>. DEFINE h == [rs EXCEPT ![r].leader = FALSE]
<1>1. \A s \in DOMAIN rs : rs[s] \in Row
  BY ElementOfSeq, LenProperties
<1>2. \A s \in DOMAIN rs :
          /\ h[s] \in Row
          /\ h[s].owner = rs[s].owner /\ h[s].res = rs[s].res
          /\ h[s].active = rs[s].active
          /\ h[s].leader = IF s = r THEN FALSE ELSE rs[s].leader
  BY <1>1 DEF Row
<1>3. h = [s \in DOMAIN rs |-> h[s]]
  OBVIOUS
<1>4. h \in Seq(Row) /\ Len(h) = Len(rs) /\ DOMAIN h = DOMAIN rs
  BY <1>2, <1>3, RewrittenRows
<1>5. LeadersDistinct(rs) => LeadersDistinct(h)
  BY <1>2, <1>4 DEF LeadersDistinct
<1>6. /\ SameHolders(h, UnmarkLeader(rs, r))
      /\ LeadersDistinct(h) => LeadersDistinct(UnmarkLeader(rs, r))
  BY <1>4, SyncedRows DEF UnmarkLeader
<1>7. SameHolders(rs, UnmarkLeader(rs, r))
  BY <1>2, <1>4, <1>6 DEF SameHolders
<1>. QED
  BY <1>5, <1>6, <1>7

-----------------------------------------------------------------------------
(* The inductive invariant. The five invariants are inductive together and  *)
(* not one by one: that an undo finds no duplicate on its own card needs    *)
(* the record to list rows that are distinct and still released, that those *)
(* stay so needs nobody to join a closed card whose undo is pending.        *)

\* Nobody is assigned to a card before it exists. A card may be created
\* complete: it closes then with nobody to send home.
RowsOfCreatedCards ==
    \A r \in DOMAIN rows : rows[r].owner \in Cards => place[rows[r].owner] # "absent"

IInv ==
    /\ TypeOK
    /\ OneActiveRowPerResource
    /\ OneLeader
    /\ UndoRecordSound
    /\ NoCrewWhileUndoPending
    /\ RowsOfCreatedCards

LEMMA RowInvariants ==
    /\ OneActiveRowPerResource <=> ActiveDistinct(rows)
    /\ OneLeader <=> LeadersDistinct(rows)
BY DEF OneActiveRowPerResource, OneLeader, ActiveDistinct, LeadersDistinct

LEMMA RowInvariantsNext ==
    /\ OneActiveRowPerResource' <=> ActiveDistinct(rows')
    /\ OneLeader' <=> LeadersDistinct(rows')
BY DEF OneActiveRowPerResource, OneLeader, ActiveDistinct, LeadersDistinct

\* Flags do not matter to who holds what.
LEMMA HoldersKept ==
    ASSUME NEW rs, NEW f, SameHolders(rs, f), ActiveDistinct(rs)
    PROVE  ActiveDistinct(f)
BY DEF SameHolders, ActiveDistinct

\* A step that leaves the undo records alone, re-activates no row, and puts no
\* crew onto a card whose undo is pending keeps the records sound.
LEMMA RecordsKept ==
    ASSUME TypeOK, UndoRecordSound, NoCrewWhileUndoPending,
           rows' \in Seq(Row), released' = released,
           \A c \in Cards : released[c].rows # {} =>
                status'[c] = "complete" /\ place'[c] # "absent",
           DOMAIN rows \subseteq DOMAIN rows',
           \A r \in DOMAIN rows :
                /\ rows'[r].owner = rows[r].owner /\ rows'[r].res = rows[r].res
                /\ rows'[r].active => rows[r].active,
           \A r \in DOMAIN rows' \ DOMAIN rows :
                rows'[r].owner \in Cards /\ released[rows'[r].owner].rows # {}
                    => rows'[r].res \in Materials
    PROVE  UndoRecordSound' /\ NoCrewWhileUndoPending'
<1>1. UndoRecordSound'
  BY DEF UndoRecordSound
<1>2. NoCrewWhileUndoPending'
  <2> SUFFICES ASSUME NEW c \in Cards, released[c].rows # {}, NEW r \in Crew(rows', c)
               PROVE  FALSE
    BY DEF NoCrewWhileUndoPending
  <2>1. r \in DOMAIN rows' /\ rows'[r].owner = c /\ rows'[r].active /\ rows'[r].res \notin Materials
    BY DEF Crew, ActiveRows
  <2>2. CASE r \in DOMAIN rows
    <3>1. r \in Crew(rows, c)
      BY <2>1, <2>2 DEF Crew, ActiveRows
    <3>. QED
      BY <3>1 DEF NoCrewWhileUndoPending
  <2>3. CASE r \notin DOMAIN rows
    BY <2>1, <2>3
  <2>. QED
    BY <2>2, <2>3
<1>. QED
  BY <1>1, <1>2

-----------------------------------------------------------------------------
(* Steps that write no assignment row. *)

BoardOnly ==
    \/ \E c \in Cards : \/ \E g \in Groups \cup {None}, st \in {"open", "complete"} :
                              CreateIncident(c, g, st)
                        \/ \E g \in Groups \cup {None} : PatchGroup(c, g)
                        \/ DeleteIncident(c)
                        \/ RestoreIncident(c)
                        \/ RemoveStop(c)
    \/ \E g \in Groups : CreateGroup(g) \/ \E c \in Cards : AddStop(g, c)
    \/ RekoStep

LEMMA BoardOnlyStep == IInv /\ BoardOnly => IInv'
<1> SUFFICES ASSUME IInv, BoardOnly PROVE IInv'
  OBVIOUS
<1>. USE DEF IInv
<1>1. rows' = rows /\ released' = released
  BY DEF BoardOnly, CreateIncident, PatchGroup, DeleteIncident, RestoreIncident,
         RemoveStop, CreateGroup, AddStop, RekoStep, GrantReko, RevokeReko
<1>2. ASSUME NEW d \in Cards, released[d].rows # {}
      PROVE  status'[d] = "complete" /\ place'[d] # "absent"
  <2>0. status[d] = "complete" /\ place[d] # "absent"
    BY <1>2 DEF UndoRecordSound
  <2>. USE <2>0 DEF TypeOK
  <2>1. ASSUME NEW c \in Cards, NEW g \in Groups \cup {None}, NEW st \in {"open", "complete"},
               CreateIncident(c, g, st)
        PROVE  status'[d] = "complete" /\ place'[d] # "absent"
    BY <2>1 DEF CreateIncident
  <2>2. ASSUME NEW c \in Cards, DeleteIncident(c) \/ RestoreIncident(c)
        PROVE  status'[d] = "complete" /\ place'[d] # "absent"
    BY <2>2 DEF DeleteIncident, RestoreIncident
  <2>3. ASSUME status' = status, place' = place
        PROVE  status'[d] = "complete" /\ place'[d] # "absent"
    BY <2>3
  <2>. QED
    BY <2>1, <2>2, <2>3 DEF BoardOnly, PatchGroup, RemoveStop, CreateGroup, AddStop,
       RekoStep, GrantReko, RevokeReko, cardVars
<1>3. TypeOK'
  <2>. USE DEF TypeOK
  <2>1. ASSUME NEW c \in Cards, NEW g \in Groups \cup {None}, NEW st \in {"open", "complete"},
               CreateIncident(c, g, st)
        PROVE  TypeOK'
    BY <2>1 DEF CreateIncident
  <2>2. ASSUME NEW c \in Cards, NEW g \in Groups \cup {None}, PatchGroup(c, g) PROVE TypeOK'
    BY <2>2 DEF PatchGroup
  <2>3. ASSUME NEW c \in Cards, DeleteIncident(c) PROVE TypeOK'
    BY <2>3 DEF DeleteIncident
  <2>4. ASSUME NEW c \in Cards, RestoreIncident(c) PROVE TypeOK'
    BY <2>4 DEF RestoreIncident
  <2>5. ASSUME NEW c \in Cards, RemoveStop(c) PROVE TypeOK'
    BY <2>5 DEF RemoveStop
  <2>6. ASSUME NEW g \in Groups, CreateGroup(g) PROVE TypeOK'
    BY <2>6 DEF CreateGroup, cardVars
  <2>7. ASSUME NEW g \in Groups, NEW c \in Cards, AddStop(g, c) PROVE TypeOK'
    BY <2>7 DEF AddStop
  <2>8. ASSUME RekoStep PROVE TypeOK'
    BY <2>8, Bounds DEF RekoStep, GrantReko, RevokeReko, cardVars
  <2>. QED
    BY <2>1, <2>2, <2>3, <2>4, <2>5, <2>6, <2>7, <2>8 DEF BoardOnly
<1>4. OneActiveRowPerResource' /\ OneLeader'
  BY <1>1 DEF OneActiveRowPerResource, OneLeader
<1>5. UndoRecordSound' /\ NoCrewWhileUndoPending'
  BY <1>1, <1>2, RecordsKept DEF TypeOK
<1>6. ASSUME NEW d \in Cards, place[d] # "absent" PROVE place'[d] # "absent"
  <2>. USE <1>6 DEF TypeOK
  <2>1. ASSUME NEW c \in Cards, NEW g \in Groups \cup {None}, NEW st \in {"open", "complete"},
               CreateIncident(c, g, st)
        PROVE  place'[d] # "absent"
    BY <2>1 DEF CreateIncident
  <2>2. ASSUME NEW c \in Cards, DeleteIncident(c) \/ RestoreIncident(c)
        PROVE  place'[d] # "absent"
    BY <2>2 DEF DeleteIncident, RestoreIncident
  <2>3. ASSUME place' = place PROVE place'[d] # "absent"
    BY <2>3
  <2>. QED
    BY <2>1, <2>2, <2>3 DEF BoardOnly, PatchGroup, RemoveStop, CreateGroup, AddStop,
       RekoStep, GrantReko, RevokeReko, cardVars
<1>7. RowsOfCreatedCards'
  BY <1>1, <1>6 DEF RowsOfCreatedCards
<1>. QED
  BY <1>3, <1>4, <1>5, <1>7

-----------------------------------------------------------------------------
(* Steps that assign, release or pick on one card or Auftrag. *)

RowsSound(rs) == rs \in Seq(Row) /\ ActiveDistinct(rs) /\ LeadersDistinct(rs)

\* Releasing rows breaks neither uniqueness.
LEMMA ReleaseSound ==
    ASSUME NEW rs, RowsSound(rs), NEW S
    PROVE  RowsSound(Release(rs, S)) /\ RowsSound(ReleaseSquad(rs, S))
<1>1. rs \in Seq(Row)
  BY DEF RowsSound
<1>2. RowsSound(Release(rs, S))
  BY <1>1, ReleasedRows DEF RowsSound, ActiveDistinct, LeadersDistinct
<1>3. RowsSound(ReleaseSquad(rs, S))
  BY <1>1, ReleasedSquadRows DEF RowsSound, ActiveDistinct, LeadersDistinct
<1>. QED
  BY <1>2, <1>3

\* Nor does adding a row for a resource the owner does not hold.
LEMMA AddSound ==
    ASSUME NEW rs, RowsSound(rs), NEW o \in Owners, NEW res \in Resources,
           ~Holds(rs, o, res)
    PROVE  RowsSound(Append(rs, NewRow(o, res)))
<1>. DEFINE f == Append(rs, NewRow(o, res))
            n == Len(rs) + 1
<1>1. rs \in Seq(Row)
  BY DEF RowsSound
<1>2. /\ f \in Seq(Row)
      /\ DOMAIN f = DOMAIN rs \cup {n}
      /\ n \notin DOMAIN rs
      /\ \A r \in DOMAIN rs : f[r] = rs[r]
      /\ f[n] = NewRow(o, res)
  BY <1>1, AppendedRow
<1>. HIDE DEF f, n
<1>3. f[n].owner = o /\ f[n].res = res /\ f[n].leader = FALSE
  BY <1>2 DEF NewRow
<1>4. \A r \in DOMAIN rs : ~(rs[r].active /\ rs[r].owner = o /\ rs[r].res = res)
  BY DEF Holds, ActiveRows
<1>5. ActiveDistinct(f)
  BY <1>2, <1>3, <1>4 DEF ActiveDistinct, RowsSound
<1>6. LeadersDistinct(f)
  BY <1>2, <1>3 DEF LeadersDistinct, RowsSound
<1>. QED
  BY <1>2, <1>5, <1>6 DEF RowsSound, f

\* Nor does the sync after either.
LEMMA SyncSound ==
    ASSUME NEW rs, RowsSound(rs), NEW o, NEW manual \in BOOLEAN
    PROVE  /\ SameHolders(rs, SyncAutoLeader(rs, o, manual))
           /\ RowsSound(SyncAutoLeader(rs, o, manual))
<1>1. rs \in Seq(Row) /\ ActiveDistinct(rs) /\ LeadersDistinct(rs)
  BY DEF RowsSound
<1>2. /\ SameHolders(rs, SyncAutoLeader(rs, o, manual))
      /\ LeadersDistinct(SyncAutoLeader(rs, o, manual))
  BY <1>1, SyncedRows
<1>. QED
  BY <1>1, <1>2, HoldersKept DEF RowsSound, SameHolders

LEMMA ChangeSound ==
    ASSUME NEW rs, RowsSound(rs), NEW o \in Owners, NEW res, TypeOK
    PROVE  /\ SameHolders(rs, RowsAfterChange(rs, o, res))
           /\ RowsSound(RowsAfterChange(rs, o, res))
<1>1. CASE res \in Personnel
  <2>1. leaderManual[o] \in BOOLEAN
    BY DEF TypeOK
  <2>. QED
    BY <1>1, <2>1, SyncSound DEF RowsAfterChange
<1>2. CASE res \notin Personnel
  BY <1>2 DEF RowsAfterChange, SameHolders, RowsSound
<1>. QED
  BY <1>1, <1>2

\* The leader of record stays a person or nobody.
LEMMA StampType ==
    ASSUME TypeOK, NEW rs \in Seq(Row), NEW c \in Cards, NEW manual, NEW res
    PROVE  /\ StampLeader(rs, c, manual) \in [Cards -> Personnel \cup {None}]
           /\ RecordAfterChange(rs, c, res) \in [Cards -> Personnel \cup {None}]
<1>1. leaderRecord \in [Cards -> Personnel \cup {None}]
  BY DEF TypeOK
<1>2. ASSUME NEW m
      PROVE  StampLeader(rs, c, m) \in [Cards -> Personnel \cup {None}]
  <2>. DEFINE winner == MostSenior(rs, Candidates(rs, c))
              w == CHOOSE r \in winner : TRUE
  <2>1. CASE m \/ winner = {}
    BY <1>1, <2>1 DEF StampLeader
  <2>2. CASE ~m /\ winner # {}
    <3>1. w \in winner
      BY <2>2
    <3>2. rs[w].res \in Personnel
      BY <3>1 DEF MostSenior, Candidates, People
    <3>3. StampLeader(rs, c, m) = [leaderRecord EXCEPT ![c] = rs[w].res]
      BY <2>2 DEF StampLeader
    <3>. QED
      BY <1>1, <3>2, <3>3
  <2>. QED
    BY <2>1, <2>2
<1>. QED
  BY <1>1, <1>2 DEF RecordAfterChange

\* What every step of this section has in common.
CrewStep ==
    /\ UNCHANGED <<place, status, completedAt, released, reko>>
    /\ group' \in [Cards -> Groups \cup {None}]
    /\ RowsSound(rows')
    /\ DOMAIN rows \subseteq DOMAIN rows'
    /\ \A r \in DOMAIN rows :
          /\ rows'[r].owner = rows[r].owner /\ rows'[r].res = rows[r].res
          /\ rows'[r].active => rows[r].active
    /\ \A r \in DOMAIN rows' \ DOMAIN rows :
          rows'[r].owner \in Cards =>
              /\ place[rows'[r].owner] # "absent"
              /\ status[rows'[r].owner] = "complete" => rows'[r].res \in Materials
    /\ groupState' \in [Groups -> {"absent", "live", "deleted"}]
    /\ leaderManual' \in [Owners -> BOOLEAN]
    /\ leaderRecord' \in [Cards -> Personnel \cup {None}]

LEMMA CrewStepKeeps == IInv /\ CrewStep => IInv'
<1> SUFFICES ASSUME IInv, CrewStep PROVE IInv'
  OBVIOUS
<1>. USE DEF IInv
<1>1. TypeOK'
  BY DEF TypeOK, CrewStep, RowsSound, cardVars
<1>2. OneActiveRowPerResource' /\ OneLeader'
  BY RowInvariantsNext DEF CrewStep, RowsSound
<1>3. \A c \in Cards : released[c].rows # {} => status[c] = "complete" /\ place[c] # "absent"
  BY DEF UndoRecordSound
<1>4. status' = status /\ place' = place /\ released' = released
  BY DEF CrewStep, cardVars
<1>5. UndoRecordSound' /\ NoCrewWhileUndoPending'
  BY <1>3, <1>4, RecordsKept DEF CrewStep, RowsSound
<1>6. RowsOfCreatedCards'
  BY <1>4 DEF RowsOfCreatedCards, CrewStep
<1>. QED
  BY <1>1, <1>2, <1>5, <1>6

LEMMA AddRowStep ==
    ASSUME IInv, NEW o \in Owners, NEW res \in Resources, ~Holds(rows, o, res),
           rows' = RowsAfterChange(Append(rows, NewRow(o, res)), o, res),
           o \in Cards => place[o] # "absent" /\ (status[o] = "complete" => res \in Materials)
    PROVE  /\ RowsSound(rows')
           /\ DOMAIN rows \subseteq DOMAIN rows'
           /\ \A r \in DOMAIN rows :
                 /\ rows'[r].owner = rows[r].owner /\ rows'[r].res = rows[r].res
                 /\ rows'[r].active => rows[r].active
           /\ \A r \in DOMAIN rows' \ DOMAIN rows :
                 rows'[r].owner \in Cards =>
                     /\ place[rows'[r].owner] # "absent"
                     /\ status[rows'[r].owner] = "complete" => rows'[r].res \in Materials
<1>. DEFINE f == Append(rows, NewRow(o, res))
            n == Len(rows) + 1
<1>1. RowsSound(rows) /\ rows \in Seq(Row)
  BY RowInvariants DEF IInv, TypeOK, RowsSound
<1>2. /\ f \in Seq(Row)
      /\ DOMAIN f = DOMAIN rows \cup {n}
      /\ \A r \in DOMAIN rows : f[r] = rows[r]
      /\ f[n] = NewRow(o, res)
  BY <1>1, AppendedRow
<1>3. RowsSound(f)
  BY <1>1, AddSound
<1>. HIDE DEF f, n
<1>4. SameHolders(f, rows') /\ RowsSound(rows')
  BY <1>3, ChangeSound DEF IInv, f
<1>5. f[n].owner = o /\ f[n].res = res
  BY <1>2 DEF NewRow
<1>. QED
  BY <1>2, <1>4, <1>5 DEF SameHolders

LEMMA ReleaseRowStep ==
    ASSUME IInv, NEW r \in DOMAIN rows, NEW res,
           rows' = RowsAfterChange(Release(rows, {r}), rows[r].owner, res)
    PROVE  /\ RowsSound(rows')
           /\ DOMAIN rows = DOMAIN rows'
           /\ \A s \in DOMAIN rows :
                 /\ rows'[s].owner = rows[s].owner /\ rows'[s].res = rows[s].res
                 /\ rows'[s].active => rows[s].active
<1>. DEFINE f == Release(rows, {r})
<1>1. RowsSound(rows) /\ rows \in Seq(Row)
  BY RowInvariants DEF IInv, TypeOK, RowsSound
<1>2. rows[r] \in Row
  BY <1>1, ElementOfSeq, LenProperties
<1>3. rows[r].owner \in Owners
  BY <1>2 DEF Row
<1>4. RowsSound(f)
  BY <1>1, ReleaseSound
<1>5. DOMAIN f = DOMAIN rows
      /\ \A s \in DOMAIN rows : f[s].owner = rows[s].owner /\ f[s].res = rows[s].res
                               /\ (f[s].active => rows[s].active)
  BY <1>1, ReleasedRows
<1>. HIDE DEF f
<1>6. SameHolders(f, rows') /\ RowsSound(rows')
  BY <1>3, <1>4, ChangeSound DEF IInv, f
<1>. QED
  BY <1>5, <1>6 DEF SameHolders

\* A flag-only step.
LEMMA FlagStep ==
    ASSUME IInv, SameHolders(rows, rows'), LeadersDistinct(rows) => LeadersDistinct(rows')
    PROVE  /\ RowsSound(rows')
           /\ DOMAIN rows = DOMAIN rows'
           /\ \A s \in DOMAIN rows :
                 /\ rows'[s].owner = rows[s].owner /\ rows'[s].res = rows[s].res
                 /\ rows'[s].active => rows[s].active
BY RowInvariants, HoldersKept DEF IInv, SameHolders, RowsSound

CrewActions ==
    \/ \E c \in Cards, res \in Resources : AssignResource(c, res)
    \/ \E g \in Groups, res \in Resources : AssignGroupResource(g, res)
    \/ \E g \in Groups : SoftDeleteGroup(g)
    \/ RowStep

LEMMA CrewActionsAreCrewSteps == IInv /\ CrewActions => CrewStep
<1> SUFFICES ASSUME IInv, CrewActions PROVE CrewStep
  OBVIOUS
<1>0. TypeOK /\ rows \in Seq(Row) /\ RowsSound(rows)
  BY RowInvariants DEF IInv, TypeOK, RowsSound
<1>1. ASSUME NEW c \in Cards, NEW res \in Resources, AssignResource(c, res)
      PROVE  CrewStep
  <2>1. c \in Owners /\ ~Holds(rows, c, res) /\ place[c] # "absent"
        /\ (status[c] = "complete" => res \in Materials)
        /\ rows' = RowsAfterChange(Append(rows, NewRow(c, res)), c, res)
    BY <1>1 DEF AssignResource, Owners
  <2>2. Append(rows, NewRow(c, res)) \in Seq(Row)
    BY <1>0, <2>1, AppendedRow
  <2>3. leaderRecord' \in [Cards -> Personnel \cup {None}]
    BY <1>0, <1>1, <2>2, StampType DEF AssignResource
  <2>4. UNCHANGED <<cardVars, groupState, released, leaderManual, reko>>
    BY <1>1 DEF AssignResource
  <2>. QED
    BY <1>0, <2>1, <2>3, <2>4, AddRowStep DEF CrewStep, TypeOK, cardVars
<1>2. ASSUME NEW g \in Groups, NEW res \in Resources, AssignGroupResource(g, res)
      PROVE  CrewStep
  <2>1. g \in Owners /\ g \notin Cards /\ ~Holds(rows, g, res)
        /\ rows' = RowsAfterChange(Append(rows, NewRow(g, res)), g, res)
    BY <1>2, KindsAreDisjoint DEF AssignGroupResource, Owners
  <2>2. UNCHANGED <<cardVars, groupState, released, leaderManual, leaderRecord, reko>>
    BY <1>2 DEF AssignGroupResource
  <2>. QED
    BY <1>0, <2>1, <2>2, AddRowStep DEF CrewStep, TypeOK, cardVars
<1>3. ASSUME NEW g \in Groups, SoftDeleteGroup(g)
      PROVE  CrewStep
  <2>1. rows' = ReleaseSquad(rows, ActiveRows(rows, g))
    BY <1>3 DEF SoftDeleteGroup
  <2>2. RowsSound(rows')
    BY <1>0, <2>1, ReleaseSound
  <2>3. DOMAIN rows' = DOMAIN rows
        /\ \A r \in DOMAIN rows :
              /\ rows'[r].owner = rows[r].owner /\ rows'[r].res = rows[r].res
              /\ rows'[r].active => rows[r].active
    BY <1>0, <2>1, ReleasedSquadRows
  <2>4. /\ groupState' \in [Groups -> {"absent", "live", "deleted"}]
        /\ group' \in [Cards -> Groups \cup {None}]
        /\ UNCHANGED <<place, status, completedAt, released, leaderManual, leaderRecord, reko>>
    BY <1>0, <1>3 DEF SoftDeleteGroup, TypeOK
  <2>. QED
    BY <1>0, <2>2, <2>3, <2>4 DEF CrewStep, TypeOK
<1>4. ASSUME NEW r \in DOMAIN rows, UnassignResource(r) \/ UnassignGroupResource(r)
      PROVE  CrewStep
  <2>1. rows' = RowsAfterChange(Release(rows, {r}), rows[r].owner, rows[r].res)
    BY <1>4 DEF UnassignResource, UnassignGroupResource
  <2>2. Release(rows, {r}) \in Seq(Row)
    BY <1>0, ReleasedRows
  <2>3. leaderRecord' \in [Cards -> Personnel \cup {None}]
    <3>1. CASE UnassignResource(r)
      <4>1. /\ rows[r].owner \in Cards
            /\ leaderRecord' = RecordAfterChange(Release(rows, {r}), rows[r].owner, rows[r].res)
        BY <3>1 DEF UnassignResource
      <4>. QED
        BY <1>0, <2>2, <4>1, StampType
    <3>2. CASE UnassignGroupResource(r)
      BY <1>0, <3>2 DEF UnassignGroupResource, TypeOK
    <3>. QED
      BY <1>4, <3>1, <3>2
  <2>4. UNCHANGED <<cardVars, groupState, released, leaderManual, reko>>
    BY <1>4 DEF UnassignResource, UnassignGroupResource
  <2>5. /\ RowsSound(rows')
        /\ DOMAIN rows = DOMAIN rows'
        /\ \A s \in DOMAIN rows :
              /\ rows'[s].owner = rows[s].owner /\ rows'[s].res = rows[s].res
              /\ rows'[s].active => rows[s].active
    BY <2>1, ReleaseRowStep
  <2>. QED
    BY <1>0, <2>3, <2>4, <2>5 DEF CrewStep, TypeOK, cardVars
<1>5. ASSUME NEW r \in DOMAIN rows,
             PinLeader(r) \/ UnpinLeader(r) \/ PinGroupLeader(r) \/ UnpinGroupLeader(r)
      PROVE  CrewStep
  <2>1. rows[r].res \in Personnel /\ (rows' = MarkLeader(rows, r) \/ rows' = UnmarkLeader(rows, r))
    BY <1>5 DEF PinLeader, UnpinLeader, PinGroupLeader, UnpinGroupLeader
  <2>2. SameHolders(rows, rows') /\ (LeadersDistinct(rows) => LeadersDistinct(rows'))
    BY <1>0, <2>1, MarkedRows, UnmarkedRows
  <2>3. /\ UNCHANGED <<cardVars, groupState, released, reko>>
        /\ leaderManual' \in [Owners -> BOOLEAN]
    BY <1>0, <1>5 DEF PinLeader, UnpinLeader, PinGroupLeader, UnpinGroupLeader, TypeOK
  <2>4. leaderRecord' \in [Cards -> Personnel \cup {None}]
    <3>1. CASE PinLeader(r)
      BY <1>0, <3>1 DEF PinLeader, TypeOK
    <3>2. CASE UnpinLeader(r)
      BY <1>0, <3>2, StampType DEF UnpinLeader
    <3>3. CASE PinGroupLeader(r) \/ UnpinGroupLeader(r)
      BY <1>0, <3>3 DEF PinGroupLeader, UnpinGroupLeader, TypeOK
    <3>. QED
      BY <1>5, <3>1, <3>2, <3>3
  <2>5. /\ RowsSound(rows')
        /\ DOMAIN rows = DOMAIN rows'
        /\ \A s \in DOMAIN rows :
              /\ rows'[s].owner = rows[s].owner /\ rows'[s].res = rows[s].res
              /\ rows'[s].active => rows[s].active
    BY <2>2, FlagStep
  <2>. QED
    BY <1>0, <2>3, <2>4, <2>5 DEF CrewStep, TypeOK, cardVars
<1>. QED
  BY <1>1, <1>2, <1>3, <1>4, <1>5 DEF CrewActions, RowStep

-----------------------------------------------------------------------------
(* The transfer of a crew. *)

\* The rows between the inserts and the two syncs: the crew taken along is
\* released on c and stands on d in new rows, nobody else is touched.
LEMMA TransferredRows ==
    ASSUME IInv, NEW c \in Cards, NEW d \in Cards, TransferAssignments(c, d)
    PROVE  \E added :
              LET left == SyncAutoLeader(added, c, leaderManual[c])
              IN  /\ RowsSound(added)
                  /\ rows' = SyncAutoLeader(left, d, leaderManual[d])
                  /\ leaderRecord' =
                        [leaderRecord EXCEPT
                            ![c] = StampLeader(added, c, leaderManual[c])[c],
                            ![d] = StampLeader(left, d, leaderManual[d])[d]]
                  /\ DOMAIN rows \subseteq DOMAIN added
                  /\ \A r \in DOMAIN rows :
                        /\ added[r].owner = rows[r].owner /\ added[r].res = rows[r].res
                        /\ added[r].active => rows[r].active
                        /\ rows[r].active /\ rows[r].owner # c => added[r].active
                  /\ \A r \in DOMAIN added \ DOMAIN rows :
                        /\ added[r].owner = d
                        /\ status[d] = "complete" => added[r].res \in Materials
<1>. DEFINE moved == Transferable(c)
            gone  == Release(rows, moved)
            m     == Cardinality(moved)
            n     == Len(rows)
<1>0. TypeOK /\ rows \in Seq(Row) /\ RowsSound(rows)
  BY RowInvariants DEF IInv, TypeOK, RowsSound
<1>1. DOMAIN rows = 1..n /\ n \in Nat
  BY <1>0, LenProperties
<1>2. /\ moved \subseteq DOMAIN rows
      /\ \A r \in moved : rows[r].owner = c /\ rows[r].active
  BY DEF Transferable, ActiveRows
<1>3. m \in Nat
  <2>1. IsFiniteSet(1..n)
    BY <1>1, FS_Interval
  <2>2. IsFiniteSet(moved)
    BY <1>1, <1>2, <2>1, FS_Subset
  <2>. QED
    BY <2>2, FS_CardinalityType DEF m
<1>4. /\ \A r \in moved : ~Holds(rows, d, rows[r].res)
      /\ \A r \in moved : status[d] = "complete" => rows[r].res \in Materials
  BY DEF TransferAssignments
<1>. HIDE DEF m
<1>5. PICK order \in Orders(moved) :
          LET added == [r \in 1..(n + m) |->
                          IF r <= n THEN gone[r] ELSE NewRow(d, rows[order[r - n]].res)]
              left  == SyncAutoLeader(added, c, leaderManual[c])
          IN  /\ rows' = SyncAutoLeader(left, d, leaderManual[d])
              /\ leaderRecord' =
                    [leaderRecord EXCEPT
                        ![c] = StampLeader(added, c, leaderManual[c])[c],
                        ![d] = StampLeader(left, d, leaderManual[d])[d]]
  BY DEF TransferAssignments, m
<1>. DEFINE added == [r \in 1..(n + m) |->
                        IF r <= n THEN gone[r] ELSE NewRow(d, rows[order[r - n]].res)]
            left  == SyncAutoLeader(added, c, leaderManual[c])
<1>6. /\ order \in [1..m -> moved]
      /\ \A i, j \in 1..m : order[i] = order[j] => i = j
  BY DEF Orders, m
<1>7. /\ gone \in Seq(Row) /\ DOMAIN gone = DOMAIN rows
      /\ \A r \in DOMAIN rows :
            /\ gone[r].owner = rows[r].owner /\ gone[r].res = rows[r].res
            /\ gone[r].active <=> rows[r].active /\ r \notin moved
            /\ gone[r].leader <=> rows[r].leader /\ r \notin moved
  BY <1>0, ReleasedRows
<1>8. \A r \in DOMAIN rows : rows[r] \in Row /\ gone[r] \in Row
  BY <1>0, <1>7, ElementOfSeq, LenProperties
<1>. HIDE DEF gone, moved
<1>9. ASSUME NEW r \in 1..(n + m), r > n
      PROVE  /\ r - n \in 1..m /\ order[r - n] \in moved
             /\ added[r] = NewRow(d, rows[order[r - n]].res)
             /\ added[r] \in Row
             /\ added[r].owner = d /\ added[r].res = rows[order[r - n]].res
             /\ added[r].leader = FALSE
  <2>1. r - n \in 1..m
    BY <1>1, <1>3, <1>9
  <2>2. order[r - n] \in moved
    BY <1>6, <2>1
  <2>3. added[r] = NewRow(d, rows[order[r - n]].res)
    BY <1>1, <1>3, <1>9
  <2>4. rows[order[r - n]].res \in Resources
    BY <1>2, <1>8, <2>2 DEF Row
  <2>. QED
    BY <2>1, <2>2, <2>3, <2>4 DEF NewRow, Row, Owners
<1>10. \A r \in DOMAIN rows : r \in 1..(n + m) /\ r <= n /\ added[r] = gone[r]
  BY <1>1, <1>3
<1>11. added \in Seq(Row) /\ DOMAIN added = 1..(n + m)
  <2>1. ASSUME NEW r \in 1..(n + m) PROVE added[r] \in Row
    <3>1. CASE r <= n
      <4>1. r \in DOMAIN rows
        BY <1>1, <1>3, <3>1
      <4>. QED
        BY <1>8, <1>10, <4>1
    <3>2. CASE r > n
      BY <1>9, <3>2
    <3>. QED
      BY <1>1, <1>3, <3>1, <3>2
  <2>2. added \in [1..(n + m) -> Row] /\ n + m \in Nat
    BY <1>1, <1>3, <2>1
  <2>. QED
    BY <2>2, SeqDef
<1>. HIDE DEF added
<1>12. \A r \in 1..(n + m) : r \in DOMAIN rows \/ r > n
  BY <1>1, <1>3
<1>a. ASSUME NEW r \in DOMAIN rows
      PROVE  /\ added[r].owner = rows[r].owner /\ added[r].res = rows[r].res
             /\ added[r].active => rows[r].active
             /\ rows[r].active /\ rows[r].owner # c => added[r].active
  BY <1>2, <1>7, <1>10
<1>13. ActiveDistinct(added)
  <2> SUFFICES ASSUME NEW r \in 1..(n + m), NEW s \in 1..(n + m),
                      added[r].active, added[s].active,
                      added[r].owner = added[s].owner, added[r].res = added[s].res
               PROVE  r = s
    BY <1>11 DEF ActiveDistinct
  <2>1. ASSUME NEW i \in DOMAIN rows, NEW j \in 1..(n + m), j > n,
               added[i].active, added[i].owner = added[j].owner, added[i].res = added[j].res
        PROVE  FALSE
    <3>0. /\ added[j].owner = d /\ added[j].res = rows[order[j - n]].res
          /\ order[j - n] \in moved
      BY <1>9, <2>1
    <3>1. rows[i].active /\ rows[i].owner = d /\ rows[i].res = rows[order[j - n]].res
          /\ order[j - n] \in moved
      BY <1>a, <2>1, <3>0
    <3>. QED
      BY <1>4, <3>1 DEF Holds, ActiveRows
  <2>2. CASE r \in DOMAIN rows /\ s \in DOMAIN rows
    BY <1>0, <1>7, <1>10, <2>2 DEF RowsSound, ActiveDistinct
  <2>3. CASE r > n /\ s > n
    <3>1. /\ order[r - n] \in moved /\ order[s - n] \in moved
          /\ rows[order[r - n]].res = rows[order[s - n]].res
          /\ r - n \in 1..m /\ s - n \in 1..m
      BY <1>9, <2>3
    <3>2. order[r - n] = order[s - n]
      BY <1>0, <1>2, <3>1 DEF RowsSound, ActiveDistinct, moved
    <3>3. r - n = s - n
      BY <1>6, <3>1, <3>2
    <3>. QED
      BY <1>1, <1>3, <3>3
  <2>. QED
    BY <1>12, <2>1, <2>2, <2>3
<1>14. LeadersDistinct(added)
  <2>1. \A r \in 1..(n + m) : added[r].leader => r \in DOMAIN rows
    BY <1>9, <1>12
  <2>. QED
    BY <1>0, <1>7, <1>10, <1>11, <2>1 DEF RowsSound, LeadersDistinct
<1>15. RowsSound(added)
  BY <1>11, <1>13, <1>14 DEF RowsSound
<1>16. \A r \in DOMAIN added \ DOMAIN rows :
          added[r].owner = d /\ (status[d] = "complete" => added[r].res \in Materials)
  BY <1>4, <1>9, <1>11, <1>12
<1>17. DOMAIN rows \subseteq DOMAIN added
  BY <1>10, <1>11
<1>18. /\ rows' = SyncAutoLeader(left, d, leaderManual[d])
       /\ leaderRecord' =
            [leaderRecord EXCEPT
                ![c] = StampLeader(added, c, leaderManual[c])[c],
                ![d] = StampLeader(left, d, leaderManual[d])[d]]
  BY <1>5 DEF added, gone
<1>. QED
  BY <1>a, <1>15, <1>16, <1>17, <1>18

LEMMA TransferIsCrewStep ==
    ASSUME IInv, NEW c \in Cards, NEW d \in Cards, TransferAssignments(c, d)
    PROVE  CrewStep
<1>0. TypeOK
  BY DEF IInv
<1>1. /\ c # d /\ place[d] # "absent"
      /\ UNCHANGED <<cardVars, groupState, released, leaderManual, reko>>
  BY DEF TransferAssignments
<1>2. PICK added :
        LET left == SyncAutoLeader(added, c, leaderManual[c])
        IN  /\ RowsSound(added)
            /\ rows' = SyncAutoLeader(left, d, leaderManual[d])
            /\ leaderRecord' =
                  [leaderRecord EXCEPT
                      ![c] = StampLeader(added, c, leaderManual[c])[c],
                      ![d] = StampLeader(left, d, leaderManual[d])[d]]
            /\ DOMAIN rows \subseteq DOMAIN added
            /\ \A r \in DOMAIN rows :
                  /\ added[r].owner = rows[r].owner /\ added[r].res = rows[r].res
                  /\ added[r].active => rows[r].active
            /\ \A r \in DOMAIN added \ DOMAIN rows :
                  /\ added[r].owner = d
                  /\ status[d] = "complete" => added[r].res \in Materials
  BY TransferredRows
<1>. DEFINE left == SyncAutoLeader(added, c, leaderManual[c])
<1>3. leaderManual[c] \in BOOLEAN /\ leaderManual[d] \in BOOLEAN
  BY <1>0 DEF TypeOK, Owners
<1>4. SameHolders(added, left) /\ RowsSound(left)
  BY <1>2, <1>3, SyncSound
<1>5. SameHolders(left, rows') /\ RowsSound(rows')
  BY <1>2, <1>3, <1>4, SyncSound
<1>6. leaderRecord' \in [Cards -> Personnel \cup {None}]
  <2>1. /\ StampLeader(added, c, leaderManual[c]) \in [Cards -> Personnel \cup {None}]
        /\ StampLeader(left, d, leaderManual[d]) \in [Cards -> Personnel \cup {None}]
    BY <1>0, <1>2, <1>4, StampType DEF RowsSound
  <2>2. leaderRecord' = [leaderRecord EXCEPT ![c] = StampLeader(added, c, leaderManual[c])[c],
                                            ![d] = StampLeader(left, d, leaderManual[d])[d]]
    BY <1>2
  <2>. HIDE DEF left
  <2>. QED
    BY <1>0, <2>1, <2>2 DEF TypeOK
<1>. HIDE DEF left
<1>7. /\ DOMAIN rows' = DOMAIN added
      /\ \A r \in DOMAIN added :
            /\ rows'[r].owner = added[r].owner /\ rows'[r].res = added[r].res
            /\ rows'[r].active <=> added[r].active
  BY <1>4, <1>5 DEF SameHolders
<1>8. /\ DOMAIN rows \subseteq DOMAIN rows'
      /\ \A r \in DOMAIN rows :
            /\ rows'[r].owner = rows[r].owner /\ rows'[r].res = rows[r].res
            /\ rows'[r].active => rows[r].active
      /\ \A r \in DOMAIN rows' \ DOMAIN rows :
            rows'[r].owner = d /\ (status[d] = "complete" => rows'[r].res \in Materials)
  BY <1>2, <1>7
<1>. QED
  BY <1>0, <1>1, <1>5, <1>6, <1>8 DEF CrewStep, TypeOK, cardVars

-----------------------------------------------------------------------------
(* Completion. *)

\* Closing a card releases its crew and, at the last open stop, the squad:
\* exactly those rows, and nothing else of them but the flag changes.
LEMMA CompleteRows ==
    ASSUME IInv, NEW c \in Cards, Complete(c)
    PROVE  /\ Crew(rows, c) \subseteq DOMAIN rows
           /\ \A r \in Crew(rows, c) : rows[r].owner = c /\ rows[r].active
           /\ Squad(c) \subseteq DOMAIN rows
           /\ \A r \in Squad(c) : rows[r].owner \in Groups /\ rows[r].active
           /\ RowsSound(rows')
           /\ DOMAIN rows' = DOMAIN rows
           /\ \A r \in DOMAIN rows :
                 /\ rows'[r].owner = rows[r].owner /\ rows'[r].res = rows[r].res
                 /\ rows'[r].active <=> rows[r].active /\ r \notin Crew(rows, c) /\ r \notin Squad(c)
                 /\ rows'[r].leader <=> rows[r].leader /\ r \notin Crew(rows, c)
<1>. DEFINE crew  == Crew(rows, c)
            squad == Squad(c)
            half  == Release(rows, crew)
<1>0. TypeOK /\ rows \in Seq(Row) /\ RowsSound(rows)
  BY RowInvariants DEF IInv, TypeOK, RowsSound
<1>1. /\ crew \subseteq DOMAIN rows
      /\ \A r \in crew : rows[r].owner = c /\ rows[r].active
  BY DEF Crew, ActiveRows
<1>2. /\ squad \subseteq DOMAIN rows
      /\ \A r \in squad : rows[r].owner \in Groups /\ rows[r].active
  <2>1. CASE squad = {}
    BY <2>1
  <2>2. CASE squad # {}
    <3>1. LastOpenStop(c) /\ squad = Crew(rows, group[c])
      BY <2>2 DEF Squad
    <3>2. group[c] \in Groups
      BY <1>0, <3>1 DEF LastOpenStop, TypeOK
    <3>. QED
      BY <3>1, <3>2 DEF Crew, ActiveRows
  <2>. QED
    BY <2>1, <2>2
<1>3. rows' = ReleaseSquad(half, squad)
  BY DEF Complete
<1>4. /\ half \in Seq(Row) /\ DOMAIN half = DOMAIN rows
      /\ \A r \in DOMAIN rows :
            /\ half[r].owner = rows[r].owner /\ half[r].res = rows[r].res
            /\ half[r].active <=> rows[r].active /\ r \notin crew
            /\ half[r].leader <=> rows[r].leader /\ r \notin crew
  BY <1>0, ReleasedRows
<1>5. RowsSound(rows')
  BY <1>0, <1>3, ReleaseSound
<1>. HIDE DEF half, crew, squad
<1>6. /\ DOMAIN rows' = DOMAIN half
      /\ \A r \in DOMAIN half :
            /\ rows'[r].owner = half[r].owner /\ rows'[r].res = half[r].res
            /\ rows'[r].active <=> half[r].active /\ r \notin squad
            /\ rows'[r].leader <=> half[r].leader
  BY <1>3, <1>4, ReleasedSquadRows
<1>7. \A r \in DOMAIN rows :
         /\ rows'[r].owner = rows[r].owner /\ rows'[r].res = rows[r].res
         /\ rows'[r].active <=> rows[r].active /\ r \notin crew /\ r \notin squad
         /\ rows'[r].leader <=> rows[r].leader /\ r \notin crew
  BY <1>4, <1>6
<1>8. DOMAIN rows' = DOMAIN rows
  BY <1>4, <1>6
<1>. QED
  BY <1>1, <1>2, <1>5, <1>7, <1>8 DEF crew, squad

\* An open card has nothing written down; closing it writes down who it sends
\* home, and who of them led.
LEMMA CompleteRecord ==
    ASSUME IInv, NEW c \in Cards, Complete(c)
    PROVE  /\ released[c].rows = {}
           /\ \A d \in Cards \ {c} : released'[d] = released[d]
           /\ released'[c].rows = Crew(rows, c) \cup Squad(c)
           /\ released'[c].led = {r \in Crew(rows, c) : WasLeader(rows, c, r)}
           /\ released' \in [Cards -> [rows : SUBSET Nat, led : SUBSET Nat]]
<1>. DEFINE crew  == Crew(rows, c)
            squad == Squad(c)
            led   == {r \in crew : WasLeader(rows, c, r)}
<1>0. TypeOK /\ UndoRecordSound /\ rows \in Seq(Row)
  BY DEF IInv, TypeOK
<1>1. /\ status[c] = "open"
      /\ released' = IF crew \cup squad = {} THEN released
                     ELSE [released EXCEPT ![c] = [rows |-> crew \cup squad, led |-> led]]
  BY DEF Complete
<1>2. crew \cup squad \in SUBSET Nat /\ led \in SUBSET Nat
  <2>1. DOMAIN rows \subseteq Nat
    BY <1>0, LenProperties
  <2>2. crew \subseteq DOMAIN rows /\ squad \subseteq DOMAIN rows
    BY CompleteRows
  <2>. QED
    BY <2>1, <2>2
<1>3. led \subseteq crew
  OBVIOUS
<1>. HIDE DEF crew, squad, led
<1>4. released[c].rows = {}
  BY <1>0, <1>1 DEF UndoRecordSound
<1>5. /\ \A d \in Cards \ {c} : released'[d] = released[d]
      /\ released'[c].rows = crew \cup squad
      /\ released'[c].led = led
  <2>1. CASE crew \cup squad = {}
    <3>1. released[c].led = {} /\ led = {}
      BY <1>0, <1>3, <1>4, <2>1 DEF UndoRecordSound
    <3>. QED
      BY <1>1, <1>4, <2>1, <3>1
  <2>2. CASE crew \cup squad # {}
    BY <1>0, <1>1, <2>2 DEF TypeOK
  <2>. QED
    BY <2>1, <2>2
<1>6. released' \in [Cards -> [rows : SUBSET Nat, led : SUBSET Nat]]
  BY <1>0, <1>1, <1>2 DEF TypeOK
<1>. QED
  BY <1>4, <1>5, <1>6 DEF crew, squad, led

\* Closing a card writes down rows that are active until this very step, so
\* no other record can list them, and leaves no crew behind.
LEMMA CompleteStep ==
    ASSUME IInv, NEW c \in Cards, Complete(c)
    PROVE  IInv'
<1>. DEFINE crew  == Crew(rows, c)
            squad == Squad(c)
            led   == {r \in crew : WasLeader(rows, c, r)}
<1>0. TypeOK /\ rows \in Seq(Row) /\ RowsSound(rows) /\ UndoRecordSound /\ NoCrewWhileUndoPending
  BY RowInvariants DEF IInv, TypeOK, RowsSound
<1>1. /\ crew \subseteq DOMAIN rows
      /\ \A r \in crew : rows[r].owner = c /\ rows[r].active
  BY CompleteRows
<1>2. /\ squad \subseteq DOMAIN rows
      /\ \A r \in squad : rows[r].owner \in Groups /\ rows[r].active
  BY CompleteRows
<1>3. led \subseteq crew
  OBVIOUS
<1>4. /\ place[c] # "absent" /\ status[c] = "open"
      /\ status' = [status EXCEPT ![c] = "complete"]
      /\ completedAt' = [completedAt EXCEPT ![c] = "set"]
      /\ UNCHANGED <<place, group, groupState, leaderManual, reko>>
  BY DEF Complete
<1>5. RowsSound(rows')
  BY CompleteRows
<1>6. /\ DOMAIN rows' = DOMAIN rows
      /\ \A r \in DOMAIN rows :
            /\ rows'[r].owner = rows[r].owner /\ rows'[r].res = rows[r].res
            /\ rows'[r].active <=> rows[r].active /\ r \notin crew /\ r \notin squad
  BY CompleteRows
<1>7. leaderRecord' \in [Cards -> Personnel \cup {None}]
  <2>. DEFINE leaders == ActiveLeaders(rows, c)
              l == CHOOSE r \in leaders : TRUE
  <2>1. leaderRecord' = IF leaders = {} THEN leaderRecord
                        ELSE [leaderRecord EXCEPT ![c] = rows[l].res]
    BY DEF Complete, LeaderAtCompletion
  <2>2. CASE leaders = {}
    BY <1>0, <2>1, <2>2 DEF TypeOK
  <2>3. CASE leaders # {}
    <3>1. l \in leaders
      BY <2>3
    <3>2. rows[l].res \in Personnel
      BY <3>1 DEF ActiveLeaders, People
    <3>3. leaderRecord' = [leaderRecord EXCEPT ![c] = rows[l].res]
      BY <2>1, <2>3
    <3>. QED
      BY <1>0, <3>2, <3>3 DEF TypeOK
  <2>. QED
    BY <2>2, <2>3
<1>8. released'[c].led = led /\ released' \in [Cards -> [rows : SUBSET Nat, led : SUBSET Nat]]
  BY CompleteRecord
<1>9. /\ \A d \in Cards \ {c} : released'[d] = released[d] /\ status'[d] = status[d]
      /\ released'[c].rows = crew \cup squad
      /\ released'[c].led \subseteq crew \cup squad
      /\ status'[c] = "complete"
  BY <1>0, <1>3, <1>4, <1>8, CompleteRecord DEF TypeOK
<1>. HIDE DEF crew, squad, led
<1>10. TypeOK'
  BY <1>0, <1>4, <1>5, <1>7, <1>8 DEF TypeOK, RowsSound
<1>11. OneActiveRowPerResource' /\ OneLeader'
  BY <1>5, RowInvariantsNext DEF RowsSound
<1>12. UndoRecordSound'
  <2>1. ASSUME NEW r \in crew \cup squad
        PROVE  /\ r \in DOMAIN rows' /\ ~rows'[r].active
               /\ rows'[r].owner \in {c} \cup Groups
               /\ \A d \in Cards \ {c} : r \notin released[d].rows
    <3>1. r \in DOMAIN rows /\ rows[r].active /\ rows[r].owner \in {c} \cup Groups
      BY <1>1, <1>2
    <3>. QED
      BY <1>0, <1>6, <3>1 DEF UndoRecordSound
  <2>2. ASSUME NEW r \in crew \cup squad, NEW s \in crew \cup squad,
               rows'[r].owner = rows'[s].owner, rows'[r].res = rows'[s].res
        PROVE  r = s
    BY <1>0, <1>1, <1>2, <1>6, <2>2 DEF RowsSound, ActiveDistinct
  <2>3. ASSUME NEW d \in Cards \ {c}
        PROVE  /\ released[d].rows # {} => status[d] = "complete" /\ place[d] # "absent"
               /\ released[d].led \subseteq released[d].rows
               /\ \A r \in released[d].rows :
                     r \in DOMAIN rows' /\ ~rows'[r].active /\ rows'[r].owner \in {d} \cup Groups
               /\ \A r, s \in released[d].rows :
                     rows'[r].owner = rows'[s].owner /\ rows'[r].res = rows'[s].res => r = s
               /\ \A e \in Cards \ {d} : e # c => released[d].rows \cap released[e].rows = {}
    BY <1>0, <1>6 DEF UndoRecordSound
  <2>4. \A d \in Cards \ {c} : released[d].rows \cap (crew \cup squad) = {}
    BY <2>1
  <2>. QED
    BY <1>4, <1>9, <2>1, <2>2, <2>3, <2>4 DEF UndoRecordSound
<1>13. NoCrewWhileUndoPending'
  <2> SUFFICES ASSUME NEW d \in Cards, released'[d].rows # {}, NEW r \in Crew(rows', d)
               PROVE  FALSE
    BY DEF NoCrewWhileUndoPending
  <2>1. r \in Crew(rows, d) /\ r \notin crew
    BY <1>6 DEF Crew, ActiveRows
  <2>2. CASE d = c
    BY <2>1, <2>2 DEF crew
  <2>3. CASE d # c
    BY <1>0, <1>9, <2>1, <2>3 DEF NoCrewWhileUndoPending
  <2>. QED
    BY <2>2, <2>3
<1>14. RowsOfCreatedCards'
  BY <1>4, <1>6 DEF IInv, RowsOfCreatedCards
<1>. QED
  BY <1>10, <1>11, <1>12, <1>13, <1>14 DEF IInv

-----------------------------------------------------------------------------
(* Leaving "complete". *)

\* The rows an undo puts back: nobody twice on a card or an Auftrag, because a
\* record lists distinct rows and those whose resource is back already are
\* skipped; two leaders of an Auftrag make the database refuse the request.
LEMMA RestoredRowsSound ==
    ASSUME IInv, NEW c \in Cards, ~SquadLeaderClash(c)
    PROVE  LET back == RestoredRows(c)
           IN  /\ RowsSound(back) /\ DOMAIN back = DOMAIN rows
               /\ \A r \in DOMAIN rows :
                     /\ back[r].owner = rows[r].owner /\ back[r].res = rows[r].res
                     /\ back[r].active <=> \/ rows[r].active
                                           \/ r \in CardRowsBack(c) \cup SquadRowsBack(c)
<1>. DEFINE back  == RestoredRows(c)
            cards == CardRowsBack(c)
            squad == SquadRowsBack(c)
<1>0. TypeOK /\ rows \in Seq(Row) /\ RowsSound(rows) /\ UndoRecordSound
  BY RowInvariants DEF IInv, TypeOK, RowsSound
<1>1. \A r \in DOMAIN rows : rows[r] \in Row
  BY <1>0, ElementOfSeq, LenProperties
<1>2. \A r \in cards \cup squad : r \in released[c].rows /\ r \in DOMAIN rows
  BY <1>0 DEF CardRowsBack, SquadRowsBack, UndoRecordSound
<1>3. \A r \in cards : rows[r].owner \in Cards /\ ~Holds(rows, rows[r].owner, rows[r].res)
  BY DEF CardRowsBack
<1>4. \A r \in squad : rows[r].owner \in Groups /\ ~Holds(rows, rows[r].owner, rows[r].res)
  BY DEF SquadRowsBack
<1>. HIDE DEF cards, squad
<1>5. ASSUME NEW r \in DOMAIN rows
      PROVE  /\ back[r] \in Row
             /\ back[r].owner = rows[r].owner /\ back[r].res = rows[r].res
             /\ back[r].active <=> rows[r].active \/ r \in cards \cup squad
             /\ back[r].leader <=> rows[r].leader /\ r \notin cards
  <2>1. CASE r \in cards
    <3>1. back[r] = [rows[r] EXCEPT !.active = TRUE, !.leader = FALSE]
      BY <2>1 DEF RestoredRows, cards
    <3>. HIDE DEF back
    <3>. QED
      BY <1>1, <2>1, <3>1 DEF Row
  <2>2. CASE r \notin cards /\ r \in squad
    <3>1. back[r] = [rows[r] EXCEPT !.active = TRUE]
      BY <2>2 DEF RestoredRows, cards, squad
    <3>. HIDE DEF back
    <3>. QED
      BY <1>1, <2>2, <3>1 DEF Row
  <2>3. CASE r \notin cards /\ r \notin squad
    <3>1. back[r] = rows[r]
      BY <2>3 DEF RestoredRows, cards, squad
    <3>. HIDE DEF back
    <3>. QED
      BY <1>1, <2>3, <3>1
  <2>. QED
    BY <2>1, <2>2, <2>3
<1>6. back = [r \in DOMAIN rows |-> back[r]]
  BY DEF RestoredRows
<1>7. back \in Seq(Row) /\ DOMAIN back = DOMAIN rows
  BY <1>0, <1>5, <1>6, RewrittenRows
<1>. HIDE DEF back
<1>8. ActiveDistinct(back)
  <2> SUFFICES ASSUME NEW r \in DOMAIN rows, NEW s \in DOMAIN rows,
                      back[r].active, back[s].active,
                      back[r].owner = back[s].owner, back[r].res = back[s].res
               PROVE  r = s
    BY <1>7 DEF ActiveDistinct
  <2>1. rows[r].owner = rows[s].owner /\ rows[r].res = rows[s].res
    BY <1>5
  <2>2. \A t \in DOMAIN rows : rows[t].active => Holds(rows, rows[t].owner, rows[t].res)
    BY DEF Holds, ActiveRows
  <2>3. CASE rows[r].active /\ rows[s].active
    BY <1>0, <2>1, <2>3 DEF RowsSound, ActiveDistinct
  <2>4. CASE r \in cards \cup squad /\ s \in cards \cup squad
    BY <1>0, <1>2, <2>1, <2>4 DEF UndoRecordSound
  <2>5. CASE rows[r].active /\ s \in cards \cup squad
    BY <1>3, <1>4, <2>1, <2>2, <2>5
  <2>6. CASE rows[s].active /\ r \in cards \cup squad
    BY <1>3, <1>4, <2>1, <2>2, <2>6
  <2>. QED
    BY <1>5, <2>3, <2>4, <2>5, <2>6
<1>9. LeadersDistinct(back)
  <2>1. ASSUME NEW r \in DOMAIN rows, back[r].leader PROVE back[r].res \in Personnel
    BY <1>0, <1>5, <2>1 DEF RowsSound, LeadersDistinct
  <2>2. ASSUME NEW r \in DOMAIN rows, NEW s \in DOMAIN rows,
               back[r].active, back[s].active, back[r].leader, back[s].leader,
               back[r].owner = back[s].owner
        PROVE  r = s
    <3>1. rows[r].owner = rows[s].owner /\ rows[r].owner \in Owners
      BY <1>1, <1>5, <2>2 DEF Row
    <3>2. CASE rows[r].owner \in Groups
      <4>1. r \in ActiveLeaders(back, rows[r].owner) /\ s \in ActiveLeaders(back, rows[r].owner)
        BY <1>5, <1>7, <2>1, <2>2, <3>1 DEF ActiveLeaders, People, ActiveRows
      <4>. QED
        BY <3>2, <4>1 DEF SquadLeaderClash, back
    <3>3. CASE rows[r].owner \notin Groups
      <4>1. rows[r].active /\ rows[s].active /\ rows[r].leader /\ rows[s].leader
        BY <1>4, <1>5, <2>2, <3>1, <3>3
      <4>. QED
        BY <1>0, <3>1, <4>1 DEF RowsSound, LeadersDistinct
    <3>. QED
      BY <3>2, <3>3
  <2>. QED
    BY <1>7, <2>1, <2>2 DEF LeadersDistinct
<1>. QED
  BY <1>5, <1>7, <1>8, <1>9 DEF RowsSound, back, cards, squad

\* Whichever way the flag comes back, the rows differ from the restored ones in
\* flags only, and one person leads.
LEMMA RestoredLeaderSound ==
    ASSUME IInv, NEW c \in Cards, ~SquadLeaderClash(c), rows' \in RestoredLeader(c)
    PROVE  SameHolders(RestoredRows(c), rows') /\ RowsSound(rows')
<1>. DEFINE back == RestoredRows(c)
<1>1. RowsSound(back) /\ back \in Seq(Row)
  BY RestoredRowsSound DEF RowsSound
<1>2. leaderManual[c] \in BOOLEAN
  BY DEF IInv, TypeOK, Owners
<1>3. \/ rows' = back
      \/ \E r \in FormerLeaders(c) : ActiveLeaders(back, c) = {}
                                     /\ rows' = [back EXCEPT ![r].leader = TRUE]
      \/ rows' = SyncAutoLeader(back, c, leaderManual[c])
  BY DEF RestoredLeader
<1>4. \A r \in FormerLeaders(c) : r \in People(back, c)
  BY DEF FormerLeaders
<1>. HIDE DEF back
<1>5. CASE rows' = back
  BY <1>1, <1>5 DEF SameHolders, back
<1>6. CASE rows' = SyncAutoLeader(back, c, leaderManual[c])
  BY <1>1, <1>2, <1>6, SyncSound DEF back
<1>7. ASSUME NEW r \in FormerLeaders(c), ActiveLeaders(back, c) = {},
             rows' = [back EXCEPT ![r].leader = TRUE]
      PROVE  SameHolders(back, rows') /\ RowsSound(rows')
  <2>1. r \in DOMAIN back /\ back[r].owner = c /\ back[r].active /\ back[r].res \in Personnel
    BY <1>4 DEF People, ActiveRows
  <2>2. \A s \in DOMAIN back : back[s] \in Row
    BY <1>1, ElementOfSeq, LenProperties
  <2>3. \A s \in DOMAIN back :
            /\ rows'[s] \in Row
            /\ rows'[s].owner = back[s].owner /\ rows'[s].res = back[s].res
            /\ rows'[s].active = back[s].active
            /\ rows'[s].leader <=> s = r \/ back[s].leader
    BY <1>7, <2>1, <2>2 DEF Row
  <2>4. rows' = [s \in DOMAIN back |-> rows'[s]]
    BY <1>7
  <2>5. rows' \in Seq(Row) /\ Len(rows') = Len(back) /\ DOMAIN rows' = DOMAIN back
    BY <1>1, <2>3, <2>4, RewrittenRows
  <2>6. SameHolders(back, rows')
    BY <2>3, <2>5 DEF SameHolders
  <2>7. \A s \in DOMAIN back : ~(back[s].owner = c /\ back[s].active /\ back[s].leader)
    <3>1. \A s \in DOMAIN back : back[s].leader => back[s].res \in Personnel
      BY <1>1 DEF RowsSound, LeadersDistinct
    <3>. QED
      BY <1>7, <3>1 DEF ActiveLeaders, People, ActiveRows
  <2>8. LeadersDistinct(rows')
    BY <1>1, <2>1, <2>3, <2>5, <2>7, SMTT(30) DEF RowsSound, LeadersDistinct
  <2>. QED
    BY <1>1, <2>5, <2>6, <2>8, HoldersKept DEF RowsSound
<1>. QED
  BY <1>3, <1>5, <1>6, <1>7 DEF back

LEMMA LeaveCompleteStep ==
    ASSUME IInv, NEW c \in Cards, NEW new \in {"open", "complete"}, LeaveComplete(c, new)
    PROVE  IInv'
<1>. DEFINE back  == RestoredRows(c)
            again == CardRowsBack(c) \cup SquadRowsBack(c)
<1>0. TypeOK /\ UndoRecordSound /\ NoCrewWhileUndoPending
  BY DEF IInv
<1>1. /\ ~SquadLeaderClash(c)
      /\ status' = [status EXCEPT ![c] = new]
      /\ completedAt' = [completedAt EXCEPT ![c] = "none"]
      /\ rows' \in RestoredLeader(c)
      /\ released' = [released EXCEPT ![c] = NothingReleased]
      /\ UNCHANGED <<place, group, groupState, leaderManual, leaderRecord, reko>>
  BY DEF LeaveComplete
<1>2. RowsSound(rows') /\ SameHolders(back, rows')
  BY <1>1, RestoredLeaderSound
<1>3. /\ DOMAIN back = DOMAIN rows
      /\ \A r \in DOMAIN rows :
            /\ back[r].owner = rows[r].owner /\ back[r].res = rows[r].res
            /\ back[r].active <=> rows[r].active \/ r \in again
  BY <1>1, RestoredRowsSound
<1>4. again \subseteq released[c].rows
  BY DEF CardRowsBack, SquadRowsBack
<1>5. \A r \in again : rows[r].owner \in {c} \cup Groups
  BY <1>0, <1>4 DEF UndoRecordSound
<1>. HIDE DEF back, again
<1>6. /\ DOMAIN rows' = DOMAIN rows
      /\ \A r \in DOMAIN rows :
            /\ rows'[r].owner = rows[r].owner /\ rows'[r].res = rows[r].res
            /\ rows'[r].active <=> rows[r].active \/ r \in again
  BY <1>2, <1>3 DEF SameHolders
<1>7. /\ released'[c] = NothingReleased
      /\ \A d \in Cards \ {c} : released'[d] = released[d] /\ status'[d] = status[d]
  BY <1>0, <1>1 DEF TypeOK
<1>8. TypeOK'
  <2>1. NothingReleased \in [rows : SUBSET Nat, led : SUBSET Nat]
    BY DEF NothingReleased
  <2>2. rows' \in Seq(Row)
    BY <1>2 DEF RowsSound
  <2>. QED
    BY <1>0, <1>1, <2>1, <2>2 DEF TypeOK
<1>9. OneActiveRowPerResource' /\ OneLeader'
  BY <1>2, RowInvariantsNext DEF RowsSound
<1>10. UndoRecordSound'
  <2>1. ASSUME NEW d \in Cards \ {c}
        PROVE  /\ released[d].rows # {} => status[d] = "complete" /\ place[d] # "absent"
               /\ released[d].led \subseteq released[d].rows
               /\ \A r \in released[d].rows :
                     r \in DOMAIN rows' /\ ~rows'[r].active /\ rows'[r].owner \in {d} \cup Groups
               /\ \A r, s \in released[d].rows :
                     rows'[r].owner = rows'[s].owner /\ rows'[r].res = rows'[s].res => r = s
               /\ \A e \in Cards \ {d} : released[d].rows \cap released[e].rows = {}
    BY <1>0, <1>4, <1>6 DEF UndoRecordSound
  <2>2. NothingReleased.rows = {} /\ NothingReleased.led = {}
    BY DEF NothingReleased
  <2>. QED
    BY <1>1, <1>7, <2>1, <2>2 DEF UndoRecordSound
<1>11. NoCrewWhileUndoPending'
  <2> SUFFICES ASSUME NEW d \in Cards, released'[d].rows # {}, NEW r \in Crew(rows', d)
               PROVE  FALSE
    BY DEF NoCrewWhileUndoPending
  <2>1. d # c /\ released[d].rows # {}
    BY <1>7 DEF NothingReleased
  <2>2. r \in DOMAIN rows /\ rows[r].owner = d /\ rows[r].res \notin Materials
        /\ (rows[r].active \/ r \in again)
    BY <1>6 DEF Crew, ActiveRows
  <2>3. r \notin again
    BY <1>5, <2>1, <2>2, KindsAreDisjoint
  <2>4. r \in Crew(rows, d)
    BY <2>2, <2>3 DEF Crew, ActiveRows
  <2>. QED
    BY <1>0, <2>1, <2>4 DEF NoCrewWhileUndoPending
<1>12. RowsOfCreatedCards'
  BY <1>1, <1>6 DEF IInv, RowsOfCreatedCards
<1>. QED
  BY <1>8, <1>9, <1>10, <1>11, <1>12 DEF IInv

-----------------------------------------------------------------------------
(* The theorems. *)

LEMMA InitIInv == Init => IInv
<1> SUFFICES ASSUME Init PROVE IInv
  OBVIOUS
<1>. USE DEF Init
<1>1. rows \in Seq(Row) /\ DOMAIN rows = {}
  BY EmptySeq
<1>2. TypeOK
  BY <1>1 DEF TypeOK, NothingReleased
<1>3. OneActiveRowPerResource /\ OneLeader
  BY <1>1 DEF OneActiveRowPerResource, OneLeader
<1>4. \A c \in Cards : released[c].rows = {} /\ released[c].led = {}
  BY DEF NothingReleased
<1>. QED
  BY <1>1, <1>2, <1>3, <1>4
     DEF IInv, UndoRecordSound, NoCrewWhileUndoPending, RowsOfCreatedCards

LEMMA NextIInv == IInv /\ [Next]_vars => IInv'
<1> SUFFICES ASSUME IInv, [Next]_vars PROVE IInv'
  OBVIOUS
<1>1. CASE BoardOnly
  BY <1>1, BoardOnlyStep
<1>2. CASE CrewActions
  BY <1>2, CrewActionsAreCrewSteps, CrewStepKeeps
<1>3. ASSUME NEW c \in Cards, NEW d \in Cards, TransferAssignments(c, d) PROVE IInv'
  BY <1>3, TransferIsCrewStep, CrewStepKeeps
<1>4. ASSUME NEW c \in Cards, Complete(c) PROVE IInv'
  BY <1>4, CompleteStep
<1>5. ASSUME NEW c \in Cards, Reopen(c) \/ CompleteAgain(c) PROVE IInv'
  BY <1>5, LeaveCompleteStep DEF Reopen, CompleteAgain
<1>6. CASE UNCHANGED vars
  BY <1>6, SMTT(30) DEF vars, IInv, TypeOK, OneActiveRowPerResource, OneLeader, UndoRecordSound,
              NoCrewWhileUndoPending, Crew, ActiveRows, RowsOfCreatedCards
<1>. QED
  BY <1>1, <1>2, <1>3, <1>4, <1>5, <1>6
     DEF Next, CardStep, GroupStep, BoardOnly, CrewActions

\* The invariant holds of every board, however many cards, Auftraege, people,
\* vehicles and material it has, after any sequence of requests.
THEOREM BoardInvariant == Spec => []IInv
BY InitIInv, NextIInv, PTL DEF Spec

\* Every variable keeps its type.
THEOREM TypeCorrect == Spec => []TypeOK
<1>1. IInv => TypeOK
  BY DEF IInv
<1>. QED
  BY <1>1, BoardInvariant, PTL

\* No handler, the undo of a completion included, ever reaches the unique
\* indexes on active assignments.
THEOREM NobodyTwice == Spec => []OneActiveRowPerResource
<1>1. IInv => OneActiveRowPerResource
  BY DEF IInv
<1>. QED
  BY <1>1, BoardInvariant, PTL

\* A card or an Auftrag never has two Einsatzleiter, and only a person is one.
THEOREM OneEinsatzleiter == Spec => []OneLeader
<1>1. IInv => OneLeader
  BY DEF IInv
<1>. QED
  BY <1>1, BoardInvariant, PTL

\* What _undo_completion_release reads is still true whenever it reads it.
THEOREM UndoRecordStaysTrue == Spec => []UndoRecordSound
<1>1. IInv => UndoRecordSound
  BY DEF IInv
<1>. QED
  BY <1>1, BoardInvariant, PTL

\* No request, no transfer and no undo of another card puts a crew onto a card
\* whose completion can still be undone.
THEOREM ClosedCardStaysEmpty == Spec => []NoCrewWhileUndoPending
<1>1. IInv => NoCrewWhileUndoPending
  BY DEF IInv
<1>. QED
  BY <1>1, BoardInvariant, PTL

-----------------------------------------------------------------------------
(* What a step may never do. *)

\* A step that adds no crew to a closed card cannot double-book one either.
LEMMA CrewStepTakesNobody ==
    ASSUME IInv, CrewStep, NEW c \in Cards, status[c] = "complete"
    PROVE  Crew(rows', c) \subseteq Crew(rows, c)
<1> SUFFICES ASSUME NEW r \in Crew(rows', c) PROVE r \in Crew(rows, c)
  OBVIOUS
<1>1. r \in DOMAIN rows' /\ rows'[r].owner = c /\ rows'[r].active /\ rows'[r].res \notin Materials
  BY DEF Crew, ActiveRows
<1>2. r \in DOMAIN rows
  BY <1>1 DEF CrewStep
<1>. QED
  BY <1>1, <1>2 DEF CrewStep, Crew, ActiveRows

LEMMA CompleteTakesNobody ==
    ASSUME IInv, NEW d \in Cards, Complete(d), NEW c \in Cards
    PROVE  Crew(rows', c) \subseteq Crew(rows, c)
BY CompleteRows DEF Crew, ActiveRows

\* What comes back onto a card stood on no card before the undo, and nothing
\* else comes back onto any.
LEMMA LeaveCompleteDoublesNobody ==
    ASSUME IInv, NEW d \in Cards, NEW new \in {"open", "complete"}, LeaveComplete(d, new),
           NEW c \in Cards, NEW r \in Crew(rows', c) \ Crew(rows, c),
           NEW e \in Cards \ {c}
    PROVE  ~Holds(rows', e, rows'[r].res)
<1>. DEFINE back  == RestoredRows(d)
            cards == CardRowsBack(d)
            squad == SquadRowsBack(d)
<1>1. ~SquadLeaderClash(d) /\ rows' \in RestoredLeader(d)
  BY DEF LeaveComplete
<1>2. SameHolders(back, rows')
  BY <1>1, RestoredLeaderSound
<1>3. /\ DOMAIN back = DOMAIN rows
      /\ \A s \in DOMAIN rows :
            /\ back[s].owner = rows[s].owner /\ back[s].res = rows[s].res
            /\ back[s].active <=> rows[s].active \/ s \in cards \cup squad
  BY <1>1, RestoredRowsSound
<1>4. /\ \A s \in cards : /\ rows[s].owner = d
                          /\ \A o \in Cards : ~Holds(rows, o, rows[s].res)
      /\ \A s \in squad : rows[s].owner \notin Cards
  BY KindsAreDisjoint DEF CardRowsBack, SquadRowsBack, IInv, UndoRecordSound
<1>. HIDE DEF back, cards, squad
<1>5. \A s \in DOMAIN rows :
          /\ rows'[s].owner = rows[s].owner /\ rows'[s].res = rows[s].res
          /\ rows'[s].active <=> rows[s].active \/ s \in cards \cup squad
  BY <1>2, <1>3 DEF SameHolders
<1>6. DOMAIN rows' = DOMAIN rows
  BY <1>2, <1>3 DEF SameHolders
<1>7. r \in cards /\ c = d /\ r \in DOMAIN rows
  BY <1>4, <1>5, <1>6 DEF Crew, ActiveRows
<1>8. \A s \in ActiveRows(rows', e) : s \in ActiveRows(rows, e)
  BY <1>4, <1>5, <1>6, <1>7 DEF ActiveRows
<1>9. \A s \in ActiveRows(rows', e) : rows'[s].res = rows[s].res
  BY <1>5, <1>6 DEF ActiveRows
<1>10. ~Holds(rows, e, rows[r].res) /\ rows'[r].res = rows[r].res
  BY <1>4, <1>5, <1>7
<1>. QED
  BY <1>8, <1>9, <1>10 DEF Holds

LEMMA NextNoSecondCard == IInv /\ [Next]_vars => [NoSecondCard]_vars
<1> SUFFICES ASSUME IInv, Next, NEW c \in Cards, status[c] = "complete",
                    NEW r \in Crew(rows', c) \ Crew(rows, c), NEW e \in Cards \ {c}
             PROVE  ~Holds(rows', e, rows'[r].res)
  BY DEF NoSecondCard
<1>1. CASE BoardOnly
  <2>1. rows' = rows
    BY <1>1 DEF BoardOnly, CreateIncident, PatchGroup, DeleteIncident, RestoreIncident,
                RemoveStop, CreateGroup, AddStop, RekoStep, GrantReko, RevokeReko
  <2>. QED
    BY <2>1
<1>2. CASE CrewActions \/ \E a, b \in Cards : TransferAssignments(a, b)
  BY <1>2, CrewActionsAreCrewSteps, TransferIsCrewStep, CrewStepTakesNobody
<1>3. ASSUME NEW d \in Cards, Complete(d) PROVE ~Holds(rows', e, rows'[r].res)
  BY <1>3, CompleteTakesNobody
<1>4. ASSUME NEW d \in Cards, Reopen(d) \/ CompleteAgain(d)
      PROVE  ~Holds(rows', e, rows'[r].res)
  BY <1>4, LeaveCompleteDoublesNobody DEF Reopen, CompleteAgain
<1>. QED
  BY <1>1, <1>2, <1>3, <1>4 DEF Next, CardStep, GroupStep, BoardOnly, CrewActions

\* No request ever puts a resource back onto a closed card, or onto a card it
\* reopens, while another card has it.
THEOREM UndoDoubleBooksNobody == Spec => UndoNeverDoubleBooks
<1>1. Spec => []IInv
  BY BoardInvariant
<1>. QED
  BY <1>1, NextNoSecondCard, PTL DEF Spec, UndoNeverDoubleBooks

-----------------------------------------------------------------------------
(* What closing a card leaves for its undo. *)

\* A card closes in update_incident_status, or is created complete: then
\* nobody was ever assigned to it.
LEMMA ClosingStep ==
    ASSUME IInv, Next, NEW c \in Cards, Closes(c)
    PROVE  \/ Complete(c)
           \/ /\ rows' = rows /\ leaderRecord' = leaderRecord /\ released' = released
              /\ released[c].rows = {} /\ place[c] = "absent"
              /\ \A r \in DOMAIN rows : rows[r].owner # c
<1>0. TypeOK /\ UndoRecordSound /\ RowsOfCreatedCards
  BY DEF IInv
<1>1. status[c] = "open" /\ status'[c] = "complete" /\ status' # status
  BY DEF Closes
<1>2. ASSUME NEW d \in Cards, NEW g \in Groups \cup {None}, NEW st \in {"open", "complete"},
             CreateIncident(d, g, st)
      PROVE  /\ rows' = rows /\ leaderRecord' = leaderRecord /\ released' = released
             /\ released[c].rows = {} /\ place[c] = "absent"
             /\ \A r \in DOMAIN rows : rows[r].owner # c
  <2>1. d = c
    BY <1>0, <1>1, <1>2 DEF CreateIncident, TypeOK
  <2>2. place[c] = "absent"
    BY <1>2, <2>1 DEF CreateIncident
  <2>. QED
    BY <1>0, <1>2, <2>2 DEF CreateIncident, UndoRecordSound, RowsOfCreatedCards
<1>3. ASSUME BoardOnly,
             \A d \in Cards, g \in Groups \cup {None}, st \in {"open", "complete"} :
                ~CreateIncident(d, g, st)
      PROVE  status' = status
  BY <1>3 DEF BoardOnly, PatchGroup, DeleteIncident, RestoreIncident, RemoveStop,
              CreateGroup, AddStop, RekoStep, GrantReko, RevokeReko, cardVars
<1>4. CrewStep => status' = status
  BY DEF CrewStep
<1>5. ~CrewActions /\ ~\E a, b \in Cards : TransferAssignments(a, b)
  BY <1>1, <1>4, CrewActionsAreCrewSteps, TransferIsCrewStep
<1>6. ASSUME NEW d \in Cards, Complete(d) PROVE d = c
  BY <1>0, <1>1, <1>6 DEF Complete, TypeOK
<1>7. ASSUME NEW d \in Cards, Reopen(d) \/ CompleteAgain(d) PROVE FALSE
  <2>1. /\ status[d] = "complete"
        /\ \/ status' = [status EXCEPT ![d] = "open"]
           \/ status' = [status EXCEPT ![d] = "complete"]
    BY <1>7 DEF Reopen, CompleteAgain, LeaveComplete
  <2>. QED
    BY <1>0, <1>1, <2>1 DEF TypeOK
<1>. QED
  BY <1>1, <1>2, <1>3, <1>5, <1>6, <1>7 DEF Next, CardStep, GroupStep, BoardOnly, CrewActions

\* Who stands on another card is not touched by closing c.
LEMMA CompleteElsewhere ==
    ASSUME IInv, NEW c \in Cards, Complete(c), NEW d \in Cards \ {c}, NEW res
    PROVE  Holds(rows', d, res) <=> Holds(rows, d, res)
<1>1. \A r \in DOMAIN rows :
         rows[r].owner = d => (rows'[r].active <=> rows[r].active)
  BY CompleteRows, KindsAreDisjoint
<1>. QED
  BY <1>1, CompleteRows DEF Holds, ActiveRows

\* A crew sent home stands on its card no longer, not even once.
LEMMA CompleteEmptiesCard ==
    ASSUME IInv, NEW c \in Cards, Complete(c)
    PROVE  /\ Crew(rows', c) = {}
           /\ \A r \in Crew(rows, c) : ~Holds(rows', c, rows[r].res)
BY CompleteRows DEF Holds, Crew, ActiveRows

TheCrewBack ==
    \A c \in Cards :
        Closes(c) =>
          /\ NotShared(c) \subseteq CardRowsBack(c)'
          /\ CardRowsBack(c)' \subseteq Crew(rows, c)

\* What an undo would bring back right then is the crew without those who
\* stand on a second card, whenever they were assigned there.
LEMMA ClosingRecordsTheCrew ==
    ASSUME IInv, Next, NEW c \in Cards, Closes(c)
    PROVE  CardRowsBack(c)' =
             {r \in Crew(rows, c) : \A d \in Cards \ {c} : ~Holds(rows, d, rows[r].res)}
<1>1. CardRowsBack(c)' =
        {r \in released'[c].rows :
            /\ rows'[r].owner \in Cards
            /\ ~rows'[r].active
            /\ ~\E d \in Cards : Holds(rows', d, rows'[r].res)}
  BY DEF CardRowsBack, Holds, ActiveRows
<1>2. CASE Complete(c)
  <2>1. released'[c].rows = Crew(rows, c) \cup Squad(c)
    BY <1>2, CompleteRecord
  <2>2. ASSUME NEW r \in Squad(c) PROVE rows'[r].owner \notin Cards
    BY <1>2, CompleteRows, KindsAreDisjoint
  <2>3. ASSUME NEW r \in Crew(rows, c)
        PROVE  /\ rows'[r].owner \in Cards /\ ~rows'[r].active
               /\ rows'[r].res = rows[r].res
               /\ ~Holds(rows', c, rows[r].res)
    BY <1>2, CompleteRows, CompleteEmptiesCard
  <2>4. ASSUME NEW r \in Crew(rows, c)
        PROVE  (\E d \in Cards : Holds(rows', d, rows'[r].res))
                  <=> \E d \in Cards \ {c} : Holds(rows, d, rows[r].res)
    BY <1>2, <2>3, CompleteElsewhere
  <2>. QED
    BY <1>1, <2>1, <2>2, <2>3, <2>4
<1>3. CASE /\ released' = released /\ released[c].rows = {}
           /\ \A r \in DOMAIN rows : rows[r].owner # c
  <2>1. Crew(rows, c) = {}
    BY <1>3 DEF Crew, ActiveRows
  <2>. QED
    BY <1>1, <1>3, <2>1
<1>. QED
  BY <1>2, <1>3, ClosingStep

\* A completion writes down enough to undo it: its undo would bring back right
\* then everybody it sent home who was on this card only, and nobody else
\* (auto_release_incident_resources, _undo_completion_release).
THEOREM UndoBringsTheCrewBack == Spec => UndoRestoresCrew
<1>1. Spec => []IInv
  BY BoardInvariant
<1>2. IInv /\ [Next]_vars => [TheCrewBack]_vars
  BY ClosingRecordsTheCrew DEF TheCrewBack, NotShared
<1>. QED
  BY <1>1, <1>2, PTL DEF Spec, UndoRestoresCrew, TheCrewBack

\* A card is a stop of live Auftraege only: soft_delete_group detaches every
\* stop, and nothing attaches one to an Auftrag that is gone.
StopsAreLive ==
    \A c \in Cards : group[c] # None => group[c] \in Groups /\ groupState[group[c]] = "live"

LEMMA NextStopsAreLive == IInv /\ StopsAreLive /\ [Next]_vars => StopsAreLive'
<1> SUFFICES ASSUME IInv, StopsAreLive, [Next]_vars PROVE StopsAreLive'
  OBVIOUS
<1>. USE DEF StopsAreLive
<1>0. /\ group \in [Cards -> Groups \cup {None}]
      /\ groupState \in [Groups -> {"absent", "live", "deleted"}]
  BY DEF IInv, TypeOK
<1>1. ASSUME NEW c \in Cards, NEW g \in Groups \cup {None}, NEW st \in {"open", "complete"},
             CreateIncident(c, g, st)
      PROVE  StopsAreLive'
  BY <1>0, <1>1 DEF CreateIncident
<1>2. ASSUME NEW c \in Cards, NEW g \in Groups \cup {None}, PatchGroup(c, g) PROVE StopsAreLive'
  BY <1>0, <1>2 DEF PatchGroup
<1>3. ASSUME NEW c \in Cards, RemoveStop(c) PROVE StopsAreLive'
  BY <1>0, <1>3 DEF RemoveStop
<1>4. ASSUME NEW g \in Groups, CreateGroup(g) PROVE StopsAreLive'
  BY <1>0, <1>4 DEF CreateGroup, cardVars
<1>5. ASSUME NEW g \in Groups, NEW c \in Cards, AddStop(g, c) PROVE StopsAreLive'
  BY <1>0, <1>5 DEF AddStop
<1>6. ASSUME NEW g \in Groups, SoftDeleteGroup(g) PROVE StopsAreLive'
  BY <1>0, <1>6 DEF SoftDeleteGroup
<1>7. CASE group' = group /\ groupState' = groupState
  BY <1>7
<1>. QED
  <2>1. CASE BoardOnly
    BY <2>1, <1>1, <1>2, <1>3, <1>4, <1>5, <1>7
       DEF BoardOnly, DeleteIncident, RestoreIncident, RekoStep, GrantReko, RevokeReko, cardVars
  <2>2. CASE \E g \in Groups : SoftDeleteGroup(g)
    BY <2>2, <1>6
  <2>. QED
    BY <2>1, <2>2, <1>7
       DEF Next, CardStep, GroupStep, RowStep, BoardOnly, AssignResource, UnassignResource,
           PinLeader, UnpinLeader, TransferAssignments, AssignGroupResource,
           UnassignGroupResource, PinGroupLeader, UnpinGroupLeader, Complete, Reopen,
           CompleteAgain, LeaveComplete, cardVars, vars

SquadWithTheRoute ==
    \A c \in Cards, g \in Groups :
        Closes(c) /\ place[c] # "absent" =>
          IF group[c] = g /\ OpenStops(g) \subseteq {c}
          THEN Crew(rows', g) = {} /\ Crew(rows, g) \subseteq SquadRowsBack(c)'
          ELSE Crew(rows', g) = Crew(rows, g)

\* The last open stop takes the whole squad along and writes all of it down.
LEMMA LastStopTakesSquad ==
    ASSUME IInv, StopsAreLive, NEW c \in Cards, Complete(c), NEW g \in Groups,
           group[c] = g, OpenStops(g) \subseteq {c}
    PROVE  Crew(rows', g) = {} /\ Crew(rows, g) \subseteq SquadRowsBack(c)'
<1>1. Squad(c) = Crew(rows, g)
  <2>1. g # None
    BY KindsAreDisjoint DEF Owners
  <2>2. \A d \in Cards \ {c} : group[d] = g /\ place[d] = "board" => status[d] = "complete"
    BY DEF OpenStops, IInv, TypeOK
  <2>. QED
    BY <2>1, <2>2 DEF Squad, LastOpenStop, StopsAreLive
<1>2. Crew(rows', g) = {}
  BY <1>1, CompleteRows DEF Crew, ActiveRows
<1>3. ASSUME NEW r \in Crew(rows, g) PROVE r \in SquadRowsBack(c)'
  <2>1. r \in released'[c].rows
    BY <1>1, CompleteRecord
  <2>2. /\ r \in DOMAIN rows /\ rows[r].owner = g /\ rows[r].res \notin Materials
        /\ rows'[r].owner = g /\ rows'[r].res \notin Materials /\ ~rows'[r].active
    BY <1>1, CompleteRows DEF Crew, ActiveRows
  <2>3. ~Holds(rows', g, rows'[r].res)
    BY <1>2, <2>2 DEF Holds, Crew
  <2>. QED
    BY <2>1, <2>2, <2>3 DEF SquadRowsBack, Holds, ActiveRows
<1>. QED
  BY <1>2, <1>3

\* No other completion touches the squad.
LEMMA OtherStopLeavesSquad ==
    ASSUME IInv, NEW c \in Cards, Complete(c), NEW g \in Groups,
           ~(group[c] = g /\ OpenStops(g) \subseteq {c})
    PROVE  Crew(rows', g) = Crew(rows, g)
<1>1. \A r \in Squad(c) : rows[r].owner # g
  <2>1. CASE group[c] = g
    <3>1. PICK d \in Cards \ {c} : group[d] = g /\ place[d] = "board" /\ status[d] = "open"
      BY <2>1 DEF OpenStops
    <3>. QED
      BY <2>1, <3>1 DEF Squad, LastOpenStop
  <2>2. CASE group[c] # g
    BY <2>2 DEF Squad, Crew, ActiveRows
  <2>. QED
    BY <2>1, <2>2
<1>2. c # g
  BY KindsAreDisjoint
<1>3. \A r \in DOMAIN rows :
         /\ rows'[r].owner = rows[r].owner /\ rows'[r].res = rows[r].res
         /\ rows[r].owner = g => (rows'[r].active <=> rows[r].active)
  BY <1>1, <1>2, CompleteRows
<1>. QED
  BY <1>3, CompleteRows DEF Crew, ActiveRows

LEMMA ClosingOneStop == IInv /\ StopsAreLive /\ [Next]_vars => [SquadWithTheRoute]_vars
<1> SUFFICES ASSUME IInv, StopsAreLive, Next, NEW c \in Cards, NEW g \in Groups,
                    Closes(c), place[c] # "absent"
             PROVE  IF group[c] = g /\ OpenStops(g) \subseteq {c}
                    THEN Crew(rows', g) = {} /\ Crew(rows, g) \subseteq SquadRowsBack(c)'
                    ELSE Crew(rows', g) = Crew(rows, g)
  BY DEF SquadWithTheRoute
<1>1. Complete(c)
  BY ClosingStep
<1>. QED
  BY <1>1, LastStopTakesSquad, OtherStopLeavesSquad

\* The shared squad of an Auftrag is released by the completion of its last
\* open stop on the board and by none before, and that completion's undo has
\* all of it to bring back (auto_release_group_resources_if_last_stop).
THEOREM SquadStaysOnTheRoute == Spec => SquadLeavesWithLastStop
<1>1. Spec => []IInv
  BY BoardInvariant
<1>2. Init => StopsAreLive
  BY DEF Init, StopsAreLive
<1>. QED
  BY <1>1, <1>2, NextStopsAreLive, ClosingOneStop, PTL
     DEF Spec, SquadLeavesWithLastStop, SquadWithTheRoute

-----------------------------------------------------------------------------
(* The leader of record. *)

\* Only people are stamped, so a stamp clears nobody.
LEMMA StampClearsNobody ==
    ASSUME TypeOK, NEW rs, NEW c \in Cards, NEW manual, NEW res, NEW d \in Cards,
           leaderRecord[d] # None
    PROVE  /\ StampLeader(rs, c, manual)[d] # None
           /\ RecordAfterChange(rs, c, res)[d] # None
<1>1. leaderRecord \in [Cards -> Personnel \cup {None}]
  BY DEF TypeOK
<1>2. ASSUME NEW m PROVE StampLeader(rs, c, m)[d] # None
  <2>. DEFINE winner == MostSenior(rs, Candidates(rs, c))
              w == CHOOSE r \in winner : TRUE
  <2>1. CASE m \/ winner = {}
    BY <2>1 DEF StampLeader
  <2>2. CASE ~m /\ winner # {}
    <3>1. w \in winner
      BY <2>2
    <3>2. rs[w].res \in Personnel
      BY <3>1 DEF MostSenior, Candidates, People
    <3>3. rs[w].res # None
      BY <3>2, KindsAreDisjoint DEF Resources
    <3>4. StampLeader(rs, c, m) = [leaderRecord EXCEPT ![c] = rs[w].res]
      BY <2>2 DEF StampLeader
    <3>. QED
      BY <1>1, <3>3, <3>4
  <2>. QED
    BY <2>1, <2>2
<1>. QED
  BY <1>2 DEF RecordAfterChange

\* The leader at the moment of closing, of whom there is one.
LEMMA CompleteFreezesLeader ==
    ASSUME IInv, NEW c \in Cards, Complete(c)
    PROVE  /\ \A r \in ActiveLeaders(rows, c) : leaderRecord'[c] = rows[r].res
           /\ \A d \in Cards : leaderRecord[d] # None => leaderRecord'[d] # None
<1>. DEFINE leaders == ActiveLeaders(rows, c)
            l == CHOOSE r \in leaders : TRUE
<1>0. leaderRecord \in [Cards -> Personnel \cup {None}] /\ OneLeader
  BY DEF IInv, TypeOK
<1>1. leaderRecord' = IF leaders = {} THEN leaderRecord
                      ELSE [leaderRecord EXCEPT ![c] = rows[l].res]
  BY DEF Complete, LeaderAtCompletion
<1>2. CASE leaders = {}
  BY <1>1, <1>2
<1>3. CASE leaders # {}
  <2>1. l \in leaders
    BY <1>3
  <2>2. \A r \in leaders : r = l
    BY <1>0, <2>1 DEF OneLeader, ActiveLeaders, People, ActiveRows
  <2>3. rows[l].res \in Personnel /\ None \notin Personnel
    BY <2>1, KindsAreDisjoint DEF ActiveLeaders, People, Resources
  <2>4. leaderRecord' = [leaderRecord EXCEPT ![c] = rows[l].res]
    BY <1>1, <1>3
  <2>. HIDE DEF l, leaders
  <2>5. leaderRecord'[c] = rows[l].res
    BY <1>0, <2>4
  <2>. QED
    BY <1>0, <2>2, <2>3, <2>4, <2>5 DEF leaders
<1>. QED
  BY <1>2, <1>3

LEMMA NothingClearsTheRecord ==
    ASSUME IInv, Next, NEW d \in Cards, leaderRecord[d] # None
    PROVE  leaderRecord'[d] # None
<1>0. TypeOK
  BY DEF IInv
<1>1. ASSUME leaderRecord' = leaderRecord PROVE leaderRecord'[d] # None
  BY <1>1
<1>2. CASE BoardOnly
  BY <1>1, <1>2 DEF BoardOnly, CreateIncident, PatchGroup, DeleteIncident, RestoreIncident,
                    RemoveStop, CreateGroup, AddStop, RekoStep, GrantReko, RevokeReko
<1>3. ASSUME NEW c \in Cards, NEW res \in Resources, AssignResource(c, res)
      PROVE  leaderRecord'[d] # None
  BY <1>0, <1>3, StampClearsNobody DEF AssignResource
<1>4. ASSUME NEW g \in Groups, \/ SoftDeleteGroup(g)
                                \/ \E res \in Resources : AssignGroupResource(g, res)
      PROVE  leaderRecord'[d] # None
  BY <1>4 DEF SoftDeleteGroup, AssignGroupResource
<1>5. ASSUME NEW r \in DOMAIN rows, UnassignResource(r) PROVE leaderRecord'[d] # None
  BY <1>0, <1>5, StampClearsNobody DEF UnassignResource
<1>6. ASSUME NEW r \in DOMAIN rows, PinLeader(r) PROVE leaderRecord'[d] # None
  <2>1. /\ rows[r].res \in Personnel
        /\ leaderRecord' = [leaderRecord EXCEPT ![rows[r].owner] = rows[r].res]
    BY <1>6 DEF PinLeader
  <2>2. rows[r].res # None
    BY <2>1, KindsAreDisjoint DEF Resources
  <2>. QED
    BY <1>0, <2>1, <2>2 DEF TypeOK
<1>7. ASSUME NEW r \in DOMAIN rows, UnpinLeader(r) PROVE leaderRecord'[d] # None
  BY <1>0, <1>7, StampClearsNobody DEF UnpinLeader
<1>8. ASSUME NEW r \in DOMAIN rows,
             UnassignGroupResource(r) \/ PinGroupLeader(r) \/ UnpinGroupLeader(r)
      PROVE  leaderRecord'[d] # None
  BY <1>8 DEF UnassignGroupResource, PinGroupLeader, UnpinGroupLeader
<1>9. ASSUME NEW a \in Cards, NEW b \in Cards, TransferAssignments(a, b)
      PROVE  leaderRecord'[d] # None
  <2>1. PICK one, two :
           leaderRecord' = [leaderRecord EXCEPT
                               ![a] = StampLeader(one, a, leaderManual[a])[a],
                               ![b] = StampLeader(two, b, leaderManual[b])[b]]
    BY <1>9 DEF TransferAssignments
  <2>2. \A e \in Cards : leaderRecord[e] # None =>
           /\ StampLeader(one, a, leaderManual[a])[e] # None
           /\ StampLeader(two, b, leaderManual[b])[e] # None
    BY <1>0, StampClearsNobody
  <2>. QED
    BY <1>0, <2>1, <2>2 DEF TypeOK
<1>10. ASSUME NEW c \in Cards, Complete(c) PROVE leaderRecord'[d] # None
  BY <1>10, CompleteFreezesLeader
<1>11. ASSUME NEW c \in Cards, Reopen(c) \/ CompleteAgain(c) PROVE leaderRecord'[d] # None
  BY <1>11 DEF Reopen, CompleteAgain, LeaveComplete
<1>. QED
  BY <1>2, <1>3, <1>4, <1>5, <1>6, <1>7, <1>8, <1>9, <1>10, <1>11
     DEF Next, CardStep, GroupStep, RowStep, BoardOnly

\* Only a reopening, or the creation of a card, takes a card out of "complete",
\* and neither moves the leader of record.
LEMMA ReopeningKeepsTheRecord ==
    ASSUME IInv, Next, NEW c \in Cards, status[c] = "complete", status'[c] = "open"
    PROVE  leaderRecord'[c] = leaderRecord[c]
<1>0. TypeOK
  BY DEF IInv
<1>1. CASE BoardOnly
  BY <1>1 DEF BoardOnly, CreateIncident, PatchGroup, DeleteIncident, RestoreIncident,
              RemoveStop, CreateGroup, AddStop, RekoStep, GrantReko, RevokeReko
<1>2. CASE CrewActions \/ \E a, b \in Cards : TransferAssignments(a, b)
  BY <1>2, CrewActionsAreCrewSteps, TransferIsCrewStep DEF CrewStep
<1>3. ASSUME NEW d \in Cards, Complete(d) PROVE FALSE
  BY <1>0, <1>3 DEF Complete, TypeOK
<1>4. ASSUME NEW d \in Cards, Reopen(d) \/ CompleteAgain(d)
      PROVE  leaderRecord'[c] = leaderRecord[c]
  BY <1>4 DEF Reopen, CompleteAgain, LeaveComplete
<1>. QED
  BY <1>1, <1>2, <1>3, <1>4 DEF Next, CardStep, GroupStep, BoardOnly, CrewActions

RecordKept ==
    \A c \in Cards :
        /\ leaderRecord[c] # None => leaderRecord'[c] # None
        /\ status[c] = "complete" /\ status'[c] = "open"
              => leaderRecord'[c] = leaderRecord[c]
        /\ Closes(c) =>
              \A r \in ActiveLeaders(rows, c) : leaderRecord'[c] = rows[r].res

LEMMA NextRecordKept == IInv /\ [Next]_vars => [RecordKept]_vars
<1> SUFFICES ASSUME IInv, Next, NEW c \in Cards
             PROVE  /\ leaderRecord[c] # None => leaderRecord'[c] # None
                    /\ status[c] = "complete" /\ status'[c] = "open"
                          => leaderRecord'[c] = leaderRecord[c]
                    /\ Closes(c) =>
                          \A r \in ActiveLeaders(rows, c) : leaderRecord'[c] = rows[r].res
  BY DEF RecordKept
<1>1. ASSUME Closes(c), NEW r \in ActiveLeaders(rows, c) PROVE leaderRecord'[c] = rows[r].res
  <2>1. r \in DOMAIN rows /\ rows[r].owner = c
    BY DEF ActiveLeaders, People, ActiveRows
  <2>. QED
    BY <1>1, <2>1, ClosingStep, CompleteFreezesLeader
<1>. QED
  BY <1>1, NothingClearsTheRecord, ReopeningKeepsTheRecord

\* The record an Einsatz is written up with names who led when the card was
\* closed; reopening it does not touch the name and nothing ever clears it.
THEOREM LeaderStaysOnRecord == Spec => LeaderOfRecordKept
<1>1. Spec => []IInv
  BY BoardInvariant
<1>. QED
  BY <1>1, NextRecordKept, PTL DEF Spec, LeaderOfRecordKept, RecordKept

-----------------------------------------------------------------------------
(* The flag after an undo. *)

\* On a pinned card the record of a completion names at most one former leader,
\* the one who carried the flag.
LEMMA PinnedRecordNamesOne ==
    ASSUME IInv, NEW c \in Cards, Complete(c), leaderManual[c],
           NEW r \in ActiveLeaders(rows, c)
    PROVE  released'[c].led = {r}
<1>1. /\ r \in DOMAIN rows /\ rows[r].owner = c /\ rows[r].active
      /\ rows[r].leader /\ rows[r].res \in Personnel
  BY DEF ActiveLeaders, People, ActiveRows
<1>2. r \in Crew(rows, c)
  BY <1>1, KindsAreDisjoint DEF Crew, ActiveRows
<1>3. \A s \in Crew(rows, c) : WasLeader(rows, c, s) <=> rows[s].leader
  BY DEF WasLeader
<1>4. ASSUME NEW s \in Crew(rows, c), rows[s].leader PROVE s = r
  <2>1. s \in DOMAIN rows /\ rows[s].owner = c /\ rows[s].active
    BY DEF Crew, ActiveRows
  <2>. QED
    BY <1>1, <1>4, <2>1 DEF IInv, OneLeader
<1>5. released'[c].led = {s \in Crew(rows, c) : WasLeader(rows, c, s)}
  BY CompleteRecord
<1>. QED
  BY <1>1, <1>2, <1>3, <1>4, <1>5

\* What RestoredRows does to the rows, in the state after the completion.
LEMMA RestoredNext ==
    ASSUME rows' \in Seq(Row), NEW c \in Cards
    PROVE  LET back == RestoredRows(c)'
           IN  /\ DOMAIN back = DOMAIN rows'
               /\ \A r \in DOMAIN rows' :
                     /\ back[r] \in Row
                     /\ back[r].owner = rows'[r].owner /\ back[r].res = rows'[r].res
                     /\ back[r].active =>
                           rows'[r].active \/ r \in CardRowsBack(c)' \cup SquadRowsBack(c)'
                     /\ r \in CardRowsBack(c)' => back[r].active /\ back[r].leader = FALSE
<1>. DEFINE cards == CardRowsBack(c)'
            squad == SquadRowsBack(c)'
            back  == RestoredRows(c)'
<1>1. back = [r \in DOMAIN rows' |->
                IF r \in cards THEN [rows'[r] EXCEPT !.active = TRUE, !.leader = FALSE]
                ELSE IF r \in squad THEN [rows'[r] EXCEPT !.active = TRUE]
                ELSE rows'[r]]
  BY DEF RestoredRows
<1>2. \A r \in DOMAIN rows' : rows'[r] \in Row
  BY ElementOfSeq, LenProperties
<1>. HIDE DEF cards, squad, back
<1>3. DOMAIN back = DOMAIN rows'
  BY <1>1
<1>4. ASSUME NEW r \in DOMAIN rows'
      PROVE  /\ back[r] \in Row
             /\ back[r].owner = rows'[r].owner /\ back[r].res = rows'[r].res
             /\ back[r].active => rows'[r].active \/ r \in cards \cup squad
             /\ r \in cards => back[r].active /\ back[r].leader = FALSE
  <2>1. CASE r \in cards
    <3>1. back[r] = [rows'[r] EXCEPT !.active = TRUE, !.leader = FALSE]
      BY <1>1, <2>1
    <3>. QED
      BY <1>2, <2>1, <3>1 DEF Row
  <2>2. CASE r \notin cards /\ r \in squad
    <3>1. back[r] = [rows'[r] EXCEPT !.active = TRUE]
      BY <1>1, <2>2
    <3>. QED
      BY <1>2, <2>2, <3>1 DEF Row
  <2>3. CASE r \notin cards /\ r \notin squad
    <3>1. back[r] = rows'[r]
      BY <1>1, <2>3
    <3>. QED
      BY <1>2, <2>3, <3>1
  <2>. QED
    BY <2>1, <2>2, <2>3
<1>. QED
  BY <1>3, <1>4 DEF cards, squad, back

\* Nobody on the closed card holds the flag when its crew is put back, so the
\* one former leader gets it.
LEMMA PinnedLeaderRestored ==
    ASSUME IInv, NEW c \in Cards, Complete(c), leaderManual[c],
           NEW r \in ActiveLeaders(rows, c), r \in CardRowsBack(c)',
           NEW rs \in RestoredLeader(c)'
    PROVE  rs[r].leader
<1>. DEFINE back == RestoredRows(c)'
<1>0. rows' \in Seq(Row)
  BY CompleteRows DEF RowsSound
<1>1. /\ DOMAIN back = DOMAIN rows'
      /\ \A s \in DOMAIN rows' :
            /\ back[s] \in Row
            /\ back[s].owner = rows'[s].owner /\ back[s].res = rows'[s].res
            /\ back[s].active => rows'[s].active \/ s \in CardRowsBack(c)' \cup SquadRowsBack(c)'
            /\ s \in CardRowsBack(c)' => back[s].active /\ back[s].leader = FALSE
  BY <1>0, RestoredNext
<1>2. /\ r \in DOMAIN rows /\ rows[r].owner = c /\ rows[r].res \in Personnel
  BY DEF ActiveLeaders, People, ActiveRows
<1>3. r \in DOMAIN rows' /\ rows'[r].owner = c /\ rows'[r].res \in Personnel
  BY <1>2, CompleteRows
<1>4. \A s \in SquadRowsBack(c)' : rows'[s].owner # c
  BY KindsAreDisjoint DEF SquadRowsBack
<1>. DEFINE led == released'[c].led
<1>5. led = {r}
  BY PinnedRecordNamesOne
<1>6. /\ ActiveLeaders(back, c) = {s \in People(back, c) : back[s].leader}
      /\ People(back, c) = {s \in DOMAIN back : /\ back[s].owner = c /\ back[s].active
                                              /\ back[s].res \in Personnel}
  BY DEF ActiveLeaders, People, ActiveRows
<1>7. FormerLeaders(c)' = {s \in led : s \in People(back, c)}
  BY DEF FormerLeaders, People, ActiveRows
<1>8. ASSUME CardRowsBack(c)' # {}, ActiveLeaders(back, c) = {}, FormerLeaders(c)' # {}
      PROVE  rs \in {[back EXCEPT ![s].leader = TRUE] : s \in FormerLeaders(c)'}
  BY <1>8 DEF RestoredLeader, ActiveLeaders, People, ActiveRows
<1>. HIDE DEF back, led
<1>9. ASSUME NEW s \in People(back, c) PROVE ~back[s].leader
  <2>1. s \in DOMAIN rows' /\ rows'[s].owner = c /\ rows'[s].res \in Personnel /\ back[s].active
    BY <1>1, <1>6
  <2>2. ~rows'[s].active
    <3>1. Crew(rows', c) = {}
      BY CompleteEmptiesCard
    <3>. QED
      BY <2>1, <3>1, KindsAreDisjoint DEF Crew, ActiveRows
  <2>3. s \in CardRowsBack(c)'
    BY <1>1, <1>4, <2>1, <2>2
  <2>. QED
    BY <1>1, <2>1, <2>3
<1>10. r \in People(back, c)
  BY <1>1, <1>3, <1>6
<1>11. FormerLeaders(c)' = {r} /\ ActiveLeaders(back, c) = {}
  BY <1>5, <1>6, <1>7, <1>9, <1>10
<1>12. rs = [back EXCEPT ![r].leader = TRUE]
  BY <1>8, <1>11
<1>13. back[r] \in Row /\ r \in DOMAIN back
  BY <1>1, <1>3
<1>. QED
  BY <1>12, <1>13 DEF Row

PinnedComesBack == \A c \in Cards : Closes(c) /\ leaderManual[c] => LeaderComesBack(c)

LEMMA NextPinnedComesBack == IInv /\ [Next]_vars => [PinnedComesBack]_vars
<1> SUFFICES ASSUME IInv, Next, NEW c \in Cards, Closes(c), leaderManual[c],
                    NEW r \in ActiveLeaders(rows, c), r \in CardRowsBack(c)',
                    NEW rs \in RestoredLeader(c)'
             PROVE  rs[r].leader
  BY DEF PinnedComesBack, LeaderComesBack
<1>1. r \in DOMAIN rows /\ rows[r].owner = c
  BY DEF ActiveLeaders, People, ActiveRows
<1>. QED
  BY <1>1, ClosingStep, PinnedLeaderRestored

\* A leader picked by hand and sent home with the crew is the leader again
\* whenever an undo puts that person back, whatever the query's order
\* (_restore_leader).
THEOREM PickedLeaderReturns == Spec => PinnedLeaderComesBack
<1>1. Spec => []IInv
  BY BoardInvariant
<1>. QED
  BY <1>1, NextPinnedComesBack, PTL DEF Spec, PinnedLeaderComesBack, PinnedComesBack

-----------------------------------------------------------------------------
(* Who leads when nobody picked. *)

\* Every set of numbers that is not empty has a smallest one.
LEMMA SmallestNumber ==
    ASSUME NEW T \in SUBSET Nat, T # {}
    PROVE  \E x \in T : \A y \in T : x <= y
<1>. DEFINE less == OpToRel(<, Nat)
<1>1. IsWellFoundedOn(less, Nat)
  BY NatLessThanWellFounded, Zenon
<1>2. \A x, y \in Nat : y < x => <<y, x>> \in less
  BY DEF OpToRel
<1>. HIDE DEF less
<1>3. PICK x \in T : \A y \in T : ~(<<y, x>> \in less)
  BY <1>1, WFMin
<1>4. \A y \in T : x \in Nat /\ y \in Nat /\ ~(y < x)
  BY <1>2, <1>3
<1>. QED
  BY <1>4

\* Among any candidates there is a most senior one: the best rank is taken by
\* somebody, and of those who have it one was assigned first.
LEMMA SomebodyIsMostSenior ==
    ASSUME NEW rs \in Seq(Row), NEW o, Candidates(rs, o) # {}
    PROVE  MostSenior(rs, Candidates(rs, o)) # {}
<1>. DEFINE S == Candidates(rs, o)
            ranks == {Rank[rs[r].res] : r \in S}
<1>1. \A r \in S : r \in Nat /\ rs[r].res \in Personnel
  BY LenProperties DEF Candidates, People, ActiveRows
<1>2. \A r \in S : Rank[rs[r].res] \in Nat
  BY <1>1, RanksAreNumbers
<1>. HIDE DEF S
<1>3. ranks \in SUBSET Nat /\ ranks # {}
  BY <1>2 DEF S
<1>4. PICK k \in ranks : \A j \in ranks : k <= j
  BY <1>3, SmallestNumber
<1>. DEFINE best == {r \in S : Rank[rs[r].res] = k}
<1>5. best \in SUBSET Nat /\ best # {}
  BY <1>1, <1>4
<1>6. PICK r \in best : \A s \in best : r <= s
  BY <1>5, SmallestNumber
<1>7. ASSUME NEW s \in S \ {r} PROVE Outranks(rs, r, s)
  <2>1. r \in S /\ Rank[rs[r].res] = k /\ k <= Rank[rs[s].res] /\ k \in Nat
    BY <1>3, <1>4, <1>6
  <2>2. CASE s \in best
    BY <1>1, <1>6, <2>1, <2>2 DEF Outranks
  <2>3. CASE s \notin best
    BY <1>2, <2>1, <2>3 DEF Outranks
  <2>. QED
    BY <2>2, <2>3
<1>8. r \in MostSenior(rs, S)
  BY <1>6, <1>7 DEF MostSenior
<1>. QED
  BY <1>8 DEF S

LEMMA SamePeople ==
    ASSUME NEW rs, NEW f, SameHolders(rs, f), NEW o
    PROVE  People(f, o) = People(rs, o) /\ Candidates(f, o) = Candidates(rs, o)
BY DEF SameHolders, People, ActiveRows, Candidates

\* The sync of an owner nobody was picked for leaves it with a leader, if it has
\* a candidate, and does not touch another owner's.
LEMMA SyncGivesLeader ==
    ASSUME NEW rs, RowsSound(rs), NEW o, NEW manual \in BOOLEAN, NEW p
    PROVE  LET f == SyncAutoLeader(rs, o, manual)
           IN  /\ ~manual /\ Candidates(f, o) # {} => ActiveLeaders(f, o) # {}
               /\ p # o => ActiveLeaders(f, p) = ActiveLeaders(rs, p)
<1>. DEFINE f == SyncAutoLeader(rs, o, manual)
<1>1. rs \in Seq(Row) /\ SameHolders(rs, f)
  BY SyncSound DEF RowsSound
<1>2. People(f, o) = People(rs, o) /\ Candidates(f, o) = Candidates(rs, o)
      /\ People(f, p) = People(rs, p)
  BY <1>1, SamePeople
<1>3. ASSUME ~manual, Candidates(f, o) # {} PROVE ActiveLeaders(f, o) # {}
  <2>1. PICK w : w \in MostSenior(rs, Candidates(rs, o))
    BY <1>1, <1>2, <1>3, SomebodyIsMostSenior
  <2>2. w \in People(rs, o) /\ w \in DOMAIN rs
    BY <2>1 DEF MostSenior, Candidates, People, ActiveRows
  <2>. DEFINE flag == w \in MostSenior(rs, Candidates(rs, o))
  <2>3. f[w] = [rs[w] EXCEPT !.leader = flag]
    BY <1>3, <2>2 DEF SyncAutoLeader
  <2>4. rs[w] \in Row
    BY <1>1, <2>2, ElementOfSeq, LenProperties
  <2>5. flag
    BY <2>1
  <2>. HIDE DEF flag
  <2>6. f[w].leader
    BY <2>3, <2>4, <2>5 DEF Row
  <2>. QED
    BY <1>2, <2>2, <2>6 DEF ActiveLeaders
<1>4. ASSUME p # o PROVE ActiveLeaders(f, p) = ActiveLeaders(rs, p)
  <2>1. ASSUME NEW r \in People(rs, p) PROVE f[r] = rs[r]
    BY <1>4, <2>1 DEF SyncAutoLeader, People, ActiveRows
  <2>. HIDE DEF f
  <2>. QED
    BY <1>2, <2>1 DEF ActiveLeaders
<1>. QED
  BY <1>3, <1>4

\* What AutoLeadHandedOn says of a step and an owner o.
HandedOn(o) ==
    /\ ~leaderManual'[o]
    /\ People(rows', o) # People(rows, o)
    /\ o \in Cards \/ DOMAIN rows \cap People(rows', o) \subseteq People(rows, o)
    /\ Candidates(rows, o)' # {}
    => ActiveLeaders(rows', o) # {}

\* A change of one owner's crew derives that owner's leader anew.
LEMMA ChangeHandsOn ==
    ASSUME TypeOK, NEW mid, RowsSound(mid), NEW x \in Owners, NEW res, NEW o \in Owners,
           o # x \/ res \notin Personnel => People(mid, o) = People(rows, o),
           rows' = RowsAfterChange(mid, x, res), reko' = reko, leaderManual' = leaderManual
    PROVE  HandedOn(o)
<1> SUFFICES ASSUME People(rows', o) # People(rows, o), ~leaderManual[o],
                    Candidates(rows, o)' # {}
             PROVE  ActiveLeaders(rows', o) # {}
  BY DEF HandedOn
<1>1. SameHolders(mid, rows')
  BY ChangeSound
<1>2. People(rows', o) = People(mid, o)
  BY <1>1, SamePeople
<1>3. o = x /\ res \in Personnel
  BY <1>2
<1>4. rows' = SyncAutoLeader(mid, o, FALSE)
  BY <1>3 DEF RowsAfterChange, TypeOK
<1>5. Candidates(rows', o) # {}
  BY DEF Candidates, People, ActiveRows
<1>. QED
  BY <1>4, <1>5, SyncGivesLeader

LEMMA FlagsHandOn ==
    ASSUME SameHolders(rows, rows'), NEW o PROVE HandedOn(o)
BY SamePeople DEF HandedOn

LEMMA CrewActionHandsOn ==
    ASSUME IInv, CrewActions, NEW o \in Owners
    PROVE  HandedOn(o)
<1>0. TypeOK /\ rows \in Seq(Row) /\ RowsSound(rows)
  BY RowInvariants DEF IInv, TypeOK, RowsSound
<1>1. ASSUME NEW x \in Owners, NEW res \in Resources, ~Holds(rows, x, res),
             rows' = RowsAfterChange(Append(rows, NewRow(x, res)), x, res),
             reko' = reko, leaderManual' = leaderManual
      PROVE  HandedOn(o)
  <2>. DEFINE mid == Append(rows, NewRow(x, res))
              n == Len(rows) + 1
  <2>1. RowsSound(mid)
    BY <1>0, <1>1, AddSound
  <2>2. /\ DOMAIN mid = DOMAIN rows \cup {n}
        /\ \A r \in DOMAIN rows : mid[r] = rows[r]
        /\ mid[n].owner = x /\ mid[n].res = res
    BY <1>0, AppendedRow DEF NewRow
  <2>. HIDE DEF mid, n
  <2>3. o # x \/ res \notin Personnel => People(mid, o) = People(rows, o)
    BY <2>2 DEF People, ActiveRows
  <2>. QED
    BY <1>0, <1>1, <2>1, <2>3, ChangeHandsOn DEF mid
<1>2. ASSUME NEW r \in DOMAIN rows,
             rows' = RowsAfterChange(Release(rows, {r}), rows[r].owner, rows[r].res),
             reko' = reko, leaderManual' = leaderManual
      PROVE  HandedOn(o)
  <2>. DEFINE mid == Release(rows, {r})
  <2>. rows[r] \in Row
    BY <1>0, <1>2, ElementOfSeq, LenProperties
  <2>0. rows[r].owner \in Owners
    BY DEF Row
  <2>1. RowsSound(mid)
    BY <1>0, ReleaseSound
  <2>2. /\ DOMAIN mid = DOMAIN rows
        /\ \A s \in DOMAIN rows :
              /\ mid[s].owner = rows[s].owner /\ mid[s].res = rows[s].res
              /\ mid[s].active <=> rows[s].active /\ s # r
    BY <1>0, ReleasedRows
  <2>. HIDE DEF mid
  <2>3. o # rows[r].owner \/ rows[r].res \notin Personnel => People(mid, o) = People(rows, o)
    BY <2>2 DEF People, ActiveRows
  <2>. QED
    BY <1>0, <1>2, <2>0, <2>1, <2>3, ChangeHandsOn DEF mid
<1>3. ASSUME NEW c \in Cards, NEW res \in Resources, AssignResource(c, res) PROVE HandedOn(o)
  BY <1>1, <1>3 DEF AssignResource, Owners
<1>4. ASSUME NEW g \in Groups, NEW res \in Resources, AssignGroupResource(g, res)
      PROVE  HandedOn(o)
  BY <1>1, <1>4 DEF AssignGroupResource, Owners
<1>5. ASSUME NEW r \in DOMAIN rows, UnassignResource(r) \/ UnassignGroupResource(r)
      PROVE  HandedOn(o)
  BY <1>2, <1>5 DEF UnassignResource, UnassignGroupResource
<1>6. ASSUME NEW r \in DOMAIN rows,
             PinLeader(r) \/ UnpinLeader(r) \/ PinGroupLeader(r) \/ UnpinGroupLeader(r)
      PROVE  HandedOn(o)
  <2>1. rows[r].res \in Personnel /\ (rows' = MarkLeader(rows, r) \/ rows' = UnmarkLeader(rows, r))
    BY <1>6 DEF PinLeader, UnpinLeader, PinGroupLeader, UnpinGroupLeader
  <2>. QED
    BY <1>0, <1>6, <2>1, MarkedRows, UnmarkedRows, FlagsHandOn
<1>7. ASSUME NEW g \in Groups, SoftDeleteGroup(g) PROVE HandedOn(o)
  <2>1. rows' = ReleaseSquad(rows, ActiveRows(rows, g))
    BY <1>7 DEF SoftDeleteGroup
  <2>2. /\ DOMAIN rows' = DOMAIN rows
        /\ \A s \in DOMAIN rows :
              /\ rows'[s].owner = rows[s].owner /\ rows'[s].res = rows[s].res
              /\ rows'[s].active <=> rows[s].active /\ s \notin ActiveRows(rows, g)
    BY <1>0, <2>1, ReleasedSquadRows
  <2>3. CASE o = g
    <3>1. Candidates(rows, o)' = {}
      BY <2>2, <2>3 DEF Candidates, People, ActiveRows
    <3>. QED
      BY <3>1 DEF HandedOn
  <2>4. CASE o # g
    <3>1. People(rows', o) = People(rows, o)
      BY <2>2, <2>4 DEF People, ActiveRows
    <3>. QED
      BY <3>1 DEF HandedOn
  <2>. QED
    BY <2>3, <2>4
<1>. QED
  BY <1>3, <1>4, <1>5, <1>6, <1>7 DEF CrewActions, RowStep

\* A transfer derives both owners' leaders, the second without touching the first.
LEMMA TransferHandsOn ==
    ASSUME IInv, NEW c \in Cards, NEW d \in Cards, TransferAssignments(c, d), NEW o \in Owners
    PROVE  HandedOn(o)
<1> SUFFICES ASSUME People(rows', o) # People(rows, o), ~leaderManual'[o],
                    Candidates(rows, o)' # {}
             PROVE  ActiveLeaders(rows', o) # {}
  BY DEF HandedOn
<1>0. TypeOK /\ reko' = reko /\ leaderManual' = leaderManual /\ c # d
  BY DEF IInv, TransferAssignments
<1>1. PICK added :
        /\ RowsSound(added)
        /\ rows' = SyncAutoLeader(SyncAutoLeader(added, c, leaderManual[c]), d, leaderManual[d])
        /\ DOMAIN rows \subseteq DOMAIN added
        /\ \A r \in DOMAIN rows :
              /\ added[r].owner = rows[r].owner /\ added[r].res = rows[r].res
              /\ added[r].active => rows[r].active
              /\ rows[r].active /\ rows[r].owner # c => added[r].active
        /\ \A r \in DOMAIN added \ DOMAIN rows : added[r].owner = d
  BY TransferredRows
<1>. DEFINE left == SyncAutoLeader(added, c, leaderManual[c])
<1>2. leaderManual[c] \in BOOLEAN /\ leaderManual[d] \in BOOLEAN
  BY <1>0 DEF TypeOK, Owners
<1>3. SameHolders(added, left) /\ RowsSound(left)
  BY <1>1, <1>2, SyncSound
<1>4. SameHolders(left, rows')
  BY <1>1, <1>2, <1>3, SyncSound
<1>5. /\ Candidates(rows', o) # {} /\ Candidates(left, o) # {}
      /\ People(rows', o) = People(added, o)
  <2>1. Candidates(rows', o) # {}
    BY <1>0 DEF Candidates, People, ActiveRows
  <2>. QED
    BY <1>3, <1>4, <2>1, SamePeople
<1>6. CASE o = d
  BY <1>0, <1>1, <1>2, <1>3, <1>5, <1>6, SyncGivesLeader
<1>7. CASE o = c
  <2>1. ActiveLeaders(left, o) # {}
    BY <1>0, <1>1, <1>2, <1>5, <1>7, SyncGivesLeader
  <2>2. ActiveLeaders(rows', o) = ActiveLeaders(left, o)
    BY <1>0, <1>1, <1>2, <1>3, <1>7, SyncGivesLeader
  <2>. QED
    BY <2>1, <2>2
<1>8. CASE o # c /\ o # d
  <2>1. People(added, o) = People(rows, o)
    BY <1>1, <1>8 DEF People, ActiveRows
  <2>. QED
    BY <1>5, <2>1
<1>. QED
  BY <1>6, <1>7, <1>8

\* Whom a completion sends home needs no leader: the whole crew goes.
LEMMA CompleteHandsOn ==
    ASSUME IInv, NEW c \in Cards, Complete(c), NEW o \in Owners
    PROVE  HandedOn(o)
<1>1. CASE People(rows', o) = People(rows, o)
  BY <1>1 DEF HandedOn
<1>2. CASE People(rows', o) # People(rows, o)
  <2>1. PICK r \in DOMAIN rows : rows[r].owner = o /\ r \in Crew(rows, c) \cup Squad(c)
    BY <1>2, CompleteRows DEF People, ActiveRows
  <2>2. CASE r \in Crew(rows, c)
    <3>1. o = c
      BY <2>1, <2>2, CompleteRows
    <3>2. People(rows', o) = {}
      BY <3>1, CompleteEmptiesCard, KindsAreDisjoint DEF Crew, People
    <3>. QED
      BY <3>2 DEF HandedOn, Candidates, People, ActiveRows
  <2>3. CASE r \in Squad(c)
    <3>1. Squad(c) = Crew(rows, group[c]) /\ o = group[c]
      BY <2>1, <2>3 DEF Squad, Crew, ActiveRows
    <3>2. \A s \in DOMAIN rows : s \in People(rows, o) => s \in Squad(c)
      BY <3>1, KindsAreDisjoint DEF Crew, People
    <3>3. People(rows', o) = {}
      BY <3>2, CompleteRows DEF People, ActiveRows
    <3>. QED
      BY <3>3 DEF HandedOn, Candidates, People, ActiveRows
  <2>. QED
    BY <2>1, <2>2, <2>3
<1>. QED
  BY <1>1, <1>2

\* An undo that puts somebody back onto its card leaves the card with a leader:
\* the one it has, a former one, or one derived anew.
LEMMA LeaveCompleteHandsOn ==
    ASSUME IInv, NEW c \in Cards, NEW new \in {"open", "complete"}, LeaveComplete(c, new),
           NEW o \in Owners
    PROVE  HandedOn(o)
<1> SUFFICES ASSUME People(rows', o) # People(rows, o),
                    o \in Cards \/ DOMAIN rows \cap People(rows', o) \subseteq People(rows, o),
                    ~leaderManual[o], Candidates(rows, o)' # {}
             PROVE  ActiveLeaders(rows', o) # {}
  BY DEF HandedOn, LeaveComplete
<1>. DEFINE back  == RestoredRows(c)
            cards == CardRowsBack(c)
            squad == SquadRowsBack(c)
<1>1. ~SquadLeaderClash(c) /\ rows' \in RestoredLeader(c) /\ reko' = reko
  BY DEF LeaveComplete
<1>2. SameHolders(back, rows')
  BY <1>1, RestoredLeaderSound
<1>3. /\ RowsSound(back) /\ DOMAIN back = DOMAIN rows
      /\ \A s \in DOMAIN rows :
            /\ back[s].owner = rows[s].owner /\ back[s].res = rows[s].res
            /\ back[s].active <=> rows[s].active \/ s \in cards \cup squad
  BY <1>1, RestoredRowsSound
<1>4. /\ \A s \in cards : rows[s].owner = c
      /\ \A s \in squad : rows[s].owner \notin Cards
  BY KindsAreDisjoint DEF CardRowsBack, SquadRowsBack, IInv, UndoRecordSound
<1>5. leaderManual[c] \in BOOLEAN
  BY DEF IInv, TypeOK, Owners
<1>6. /\ ActiveLeaders(back, c) = {s \in People(back, c) : back[s].leader}
      /\ ActiveLeaders(rows', c) = {s \in People(rows', c) : rows'[s].leader}
  BY DEF ActiveLeaders
<1>7. \/ cards = {}
      \/ ActiveLeaders(back, c) # {} /\ rows' = back
      \/ \E r \in People(back, c) : rows' = [back EXCEPT ![r].leader = TRUE]
      \/ rows' = SyncAutoLeader(back, c, leaderManual[c])
  BY <1>1 DEF RestoredLeader, FormerLeaders
<1>. HIDE DEF back, cards, squad
<1>8. People(rows', o) = People(back, o) /\ People(rows', c) = People(back, c)
  BY <1>2, SamePeople
<1>9. People(rows, o) \subseteq People(back, o) /\ People(back, o) \subseteq DOMAIN rows
  BY <1>3 DEF People, ActiveRows
<1>10. o \in Cards
  BY <1>8, <1>9
<1>11. PICK r \in People(back, o) : r \notin People(rows, o)
  BY <1>8, <1>9
<1>12. r \in cards /\ o = c
  BY <1>3, <1>4, <1>10, <1>11 DEF People, ActiveRows
<1>13. CASE ActiveLeaders(back, c) # {} /\ rows' = back
  BY <1>12, <1>13
<1>14. ASSUME NEW s \in People(back, c), rows' = [back EXCEPT ![s].leader = TRUE]
       PROVE  ActiveLeaders(rows', o) # {}
  <2>1. s \in DOMAIN back
    BY DEF People, ActiveRows
  <2>2. back[s] \in Row
    BY <1>3, <2>1, ElementOfSeq, LenProperties DEF RowsSound
  <2>3. rows'[s].leader
    BY <1>14, <2>1, <2>2 DEF Row
  <2>. QED
    BY <1>6, <1>8, <1>12, <2>3
<1>15. CASE rows' = SyncAutoLeader(back, c, leaderManual[c])
  <2>1. Candidates(rows', c) # {}
    BY <1>1, <1>12 DEF Candidates, People, ActiveRows
  <2>. QED
    BY <1>3, <1>5, <1>12, <1>15, <2>1, SyncGivesLeader
<1>. QED
  BY <1>7, <1>12, <1>13, <1>14, <1>15

LeadHandedOn == \A o \in Owners : HandedOn(o)

LEMMA NextHandsOn == IInv /\ [Next]_vars => [LeadHandedOn]_vars
<1> SUFFICES ASSUME IInv, Next, NEW o \in Owners PROVE HandedOn(o)
  BY DEF LeadHandedOn
<1>1. CASE BoardOnly
  <2>1. rows' = rows
    BY <1>1 DEF BoardOnly, CreateIncident, PatchGroup, DeleteIncident, RestoreIncident,
                RemoveStop, CreateGroup, AddStop, RekoStep, GrantReko, RevokeReko
  <2>. QED
    BY <2>1 DEF HandedOn
<1>2. CASE CrewActions
  BY <1>2, CrewActionHandsOn
<1>3. ASSUME NEW c \in Cards, NEW d \in Cards, TransferAssignments(c, d) PROVE HandedOn(o)
  BY <1>3, TransferHandsOn
<1>4. ASSUME NEW c \in Cards, Complete(c) PROVE HandedOn(o)
  BY <1>4, CompleteHandsOn
<1>5. ASSUME NEW c \in Cards, Reopen(c) \/ CompleteAgain(c) PROVE HandedOn(o)
  BY <1>5, LeaveCompleteHandsOn DEF Reopen, CompleteAgain
<1>. QED
  BY <1>1, <1>2, <1>3, <1>4, <1>5 DEF Next, CardStep, GroupStep, BoardOnly, CrewActions

\* However many people of whatever ranks join, leave, change cards or come back
\* from a completion: where nobody was picked by hand and somebody can lead,
\* somebody does (sync_auto_leader, sync_auto_group_leader, _restore_leader).
THEOREM SomebodyAlwaysTakesOver == Spec => AutoLeadHandedOn
<1>1. Spec => []IInv
  BY BoardInvariant
<1>. QED
  BY <1>1, NextHandsOn, PTL DEF Spec, AutoLeadHandedOn, LeadHandedOn, HandedOn

=============================================================================
