--------------------------- MODULE BoardSyncProofs ---------------------------
(***************************************************************************)
(* What holds of the board's loader, its cooldown and its fallback for any  *)
(* number of changes, requests, lost sockets and switches.                  *)
(***************************************************************************)
EXTENDS BoardSync, FiniteSetTheorems, SequenceTheorems, TLAPS

Scheds == [load : Loads, follow : Follows, debounce : BOOLEAN, pending : BOOLEAN]

(* The scheduler as the code keeps it: a follow-up only behind a running    *)
(* load, and nobody waiting for an automatic one.                           *)
Kept(s) ==
  /\ ~s.follow.on => s.follow.waiters = 0
  /\ s.follow.auto => s.follow.waiters = 0
  /\ ~Running(s.load) => s.load.waiters = 0 /\ ~s.follow.on

(* Some load to come will read `c`. *)
Coming(s, c) == s.debounce \/ s.follow.on \/ s.pending \/ WillRead(s.load, c)

(* A load just started, not automatic while it is held back. *)
Started(l, cool) ==
  /\ l.phase = "version" /\ ~l.stale /\ l.gen = bounds.switches /\ l.ev = here /\ l.got = {}
  /\ l.auto => ~cool
-----------------------------------------------------------------------------
(* The scheduler's operators. *)

LEMMA LoadTypes ==
  ASSUME here \in Events, bounds \in [drops : Nat, fails : Nat, switches : Nat],
         NEW auto \in BOOLEAN, NEW w \in Nat
  PROVE  /\ NewLoad(auto, w) \in Loads /\ NoLoad \in Loads /\ NoVersion \in Versions
         /\ NewLoad(auto, w).waiters = w /\ NewLoad(auto, w).auto = auto
         /\ Running(NewLoad(auto, w)) /\ ~Running(NoLoad) /\ NoLoad.waiters = 0
         /\ (auto => FALSE) => Started(NewLoad(auto, w), TRUE)
         /\ Started(NewLoad(auto, w), FALSE)
  BY ChangesAssumption
  DEF NewLoad, NoLoad, NoVersion, Loads, Versions, Running, Started

LEMMA SettledParts ==
  ASSUME NEW s \in Scheds, NEW cool \in BOOLEAN,
         here \in Events, bounds \in [drops : Nat, fails : Nat, switches : Nat]
  PROVE  LET r == Settled(s, cool)
             again == s.follow.on /\ ~(s.follow.auto /\ cool)
         IN /\ r \in Scheds /\ r.debounce = s.debounce /\ r.follow = NoFollow
            /\ again => r.load = NewLoad(s.follow.auto, s.follow.waiters) /\ r.pending = s.pending
            /\ ~again => r.load = NoLoad
            /\ ~again /\ s.follow.on => r.pending = TRUE
            /\ ~s.follow.on => r.pending = s.pending
<1>1. s.follow.auto \in BOOLEAN /\ s.follow.waiters \in Nat /\ NoFollow \in Follows
  BY DEF Scheds, Follows, NoFollow
<1>2. NewLoad(s.follow.auto, s.follow.waiters) \in Loads /\ NoLoad \in Loads
  BY <1>1, LoadTypes
<1>3. [s EXCEPT !.load = NoLoad, !.follow = NoFollow] \in Scheds
  BY <1>1, <1>2 DEF Scheds
<1> QED
  BY <1>1, <1>2, <1>3 DEF Settled, Scheds

(* What asking for a load does. *)

Lasts(s, r, cool) == r.load = s.load \/ Started(r.load, cool)

Asked(s, auto, w, cool, r) ==
  /\ r \in Scheds
  /\ r.pending => s.pending \/ (auto /\ cool)
  /\ Kept(s) /\ (auto => w = 0) =>
       /\ Kept(r)
       /\ r.load.waiters + r.follow.waiters = s.load.waiters + s.follow.waiters + w
  /\ Lasts(s, r, cool)
  /\ Running(s.load) => r.load = s.load /\ r.follow.on
  /\ ~Running(r.load) => r.pending /\ ~Running(s.load)
  /\ \A c : Coming(r, c)

LEMMA Enqueued ==
  ASSUME NEW s \in Scheds, NEW auto \in BOOLEAN, NEW w \in Nat, NEW cool \in BOOLEAN,
         here \in Events, bounds \in [drops : Nat, fails : Nat, switches : Nat]
  PROVE  Asked(s, auto, w, cool, Enqueue(s, auto, w, cool))
<1> DEFINE r == Enqueue(s, auto, w, cool)
<1>1. /\ NewLoad(auto, w) \in Loads /\ NewLoad(auto, w).waiters = w /\ Running(NewLoad(auto, w))
      /\ ~(auto /\ cool) => Started(NewLoad(auto, w), cool)
  BY LoadTypes DEF NewLoad, Running, Started
<1>2. /\ s.load.waiters \in Nat /\ s.follow.waiters \in Nat /\ s.follow.auto \in BOOLEAN
      /\ s.follow.on \in BOOLEAN
  BY DEF Scheds, Loads, Follows
<1>3. CASE Running(s.load)
  <2> DEFINE f == Joined(s.follow, auto, w)
  <2>1. /\ f \in Follows /\ f.on /\ f.waiters = s.follow.waiters + w /\ (f.auto => auto)
        /\ f.auto /\ s.follow.on => s.follow.auto
    BY <1>2 DEF Joined, Follows
  <2> HIDE DEF f
  <2>2. r = [s EXCEPT !.debounce = FALSE, !.follow = f]
    BY <1>3 DEF Enqueue, f
  <2>3. r \in Scheds /\ r.load = s.load /\ r.follow = f /\ r.pending = s.pending
    BY <2>1, <2>2 DEF Scheds
  <2> HIDE DEF r
  <2>4. ASSUME Kept(s), auto => w = 0
        PROVE  Kept(r) /\ r.load.waiters + r.follow.waiters = s.load.waiters + s.follow.waiters + w
    BY <1>2, <1>3, <2>1, <2>3, <2>4 DEF Kept
  <2> QED
    BY <1>3, <2>1, <2>3, <2>4 DEF r, Asked, Lasts, Coming
<1>4. CASE ~Running(s.load) /\ auto /\ cool
  <2>1. r = [s EXCEPT !.debounce = FALSE, !.pending = TRUE]
    BY <1>4 DEF Enqueue
  <2>2. r \in Scheds /\ r.load = s.load /\ r.follow = s.follow /\ r.pending = TRUE
    BY <2>1 DEF Scheds
  <2> HIDE DEF r
  <2>3. ASSUME Kept(s), auto => w = 0
        PROVE  Kept(r) /\ r.load.waiters + r.follow.waiters = s.load.waiters + s.follow.waiters + w
    <3>1. w = 0
      BY <1>4, <2>3
    <3> QED
      BY <1>2, <2>2, <2>3, <3>1 DEF Kept
  <2>4. \A c : Coming(r, c)
    BY <2>2 DEF Coming
  <2> QED
    BY <1>4, <2>2, <2>3, <2>4 DEF r, Asked, Lasts
<1>5. CASE ~Running(s.load) /\ ~(auto /\ cool)
  <2> DEFINE l == NewLoad(auto, w)
  <2> HIDE DEF l
  <2>1. r = [s EXCEPT !.debounce = FALSE, !.load = l]
    BY <1>5 DEF Enqueue, l
  <2>2. r \in Scheds /\ r.load = l /\ r.follow = s.follow /\ r.pending = s.pending
    BY <1>1, <2>1 DEF Scheds, l
  <2>3. l.waiters = w /\ Running(l) /\ Started(l, cool)
    BY <1>1, <1>5 DEF l
  <2> HIDE DEF r
  <2>4. \A c : Coming(r, c)
    BY <2>2, <2>3 DEF Coming, WillRead, Started
  <2>5. ASSUME Kept(s), auto => w = 0
        PROVE  Kept(r) /\ r.load.waiters + r.follow.waiters = s.load.waiters + s.follow.waiters + w
    BY <1>2, <1>5, <2>2, <2>3, <2>5 DEF Kept
  <2> QED
    BY <1>5, <2>2, <2>3, <2>4, <2>5 DEF r, Asked, Lasts
<1> QED
  BY <1>3, <1>4, <1>5

(* What the end of a load leaves. *)

Over(s, cool, r) ==
  /\ r \in Scheds
  /\ r.pending => s.pending \/ cool
  /\ Kept(r)
  /\ r.load.waiters + r.follow.waiters = s.follow.waiters
  /\ r.load = NoLoad \/ Started(r.load, cool)
  /\ \A c : s.debounce \/ s.follow.on \/ s.pending \/ Running(r.load) => Coming(r, c)

LEMMA SettledKeeps ==
  ASSUME NEW s \in Scheds, NEW cool \in BOOLEAN, Kept(s),
         here \in Events, bounds \in [drops : Nat, fails : Nat, switches : Nat]
  PROVE  Over(s, cool, Settled(s, cool))
<1> DEFINE r == Settled(s, cool)
           again == s.follow.on /\ ~(s.follow.auto /\ cool)
<1>1. /\ r \in Scheds /\ r.debounce = s.debounce /\ r.follow = NoFollow
      /\ again => r.load = NewLoad(s.follow.auto, s.follow.waiters) /\ r.pending = s.pending
      /\ ~again => r.load = NoLoad
      /\ ~again /\ s.follow.on => r.pending = TRUE
      /\ ~s.follow.on => r.pending = s.pending
  BY SettledParts
<1>2. /\ s.follow.waiters \in Nat /\ s.follow.auto \in BOOLEAN /\ s.follow.on \in BOOLEAN
      /\ s.pending \in BOOLEAN /\ s.debounce \in BOOLEAN
  BY DEF Scheds, Follows
<1>3. LET l == NewLoad(s.follow.auto, s.follow.waiters)
      IN l.waiters = s.follow.waiters /\ Running(l) /\ (again => Started(l, cool))
  BY DEF NewLoad, Running, Started
<1>4. ~Running(NoLoad) /\ NoLoad.waiters = 0 /\ NoFollow.waiters = 0 /\ ~NoFollow.on /\ ~NoFollow.auto
  BY DEF NoLoad, Running, NoFollow
<1> HIDE DEF r
<1>5. r.pending => s.pending \/ cool
  BY <1>1 DEF again
<1>6. Kept(r) /\ r.load.waiters + r.follow.waiters = s.follow.waiters
  <2>1. CASE again
    BY <2>1, <1>1, <1>2, <1>3, <1>4 DEF Kept
  <2>2. CASE ~again
    <3>1. s.follow.waiters = 0
      BY <2>2 DEF Kept, again
    <3> QED
      BY <2>2, <3>1, <1>1, <1>4 DEF Kept
  <2> QED
    BY <2>1, <2>2
<1>7. r.load = NoLoad \/ Started(r.load, cool)
  BY <1>1, <1>3
<1>8. ~Running(r.load) => (s.follow.on => r.pending) /\ (s.pending => r.pending)
  <2>1. ~Running(r.load) => ~again
    BY <1>1, <1>3
  <2> QED
    BY <2>1, <1>1
<1>9. ASSUME NEW c, s.debounce \/ s.follow.on \/ s.pending \/ Running(r.load) PROVE Coming(r, c)
  <2>1. Started(r.load, cool) => WillRead(r.load, c)
    BY DEF Started, WillRead
  <2>2. Running(r.load) => Started(r.load, cool)
    BY <1>4, <1>7
  <2> QED
    BY <1>1, <1>8, <1>9, <2>1, <2>2 DEF Coming
<1> QED
  BY <1>1, <1>5, <1>6, <1>7, <1>9 DEF r, Over

(* What replaying a put-off update does: `pending` is set only while cool. *)

Again(s, cool, r) ==
  /\ r \in Scheds
  /\ r.pending => cool
  /\ Kept(s) =>
       /\ Kept(r)
       /\ r.load.waiters + r.follow.waiters = s.load.waiters + s.follow.waiters
  /\ Lasts(s, r, cool)
  /\ Running(s.load) => r.load = s.load
  /\ s.pending /\ Running(s.load) => r.pending \/ r.follow.on
  /\ \A c : Coming(s, c) => Coming(r, c)

LEMMA Replayed ==
  ASSUME NEW s \in Scheds, NEW cool \in BOOLEAN,
         here \in Events, bounds \in [drops : Nat, fails : Nat, switches : Nat]
  PROVE  Again(s, cool, Replay(s, cool))
<1> DEFINE r == Replay(s, cool)
<1>1. s.pending \in BOOLEAN /\ s.load.waiters \in Nat /\ s.follow.waiters \in Nat
  BY DEF Scheds, Loads, Follows
<1>2. CASE cool \/ ~s.pending
  <2>1. r = s
    BY <1>2 DEF Replay
  <2> HIDE DEF r
  <2> QED
    BY <2>1, <1>1, <1>2 DEF r, Again, Lasts, Coming
<1>3. CASE ~cool /\ s.pending
  <2> DEFINE u == [s EXCEPT !.pending = FALSE]
             auto == TRUE
             none == 0
  <2>1. r = Enqueue(u, auto, none, cool)
    BY <1>3 DEF Replay
  <2>2. /\ u \in Scheds /\ u.pending = FALSE /\ u.load = s.load /\ u.follow = s.follow
        /\ u.debounce = s.debounce
    BY DEF Scheds
  <2>3. Kept(s) => Kept(u)
    BY <2>2 DEF Kept
  <2>4. auto \in BOOLEAN /\ none \in Nat /\ (auto => none = 0)
    OBVIOUS
  <2> HIDE DEF u, auto, none, r
  <2>5. Asked(u, auto, none, cool, Enqueue(u, auto, none, cool))
    BY <2>2, <2>4, Enqueued, Zenon
  <2>6. Asked(u, auto, none, cool, r)
    BY <2>1, <2>5
  <2>7. none = 0
    BY DEF none
  <2>8. Kept(s) => Kept(r) /\ r.load.waiters + r.follow.waiters = s.load.waiters + s.follow.waiters
    BY <1>1, <2>2, <2>3, <2>6, <2>7 DEF Asked
  <2> QED
    BY <1>3, <2>2, <2>6, <2>8 DEF r, Again, Asked, Lasts
<1> QED
  BY <1>2, <1>3

(* The same on the scheduler as it stands. *)

LEMMA Cool ==
  ASSUME TypeOK
  PROVE  /\ InCooldown \in BOOLEAN /\ (critical \/ dragging) \in BOOLEAN
         /\ (critical \/ holds > 0) \in BOOLEAN
         /\ sched \in Scheds /\ here \in Events
         /\ bounds \in [drops : Nat, fails : Nat, switches : Nat]
  BY DEF TypeOK, InCooldown, Scheds

LEMMA AskAutomatically ==
  ASSUME TypeOK
  PROVE  Asked(sched, TRUE, 0, InCooldown, Enqueue(sched, TRUE, 0, InCooldown))
<1> DEFINE auto == TRUE
           none == 0
<1>1. auto \in BOOLEAN /\ none \in Nat
  OBVIOUS
<1> HIDE DEF auto, none
<1>2. Asked(sched, auto, none, InCooldown, Enqueue(sched, auto, none, InCooldown))
  BY <1>1, Cool, Enqueued, Zenon
<1> QED
  BY <1>2 DEF auto, none

LEMMA AskFor ==
  ASSUME TypeOK, NEW s \in Scheds, NEW w \in Nat
  PROVE  Asked(s, FALSE, w, InCooldown, Enqueue(s, FALSE, w, InCooldown))
<1> DEFINE auto == FALSE
<1>1. auto \in BOOLEAN
  OBVIOUS
<1> HIDE DEF auto
<1>2. Asked(s, auto, w, InCooldown, Enqueue(s, auto, w, InCooldown))
  BY <1>1, Cool, Enqueued, Zenon
<1> QED
  BY <1>2 DEF auto

LEMMA OutdatedParts ==
  ASSUME NEW s \in Scheds
  PROVE  LET r == Outdated(s)
         IN /\ r \in Scheds /\ r.follow = s.follow /\ r.pending = s.pending /\ r.debounce = s.debounce
            /\ r.load.phase = s.load.phase /\ r.load.waiters = s.load.waiters
            /\ r.load.gen = s.load.gen /\ r.load.ev = s.load.ev /\ r.load.got = s.load.got
            /\ r.load.stale = Running(s.load)
<1> DEFINE l == [s.load EXCEPT !.stale = Running(s.load)]
<1>1. s.load \in Loads /\ Running(s.load) \in BOOLEAN
  BY DEF Scheds, Running
<1>2. /\ l \in Loads /\ l.phase = s.load.phase /\ l.waiters = s.load.waiters
      /\ l.gen = s.load.gen /\ l.ev = s.load.ev /\ l.got = s.load.got /\ l.stale = Running(s.load)
  BY <1>1 DEF Loads
<1> HIDE DEF l
<1>3. Outdated(s) = [s EXCEPT !.load = l]
  BY DEF Outdated, l
<1> QED
  BY <1>2, <1>3 DEF Scheds

LEMMA OutdatedKeeps ==
  ASSUME NEW s \in Scheds, Kept(s)
  PROVE  LET r == Outdated(s)
         IN /\ Kept(r) /\ (Running(r.load) <=> Running(s.load))
            /\ r.load.waiters + r.follow.waiters = s.load.waiters + s.follow.waiters
            /\ \A c : Coming(s, c) => Coming(r, c)
  BY OutdatedParts DEF Kept, Running, Coming, WillRead

LEMMA DebouncedParts ==
  ASSUME NEW s \in Scheds
  PROVE  LET r == Debounced(s)
         IN /\ r \in Scheds /\ r.load = s.load /\ r.follow = s.follow /\ r.pending = s.pending
            /\ r.debounce = TRUE
  BY DEF Debounced, Scheds

LEMMA PutOff ==
  ASSUME NEW s \in Scheds
  PROVE  LET r == [s EXCEPT !.pending = TRUE]
         IN /\ r \in Scheds /\ r.load = s.load /\ r.follow = s.follow /\ r.pending = TRUE
            /\ r.debounce = s.debounce
  BY DEF Scheds

(* A dropped load's replay, and the end of the load itself. *)
LEMMA OutdatedEnds ==
  ASSUME TypeOK, Kept(sched), Running(sched.load)
  PROVE  LET s == [sched EXCEPT !.pending = TRUE]
             u == Replay(s, InCooldown)
             r == Settled(u, InCooldown)
         IN /\ r \in Scheds /\ Kept(r)
            /\ r.load.waiters + r.follow.waiters = sched.follow.waiters
            /\ r.pending => InCooldown
            /\ r.load = NoLoad \/ Started(r.load, InCooldown)
            /\ \A c : Coming(r, c)
<1> DEFINE s == [sched EXCEPT !.pending = TRUE]
           u == Replay(s, InCooldown)
           r == Settled(u, InCooldown)
<1>1. /\ sched \in Scheds /\ InCooldown \in BOOLEAN /\ s \in Scheds /\ s.load = sched.load
      /\ s.follow = sched.follow /\ s.pending = TRUE
  BY Cool, PutOff
<1>2. Kept(s)
  BY <1>1 DEF Kept
<1> HIDE DEF s
<1>3. Again(s, InCooldown, u)
  BY <1>1, Cool, Replayed, Zenon
<1>4. Kept(u) /\ u \in Scheds /\ (u.pending => InCooldown) /\ u.load = s.load
      /\ (u.pending \/ u.follow.on)
      /\ u.load.waiters + u.follow.waiters = s.load.waiters + s.follow.waiters
  BY <1>1, <1>2, <1>3 DEF Again
<1> HIDE DEF u
<1>5. Over(u, InCooldown, r)
  BY <1>1, <1>4, Cool, SettledKeeps, Zenon
<1>6. u.follow.waiters = sched.follow.waiters
  BY <1>1, <1>4 DEF Scheds, Loads, Follows
<1> HIDE DEF r
<1>7. /\ r \in Scheds /\ Kept(r) /\ r.load.waiters + r.follow.waiters = sched.follow.waiters
      /\ r.pending => InCooldown
      /\ r.load = NoLoad \/ Started(r.load, InCooldown)
      /\ \A c : Coming(r, c)
  BY <1>4, <1>5, <1>6 DEF Over
<1> QED
  BY <1>7 DEF r, u, s

(* A load reads. *)
HasRead(s, r, phase, got) ==
  /\ r \in Scheds /\ r.follow = s.follow /\ r.pending = s.pending /\ r.debounce = s.debounce
  /\ r.load.auto = s.load.auto /\ r.load.stale = s.load.stale /\ r.load.waiters = s.load.waiters
  /\ r.load.gen = s.load.gen /\ r.load.ev = s.load.ev
  /\ r.load.phase = phase /\ r.load.got = got

LEMMA ReadingParts ==
  ASSUME NEW s \in Scheds, NEW v \in Versions, NEW got \in SUBSET Changes
  PROVE  /\ HasRead(s, [s EXCEPT !.load.phase = "cards", !.load.ver = v], "cards", s.load.got)
         /\ HasRead(s, [s EXCEPT !.load.phase = "cards"], "cards", s.load.got)
         /\ HasRead(s, [s EXCEPT !.load.phase = "crew", !.load.got = got], "crew", got)
<1> DEFINE l == s.load
           l1 == [l EXCEPT !.phase = "cards", !.ver = v]
           l2 == [l EXCEPT !.phase = "cards"]
           l3 == [l EXCEPT !.phase = "crew", !.got = got]
           kept(m) == /\ m \in Loads /\ m.auto = l.auto /\ m.stale = l.stale /\ m.waiters = l.waiters
                      /\ m.gen = l.gen /\ m.ev = l.ev
<1>1. l \in Loads
  BY DEF Scheds
<1> HIDE DEF l
<1>2. /\ kept(l1) /\ l1.phase = "cards" /\ l1.got = l.got
      /\ kept(l2) /\ l2.phase = "cards" /\ l2.got = l.got
      /\ kept(l3) /\ l3.phase = "crew" /\ l3.got = got
  BY <1>1 DEF Loads
<1> HIDE DEF l1, l2, l3
<1>3. /\ [s EXCEPT !.load.phase = "cards", !.load.ver = v] = [s EXCEPT !.load = l1]
      /\ [s EXCEPT !.load.phase = "cards"] = [s EXCEPT !.load = l2]
      /\ [s EXCEPT !.load.phase = "crew", !.load.got = got] = [s EXCEPT !.load = l3]
  BY DEF l, l1, l2, l3, Scheds, Loads
<1>4. ASSUME NEW m \in Loads
      PROVE  LET r == [s EXCEPT !.load = m]
             IN r \in Scheds /\ r.load = m /\ r.follow = s.follow /\ r.pending = s.pending
                /\ r.debounce = s.debounce
  BY DEF Scheds
<1>5. ASSUME NEW m \in Loads, NEW phase, NEW got2, kept(m), m.phase = phase, m.got = got2
      PROVE  HasRead(s, [s EXCEPT !.load = m], phase, got2)
  BY <1>4, <1>5 DEF l, HasRead
<1>6. /\ HasRead(s, [s EXCEPT !.load = l1], "cards", l.got)
      /\ HasRead(s, [s EXCEPT !.load = l2], "cards", l.got)
      /\ HasRead(s, [s EXCEPT !.load = l3], "crew", got)
  BY <1>2, <1>5
<1> QED
  BY <1>3, <1>6 DEF l
-----------------------------------------------------------------------------
(* Types. *)

Counters == [drops : Nat, fails : Nat, switches : Nat]

LEMMA CountersRise ==
  ASSUME NEW b \in Counters
  PROVE  /\ [b EXCEPT !.drops = @ + 1] \in Counters
         /\ [b EXCEPT !.fails = @ + 1] \in Counters
         /\ [b EXCEPT !.fails = @ + 1].switches = b.switches
         /\ [b EXCEPT !.drops = @ + 1].switches = b.switches
         /\ [b EXCEPT !.switches = @ + 1] \in Counters
         /\ [b EXCEPT !.switches = @ + 1].switches = b.switches + 1
  BY DEF Counters

LEMMA Failing ==
  ASSUME TypeOK, MayFail
  PROVE  bounds' \in Counters /\ bounds'.switches = bounds.switches
<1>1. bounds \in Counters /\ bounds' = [bounds EXCEPT !.fails = @ + 1]
  BY DEF TypeOK, MayFail, Counters
<1> QED
  BY <1>1, CountersRise

LEMMA VersionTypes ==
  ASSUME TypeOK
  PROVE  Version(here) \in Versions /\ NoVersion \in Versions /\ NoTick \in [on : BOOLEAN, gen : Nat, ver : Versions]
         /\ NoLoad \in Loads /\ NoFollow \in Follows
  BY ChangesAssumption
  DEF TypeOK, Version, Versions, NoVersion, NoTick, NoLoad, Loads, NoFollow, Follows, Changes

LEMMA FirstJob ==
  ASSUME TypeOK, jobs # <<>>
  PROVE  /\ Head(jobs) \subseteq Edits /\ Tail(jobs) \in Seq(SUBSET Edits)
         /\ Len(jobs) \in Nat \ {0} /\ Len(Tail(jobs)) = Len(jobs) - 1
<1>1. jobs \in Seq(SUBSET Edits)
  BY DEF TypeOK
<1>2. Head(jobs) \in SUBSET Edits /\ Tail(jobs) \in Seq(SUBSET Edits) /\ Len(Tail(jobs)) = Len(jobs) - 1
  BY <1>1, HeadTailProperties
<1>3. Len(jobs) \in Nat \ {0}
  BY <1>1, EmptySeq
<1> QED
  BY <1>2, <1>3

LEMMA PaintTypes ==
  ASSUME TypeOK, NEW l \in Loads, Paint(l)
  PROVE  /\ shown' \subseteq Changes /\ painted' \in BOOLEAN /\ loaded' \in BOOLEAN /\ failed' \in BOOLEAN
         /\ lastSync' \in {"never", "before", "since"} /\ polling' \in BOOLEAN /\ lastVer' \in Versions
         /\ overlooked' \subseteq Changes /\ strays' \subseteq Posts
  BY DEF TypeOK, Paint, Loads, Snapshot, Agreed

LEMMA SettledNow ==
  ASSUME TypeOK
  PROVE  Settled(sched, InCooldown) \in Scheds
<1>1. sched \in Scheds /\ InCooldown \in BOOLEAN /\ here \in Events /\ bounds \in [drops : Nat, fails : Nat, switches : Nat]
  BY Cool
<1>2. ASSUME NEW cool \in BOOLEAN PROVE Settled(sched, cool) \in Scheds
  BY <1>1, SettledParts
<1> QED
  BY <1>1, <1>2, Zenon

LEMMA ServerTypes ==
  ASSUME TypeOK, \/ \E c \in Foreign : SomebodyCommits(c)
                 \/ ServerStep \/ SocketUp \/ SocketDown \/ Delivered \/ Wake
  PROVE  TypeOK'
<1>1. sched \in Scheds /\ Debounced(sched) \in Scheds
  BY Cool, DebouncedParts
<1>2. ASSUME NEW cs \in SUBSET Changes, Commit(cs),
             UNCHANGED <<socket, board, work, cooling, sched, orphan, poller, bounds, history>>
      PROVE  TypeOK'
  BY <1>2 DEF TypeOK, Commit, socket, board, work, cooling, poller, history
<1>3. ASSUME NEW c \in Foreign, SomebodyCommits(c) PROVE TypeOK'
  <2>1. {c} \in SUBSET Changes
    BY DEF Changes
  <2> QED
    BY <1>2, <1>3, <2>1 DEF SomebodyCommits
<1>4. CASE PatchCommits
  <2>1. Head(jobs) \in SUBSET Changes
    BY <1>4, FirstJob DEF PatchCommits, Changes, Own
  <2> QED
    BY <1>2, <1>4, <2>1 DEF PatchCommits
<1>5. ASSUME NEW c \in Own, RequestCommits(c) PROVE TypeOK'
  <2>1. {c} \in SUBSET Changes
    BY DEF Changes
  <2> QED
    BY <1>2, <1>5, <2>1 DEF RequestCommits
<1>6. CASE SocketUp
  BY <1>1, <1>6, ZenonT(60) DEF SocketUp, TypeOK, Scheds, server, board, work, cooling, history
<1>7. CASE SocketDown
  <2>1. bounds' \in Counters
    BY <1>7, CountersRise DEF SocketDown, TypeOK, Counters
  <2> QED
    BY <1>7, <2>1, ZenonT(60) DEF SocketDown, TypeOK, Counters, work, cooling, history
<1>8. CASE Delivered
  BY <1>1, <1>8, ZenonT(60) DEF Delivered, TypeOK, Scheds, socket, board, work, cooling, poller, history
<1>9. CASE Wake
  <2>1. claims \in 1..MaxClaims /\ claims < MaxClaims /\ claims' = claims + 1
    BY <1>9 DEF Wake, TypeOK
  <2>2. claims' \in 1..MaxClaims
    BY <2>1, BoundsAssumption
  <2> QED
    BY <1>9, <2>2 DEF Wake, TypeOK, server, board, work, cooling, poller, history
<1> QED
  BY <1>3, <1>4, <1>5, <1>6, <1>7, <1>8, <1>9 DEF ServerStep

LEMMA LoadingTypes ==
  ASSUME TypeOK, Loading \/ LoadFails \/ OrphanEnds
  PROVE  TypeOK'
<1>1. sched \in Scheds /\ sched.load \in Loads /\ bounds \in Counters
  BY Cool DEF Scheds, Counters
<1>2. ASSUME NEW w \in Nat, Released(w)
      PROVE  holds' \in Nat /\ graces' \in Nat /\ critical' \in BOOLEAN /\ dragging' \in BOOLEAN
  BY <1>2 DEF Released, TypeOK
<1>3. CASE DebounceFires
  <2>1. sched' \in Scheds
    BY <1>3, AskAutomatically DEF DebounceFires, Asked
  <2> QED
    BY <1>3, <2>1, ZenonT(60) DEF DebounceFires, TypeOK, Scheds, server, socket, board, work, cooling, poller, history
<1>4. CASE ReadVersion \/ ReadCards
  <2>1. sched' \in Scheds
    <3> DEFINE got == (committed \cap Of(here)) \ Crew
               v == Version(here)
    <3>1. got \in SUBSET Changes /\ v \in Versions
      BY VersionTypes DEF Of
    <3>2. \/ sched' = [sched EXCEPT !.load.phase = "cards", !.load.ver = v]
          \/ sched' = [sched EXCEPT !.load.phase = "cards"]
          \/ sched' = [sched EXCEPT !.load.phase = "crew", !.load.got = got]
      BY <1>4 DEF ReadVersion, ReadCards
    <3> HIDE DEF got, v
    <3>3. /\ HasRead(sched, [sched EXCEPT !.load.phase = "cards", !.load.ver = v], "cards", sched.load.got)
          /\ HasRead(sched, [sched EXCEPT !.load.phase = "cards"], "cards", sched.load.got)
          /\ HasRead(sched, [sched EXCEPT !.load.phase = "crew", !.load.got = got], "crew", got)
      BY <1>1, <3>1, ReadingParts, Zenon
    <3> QED
      BY <3>2, <3>3, Zenon DEF HasRead
  <2>2. bounds' \in Counters
    BY <1>1, <1>4, Failing DEF ReadVersion, ReadCards
  <2> QED
    BY <1>4, <2>1, <2>2
    DEF ReadVersion, ReadCards, TypeOK, Scheds, Counters, server, socket, board, work, cooling, poller, history
<1>5. CASE LoadArrives
  <2>1. sched' \in Scheds
    BY <1>5, SettledNow DEF LoadArrives
  <2>2. holds' \in Nat /\ graces' \in Nat /\ critical' \in BOOLEAN /\ dragging' \in BOOLEAN
    BY <1>1, <1>2, <1>5 DEF LoadArrives, Loads
  <2> QED
    BY <1>1, <1>5, <2>1, <2>2, PaintTypes DEF LoadArrives, TypeOK, Scheds, server, socket, work
<1>6. CASE LoadIsOutdated
  <2>1. sched' \in Scheds
    <3>1. [sched EXCEPT !.pending = TRUE] \in Scheds
      BY <1>1, PutOff
    <3>2. ASSUME NEW s \in Scheds, NEW cool \in BOOLEAN PROVE Settled(Replay(s, cool), cool) \in Scheds
      <4>1. Replay(s, cool) \in Scheds
        BY Cool, Replayed DEF Again
      <4> QED
        BY <4>1, Cool, SettledParts
    <3>3. Settled(Replay([sched EXCEPT !.pending = TRUE], InCooldown), InCooldown) \in Scheds
      BY <3>1, <3>2, Cool, Zenon
    <3> QED
      BY <1>6, <3>3 DEF LoadIsOutdated
  <2>2. holds' \in Nat /\ graces' \in Nat /\ critical' \in BOOLEAN /\ dragging' \in BOOLEAN
    BY <1>1, <1>2, <1>6 DEF LoadIsOutdated, Loads
  <2> QED
    BY <1>6, <2>1, <2>2 DEF LoadIsOutdated, TypeOK, Scheds, server, socket, board, work, poller, history
<1>7. CASE LoadFails
  <2>1. sched' \in Scheds /\ bounds' \in Counters
    BY <1>7, SettledNow, Failing DEF LoadFails
  <2>2. holds' \in Nat /\ graces' \in Nat /\ critical' \in BOOLEAN /\ dragging' \in BOOLEAN
    BY <1>1, <1>2, <1>7 DEF LoadFails, Loads
  <2> QED
    BY <1>7, <2>1, <2>2
    DEF LoadFails, TypeOK, Scheds, Counters, PollsAfterFailure, server, socket, work, history
<1>8. CASE OrphanEnds
  <2>1. orphan \in Loads /\ NoLoad \in Loads
    BY VersionTypes DEF TypeOK
  <2>2. holds' \in Nat /\ graces' \in Nat /\ critical' \in BOOLEAN /\ dragging' \in BOOLEAN
    BY <1>2, <1>8, <2>1 DEF OrphanEnds, Loads
  <2>3. /\ shown' \subseteq Changes /\ painted' \in BOOLEAN /\ loaded' \in BOOLEAN /\ failed' \in BOOLEAN
        /\ lastSync' \in {"never", "before", "since"} /\ polling' \in BOOLEAN /\ lastVer' \in Versions
        /\ overlooked' \subseteq Changes /\ strays' \subseteq Posts
    <3>1. CASE Paint(orphan)
      BY <2>1, <3>1, PaintTypes
    <3>2. CASE UNCHANGED <<shown, painted, loaded, failed, lastSync, polling, lastVer, history>>
      BY <3>2 DEF TypeOK, history
    <3> QED
      BY <1>8, <3>1, <3>2 DEF OrphanEnds
  <2> QED
    BY <1>8, <2>1, <2>2, <2>3 DEF OrphanEnds, TypeOK, server, socket, work
<1> QED
  BY <1>3, <1>4, <1>5, <1>6, <1>7, <1>8 DEF Loading

LEMMA TickingTypes ==
  ASSUME TypeOK, Ticking \/ TickFails
  PROVE  TypeOK'
<1> DEFINE Ticks == [on : BOOLEAN, gen : Nat, ver : Versions]
<1>1. /\ sched \in Scheds /\ tick \in Ticks /\ NoTick \in Ticks /\ Version(here) \in Versions
      /\ bounds \in Counters
  BY Cool, VersionTypes DEF TypeOK, Counters
<1>2. CASE TickAsks
  <2>1. tick' \in Ticks
    BY <1>1, <1>2 DEF TickAsks, Counters
  <2> QED
    BY <1>2, <2>1 DEF TickAsks, TypeOK, server, socket, board, work, cooling, history
<1>3. CASE TickIsQueued
  <2>1. sched' \in Scheds
    BY <1>1, <1>3, PutOff DEF TickIsQueued
  <2> QED
    BY <1>3, <2>1, SMTT(30) DEF TickIsQueued, TypeOK, Scheds, server, socket, board, work, cooling, poller, history
<1>4. CASE TickSeesNews
  <2>1. sched' \in Scheds
    BY <1>1, <1>4, AskAutomatically DEF TickSeesNews, Asked
  <2> QED
    BY <1>1, <1>4, <2>1, ZenonT(60) DEF TickSeesNews, TypeOK, Scheds, server, socket, board, work, cooling, history
<1>5. CASE TickConfirms
  BY <1>1, <1>5 DEF TickConfirms, TypeOK, Agreed, Missing, server, socket, work, cooling
<1>6. CASE TickFails
  <2>1. bounds' \in Counters
    BY <1>6, Failing DEF TickFails
  <2> QED
    BY <1>1, <1>6, <2>1 DEF TickFails, TypeOK, Counters, server, socket, board, work, cooling, history
<1> QED
  BY <1>2, <1>3, <1>4, <1>5, <1>6 DEF Ticking

LEMMA PatchTypes ==
  ASSUME TypeOK, jobs # <<>>, NEW refresh \in BOOLEAN, PatchSettles(refresh), bounds' \in Counters
  PROVE  TypeOK'
<1>1. jobs' \in Seq(SUBSET Edits)
  BY FirstJob DEF PatchSettles
<1>2. sched' \in Scheds /\ graces' \in Nat /\ critical' \in BOOLEAN
  <2>1. CASE refresh
    <3>1. Asked(sched, FALSE, 1, InCooldown, Enqueue(sched, FALSE, 1, InCooldown))
      BY Cool, AskFor
    <3> QED
      BY <2>1, <3>1 DEF PatchSettles, Asked, TypeOK
  <2>2. CASE ~refresh
    <3>1. sched' = sched /\ graces' = graces + 1 /\ critical' = FALSE
      BY <2>2 DEF PatchSettles
    <3>2. graces \in Nat /\ sched \in Scheds
      BY Cool DEF TypeOK
    <3>3. graces' \in Nat
      BY <3>1, <3>2
    <3>4. critical' \in BOOLEAN
      BY <3>1
    <3> QED
      BY <3>1, <3>2, <3>3, <3>4
  <2> QED
    BY <2>1, <2>2
<1> QED
  BY <1>1, <1>2 DEF PatchSettles, TypeOK, Scheds, Counters, server, socket, board, poller, history

LEMMA OwnTypes ==
  ASSUME TypeOK, \/ \E c \in Edits : Edit(c)
                 \/ \E c \in Calls : Call(c)
                 \/ \E c \in Posts : Post(c)
                 \/ Answer \/ Refusal \/ Timer \/ DragStarts \/ DragEnds
  PROVE  TypeOK'
<1>1. sched \in Scheds /\ Outdated(sched) \in Scheds /\ bounds \in Counters
  BY Cool, OutdatedParts DEF Counters
<1>2. ASSUME NEW c \in Edits, Edit(c) PROVE TypeOK'
  <2>1. sched' \in Scheds /\ holds' \in Nat
    BY <1>1, <1>2 DEF Edit, TypeOK, HoldsTaken
  <2>2. critical' \in BOOLEAN
    BY <1>2 DEF Edit, TypeOK
  <2> QED
    BY <1>2, <2>1, <2>2 DEF Edit, TypeOK, Scheds, Changes, Own, server, socket, poller, history
<1>3. ASSUME NEW c \in Calls, Call(c) PROVE TypeOK'
  <2>1. DOMAIN calls' \subseteq Calls /\ calls' \in [DOMAIN calls' -> SUBSET Changes]
    BY <1>3 DEF Call, TypeOK
  <2>2. sched' \in Scheds /\ holds' \in Nat
    BY <1>1, <1>3 DEF Call, TypeOK
  <2> QED
    BY <1>3, <2>1, <2>2 DEF Call, TypeOK, Scheds, Changes, Own, server, socket, poller, history
<1>4. ASSUME NEW c \in Posts, Post(c) PROVE TypeOK'
  BY <1>4 DEF Post, TypeOK, Own, server, socket, board, cooling, poller, history
<1>5. CASE PatchSucceeds
  <2>1. jobs # <<>> /\ bounds' \in Counters /\ \E refresh \in BOOLEAN : PatchSettles(refresh)
    BY <1>1, <1>5 DEF PatchSucceeds
  <2> QED
    BY <2>1, PatchTypes
<1>6. CASE PatchFails
  <2>1. jobs # <<>> /\ bounds' \in Counters
    BY <1>6, Failing DEF PatchFails
  <2>2. \E refresh \in BOOLEAN : PatchSettles(refresh)
    BY <1>6 DEF PatchFails
  <2> QED
    BY <2>1, <2>2, PatchTypes
<1>7. ASSUME NEW c \in Calls, CallSucceeds(c) \/ CallFails(c) PROVE TypeOK'
  <2>1. DOMAIN calls' \subseteq Calls /\ calls' \in [DOMAIN calls' -> SUBSET Changes]
    BY <1>7 DEF CallSucceeds, CallFails, CallReturns, TypeOK
  <2>2. bounds' \in Counters
    BY <1>1, <1>7, Failing DEF CallSucceeds, CallFails
  <2>3. shown' \subseteq Changes /\ overlooked' \subseteq Changes /\ strays' \subseteq Posts
    <3>1. CASE CallSucceeds(c)
      BY <3>1 DEF CallSucceeds, TypeOK, history
    <3>2. CASE CallFails(c)
      BY <3>2 DEF CallFails, RolledBack, TypeOK
    <3> QED
      BY <1>7, <3>1, <3>2
  <2>4. CallReturns(c) /\ UNCHANGED server
    BY <1>7 DEF CallSucceeds, CallFails, CallReturns
  <2> QED
    BY <2>1, <2>2, <2>3, <2>4 DEF CallReturns, TypeOK, Counters, server, socket, poller
<1>8. ASSUME NEW c \in Posts, PostSucceeds(c) PROVE TypeOK'
  <2>1. sched' \in Scheds
    <3>1. Asked(Outdated(sched), FALSE, 0, InCooldown, Enqueue(Outdated(sched), FALSE, 0, InCooldown))
      BY <1>1, AskFor
    <3> QED
      BY <1>1, <1>8, <3>1 DEF PostSucceeds, Asked
  <2>2. shown' \subseteq Changes /\ strays' \subseteq Posts
    BY <1>8 DEF PostSucceeds, TypeOK, Changes, Own
  <2> QED
    BY <1>8, <2>1, <2>2, SMTT(30) DEF PostSucceeds, TypeOK, Scheds, server, socket, cooling, poller
<1>9. ASSUME NEW c \in Posts, PostFails(c) PROVE TypeOK'
  <2>1. bounds' \in Counters
    BY <1>9, Failing DEF PostFails
  <2> QED
    BY <1>9, <2>1 DEF PostFails, TypeOK, Counters, server, socket, board, cooling, poller, history
<1>10. CASE Flush
  <2>1. jobs' \in Seq(SUBSET Edits)
    BY <1>10 DEF Flush, TypeOK
  <2> QED
    BY <1>10, <2>1 DEF Flush, TypeOK, server, socket, board, cooling, poller, history
<1>11. ASSUME NEW cool \in BOOLEAN, sched' = Replay(sched, cool) \/ sched' = sched
       PROVE  sched' \in Scheds
  BY <1>1, <1>11, Cool, Replayed DEF Again
<1>12. CASE GraceOver
  <2>1. sched' \in Scheds
    <3>1. sched' = Replay(sched, critical \/ dragging) \/ sched' = sched
      BY <1>12 DEF GraceOver
    <3> QED
      BY <1>11, <3>1, Cool, Zenon
  <2>2. graces' \in Nat /\ holds' \in Nat
    BY <1>12 DEF GraceOver, TypeOK
  <2> QED
    BY <1>12, <2>1, <2>2, SMTT(30) DEF GraceOver, TypeOK, Scheds, server, socket, board, work, poller, history
<1>13. CASE DragStarts
  BY <1>13 DEF DragStarts, TypeOK, server, socket, board, work, poller, history
<1>14. CASE DragEnds
  <2>1. sched' \in Scheds
    <3>1. sched' = Replay(sched, critical \/ holds > 0)
      BY <1>14 DEF DragEnds
    <3> QED
      BY <1>11, <3>1, Cool, Zenon
  <2> QED
    BY <1>14, <2>1, ZenonT(60) DEF DragEnds, TypeOK, Scheds, server, socket, board, work, poller, history
<1> QED
  BY <1>2, <1>3, <1>4, <1>5, <1>6, <1>7, <1>8, <1>9, <1>10, <1>12, <1>13, <1>14
  DEF Answer, Refusal, Timer

(* The loader of the Ereignis switched to, and the load it leaves behind.   *)
LEMMA Switched ==
  ASSUME TypeOK, NEW e \in Events, Switch(e)
  PROVE  /\ bounds' \in Counters /\ bounds'.switches = bounds.switches + 1
         /\ sched' \in Scheds /\ orphan' \in Loads
         /\ sched'.follow = NoFollow /\ sched'.pending = sched.pending
         /\ sched'.load.phase = "version" /\ sched'.load.waiters = 0 /\ ~sched'.load.auto
         /\ sched'.load.gen = bounds.switches + 1 /\ sched'.load.ev = e /\ sched'.load.got = {}
         /\ orphan'.phase = sched.load.phase /\ orphan'.gen = sched.load.gen
         /\ orphan'.waiters = sched.load.waiters + sched.follow.waiters
<1>1. bounds \in Counters /\ sched \in Scheds /\ sched.load \in Loads /\ sched.follow \in Follows
  BY Cool DEF Counters, Scheds
<1>2. bounds' \in Counters /\ bounds'.switches = bounds.switches + 1
  BY <1>1, CountersRise DEF Switch
<1> DEFINE l == NewLoad(FALSE, 0)
           m == [l EXCEPT !.gen = bounds.switches + 1, !.ev = e]
<1>3. l \in Loads /\ l.phase = "version" /\ l.waiters = 0 /\ ~l.auto /\ l.got = {}
  BY LoadTypes, Cool DEF NewLoad
<1>4. bounds.switches + 1 \in Nat
  BY <1>1 DEF Counters
<1> HIDE DEF l
<1>5. /\ m \in Loads /\ m.phase = "version" /\ m.waiters = 0 /\ ~m.auto
      /\ m.gen = bounds.switches + 1 /\ m.ev = e /\ m.got = {}
  BY <1>3, <1>4 DEF Loads
<1>6. sched' = [load |-> m, follow |-> NoFollow, debounce |-> live', pending |-> sched.pending]
  BY DEF Switch, l
<1> HIDE DEF m
<1>7. live' \in BOOLEAN
  BY DEF Switch, TypeOK
<1>8. sched' \in Scheds
  BY <1>1, <1>5, <1>6, <1>7, VersionTypes DEF Scheds
<1> DEFINE k == sched.load
           w == k.waiters + sched.follow.waiters
<1>9. k \in Loads /\ w \in Nat
  BY <1>1 DEF Loads, Follows
<1>10. orphan' = [k EXCEPT !.waiters = w]
  BY DEF Switch
<1> HIDE DEF k, w
<1>11. orphan' \in Loads /\ orphan'.phase = k.phase /\ orphan'.gen = k.gen /\ orphan'.waiters = w
  BY <1>9, <1>10 DEF Loads
<1> QED
  BY <1>2, <1>5, <1>6, <1>8, <1>11 DEF k, w

LEMMA SwitchTypes ==
  ASSUME TypeOK, NEW e \in Events, Switch(e)
  PROVE  TypeOK'
<1>1. bounds' \in Counters /\ sched' \in Scheds /\ orphan' \in Loads
  BY Switched
<1> QED
  BY <1>1, VersionTypes
  DEF Switch, TypeOK, Scheds, Counters, PollsOnMount, work, cooling

(* Every variable has its type. *)
THEOREM TypeCorrect == Spec => []TypeOK
<1>1. Init => TypeOK
  <2> SUFFICES ASSUME Init PROVE TypeOK
    OBVIOUS
  <2>1. bounds \in Counters /\ here \in Events
    BY ChangesAssumption DEF Init, Counters
  <2>2. NewLoad(FALSE, 0) \in Loads /\ NoLoad \in Loads /\ NoVersion \in Versions
    BY <2>1, LoadTypes DEF Counters
  <2>3. NoTick \in [on : BOOLEAN, gen : Nat, ver : Versions] /\ NoFollow \in Follows
    BY <2>2 DEF NoTick, NoFollow, Follows
  <2>4. sched \in [load : Loads, follow : Follows, debounce : BOOLEAN, pending : BOOLEAN]
    BY <2>2, <2>3 DEF Init
  <2>5. jobs \in Seq(SUBSET Edits)
    BY DEF Init
  <2>6. DOMAIN calls \subseteq Calls /\ calls \in [DOMAIN calls -> SUBSET Changes]
    BY DEF Init
  <2>7. claims \in 1 .. MaxClaims /\ holds \in Nat /\ graces \in Nat
    BY BoundsAssumption DEF Init
  <2>8. shown \subseteq Changes /\ committed \subseteq Changes /\ batch \subseteq Edits /\ posts \subseteq Posts
        /\ begun \subseteq Own /\ overlooked \subseteq Changes /\ strays \subseteq Posts
    BY DEF Init
  <2>9. /\ mail \in BOOLEAN /\ live \in BOOLEAN /\ painted \in BOOLEAN /\ loaded \in BOOLEAN /\ failed \in BOOLEAN
        /\ lastSync \in {"never", "before", "since"} /\ critical \in BOOLEAN /\ dragging \in BOOLEAN
        /\ polling \in BOOLEAN
    BY DEF Init, PollsOnMount
  <2>10. orphan \in Loads /\ tick \in [on : BOOLEAN, gen : Nat, ver : Versions] /\ lastVer \in Versions
    BY <2>2, <2>3 DEF Init
  <2> QED
    BY <2>1, <2>4, <2>5, <2>6, <2>7, <2>8, <2>9, <2>10 DEF TypeOK, Counters
<1>2. TypeOK /\ [Next]_vars => TypeOK'
  <2> SUFFICES ASSUME TypeOK, [Next]_vars PROVE TypeOK'
    OBVIOUS
  <2>1. CASE UNCHANGED vars
    BY <2>1 DEF TypeOK, vars, server, socket, board, work, cooling, poller, history
  <2>2. CASE Next
    BY <2>2, ServerTypes, LoadingTypes, TickingTypes, OwnTypes, SwitchTypes DEF Next
  <2> QED
    BY <2>1, <2>2
<1> QED
  BY <1>1, <1>2, PTL DEF Spec
-----------------------------------------------------------------------------
(* The ledger of holds, and what it says of a put-off update. *)

Ledger ==
  /\ Kept(sched)
  /\ ~Running(orphan) => orphan.waiters = 0
  /\ DOMAIN calls \subseteq begun
  /\ HoldsAreOwed
  /\ PutOffUpdateIsReplayed

LEMMA Counted ==
  ASSUME TypeOK
  PROVE  /\ sched.load.waiters \in Nat /\ sched.follow.waiters \in Nat /\ orphan.waiters \in Nat
         /\ Awaiting \in Nat /\ Len(jobs) \in Nat /\ holds \in Nat /\ graces \in Nat
         /\ IsFiniteSet(DOMAIN calls) /\ Cardinality(DOMAIN calls) \in Nat
<1>1. sched.load.waiters \in Nat /\ sched.follow.waiters \in Nat /\ orphan.waiters \in Nat
  BY DEF TypeOK, Loads, Follows
<1>2. Len(jobs) \in Nat
  BY DEF TypeOK
<1>3. IsFiniteSet(DOMAIN calls) /\ Cardinality(DOMAIN calls) \in Nat
  BY FS_Subset, FS_CardinalityType, FiniteAssumption DEF TypeOK
<1>4. holds \in Nat /\ graces \in Nat
  BY DEF TypeOK
<1>5. Awaiting \in Nat
  BY <1>1 DEF Awaiting
<1> QED
  BY <1>1, <1>2, <1>3, <1>4, <1>5

LEMMA CountedAfter ==
  ASSUME TypeOK'
  PROVE  /\ sched'.load.waiters \in Nat /\ sched'.follow.waiters \in Nat /\ orphan'.waiters \in Nat
         /\ Awaiting' \in Nat /\ holds' \in Nat /\ graces' \in Nat
<1>1. /\ sched'.load.waiters \in Nat /\ sched'.follow.waiters \in Nat /\ orphan'.waiters \in Nat
      /\ holds' \in Nat /\ graces' \in Nat
  BY DEF TypeOK, Loads, Follows
<1> QED
  BY <1>1 DEF Awaiting

LEMMA AwaitedEnds ==
  ASSUME TypeOK, TypeOK', orphan' = orphan,
         sched'.load.waiters + sched'.follow.waiters = sched.follow.waiters
  PROVE  Awaiting' + sched.load.waiters = Awaiting
<1> DEFINE a == sched'.load.waiters
           b == sched'.follow.waiters
           c == sched.follow.waiters
           d == sched.load.waiters
           o == orphan.waiters
<1>1. a \in Nat /\ b \in Nat /\ c \in Nat /\ d \in Nat /\ o \in Nat /\ a + b = c
  BY Counted, CountedAfter
<1>2. Awaiting' = a + b + o /\ Awaiting = d + c + o
  BY DEF Awaiting
<1> HIDE DEF a, b, c, d, o
<1>3. Awaiting' + d = Awaiting
  BY <1>1, <1>2
<1> QED
  BY <1>3 DEF d

LEMMA OwedParts ==
  ASSUME TypeOK, Ledger
  PROVE  holds = (IF batch = {} THEN 0 ELSE 1) + Len(jobs) + Cardinality(DOMAIN calls)
                 + (sched.load.waiters + sched.follow.waiters + orphan.waiters) + graces
  BY DEF Ledger, HoldsAreOwed, Owed, Awaiting

(* Steps that leave the holds alone. *)
LEMMA HoldsStay ==
  ASSUME TypeOK, TypeOK', Ledger, UNCHANGED <<batch, jobs, calls, cooling>>, begun \subseteq begun',
         Kept(sched'), ~Running(orphan') => orphan'.waiters = 0, Awaiting' = Awaiting,
         sched'.pending => sched.pending \/ InCooldown
  PROVE  Ledger'
<1>1. HoldsAreOwed'
  BY DEF Ledger, HoldsAreOwed, Owed, cooling
<1>2. PutOffUpdateIsReplayed'
  BY DEF Ledger, PutOffUpdateIsReplayed, InCooldown, cooling
<1> QED
  BY <1>1, <1>2 DEF Ledger

(* Steps at which `w` requests see the load they awaited end.  One of them   *)
(* may end the critical update, but each of them still holds its cooldown.   *)
LEMMA HoldsPassOn ==
  ASSUME TypeOK, TypeOK', Ledger, UNCHANGED work, NEW w \in Nat, Released(w),
         Kept(sched'), ~Running(orphan') => orphan'.waiters = 0, Awaiting' + w = Awaiting,
         sched'.pending => sched.pending \/ InCooldown
  PROVE  Ledger'
<1> DEFINE sent == (IF batch = {} THEN 0 ELSE 1) + Len(jobs) + Cardinality(DOMAIN calls)
<1>1. sent \in Nat
  BY Counted
<1>2. holds = sent + Awaiting + graces
  BY DEF Ledger, HoldsAreOwed, Owed
<1> HIDE DEF sent
<1>3. holds' = sent + Awaiting' + graces'
  <2> DEFINE before == Awaiting
             after == Awaiting'
  <2>1. /\ before \in Nat /\ after \in Nat /\ graces \in Nat /\ after + w = before
        /\ holds' = holds /\ graces' = graces + w /\ holds = sent + before + graces
    BY <1>2, Counted, CountedAfter DEF Released
  <2> HIDE DEF before, after
  <2>2. holds' = sent + after + graces'
    BY <1>1, <2>1
  <2> QED
    BY <2>2 DEF after
<1>4. HoldsAreOwed'
  BY <1>3 DEF HoldsAreOwed, Owed, sent, work
<1>5. InCooldown => InCooldown'
  <2>1. CASE w = 0
    BY <2>1 DEF Released, InCooldown
  <2>2. CASE w # 0
    <3>1. holds > 0
      BY <1>1, <1>2, <2>2, Counted, CountedAfter
    <3> QED
      BY <3>1 DEF Released, InCooldown
  <2> QED
    BY <2>1, <2>2
<1>6. PutOffUpdateIsReplayed'
  BY <1>5 DEF Ledger, PutOffUpdateIsReplayed
<1> QED
  BY <1>4, <1>6 DEF Ledger, work

LEMMA ServerLedger ==
  ASSUME TypeOK, TypeOK', Ledger,
         \/ \E c \in Foreign : SomebodyCommits(c)
         \/ ServerStep \/ SocketUp \/ SocketDown \/ Delivered \/ Wake
  PROVE  Ledger'
<1>1. sched' = sched \/ sched' = Debounced(sched)
  BY DEF SomebodyCommits, ServerStep, PatchCommits, RequestCommits, SocketUp, SocketDown, Delivered, Wake
<1>2. UNCHANGED <<work, cooling, orphan>>
  BY DEF SomebodyCommits, ServerStep, PatchCommits, RequestCommits, SocketUp, SocketDown, Delivered, Wake
<1>3. /\ sched'.load = sched.load /\ sched'.follow = sched.follow /\ sched'.pending = sched.pending
  BY <1>1, Cool, DebouncedParts
<1>4. Kept(sched') /\ Awaiting' = Awaiting /\ orphan' = orphan
  BY <1>2, <1>3 DEF Ledger, Kept, Awaiting
<1> QED
  BY <1>2, <1>3, <1>4, HoldsStay DEF Ledger, work

LEMMA LoadingLedger ==
  ASSUME TypeOK, TypeOK', Ledger, Loading \/ LoadFails \/ OrphanEnds
  PROVE  Ledger'
<1>1. sched \in Scheds /\ InCooldown \in BOOLEAN /\ Kept(sched)
  BY Cool DEF Ledger
<1>2. CASE DebounceFires
  <2>1. Asked(sched, TRUE, 0, InCooldown, sched')
    BY <1>2, AskAutomatically DEF DebounceFires
  <2>2. /\ Kept(sched') /\ (sched'.pending => sched.pending \/ InCooldown)
        /\ sched'.load.waiters + sched'.follow.waiters = sched.load.waiters + sched.follow.waiters + 0
    BY <1>1, <2>1 DEF Asked
  <2>3. UNCHANGED <<work, cooling, orphan>>
    BY <1>2 DEF DebounceFires
  <2>4. Awaiting' = Awaiting
    BY <2>2, <2>3, Counted DEF Awaiting
  <2> QED
    BY <2>2, <2>3, <2>4, HoldsStay DEF Ledger, work
<1>3. CASE ReadVersion \/ ReadCards
  <2> DEFINE got == (committed \cap Of(here)) \ Crew
             v == Version(here)
  <2>1. got \in SUBSET Changes /\ v \in Versions
    BY VersionTypes DEF Of
  <2>2. /\ sched.load.phase # "off"
        /\ \/ sched' = [sched EXCEPT !.load.phase = "cards", !.load.ver = v]
           \/ sched' = [sched EXCEPT !.load.phase = "cards"]
           \/ sched' = [sched EXCEPT !.load.phase = "crew", !.load.got = got]
    BY <1>3 DEF ReadVersion, ReadCards
  <2> HIDE DEF got, v
  <2>3. \/ HasRead(sched, sched', "cards", sched.load.got)
        \/ HasRead(sched, sched', "crew", got)
    BY <1>1, <2>1, <2>2, ReadingParts
  <2>4. /\ sched'.follow = sched.follow /\ sched'.pending = sched.pending
        /\ sched'.load.waiters = sched.load.waiters /\ Running(sched'.load)
    BY <2>3 DEF HasRead, Running
  <2>5. UNCHANGED <<work, cooling, orphan>>
    BY <1>3 DEF ReadVersion, ReadCards
  <2>6. Kept(sched') /\ Awaiting' = Awaiting
    BY <1>1, <2>2, <2>4, <2>5 DEF Kept, Awaiting, Running
  <2> QED
    BY <2>4, <2>5, <2>6, HoldsStay DEF Ledger, work
<1>4. CASE LoadArrives \/ LoadFails
  <2>1. Over(sched, InCooldown, sched')
    BY <1>1, <1>4, Cool, SettledKeeps, Zenon DEF LoadArrives, LoadFails
  <2>2. UNCHANGED <<work, orphan>> /\ Released(sched.load.waiters)
    BY <1>4 DEF LoadArrives, LoadFails
  <2>3. Awaiting' + sched.load.waiters = Awaiting
    <3>1. sched'.load.waiters + sched'.follow.waiters = sched.follow.waiters /\ orphan' = orphan
      BY <2>1, <2>2 DEF Over
    <3> QED
      BY <3>1, AwaitedEnds
  <2> QED
    BY <2>1, <2>2, <2>3, HoldsPassOn, Counted DEF Over, Ledger
<1>5. CASE LoadIsOutdated
  <2>1. Running(sched.load)
    BY <1>5 DEF LoadIsOutdated, Running
  <2>2. /\ Kept(sched') /\ (sched'.pending => InCooldown)
        /\ sched'.load.waiters + sched'.follow.waiters = sched.follow.waiters
    BY <1>1, <1>5, <2>1, OutdatedEnds DEF LoadIsOutdated
  <2>3. UNCHANGED <<work, orphan>> /\ Released(sched.load.waiters)
    BY <1>5 DEF LoadIsOutdated
  <2>4. Awaiting' + sched.load.waiters = Awaiting
    BY <2>2, <2>3, AwaitedEnds
  <2> QED
    BY <2>2, <2>3, <2>4, HoldsPassOn, Counted DEF Ledger
<1>6. CASE OrphanEnds
  <2>1. UNCHANGED <<work, sched>> /\ Released(orphan.waiters) /\ orphan'.waiters = 0
    BY <1>6 DEF OrphanEnds, NoLoad
  <2>2. Awaiting' + orphan.waiters = Awaiting
    BY <2>1, Counted DEF Awaiting
  <2> QED
    BY <1>1, <2>1, <2>2, HoldsPassOn, Counted DEF Ledger
<1> QED
  BY <1>2, <1>3, <1>4, <1>5, <1>6 DEF Loading

LEMMA TickingLedger ==
  ASSUME TypeOK, TypeOK', Ledger, Ticking \/ TickFails
  PROVE  Ledger'
<1>1. sched \in Scheds /\ InCooldown \in BOOLEAN /\ Kept(sched)
  BY Cool DEF Ledger
<1>2. UNCHANGED <<work, cooling, orphan>>
  BY DEF Ticking, TickAsks, TickIsQueued, TickSeesNews, TickConfirms, TickFails
<1>3. \/ sched' = sched
      \/ sched' = [sched EXCEPT !.pending = TRUE] /\ InCooldown
      \/ sched' = Enqueue(sched, TRUE, 0, InCooldown)
  BY DEF Ticking, TickAsks, TickIsQueued, TickSeesNews, TickConfirms, TickFails
<1>4. /\ Kept(sched') /\ (sched'.pending => sched.pending \/ InCooldown)
      /\ sched'.load.waiters + sched'.follow.waiters = sched.load.waiters + sched.follow.waiters
  <2>1. CASE sched' = sched
    BY <1>1, <2>1
  <2>2. CASE sched' = [sched EXCEPT !.pending = TRUE] /\ InCooldown
    BY <1>1, <2>2, PutOff DEF Kept
  <2>3. CASE sched' = Enqueue(sched, TRUE, 0, InCooldown)
    <3>1. Asked(sched, TRUE, 0, InCooldown, sched')
      BY <2>3, AskAutomatically
    <3> QED
      BY <1>1, <3>1, Counted DEF Asked
  <2> QED
    BY <1>3, <2>1, <2>2, <2>3
<1>5. Awaiting' = Awaiting
  BY <1>2, <1>4 DEF Awaiting
<1> QED
  BY <1>2, <1>4, <1>5, HoldsStay DEF Ledger, work

(* What is on its way to the server. *)
Sent == (IF batch = {} THEN 0 ELSE 1) + Len(jobs) + Cardinality(DOMAIN calls)

LEMMA SentCounted ==
  ASSUME TypeOK
  PROVE  /\ Sent \in Nat /\ (HoldsAreOwed <=> holds = Sent + Awaiting + graces)
         /\ jobs # <<>> => Sent > 0
         /\ DOMAIN calls # {} => Sent > 0
<1>1. Sent \in Nat /\ (HoldsAreOwed <=> holds = Sent + Awaiting + graces)
  BY Counted DEF Sent, HoldsAreOwed, Owed
<1>2. jobs # <<>> => Sent > 0
  BY Counted, FirstJob DEF Sent
<1>3. DOMAIN calls # {} => Sent > 0
  BY Counted, FS_EmptySet DEF Sent
<1> QED
  BY <1>1, <1>2, <1>3

(* A step keeps the ledger when what it takes is owed by something. *)
LEMMA Balanced ==
  ASSUME TypeOK, TypeOK', Ledger, DOMAIN calls' \subseteq begun', orphan' = orphan, Kept(sched'),
         Sent' \in Nat, Sent' + Awaiting' + graces' - holds' = Sent + Awaiting + graces - holds,
         sched'.pending => InCooldown'
  PROVE  Ledger'
<1> DEFINE out == Sent
           await == Awaiting
           g == graces
           h == holds
           out2 == Sent'
           await2 == Awaiting'
           g2 == graces'
           h2 == holds'
<1>1. h = out + await + g /\ out \in Nat /\ await \in Nat /\ h \in Nat /\ g \in Nat
  BY SentCounted, Counted DEF Ledger
<1>2. out2 \in Nat /\ await2 \in Nat /\ h2 \in Nat /\ g2 \in Nat
      /\ out2 + await2 + g2 - h2 = out + await + g - h
  BY CountedAfter
<1> HIDE DEF out, await, out2, await2, h, g, h2, g2
<1>3. h2 = out2 + await2 + g2
  BY <1>1, <1>2
<1>4. HoldsAreOwed'
  BY <1>3 DEF HoldsAreOwed, Owed, Sent, out2, await2, h2, g2
<1> QED
  BY <1>4 DEF Ledger, PutOffUpdateIsReplayed

LEMMA EditLedger ==
  ASSUME TypeOK, TypeOK', Ledger, NEW c \in Edits, Edit(c)
  PROVE  Ledger'
<1>1. sched \in Scheds /\ sched' = Outdated(sched) /\ Kept(sched) /\ orphan' = orphan
  BY Cool DEF Edit, Ledger
<1>2. Kept(sched') /\ Awaiting' = Awaiting /\ sched'.pending = sched.pending
  BY <1>1, OutdatedKeeps, OutdatedParts DEF Awaiting
<1>3. holds' = holds + (IF batch = {} THEN 1 ELSE 0) /\ graces' = graces /\ batch' # {}
      /\ jobs' = jobs /\ calls' = calls
  BY DEF Edit, HoldsTaken
<1>4. Sent' = Sent + (IF batch = {} THEN 1 ELSE 0) /\ Sent' \in Nat
  BY <1>3, Counted DEF Sent
<1>5. Sent' + Awaiting' + graces' - holds' = Sent + Awaiting + graces - holds
  BY <1>2, <1>3, <1>4, Counted, SentCounted
<1>6. sched'.pending => InCooldown'
  <2>1. (holds > 0 => holds' > 0) /\ (critical => critical') /\ dragging' = dragging
    <3>1. critical => critical'
      BY Zenon DEF Edit
    <3>2. holds > 0 => holds' > 0
      BY <1>3, Counted
    <3> QED
      BY <3>1, <3>2 DEF Edit
  <2>2. InCooldown => InCooldown'
    BY <2>1 DEF InCooldown
  <2> QED
    BY <1>2, <2>2 DEF Ledger, PutOffUpdateIsReplayed
<1> QED
  BY <1>1, <1>2, <1>4, <1>5, <1>6, Balanced DEF Edit, Ledger

LEMMA FlushLedger ==
  ASSUME TypeOK, TypeOK', Ledger, Flush
  PROVE  Ledger'
<1>1. Len(jobs') = Len(jobs) + 1
  BY DEF Flush, TypeOK
<1>2. Sent' = Sent
  BY <1>1, Counted DEF Sent, Flush
<1>3. UNCHANGED <<calls, begun, cooling, sched, orphan>>
  BY DEF Flush
<1>4. Awaiting' = Awaiting /\ InCooldown' = InCooldown /\ holds' = holds /\ graces' = graces
  BY <1>3 DEF Awaiting, InCooldown, cooling
<1>5. Kept(sched') /\ (sched'.pending => InCooldown') /\ DOMAIN calls' \subseteq begun' /\ Sent' \in Nat
  BY <1>2, <1>3, <1>4, SentCounted DEF Ledger, PutOffUpdateIsReplayed
<1> QED
  BY <1>2, <1>3, <1>4, <1>5, Balanced

(* The hold of a PATCH passes to the load it asked for, or to a grace timer. *)
LEMMA PatchLedger ==
  ASSUME TypeOK, TypeOK', Ledger, jobs # <<>>, NEW refresh \in BOOLEAN, PatchSettles(refresh)
  PROVE  Ledger'
<1>1. /\ sched \in Scheds /\ Kept(sched) /\ orphan' = orphan /\ calls' = calls /\ batch' = batch
      /\ holds' = holds /\ begun' = begun
  BY Cool DEF PatchSettles, Ledger
<1>2. Sent' = Sent - 1 /\ Sent \in Nat /\ Sent > 0
  <2>1. Len(jobs') = Len(jobs) - 1
    BY FirstJob DEF PatchSettles
  <2>2. Len(jobs) \in Nat /\ Len(jobs) > 0 /\ Cardinality(DOMAIN calls) \in Nat
    BY Counted, FirstJob
  <2> DEFINE one == IF batch = {} THEN 0 ELSE 1
             n == Cardinality(DOMAIN calls)
             k == Len(jobs)
             left == Len(jobs')
  <2>3. /\ Sent = one + k + n /\ Sent' = one + left + n
    BY <1>1 DEF Sent
  <2>4. one \in Nat /\ n \in Nat /\ k \in Nat /\ k > 0 /\ left = k - 1
    BY <2>1, <2>2
  <2> HIDE DEF one, n, k, left
  <2>5. Sent \in Nat /\ Sent > 0
    BY <2>3, <2>4
  <2> QED
    BY <2>3, <2>4, <2>5
<1>3. holds > 0 /\ InCooldown'
  <2>1. holds > 0
    BY <1>2, SentCounted, Counted DEF Ledger
  <2> QED
    BY <1>1, <2>1 DEF InCooldown
<1>4. CASE refresh
  <2>1. Asked(sched, FALSE, 1, InCooldown, sched')
    BY <1>1, <1>4, AskFor DEF PatchSettles
  <2>2. /\ Kept(sched') /\ graces' = graces
        /\ sched'.load.waiters + sched'.follow.waiters = sched.load.waiters + sched.follow.waiters + 1
    BY <1>1, <1>4, <2>1 DEF Asked, PatchSettles
  <2>3. Awaiting' = Awaiting + 1
    BY <1>1, <2>2, Counted DEF Awaiting
  <2>4. Sent' + Awaiting' + graces' - holds' = Sent + Awaiting + graces - holds
    BY <1>1, <1>2, <2>2, <2>3, Counted
  <2> QED
    BY <1>1, <1>2, <1>3, <2>2, <2>4, Balanced DEF Ledger
<1>5. CASE ~refresh
  <2>1. sched' = sched /\ graces' = graces + 1
    BY <1>5 DEF PatchSettles
  <2>2. Awaiting' = Awaiting
    BY <1>1, <2>1 DEF Awaiting
  <2>3. Sent' + Awaiting' + graces' - holds' = Sent + Awaiting + graces - holds
    BY <1>1, <1>2, <2>1, <2>2, Counted
  <2> QED
    BY <1>1, <1>2, <1>3, <2>1, <2>3, Balanced DEF Ledger
<1> QED
  BY <1>4, <1>5

LEMMA CallLedger ==
  ASSUME TypeOK, TypeOK', Ledger, NEW c \in Calls, Call(c)
  PROVE  Ledger'
<1>1. sched \in Scheds /\ sched' = Outdated(sched) /\ Kept(sched) /\ orphan' = orphan
  BY Cool DEF Call, Ledger
<1>2. Kept(sched') /\ Awaiting' = Awaiting /\ sched'.pending = sched.pending
  BY <1>1, OutdatedKeeps, OutdatedParts DEF Awaiting
<1>3. /\ holds' = holds + 1 /\ graces' = graces /\ batch' = batch /\ jobs' = jobs
      /\ DOMAIN calls' = DOMAIN calls \cup {c} /\ begun' = begun \cup {c} /\ c \notin begun
  BY DEF Call, CanEdit
<1>4. Sent' = Sent + 1 /\ Sent' \in Nat
  <2>1. c \notin DOMAIN calls
    BY <1>3 DEF Ledger
  <2>2. IsFiniteSet(DOMAIN calls) /\ Cardinality(DOMAIN calls) \in Nat /\ Len(jobs) \in Nat
    BY Counted
  <2>3. Cardinality(DOMAIN calls \cup {c}) = Cardinality(DOMAIN calls) + 1
    BY <2>1, <2>2, FS_AddElement
  <2>4. Cardinality(DOMAIN calls') = Cardinality(DOMAIN calls) + 1
    BY <1>3, <2>3
  <2> QED
    BY <1>3, <2>2, <2>4 DEF Sent
<1>5. Sent' + Awaiting' + graces' - holds' = Sent + Awaiting + graces - holds
  BY <1>2, <1>3, <1>4, Counted, SentCounted
<1>6. sched'.pending => InCooldown'
  BY <1>3, Counted DEF InCooldown
<1>7. DOMAIN calls' \subseteq begun'
  BY <1>3 DEF Ledger
<1> QED
  BY <1>1, <1>2, <1>4, <1>5, <1>6, <1>7, Balanced

LEMMA ReturnLedger ==
  ASSUME TypeOK, TypeOK', Ledger, NEW c \in DOMAIN calls, CallReturns(c)
  PROVE  Ledger'
<1>1. /\ sched' = sched /\ orphan' = orphan /\ holds' = holds /\ graces' = graces + 1 /\ batch' = batch
      /\ jobs' = jobs /\ DOMAIN calls' = DOMAIN calls \ {c} /\ begun' = begun
  BY DEF CallReturns
<1>2. Sent' = Sent - 1 /\ Sent' \in Nat /\ Sent > 0 /\ Sent \in Nat
  <2>1. Cardinality(DOMAIN calls') = Cardinality(DOMAIN calls) - 1
    BY <1>1, Counted, FS_RemoveElement
  <2>2. Sent > 0 /\ Sent \in Nat
    BY SentCounted
  <2>3. Sent' = Sent - 1
    BY <1>1, <2>1, Counted DEF Sent
  <2> QED
    BY <2>2, <2>3
<1>3. Awaiting' = Awaiting
  BY <1>1 DEF Awaiting
<1>4. Sent' + Awaiting' + graces' - holds' = Sent + Awaiting + graces - holds
  BY <1>1, <1>2, <1>3, Counted
<1>5. InCooldown'
  <2>1. holds > 0
    BY <1>2, SentCounted, Counted DEF Ledger
  <2> QED
    BY <1>1, <2>1 DEF InCooldown
<1> QED
  BY <1>1, <1>2, <1>4, <1>5, Balanced DEF Ledger

LEMMA PostLedger ==
  ASSUME TypeOK, TypeOK', Ledger, NEW c \in Posts, Post(c) \/ PostSucceeds(c) \/ PostFails(c)
  PROVE  Ledger'
<1>1. sched \in Scheds /\ Kept(sched) /\ Outdated(sched) \in Scheds /\ Kept(Outdated(sched))
  BY Cool, OutdatedParts, OutdatedKeeps DEF Ledger
<1>2. UNCHANGED <<batch, jobs, calls, cooling, orphan>> /\ begun \subseteq begun'
  BY DEF Post, PostSucceeds, PostFails
<1>3. \/ sched' = sched
      \/ sched' = Outdated(sched)
      \/ sched' = Enqueue(Outdated(sched), FALSE, 0, InCooldown)
  BY DEF Post, PostSucceeds, PostFails
<1>4. /\ Kept(sched') /\ (sched'.pending => sched.pending)
      /\ sched'.load.waiters + sched'.follow.waiters = sched.load.waiters + sched.follow.waiters
  <2>1. CASE sched' = sched
    BY <1>1, <2>1
  <2>2. CASE sched' = Outdated(sched)
    BY <1>1, <2>2, OutdatedParts, OutdatedKeeps
  <2>3. CASE sched' = Enqueue(Outdated(sched), FALSE, 0, InCooldown)
    <3>1. Asked(Outdated(sched), FALSE, 0, InCooldown, sched')
      BY <1>1, <2>3, AskFor
    <3>2. /\ Outdated(sched).pending = sched.pending
          /\ Outdated(sched).load.waiters + Outdated(sched).follow.waiters
               = sched.load.waiters + sched.follow.waiters
      BY <1>1, OutdatedParts, OutdatedKeeps
    <3> QED
      BY <1>1, <3>1, <3>2, Counted DEF Asked
  <2> QED
    BY <1>3, <2>1, <2>2, <2>3
<1>5. Awaiting' = Awaiting
  BY <1>2, <1>4 DEF Awaiting
<1> QED
  BY <1>2, <1>4, <1>5, HoldsStay DEF Ledger

(* The last hold given back replays what was put off. *)
LEMMA GraceLedger ==
  ASSUME TypeOK, TypeOK', Ledger, GraceOver
  PROVE  Ledger'
<1>1. /\ sched \in Scheds /\ Kept(sched) /\ (critical \/ dragging) \in BOOLEAN
      /\ here \in Events /\ bounds \in [drops : Nat, fails : Nat, switches : Nat]
  BY Cool DEF Ledger
<1>2. holds > 0 /\ holds' = holds - 1 /\ graces' = graces - 1 /\ orphan' = orphan
  BY SentCounted, Counted DEF GraceOver, Ledger
<1>3. Sent' = Sent /\ Sent' \in Nat /\ DOMAIN calls' \subseteq begun'
  BY SentCounted DEF GraceOver, work, Sent, Ledger
<1>4. CASE holds' = 0
  <2> DEFINE cool == (critical \/ dragging)
  <2>1. sched' = Replay(sched, cool)
    BY <1>4 DEF GraceOver
  <2>2. cool \in BOOLEAN
    BY <1>1
  <2>3. cool => InCooldown'
    BY DEF GraceOver, InCooldown
  <2> HIDE DEF cool
  <2>4. Again(sched, cool, sched')
    BY <1>1, <2>1, <2>2, Replayed
  <2>5. Kept(sched') /\ (sched'.pending => InCooldown')
        /\ sched'.load.waiters + sched'.follow.waiters = sched.load.waiters + sched.follow.waiters
    BY <1>1, <2>3, <2>4 DEF Again
  <2>6. Awaiting' = Awaiting
    BY <1>2, <2>5 DEF Awaiting
  <2>7. Sent' + Awaiting' + graces' - holds' = Sent + Awaiting + graces - holds
    BY <1>2, <1>3, <2>6, Counted, SentCounted
  <2> QED
    BY <1>2, <1>3, <2>5, <2>7, Balanced
<1>5. CASE holds' # 0
  <2>1. sched' = sched
    BY <1>5 DEF GraceOver
  <2>2. Awaiting' = Awaiting
    BY <1>2, <2>1 DEF Awaiting
  <2>3. InCooldown'
    BY <1>2, <1>5, Counted DEF InCooldown
  <2>4. Sent' + Awaiting' + graces' - holds' = Sent + Awaiting + graces - holds
    BY <1>2, <1>3, <2>2, Counted, SentCounted
  <2> QED
    BY <1>1, <1>2, <1>3, <2>1, <2>3, <2>4, Balanced
<1> QED
  BY <1>4, <1>5

LEMMA DragLedger ==
  ASSUME TypeOK, TypeOK', Ledger, DragStarts \/ DragEnds
  PROVE  Ledger'
<1>1. /\ sched \in Scheds /\ Kept(sched) /\ (critical \/ holds > 0) \in BOOLEAN
      /\ here \in Events /\ bounds \in [drops : Nat, fails : Nat, switches : Nat]
  BY Cool DEF Ledger
<1>2. Sent' = Sent /\ Sent' \in Nat /\ DOMAIN calls' \subseteq begun'
      /\ holds' = holds /\ graces' = graces /\ orphan' = orphan
  BY SentCounted DEF DragStarts, DragEnds, work, Sent, Ledger
<1>3. CASE DragStarts
  <2>1. sched' = sched /\ InCooldown'
    BY <1>3 DEF DragStarts, InCooldown
  <2>2. Awaiting' = Awaiting
    BY <1>2, <2>1 DEF Awaiting
  <2> QED
    BY <1>1, <1>2, <2>1, <2>2, Balanced
<1>4. CASE DragEnds
  <2> DEFINE cool == (critical \/ holds > 0)
  <2>1. sched' = Replay(sched, cool) /\ cool \in BOOLEAN
    BY <1>1, <1>4 DEF DragEnds
  <2>2. cool => InCooldown'
    BY <1>4 DEF DragEnds, InCooldown
  <2> HIDE DEF cool
  <2>3. Again(sched, cool, sched')
    BY <1>1, <2>1, Replayed
  <2>4. Kept(sched') /\ (sched'.pending => InCooldown')
        /\ sched'.load.waiters + sched'.follow.waiters = sched.load.waiters + sched.follow.waiters
    BY <1>1, <2>2, <2>3 DEF Again
  <2>5. Awaiting' = Awaiting
    BY <1>2, <2>4 DEF Awaiting
  <2> QED
    BY <1>2, <2>4, <2>5, Balanced
<1> QED
  BY <1>3, <1>4

(* The load left behind takes its waiters, and those of its follow-up, along. *)
LEMMA SwitchLedger ==
  ASSUME TypeOK, TypeOK', Ledger, NEW e \in Events, Switch(e)
  PROVE  Ledger'
<1>1. /\ sched'.follow = NoFollow /\ sched'.pending = sched.pending
      /\ sched'.load.phase = "version" /\ sched'.load.waiters = 0
      /\ orphan'.phase = sched.load.phase
      /\ orphan'.waiters = sched.load.waiters + sched.follow.waiters
  BY Switched
<1>2. UNCHANGED <<work, cooling>> /\ orphan.waiters = 0
  BY DEF Switch, Ledger
<1>3. Kept(sched') /\ (~Running(orphan') => orphan'.waiters = 0)
  <2>1. ~Running(orphan') => sched.load.waiters = 0 /\ sched.follow.waiters = 0
    BY <1>1 DEF Ledger, Kept, Running
  <2>2. sched'.follow.waiters = 0 /\ ~sched'.follow.on
    BY <1>1 DEF NoFollow
  <2>3. Running(sched'.load)
    BY <1>1 DEF Running
  <2> QED
    BY <1>1, <2>1, <2>2, <2>3 DEF Kept
<1>4. Awaiting' = Awaiting
  BY <1>1, <1>2, Counted DEF Awaiting, NoFollow
<1> QED
  BY <1>1, <1>2, <1>3, <1>4, HoldsStay DEF Ledger, work

LEMMA LedgerKept ==
  Spec => []Ledger
<1>1. TypeOK /\ Init => Ledger
  <2> SUFFICES ASSUME TypeOK, Init PROVE Ledger
    OBVIOUS
  <2>1. /\ DOMAIN calls = {} /\ batch = {} /\ jobs = <<>> /\ holds = 0 /\ graces = 0 /\ orphan = NoLoad
        /\ sched.load = NewLoad(FALSE, 0) /\ sched.follow = NoFollow /\ ~sched.pending
    BY DEF Init
  <2>2. Kept(sched) /\ orphan.waiters = 0 /\ Awaiting = 0
    BY <2>1 DEF Kept, Awaiting, NoFollow, NewLoad, NoLoad, Running
  <2>3. Cardinality(DOMAIN calls) = 0 /\ Len(jobs) = 0
    BY <2>1, FS_EmptySet
  <2>4. HoldsAreOwed
    BY <2>1, <2>2, <2>3 DEF HoldsAreOwed, Owed
  <2> QED
    BY <2>1, <2>2, <2>4 DEF Ledger, PutOffUpdateIsReplayed
<1>2. TypeOK /\ TypeOK' /\ Ledger /\ [Next]_vars => Ledger'
  <2> SUFFICES ASSUME TypeOK, TypeOK', Ledger, [Next]_vars PROVE Ledger'
    OBVIOUS
  <2>1. CASE UNCHANGED vars
    BY <2>1 DEF Ledger, Kept, HoldsAreOwed, Owed, Awaiting, PutOffUpdateIsReplayed, InCooldown,
                Running, vars, work, cooling
  <2>2. ASSUME PatchSucceeds \/ PatchFails PROVE Ledger'
    <3>1. jobs # <<>> /\ \E refresh \in BOOLEAN : PatchSettles(refresh)
      BY <2>2 DEF PatchSucceeds, PatchFails
    <3> QED
      BY <3>1, PatchLedger
  <2>3. ASSUME NEW c \in Calls, CallSucceeds(c) \/ CallFails(c) PROVE Ledger'
    <3>1. c \in DOMAIN calls /\ CallReturns(c)
      BY <2>3 DEF CallSucceeds, CallFails
    <3> QED
      BY <3>1, ReturnLedger
  <2>4. CASE Next
    BY <2>2, <2>3, <2>4, ServerLedger, LoadingLedger, TickingLedger, EditLedger, FlushLedger, CallLedger,
       PostLedger, GraceLedger, DragLedger, SwitchLedger
    DEF Next, Answer, Refusal, Timer
  <2> QED
    BY <2>1, <2>4
<1> QED
  BY <1>1, <1>2, TypeCorrect, PTL DEF Spec

(* Every hold on automatic loads is owed by exactly one thing that gives it *)
(* back: none is leaked by a refused PATCH, a failed load or a switch, and  *)
(* none is given back twice (armAssignmentCooldown, whenLoadSettles).       *)
THEOREM HoldsCorrect == Spec => []HoldsAreOwed
<1>1. Ledger => HoldsAreOwed
  BY DEF Ledger
<1> QED
  BY <1>1, LedgerKept, PTL

(* An update put off during a cooldown never outlives it: the step that     *)
(* ends the cooldown has replayed it (replayPendingUpdatesRef).             *)
THEOREM PutOffCorrect == Spec => []PutOffUpdateIsReplayed
<1>1. Ledger => PutOffUpdateIsReplayed
  BY DEF Ledger
<1> QED
  BY <1>1, LedgerKept, PTL
-----------------------------------------------------------------------------
(* Steps at which no load reads, ends or is left behind by a switch.  The    *)
(* load under way is kept, outdated, or a new one starts - automatically    *)
(* only when nothing is held - and what was coming stays on its way.         *)

Onward ==
  \/ \E c \in Foreign : SomebodyCommits(c)
  \/ ServerStep \/ SocketUp \/ SocketDown \/ Delivered \/ Wake
  \/ DebounceFires \/ OrphanEnds \/ Ticking \/ TickFails
  \/ \E c \in Edits : Edit(c)
  \/ \E c \in Calls : Call(c)
  \/ \E c \in Posts : Post(c)
  \/ Answer \/ Refusal \/ Timer \/ DragStarts \/ DragEnds

Ending == LoadArrives \/ LoadIsOutdated \/ LoadFails
Reading == ReadVersion \/ ReadCards

Outlived(l, m) ==
  /\ m.phase = l.phase /\ m.gen = l.gen /\ m.ev = l.ev /\ m.got = l.got
  /\ m.stale <=> Running(l)

Goes ==
  /\ \/ sched'.load = sched.load
     \/ Outlived(sched.load, sched'.load)
     \/ Started(sched'.load, holds' > 0)
  /\ \A c : Coming(sched, c) => Coming(sched', c)

LEMMA NextSplit ==
  Next => Onward \/ Ending \/ Reading \/ \E e \in Events : Switch(e)
  BY Zenon DEF Next, Onward, Ending, Reading, Loading

LEMMA SchedKept ==
  ASSUME TypeOK, \/ sched' = sched \/ sched' = Debounced(sched) \/ sched' = [sched EXCEPT !.pending = TRUE]
  PROVE  Goes
<1>1. sched \in Scheds
  BY Cool
<1>2. CASE sched' = sched
  BY <1>2 DEF Goes
<1>3. CASE sched' = Debounced(sched)
  <2>1. sched'.load = sched.load /\ sched'.debounce = TRUE
    BY <1>1, <1>3, DebouncedParts
  <2> QED
    BY <2>1 DEF Goes, Coming
<1>4. CASE sched' = [sched EXCEPT !.pending = TRUE]
  <2>1. sched'.load = sched.load /\ sched'.pending = TRUE
    BY <1>1, <1>4, PutOff
  <2> QED
    BY <2>1 DEF Goes, Coming
<1> QED
  BY <1>2, <1>3, <1>4

LEMMA SchedOutdated ==
  ASSUME TypeOK, sched' = Outdated(sched)
  PROVE  Goes /\ Outlived(sched.load, sched'.load)
<1>1. sched \in Scheds
  BY Cool
<1>2. /\ sched'.follow = sched.follow /\ sched'.pending = sched.pending /\ sched'.debounce = sched.debounce
      /\ Outlived(sched.load, sched'.load) /\ sched'.load.stale = Running(sched.load)
  BY <1>1, OutdatedParts DEF Outlived
<1>3. ASSUME NEW c, Coming(sched, c) PROVE Coming(sched', c)
  BY <1>2, <1>3 DEF Coming, WillRead, Outlived, Running
<1> QED
  BY <1>2, <1>3 DEF Goes

LEMMA SchedAsks ==
  ASSUME TypeOK, holds' = holds, NEW auto \in BOOLEAN, NEW w \in Nat,
         Asked(sched, auto, w, InCooldown, sched')
  PROVE  Goes
<1>1. Started(sched'.load, InCooldown) => Started(sched'.load, holds' > 0)
  BY DEF Started, InCooldown
<1> QED
  BY <1>1 DEF Asked, Lasts, Goes

LEMMA SchedReplays ==
  ASSUME TypeOK, NEW cool \in BOOLEAN, holds' > 0 => cool, sched' = Replay(sched, cool)
  PROVE  Goes
<1>1. Again(sched, cool, sched')
  BY Cool, Replayed
<1>2. Started(sched'.load, cool) => Started(sched'.load, holds' > 0)
  BY DEF Started
<1> QED
  BY <1>1, <1>2 DEF Again, Lasts, Goes

LEMMA LoadGoesOn ==
  ASSUME TypeOK, TypeOK', Onward
  PROVE  Goes
<1>1. CASE \/ \E c \in Foreign : SomebodyCommits(c)
           \/ ServerStep \/ SocketUp \/ SocketDown \/ Delivered \/ Wake
           \/ OrphanEnds \/ TickAsks \/ TickIsQueued \/ TickConfirms \/ TickFails
           \/ \E c \in Calls : CallSucceeds(c) \/ CallFails(c)
           \/ \E c \in Posts : Post(c) \/ PostFails(c)
           \/ Flush \/ DragStarts
  <2>1. \/ sched' = sched \/ sched' = Debounced(sched) \/ sched' = [sched EXCEPT !.pending = TRUE]
    BY <1>1 DEF SomebodyCommits, ServerStep, PatchCommits, RequestCommits, SocketUp, SocketDown, Delivered,
       Wake, OrphanEnds, TickAsks, TickIsQueued, TickConfirms, TickFails, CallSucceeds, CallFails, CallReturns,
       Post, PostFails, Flush, DragStarts
  <2> QED
    BY <2>1, SchedKept
<1>2. CASE DebounceFires \/ TickSeesNews
  <2>1. holds' = holds
    BY <1>2 DEF DebounceFires, TickSeesNews, cooling
  <2>2. sched' = sched \/ sched' = Enqueue(sched, TRUE, 0, InCooldown)
    BY <1>2 DEF DebounceFires, TickSeesNews
  <2>3. CASE sched' = Enqueue(sched, TRUE, 0, InCooldown)
    BY <2>1, <2>3, AskAutomatically, SchedAsks
  <2> QED
    BY <2>2, <2>3, SchedKept
<1>3. CASE (\E c \in Edits : Edit(c)) \/ (\E c \in Calls : Call(c))
  BY <1>3, SchedOutdated DEF Edit, Call
<1>4. CASE PatchSucceeds \/ PatchFails
  <2>1. holds' = holds /\ (sched' = sched \/ sched' = Enqueue(sched, FALSE, 1, InCooldown))
    BY <1>4 DEF PatchSucceeds, PatchFails, PatchSettles
  <2>2. CASE sched' = Enqueue(sched, FALSE, 1, InCooldown)
    <3>1. Asked(sched, FALSE, 1, InCooldown, sched')
      BY <2>2, Cool, AskFor
    <3> QED
      BY <2>1, <3>1, SchedAsks
  <2> QED
    BY <2>1, <2>2, SchedKept
<1>5. ASSUME NEW c \in Posts, PostSucceeds(c) PROVE Goes
  <2>1. \/ sched' = Outdated(sched)
        \/ sched' = Enqueue(Outdated(sched), FALSE, 0, InCooldown)
    BY <1>5 DEF PostSucceeds
  <2>2. CASE sched' = Enqueue(Outdated(sched), FALSE, 0, InCooldown)
    <3> DEFINE o == Outdated(sched)
    <3>1. o \in Scheds /\ Outlived(sched.load, o.load)
      BY Cool, OutdatedParts DEF Outlived
    <3> HIDE DEF o
    <3>2. Asked(o, FALSE, 0, InCooldown, sched')
      BY <2>2, <3>1, AskFor DEF o
    <3>3. Started(sched'.load, InCooldown) => Started(sched'.load, holds' > 0)
      BY <1>5 DEF Started, InCooldown, PostSucceeds, cooling
    <3> QED
      BY <3>1, <3>2, <3>3 DEF Asked, Lasts, Goes
  <2> QED
    BY <2>1, <2>2, SchedOutdated
<1>6. CASE GraceOver
  <2>1. CASE holds' = 0
    <3>1. (critical \/ dragging) \in BOOLEAN /\ ~(holds' > 0) /\ sched' = Replay(sched, critical \/ dragging)
      BY <1>6, <2>1, Cool DEF GraceOver
    <3> QED
      BY <3>1, SchedReplays, Zenon
  <2> QED
    BY <1>6, <2>1, SchedKept DEF GraceOver
<1>7. CASE DragEnds
  <2>1. (critical \/ holds > 0) \in BOOLEAN /\ (holds' > 0 => critical \/ holds > 0)
        /\ sched' = Replay(sched, critical \/ holds > 0)
    BY <1>7, Cool DEF DragEnds
  <2> QED
    BY <2>1, SchedReplays, Zenon
<1> QED
  BY <1>1, <1>2, <1>3, <1>4, <1>5, <1>6, <1>7
  DEF Onward, Ticking, Answer, Refusal, Timer

LEMMA LoadEnds ==
  ASSUME TypeOK, Ledger, Ending
  PROVE  /\ Running(sched.load) /\ sched.load.phase # "version"
         /\ sched'.load = NoLoad \/ Started(sched'.load, holds' > 0)
         /\ \A c : (sched.debounce \/ sched.follow.on \/ sched.pending \/ Running(sched'.load)
                    \/ LoadIsOutdated) => Coming(sched', c)
<1>1. Running(sched.load) /\ sched.load.phase # "version" /\ holds' = holds
  BY DEF Ending, LoadArrives, LoadIsOutdated, LoadFails, Running, Released
<1>2. Started(sched'.load, InCooldown) => Started(sched'.load, holds' > 0)
  BY <1>1 DEF Started, InCooldown
<1>3. CASE LoadIsOutdated
  <2>1. /\ sched'.load = NoLoad \/ Started(sched'.load, InCooldown)
        /\ \A c : Coming(sched', c)
    BY <1>1, <1>3, OutdatedEnds DEF LoadIsOutdated, Ledger
  <2> QED
    BY <1>1, <1>2, <2>1
<1>4. CASE ~LoadIsOutdated
  <2>1. Over(sched, InCooldown, sched')
    BY <1>4, Cool, SettledKeeps, Zenon DEF Ending, LoadArrives, LoadFails, Ledger
  <2> QED
    BY <1>1, <1>2, <1>4, <2>1 DEF Over
<1> QED
  BY <1>3, <1>4

LEMMA LoadReads ==
  ASSUME TypeOK, Reading
  PROVE  /\ sched'.follow = sched.follow /\ sched'.pending = sched.pending
         /\ sched'.debounce = sched.debounce
         /\ sched'.load.auto = sched.load.auto /\ sched'.load.stale = sched.load.stale
         /\ sched'.load.gen = sched.load.gen /\ sched'.load.ev = sched.load.ev
         /\ Running(sched.load) /\ Running(sched'.load)
         /\ \/ sched'.load.phase = "cards" /\ sched'.load.got = sched.load.got
            \/ sched'.load.phase = "crew" /\ sched'.load.got = (committed \cap Of(here)) \ Crew
         /\ bounds'.switches = bounds.switches
<1> DEFINE got == (committed \cap Of(here)) \ Crew
           v == Version(here)
<1>1. got \in SUBSET Changes /\ v \in Versions /\ sched \in Scheds
  BY VersionTypes, Cool DEF Of
<1>2. /\ Running(sched.load)
      /\ \/ sched' = [sched EXCEPT !.load.phase = "cards", !.load.ver = v]
         \/ sched' = [sched EXCEPT !.load.phase = "cards"]
         \/ sched' = [sched EXCEPT !.load.phase = "crew", !.load.got = got]
  BY DEF Reading, ReadVersion, ReadCards, Running
<1>3. bounds'.switches = bounds.switches
  BY Failing DEF Reading, ReadVersion, ReadCards
<1> HIDE DEF got, v
<1>4. \/ HasRead(sched, sched', "cards", sched.load.got)
      \/ HasRead(sched, sched', "crew", got)
  BY <1>1, <1>2, ReadingParts
<1> QED
  BY <1>2, <1>3, <1>4 DEF HasRead, Running, got
-----------------------------------------------------------------------------
(* One Ereignis on the board: the load under way belongs to it, the load    *)
(* left behind to an earlier one, whose result is dropped.                   *)

AtHome(l) ==
  Running(l) => l.gen = bounds.switches /\ l.ev = here /\ l.got \subseteq committed \cap Of(here)

Placed ==
  /\ AtHome(sched.load)
  /\ Running(orphan) => orphan.gen < bounds.switches
  /\ OneEreignis

LEMMA OrphanDropped ==
  ASSUME TypeOK, Placed, OrphanEnds
  PROVE  UNCHANGED <<shown, painted, loaded, failed, lastSync, polling, lastVer, overlooked, strays>>
<1>1. orphan.gen \in Nat /\ bounds.switches \in Nat
  BY DEF TypeOK, Loads
<1>2. ~IsCurrentLoad(orphan)
  BY <1>1 DEF Placed, OrphanEnds, IsCurrentLoad
<1> QED
  BY <1>2 DEF OrphanEnds, history

LEMMA OnwardStays ==
  ASSUME TypeOK, Onward
  PROVE  /\ here' = here /\ committed \subseteq committed' /\ bounds'.switches = bounds.switches
         /\ orphan' = orphan \/ ~Running(orphan')
<1>1. here' = here /\ committed \subseteq committed'
  BY DEF Onward, SomebodyCommits, ServerStep, PatchCommits, RequestCommits, Commit, SocketUp, SocketDown,
     Delivered, Wake, DebounceFires, OrphanEnds, Ticking, TickAsks, TickIsQueued, TickSeesNews, TickConfirms,
     TickFails, Edit, Call, Post, Answer, Refusal, PatchSucceeds, PatchFails, PatchSettles, CallSucceeds,
     CallFails, CallReturns, PostSucceeds, PostFails, Timer, Flush, GraceOver, DragStarts, DragEnds,
     server, board
<1>2. bounds' = bounds \/ MayFail \/ SocketDown
  BY DEF Onward, SomebodyCommits, ServerStep, PatchCommits, RequestCommits, SocketUp,
     Delivered, Wake, DebounceFires, OrphanEnds, Ticking, TickAsks, TickIsQueued, TickSeesNews, TickConfirms,
     TickFails, Edit, Call, Post, Answer, Refusal, PatchSucceeds, PatchFails, CallSucceeds,
     CallFails, PostSucceeds, PostFails, Timer, Flush, GraceOver, DragStarts, DragEnds
<1>3. bounds \in Counters
  BY Cool DEF Counters
<1>4. bounds'.switches = bounds.switches
  BY <1>2, <1>3, Failing, CountersRise DEF SocketDown
<1>5. orphan' = orphan \/ orphan' = NoLoad
  BY DEF Onward, SomebodyCommits, ServerStep, PatchCommits, RequestCommits, SocketUp, SocketDown,
     Delivered, Wake, DebounceFires, OrphanEnds, Ticking, TickAsks, TickIsQueued, TickSeesNews, TickConfirms,
     TickFails, Edit, Call, Post, Answer, Refusal, PatchSucceeds, PatchFails, PatchSettles, CallSucceeds,
     CallFails, CallReturns, PostSucceeds, PostFails, Timer, Flush, GraceOver, DragStarts, DragEnds
<1> QED
  BY <1>1, <1>4, <1>5 DEF NoLoad, Running

(* Where a change comes onto the board, and what a rollback puts back. *)
LEMMA ShownSteps ==
  ASSUME TypeOK, Placed, Onward
  PROVE  \/ shown' \subseteq shown
         \/ \E c \in (Edits \cup Calls) : EventOf[c] = here /\ shown' = shown \cup {c}
         \/ \E c \in posts \cap committed : /\ PostSucceeds(c) /\ shown' = shown \cup {c}
                                            /\ (EventOf[c] # here => c \in strays')
         \/ \E c \in DOMAIN calls : /\ CallFails(c) /\ EventOf[c] = here
                                    /\ shown' \subseteq shown \cup (calls[c] \cap OnCard)
<1>1. CASE OrphanEnds
  BY <1>1, OrphanDropped
<1>2. CASE (\E c \in Edits : Edit(c)) \/ (\E c \in Calls : Call(c))
  BY <1>2 DEF Edit, Call, CanEdit
<1>3. ASSUME NEW c \in Posts, PostSucceeds(c)
      PROVE  \/ shown' = shown
             \/ /\ c \in posts \cap committed /\ shown' = shown \cup {c}
                /\ (EventOf[c] # here => c \in strays')
  BY <1>3 DEF PostSucceeds
<1>4. ASSUME NEW c \in Calls, CallFails(c)
      PROVE  \/ shown' \subseteq shown
             \/ /\ c \in DOMAIN calls /\ EventOf[c] = here
                /\ shown' \subseteq shown \cup (calls[c] \cap OnCard)
  BY <1>4 DEF CallFails, RolledBack
<1>5. CASE \/ \E c \in Foreign : SomebodyCommits(c)
           \/ ServerStep \/ SocketUp \/ SocketDown \/ Delivered \/ Wake
           \/ DebounceFires \/ Ticking \/ TickFails
           \/ \E c \in Posts : Post(c) \/ PostFails(c)
           \/ PatchSucceeds \/ PatchFails \/ Timer \/ DragStarts \/ DragEnds
           \/ \E c \in Calls : CallSucceeds(c)
  <2>1. shown' = shown
    BY <1>5 DEF SomebodyCommits, ServerStep, PatchCommits, RequestCommits, SocketUp, SocketDown, Delivered, Wake,
       DebounceFires, Ticking, TickAsks, TickIsQueued, TickSeesNews, TickConfirms, TickFails, Post, PostFails,
       PatchSucceeds, PatchFails, PatchSettles, Timer, Flush, GraceOver, DragStarts, DragEnds, CallSucceeds, board
  <2> QED
    BY <2>1
<1> QED
  BY <1>1, <1>2, <1>3, <1>4, <1>5 DEF Onward, Answer, Refusal

LEMMA StraysKept ==
  ASSUME TypeOK, Placed, Onward
  PROVE  strays \subseteq strays'
<1>1. CASE OrphanEnds
  BY <1>1, OrphanDropped
<1>2. CASE \E c \in Posts : PostSucceeds(c)
  BY <1>2 DEF PostSucceeds
<1>3. CASE ~OrphanEnds /\ ~\E c \in Posts : PostSucceeds(c)
  BY <1>3 DEF Onward, SomebodyCommits, ServerStep, PatchCommits, RequestCommits, SocketUp, SocketDown,
     Delivered, Wake, DebounceFires, Ticking, TickAsks, TickIsQueued, TickSeesNews, TickConfirms,
     TickFails, Edit, Call, Post, Answer, Refusal, PatchSucceeds, PatchFails, PatchSettles, CallSucceeds,
     CallFails, CallReturns, PostFails, Timer, Flush, GraceOver, DragStarts, DragEnds, history
<1> QED
  BY <1>1, <1>2, <1>3

LEMMA OnwardPlaced ==
  ASSUME TypeOK, TypeOK', Placed, Onward
  PROVE  Placed'
<1>1. /\ here' = here /\ committed \subseteq committed' /\ bounds'.switches = bounds.switches
      /\ orphan' = orphan \/ ~Running(orphan')
  BY OnwardStays
<1>2. AtHome(sched.load)'
  <2>1. AtHome(sched'.load)
    <3>1. CASE sched'.load = sched.load
      BY <3>1 DEF Placed
    <3>2. CASE Outlived(sched.load, sched'.load)
      BY <3>2 DEF Placed, AtHome, Outlived, Running
    <3>3. CASE Started(sched'.load, holds' > 0)
      BY <3>3 DEF AtHome, Started
    <3> QED
      BY <3>1, <3>2, <3>3, LoadGoesOn DEF Goes
  <2> QED
    BY <1>1, <2>1 DEF AtHome, Of, Running
<1>3. (Running(orphan) => orphan.gen < bounds.switches)'
  BY <1>1 DEF Placed, Running
<1>4. OneEreignis'
  <2> SUFFICES ASSUME NEW d \in shown', d \notin strays' PROVE EventOf[d] = here
    BY <1>1 DEF OneEreignis
  <2>1. d \in shown => EventOf[d] = here
    BY StraysKept DEF Placed, OneEreignis
  <2>2. ASSUME NEW c \in DOMAIN calls, EventOf[c] = here, d \in calls[c] \cap OnCard
        PROVE  EventOf[d] = here
    BY <2>2, ChangesAssumption DEF TypeOK
  <2> QED
    BY <2>1, <2>2, ShownSteps
<1> QED
  BY <1>2, <1>3, <1>4 DEF Placed

LEMMA SnapshotHome ==
  ASSUME TypeOK, Placed, Running(sched.load)
  PROVE  Snapshot(sched.load) \subseteq committed \cap Of(here)
  BY DEF Placed, AtHome, Snapshot

LEMMA PlacedKept ==
  Spec => []Placed
<1>1. Init => Placed
  BY DEF Init, Placed, AtHome, OneEreignis, NewLoad, NoLoad, Running
<1>2. TypeOK /\ TypeOK' /\ Ledger /\ Placed /\ [Next]_vars => Placed'
  <2> SUFFICES ASSUME TypeOK, TypeOK', Ledger, Placed, [Next]_vars PROVE Placed'
    OBVIOUS
  <2>1. CASE UNCHANGED vars
    BY <2>1 DEF Placed, AtHome, OneEreignis, Running, Of, vars, server, board, history
  <2>2. CASE Onward
    BY <2>2, OnwardPlaced
  <2>3. CASE Reading
    <3>1. UNCHANGED <<committed, here, shown, strays, orphan>>
      BY <2>3 DEF Reading, ReadVersion, ReadCards, server, board, history
    <3>2. AtHome(sched.load)'
      BY <2>3, <3>1, LoadReads DEF Placed, AtHome, Of, Running
    <3>3. (Running(orphan) => orphan.gen < bounds.switches)'
      BY <2>3, <3>1, LoadReads DEF Placed, Running
    <3> QED
      BY <3>1, <3>2, <3>3 DEF Placed, OneEreignis
  <2>4. CASE Ending
    <3>1. UNCHANGED <<committed, here, orphan>> /\ bounds'.switches = bounds.switches
      BY <2>4, Failing DEF Ending, LoadArrives, LoadIsOutdated, LoadFails, server, board
    <3>2. AtHome(sched.load)'
      BY <2>4, <3>1, LoadEnds DEF AtHome, Started, Of, Running, NoLoad
    <3>3. (Running(orphan) => orphan.gen < bounds.switches)'
      BY <3>1 DEF Placed, Running
    <3>4. OneEreignis'
      <4>1. CASE LoadArrives
        <5>1. shown' \subseteq committed \cap Of(here)
          BY <2>4, <4>1, LoadEnds, SnapshotHome DEF LoadArrives, Paint
        <5> QED
          BY <3>1, <5>1 DEF OneEreignis, Of
      <4>2. CASE LoadIsOutdated \/ LoadFails
        BY <3>1, <4>2 DEF LoadIsOutdated, LoadFails, Placed, OneEreignis, board, history
      <4> QED
        BY <2>4, <4>1, <4>2 DEF Ending
    <3> QED
      BY <3>2, <3>3, <3>4 DEF Placed
  <2>5. ASSUME NEW e \in Events, Switch(e) PROVE Placed'
    <3>1. /\ bounds'.switches = bounds.switches + 1 /\ bounds.switches \in Nat
          /\ sched'.load.gen = bounds.switches + 1 /\ sched'.load.ev = e /\ sched'.load.got = {}
          /\ orphan'.phase = sched.load.phase /\ orphan'.gen = sched.load.gen
      BY <2>5, Switched DEF TypeOK
    <3>2. here' = e /\ shown' = {}
      BY <2>5 DEF Switch
    <3>3. (Running(orphan) => orphan.gen < bounds.switches)'
      BY <3>1 DEF Placed, AtHome, Running
    <3> QED
      BY <3>1, <3>2, <3>3 DEF Placed, AtHome, OneEreignis
  <2> QED
    BY <2>1, <2>2, <2>3, <2>4, <2>5, NextSplit
<1> QED
  BY <1>1, <1>2, TypeCorrect, LedgerKept, PTL DEF Spec

(* The board shows one Ereignis: no load begun for the one just left ever   *)
(* paints over the one selected (loadId and the cleanup's disposed flag).   *)
THEOREM OneEreignisCorrect == Spec => []OneEreignis
<1>1. Placed => OneEreignis
  BY DEF Placed
<1> QED
  BY <1>1, PlacedKept, PTL
-----------------------------------------------------------------------------
(* Snap-back.  An automatic load that nothing outdated runs only while no    *)
(* change of ours is unanswered, and has read every change on the board.     *)

Idle == batch = {} /\ jobs = <<>> /\ DOMAIN calls = {}
FreeIsIdle == holds > 0 \/ Idle

Fresh(l) == Running(l) /\ l.auto /\ ~l.stale
Known == committed \cup Edits \cup Calls

Unharmed ==
  /\ shown \subseteq Known
  /\ \A c \in DOMAIN calls : calls[c] \subseteq Known
  /\ Fresh(sched.load) =>
       /\ Idle
       /\ sched.load.phase = "crew" => (shown \cap committed \cap Of(here)) \ Crew \subseteq sched.load.got

LEMMA FreeKept == Spec => []FreeIsIdle
<1>1. TypeOK /\ Ledger => FreeIsIdle
  <2> SUFFICES ASSUME TypeOK, Ledger, ~(holds > 0) PROVE Idle
    BY DEF FreeIsIdle
  <2>1. ~(Sent > 0) /\ Sent \in Nat
    BY SentCounted, Counted DEF Ledger
  <2>2. batch = {}
    <3>1. batch # {} => Sent > 0
      BY Counted DEF Sent
    <3> QED
      BY <2>1, <3>1
  <2> QED
    BY <2>1, <2>2, SentCounted DEF Idle
<1> QED
  BY <1>1, TypeCorrect, LedgerKept, PTL

(* A step that changes the board or what is unanswered outdates the load,   *)
(* or something was unanswered already; a commit is of nothing shown.        *)
LEMMA BoardGoesOn ==
  ASSUME TypeOK, Placed, Unharmed, Onward
  PROVE  \/ Outlived(sched.load, sched'.load) \/ Started(sched'.load, holds' > 0)
         \/ ~Idle
         \/ /\ UNCHANGED <<batch, jobs, calls, shown, here>>
            /\ shown \cap committed' \subseteq committed
<1>1. here' = here
  BY OnwardStays
<1>2. CASE \/ (\E c \in Edits : Edit(c)) \/ (\E c \in Calls : Call(c))
           \/ \E c \in Posts : PostSucceeds(c)
  <2>1. ASSUME NEW c \in Posts, PostSucceeds(c)
        PROVE  Outlived(sched.load, sched'.load) \/ Started(sched'.load, holds' > 0)
    <3> DEFINE o == Outdated(sched)
    <3>1. o \in Scheds /\ Outlived(sched.load, o.load)
      BY Cool, OutdatedParts DEF Outlived
    <3>2. sched' = o \/ sched' = Enqueue(o, FALSE, 0, InCooldown)
      BY <2>1 DEF PostSucceeds
    <3> HIDE DEF o
    <3>3. CASE sched' = Enqueue(o, FALSE, 0, InCooldown)
      <4>1. Asked(o, FALSE, 0, InCooldown, sched')
        BY <3>1, <3>3, AskFor
      <4>2. Started(sched'.load, InCooldown) => Started(sched'.load, holds' > 0)
        BY <2>1 DEF Started, InCooldown, PostSucceeds, cooling
      <4> QED
        BY <3>1, <4>1, <4>2 DEF Asked, Lasts
    <3> QED
      BY <3>1, <3>2, <3>3
  <2> QED
    BY <1>2, <2>1, SchedOutdated DEF Edit, Call
<1>3. CASE PatchCommits \/ Flush \/ PatchSucceeds \/ PatchFails \/ \E c \in Calls : CallSucceeds(c) \/ CallFails(c)
  <2>1. ~Idle
    BY <1>3 DEF Idle, PatchCommits, Flush, PatchSucceeds, PatchFails, CallSucceeds, CallFails
  <2> QED
    BY <2>1
<1>4. ASSUME NEW c \in Changes, c \notin committed, c \notin Edits, c \notin Calls, Commit({c}),
             UNCHANGED <<batch, jobs, calls, shown, here>>
      PROVE  /\ UNCHANGED <<batch, jobs, calls, shown, here>>
             /\ shown \cap committed' \subseteq committed
  BY <1>4 DEF Commit, Unharmed, Known
<1>5. ASSUME NEW c \in Foreign, SomebodyCommits(c)
      PROVE  /\ UNCHANGED <<batch, jobs, calls, shown, here>>
             /\ shown \cap committed' \subseteq committed
  <2>1. c \in Changes /\ c \notin committed /\ c \notin Edits /\ c \notin Calls
    BY <1>5, ChangesAssumption DEF SomebodyCommits, Changes, Own
  <2> QED
    BY <1>4, <1>5, <2>1 DEF SomebodyCommits, work, board
<1>6. ASSUME NEW c \in Own, RequestCommits(c)
      PROVE  \/ ~Idle
             \/ /\ UNCHANGED <<batch, jobs, calls, shown, here>>
                /\ shown \cap committed' \subseteq committed
  <2>1. CASE c \in DOMAIN calls
    BY <2>1 DEF Idle
  <2>2. CASE c \notin DOMAIN calls
    <3>1. c \in Changes /\ c \notin committed /\ c \notin Edits /\ c \notin Calls
      BY <1>6, <2>2, ChangesAssumption DEF RequestCommits, TypeOK, Changes, Own
    <3> QED
      BY <1>4, <1>6, <3>1 DEF RequestCommits, work, board
  <2> QED
    BY <2>1, <2>2
<1>7. CASE \/ SocketUp \/ SocketDown \/ Delivered \/ Wake
           \/ DebounceFires \/ Ticking \/ TickFails \/ OrphanEnds
           \/ \E c \in Posts : Post(c) \/ PostFails(c)
           \/ GraceOver \/ DragStarts \/ DragEnds
  <2>1. UNCHANGED <<batch, jobs, calls, here, committed>>
    BY <1>7 DEF SocketUp, SocketDown, Delivered, Wake, DebounceFires, Ticking, TickAsks, TickIsQueued,
       TickSeesNews, TickConfirms, TickFails, OrphanEnds, Post, PostFails, GraceOver, DragStarts, DragEnds,
       work, board, server
  <2>2. shown' = shown
    BY <1>7, OrphanDropped DEF SocketUp, SocketDown, Delivered, Wake, DebounceFires, Ticking, TickAsks, TickIsQueued,
       TickSeesNews, TickConfirms, TickFails, Post, PostFails, GraceOver, DragStarts, DragEnds, board
  <2> QED
    BY <2>1, <2>2
<1> QED
  BY <1>1, <1>2, <1>3, <1>5, <1>6, <1>7 DEF Onward, ServerStep, Answer, Refusal, Timer

LEMMA OnwardUnharmed ==
  ASSUME TypeOK, TypeOK', Placed, Unharmed, FreeIsIdle', Onward
  PROVE  Unharmed'
<1>1. here' = here /\ committed \subseteq committed' /\ Known \subseteq Known'
  BY OnwardStays DEF Known
<1>2. (shown \subseteq Known)'
  BY <1>1, ShownSteps DEF Unharmed, Known
<1>3. (\A c \in DOMAIN calls : calls[c] \subseteq Known)'
  <2>1. \A c \in DOMAIN calls' : (c \in DOMAIN calls /\ calls'[c] = calls[c]) \/ calls'[c] = shown
    <3>1. CASE \E c \in Calls : Call(c)
      BY <3>1 DEF Call
    <3>2. CASE \E c \in Calls : CallSucceeds(c) \/ CallFails(c)
      BY <3>2 DEF CallSucceeds, CallFails, CallReturns
    <3>3. CASE /\ ~\E c \in Calls : Call(c)
               /\ ~\E c \in Calls : CallSucceeds(c) \/ CallFails(c)
      <4>1. calls' = calls
        BY <3>3 DEF Onward, SomebodyCommits, ServerStep, PatchCommits, RequestCommits, SocketUp, SocketDown,
           Delivered, Wake, DebounceFires, OrphanEnds, Ticking, TickAsks, TickIsQueued, TickSeesNews,
           TickConfirms, TickFails, Edit, Post, Answer, Refusal, PatchSucceeds, PatchFails, PatchSettles,
           PostSucceeds, PostFails, Timer, Flush, GraceOver, DragStarts, DragEnds, work
      <4> QED
        BY <4>1
    <3> QED
      BY <3>1, <3>2, <3>3
  <2> QED
    BY <1>1, <2>1 DEF Unharmed
<1>4. ASSUME Fresh(sched.load)'
      PROVE  /\ Idle'
             /\ sched'.load.phase = "crew" =>
                  (shown' \cap committed' \cap Of(here')) \ Crew \subseteq sched'.load.got
  <2>1. CASE Started(sched'.load, holds' > 0)
    BY <1>4, <2>1 DEF Started, Fresh, FreeIsIdle
  <2>2. CASE Outlived(sched.load, sched'.load)
    BY <1>4, <2>2 DEF Outlived, Fresh, Running
  <2>3. CASE sched'.load = sched.load /\ ~Outlived(sched.load, sched'.load) /\ ~Started(sched'.load, holds' > 0)
    <3>1. Fresh(sched.load) /\ Idle
      BY <1>4, <2>3 DEF Fresh, Unharmed
    <3>2. /\ UNCHANGED <<batch, jobs, calls, shown, here>>
          /\ shown \cap committed' \subseteq committed
      BY <2>3, <3>1, BoardGoesOn
    <3> QED
      BY <2>3, <3>1, <3>2 DEF Unharmed, Idle
  <2> QED
    BY <2>1, <2>2, <2>3, LoadGoesOn DEF Goes
<1> QED
  BY <1>2, <1>3, <1>4 DEF Unharmed

LEMMA UnharmedKept ==
  Spec => []Unharmed
<1>1. Init => Unharmed
  BY DEF Init, Unharmed, Fresh, NewLoad, Known
<1>2. /\ TypeOK /\ TypeOK' /\ Ledger /\ Placed /\ FreeIsIdle' /\ Unharmed /\ [Next]_vars
      => Unharmed'
  <2> SUFFICES ASSUME TypeOK, TypeOK', Ledger, Placed, FreeIsIdle', Unharmed, [Next]_vars
               PROVE  Unharmed'
    OBVIOUS
  <2>1. CASE UNCHANGED vars
    BY <2>1 DEF Unharmed, Known, Fresh, Running, Idle, Of, vars, server, board, work
  <2>2. CASE Onward
    BY <2>2, OnwardUnharmed
  <2>3. CASE Reading
    <3>1. UNCHANGED <<committed, here, shown, batch, jobs, calls>>
      BY <2>3 DEF Reading, ReadVersion, ReadCards, server, board, work
    <3>2. /\ Fresh(sched.load)' => Fresh(sched.load)
          /\ \/ sched'.load.phase = "cards"
             \/ sched'.load.phase = "crew" /\ sched'.load.got = (committed \cap Of(here)) \ Crew
      BY <2>3, LoadReads DEF Fresh
    <3> QED
      BY <3>1, <3>2 DEF Unharmed, Known, Idle
  <2>4. CASE Ending
    <3>1. UNCHANGED <<committed, here, batch, jobs, calls>>
      BY <2>4 DEF Ending, LoadArrives, LoadIsOutdated, LoadFails, server, board, work
    <3>2. shown' \subseteq committed \/ shown' = shown
      BY <2>4, LoadEnds, SnapshotHome DEF Ending, LoadArrives, Paint, LoadIsOutdated, LoadFails, board
    <3>3. Fresh(sched.load)' => Idle' /\ sched'.load.phase = "version"
      BY <2>4, LoadEnds DEF Fresh, Started, FreeIsIdle, NoLoad, Running
    <3> QED
      BY <3>1, <3>2, <3>3 DEF Unharmed, Known
  <2>5. ASSUME NEW e \in Events, Switch(e) PROVE Unharmed'
    <3>1. shown' = {} /\ UNCHANGED <<committed, calls>>
      BY <2>5 DEF Switch, work
    <3>2. ~Fresh(sched.load)'
      BY <2>5, Switched DEF Fresh
    <3> QED
      BY <3>1, <3>2 DEF Unharmed, Known
  <2> QED
    BY <2>1, <2>2, <2>3, <2>4, <2>5, NextSplit
<1> QED
  BY <1>1, <1>2, TypeCorrect, LedgerKept, PlacedKept, FreeKept, PTL DEF Spec

(* No automatic load takes a change off the board that the server holds or  *)
(* that is not settled: the mutation epoch and the cooldown gate together.   *)
THEOREM NoSnapBackCorrect == Spec => NoSnapBack
<1>1. /\ TypeOK /\ Placed /\ Unharmed /\ [Next]_vars
      => [LoadArrives /\ sched.load.auto =>
            shown \cap (committed \cup InFlight) \cap Of(here) \subseteq shown']_vars
  <2> SUFFICES ASSUME TypeOK, Placed, Unharmed, LoadArrives, sched.load.auto
               PROVE  shown \cap (committed \cup InFlight) \cap Of(here) \subseteq shown'
    OBVIOUS
  <2>1. Running(sched.load) /\ Fresh(sched.load) /\ sched.load.phase = "crew" /\ sched.load.ev = here
    BY DEF LoadArrives, Fresh, Running, Placed, AtHome
  <2>2. InFlight = {}
    BY <2>1 DEF Unharmed, Idle, InFlight
  <2>3. (shown \cap committed \cap Of(here)) \ Crew \subseteq sched.load.got
    BY <2>1 DEF Unharmed
  <2>4. shown' = sched.load.got \cup (committed \cap Of(here) \cap Crew)
    BY <2>1 DEF LoadArrives, Paint, Snapshot
  <2> QED
    BY <2>2, <2>3, <2>4
<1> QED
  BY <1>1, TypeCorrect, PlacedKept, UnharmedKept, PTL DEF Spec, NoSnapBack
-----------------------------------------------------------------------------
(* Nothing forgotten.  What keeps a change from being forgotten survives    *)
(* each step: without the socket there is a poll, with it a broadcast, and  *)
(* a load that arrives has either read the change or left a follow-up.       *)

Covered(c) ==
  \/ mail \/ Coming(sched, c)
  \/ polling /\ (~live \/ ~Running(sched.load))
  \/ ~Running(sched.load) /\ c \in shown \cup overlooked

PollsWithoutSocket == ~live => polling
Covers == PollsWithoutSocket /\ \A c \in committed \cap Of(here) : Covered(c)

LEMMA StartReads ==
  ASSUME Goes, NEW c
  PROVE  /\ Coming(sched, c) => Coming(sched', c)
         /\ Running(sched'.load) /\ ~Running(sched.load) => Coming(sched', c)
<1>1. Started(sched'.load, holds' > 0) => Coming(sched', c)
  BY DEF Started, Coming, WillRead
<1> QED
  BY <1>1 DEF Goes, Outlived, Running

LEMMA NothingDropped ==
  ASSUME TypeOK, Placed, Onward
  PROVE  overlooked \subseteq overlooked' /\ shown \cap committed \subseteq shown' \cup overlooked'
<1>1. CASE OrphanEnds
  BY <1>1, OrphanDropped
<1>2. CASE TickConfirms
  BY <1>2 DEF TickConfirms
<1>3. CASE (\E c \in Edits : Edit(c)) \/ (\E c \in Calls : Call(c)) \/ (\E c \in Posts : PostSucceeds(c))
  BY <1>3 DEF Edit, Call, PostSucceeds, history
<1>4. CASE \E c \in Calls : CallFails(c)
  BY <1>4 DEF CallFails
<1>5. CASE \/ \E c \in Foreign : SomebodyCommits(c)
           \/ ServerStep \/ SocketUp \/ SocketDown \/ Delivered \/ Wake
           \/ DebounceFires \/ TickAsks \/ TickIsQueued \/ TickSeesNews \/ TickFails
           \/ \E c \in Posts : Post(c) \/ PostFails(c)
           \/ PatchSucceeds \/ PatchFails \/ Timer \/ DragStarts \/ DragEnds
           \/ \E c \in Calls : CallSucceeds(c)
  <2>1. shown' = shown /\ overlooked' = overlooked
    BY <1>5 DEF SomebodyCommits, ServerStep, PatchCommits, RequestCommits, SocketUp, SocketDown, Delivered, Wake,
       DebounceFires, TickAsks, TickIsQueued, TickSeesNews, TickFails, Post, PostFails,
       PatchSucceeds, PatchFails, PatchSettles, Timer, Flush, GraceOver, DragStarts, DragEnds, CallSucceeds,
       board, history
  <2> QED
    BY <2>1
<1> QED
  BY <1>1, <1>2, <1>3, <1>4, <1>5 DEF Onward, Ticking, Answer, Refusal

LEMMA NewsTravels ==
  ASSUME TypeOK, Placed, PollsWithoutSocket, Onward
  PROVE  /\ PollsWithoutSocket'
         /\ committed' # committed => mail' \/ (polling' /\ ~live')
         /\ mail => mail' \/ sched'.debounce \/ (polling' /\ ~live')
         /\ polling => polling' \/ sched'.debounce \/ TickConfirms
         /\ live' => live \/ sched'.debounce
<1>1. CASE (\E c \in Foreign : SomebodyCommits(c)) \/ ServerStep
  <2>1. (mail' <=> mail \/ live) /\ live' = live /\ polling' = polling
    BY <1>1 DEF SomebodyCommits, ServerStep, PatchCommits, RequestCommits, Commit, socket, poller
  <2> QED
    BY <2>1 DEF PollsWithoutSocket
<1>2. CASE SocketUp \/ Delivered
  <2>1. sched'.debounce = TRUE /\ live' = TRUE /\ committed' = committed
    BY <1>2, Cool, DebouncedParts DEF SocketUp, Delivered, TypeOK, server, socket
  <2> QED
    BY <2>1 DEF PollsWithoutSocket
<1>3. CASE SocketDown
  BY <1>3 DEF SocketDown, PollsWithoutSocket
<1>4. CASE TickConfirms
  <2>1. /\ mail' = mail /\ live' = live /\ committed' = committed
        /\ polling' <=> polling /\ ~(live /\ IsCurrentLoad(tick))
    BY <1>4 DEF TickConfirms, server, socket
  <2> QED
    BY <1>4, <2>1 DEF PollsWithoutSocket
<1>5. CASE OrphanEnds
  BY <1>5, OrphanDropped DEF OrphanEnds, PollsWithoutSocket, server, socket
<1>6. CASE \/ Wake \/ DebounceFires \/ TickAsks \/ TickIsQueued \/ TickSeesNews \/ TickFails
           \/ (\E c \in Edits : Edit(c)) \/ (\E c \in Calls : Call(c))
           \/ (\E c \in Posts : Post(c))
           \/ Answer \/ Refusal \/ Timer \/ DragStarts \/ DragEnds
  <2>1. UNCHANGED <<committed, mail, live, polling>>
    BY <1>6 DEF Wake, DebounceFires, TickAsks, TickIsQueued, TickSeesNews, TickFails, Edit, Call, Post, Answer,
       Refusal, PatchSucceeds, PatchFails, PatchSettles, CallSucceeds, CallFails, CallReturns, PostSucceeds,
       PostFails, Timer, Flush, GraceOver, DragStarts, DragEnds, server, socket, poller
  <2> QED
    BY <2>1 DEF PollsWithoutSocket
<1> QED
  BY <1>1, <1>2, <1>3, <1>4, <1>5, <1>6 DEF Onward, Ticking

LEMMA OnwardCovers ==
  ASSUME TypeOK, TypeOK', Placed, Covers, Onward
  PROVE  Covers'
<1>1. /\ PollsWithoutSocket'
      /\ committed' # committed => mail' \/ (polling' /\ ~live')
      /\ mail => mail' \/ sched'.debounce \/ (polling' /\ ~live')
      /\ polling => polling' \/ sched'.debounce \/ TickConfirms
      /\ live' => live \/ sched'.debounce
  BY NewsTravels DEF Covers
<1>2. here' = here /\ Goes
  BY OnwardStays, LoadGoesOn
<1> SUFFICES ASSUME NEW c \in committed' \cap Of(here) PROVE Covered(c)'
  BY <1>1, <1>2 DEF Covers, Of
<1>3. sched'.debounce \/ mail' \/ Coming(sched', c) \/ (polling' /\ ~live') => Covered(c)'
  BY DEF Covered, Coming
<1>4. CASE c \notin committed
  BY <1>1, <1>3, <1>4
<1>5. CASE c \in committed
  <2>1. Covered(c)
    BY <1>5 DEF Covers
  <2>2. Running(sched'.load) /\ ~Running(sched.load) => Coming(sched', c)
    BY <1>2, StartReads
  <2>3. CASE mail \/ Coming(sched, c)
    BY <1>1, <1>2, <1>3, <2>3, StartReads
  <2>4. CASE TickConfirms
    <3>1. /\ UNCHANGED <<mail, live, sched, shown>>
          /\ polling' <=> polling /\ ~(live /\ IsCurrentLoad(tick))
          /\ overlooked' = overlooked \cup Missing
      BY <2>4 DEF TickConfirms, server, socket
    <3>2. CASE polling /\ ~live
      BY <1>3, <3>1, <3>2
    <3>3. CASE ~Running(sched.load)
      <4>1. c \in shown' \cup overlooked'
        BY <1>5, <3>1 DEF Missing
      <4> QED
        BY <3>1, <3>3, <4>1 DEF Covered
    <3> QED
      BY <2>1, <2>3, <3>2, <3>3 DEF Covered
  <2>5. CASE polling /\ ~TickConfirms /\ (~live \/ ~Running(sched.load))
    <3>1. polling' \/ sched'.debounce
      BY <1>1, <2>5
    <3>2. CASE ~live
      BY <1>1, <1>3, <3>1, <3>2
    <3>3. CASE ~Running(sched.load)
      <4>1. Running(sched'.load) => Covered(c)'
        BY <1>3, <2>2, <3>3
      <4>2. ~Running(sched'.load) /\ polling' => Covered(c)'
        BY DEF Covered
      <4> QED
        BY <1>3, <3>1, <4>1, <4>2
    <3> QED
      BY <2>5, <3>2, <3>3
  <2>6. CASE ~Running(sched.load) /\ c \in shown \cup overlooked
    <3>1. c \in shown' \cup overlooked'
      BY <1>5, <2>6, NothingDropped
    <3>2. Running(sched'.load) => Covered(c)'
      BY <1>3, <2>2, <2>6
    <3> QED
      BY <3>1, <3>2 DEF Covered
  <2> QED
    BY <2>1, <2>3, <2>4, <2>5, <2>6 DEF Covered
<1> QED
  BY <1>4, <1>5

LEMMA EndingCovers ==
  ASSUME TypeOK, Ledger, Placed, Covers, Ending
  PROVE  Covers'
<1>1. /\ Running(sched.load) /\ sched.load.phase # "version"
      /\ \A c : (sched.debounce \/ sched.follow.on \/ sched.pending \/ Running(sched'.load)
                 \/ LoadIsOutdated) => Coming(sched', c)
  BY LoadEnds
<1>2. UNCHANGED <<committed, mail, live, here>>
  BY DEF Ending, LoadArrives, LoadIsOutdated, LoadFails, server, socket, board
<1>3. PollsWithoutSocket'
  BY <1>2 DEF Ending, LoadArrives, Paint, LoadIsOutdated, LoadFails, PollsAfterFailure, poller, Covers,
     PollsWithoutSocket
<1> SUFFICES ASSUME NEW c \in committed \cap Of(here) PROVE Covered(c)'
  BY <1>2, <1>3 DEF Covers, Of
<1>4. CASE mail \/ Coming(sched', c)
  BY <1>2, <1>4 DEF Covered
<1>5. CASE LoadFails
  <2>1. polling' = TRUE
    BY <1>5 DEF LoadFails, PollsAfterFailure
  <2> QED
    BY <1>1, <2>1 DEF Covered
<1>6. CASE LoadArrives /\ ~mail /\ ~Coming(sched', c)
  <2>1. ~Running(sched'.load)
    BY <1>1, <1>6
  <2>2. \/ WillRead(sched.load, c)
        \/ polling /\ ~live
    BY <1>1, <1>6 DEF Covers, Covered, Coming
  <2>3. CASE polling /\ ~live
    <3>1. polling'
      BY <1>6, <2>3 DEF LoadArrives, Paint
    <3> QED
      BY <1>2, <2>3, <3>1 DEF Covered
  <2>4. CASE WillRead(sched.load, c)
    <3>1. c \in Crew \/ c \in sched.load.got
      BY <1>6, <2>4 DEF WillRead, LoadArrives
    <3>2. sched.load.ev = here
      BY <1>1 DEF Placed, AtHome
    <3>3. c \in shown'
      BY <1>6, <3>1, <3>2 DEF LoadArrives, Paint, Snapshot
    <3> QED
      BY <2>1, <3>3 DEF Covered
  <2> QED
    BY <2>2, <2>3, <2>4
<1>7. CASE LoadIsOutdated
  BY <1>1, <1>7 DEF Covered
<1> QED
  BY <1>4, <1>5, <1>6, <1>7 DEF Ending

LEMMA CoversKept ==
  Spec => []Covers
<1>1. Init => Covers
  BY DEF Init, Covers, PollsWithoutSocket, PollsOnMount
<1>2. TypeOK /\ TypeOK' /\ Ledger /\ Placed /\ Covers /\ [Next]_vars => Covers'
  <2> SUFFICES ASSUME TypeOK, TypeOK', Ledger, Placed, Covers, [Next]_vars PROVE Covers'
    OBVIOUS
  <2>1. CASE UNCHANGED vars
    BY <2>1 DEF Covers, Covered, Coming, WillRead, PollsWithoutSocket, Running, Of, vars, server, socket,
                board, poller, history
  <2>2. CASE Onward
    BY <2>2, OnwardCovers
  <2>3. CASE Reading
    <3>1. UNCHANGED <<committed, mail, live, here, shown, polling, overlooked>>
      BY <2>3 DEF Reading, ReadVersion, ReadCards, server, socket, board, poller, history
    <3>2. ASSUME NEW c \in committed \cap Of(here), Coming(sched, c) PROVE Coming(sched', c)
      BY <2>3, <3>2, LoadReads DEF Coming, WillRead
    <3>3. Running(sched.load) /\ Running(sched'.load)
      BY <2>3, LoadReads
    <3> QED
      BY <3>1, <3>2, <3>3 DEF Covers, Covered, PollsWithoutSocket, Of
  <2>4. CASE Ending
    BY <2>4, EndingCovers
  <2>5. ASSUME NEW e \in Events, Switch(e) PROVE Covers'
    <3>1. PollsWithoutSocket'
      BY <2>5 DEF Switch, PollsOnMount, PollsWithoutSocket
    <3>2. \A c : Coming(sched', c)
      BY <2>5, Switched DEF Coming, WillRead
    <3> QED
      BY <3>1, <3>2 DEF Covers, Covered
  <2> QED
    BY <2>1, <2>2, <2>3, <2>4, <2>5, NextSplit
<1> QED
  BY <1>1, <1>2, TypeCorrect, LedgerKept, PlacedKept, PTL DEF Spec

(* No change the server holds is forgotten: unless a poll tick or a failed  *)
(* request's rollback passed over it, the board shows it or a broadcast, a  *)
(* load, a put-off replay or a poll is still to bring it.                    *)
THEOREM NothingForgottenCorrect == Spec => []NothingForgotten
<1>1. Covers => NothingForgotten
  BY DEF Covers, Covered, Coming, NothingForgotten, UnderWay, Missing
<1> QED
  BY <1>1, CoversKept, PTL
=============================================================================
