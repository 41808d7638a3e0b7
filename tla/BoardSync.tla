------------------------------ MODULE BoardSync ------------------------------
(***************************************************************************)
(* One browser's board and the server it shows: the single loader behind   *)
(* its scheduler, the socket with its polling fallback, the cooldown that   *)
(* keeps loads off optimistic changes, and the switch to another Ereignis   *)
(* (frontend/lib/contexts/operations/use-board-sync.ts and the modules it   *)
(* leans on).                                                               *)
(*                                                                          *)
(* Data is abstracted to CHANGES.  A change is one edit of one Ereignis'    *)
(* board; the server holds the set of those that were committed, the board  *)
(* the set of those it shows.  A snapshot read by a load is the set         *)
(* committed when each of its two waves of GETs was answered.               *)
(***************************************************************************)
EXTENDS Naturals, FiniteSets, Sequences

CONSTANTS
  Events,    \* the Ereignisse this browser may select
  Foreign,   \* changes other people make
  Edits,     \* own changes sent as a debounced PATCH of one card
  Calls,     \* own assignments and releases, each a request of its own
  Posts,     \* own changes shown only once the server answered
  Moves,     \* the Edits that move the card to another status
  Removals,  \* the Calls that take something off the card
  Crew,      \* changes the second wave of GETs reads (crew, functions, Reko)
  Quiet,     \* changes the sync version does not reflect (a vehicle's release)
  OnCard,    \* changes of the one card the Edits and Calls are made on
  EventOf,   \* the Ereignis a change belongs to
  First,     \* the Ereignis selected at the start
  MaxDrops, MaxFails, MaxSwitches, \* bounds: lost sockets, failed requests, switches
  MaxTogether, \* bound: those three and further claims of the socket together
  MaxClaims    \* bound: how often the socket is claimed

Own == Edits \cup Calls \cup Posts
Changes == Foreign \cup Own

ASSUME ChangesAssumption ==
  /\ Foreign \cap Own = {} /\ Edits \cap Calls = {}
  /\ Posts \cap (Edits \cup Calls) = {}
  /\ Moves \subseteq Edits /\ Removals \subseteq Calls
  /\ Edits \cup Calls \subseteq OnCard /\ OnCard \subseteq Changes
  /\ EventOf \in [Changes -> Events] /\ \A c, d \in OnCard : EventOf[c] = EventOf[d]
  /\ First \in Events
ASSUME BoundsAssumption ==
  /\ MaxDrops \in Nat /\ MaxFails \in Nat /\ MaxSwitches \in Nat /\ MaxTogether \in Nat
  /\ MaxClaims \in Nat \ {0}
ASSUME FiniteAssumption == IsFiniteSet(Calls)

VARIABLES
  committed,  \* what the server holds
  mail,       \* a broadcast for this board is on its way
  live,       \* the socket is up and in the room
  claims,     \* WebSocketClient.consumers
  here,       \* the selected Ereignis
  shown,      \* what the board shows
  painted,    \* setOperations(ops) has run since the board was emptied
  loaded,     \* isLoaded
  failed,     \* loadError
  lastSync,   \* lastSyncAt: never, before the socket came up, or since
  batch,      \* edits merged in the UpdateBatcher
  jobs,       \* the card's PATCHes, the first in flight (KeyedSerialQueue)
  calls,      \* requests in flight, each with the board it started from
  posts,      \* Posts in flight
  begun,      \* own changes started so far
  holds,      \* assignmentHoldsRef
  graces,     \* grace timers running before a hold is given back
  critical,   \* criticalUpdateInProgress
  dragging,   \* boardDraggingRef
  sched,      \* ReloadScheduler, the load it runs, and pendingReplayRef
  orphan,     \* a load of the previous Ereignis still under way
  polling,    \* isPollingActive
  tick,       \* a poll tick waiting for the sync version
  lastVer,    \* lastSyncVersionRef
  bounds,     \* sockets lost, requests failed and switches made so far
  overlooked, \* history: committed changes a tick or a rollback passed over
  strays      \* history: new cards put on the board of another Ereignis

server  == <<committed, mail>>
socket  == <<live, claims>>
board   == <<here, shown, painted, loaded, failed, lastSync>>
work    == <<batch, jobs, calls, posts, begun>>
cooling == <<holds, graces, critical, dragging>>
poller  == <<polling, tick, lastVer>>
history == <<overlooked, strays>>
vars == <<server, socket, board, work, cooling, sched, orphan, poller, bounds, history>>
-----------------------------------------------------------------------------
Of(e) == {c \in Changes : EventOf[c] = e}

(* A sync version is told apart by what it covers; versions of two          *)
(* Ereignisse never agree.                                                  *)
NoVersion == [ev |-> First, covers |-> {}, none |-> TRUE]
Version(e) == [ev |-> e, covers |-> (committed \cap Of(e)) \ Quiet, none |-> FALSE]

InCooldown == critical \/ holds > 0 \/ dragging

(* Runs of the loader.  `gen` is the Ereignis switch it belongs to (loadId), *)
(* `stale` that the mutation epoch moved since it started, `waiters` how     *)
(* many of this browser's own requests hold their cooldown until it ends.   *)
NoLoad == [phase |-> "off", auto |-> FALSE, stale |-> FALSE, waiters |-> 0,
           gen |-> 0, ev |-> First, ver |-> NoVersion, got |-> {}]
NewLoad(auto, waiters) ==
  [phase |-> "version", auto |-> auto, stale |-> FALSE, waiters |-> waiters,
   gen |-> bounds.switches, ev |-> here, ver |-> NoVersion, got |-> {}]
Running(l) == l.phase # "off"
AnyLoad(l) == TRUE
IsCurrentLoad(l) == l.gen = bounds.switches

NoFollow == [on |-> FALSE, auto |-> FALSE, waiters |-> 0]
Joined(f, auto, waiters) ==
  [on |-> TRUE, auto |-> auto /\ (f.on => f.auto), waiters |-> f.waiters + waiters]

(* ReloadScheduler.enqueue, its gate, and the follow-up's turn when the     *)
(* running load is done.  `cool` is InCooldown at that moment.              *)
Enqueue(s, auto, waiters, cool) ==
  IF Running(s.load)
  THEN [s EXCEPT !.debounce = FALSE, !.follow = Joined(s.follow, auto, waiters)]
  ELSE IF auto /\ cool
       THEN [s EXCEPT !.debounce = FALSE, !.pending = TRUE]
       ELSE [s EXCEPT !.debounce = FALSE, !.load = NewLoad(auto, waiters)]

DroppedWhenHeld(s, cool) ==
  LET idle == [s EXCEPT !.load = NoLoad, !.follow = NoFollow]
      f == s.follow
  IN IF f.on /\ ~(f.auto /\ cool) THEN [idle EXCEPT !.load = NewLoad(f.auto, f.waiters)] ELSE idle
Settled(s, cool) ==
  LET idle == [s EXCEPT !.load = NoLoad, !.follow = NoFollow]
      f == s.follow
  IN IF ~f.on THEN idle
     ELSE IF f.auto /\ cool THEN [idle EXCEPT !.pending = TRUE]
     ELSE [idle EXCEPT !.load = NewLoad(f.auto, f.waiters)]

NeverReplayed(s, cool) == s
Replay(s, cool) ==
  IF cool \/ ~s.pending THEN s ELSE Enqueue([s EXCEPT !.pending = FALSE], TRUE, 0, cool)

NoTick == [on |-> FALSE, gen |-> 0, ver |-> NoVersion]

Busy == Running(sched.load) \/ sched.follow.on \/ sched.debounce

(* requestDebounced: a burst of events becomes one load. *)
Debounced(s) == [s EXCEPT !.debounce = TRUE]

(* The epoch moved: whatever is being loaded is older than the board. *)
StillGood(s) == s
Outdated(s) == [s EXCEPT !.load.stale = Running(s.load)]

(* A socket that is down when the effect mounts produces no transition. *)
PollsOnMount(up) == ~up

(* A failed load is retried by the poller, with the socket up as well: a    *)
(* quiet Ereignis sends no event to retry on.                               *)
LeavesItToTheSocket == polling \/ ~live
PollsAfterFailure == TRUE

MistypedAgreed == IF live THEN "live" ELSE "before"
Agreed == IF live THEN "since" ELSE "before"
Missing == (committed \cap Of(here)) \ shown
-----------------------------------------------------------------------------
Init ==
  /\ committed = {} /\ mail = FALSE
  /\ live = FALSE /\ claims = 1
  /\ here = First /\ shown = {} /\ painted = FALSE
  /\ loaded = FALSE /\ failed = FALSE /\ lastSync = "never"
  /\ batch = {} /\ jobs = <<>> /\ calls = [c \in {} |-> {}] /\ posts = {} /\ begun = {}
  /\ holds = 0 /\ graces = 0 /\ critical = FALSE /\ dragging = FALSE
  /\ bounds = [drops |-> 0, fails |-> 0, switches |-> 0]
  /\ sched = [load |-> NewLoad(FALSE, 0), follow |-> NoFollow,
              debounce |-> FALSE, pending |-> FALSE]
  /\ orphan = NoLoad
  /\ polling = PollsOnMount(FALSE) /\ tick = NoTick /\ lastVer = NoVersion
  /\ overlooked = {} /\ strays = {}

Free == bounds.drops + bounds.fails + bounds.switches + (claims - 1) < MaxTogether
MayFail == /\ Free /\ bounds.fails < MaxFails
           /\ bounds' = [bounds EXCEPT !.fails = @ + 1]
-----------------------------------------------------------------------------
(* The server. Every handler broadcasts to the room after its commit. *)

Commit(cs) ==
  /\ committed' = committed \cup cs
  /\ mail' = (mail \/ live)

SomebodyCommits(c) ==
  /\ c \in Foreign \ committed
  /\ Commit({c})
  /\ UNCHANGED <<socket, board, work, cooling, sched, orphan, poller, bounds, history>>

(* The PATCH in flight reaches the server; its answer is a step of its own. *)
PatchCommits ==
  /\ jobs # <<>> /\ ~(Head(jobs) \subseteq committed)
  /\ Commit(Head(jobs))
  /\ UNCHANGED <<socket, board, work, cooling, sched, orphan, poller, bounds, history>>

RequestCommits(c) ==
  /\ c \in (DOMAIN calls \cup posts) \ committed
  /\ Commit({c})
  /\ UNCHANGED <<socket, board, work, cooling, sched, orphan, poller, bounds, history>>
-----------------------------------------------------------------------------
(* The socket. A broadcast made while it is down is gone for good. *)

SocketUp ==
  /\ ~live
  /\ live' = TRUE
  /\ polling' = FALSE
  /\ sched' = Debounced(sched)
  /\ UNCHANGED <<server, claims, board, work, cooling, orphan, tick, lastVer, bounds, history>>

SocketDown ==
  /\ live /\ Free /\ bounds.drops < MaxDrops
  /\ bounds' = [bounds EXCEPT !.drops = @ + 1]
  /\ live' = FALSE /\ mail' = FALSE
  /\ lastSync' = IF lastSync = "since" THEN "before" ELSE lastSync
  /\ polling' = TRUE
  /\ UNCHANGED <<committed, claims, here, shown, painted, loaded, failed, work, cooling,
                 sched, orphan, tick, lastVer, history>>

Delivered ==
  /\ mail /\ live
  /\ mail' = FALSE
  /\ sched' = Debounced(sched)
  /\ UNCHANGED <<committed, socket, board, work, cooling, orphan, poller, bounds, history>>

(* The tab becomes visible again: connect() claims the socket once more. *)
Wake ==
  /\ Free /\ claims < MaxClaims
  /\ claims' = claims + 1
  /\ UNCHANGED <<server, live, board, work, cooling, sched, orphan, poller, bounds, history>>
-----------------------------------------------------------------------------
(* The loader. *)

DebounceFires ==
  /\ sched.debounce
  /\ sched' = Enqueue(sched, TRUE, 0, InCooldown)
  /\ UNCHANGED <<server, socket, board, work, cooling, orphan, poller, bounds, history>>

ReadVersion ==
  /\ sched.load.phase = "version"
  /\ \/ /\ sched' = [sched EXCEPT !.load.phase = "cards", !.load.ver = Version(here)]
        /\ UNCHANGED bounds
     \/ /\ MayFail
        /\ sched' = [sched EXCEPT !.load.phase = "cards"]
  /\ UNCHANGED <<server, socket, board, work, cooling, orphan, poller, history>>

ReadCards ==
  /\ sched.load.phase = "cards"
  /\ sched' = [sched EXCEPT !.load.phase = "crew",
                            !.load.got = (committed \cap Of(here)) \ Crew]
  /\ UNCHANGED <<server, socket, board, work, cooling, orphan, poller, bounds, history>>

(* A load ended: those that awaited it leave their `finally`. *)
Released(waiters) ==
  /\ graces' = graces + waiters
  /\ critical' = (critical /\ waiters = 0)
  /\ UNCHANGED <<holds, dragging>>

Snapshot(l) == l.got \cup (committed \cap Of(l.ev) \cap Crew)

Paint(l) ==
  /\ shown' = Snapshot(l)
  /\ painted' = TRUE /\ loaded' = TRUE /\ failed' = FALSE
  /\ lastSync' = Agreed
  /\ polling' = (polling /\ ~live)
  /\ lastVer' = l.ver
  /\ overlooked' = overlooked \ Snapshot(l)
  /\ strays' = {}

LoadArrives ==
  /\ sched.load.phase = "crew" /\ ~sched.load.stale
  /\ Paint(sched.load)
  /\ sched' = Settled(sched, InCooldown)
  /\ Released(sched.load.waiters)
  /\ UNCHANGED <<server, socket, here, work, orphan, tick, bounds>>

(* A mutation landed while it was fetching: dropped, and asked for again. *)
LoadIsOutdated ==
  /\ sched.load.phase = "crew" /\ sched.load.stale
  /\ sched' = Settled(Replay([sched EXCEPT !.pending = TRUE], InCooldown), InCooldown)
  /\ Released(sched.load.waiters)
  /\ UNCHANGED <<server, socket, board, work, orphan, poller, bounds, history>>

LoadFails ==
  /\ sched.load.phase \in {"cards", "crew"}
  /\ MayFail
  /\ failed' = TRUE /\ loaded' = TRUE
  /\ polling' = PollsAfterFailure
  /\ sched' = Settled(sched, InCooldown)
  /\ Released(sched.load.waiters)
  /\ UNCHANGED <<server, socket, here, shown, painted, lastSync, work, orphan, tick,
                 lastVer, history>>

(* What a load of the previous Ereignis brings is dropped whole. *)
OrphanEnds ==
  /\ Running(orphan)
  /\ IF IsCurrentLoad(orphan)
     THEN Paint(orphan)
     ELSE UNCHANGED <<shown, painted, loaded, failed, lastSync, polling, lastVer, history>>
  /\ orphan' = NoLoad
  /\ Released(orphan.waiters)
  /\ UNCHANGED <<server, socket, here, work, sched, tick, bounds>>
-----------------------------------------------------------------------------
(* The polling fallback. *)

TickAsks ==
  /\ polling /\ ~tick.on /\ ~Busy /\ ~InCooldown
  /\ tick' = [on |-> TRUE, gen |-> bounds.switches, ver |-> Version(here)]
  /\ UNCHANGED <<server, socket, board, work, cooling, sched, orphan, polling, lastVer,
                 bounds, history>>

TickIsQueued ==
  /\ polling /\ ~tick.on /\ ~Busy /\ InCooldown
  /\ sched' = [sched EXCEPT !.pending = TRUE]
  /\ UNCHANGED <<server, socket, board, work, cooling, orphan, poller, bounds, history>>

(* The version is remembered before the load it asks for has succeeded. A   *)
(* tick of the Ereignis left meanwhile has no scheduler any more.           *)
TickSeesNews ==
  /\ tick.on /\ tick.ver # lastVer
  /\ lastVer' = tick.ver /\ tick' = NoTick
  /\ sched' = IF IsCurrentLoad(tick) THEN Enqueue(sched, TRUE, 0, InCooldown) ELSE sched
  /\ UNCHANGED <<server, socket, board, work, cooling, orphan, polling, bounds, history>>

TickConfirms ==
  /\ tick.on /\ tick.ver = lastVer
  /\ tick' = NoTick
  /\ lastSync' = Agreed /\ failed' = FALSE
  /\ polling' = (polling /\ ~(live /\ IsCurrentLoad(tick)))
  /\ overlooked' = overlooked \cup Missing
  /\ UNCHANGED <<server, socket, here, shown, painted, loaded, work, cooling, sched,
                 orphan, lastVer, bounds, strays>>

TickFails ==
  /\ tick.on
  /\ MayFail
  /\ tick' = NoTick
  /\ UNCHANGED <<server, socket, board, work, cooling, sched, orphan, polling, lastVer, history>>
-----------------------------------------------------------------------------
(* Own work: an optimistic change outdates the load under way and holds     *)
(* automatic loads back until it is settled.                                *)

CanEdit(c) == painted /\ EventOf[c] = here /\ c \notin begun

(* One hold per pending batch, however many edits it merges. *)
OneHoldPerEdit == 1
HoldsTaken == IF batch = {} THEN 1 ELSE 0
Edit(c) ==
  /\ c \in Edits /\ CanEdit(c)
  /\ begun' = begun \cup {c}
  /\ shown' = shown \cup {c}
  /\ batch' = batch \cup {c}
  /\ sched' = Outdated(sched) /\ holds' = holds + HoldsTaken
  /\ critical' = (critical \/ (batch \cup {c}) \cap Moves # {})
  /\ UNCHANGED <<server, socket, here, painted, loaded, failed, lastSync, jobs, calls, posts,
                 graces, dragging, orphan, poller, bounds, history>>

Flush ==
  /\ batch # {}
  /\ batch' = {} /\ jobs' = Append(jobs, batch)
  /\ UNCHANGED <<server, socket, board, calls, posts, begun, cooling, sched, orphan, poller,
                 bounds, history>>

(* The PATCH is answered.  `refresh`: the answer asks for a load and the    *)
(* hold is kept until that load is through.                                 *)
PatchSettles(refresh) ==
  /\ jobs' = Tail(jobs)
  /\ IF refresh
     THEN /\ sched' = Enqueue(sched, FALSE, 1, InCooldown)
          /\ UNCHANGED <<graces, critical>>
     ELSE /\ critical' = FALSE
          /\ graces' = graces + 1
          /\ UNCHANGED sched
  /\ UNCHANGED <<server, socket, board, batch, calls, posts, begun, holds, dragging, orphan,
                 poller, history>>

(* A move that reopens the card refetches it: its crew comes back with it. *)
PatchSucceeds ==
  /\ jobs # <<>> /\ Head(jobs) \subseteq committed
  /\ \E reopened \in BOOLEAN :
        /\ reopened => Head(jobs) \cap Moves # {}
        /\ PatchSettles(reopened)
  /\ UNCHANGED bounds

(* Refused, or not answered although it may have been carried out.  What    *)
(* was typed stays on the board unless a load is asked for.                 *)
PatchFails ==
  /\ jobs # <<>>
  /\ MayFail
  /\ \E conflict \in BOOLEAN :
        /\ conflict => Head(jobs) \cap committed = {}
        /\ PatchSettles(conflict \/ Head(jobs) \cap Moves # {})

Call(c) ==
  /\ c \in Calls /\ CanEdit(c)
  /\ begun' = begun \cup {c}
  /\ calls' = [x \in DOMAIN calls \cup {c} |-> IF x = c THEN shown ELSE calls[x]]
  /\ shown' = shown \cup {c}
  /\ sched' = Outdated(sched) /\ holds' = holds + 1
  /\ UNCHANGED <<server, socket, here, painted, loaded, failed, lastSync, batch, jobs, posts,
                 graces, critical, dragging, orphan, poller, bounds, history>>

CallReturns(c) ==
  /\ calls' = [x \in DOMAIN calls \ {c} |-> calls[x]]
  /\ graces' = graces + 1
  /\ UNCHANGED <<server, socket, here, painted, loaded, failed, lastSync, batch, jobs, posts,
                 begun, holds, critical, dragging, sched, orphan, poller>>

CallSucceeds(c) ==
  /\ c \in DOMAIN calls \cap committed
  /\ CallReturns(c)
  /\ UNCHANGED <<shown, bounds, history>>

(* A failed release puts back the whole card as it was when it was made. *)
RolledBack(c) ==
  IF c \in Removals THEN (shown \ OnCard) \cup (calls[c] \cap OnCard) ELSE shown \ {c}

CallFails(c) ==
  /\ c \in DOMAIN calls
  /\ MayFail
  /\ shown' = IF EventOf[c] = here /\ painted THEN RolledBack(c) ELSE shown
  /\ overlooked' = overlooked \cup ((shown \ shown') \cap committed)
  /\ CallReturns(c)
  /\ UNCHANGED strays

Post(c) ==
  /\ c \in Posts \ begun /\ loaded /\ EventOf[c] = here
  /\ begun' = begun \cup {c}
  /\ posts' = posts \cup {c}
  /\ UNCHANGED <<server, socket, board, batch, jobs, calls, cooling, sched, orphan, poller,
                 bounds, history>>

(* A new card is put on whichever board is on screen by then; a merge or a  *)
(* restore asks for a load instead.                                         *)
PostSucceeds(c) ==
  /\ c \in posts \cap committed
  /\ posts' = posts \ {c}
  /\ \/ /\ sched' = Enqueue(Outdated(sched), FALSE, 0, InCooldown)
        /\ UNCHANGED <<shown, strays>>
     \/ /\ sched' = Outdated(sched)
        /\ shown' = shown \cup {c}
        /\ strays' = IF EventOf[c] = here THEN strays ELSE strays \cup {c}
  /\ UNCHANGED <<server, socket, here, painted, loaded, failed, lastSync, batch, jobs, calls,
                 begun, cooling, orphan, poller, bounds, overlooked>>

PostFails(c) ==
  /\ c \in posts
  /\ MayFail
  /\ posts' = posts \ {c}
  /\ UNCHANGED <<server, socket, board, batch, jobs, calls, begun, cooling, sched, orphan,
                 poller, history>>

(* releaseAssignmentCooldown's timer: the last hold replays what was queued. *)
GraceOver ==
  /\ graces > 0
  /\ graces' = graces - 1
  /\ holds' = IF holds > 0 THEN holds - 1 ELSE 0
  /\ sched' = IF holds' = 0 THEN Replay(sched, critical \/ dragging) ELSE sched
  /\ UNCHANGED <<server, socket, board, work, critical, dragging, orphan, poller, bounds, history>>

DragStarts ==
  /\ painted /\ ~dragging
  /\ dragging' = TRUE
  /\ UNCHANGED <<server, socket, board, work, holds, graces, critical, sched, orphan, poller,
                 bounds, history>>

DragEnds ==
  /\ dragging
  /\ dragging' = FALSE
  /\ sched' = Replay(sched, critical \/ holds > 0)
  /\ UNCHANGED <<server, socket, board, work, holds, graces, critical, orphan, poller, bounds,
                 history>>
-----------------------------------------------------------------------------
(* Another Ereignis.  The sync effect is torn down and set up again: the    *)
(* load under way is orphaned, the socket is dialled anew when this board   *)
(* was its only consumer, the board starts empty.  The status callback runs *)
(* within that set-up, and sees lastSyncAt as it was before.                *)
Switch(e) ==
  /\ e # here /\ ~Running(orphan)
  /\ Free /\ bounds.switches < MaxSwitches
  /\ LET torn == claims = 1
         left == [sched.load EXCEPT !.waiters = @ + sched.follow.waiters]
     IN /\ live' = (live /\ ~torn)
        /\ mail' = (mail /\ ~torn)
        /\ lastSync' = IF torn /\ lastSync = "since" THEN "before" ELSE "never"
        /\ polling' = PollsOnMount(live')
        /\ orphan' = left
        /\ here' = e
        /\ bounds' = [bounds EXCEPT !.switches = @ + 1]
        /\ sched' = [load |-> [NewLoad(FALSE, 0) EXCEPT !.gen = bounds.switches + 1, !.ev = e],
                     follow |-> NoFollow, debounce |-> live', pending |-> sched.pending]
  /\ shown' = {} /\ painted' = FALSE /\ loaded' = FALSE /\ failed' = FALSE
  /\ lastVer' = NoVersion
  /\ overlooked' = {} /\ strays' = {}
  /\ UNCHANGED <<committed, claims, work, cooling, tick>>

ServerStep == PatchCommits \/ (\E c \in Own : RequestCommits(c))
Answer == \/ PatchSucceeds
          \/ \E c \in Calls : CallSucceeds(c)
          \/ \E c \in Posts : PostSucceeds(c)
Refusal == \/ PatchFails
           \/ \E c \in Calls : CallFails(c)
           \/ \E c \in Posts : PostFails(c)
Timer == Flush \/ GraceOver
Loading == DebounceFires \/ ReadVersion \/ ReadCards \/ LoadArrives \/ LoadIsOutdated
Ticking == TickAsks \/ TickIsQueued \/ TickSeesNews \/ TickConfirms

Next ==
  \/ \E c \in Foreign : SomebodyCommits(c)
  \/ ServerStep
  \/ SocketUp \/ SocketDown \/ Delivered \/ Wake
  \/ Loading \/ LoadFails \/ OrphanEnds
  \/ Ticking \/ TickFails
  \/ \E c \in Edits : Edit(c)
  \/ \E c \in Calls : Call(c)
  \/ \E c \in Posts : Post(c)
  \/ Answer \/ Refusal \/ Timer
  \/ DragStarts \/ DragEnds
  \/ \E e \in Events : Switch(e)

Spec == Init /\ [][Next]_vars

(* What is under way comes to its end - requests, timers, a broadcast, a    *)
(* load left behind -, the loader and the poller go on and a drag ends;     *)
(* nobody owes an edit, a failure or a new socket.                          *)
Settling == ServerStep \/ Answer \/ Timer \/ Delivered \/ OrphanEnds
FairSpec ==
  /\ Spec
  /\ WF_vars(Settling) /\ WF_vars(Loading) /\ WF_vars(Ticking) /\ WF_vars(DragEnds)
-----------------------------------------------------------------------------
Versions == [ev : Events, covers : SUBSET Changes, none : BOOLEAN]
Loads == [phase : {"off", "version", "cards", "crew"}, auto : BOOLEAN, stale : BOOLEAN,
          waiters : Nat, gen : Nat, ev : Events, ver : Versions, got : SUBSET Changes]
Follows == [on : BOOLEAN, auto : BOOLEAN, waiters : Nat]

(* Type invariant. *)
TypeOK ==
  /\ committed \subseteq Changes /\ mail \in BOOLEAN
  /\ live \in BOOLEAN /\ claims \in 1..MaxClaims
  /\ here \in Events /\ shown \subseteq Changes
  /\ painted \in BOOLEAN /\ loaded \in BOOLEAN /\ failed \in BOOLEAN
  /\ lastSync \in {"never", "before", "since"}
  /\ batch \subseteq Edits /\ jobs \in Seq(SUBSET Edits)
  /\ DOMAIN calls \subseteq Calls /\ calls \in [DOMAIN calls -> SUBSET Changes]
  /\ posts \subseteq Posts /\ begun \subseteq Own
  /\ holds \in Nat /\ graces \in Nat /\ critical \in BOOLEAN /\ dragging \in BOOLEAN
  /\ sched \in [load : Loads, follow : Follows, debounce : BOOLEAN, pending : BOOLEAN]
  /\ orphan \in Loads
  /\ polling \in BOOLEAN
  /\ tick \in [on : BOOLEAN, gen : Nat, ver : Versions] /\ lastVer \in Versions
  /\ bounds \in [drops : Nat, fails : Nat, switches : Nat]
  /\ overlooked \subseteq Changes /\ strays \subseteq Posts

(* Every hold on automatic loads is owed by exactly one thing that will     *)
(* give it back: a batch not yet sent, a PATCH or request in flight, a      *)
(* refresh still awaited, or a grace timer.  A hold nobody owes would       *)
(* freeze the board for good; one given back twice would let a load snap    *)
(* another change back (armAssignmentCooldown / releaseAssignmentCooldown). *)
Awaiting == sched.load.waiters + sched.follow.waiters + orphan.waiters
Owed == (IF batch = {} THEN 0 ELSE 1) + Len(jobs) + Cardinality(DOMAIN calls)
        + Awaiting + graces
HoldsAreOwed == holds = Owed

(* An update put off during a cooldown is still waiting for that cooldown:  *)
(* whatever ended it has replayed the update (replayPendingUpdatesRef).     *)
PutOffUpdateIsReplayed == sched.pending => InCooldown

(* No change the server holds is forgotten: if the board does not show it,  *)
(* a broadcast, a debounced, running or queued load, a put-off replay or a  *)
(* poll is still to bring it - except for what a poll tick declared current *)
(* or a failed request rolled back.                                         *)
WillRead(l, c) ==
  \/ l.phase \in {"version", "cards"}
  \/ l.phase = "crew" /\ (l.stale \/ c \in Crew \/ c \in l.got)
UnderWay(c) ==
  \/ mail \/ sched.debounce \/ sched.follow.on \/ sched.pending
  \/ WillRead(sched.load, c)
  \/ polling
NothingForgotten == \A c \in Missing \ overlooked : UnderWay(c)

(* The board shows one Ereignis, with the exception of a card whose POST is *)
(* answered after the switch (the load id that drops orphaned loads).       *)
OneEreignis == \A c \in shown \ strays : EventOf[c] = here

(* An automatic load never takes a change off the board that the server     *)
(* holds or that is an own change not settled yet: no card snaps back while *)
(* its PATCH is under way (mutation epoch, cooldown gate, and one load at a *)
(* time).                                                                   *)
InFlight == batch \cup UNION {jobs[i] : i \in DOMAIN jobs} \cup DOMAIN calls
NoSnapBack ==
  [][LoadArrives /\ sched.load.auto =>
        shown \cap (committed \cup InFlight) \cap Of(here) \subseteq shown']_vars

(* In the end the board shows what the server holds of its Ereignis, or the *)
(* rest is what a tick or a rollback passed over.                           *)
FinallyCurrent == <>[](Missing \subseteq overlooked)

(* "Same version as the last GOOD load: the board on screen is current"     *)
(* (use-board-sync.ts).  A tick that confirms the board finds on it every   *)
(* change that version covers.                                              *)
ConfirmedIsCurrent ==
  [][TickConfirms /\ IsCurrentLoad(tick) => tick.ver.covers \subseteq shown]_vars

=============================================================================
