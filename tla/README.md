# KP Rück in TLA+

KP Rück is the board on which a Swiss fire brigade's command post runs a
flood or storm: one card per incident, people, vehicles and material assigned
to the cards, several tablets editing at once, and slips printed for the crews.
This directory holds TLA+ specifications of its backend (`src/backend/app`), of
the board in the browser (`src/frontend/lib`) and of its print agent
(`src/tools/print-agent`), TLC configurations that check them on small
instances, and proofs that TLAPS checks for every value of the constants.

    tlc -workers 2 -config Board_cards.cfg MCBoard      # one run
    tlapm BoardProofs.tla                               # the proofs of Board

## The system

The backend is a FastAPI service with one worker process on PostgreSQL. Each
request is one database transaction: it takes row locks (`crud/locking.py`)
where the code asks for them and commits at its end. The browser shows a copy
of one Ereignis: it changes that copy at once, sends the change afterwards, and
loads the whole board again when a broadcast or a poll says that something
happened. Everything concurrent happens between requests, between a request and
a background loop, and between the backend and its clients: the boards, the
phones of the crews, the print agent, the GPS service, the alarm service.

| component | state | operations | correct if |
|---|---|---|---|
| cards (`crud/incidents.py`) | status, `completed_at`, `deleted_at`, the record of what the last completion released | create, move, complete, reopen, delete, restore, edit | a closed card can be undone to exactly what it was; no order of delete, restore, close and reopen leaves a contradictory card |
| assignments (`crud/assignments.py`) | rows with `unassigned_at`, `is_leader`; `leader_manual`, the leader of record | assign, release, pick, transfer, cascade of a completion, its undo | no resource twice on a card, one leader per card, the flag handed on at every change, nobody put back who is elsewhere by now |
| Aufträge (`crud/groups.py`, `crud/group_assignments.py`) | groups of cards in an order, the squad's rows | create, delete, add, remove and reorder stops, assign, pick, release at the last stop, undo | the squad stays until the last stop, and comes back once |
| Reko function (`crud/special_functions.py`) | who holds it | grant, revoke | Reko people never lead by derivation |
| status moves (`crud/incidents.py`, `kanban/incident-status-workflow.tsx`, `lib/status-conflict.ts`) | the status, who saw which one, dialogs | move, gate and its Abbrechen, refusal and «Trotzdem …», GPS prompt, moves of the field, the GPS automation and the Reko | nobody overwrites a status they have not seen; no board stays wrong; one slip per card |
| print queue (`crud/print_jobs.py`, `api/print.py`) | `print_jobs` rows: status, `retry_count`, three times | queue, poll with reaper and expiry, claim, report, delete | every slip is printed or visibly not; never twice without a reason; never when it is stale |
| print agent (`tools/print-agent`) | the job in hand, the attempts to report it | poll, claim one, print along a chain of printers, report with repeats | it never leaves a job behind without telling, or for the reaper to find |
| board client (`lib/contexts/operations`, `lib/reload-scheduler.ts`, `lib/sync-cooldown.ts`) | the board as shown, changes under way, holds on loading, socket, poller | optimistic change, settle, roll back, load, poll, switch the Ereignis | no load takes an unsettled change back, none is lost for good, nothing of another Ereignis is shown |
| text saving (`lib/field-save.ts`, `lib/update-batcher.ts`) | a draft per field, batches, the request in flight | type, send, settle, resolve a conflict, sign out, reload | «Gespeichert» is true; no text is lost or replaced unseen |
| row locks (`crud/locking.py`) | - | group, cards, resources in order, retry when the Auftrag changed | no deadlock, nothing read before the lock is used after it |
| merging (`services/duplicates.py`, `services/merge_*.py`) | a link between two cards, a record of what was moved | merge, unmerge | unmerge gives back what the merge moved, and only that |
| Feld access and reports (`crud/feld/`, `api/feld.py`) | code, sessions, failures; reports and requests of the crews | unlock, claim, rotate, revoke; report, request, answer | a rotated or revoked code opens nothing; a report lands on the card it is about |
| GPS automation (`services/gps_automation.py`) | fixes and debounces per vehicle | poll, arrive, return | an operator's move is not undone by an old fix |
| alarm intake (`services/divera_*.py`, `crud/divera.py`) | alarms received by webhook and poll | receive, attach, reply | each alarm once |
| inventory, attendance, Ereignisse | what exists, who is here, which Ereignis is open | archive, purge, check in and out, close | nothing archived or absent is on a card |
| live updates, sign-in, notifications, training, telemetry, journal, exports, photos, roster files, standby kiosk, weather | small or external | - | see `PROJECT.json` |

How they interact: an assign, a release or a status move changes cards,
assignment rows and Aufträge in one transaction, and afterwards broadcasts to
the boards, which load again unless they are in the middle of a change of their
own. Texts and statuses travel through the same batcher and the same serial
queue per card. A dispatch (first move into Einsatz) queues a slip. GPS and
field reports move cards through the same handlers as the operators do. The
print agent knows only the queue.

What is hard, and hardly reached by a test: long legal sequences across the
soft delete, the completion and its undo; a cascade of releases that derives a
new leader after each; unique indexes that refuse a commit far away from its
cause; a report or request that comes twice or late and meets a row that has
moved on; a reaper and an expiry racing an agent that is alive after all; a load
that began before a change and ends after it; drafts, batches and requests of a
session that ended meanwhile; a board that moves a card it no longer shows
right. The list with lines is `hazards` in `PROJECT.json`.

## Modules

| module | models | proofs |
|---|---|---|
| `Board` | one Ereignis in the database: cards, assignments, Aufträge, Einsatzleiter, completion and its undo | `BoardProofs` |
| `PrintSlip` | abstract: what the print queue promises about one slip | |
| `PrintQueue` | the print queue and the agents that serve it, whose jobs implement `PrintSlip` | `PrintQueueProofs` |
| `BoardSync` | one browser's copy of the board: loads, broadcasts, polls, optimistic changes, cooldown, switch of the Ereignis | `BoardSyncProofs` |
| `TextRegister` | abstract: what a text field promises the person who types in it | |
| `TextSave` | the text fields of one card in one browser, which implement `TextRegister` | `TextSaveProofs` |
| `StatusMoves` | the status of one card, moved by several boards and by the system itself | `StatusMovesProofs` |

`MCBoard`, `MCPrintQueue`, `MCBoardSync`, `MCTextSave` and `MCStatusMoves` give
the constants small values. The modules meet at the code they share: `Board`
is what a committed change of the crew does, `StatusMoves` which status changes
get as far as a commit, `BoardSync` how a commit reaches a screen, `TextSave`
what the same batches do to text. Each leaves to the others what they model, so
that every one of them can be explored whole.

### Board

One action per handler. A handler takes its locks first and commits at its end,
so it is atomic here; what the locks themselves do is left to a module of its own.

* `rows` is both assignment tables. A row's index is its age (`assigned_at`),
  a released row stays (`active = FALSE` is `unassigned_at`), as in the code;
  the undo of a completion depends on it.
* `released[c]` is `released_assignments` of the card's last completion, with
  the rows it marked `was_leader`.
* `completedAt` tells apart what the code tells apart: not set, set by the
  delete (equal to `deleted_at`), set otherwise.
* `status` has two values: the six that are not `complete` are one, because no
  handler modelled here tells them apart.
* The unique index on the squad's leader is the guard `~SquadLeaderClash` of
  `LeaveComplete`: the database refuses the request. The other unique indexes
  are not guards, they are the invariants `OneActiveRowPerResource` and `OneLeader`.
* `RestoredLeader` is a set of outcomes, because the code takes the first row of
  a query without ORDER BY.
* `NotShared` are the released people and vehicles who were on that card only:
  `UndoRestoresCrew` says that an undo brings back all of them and nobody else,
  whatever happened since. The rest is the finding `UndoAtOnceRestoresAll`.
* `SquadLeavesWithLastStop` says both ways when a completion sends the shared squad
  home, and that its undo record then names every row of it.

Left out: the order of stops, merging, out-of-service and archived resources,
Reko assignments, text fields (`TextSave`), which status a card has (`StatusMoves`).

### PrintQueue and PrintSlip

One action per endpoint or agent step, except where the code can be interrupted
inside: `complete_print_job` reads its row without a lock and writes it by its
key, so it is `ReadReport` and `WriteReport`; the claim is one conditional
UPDATE and is one action.

* A row has a status, `retry_count` and three ages; `Tick` adds one to the ages
  and to the time each agent has been at its step.
* `Poll` is the whole GET: requeue what is stale, requeue what failed long enough
  ago, expire, list. A poll that hangs and finds nothing is rolled back by the
  code and is no step.
* An agent claims the first job of its list that is still pending, prints along
  its chain of printers (`PrintOk`, `PrintFails`, and `PrintBreaksOff`, a printer
  that goes silent with the paper half out), and sends the report up to
  `ReportAttempts` times.
* Faults: the answer to a claim is lost, a request or the answer to a report is lost,
  a printer breaks off, the agent dies and is restarted. `MaxFaults` bounds them.
* `paper`, `failed` and `unheard` are histories; no guard reads them.

`PrintSlip` is one slip without agents, reports or times: queued, then completed,
expired or deleted. It comes out only while it is queued, or after an editor
deleted it under the printer's hands; it completes only once it came out; a second
paper leaves a `doubt` behind, which is what the backend cannot know (a print
broken off, an agent dead with the paper out, a report nobody heard). Each job of
`PrintQueue` implements it (`EverySlipKeepsPromise`): `pending`, `printing` and
`failed` are one state there, so polls, claims, retries and repeats are stutters,
and whatever is completed or expired is so for good.

Assumed of time: the backend finishes a request before the client gives it up
(`Unanswered` is an attempt not begun or finished), and no tick passes between the
list and the claims made from it. A print may take as long as it likes: one send may take
60 s (`outputs/escpos.py:32`), a job may go to several destinations, and the
retry delay is 30 s, the stale timeout 120 s. So the reaper may take a job from
an agent that is still printing it, and `Print_two` is made to have that happen:
`OnePrinterPerJob` says that nothing but that, and nothing quicker, puts a job into two agents' hands
(`Overdue`). Scale: a tick is some ten seconds in `Print_one`, more in `Print_two`; the
long times are shortened with the order that matters kept (retry delay < stale
timeout < requeue age).

Left out: payloads, printer settings and the switch that turns printing off, the
waiting of the long poll and its signal, the search for an earlier slip.

### BoardSync

`use-board-sync.ts` and what it leans on, with the server reduced to what a
board can tell of it.

* Data are *changes*. A change is one edit, assignment, creation or foreign
  write; `committed` is the set the server has taken, `shown` the set on screen.
  A load reads the cards in a first wave of GETs and the crew in a second
  (`Crew`), so a snapshot may be newer in one half than in the other.
* `sched` is `ReloadScheduler` with the load it runs: the debounced request, one
  run at a time, one follow-up merged from all requests made meanwhile, and
  `pendingReplayRef`. `load.stale` is the mutation epoch, `load.gen` the load id.
* An own change takes a hold (`assignmentHoldsRef`, one per batch or request);
  its answer starts a grace timer, or passes the hold on to a load that is
  awaited (`waiters`). A move sets `critical` instead, a drag `dragging`. While
  any of them lasts (`InCooldown`), automatic loads are put off (`pending`).
* A failed release puts the whole card back as it was when the release was made
  (`calls` remembers that board), as `resource-actions.ts` does.
* The poller reads a *version* first. A version covers what was committed
  except `Quiet` changes, which the backend's sync version does not include.
* `Switch` tears the effect down: the load under way is `orphan`, the board is
  emptied, the socket is dialled anew if this board was its only `claims`.
* `overlooked` and `strays` are histories of two things the code does:
  `overlooked`, a committed change that a poll tick took for loaded or a
  rollback took off; `strays`, a created card put onto the board of the
  Ereignis selected by then.

Left out: reordering a column, the driver's stay, Reko assignments on the card,
and the contexts of Aufträge and notifications, which load in the same way.

### TextSave and TextRegister

From the keystroke to «Gespeichert»: `field-save.ts`, the edit funnel of
`incident-actions.ts`, the batcher, the serial queue and the request, against
`update_incident` with `text_base` (`_guard_text_base`).

* A text is a model value. `entry[f]` is a field-save entry, `batch` and `queue`
  the texts on their way with the versions pinned at the flush (`Ticket`),
  `wire` the request in flight.
* `~Due` in `Next`: when the queue's turn comes, its microtask runs before any
  other event of the browser.
* A request the browser gave up on may arrive later (`late`), or never.
* `known`, `typed`, `landed` are histories. `revenant` records that a person
  signed in again while a batch of theirs still waited: the drafts were dropped
  at the sign-out, versions start anew, and the promise of `field-save.ts` does not hold
  then (finding `TextSave_v_saved`); the properties except the type and the liveness are stated up to that point.
* The debounce of half a second is taken to be over before somebody has signed in.
* Switching the Ereignis only hides drafts and is not modelled.

`TextRegister` is a few lines: a text the server holds is replaced only by
somebody who had it on screen, «Gespeichert» is said only of a newest text that
has landed. `TextSave` implements it field by field (`INSTANCE TextRegister WITH
text <- stored[f], ...`); a batch that is taken after a `revenant` counts as somebody else's.
`KeepsItsPromise` writes that specification with the quantifier inside the box,
because TLC checks no quantified temporal formula.

### StatusMoves

* `Serve`, `PostServed`, `LateArrives`, `Moves` and the moves of the field hold
  the row lock and are atomic. What a handler reads before it takes the lock is
  a step of its own: `Reads` and then `Moves`, for the tap «Angekommen», the GPS
  tick and the Reko report filed in the command post.
* A board has the card as it shows it, one batch, a serial queue of PATCHes, the
  POST of a GPS prompt, a gate, and the dialog «Gerade geändert».
* Every request carries the status it was made from (`seen`, `from_status`) and
  what its operator confirmed (`override`). `saw` is a history of the statuses that the operator had in view.
* A gate may open at every target that has one (`Gated`). One that lets the move
  stand at once is one that did not open. While a dialog is open the board makes
  no other move, because both dialogs are modal.
* Loads are one step here; `BoardSync` is how they come about.

Left out: what a move does to the crew (`Board`), Am Warten, the offer of the next
stop. Safety only: nothing here has to move.

## Runs

| run | instance | states | shows |
|---|---|---|---|
| `Board_cards` | 2 cards, 2 people of different rank, or a person, a vehicle and material, 3 rows; or one of the people with the Reko function | 854 k | uniqueness, the undo record, what an undo gives back and to whom it never gives, the leader of record, the flag handed on; the three kinds differ where they should |
| `Board_squad` | 2 cards, 1 Auftrag, 2 people of equal rank, 2 rows, or 3 if all are the squad's | 783 k | cards that join and leave an Auftrag while they are closed and reopened: the squad goes home with the last open stop and not before, once, into one record; one leader |
| `Print_one` | 1 agent, 2 jobs (one that spoils), 2 attempts, 2 reports, 2 faults | 3.3 M | what is printed, counted and handed over; every job is a `PrintSlip` |
| `Print_two` | 2 agents, 1 job, 3 attempts, 3 reports, 2 faults, a print as long as the stale timeout and longer, fair | 1.1 M | one printer per job, but for an agent that overdoes it, and every job settles |
| `BoardSync_work` | a text edit, a move and a release of one card, drags; one failure, lost socket or further claim of it | 3.7 M | holds are given back once, put-off loads are replayed, nothing is forgotten, nothing snaps back |
| `BoardSync_net` | 2 Ereignisse, a creation in one, a foreign change of the crew in the other; two of: a lost socket, a failure, a switch; fair | 1.0 M | nothing of the Ereignis left behind is put on the new one, and in the end the board shows what the server holds |
| `TextSave` | 1 field, 3 texts, 2 people, 2 edits, 1 failure, 1 foreign write, 2 sign-ins, 1 reload, fair | 587 k | «Gespeichert», drafts, `text_base`, the refinement of `TextRegister`, and no field says «Wird gespeichert» for ever |
| `StatusMoves` | 2 boards, Anfahrt and Abgeschlossen, 3 moves, failures, prompts or automatic moves, at most 2 of them moves | 4.6 M | own moves in order, nothing overwritten unseen, no board left behind, one slip per card; the field neither closes nor reopens it |
| `Board_v_undo_at_once`, `BoardSync_v_confirmed`, `TextSave_v_saved`, `StatusMoves_v_back` | the smallest that shows it | - | the findings below |

The bounds. Two cards are what a Doppelbelegung, a transfer and a last open stop
need; two people are a leader and a successor. Three rows are needed for the
longest sequences found (one released by the completion, one on the second
card, one more that comes back); the state constraints of `MCBoard` cut the
two runs down to the cases they are about. In the print queue, two
attempts reach the cap and one more requeue; with three reports and the order of
times kept, a repeat can meet a requeued job; in `Print_two` a print may last past
both the retry delay and the stale timeout, and without either half of `Overdue` the run fails.

In `BoardSync` an edit, a move and a request are the three ways a hold is taken
and given back, and all overlap; a socket lost once comes on top of the one that
is not up at the start, which the poller covers first; one switch and one orphan
are what the code can have at once in one effect. `MaxTogether` bounds lost
sockets, failures, switches and claims together: two of them race everything
else in `BoardSync_net`, so that a creation is answered after the switch (`strays`)
or a load fails before it. A release rolled back after the switch and a socket with
two claims that survives it are in the proof of `OneEreignis` only. In `TextSave` two
edits make a batch behind a batch, and a third text tells the foreign write from
both; two sign-ins of two people are a session that changes hands, and of one
person the `revenant`. In `StatusMoves` two moves of one board are a queue of two
and a gate's Abbrechen is a third; three others let every pair of automatic movers
race, and `MaxTogether` lets them do so with one move or two of a board between them.

`SYMMETRY` is used on cards and boards, in runs that check safety only. The
deadlock check is off in `TextSave` and `StatusMoves`, where everybody may have
finished, and in the violation runs that ask for a step; the other systems always have one.

### Findings

Each run finds what a comment of the code rules out.

* `Board_v_undo_at_once`: «A row is skipped when the resource has *since* been
  assigned somewhere else. An undo seconds after the completion finds nothing
  reassigned and restores everything» (`assignments.py:564-567`). The code skips
  every row whose resource is active on any other card (587), also where it was
  before the completion: of a person on two cards (Doppelbelegung), the card
  closed and reopened at once gets nobody back. `UndoRestoresCrew` holds for whoever was on this card only.
* `BoardSync_v_confirmed`: «Same version as the last GOOD load: the board on screen
  is current» (`use-board-sync.ts:499-500`). The tick stores the version it read
  before the load it asks for has run (493-494). If that load fails, the next tick
  finds the same version, takes the old board for confirmed, moves `lastSyncAt`,
  clears the load error and, with the socket up, stops polling: a board that misses a change says it is current until
  something else happens. `FinallyCurrent` and `NothingForgotten` hold up to this
  (`overlooked`).
* `TextSave_v_saved`: «Gespeichert» means that «the server answered the PATCH that
  carried the newest text of that field» (`field-save.ts:5-7`). If somebody signs out and in
  again while a batch of theirs is on its way and types on, versions start again at 1: the
  old answer is taken for the new text's, which is still queued, and its draft is dropped (283-286). By
  the same chance such a batch may go out without `text_base` (214). The other
  properties of `TextSave` hold up to this (`revenant`).
* `StatusMoves_v_back`: a report «about a card that is already at (or past) the target
  column must not drag it backwards», «strictly forward» (`feld/reports.py:165-168`,
  188). `_auto_move` compares the columns before the card is locked (197) and not
  again: a card moved on to Rückfahrt in between goes back to Einsatz. That it is not
  closed or reopened (`FieldNeverTouchesComplete`) holds, because the handler raises.

Two more disagreements are reached by the models and have no run of their own:

* The undo of a squad's release skips rows whose resource is active «somewhere else for
  the same reason as there» (`group_assignments.py:269-270`), but looks at the same Auftrag
  only (286-293): members put onto a card since stand on both. `UndoNeverDoubleBooks` is about a card's own rows.
* The GPS arrival advances «only from status exactly `enroute`» (`gps_automation.py:11`), but
  judges by a status read before the tick's own commits (493): a card closed in
  between is reopened by the silent advance. It is the race of `StatusMoves_v_back` with another mover.

### Observations

What the models show the code doing where no document was found that says
otherwise, or where it is a matter of taste:

* Cards: moving a closed card to complete once more runs the undo and gives it its
  crew back (`incidents.py:1029`); two deletes keep `completed_at` of an open
  card (`incidents.py:1160`); `was_leader` is read between releases that promote,
  so it marks several people (`assignments.py:536`); a pick takes no lock (`assignments.py:241`).
* Squads: a second leader makes the unique index refuse the reopening
  (`group_assignments.py:269`); unpinning on a row already released and reopening
  leaves the squad without a leader (384).
* Printing: with two agents a repeat that arrives after the retry delay counts as a
  new failure (`api/print.py:800`), and a late failure overwrites the other
  agent's completion (773). With one agent neither happens (`Print_one`). Two
  agents, one of which prints for longer than the stale timeout, print one job twice.
* Board client: a failed release puts back the whole card and takes changes of
  others off it (`resource-actions.ts:81`); a vehicle's release is not in the
  sync version, so a poll cannot see it; a creation answered after a switch is
  put onto the wrong board until it loads again (`incident-actions.ts:464`); a failed edit
  that is not a move stays on the board (308); the last edit of a merged batch
  alone decides whether it counts as a reopening (151, 278); a woken tab claims
  the socket once more and never gives that claim back (`websocket-client.ts:55`);
  a board that never loaded has a `lastSyncAt` once a tick has confirmed it.
* Status: «Trotzdem» names a status, not a version of it, so it also confirms a
  card that left that status and came back (`incidents.py:152`); a request that was carried out
  but not answered makes the next own move ask «Gerade geändert» about the own
  change; a gate's Abbrechen moves the card back even if somebody moved it on
  (`incident-status-workflow.tsx:446-458`), because it is a move of its own;
  a card created in Einsatz prints no automatic slip (`melden.py:316`);
  `_auto_move` raises on a card closed between its look and its lock; a Reko
  report may overwrite a newer status (`crud/reko.py:553`).
* Locks: `record_field_complete` locks the card before its Auftrag
  (`feld/reports.py:380`), the other handlers the other way round.

## Fairness

`Board` and `StatusMoves` have safety properties only: nobody must do anything on
a board.

`PrintQueue!FairSpec` has weak fairness of the clock and of each agent's work:
the agent's loop never ends (`agent.py:166-182`), systemd or Docker restarts it,
and the backend answers. Queueing, deleting and faults are never forced, and
faults are bounded, so that an agent is not killed for ever. Printing is
switched on. Under this a job leaves `pending` for good, and leaves `printing`
unless its attempts are used up: then the reaper leaves it alone, as
`test_retry_cap_is_final` asks, and it stays on the board as printing.

`BoardSync!FairSpec`: what is under way settles (requests are answered, timers fire,
broadcasts arrive unless the socket breaks: `Settling`), the loader and the
poller go on, a drag ends. Nobody owes an edit, a failure, or a socket
that comes up again: the poller alone must do.

`TextSave!FairSpec`: timers fire, queued tasks run, the server takes or refuses
what reached it and the answer is handled. Requests that fail or time out are
bounded and never forced, nobody owes a load, a retry or a sign-in.

## Proofs

All proofs are for any values of the constants: any cards and people, jobs and
agents, changes and Ereignisse, fields and texts, boards and moves.

`BoardProofs`, the invariants: `TypeCorrect`, `NobodyTwice`, `OneEinsatzleiter`,
`UndoRecordStaysTrue`, `ClosedCardStaysEmpty`. They are proved together, because none
is inductive alone: the undo makes rows active again, so that it makes nothing
twice needs the record to list distinct rows that are released
(`UndoRecordSound`) and nobody to have been assigned to the closed card
meanwhile (`NoCrewWhileUndoPending`); both need the types. `OneLeader` needs that
the cascade, the picks and the sync each leave one flag; lemmas (`SyncedRows`,
`MarkedRows`, `RestoredRowsSound`, ...) say what each operator on the rows keeps.
A sixth part, `RowsOfCreatedCards`, says that nobody is assigned to a card before
it exists: a card may be created complete, and then has nobody to send home.

`BoardProofs`, what a step may never do: `UndoDoubleBooksNobody`,
`UndoBringsTheCrewBack`, `SquadStaysOnTheRoute`, `LeaderStaysOnRecord`,
`PickedLeaderReturns`, `SomebodyAlwaysTakesOver`. `ClosingStep` reduces a card that
becomes complete to one `Complete` of it; `CompleteRows` and `CompleteRecord` say
which rows the cascade releases and what it writes down, and the undo, the squad and the leader of
record follow from the two. `UndoBringsTheCrewBack` follows the rows of the
record through the undo (`TheCrewBack`) and shows that those skipped are the shared ones. `SquadStaysOnTheRoute`
splits on whether another stop of the Auftrag is open (`LastStopTakesSquad`,
`OtherStopLeavesSquad`); that the stops it compares are cards on the board, before and after, is `StopsAreLive`. For the pinned leader, the record names one
row (`PinnedRecordNamesOne`), because nobody is promoted while the card is pinned.
For `SomebodyAlwaysTakesOver`, among any people there is a most senior one
(`SomebodyIsMostSenior`: the least rank exists because `<` is well-founded on the
naturals, the tie is broken by the row's age), so that every sync with a candidate
ends with a leader (`SyncGivesLeader`); then one lemma per handler says that it syncs
each owner whose crew it changes.

`PrintQueueProofs`, with no condition on the reports: `PrintTypeCorrect`,
`PaperForEveryCompletion`, `NothingStaleHandedOver`, `OneAgentPrintsAJob`. `IInv` adds
to the types what an agent knows: it has a job in hand from the claim on, an "ok"
stands for paper, and a pending job on a list is fresh. `OneAgentPrintsAJob`
rests on `AtItsJob`: of the agents at one job, one whose print is not overdue
finds its own claim in the row, no older than it has been at it, so that neither
the reaper nor the retry has taken the job and no second claim succeeds (`ClaimAlone`); once it is
overdue the property asks no more of it. Nothing is assumed of how long a print takes.

`PrintQueueProofs`, if `NobodyTakesAJob`: `SettledForGood`, `SecondPaperHasACause`,
`AttemptsCountedOnce`, and `QueueKeepsPromise`, that every job implements
`PrintSlip`. `NobodyTakesAJob` is: there is one agent, as in a station (a lone agent does not
poll while it is at a job, so no timing is needed), or `ReportsInTime`, all attempts at
a report fit into the retry delay and, after the print, into the stale
timeout. The code's numbers just do (3 times 10 s, 30 s), but the pauses of 1 s and 3 s
between the attempts, which take no time in the model, use that margin up: a
station with two agents can see what *Observations* says of two. Under the condition
`RowsInView` holds: whoever is at a job or reports it finds its own claim or its own
verdict in the row, no older than it has been at it, or the row deleted, and what a report has
read is still there when it writes; and `OneAtWork`, nobody else is at that job.
From these follow what settles (`NextSettled`), that what came out and is known to the
backend is settled or about to be (`PaperOnce`, `NoPaperYet`), and that a refusal on
its way has been counted (`RefusalCounted`). The refinement takes `PrintOk` and
`PrintBreaksOff` to `PutOut`, a report that writes "completed" to `Complete`, the
expiry inside a poll to `Expire`, a lost report or a crash with the paper out to
`GoUnheard`, and everything else to a stutter.

`BoardSyncProofs`: `TypeCorrect`, `HoldsCorrect`, `PutOffCorrect`,
`OneEreignisCorrect`, `NoSnapBackCorrect`, `NothingForgottenCorrect`, in layers.
Lemmas first say what asking for a load, ending one and replaying do to the
scheduler. `Ledger`: holds equal what is owed, and a put-off update waits for a
cooldown. `Placed`: the running load is of the selected Ereignis and anything
orphaned is older, so what is painted is at home. For `NoSnapBack`, `FreeIsIdle`
(without a hold nothing is under way, from the ledger) and `Unharmed`: an
automatic load that is not outdated runs with nothing under way and has read
whatever is shown and committed. `Covers`: a board without socket polls, and
every committed change is shown, overlooked, or some load or poll will read it.

`TextSaveProofs`: `Invariance` and from it `TypeCorrect`, `SavedCorrect`,
`DraftCorrect`, `OverwriteCorrect`, and `Refinement`, that every field implements
`TextRegister`. The inductive invariant is `Steady`, which always holds (an entry
exists while something typed is remembered, and only for the person signed in), and
`Sound`, which holds until a `revenant`: versions in the queue rise along it and
up to the entry's own, the newest version carries what was typed last, what an
entry or a request means to replace was on the screen. The refinement takes each
action to one of the register's: an edit is `Type`, giving up and leaving are
`Drop`, a save that is taken is `Take`, everything else on this browser is `Say`.

`StatusMovesProofs`: `Invariance` and from it every property of the run. The
inductive invariant adds that a request had in view what it names
(`RequestsAreHonest`), that a card among the dispatched ones was counted, and
per board `InOrder`: without a load owed to it, it shows the card where the
server has it or where its newest unanswered move puts it; its newest move is
the one it counts on; one request is in flight at a time.

Assumptions: constants have their types, kinds of ids and of changes are
disjoint, the changes of one card are of one Ereignis, null values are no
members of the types, the long times are below the horizon of the ages,
and `ReportIsTried` (a report is sent at least once). TLC evaluates
all of them in the runs. `NobodyTakesAJob` is no assumption of the module but a
hypothesis of the four theorems that need it.

Model-checked only: the liveness properties `EveryJobSettles`, `FinallyCurrent` and
`SettlesInTheEnd`. Liveness under fairness is out of TLAPS's reach here, as are
ENABLED and induction over data; no module declares a RECURSIVE operator. Every
other property of a passing run is a theorem.

## Not modelled

The repository has some 117 000 lines of TypeScript, most of them components that
render a state kept elsewhere, and 67 000 lines of Python. The modules
cover what decides: about a third of the files they map, and a few percent of
the whole. Rendering, forms, maps, exports, translations, weather, photos and roster files
keep no state whose order of changes could go wrong. Parts that would be worth
a module and have none are in the plan; until then a hazard of theirs is listed
without a property.

## Plan

Written: `Board`, `PrintQueue` over `PrintSlip`, `BoardSync`, `TextSave` over `TextRegister`,
`StatusMoves`. Next, in this order:

1. `Merge` - merge and unmerge of two cards on top of the rows of `Board`.
   Abstract specification: unmerge after merge is the identity on what nobody touched.
2. `Locking` - handlers split at their lock acquisitions, with the deadlock
   check; the retry when the Auftrag changed. Theorem: lock order is acyclic.
3. `RouteStops` - positions under their unique index, reorder and its undo.
4. `FeldDoor` - code, failures, rotation, sessions, revocation.
5. `AlarmIntake`, `Inventory` (with attendance and Ereignisse), `LoginThrottle`.
6. An abstract crew for `Board` (who is on which card, without rows, records and
   flags) that `Board` implements, and the pauses between the attempts at a report
   in `PrintQueue`, to see what two agents do with them.
