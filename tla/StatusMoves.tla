----------------------------- MODULE StatusMoves -----------------------------
(***************************************************************************)
(* The status of one Einsatz: several boards that move its card             *)
(* optimistically, each with its batch, its serial queue of PATCHes and its *)
(* dialogs, the GPS prompts that POST a status past that queue, and the     *)
(* field, the GPS automation and the Reko that move the card by themselves; *)
(* against a server that refuses a move made from a stale board             *)
(* (`_guard_seen_status`, lib/status-conflict.ts).                          *)
(*                                                                          *)
(* Every write of the server is one step: it holds the row lock.  What a    *)
(* handler read before it took that lock is kept in `auto`.                 *)
(***************************************************************************)
EXTENDS Naturals, Sequences

CONSTANTS
  Boards,
  Targets,     \* where an operator moves the card
  None,
  \* bounds: moves; failures, prompts and automatic moves; and both together
  MaxMoves, MaxOthers, MaxTogether

(* _STATUS_FLOW: the order of the board's columns. *)
Flow == <<"incoming", "reko", "reko_done", "enroute", "active", "returning", "complete">>
Statuses == {"incoming", "reko", "reko_done", "enroute", "active", "returning", "complete"}
Rank == [s \in Statuses |-> CHOOSE i \in 1..7 : Flow[i] = s]
AutoPrint == {"enroute", "active"}

ASSUME TargetsAssumption == Targets \subseteq Statuses
ASSUME NoneAssumption == None \notin Statuses /\ None \notin Boards
ASSUME BoundsAssumption == MaxMoves \in Nat /\ MaxOthers \in Nat /\ MaxTogether \in Nat

Movers == {"arrival", "gps", "report"}

VARIABLES
  status,     \* the incident's status
  dispatched, \* its transitions hold one into AutoPrint
  slips,      \* Einsatzzettel the status changes asked for
  auto,       \* the automatic moves: not begun, status read, or done
  late,       \* requests given up on that may still arrive
  shown,      \* the status each board shows
  batch,      \* UpdateBatcher and statusGuardRef
  queue,      \* KeyedSerialQueue: the first is in flight
  post,       \* the POST of a GPS prompt, in flight
  gate,       \* the status gate that is open: where its Abbrechen goes
  conflict,   \* «Gerade geändert»
  asked,      \* refreshOperations was called
  mail,       \* a broadcast is on its way, or put off until the board is idle
  bounds,     \* moves so far, and failures, prompts and automatic moves
  mine        \* history: where a board moved the card last, undisturbed

server == <<status, dispatched, slips>>
screen == <<shown, batch, gate, conflict>>
vars == <<server, auto, late, screen, queue, post, asked, mail, bounds, mine>>
-----------------------------------------------------------------------------
NoBatch == [to |-> None, seen |-> None, override |-> None, saw |-> {}, reopens |-> FALSE]
NoPost == [to |-> None, seen |-> None, override |-> None, saw |-> {}, ans |-> "none", now |-> None]
NoConflict == [seen |-> None, wanted |-> None, current |-> None]

Request(m) == [to |-> m.to, seen |-> m.seen, override |-> m.override, saw |-> m.saw]
Idle(b) == batch[b] = NoBatch /\ queue[b] = <<>>

Free == bounds.moves + bounds.others < MaxTogether
Once == Free /\ bounds.others < MaxOthers /\ bounds' = [bounds EXCEPT !.others = @ + 1]
-----------------------------------------------------------------------------
Init ==
  /\ status = "incoming" /\ dispatched = FALSE /\ slips = 0
  /\ auto = [m \in Movers |-> "idle"]
  /\ late = {}
  /\ shown = [b \in Boards |-> status]
  /\ batch = [b \in Boards |-> NoBatch]
  /\ queue = [b \in Boards |-> <<>>]
  /\ post = [b \in Boards |-> NoPost]
  /\ gate = [b \in Boards |-> None]
  /\ conflict = [b \in Boards |-> NoConflict]
  /\ asked = [b \in Boards |-> FALSE] /\ mail = [b \in Boards |-> FALSE]
  /\ bounds = [moves |-> 0, others |-> 0]
  /\ mine = [b \in Boards |-> None]
-----------------------------------------------------------------------------
(* The server. *)

(* _guard_seen_status *)
AnyOverride(r) == r.seen = status \/ r.to = status \/ r.override # None
Accepts(r) == r.seen = status \/ r.to = status \/ r.override = status

(* _dispatch_print_due: the first entry into the pair from outside it. *)
PrintOnAnfahrt(to) == to = "enroute" /\ status # to
PrintDue(to) ==
  /\ to # status /\ to \in AutoPrint /\ status \notin AutoPrint
  /\ ~dispatched

(* A status transition, broadcast after its commit.  `by`: whose history of *)
(* undisturbed moves it leaves alone.                                       *)
Transition(to, by) ==
  /\ status' = to
  /\ slips' = IF PrintDue(to) THEN slips + 1 ELSE slips
  /\ dispatched' = (dispatched \/ to \in AutoPrint)
  /\ mail' = [b \in Boards |-> mail[b] \/ to # status]
  /\ mine' = [b \in Boards |-> IF b = by \/ to = status THEN mine[b] ELSE None]

Nothing == UNCHANGED <<server, mail, mine>>

(* update_incident writes a transition only when the status changes. *)
Patched(r, by) ==
  IF r.to # status /\ Accepts(r) THEN Transition(r.to, by) ELSE Nothing

Serve(b) ==
  /\ queue[b] # <<>> /\ Head(queue[b]).ans = "none"
  /\ LET r == Head(queue[b])
     IN /\ Patched(r, b)
        /\ queue' = [queue EXCEPT ![b][1].ans = IF Accepts(r) THEN "ok" ELSE "refused",
                                  ![b][1].now = status]
  /\ UNCHANGED <<auto, late, screen, post, asked, bounds>>

PostServed(b) ==
  /\ post[b] # NoPost /\ post[b].ans = "none"
  /\ IF Accepts(post[b]) THEN Transition(post[b].to, None) ELSE Nothing
  /\ post' = [post EXCEPT ![b].ans = IF Accepts(post[b]) THEN "ok" ELSE "refused",
                          ![b].now = status]
  /\ UNCHANGED <<auto, late, screen, queue, asked, bounds>>

(* A request the browser gave up on arrives after all. *)
LateArrives(r) ==
  /\ r \in late
  /\ late' = late \ {r}
  /\ Patched(r, None)
  /\ UNCHANGED <<auto, screen, queue, post, asked, bounds>>
-----------------------------------------------------------------------------
(* Moves nobody makes on a board.  None says from which status.             *)

(* The field's «Angekommen» (`_auto_move`), the GPS automation's tick and   *)
(* the Reko report filed in the KP look at the card before they lock it.    *)
Reads(m) ==
  /\ auto[m] = "idle" /\ Once
  /\ CASE m = "arrival" -> Rank[status] < Rank["active"]
       [] m = "gps" -> status = "enroute"
       [] m = "report" -> status = "reko"
  /\ auto' = [auto EXCEPT ![m] = "read"]
  /\ UNCHANGED <<server, late, screen, queue, post, asked, mail, mine>>

(* A transition out of `complete` without an acting user raises. *)
AnybodyReopens(m) == FALSE
Raises(m) == m = "arrival" /\ status = "complete"
Moves(m) ==
  /\ auto[m] = "read"
  /\ auto' = [auto EXCEPT ![m] = "done"]
  /\ IF Raises(m) THEN Nothing
     ELSE Transition(IF m = "report" THEN "reko_done" ELSE "active", None)
  /\ UNCHANGED <<late, screen, queue, post, asked, bounds>>

(* The field's «Einsatz beendet» and the assignment of a Reko person hold   *)
(* the row before they look at it.                                          *)
FieldCompletes ==
  /\ Rank[status] < Rank["returning"] /\ Once
  /\ Transition("returning", None)
  /\ UNCHANGED <<auto, late, screen, queue, post, asked>>

RekoAssigned ==
  /\ status = "incoming" /\ Once
  /\ Transition("reko", None)
  /\ UNCHANGED <<auto, late, screen, queue, post, asked>>
-----------------------------------------------------------------------------
(* A board.  Every status edit passes through updateOperation: the card     *)
(* moves at once; the status it showed is remembered at the first edit of a *)
(* batch, or replaced by what «Gerade geändert» confirmed.                  *)

OnlyConfirmed(old, override) == override # None
Remembers(old, override) == old = NoBatch \/ override # None
Merged(b, to, seen, override, saw) ==
  LET old == batch[b]
      first == Remembers(old, override)
  IN [to |-> to, saw |-> old.saw \cup saw,
      seen |-> IF first THEN seen ELSE old.seen,
      override |-> IF first THEN override ELSE old.override,
      reopens |-> shown[b] = "complete" /\ to # "complete"]

Edit(b, to, seen, override, saw) ==
  /\ batch' = [batch EXCEPT ![b] = Merged(b, to, seen, override, saw)]
  /\ shown' = [shown EXCEPT ![b] = to]
  /\ mine' = [mine EXCEPT ![b] = to]
  /\ UNCHANGED <<server, auto, late, queue, post, asked, mail>>

(* The gates open after the card has moved.  All but the one of a move back *)
(* into «Disponiert / Anfahrt» ask only when something is missing; a gate   *)
(* that lets the move stand at once is one that did not open.               *)
Gated == {"reko", "reko_done", "enroute", "returning", "complete"}
Gate(from, to) == IF to \in Gated THEN from ELSE None

Move(b, to) ==
  /\ gate[b] = None /\ conflict[b] = NoConflict
  /\ to # shown[b]
  /\ Free /\ bounds.moves < MaxMoves /\ bounds' = [bounds EXCEPT !.moves = @ + 1]
  /\ gate' = [gate EXCEPT ![b] = Gate(shown[b], to)]
  /\ Edit(b, to, shown[b], None, {shown[b]})
  /\ UNCHANGED conflict

(* Abbrechen: the undo is a move of its own, from wherever the card is now. *)
Cancel(b) ==
  /\ gate[b] # None
  /\ gate' = [gate EXCEPT ![b] = None]
  /\ Edit(b, gate[b], shown[b], None, {shown[b]})
  /\ UNCHANGED <<conflict, bounds>>

GateStands(b) ==
  /\ gate[b] # None
  /\ gate' = [gate EXCEPT ![b] = None]
  /\ UNCHANGED <<server, auto, late, shown, batch, conflict, queue, post, asked, mail, bounds, mine>>

(* «Trotzdem …» and «… lassen» *)
Insist(b) ==
  /\ conflict[b] # NoConflict
  /\ conflict' = [conflict EXCEPT ![b] = NoConflict]
  /\ Edit(b, conflict[b].wanted, conflict[b].seen, conflict[b].current,
          {shown[b], conflict[b].seen, conflict[b].current})
  /\ UNCHANGED <<gate, bounds>>

Keep(b) ==
  /\ conflict[b] # NoConflict
  /\ conflict' = [conflict EXCEPT ![b] = NoConflict]
  /\ UNCHANGED <<server, auto, late, shown, batch, gate, queue, post, asked, mail, bounds, mine>>

Ahead(q, r) == <<r>> \o q
Behind(q, r) == Append(q, r)
Flush(b) ==
  /\ batch[b] # NoBatch
  /\ batch' = [batch EXCEPT ![b] = NoBatch]
  /\ LET m == batch[b]
     IN queue' = [queue EXCEPT ![b] =
          Behind(@, [to |-> m.to, seen |-> m.seen, override |-> m.override, saw |-> m.saw,
                     reopens |-> m.reopens, ans |-> "none", now |-> None])]
  /\ UNCHANGED <<server, auto, late, shown, gate, conflict, post, asked, mail, bounds, mine>>

(* reportStatusConflict: the newest refusal is the one that is asked, and a *)
(* gate of the card closes.                                                 *)
Refused(b, r) ==
  /\ conflict' = [conflict EXCEPT ![b] = [seen |-> r.seen, wanted |-> r.to, current |-> r.now]]
  /\ gate' = [gate EXCEPT ![b] = None]
  /\ mine' = [mine EXCEPT ![b] = None]

(* A refused or failed move asks for the board, and so does a reopening. *)
OnlyRefusals(r, ok) == r.ans = "refused"
AsksForBoard(r, ok) == ~ok \/ r.reopens
Answered(b) ==
  /\ queue[b] # <<>> /\ Head(queue[b]).ans # "none"
  /\ LET r == Head(queue[b])
     IN /\ asked' = [asked EXCEPT ![b] = @ \/ AsksForBoard(r, r.ans = "ok")]
        /\ IF r.ans = "refused" THEN Refused(b, r) ELSE UNCHANGED <<conflict, gate, mine>>
  /\ queue' = [queue EXCEPT ![b] = Tail(@)]
  /\ UNCHANGED <<server, auto, late, shown, batch, post, mail, bounds>>

(* No answer, or a fault: the request was lost, was carried out, or is      *)
(* still on its way.                                                        *)
Unanswered(b) ==
  /\ queue[b] # <<>> /\ Once
  /\ LET r == Head(queue[b])
     IN /\ \/ UNCHANGED late
           \/ r.ans = "none" /\ late' = late \cup {Request(r)}
        /\ asked' = [asked EXCEPT ![b] = @ \/ AsksForBoard(r, FALSE)]
  /\ queue' = [queue EXCEPT ![b] = Tail(@)]
  /\ mine' = [mine EXCEPT ![b] = None]
  /\ UNCHANGED <<server, auto, screen, post, mail>>

(* The GPS prompts: «ins Einsatz?» is asked of a card in «Disponiert /      *)
(* Anfahrt», the release prompt reads the status it closes the card from.   *)
Prompted(b, to) ==
  /\ post[b] = NoPost
  /\ Once
  /\ \/ to = "active" /\ status = "enroute"
     \/ to = "complete" /\ status # "complete"
  /\ post' = [post EXCEPT ![b] = [to |-> to, seen |-> status, override |-> None, saw |-> {status},
                                  ans |-> "none", now |-> None]]
  /\ UNCHANGED <<server, auto, late, screen, queue, asked, mail, mine>>

PostAnswered(b) ==
  /\ post[b].ans # "none"
  /\ post' = [post EXCEPT ![b] = NoPost]
  /\ IF post[b].ans = "refused" THEN Refused(b, post[b]) ELSE UNCHANGED <<conflict, gate, mine>>
  /\ UNCHANGED <<server, auto, late, shown, batch, queue, asked, mail, bounds>>

PostUnanswered(b) ==
  /\ post[b] # NoPost /\ Once
  /\ post' = [post EXCEPT ![b] = NoPost]
  /\ \/ UNCHANGED late
     \/ post[b].ans = "none" /\ late' = late \cup {Request(post[b])}
  /\ UNCHANGED <<server, auto, screen, queue, asked, mail, mine>>

(* A load: at once when it was asked for, else when nothing is under way.   *)
Refresh(b) ==
  /\ asked[b] \/ (mail[b] /\ Idle(b))
  /\ shown' = [shown EXCEPT ![b] = status]
  /\ asked' = [asked EXCEPT ![b] = FALSE]
  /\ mail' = [mail EXCEPT ![b] = FALSE]
  /\ UNCHANGED <<server, auto, late, batch, gate, conflict, queue, post, bounds, mine>>
-----------------------------------------------------------------------------
Operator(b) == Cancel(b) \/ GateStands(b) \/ Insist(b) \/ Keep(b) \/ \E to \in Targets : Move(b, to)
Prompts(b) == \E to \in {"active", "complete"} : Prompted(b, to)

Next ==
  \/ \E b \in Boards :
       \/ Operator(b) \/ Prompts(b)
       \/ Flush(b) \/ Serve(b) \/ Answered(b) \/ Unanswered(b)
       \/ PostServed(b) \/ PostAnswered(b) \/ PostUnanswered(b)
       \/ Refresh(b)
  \/ \E r \in late : LateArrives(r)
  \/ \E m \in Movers : Reads(m) \/ Moves(m)
  \/ FieldCompletes \/ RekoAssigned

Spec == Init /\ [][Next]_vars
-----------------------------------------------------------------------------
Maybe == Statuses \cup {None}
Requests == [to : Statuses, seen : Statuses, override : Maybe, saw : SUBSET Statuses]
Batches == [to : Statuses, seen : Statuses, override : Maybe, saw : SUBSET Statuses,
            reopens : BOOLEAN]
Conflicts == [seen : Statuses, wanted : Statuses, current : Statuses]
Said(r) == r.ans # "none" => r.now # None
Patches == {r \in [to : Statuses, seen : Statuses, override : Maybe, saw : SUBSET Statuses,
                   reopens : BOOLEAN, ans : {"none", "ok", "refused"}, now : Maybe] : Said(r)}
Posts == {r \in [to : Statuses, seen : Statuses, override : {None}, saw : SUBSET Statuses,
                 ans : {"none", "ok", "refused"}, now : Maybe] : Said(r)}

(* Type invariant. *)
TypeOK ==
  /\ status \in Statuses /\ dispatched \in BOOLEAN /\ slips \in Nat
  /\ auto \in [Movers -> {"idle", "read", "done"}]
  /\ late \subseteq Requests
  /\ shown \in [Boards -> Statuses]
  /\ batch \in [Boards -> {NoBatch} \cup Batches]
  /\ queue \in [Boards -> Seq(Patches)]
  /\ post \in [Boards -> {NoPost} \cup Posts]
  /\ gate \in [Boards -> Maybe]
  /\ conflict \in [Boards -> {NoConflict} \cup Conflicts]
  /\ asked \in [Boards -> BOOLEAN] /\ mail \in [Boards -> BOOLEAN]
  /\ bounds \in [moves : Nat, others : Nat]
  /\ mine \in [Boards -> Maybe]

(* No move is carried out over a status its operator never had in view: the *)
(* status it leaves was on the card when the operator made one of the moves *)
(* the request carries, or named in the dialog - however late the request   *)
(* arrives (`from_status`, `override_status`).                              *)
Leaves(r) == status' # status => status \in r.saw
OnlySeenMoves ==
  [][/\ \A b \in Boards : Serve(b) => Leaves(Head(queue[b]))
     /\ \A b \in Boards : PostServed(b) => Leaves(post[b])
     /\ \A r \in late : LateArrives(r) => Leaves(r)]_vars

(* What a board was last told to do with the card is what the server holds  *)
(* once the board has nothing under way, unless somebody else moved the     *)
(* card, or a move was refused or went unanswered (KeyedSerialQueue).       *)
OwnMovesInOrder ==
  \A b \in Boards : mine[b] # None /\ Idle(b) => status = mine[b]

(* The Einsatzzettel is asked for with the first dispatch and never again,  *)
(* whoever moves the card and however often it is pulled back               *)
(* (`_dispatch_print_due`).                                                 *)
SlipPerDispatch == slips = IF dispatched THEN 1 ELSE 0

(* The field neither closes nor reopens a card, whatever happened to it     *)
(* since the tap looked at it (`_auto_move`).  That it never drags one back *)
(* is the question of `NeverDraggedBack`.                                   *)
FieldNeverTouchesComplete ==
  [][Moves("arrival") \/ FieldCompletes => (status = "complete" <=> status' = "complete")]_vars

(* What `_auto_move` says of itself: a report about a card that is already  *)
(* at or past its target must not drag it backwards, the move is strictly   *)
(* forward (crud/feld/reports.py:165-168 and 188).  The code does not keep  *)
(* it: the column is compared before the card is locked and not again.      *)
NeverDraggedBack ==
  [][Moves("arrival") => Rank[status'] >= Rank[status]]_vars

(* A board that shows the card elsewhere than the server has it is about to *)
(* be put right: its own move is still under way, or a load is owed to it - *)
(* what a refused, failed or lost move left on a board does not stay there. *)
NoBoardLeftBehind ==
  \A b \in Boards : shown[b] # status => ~Idle(b) \/ asked[b] \/ mail[b]
=============================================================================
