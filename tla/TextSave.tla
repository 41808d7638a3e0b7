------------------------------ MODULE TextSave ------------------------------
(***************************************************************************)
(* The free-text fields of one Einsatz in one browser, from the keystroke   *)
(* to «Gespeichert» (frontend/lib/field-save.ts, the edit funnel of         *)
(* incident-actions.ts, the batcher and the serial queue it sends through), *)
(* against a server that others write to and that refuses a text saved over *)
(* one the sender had not seen (`_guard_text_base`).                        *)
(*                                                                          *)
(* A text is a model value.  A request the browser gave up on may still     *)
(* reach the server later, or never.                                        *)
(***************************************************************************)
EXTENDS Naturals, Sequences

CONSTANTS
  Fields,    \* the text fields, SAVED_TEXT_FIELDS
  Texts,     \* what may be typed or stored
  Users,     \* who may sign in on this browser
  None,      \* null: no text, nobody signed in
  MaxEdits, MaxFails, MaxOthers, MaxLogins, MaxReloads, \* bounds
  Blank      \* what the fields hold at the start

ASSUME NoneAssumption == None \notin Texts /\ None \notin Users
ASSUME BlankAssumption == Blank \in Texts

VARIABLES
  stored,   \* the incident's columns
  late,     \* requests given up on that may still arrive
  user,     \* the user of field-save's scope
  board,    \* the fields of the card on the board
  snap,     \* a board load that has read the card and not painted it yet
  entry,    \* field-save's entries of this incident
  batch,    \* UpdateBatcher: the merged texts and whose edit came last
  queue,    \* KeyedSerialQueue: the batches cut, the first being sent
  wire,     \* the request of the queue's first batch
  bounds,   \* edits, failures, foreign writes, sign-ins and reloads so far
  known,    \* history: the texts that were on this screen
  typed,    \* history: what was typed last and neither given up nor dropped
  landed,   \* history: the server took what was typed last
  revenant  \* history: somebody signed in again while a batch of theirs waited

server  == <<stored, late>>
screen  == <<board, snap>>
pipe    == <<batch, queue, wire>>
history == <<known, typed, landed, revenant>>
vars == <<server, user, screen, entry, pipe, bounds, history>>
-----------------------------------------------------------------------------
NoTexts == [f \in Fields |-> None]
NoSnap == NoTexts

NoEntry == [status |-> "none", draft |-> None, acked |-> None, conflict |-> None,
            version |-> 0, inFlight |-> 0]
NoEntries == [f \in Fields |-> NoEntry]

(* noteFieldEdit: a run of edits goes on for as long as a draft is held; it *)
(* keeps what the server is known to hold, and a conflict not yet answered. *)
FreshBase(e, shown) == shown
BaseOfRun(e, shown) == IF e.draft # None THEN e.acked ELSE shown
NoteEdit(e, text, shown) ==
  [status |-> "pending", draft |-> text, acked |-> BaseOfRun(e, shown),
   conflict |-> IF e.draft # None THEN e.conflict ELSE None,
   version |-> e.version + 1, inFlight |-> e.inFlight]

(* noteFieldSend *)
NoteSend(e, version) ==
  IF version = 0 \/ e.status = "none" THEN e
  ELSE [status |-> IF e.version = version /\ e.status = "pending" THEN "saving" ELSE e.status,
        draft |-> e.draft, acked |-> e.acked, conflict |-> e.conflict,
        version |-> e.version, inFlight |-> e.inFlight + 1]

(* noteFieldSettled: only the newest version decides what the field says;   *)
(* any confirmed one is what the server holds now.                          *)
AnyDecides(e, version) == TRUE
Decides(e, version) == e.version = version
CountedDown(n) == n - 1
NoLessThanNone(n) == IF n > 0 THEN n - 1 ELSE 0
NoteSettled(e, version, text, ok, other) ==
  LET left == NoLessThanNone(e.inFlight)
      now(status, draft, conflict) ==
        [status |-> status, draft |-> draft, acked |-> IF ok THEN text ELSE e.acked,
         conflict |-> conflict, version |-> e.version, inFlight |-> left]
  IN IF version = 0 \/ e.status = "none" THEN e
     ELSE IF ~Decides(e, version) \/ (ok /\ left > 0) THEN now(e.status, e.draft, e.conflict)
     ELSE IF ok THEN now("saved", None, None)
     ELSE now("failed", e.draft, IF other # None THEN other ELSE e.conflict)

NoBatch == [texts |-> NoTexts, by |-> None]
NoWire == [at |-> "idle", base |-> NoTexts, field |-> None, other |-> None]

(* A request carries texts and, per field, the text it means to replace. *)
Carries(texts, f) == texts[f] # None
Clashes(texts, base) ==
  {f \in Fields : base[f] # None /\ stored[f] # base[f] /\ stored[f] # texts[f]}
Merged(texts) == [f \in Fields |-> IF texts[f] # None THEN texts[f] ELSE stored[f]]

(* What a field shows: the draft while one is held, else the board; under a *)
(* failed save also what the server has now, or the conflict's other text.  *)
Shown(f) ==
  IF user = None THEN {}
  ELSE IF entry[f].draft = None THEN {board[f]}
  ELSE {entry[f].draft}
       \cup IF entry[f].status # "failed" THEN {}
            ELSE IF entry[f].conflict = None THEN {board[f]} ELSE {entry[f].conflict}
Remembers == known' = [f \in Fields |-> known[f] \cup Shown(f)']

(* The queue's next batch leaves, or is passed over, before anything else   *)
(* happens in the browser.                                                  *)
Due == queue # <<>> /\ wire.at = "idle"
-----------------------------------------------------------------------------
Init ==
  /\ stored = [f \in Fields |-> Blank] /\ late = {}
  /\ user = None
  /\ board = stored /\ snap = NoSnap
  /\ entry = NoEntries
  /\ batch = NoBatch /\ queue = <<>> /\ wire = NoWire
  /\ bounds = [edits |-> 0, fails |-> 0, others |-> 0, logins |-> 0, reloads |-> 0]
  /\ known = [f \in Fields |-> {}]
  /\ typed = NoTexts /\ landed = [f \in Fields |-> FALSE] /\ revenant = FALSE

MayFail == bounds.fails < MaxFails /\ bounds' = [bounds EXCEPT !.fails = @ + 1]
-----------------------------------------------------------------------------
(* The funnel every edit of a card passes through, `e` being the entry the  *)
(* edit finds.  A retry («Erneut speichern») is an edit to the kept draft.  *)
Enter(f, text, e) ==
  /\ bounds.edits < MaxEdits
  /\ bounds' = [bounds EXCEPT !.edits = @ + 1]
  /\ entry' = [entry EXCEPT ![f] = NoteEdit(e, text, board[f])]
  /\ board' = [board EXCEPT ![f] = text]
  /\ snap' = NoSnap
  /\ batch' = [texts |-> [batch.texts EXCEPT ![f] = text], by |-> user]
  /\ typed' = [typed EXCEPT ![f] = text]
  /\ landed' = [landed EXCEPT ![f] = FALSE]
  /\ UNCHANGED <<server, user, queue, wire, revenant>>
  /\ Remembers

Edit(f, text) ==
  /\ user # None
  /\ Enter(f, text, entry[f])

(* resolveFieldConflict, offered under a field whose save was refused. *)
Asked(f) == user # None /\ entry[f].status = "failed" /\ entry[f].conflict # None

KeepMine(f) ==
  /\ Asked(f) /\ entry[f].draft # None
  /\ Enter(f, entry[f].draft, [entry[f] EXCEPT !.acked = entry[f].conflict, !.conflict = None])

TakeTheirs(f) ==
  /\ Asked(f)
  /\ entry' = [entry EXCEPT ![f] = NoEntry]
  /\ typed' = [typed EXCEPT ![f] = None]
  /\ landed' = [landed EXCEPT ![f] = FALSE]
  /\ UNCHANGED <<server, user, screen, pipe, bounds, revenant>>
  /\ Remembers

(* The debounce is over, or the page is being hidden: the batch is cut and  *)
(* noteFieldQueued pins which edits it carries.                             *)
Ticket ==
  [texts |-> batch.texts, by |-> batch.by,
   versions |-> [f \in Fields |->
     IF Carries(batch.texts, f) /\ batch.by = user THEN entry[f].version ELSE 0]]
Flush ==
  /\ batch # NoBatch /\ ~Due
  /\ queue' = Append(queue, Ticket)
  /\ batch' = NoBatch
  /\ UNCHANGED <<server, user, screen, entry, wire, bounds, history>>

(* The queued task starts: a write of a session that changed hands is       *)
(* dropped, the others leave with the texts they mean to replace.           *)
Anybodys(t) == TRUE
StillTheirs(t) == t.by = user
VersionNow(t, f) == IF Carries(t.texts, f) /\ t.by = user THEN entry[f].version ELSE 0
PinnedVersion(t, f) == t.versions[f]
BaseOf(t) ==
  [f \in Fields |-> IF t.versions[f] # 0 /\ t.by = user THEN entry[f].acked ELSE None]
Leaves ==
  /\ Due
  /\ LET t == Head(queue)
     IN IF StillTheirs(t)
        THEN /\ wire' = [at |-> "out", base |-> BaseOf(t), field |-> None, other |-> None]
             /\ entry' = [f \in Fields |-> NoteSend(entry[f], PinnedVersion(t, f))]
             /\ UNCHANGED queue
        ELSE /\ queue' = Tail(queue)
             /\ UNCHANGED <<wire, entry>>
  /\ UNCHANGED <<server, user, screen, batch, bounds, history>>

(* The PATCH, under the row lock: all its fields or none. *)
Writes(texts) ==
  /\ stored' = Merged(texts)
  /\ landed' = [f \in Fields |-> landed[f] \/ (texts[f] # None /\ texts[f] = typed[f])]
  /\ bounds' = IF revenant THEN [bounds EXCEPT !.others = @ + 1] ELSE bounds

ServerTakes ==
  /\ wire.at = "out"
  /\ LET t == Head(queue)
     IN IF Clashes(t.texts, wire.base) = {}
        THEN /\ Writes(t.texts)
             /\ wire' = [at |-> "stored", base |-> wire.base, field |-> None, other |-> None]
        ELSE /\ \E f \in Clashes(t.texts, wire.base) :
                  wire' = [at |-> "refused", base |-> wire.base, field |-> f, other |-> stored[f]]
             /\ UNCHANGED <<stored, landed, bounds>>
  /\ UNCHANGED <<late, user, screen, entry, batch, queue, known, typed, revenant>>

ServerFails ==
  /\ wire.at = "out"
  /\ MayFail
  /\ wire' = [at |-> "error", base |-> wire.base, field |-> None, other |-> None]
  /\ UNCHANGED <<server, user, screen, entry, batch, queue, history>>

(* A request the browser gave up on arrives after all. *)
LateArrives(r) ==
  /\ r \in late
  /\ late' = late \ {r}
  /\ IF Clashes(r.texts, r.base) = {}
     THEN Writes(r.texts)
     ELSE UNCHANGED <<stored, landed, bounds>>
  /\ UNCHANGED <<user, screen, entry, pipe, known, typed, revenant>>

(* noteFieldSettled, of the entries in the ticket's scope only; the queue   *)
(* goes on, whatever became of the request.                                 *)
Poisoned(ok) == IF ok THEN Tail(queue) ELSE <<>>
Behind(ok) == Tail(queue)
Settles(ok, field, other) ==
  LET t == Head(queue)
  IN /\ entry' = [f \in Fields |->
                    IF t.by = user
                    THEN NoteSettled(entry[f], PinnedVersion(t, f), t.texts[f], ok,
                                     IF f = field THEN other ELSE None)
                    ELSE entry[f]]
     /\ queue' = Behind(ok)
     /\ wire' = NoWire
     /\ UNCHANGED <<user, screen, batch, typed, landed, revenant>>
     /\ Remembers

Answered ==
  /\ wire.at \in {"stored", "refused", "error"}
  /\ Settles(wire.at = "stored", wire.field, wire.other)
  /\ UNCHANGED <<server, bounds>>

(* No answer within REQUEST_TIMEOUT_MS. *)
Unanswered ==
  /\ wire.at \in {"out", "stored", "refused"}
  /\ MayFail
  /\ late' = IF wire.at = "out"
             THEN late \cup {[texts |-> Head(queue).texts, base |-> wire.base]} ELSE late
  /\ Settles(FALSE, None, None)
  /\ UNCHANGED stored

(* A board load; an edit made meanwhile outdates it. *)
LoadReads ==
  /\ user # None /\ snap = NoSnap
  /\ snap' = stored
  /\ UNCHANGED <<server, user, board, entry, pipe, bounds, history>>

LoadPaints ==
  /\ user # None /\ snap # NoSnap
  /\ board' = snap /\ snap' = NoSnap
  /\ UNCHANGED <<server, user, entry, pipe, bounds, typed, landed, revenant>>
  /\ Remembers

(* setFieldSaveScope.  What was typed is debounced for half a second, which *)
(* is over before anybody has signed in.                                    *)
SignsOut ==
  /\ user # None
  /\ user' = None
  /\ entry' = NoEntries
  /\ typed' = NoTexts /\ landed' = [f \in Fields |-> FALSE]
  /\ UNCHANGED <<server, screen, pipe, bounds, known, revenant>>

SignsIn(u) ==
  /\ user = None /\ batch = NoBatch
  /\ bounds.logins < MaxLogins
  /\ bounds' = [bounds EXCEPT !.logins = @ + 1]
  /\ user' = u
  /\ revenant' = (revenant \/ \E i \in DOMAIN queue : queue[i].by = u)
  /\ UNCHANGED <<server, screen, entry, pipe, typed, landed>>
  /\ Remembers

(* The page is reloaded or the tab closed, and opened again.  A batch still *)
(* debounced is flushed on the way out and leaves if nothing is ahead of    *)
(* it; what waits in the queue does not leave.                              *)
Departing ==
  LET sent == [texts |-> IF queue = <<>> THEN batch.texts ELSE Head(queue).texts,
               base |-> IF queue = <<>> THEN BaseOf(Ticket) ELSE wire.base]
  IN IF wire.at = "out" \/ (queue = <<>> /\ batch # NoBatch /\ batch.by = user)
     THEN {sent} ELSE {}
Reload ==
  /\ bounds.reloads < MaxReloads
  /\ bounds' = [bounds EXCEPT !.reloads = @ + 1]
  /\ \/ late' = late \cup Departing
     \/ late' = late
  /\ board' = stored /\ snap' = NoSnap
  /\ entry' = NoEntries
  /\ batch' = NoBatch /\ queue' = <<>> /\ wire' = NoWire
  /\ typed' = NoTexts /\ landed' = [f \in Fields |-> FALSE]
  /\ UNCHANGED <<stored, user, revenant>>
  /\ Remembers

(* Another board, the field device's door, the intake form. *)
SomebodyWrites(f, text) ==
  /\ text # stored[f]
  /\ bounds.others < MaxOthers
  /\ bounds' = [bounds EXCEPT !.others = @ + 1]
  /\ stored' = [stored EXCEPT ![f] = text]
  /\ UNCHANGED <<late, user, screen, entry, pipe, history>>

Typing == \E f \in Fields :
            KeepMine(f) \/ TakeTheirs(f) \/ \E text \in Texts : Edit(f, text)
Session == SignsOut \/ Reload \/ \E u \in Users : SignsIn(u)

Next ==
  \/ ~Due /\ (Typing \/ Session \/ Flush \/ Answered \/ Unanswered \/ LoadReads \/ LoadPaints)
  \/ Leaves
  \/ ServerTakes \/ ServerFails
  \/ \E r \in late : LateArrives(r)
  \/ \E f \in Fields, text \in Texts : SomebodyWrites(f, text)

Spec == Init /\ [][Next]_vars

(* Timers fire and a request is answered or given up on. *)
FairSpec ==
  /\ Spec
  /\ WF_vars(Flush) /\ WF_vars(Leaves) /\ WF_vars(ServerTakes) /\ WF_vars(Answered)
-----------------------------------------------------------------------------
Entries == [status : {"none", "pending", "saving", "saved", "failed"},
            draft : Texts \cup {None}, acked : Texts \cup {None},
            conflict : Texts \cup {None}, version : Nat, inFlight : Nat]
MaybeTexts == [Fields -> Texts \cup {None}]
Tickets == [texts : MaybeTexts, by : Users, versions : [Fields -> Nat]]

(* Type invariant. *)
TypeOK ==
  /\ stored \in [Fields -> Texts] /\ late \subseteq [texts : MaybeTexts, base : MaybeTexts]
  /\ user \in Users \cup {None}
  /\ board \in [Fields -> Texts] /\ snap \in {NoSnap} \cup [Fields -> Texts]
  /\ entry \in [Fields -> Entries]
  /\ batch \in {NoBatch} \cup [texts : MaybeTexts, by : Users]
  /\ queue \in Seq(Tickets)
  /\ wire \in [at : {"idle", "out", "stored", "refused", "error"}, base : MaybeTexts,
               field : Fields \cup {None}, other : Texts \cup {None}]
  /\ bounds \in [edits : Nat, fails : Nat, others : Nat, logins : Nat, reloads : Nat]
  /\ known \in [Fields -> SUBSET Texts] /\ typed \in MaybeTexts
  /\ landed \in [Fields -> BOOLEAN] /\ revenant \in BOOLEAN

(* "«Gespeichert» means ONE thing here: the server answered the PATCH that  *)
(* carried the newest text of that field", never while a newer keystroke is *)
(* still queued or in flight behind it (field-save.ts:5-8).  Two sessions   *)
(* of one user break it.                                                    *)
UnderWay(f) ==
  \/ Carries(batch.texts, f)
  \/ \E i \in DOMAIN queue : queue[i].by = user /\ Carries(queue[i].texts, f)
SavedMeansStored ==
  \A f \in Fields : entry[f].status = "saved" => landed[f] /\ ~UnderWay(f)

(* The same as long as nobody signed in again while a batch of theirs was   *)
(* still on its way: the drafts were dropped then, and the versions that    *)
(* tell the batches apart start anew.                                       *)
SavedIsStored == revenant \/ SavedMeansStored

(* A text the server has not taken is held until it is: as the field's      *)
(* draft, for as long as its author neither gave it up nor left.            *)
DraftIsKept ==
  \A f \in Fields : ~revenant /\ typed[f] # None /\ ~landed[f] => entry[f].draft = typed[f]

(* No text is replaced unseen: what this browser's saves replace was on its *)
(* screen, or was typed in it, under whichever of its users (`text_base`,   *)
(* `_guard_text_base`).  As above, up to a batch that outlived its session: *)
(* its versions then agree with later ones by chance, and so may its base.  *)
NoSilentOverwrite ==
  [][~revenant /\ bounds'.others = bounds.others =>
       \A f \in Fields : stored'[f] # stored[f] => stored[f] \in known[f]]_vars

(* Each field is a register with that promise.  The save of a batch that    *)
(* outlived its session counts as somebody else's.                          *)
Says(f) ==
  IF entry[f].status = "none" THEN "quiet"
  ELSE IF entry[f].status = "failed" THEN "unsaved"
  ELSE IF entry[f].status = "saved" /\ ~revenant THEN "saved" ELSE "working"
Register(f) == INSTANCE TextRegister
  WITH text <- stored[f], others <- bounds.others, known <- known[f], newest <- typed[f],
       landed <- landed[f], told <- Says(f)
KeepsItsPromise ==
  /\ \A f \in Fields : Register(f)!Init
  /\ [][\A f \in Fields : [Register(f)!Next]_(Register(f)!vars)]_vars

(* No field says «Wird gespeichert …» for ever. *)
SettlesInTheEnd ==
  \A f \in Fields : entry[f].status \in {"pending", "saving"}
                      ~> entry[f].status \notin {"pending", "saving"}
=============================================================================
